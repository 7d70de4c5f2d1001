-------------------------- MODULE WriteLanesProofs ---------------------------
(***************************************************************************)
(* Proofs about the cache's write-behind lanes, for every number of         *)
(* threads, lanes and operations: the lanes account for their bytes and     *)
(* tokens, apply every operation once and in order, and a flush that        *)
(* returns has waited for what was sent before it.                          *)
(*                                                                          *)
(* The accounting is in sums over finite sets of threads and queue          *)
(* positions, so that it begins with what such sums obey.                   *)
(***************************************************************************)
EXTENDS WriteLanes, FiniteSetTheorems, SequenceTheorems, WellFoundedInduction, TLAPS

-----------------------------------------------------------------------------
\* Sums over finite sets

\* The sums of the community modules fold a set in the order in which CHOOSE takes it
\* apart.  A fold is characterised by its recursion.
Pick(s) == CHOOSE x \in s : TRUE
IsFold(g, f, S) ==
  g = [s \in SUBSET S |-> IF s = {} THEN 0 ELSE f[Pick(s)] + g[s \ {Pick(s)}]]
FoldOf(f, S) == CHOOSE g : IsFold(g, f, S)

\* What the library's definition of a sum unfolds to.
LEMMA SumIsFoldOf ==
  ASSUME NEW f, NEW S
  PROVE  SumFunctionOnSet(f, S) = FoldOf(f, S)[S]
BY DEF SumFunctionOnSet, FoldFunctionOnSet, MapThenFoldSet, FoldOf, IsFold, Pick

\* A nonempty set of finite sets has a minimal member: the induction all sums below rest on.
LEMMA SmallestSet ==
  ASSUME NEW T, T # {}, \A x \in T : IsFiniteSet(x)
  PROVE \E x \in T : \A y \in T : y \subseteq x => y = x
<1> DEFINE S == UNION T
<1>1. IsWellFoundedOn(StrictSubsetOrdering(S), FiniteSubsetsOf(S))
  BY FS_StrictSubsetOrderingWellFounded
<1>2. T \subseteq FiniteSubsetsOf(S)
  BY DEF FiniteSubsetsOf
<1>3. PICK x \in T : \A y \in T : ~ (<<y, x>> \in StrictSubsetOrdering(S))
  BY <1>1, <1>2, WFMin, Zenon
<1>4. ASSUME NEW y \in T, y \subseteq x, y # x PROVE FALSE
  <2>1. <<y, x>> \in StrictSubsetOrdering(S)
    BY <1>4 DEF StrictSubsetOrdering
  <2> QED BY <2>1, <1>3
<1> QED BY <1>4

\* Two folds of f agree wherever both are defined.
LEMMA FoldsAgree ==
  ASSUME NEW f, NEW A, NEW B, IsFiniteSet(A), NEW g, NEW h, IsFold(g, f, A), IsFold(h, f, B), NEW s,
         s \subseteq A, s \subseteq B
  PROVE  g[s] = h[s]
<1> DEFINE Bad == {t \in SUBSET s : g[t] # h[t]}
<1>1. ASSUME g[s] # h[s] PROVE FALSE
  <2>1. Bad # {} /\ \A x \in Bad : IsFiniteSet(x)
    BY <1>1, FS_Subset
  <2>2. PICK t \in Bad : \A y \in Bad : y \subseteq t => y = t
    <3> HIDE DEF Bad
    <3> QED BY <2>1, SmallestSet
  <2>3. t # {}
    BY DEF IsFold
  <2>4. Pick(t) \in t
    BY <2>3 DEF Pick
  <2>5. t \ {Pick(t)} \notin Bad
    BY <2>2, <2>4
  <2>6. g[t \ {Pick(t)}] = h[t \ {Pick(t)}]
    BY <2>5
  <2>7. g[t] = f[Pick(t)] + g[t \ {Pick(t)}] /\ h[t] = f[Pick(t)] + h[t \ {Pick(t)}]
    BY <2>3 DEF IsFold
  <2> QED BY <2>6, <2>7
<1> QED BY <1>1

\* A finite set has a fold, so that the one the library chooses is one.
LEMMA FoldExists ==
  ASSUME NEW f, NEW S, IsFiniteSet(S)
  PROVE  IsFold(FoldOf(f, S), f, S)
<1> DEFINE Bad == {s \in SUBSET S : ~ \E g : IsFold(g, f, s)}
<1>1. ASSUME Bad # {} PROVE FALSE
  <2>1. \A x \in Bad : IsFiniteSet(x)
    BY FS_Subset
  <2>2. PICK s \in Bad : \A y \in Bad : y \subseteq s => y = s
    <3> HIDE DEF Bad
    <3> QED BY <1>1, <2>1, SmallestSet
  <2> DEFINE v(t) == FoldOf(f, t)[t]
             body(t) == IF t = {} THEN 0 ELSE f[Pick(t)] + v(t \ {Pick(t)})
             g == [t \in SUBSET s |-> body(t)]
  <2>3. ASSUME NEW t \in SUBSET s, t # s PROVE IsFold(FoldOf(f, t), f, t)
    <3>1. t \notin Bad
      BY <2>2, <2>3
    <3>2. \E h : IsFold(h, f, t)
      BY <3>1
    <3> QED BY <3>2 DEF FoldOf
  <2>4. ASSUME NEW t \in SUBSET s, t # s PROVE v(t) = body(t)
    <3>1. IsFold(FoldOf(f, t), f, t)
      BY <2>3, <2>4
    <3>2. CASE t = {}
      BY <3>1, <3>2 DEF IsFold
    <3>3. CASE t # {}
      <4> DEFINE u == t \ {Pick(t)}
      <4>1. Pick(t) \in t
        BY <3>3 DEF Pick
      <4>2. u \subseteq t /\ u \subseteq s /\ u # s
        BY <4>1
      <4>3. IsFold(FoldOf(f, u), f, u)
        BY <4>2, <2>3
      <4>4. IsFiniteSet(t)
        BY FS_Subset
      <4>5. FoldOf(f, t)[u] = FoldOf(f, u)[u]
        BY <3>1, <4>2, <4>3, <4>4, FoldsAgree
      <4>6. v(t) = f[Pick(t)] + FoldOf(f, t)[u]
        BY <3>1, <3>3 DEF IsFold
      <4> QED BY <4>5, <4>6, <3>3
    <3> QED BY <3>2, <3>3
  <2>5. ASSUME NEW t \in SUBSET s, t # {} PROVE g[t \ {Pick(t)}] = v(t \ {Pick(t)})
    <3>1. Pick(t) \in t
      BY <2>5 DEF Pick
    <3>2. t \ {Pick(t)} \in SUBSET s /\ t \ {Pick(t)} # s
      BY <3>1
    <3> HIDE DEF v, body
    <3> QED BY <3>2, <2>4
  <2>6. IsFold(g, f, s)
    <3>1. ASSUME NEW t \in SUBSET s
          PROVE  body(t) = IF t = {} THEN 0 ELSE f[Pick(t)] + g[t \ {Pick(t)}]
      <4> HIDE DEF g, v
      <4> QED BY <2>5
    <3>2. g = [t \in SUBSET s |-> IF t = {} THEN 0 ELSE f[Pick(t)] + g[t \ {Pick(t)}]]
      <4> DEFINE rhs(t) == IF t = {} THEN 0 ELSE f[Pick(t)] + g[t \ {Pick(t)}]
      <4>1. \A t \in SUBSET s : body(t) = rhs(t)
        BY <3>1
      <4>2. [t \in SUBSET s |-> body(t)] = [t \in SUBSET s |-> rhs(t)]
        <5> HIDE DEF body, rhs
        <5> QED BY <4>1
      <4>3. g = [t \in SUBSET s |-> rhs(t)]
        <5> HIDE DEF body, rhs
        <5> QED BY <4>2
      <4> HIDE DEF g
      <4> QED BY <4>3
    <3> HIDE DEF g
    <3> QED BY <3>2 DEF IsFold
  <2> QED BY <2>2, <2>6
<1>2. S \notin Bad
  BY <1>1
<1>3. \E g : IsFold(g, f, S)
  BY <1>2
<1> QED BY <1>3 DEF FoldOf
----
LEMMA SumEmpty ==
  ASSUME NEW f
  PROVE  SumFunctionOnSet(f, {}) = 0
<1>1. IsFold(FoldOf(f, {}), f, {})
  BY FoldExists, FS_EmptySet
<1> QED BY <1>1, SumIsFoldOf DEF IsFold

\* The sum in the order in which CHOOSE takes the set apart,
LEMMA SumStep ==
  ASSUME NEW f, NEW S, IsFiniteSet(S), S # {}
  PROVE  SumFunctionOnSet(f, S) = f[Pick(S)] + SumFunctionOnSet(f, S \ {Pick(S)})
<1> DEFINE R == S \ {Pick(S)}
<1>1. IsFiniteSet(R)
  BY FS_Subset
<1>2. IsFold(FoldOf(f, S), f, S) /\ IsFold(FoldOf(f, R), f, R)
  BY <1>1, FoldExists
<1>3. FoldOf(f, S)[R] = FoldOf(f, R)[R]
  BY <1>2, FoldsAgree, SMTT(30)
<1>4. FoldOf(f, S)[S] = f[Pick(S)] + FoldOf(f, S)[R]
  BY <1>2 DEF IsFold
<1> QED BY <1>3, <1>4, SumIsFoldOf

LEMMA SumNat ==
  ASSUME NEW f, NEW S, IsFiniteSet(S), \A x \in S : f[x] \in Nat
  PROVE  SumFunctionOnSet(f, S) \in Nat
<1> DEFINE Bad == {s \in SUBSET S : SumFunctionOnSet(f, s) \notin Nat}
<1>1. ASSUME Bad # {} PROVE FALSE
  <2>1. \A x \in Bad : IsFiniteSet(x)
    BY FS_Subset
  <2>2. PICK s \in Bad : \A y \in Bad : y \subseteq s => y = s
    <3> HIDE DEF Bad
    <3> QED BY <1>1, <2>1, SmallestSet
  <2>3. s # {}
    BY SumEmpty
  <2>4. Pick(s) \in s
    BY <2>3 DEF Pick
  <2>5. SumFunctionOnSet(f, s \ {Pick(s)}) \in Nat
    BY <2>2, <2>4
  <2>6. SumFunctionOnSet(f, s) = f[Pick(s)] + SumFunctionOnSet(f, s \ {Pick(s)})
    BY <2>1, <2>3, SumStep
  <2> QED BY <2>4, <2>5, <2>6
<1> QED BY <1>1

\* and in any other order: every element may be taken out first.
LEMMA SumRemove ==
  ASSUME NEW f, NEW S, IsFiniteSet(S), \A y \in S : f[y] \in Nat, NEW x \in S
  PROVE  SumFunctionOnSet(f, S) = f[x] + SumFunctionOnSet(f, S \ {x})
<1> DEFINE Total(s) == SumFunctionOnSet(f, s)
           Bad == {s \in SUBSET S : \E y \in s : Total(s) # f[y] + Total(s \ {y})}
<1>1. ASSUME Bad # {} PROVE FALSE
  <2>1. \A y \in Bad : IsFiniteSet(y)
    BY FS_Subset
  <2>2. PICK s \in Bad : \A y \in Bad : y \subseteq s => y = s
    <3> HIDE DEF Bad
    <3> QED BY <1>1, <2>1, SmallestSet
  <2>3. PICK y \in s : Total(s) # f[y] + Total(s \ {y})
    OBVIOUS
  <2> DEFINE p == Pick(s)
             r == (s \ {p}) \ {y}
  <2>4. p \in s /\ IsFiniteSet(s)
    BY <2>1, <2>3 DEF Pick
  <2>5. Total(s) = f[p] + Total(s \ {p})
    BY <2>3, <2>4, SumStep
  <2> HIDE DEF p
  <2>6. y # p
    BY <2>3, <2>5
  <2>7. s \ {p} \notin Bad /\ s \ {y} \notin Bad
    BY <2>2, <2>4
  <2>8. Total(s \ {p}) = f[y] + Total(r)
    BY <2>6, <2>7
  <2>9. Total(s \ {y}) = f[p] + Total((s \ {y}) \ {p})
    BY <2>4, <2>6, <2>7
  <2>10. (s \ {y}) \ {p} = r
    OBVIOUS
  <2>11. f[y] \in Nat /\ f[p] \in Nat /\ Total(r) \in Nat
    <3>1. IsFiniteSet(r) /\ \A z \in r : f[z] \in Nat
      BY <2>4, FS_Subset
    <3> HIDE DEF r
    <3> QED BY <2>4, <3>1, SumNat
  <2>12. Total(s) = f[p] + (f[y] + Total(r)) /\ Total(s \ {y}) = f[p] + Total(r)
    BY <2>5, <2>8, <2>9, <2>10
  <2>13. Total(s) = f[y] + Total(s \ {y})
    <3> HIDE DEF Total, r
    <3> QED BY <2>11, <2>12
  <2> QED BY <2>3, <2>13
<1>2. S \notin Bad
  BY <1>1
<1> QED BY <1>2

LEMMA SumAdd ==
  ASSUME NEW f, NEW S, IsFiniteSet(S), NEW x, x \notin S, \A y \in S \cup {x} : f[y] \in Nat
  PROVE  SumFunctionOnSet(f, S \cup {x}) = f[x] + SumFunctionOnSet(f, S)
<1>1. IsFiniteSet(S \cup {x})
  BY FS_AddElement
<1>2. (S \cup {x}) \ {x} = S
  OBVIOUS
<1> QED BY <1>1, <1>2, SumRemove

\* A renaming of the elements keeps the sum.
LEMMA SumBijection ==
  ASSUME NEW f, NEW h, NEW S, NEW b, IsFiniteSet(S),
         \A x \in S : f[x] \in Nat /\ h[b[x]] = f[x],
         \A x, y \in S : b[x] = b[y] => x = y
  PROVE  SumFunctionOnSet(h, {b[x] : x \in S}) = SumFunctionOnSet(f, S)
<1> DEFINE Im(s) == {b[x] : x \in s}
           Bad == {s \in SUBSET S : SumFunctionOnSet(h, Im(s)) # SumFunctionOnSet(f, s)}
<1>1. ASSUME Bad # {} PROVE FALSE
  <2>1. \A y \in Bad : IsFiniteSet(y)
    BY FS_Subset
  <2>2. PICK s \in Bad : \A y \in Bad : y \subseteq s => y = s
    <3> HIDE DEF Bad
    <3> QED BY <1>1, <2>1, SmallestSet
  <2>3. s # {}
    <3>1. Im({}) = {}
      OBVIOUS
    <3> QED BY <3>1, SumEmpty
  <2>4. PICK x \in s : TRUE
    BY <2>3
  <2>5. SumFunctionOnSet(h, Im(s \ {x})) = SumFunctionOnSet(f, s \ {x})
    BY <2>2
  <2>6. Im(s \ {x}) = Im(s) \ {b[x]}
    OBVIOUS
  <2>7. IsFiniteSet(s) /\ \A y \in s : f[y] \in Nat
    BY <2>1
  <2>8. IsFiniteSet(Im(s)) /\ b[x] \in Im(s) /\ \A z \in Im(s) : h[z] \in Nat
    <3> DEFINE c == [y \in s |-> b[y]]
    <3>1. c \in Surjection(s, Im(s))
      BY DEF Surjection
    <3>2. IsFiniteSet(Im(s))
      BY <3>1, <2>7, FS_Surjection
    <3> QED BY <3>2
  <2>9. SumFunctionOnSet(f, s) = f[x] + SumFunctionOnSet(f, s \ {x})
    BY <2>7, SumRemove
  <2>10. SumFunctionOnSet(h, Im(s)) = h[b[x]] + SumFunctionOnSet(h, Im(s) \ {b[x]})
    <3> HIDE DEF Im
    <3> QED BY <2>8, SumRemove
  <2> QED BY <2>2, <2>5, <2>6, <2>9, <2>10
<1>2. S \notin Bad
  BY <1>1
<1> QED BY <1>2

LEMMA SumSame ==
  ASSUME NEW f, NEW h, NEW S, IsFiniteSet(S), \A x \in S : f[x] \in Nat /\ h[x] = f[x]
  PROVE  SumFunctionOnSet(h, S) = SumFunctionOnSet(f, S)
<1> DEFINE b == [x \in S |-> x]
<1>1. {b[x] : x \in S} = S
  OBVIOUS
<1>2. SumFunctionOnSet(h, {b[x] : x \in S}) = SumFunctionOnSet(f, S)
  <2>1. \A x \in S : f[x] \in Nat /\ h[b[x]] = f[x]
    OBVIOUS
  <2>2. \A x, y \in S : b[x] = b[y] => x = y
    OBVIOUS
  <2> HIDE DEF b
  <2> QED BY <2>1, <2>2, SumBijection
<1> QED BY <1>1, <1>2

-----------------------------------------------------------------------------
\* The write lanes: types

\* The inductive invariant.  Its parts: the types, in groups;
LaneTypes ==
    /\ lane \in [Lane -> Seq(Op)] /\ \A l \in Lane : Len(lane[l]) <= LaneCapacity
    /\ pending \in [Lane -> Seq(Op)] /\ \A l \in Lane : Len(pending[l]) <= 1
    /\ hand \in Seq(Op) /\ Len(hand) <= 1
    /\ sent \in [Lane -> Seq(Op)] /\ done \in [Lane -> Seq(Op)]
Place == {"idle", "reserve", "send", "undo", "sched", "token", "await"}
ThreadTypes ==
    /\ pc \in [Thread -> Place] /\ at \in [Thread -> Lane]
    /\ cost \in [Thread -> Cost \cup {0}]
    /\ left \in [Thread -> 0..MaxOps]
TokenTypes ==
    /\ ready \in Seq(Lane) /\ localReady \in Seq(Lane)
    /\ wpc \in {"next", "take", "clear", "apply", "finish", "fin_clear", "fin_check", "fin_cas", "done"}
    /\ turn \in Lane
BitTypes == scheduled \in [Lane -> BOOLEAN] /\ closed \in BOOLEAN
CountTypes ==
    /\ queued \in [Lane -> Int] /\ seen \in [Thread -> Int]
    /\ acks \in [Flusher -> Int]
    /\ mark \in [Flusher -> [Lane -> Nat]]
Typed == LaneTypes /\ ThreadTypes /\ TokenTypes /\ BitTypes /\ CountTypes

\* what the writer has in hand and kept, by its place;
TurnInv ==
    /\ hand # <<>> <=> wpc = "apply"
    /\ wpc \in {"apply", "clear", "finish", "fin_clear", "fin_check"} => pending[turn] = <<>>

USE DEF threadVars, writerVars, Goto

LEMMA OneElement ==
  ASSUME NEW S, NEW s \in Seq(S), s # <<>>
  PROVE  Len(s) > 0 /\ Len(s) \in Nat /\ Head(s) \in S /\ s[1] = Head(s) /\ <<Head(s)>> \in Seq(S)
          /\ Len(<<Head(s)>>) = 1
         /\ Tail(s) \in Seq(S) /\ Len(Tail(s)) = Len(s) - 1
  OBVIOUS

\* What the assumptions say of the constants, in the form the steps need.
LEMMA LaneConst ==
  /\ NumLanes \in Nat /\ NumLanes > 0 /\ 1 \in Lane /\ LaneCapacity \in Nat /\ LaneCapacity > 0
      /\ WriterBudget \in Nat /\ MaxOps \in Nat
  /\ (\A c \in Cost \cup {0} : c \in Nat) /\ Lane \subseteq Nat /\ \A l \in Lane : l <= NumLanes
      /\ (l < NumLanes => l + 1 \in Lane)
  /\ Producer \subseteq Thread /\ Flusher \subseteq Thread
  /\ \A p \in Producer : p \notin Flusher
BY LaneAssumption, CostAssumption, MaxOpsAssumption, ThreadAssumption DEF Lane, Thread

LEMMA InitTyped == Init => Typed /\ TurnInv
<1> SUFFICES ASSUME Init PROVE Typed /\ TurnInv
  OBVIOUS
<1>1. LaneTypes
  BY LaneConst DEF Init, LaneTypes
<1>2. ThreadTypes
  BY LaneConst DEF Init, ThreadTypes, Place
<1>3. TokenTypes
  BY LaneConst DEF Init, TokenTypes
<1>4. CountTypes
  BY LaneConst DEF Init, CountTypes
<1>5. TurnInv
  BY LaneConst DEF Init, TurnInv
<1>6. BitTypes
  BY LaneConst DEF Init, BitTypes
<1> QED BY <1>1, <1>2, <1>3, <1>4, <1>5, <1>6 DEF Typed

LEMMA LaneUpdate ==
  ASSUME NEW f \in [Lane -> Seq(Op)], NEW N \in Int, \A l \in Lane : Len(f[l]) <= N,
         NEW k \in Lane, NEW s \in Seq(Op), Len(s) <= N
  PROVE  /\ [f EXCEPT ![k] = s] \in [Lane -> Seq(Op)]
         /\ \A l \in Lane : Len([f EXCEPT ![k] = s][l]) <= N
OBVIOUS

LEMMA PushTyped ==
  ASSUME LaneTypes, ThreadTypes, NEW p \in Thread, Push(p), Len(lane[at[p]]) < LaneCapacity,
         UNCHANGED <<pending, hand, done>>
  PROVE  LaneTypes'
<1> DEFINE op == [by |-> p, n |-> left[p], cost |-> cost[p]]
<1>1. op \in Op /\ at[p] \in Lane
  BY DEF ThreadTypes, Op
<1>2. lane' = [lane EXCEPT ![at[p]] = Append(@, op)] /\ sent' = [sent EXCEPT ![at[p]] = Append(@, op)]
  BY DEF Push
<1> HIDE DEF op
<1>3. sent' \in [Lane -> Seq(Op)]
  BY <1>1, <1>2 DEF LaneTypes
<1>4. lane' \in [Lane -> Seq(Op)]
  BY <1>1, <1>2 DEF LaneTypes
<1>5. ASSUME NEW l \in Lane PROVE Len(lane'[l]) <= LaneCapacity
  <2>1. CASE l = at[p]
    <3>1. lane'[l] = Append(lane[l], op) /\ lane[l] \in Seq(Op)
      BY <1>1, <1>2, <2>1 DEF LaneTypes
    <3>2. Len(lane'[l]) = Len(lane[l]) + 1 /\ Len(lane[l]) \in Nat
      BY <3>1, <1>1
    <3> QED BY <3>2, <2>1, LaneConst
  <2>2. CASE l # at[p]
    BY <1>1, <1>2, <2>2 DEF LaneTypes
  <2> QED BY <2>1, <2>2
<1> QED BY <1>3, <1>4, <1>5 DEF LaneTypes

LEMMA LanesTyped ==
  ASSUME Typed, TurnInv, [Next]_vars
  PROVE  LaneTypes'
<1> USE DEF Typed
<1>0. /\ turn \in Lane
      /\ lane[turn] \in Seq(Op) /\ pending[turn] \in Seq(Op) /\ hand \in Seq(Op)
      /\ \A l \in Lane : lane[l] \in Seq(Op) /\ Len(lane[l]) \in Nat
  BY DEF LaneTypes, TokenTypes
<1>h. lane[turn] # <<>> => /\ Head(lane[turn]) \in Op /\ <<Head(lane[turn])>> \in Seq(Op)
       /\ Len(<<Head(lane[turn])>>) = 1
                        /\ Tail(lane[turn]) \in Seq(Op) /\ Len(Tail(lane[turn])) = Len(lane[turn]) - 1
                        /\ Len(Tail(lane[turn])) <= LaneCapacity
  BY <1>0, OneElement, LaneConst DEF LaneTypes
<1>1. CASE UNCHANGED <<lane, pending, hand, sent, done>>
  BY <1>1 DEF LaneTypes
<1>2. ASSUME NEW p \in Thread, TrySend(p) \/ SendBarrier(p) PROVE LaneTypes'
  BY <1>1, <1>2, PushTyped DEF TrySend, SendBarrier
<1> DEFINE first == <<Head(lane[turn])>>
           rest == Tail(lane[turn])
<1>3. CASE TakeReady
  <2>1. hand' \in Seq(Op) /\ Len(hand') <= 1
    <3>1. hand' = hand \/ hand' = pending[turn] \/ (hand' = first /\ lane[turn] # <<>>)
      BY <1>3 DEF TakeReady
    <3>2. hand \in Seq(Op) /\ Len(hand) <= 1 /\ pending[turn] \in Seq(Op) /\ Len(pending[turn]) <= 1
      BY <1>0 DEF LaneTypes
    <3>3. lane[turn] # <<>> => first \in Seq(Op) /\ Len(first) = 1
      BY <1>h
    <3>4. CASE hand' = hand
      BY <3>2, <3>4
    <3>5. CASE hand' = pending[turn]
      BY <3>2, <3>5
    <3>6. CASE hand' = first /\ lane[turn] # <<>>
      <4> QED BY <3>3, <3>6
    <3> QED BY <3>1, <3>4, <3>5, <3>6
  <2>2. pending' = pending \/ pending' = [pending EXCEPT ![turn] = <<>>]
    BY <1>3 DEF TakeReady
  <2>3. lane' = lane \/ (lane' = [lane EXCEPT ![turn] = Tail(@)] /\ lane[turn] # <<>>)
    BY <1>3 DEF TakeReady
  <2>4. pending' \in [Lane -> Seq(Op)] /\ \A l \in Lane : Len(pending'[l]) <= 1
    <3>1. <<>> \in Seq(Op) /\ Len(<<>>) = 0
      OBVIOUS
    <3>2. CASE pending' = pending
      BY <3>2 DEF LaneTypes
    <3>3. CASE pending' = [pending EXCEPT ![turn] = <<>>]
      <4>1. pending \in [Lane -> Seq(Op)] /\ \A l \in Lane : Len(pending[l]) <= 1
        BY DEF LaneTypes
      <4> QED BY <3>1, <3>3, <4>1, <1>0, LaneUpdate
    <3> QED BY <2>2, <3>2, <3>3
  <2>5. lane' \in [Lane -> Seq(Op)] /\ \A l \in Lane : Len(lane'[l]) <= LaneCapacity
    BY <2>3, <1>0, <1>h DEF LaneTypes
  <2> QED BY <2>1, <2>4, <2>5, <1>3 DEF TakeReady, LaneTypes
<1>4. CASE FinishTurn \/ FinishCheck
  <2>1. \/ UNCHANGED <<pending, lane>>
        \/ /\ lane[turn] # <<>> /\ lane' = [lane EXCEPT ![turn] = Tail(@)]
           /\ pending' = [pending EXCEPT ![turn] = first]
    BY <1>4 DEF FinishTurn, FinishCheck
  <2>2. UNCHANGED <<hand, sent, done>>
    BY <1>4 DEF FinishTurn, FinishCheck
  <2>3. CASE lane[turn] # <<>> /\ lane' = [lane EXCEPT ![turn] = Tail(@)]
              /\ pending' = [pending EXCEPT ![turn] = first]
    <3>1. first \in Seq(Op) /\ Len(first) = 1
      BY <2>3, <1>h
    <3>2. pending' \in [Lane -> Seq(Op)] /\ \A l \in Lane : Len(pending'[l]) <= 1
      <4>1. pending \in [Lane -> Seq(Op)] /\ \A l \in Lane : Len(pending[l]) <= 1
        BY DEF LaneTypes
      <4> QED BY <2>3, <3>1, <4>1, <1>0, LaneUpdate
    <3>3. lane' \in [Lane -> Seq(Op)] /\ \A l \in Lane : Len(lane'[l]) <= LaneCapacity
      BY <2>3, <1>0, <1>h DEF LaneTypes
    <3> QED BY <2>2, <3>2, <3>3 DEF LaneTypes
  <2> QED BY <1>1, <2>1, <2>2, <2>3
<1>5. CASE Apply
  <2>1. hand # <<>> /\ hand[1] \in Op
    BY <1>0, <1>5 DEF Apply, TurnInv
  <2>2. done' \in [Lane -> Seq(Op)]
    BY <2>1, <1>0, <1>5 DEF Apply, LaneTypes
  <2> QED BY <2>2, <1>5 DEF Apply, LaneTypes
<1> QED BY <1>1, <1>2, <1>3, <1>4, <1>5
    DEF Next, vars, TryInsert, Flush, ThreadStep, ReserveBytes, DropRefused, Schedule, SendToken,
                 Acknowledged, Shutdown, Writer, Collect, Pop, Exit, ClearStale, FinishClear, FinishCas

LEMMA ThreadsTyped ==
  ASSUME Typed, [Next]_vars
  PROVE  ThreadTypes'
<1> USE LaneConst DEF ThreadTypes, Typed, Place
<1>1. CASE UNCHANGED threadVars
  BY <1>1
<1>2. ASSUME NEW p \in Producer, NEW l \in Lane, NEW c \in Cost, TryInsert(p, l, c) PROVE ThreadTypes'
  BY <1>2 DEF TryInsert
<1>3. ASSUME NEW f \in Flusher, Flush(f) PROVE ThreadTypes'
  BY <1>3 DEF Flush
<1>4. ASSUME NEW p \in Thread, Scheduled(p), UNCHANGED <<cost, left>> PROVE ThreadTypes'
  <2>1. at[p] \in Lane /\ (at[p] < NumLanes => at[p] + 1 \in Lane)
    OBVIOUS
  <2> QED BY <1>4, <2>1 DEF Scheduled
<1>5. ASSUME NEW p \in Thread, NEW q \in Place, Goto(p, q), UNCHANGED <<at, cost, left>> PROVE ThreadTypes'
  BY <1>5
<1>6. ASSUME NEW p \in Thread, ThreadStep(p) PROVE ThreadTypes'
  BY <1>1, <1>4, <1>5, <1>6
      DEF ThreadStep, ReserveBytes, TrySend, DropRefused, SendBarrier, Schedule, SendToken, Acknowledged
<1> QED BY <1>1, <1>2, <1>3, <1>6 DEF Next, vars, Shutdown, Writer, Collect, Pop, Exit, TakeReady, ClearStale,
    Apply, FinishTurn, FinishClear, FinishCheck, FinishCas

LEMMA TokensTyped ==
  ASSUME Typed, [Next]_vars
  PROVE  TokenTypes'
<1> USE DEF TokenTypes, Typed
<1>1. CASE UNCHANGED <<ready, localReady, wpc, turn>>
  BY <1>1
<1>2. ASSUME NEW p \in Thread, Schedule(p) \/ SendToken(p) PROVE TokenTypes'
  <2>1. at[p] \in Lane
    BY DEF ThreadTypes
  <2> QED BY <2>1, <1>2 DEF Schedule, SendToken
<1>4. CASE Collect
  BY <1>4 DEF Collect
<1>5. CASE Pop
  BY <1>5 DEF Pop
<1>6. CASE FinishTurn \/ FinishCas
  <2>1. localReady' = localReady \/ localReady' = Append(localReady, turn)
    BY <1>6 DEF FinishTurn, FinishCas
  <2>2. localReady' \in Seq(Lane)
    BY <2>1
  <2>3. ready' = ready /\ turn' = turn /\ wpc' \in {"next", "fin_clear"}
    BY <1>6 DEF FinishTurn, FinishCas
  <2> QED BY <2>2, <2>3
<1>7. CASE Exit \/ TakeReady \/ ClearStale \/ Apply \/ FinishClear \/ FinishCheck
  BY <1>7 DEF Exit, TakeReady, ClearStale, Apply, FinishClear, FinishCheck
<1> QED BY <1>1, <1>2, <1>4, <1>5, <1>6, <1>7 DEF Next, vars, TryInsert, Flush, ThreadStep, ReserveBytes,
    TrySend, DropRefused, SendBarrier, Acknowledged, Shutdown, Writer

LEMMA BitsTyped ==
  ASSUME Typed, [Next]_vars
  PROVE  BitTypes'
<1>1. CASE UNCHANGED <<scheduled, closed>>
  BY <1>1 DEF BitTypes, Typed
<1>2. ASSUME NEW l \in Lane, \/ scheduled' = [scheduled EXCEPT ![l] = TRUE]
                             \/ scheduled' = [scheduled EXCEPT ![l] = FALSE],
             UNCHANGED closed
      PROVE  BitTypes'
  BY <1>2 DEF BitTypes, Typed
<1>3. turn \in Lane /\ \A p \in Thread : at[p] \in Lane
  BY DEF Typed, ThreadTypes, TokenTypes
<1>4. CASE Shutdown
  BY <1>4 DEF Shutdown, BitTypes, Typed
<1>5. ASSUME NEW p \in Thread, Schedule(p) PROVE BitTypes'
  BY <1>1, <1>2, <1>3, <1>5 DEF Schedule
<1>6. CASE ClearStale \/ FinishTurn \/ FinishClear \/ FinishCas
  BY <1>1, <1>2, <1>3, <1>6 DEF ClearStale, FinishTurn, FinishClear, FinishCas
<1> QED BY <1>1, <1>4, <1>5, <1>6 DEF Next, vars, TryInsert, Flush, ThreadStep, ReserveBytes, TrySend,
    DropRefused, SendBarrier, SendToken, Acknowledged,
            Writer, Collect, Pop, Exit, TakeReady, Apply, FinishCheck

LEMMA CountsTyped ==
  ASSUME Typed, TurnInv, [Next]_vars
  PROVE  CountTypes'
<1> USE LaneConst DEF CountTypes, Typed
<1>0. \A p \in Thread : at[p] \in Lane /\ cost[p] \in Int
  BY DEF ThreadTypes
<1>1. CASE UNCHANGED <<queued, seen, acks, mark>>
  BY <1>1
<1>2. ASSUME NEW p \in Producer, NEW l \in Lane, NEW c \in Cost, TryInsert(p, l, c) PROVE CountTypes'
  BY <1>2 DEF TryInsert
<1>3. ASSUME NEW f \in Flusher, Flush(f) PROVE CountTypes'
  <2>1. [l \in Lane |-> Len(sent[l])] \in [Lane -> Nat]
    BY DEF LaneTypes
  <2> QED BY <1>3, <2>1 DEF Flush
<1>4. ASSUME NEW p \in Thread, ReserveBytes(p) \/ DropRefused(p) PROVE CountTypes'
  <2>1. CASE DropRefused(p)
    <3>1. queued' = [queued EXCEPT ![at[p]] = @ - cost[p]] /\ UNCHANGED <<seen, acks, mark>>
      BY <2>1 DEF DropRefused
    <3>2. queued[at[p]] - cost[p] \in Int
      BY <1>0
    <3>3. queued' \in [Lane -> Int]
      BY <1>0, <3>1, <3>2
    <3> QED BY <3>1, <3>3
  <2>2. CASE ReserveBytes(p)
    <3>1. queued' \in [Lane -> Int]
      BY <1>0, <2>2 DEF ReserveBytes
    <3>2. seen' \in [Thread -> Int]
      BY <1>0, <2>2 DEF ReserveBytes
    <3> QED BY <3>1, <3>2, <2>2 DEF ReserveBytes
  <2> QED BY <1>4, <2>1, <2>2
<1>5. CASE Apply
  <2>1. hand # <<>> /\ hand[1] \in Op
    BY <1>5 DEF Apply, TurnInv, LaneTypes
  <2>2. hand[1].cost \in Int
    BY <2>1 DEF Op
  <2>3. turn \in Lane
    BY DEF TokenTypes
  <2> QED BY <2>2, <2>3, <1>5, SMTT(30) DEF Apply
<1> QED BY <1>1, <1>2, <1>3, <1>4, <1>5
    DEF Next, vars, ThreadStep, TrySend, SendBarrier, Schedule, SendToken, Acknowledged, Shutdown,
             Writer, Collect, Pop, Exit, TakeReady, ClearStale, FinishTurn, FinishClear, FinishCheck,
                FinishCas

LEMMA TurnStep ==
  ASSUME Typed, TurnInv, [Next]_vars
  PROVE  TurnInv'
<1>0. pending[turn] \in Seq(Op) /\ hand \in Seq(Op) /\ turn \in Lane /\ DOMAIN pending = Lane
  BY DEF Typed, LaneTypes, TokenTypes
<1>1. CASE UNCHANGED writerVars
  BY <1>1 DEF TurnInv
<1>2. CASE Collect \/ Pop \/ Exit \/ ClearStale \/ FinishTurn \/ FinishClear \/ FinishCheck \/ FinishCas
  BY <1>0, <1>2 DEF TurnInv, Collect, Pop, Exit, ClearStale, FinishTurn, FinishClear, FinishCheck, FinishCas
<1>3. CASE TakeReady
  BY <1>0, <1>3, SMTT(30) DEF TurnInv, TakeReady
<1>4. CASE Apply
  BY <1>0, <1>4 DEF TurnInv, Apply
<1> QED BY <1>1, <1>2, <1>3, <1>4 DEF Next, vars, TryInsert, Flush, ThreadStep, ReserveBytes, TrySend,
    DropRefused, SendBarrier, Schedule, SendToken, Acknowledged, Shutdown, Writer

-----------------------------------------------------------------------------
\* The write lanes: the backlog

\* that a barrier costs nothing and a flush is never refused;
FlusherInv ==
    /\ \A f \in Flusher : cost[f] = 0 /\ pc[f] \in {"idle", "send", "sched", "token", "await"}
    /\ \A l \in Lane : \A i \in DOMAIN Backlog(l) : Backlog(l)[i].by \in Flusher => Backlog(l)[i].cost = 0
OpOf(p) == [by |-> p, n |-> left[p], cost |-> cost[p]]

LEMMA ConcatFacts ==
  ASSUME NEW S, NEW s \in Seq(S)
  PROVE  /\ (<<>> \o <<>>) \o s = s /\ s \o <<>> = s /\ <<>> \o s = s
         /\ \A t \in Seq(S) : s \o t \in Seq(S)
         /\ \A t, u \in Seq(S) : (s \o t) \o u = s \o (t \o u)
         /\ \A e \in S : Append(s, e) = s \o <<e>> /\ <<e>> \in Seq(S)
         /\ \A e \in S : <<e>> \o s # <<>> /\ Head(<<e>> \o s) = e /\ Tail(<<e>> \o s) = s
         /\ s # <<>> => <<Head(s)>> \o Tail(s) = s /\ Tail(s) \in Seq(S) /\ Head(s) \in S
<1>1. (<<>> \o <<>>) \o s = s /\ s \o <<>> = s /\ <<>> \o s = s
  BY ConcatEmptySeq, EmptySeq
<1>2. \A t \in Seq(S) : s \o t \in Seq(S)
  OBVIOUS
<1>3. \A t, u \in Seq(S) : (s \o t) \o u = s \o (t \o u)
  BY ConcatAssociative
<1>4. ASSUME NEW e \in S PROVE Append(s, e) = s \o <<e>> /\ <<e>> \in Seq(S)
  OBVIOUS
<1>5. ASSUME NEW e \in S PROVE <<e>> \o s # <<>> /\ Head(<<e>> \o s) = e /\ Tail(<<e>> \o s) = s
  <2> DEFINE t == <<e>> \o s
  <2>1. t \in Seq(S) /\ Len(t) = Len(s) + 1 /\ t[1] = e /\ \A i \in 1..Len(s) : t[i+1] = s[i]
    OBVIOUS
  <2> HIDE DEF t
  <2>2. t # <<>> /\ Head(t) = e
    BY <2>1
  <2>3. Tail(t) = s
    <3>1. Tail(t) \in Seq(S) /\ Len(Tail(t)) = Len(s) /\ \A i \in 1..Len(s) : Tail(t)[i] = s[i]
      BY <2>1, <2>2
    <3> QED BY <3>1, SeqEqual
  <2> QED BY <2>2, <2>3 DEF t
<1>6. ASSUME s # <<>> PROVE <<Head(s)>> \o Tail(s) = s /\ Tail(s) \in Seq(S) /\ Head(s) \in S
  <2>1. Tail(s) \in Seq(S) /\ Len(Tail(s)) = Len(s) - 1 /\ Head(s) \in S /\ Head(s) = s[1]
         /\ \A i \in 1..Len(s)-1 : Tail(s)[i] = s[i+1]
    BY <1>6
  <2> DEFINE t == <<Head(s)>> \o Tail(s)
  <2>2. t \in Seq(S) /\ Len(t) = Len(s)
    BY <2>1, <1>6
  <2>3. ASSUME NEW i \in 1..Len(s) PROVE t[i] = s[i]
    <3>1. CASE i = 1
      BY <3>1, <2>1
    <3>2. CASE i # 1
      <4>1. t[i] = Tail(s)[i-1] /\ i - 1 \in 1..Len(s)-1
        BY <3>2, <2>1
      <4> QED BY <4>1, <2>1
    <3> QED BY <3>1, <3>2
  <2>4. t = s
    <3> HIDE DEF t
    <3> QED BY <2>2, <2>3, SeqEqual
  <2> QED BY <2>1, <2>4
<1> QED BY <1>1, <1>2, <1>3, <1>4, <1>5, <1>6

LEMMA OpConcat ==
  /\ \A s, t, u \in Seq(Op) : (s \o t) \o u = s \o (t \o u)
  /\ \A s, t \in Seq(Op) : s \o t \in Seq(Op)
<1>1. \A s, t, u \in Seq(Op) : (s \o t) \o u = s \o (t \o u)
  BY ConcatAssociative
<1>2. \A s, t \in Seq(Op) : s \o t \in Seq(Op)
  OBVIOUS
<1> QED BY <1>1, <1>2

LEMMA BacklogType ==
  ASSUME Typed
  PROVE  \A l \in Lane : /\ Backlog(l) \in Seq(Op) /\ done[l] \in Seq(Op) /\ sent[l] \in Seq(Op)
                         /\ lane[l] \in Seq(Op) /\ pending[l] \in Seq(Op) /\ hand \in Seq(Op)
                         /\ turn \in Lane /\ (IF turn = l THEN hand ELSE <<>>) \o pending[l] \in Seq(Op)
BY EmptySeq, ConcatProperties DEF Typed, LaneTypes, TokenTypes, Backlog

LEMMA OpType ==
  ASSUME Typed, NEW p \in Thread
  PROVE  OpOf(p) \in Op /\ OpOf(p).cost = cost[p] /\ OpOf(p).by = p /\ OpOf(p).n = left[p] /\ at[p] \in Lane
BY DEF Typed, ThreadTypes, OpOf, Op

\* The three things a step may do to the backlog of a lane.

\* What a step does to the backlog of a lane: nothing, a send at its end, or the
\* writer applying its first operation.
Kept(l) == Backlog(l)' = Backlog(l) /\ sent'[l] = sent[l] /\ done'[l] = done[l]
Grown(l, p) ==
    /\ l = at[p] /\ Backlog(l)' = Append(Backlog(l), OpOf(p))
    /\ sent'[l] = Append(sent[l], OpOf(p)) /\ done'[l] = done[l]
Worked(l) ==
    /\ l = turn /\ Backlog(l) = <<hand[1]>> \o Backlog(l)' /\ Backlog(l)' \in Seq(Op) /\ hand[1] \in Op
    /\ sent'[l] = sent[l] /\ done'[l] = Append(done[l], hand[1])

\* A send to a lane extends its backlog and its history by the same operation.
LEMMA PushGrows ==
  ASSUME Typed, NEW p \in Thread, Push(p), UNCHANGED <<pending, hand, turn, done>>, NEW l \in Lane
  PROVE  Grown(l, p) \/ (l # at[p] /\ Kept(l))
<1> DEFINE front == (IF turn = l THEN hand ELSE <<>>) \o pending[l]
<1>1. at[p] \in Lane /\ OpOf(p) \in Op
  BY OpType
<1>2. lane' = [lane EXCEPT ![at[p]] = Append(@, OpOf(p))]
       /\ sent' = [sent EXCEPT ![at[p]] = Append(@, OpOf(p))]
  BY DEF Push, OpOf
<1>3. Backlog(l) = front \o lane[l] /\ Backlog(l)' = front \o lane'[l]
  BY DEF Backlog
<1>4. front \in Seq(Op) /\ lane[l] \in Seq(Op)
  BY BacklogType
<1>5. CASE l = at[p]
  <2>1. lane'[l] = Append(lane[l], OpOf(p)) /\ sent'[l] = Append(sent[l], OpOf(p))
    BY <1>2, <1>5 DEF Typed, LaneTypes
  <2>2. front \o Append(lane[l], OpOf(p)) = Append(front \o lane[l], OpOf(p))
    <3> HIDE DEF front
    <3>1. Append(lane[l], OpOf(p)) = lane[l] \o <<OpOf(p)>> /\ <<OpOf(p)>> \in Seq(Op)
      BY <1>1, <1>4, ConcatFacts
    <3>2. front \o (lane[l] \o <<OpOf(p)>>) = (front \o lane[l]) \o <<OpOf(p)>>
           /\ front \o lane[l] \in Seq(Op)
      BY <3>1, <1>4, OpConcat, Zenon
    <3>3. Append(front \o lane[l], OpOf(p)) = (front \o lane[l]) \o <<OpOf(p)>>
      BY <3>2, <1>1, ConcatFacts
    <3> QED BY <3>1, <3>2, <3>3
  <2> HIDE DEF front
  <2> QED BY <1>3, <1>5, <2>1, <2>2 DEF Grown
<1>6. CASE l # at[p]
  <2>1. lane'[l] = lane[l] /\ sent'[l] = sent[l]
    BY <1>2, <1>6 DEF Typed, LaneTypes
  <2> HIDE DEF front
  <2> QED BY <1>3, <1>6, <2>1 DEF Kept
<1> QED BY <1>5, <1>6

\* The writer's moves between channel, pending slot and hand leave the backlog alone.
LEMMA TakeKeeps ==
  ASSUME Typed, TurnInv, TakeReady \/ FinishTurn \/ FinishCheck, NEW l \in Lane
  PROVE  Kept(l)
<1> DEFINE first == <<Head(lane[turn])>>
<1>0. turn' = turn /\ sent' = sent /\ done' = done /\ hand = <<>>
  BY DEF TakeReady, FinishTurn, FinishCheck, TurnInv
<1>1. CASE l # turn
  <2>1. lane'[l] = lane[l] /\ pending'[l] = pending[l]
    BY <1>1 DEF TakeReady, FinishTurn, FinishCheck, Typed, LaneTypes
  <2> QED BY <1>0, <1>1, <2>1 DEF Kept, Backlog
<1>2. CASE l = turn
  <2>0. lane[turn] \in Seq(Op) /\ pending[turn] \in Seq(Op) /\ DOMAIN lane = Lane /\ DOMAIN pending = Lane
    BY <1>2, BacklogType DEF Typed, LaneTypes
  <2>1. Backlog(l) = (hand \o pending[turn]) \o lane[turn]
         /\ Backlog(l)' = (hand' \o pending'[turn]) \o lane'[turn]
    BY <1>0, <1>2 DEF Backlog
  <2>2. CASE lane' = lane /\ pending' = pending /\ hand' = hand
    BY <2>1, <2>2, <1>0 DEF Kept
  <2>3. CASE TakeReady /\ pending[turn] # <<>>
    <3>1. hand' = pending[turn] /\ pending'[turn] = <<>> /\ lane'[turn] = lane[turn]
      BY <2>0, <2>3, <1>2 DEF TakeReady
    <3>2. pending[turn] \o <<>> = pending[turn] /\ <<>> \o pending[turn] = pending[turn]
      BY <2>0, ConcatFacts
    <3> QED BY <3>1, <3>2, <2>1, <1>0 DEF Kept
  <2>4. CASE /\ lane[turn] # <<>> /\ pending[turn] = <<>> /\ lane'[turn] = Tail(lane[turn])
             /\ \/ hand' = first /\ pending'[turn] = <<>>
                \/ hand' = <<>> /\ pending'[turn] = first
    <3>1. first \o Tail(lane[turn]) = lane[turn] /\ first \in Seq(Op)
      BY <2>0, <2>4, ConcatFacts
    <3>2. first \o <<>> = first /\ <<>> \o first = first
      BY <3>1, ConcatFacts
    <3>3. Backlog(l)' = lane[turn]
      BY <3>1, <3>2, <2>1, <2>4
    <3>4. Backlog(l) = lane[turn]
      BY <2>0, <2>1, <2>4, <1>0, ConcatFacts
    <3> QED BY <3>3, <3>4, <1>0 DEF Kept
  <2>5. CASE TakeReady
    BY <2>0, <1>2, <2>2, <2>3, <2>4, <2>5 DEF TakeReady
  <2>6. CASE FinishTurn \/ FinishCheck
    <3>1. pending[turn] = <<>>
      BY <2>6 DEF TurnInv, FinishTurn, FinishCheck
    <3> QED BY <3>1, <2>0, <1>0, <1>2, <2>2, <2>4, <2>6 DEF FinishTurn, FinishCheck
  <2> QED BY <2>5, <2>6
<1> QED BY <1>1, <1>2

\* Applying moves the first operation of the backlog to the applied ones.
LEMMA ApplyWorks ==
  ASSUME Typed, TurnInv, Apply, NEW l \in Lane
  PROVE  Worked(l) \/ (l # turn /\ Kept(l))
<1>0. hand # <<>> /\ pending[turn] = <<>> /\ turn' = turn /\ hand' = <<>> /\ lane' = lane
       /\ pending' = pending /\ sent' = sent
  BY DEF Apply, TurnInv
<1>1. hand = <<hand[1]>> /\ hand[1] \in Op
  <2>1. hand \in Seq(Op) /\ Len(hand) = 1
    <3>1. hand \in Seq(Op) /\ Len(hand) <= 1
      BY DEF Typed, LaneTypes
    <3>2. Len(hand) \in Nat /\ Len(hand) # 0
      BY <1>0, <3>1, EmptySeq
    <3>3. Len(hand) = 1
      <4> DEFINE n == Len(hand)
      <4>1. n \in Nat /\ n # 0 /\ n <= 1
        BY <3>1, <3>2
      <4> HIDE DEF n
      <4>2. n = 1
        BY <4>1
      <4> QED BY <4>2 DEF n
    <3> QED BY <3>1, <3>3
  <2> QED BY <2>1
<1>2. CASE l = turn
  <2>1. lane[l] \in Seq(Op)
    BY BacklogType
  <2>2. Backlog(l) = (hand \o <<>>) \o lane[l] /\ Backlog(l)' = (<<>> \o <<>>) \o lane[l]
    BY <1>0, <1>2 DEF Backlog
  <2>3. Backlog(l)' = lane[l]
    BY <2>1, <2>2, ConcatFacts
  <2>4. <<hand[1]>> \in Seq(Op)
    BY <1>1
  <2>5. <<hand[1]>> \o <<>> = <<hand[1]>>
    BY <2>4, ConcatFacts
  <2>6. Backlog(l) = <<hand[1]>> \o lane[l]
    BY <2>2, <2>5, <1>1
  <2>7. done'[l] = Append(done[l], hand[1])
    BY <1>2 DEF Apply, Typed, LaneTypes
  <2> QED BY <1>0, <1>1, <1>2, <2>1, <2>3, <2>6, <2>7 DEF Worked
<1>3. CASE l # turn
  <2>1. done'[l] = done[l]
    BY <1>3 DEF Apply, Typed, LaneTypes
  <2> QED BY <2>1, <1>0, <1>3 DEF Kept, Backlog
<1> QED BY <1>2, <1>3

\* Together: what any step does to a lane's backlog.
LEMMA BacklogStep ==
  ASSUME Typed, TurnInv, [Next]_vars, NEW l \in Lane
  PROVE  \/ Kept(l)
         \/ \E p \in Thread : Grown(l, p) /\ (TrySend(p) \/ SendBarrier(p))
         \/ Worked(l) /\ Apply
<1>1. CASE UNCHANGED <<lane, pending, hand, turn, sent, done>>
  BY <1>1 DEF Kept, Backlog
<1>2. ASSUME NEW p \in Thread, TrySend(p) \/ SendBarrier(p)
      PROVE  Kept(l) \/ Grown(l, p)
  <2>1. UNCHANGED <<pending, hand, turn, done>>
    BY <1>2 DEF TrySend, SendBarrier
  <2>2. CASE Push(p)
    BY <2>1, <2>2, PushGrows
  <2>3. CASE UNCHANGED <<lane, sent>>
    BY <2>1, <2>3 DEF Kept, Backlog
  <2> QED BY <1>2, <2>2, <2>3 DEF TrySend, SendBarrier
<1>3. CASE TakeReady \/ FinishTurn \/ FinishCheck
  BY <1>3, TakeKeeps
<1>4. CASE Apply
  BY <1>4, ApplyWorks
<1>5. CASE Pop
  <2>1. hand = <<>> /\ UNCHANGED <<lane, pending, hand, sent, done>>
    BY <1>5 DEF Pop, TurnInv
  <2> QED BY <2>1 DEF Kept, Backlog
<1>6. \/ UNCHANGED <<lane, pending, hand, turn, sent, done>>
      \/ \E p \in Thread : TrySend(p) \/ SendBarrier(p)
      \/ TakeReady \/ FinishTurn \/ FinishCheck \/ Apply \/ Pop
  BY DEF Next, vars, TryInsert, Flush, ThreadStep, ReserveBytes, DropRefused, Schedule, SendToken,
         Acknowledged, Shutdown, Writer, Collect, Exit, ClearStale, FinishClear, FinishCas
<1> QED BY <1>1, <1>2, <1>3, <1>4, <1>5, <1>6

LEMMA FifoStep ==
  ASSUME Typed, TurnInv, FifoExactlyOnce, [Next]_vars
  PROVE  FifoExactlyOnce'
<1> SUFFICES ASSUME NEW l \in Lane PROVE sent'[l] = done'[l] \o Backlog(l)'
  BY DEF FifoExactlyOnce
<1>0. sent[l] = done[l] \o Backlog(l) /\ done[l] \in Seq(Op) /\ Backlog(l) \in Seq(Op)
  BY BacklogType DEF FifoExactlyOnce
<1>1. CASE Kept(l)
  BY <1>0, <1>1 DEF Kept
<1>2. ASSUME NEW p \in Thread, Grown(l, p) PROVE sent'[l] = done'[l] \o Backlog(l)'
  <2>1. OpOf(p) \in Op
    BY OpType
  <2>2. Append(Backlog(l), OpOf(p)) = Backlog(l) \o <<OpOf(p)>> /\ <<OpOf(p)>> \in Seq(Op)
    BY <1>0, <2>1, ConcatFacts
  <2>3. done[l] \o (Backlog(l) \o <<OpOf(p)>>) = (done[l] \o Backlog(l)) \o <<OpOf(p)>>
        /\ done[l] \o Backlog(l) \in Seq(Op)
    BY <1>0, <2>2, OpConcat, Zenon
  <2>4. Append(done[l] \o Backlog(l), OpOf(p)) = (done[l] \o Backlog(l)) \o <<OpOf(p)>>
    BY <2>1, <2>3, ConcatFacts
  <2> QED BY <1>0, <1>2, <2>2, <2>3, <2>4 DEF Grown
<1>3. CASE Worked(l)
  <2> DEFINE after == Backlog(l)'
  <2>0. /\ Backlog(l) = <<hand[1]>> \o after /\ after \in Seq(Op) /\ hand[1] \in Op
        /\ sent'[l] = sent[l] /\ done'[l] = Append(done[l], hand[1])
    BY <1>3 DEF Worked
  <2> HIDE DEF after
  <2>1. Append(done[l], hand[1]) = done[l] \o <<hand[1]>> /\ <<hand[1]>> \in Seq(Op)
    BY <1>0, <2>0, ConcatFacts
  <2>2. (done[l] \o <<hand[1]>>) \o after = done[l] \o (<<hand[1]>> \o after)
    BY <1>0, <2>0, <2>1, OpConcat, ZenonT(40)
  <2> QED BY <1>0, <2>0, <2>1, <2>2 DEF after
<1> QED BY <1>1, <1>2, <1>3, BacklogStep

-----------------------------------------------------------------------------
\* The write lanes: costs

\* The cost of a backlog that grows at its end or loses its first operation.
LEMMA CostAppend ==
  ASSUME NEW s \in Seq(Op), NEW e \in Op
  PROVE  CostOf(Append(s, e)) = CostOf(s) + e.cost
<1> DEFINE t == Append(s, e)
           cs == [i \in DOMAIN s |-> s[i].cost]
           ct == [i \in DOMAIN t |-> t[i].cost]
           n == Len(s)
<1>0. n \in Nat /\ DOMAIN s = 1..n /\ DOMAIN t = 1..(n + 1) /\ t[n + 1] = e
       /\ \A i \in 1..n : t[i] = s[i] /\ s[i] \in Op
  OBVIOUS
<1>1. \A o \in Op : o.cost \in Nat
  BY LaneConst DEF Op
<1> HIDE DEF t, n
<1>2. /\ \A i \in 1..n : cs[i] \in Nat /\ ct[i] = cs[i]
      /\ ct[n + 1] = e.cost /\ ct[n + 1] \in Nat
      /\ DOMAIN cs = 1..n /\ DOMAIN ct = 1..(n + 1)
  BY <1>0, <1>1
<1>3. CostOf(t) = SumFunctionOnSet(ct, 1..(n + 1)) /\ CostOf(s) = SumFunctionOnSet(cs, 1..n)
  BY <1>2 DEF CostOf, SumFunction
<1> HIDE DEF cs, ct
<1>4. 1..(n + 1) = (1..n) \cup {n + 1} /\ n + 1 \notin 1..n /\ IsFiniteSet(1..n)
  <2>1. 1..(n + 1) = (1..n) \cup {n + 1} /\ n + 1 \notin 1..n
    BY <1>0
  <2>2. IsFiniteSet(1..n)
    BY <1>0, FS_Interval
  <2> QED BY <2>1, <2>2
<1>5. SumFunctionOnSet(ct, (1..n) \cup {n + 1}) = ct[n + 1] + SumFunctionOnSet(ct, 1..n)
  <2>1. \A y \in (1..n) \cup {n + 1} : ct[y] \in Nat
    BY <1>2
  <2> QED BY <1>4, <2>1, SumAdd
<1>6. SumFunctionOnSet(ct, 1..n) = SumFunctionOnSet(cs, 1..n) /\ SumFunctionOnSet(cs, 1..n) \in Nat
  BY <1>2, <1>4, SumSame, SumNat
<1>7. CostOf(t) = e.cost + CostOf(s) /\ CostOf(s) \in Nat /\ e.cost \in Nat
  BY <1>1, <1>2, <1>3, <1>4, <1>5, <1>6
<1> QED BY <1>7 DEF t

LEMMA CostCons ==
  ASSUME NEW s \in Seq(Op), NEW e \in Op
  PROVE  CostOf(<<e>> \o s) = e.cost + CostOf(s) /\ CostOf(s) \in Nat
<1> DEFINE t == <<e>> \o s
           cs == [i \in DOMAIN s |-> s[i].cost]
           ct == [i \in DOMAIN t |-> t[i].cost]
           n == Len(s)
           b == [i \in 1..n |-> i + 1]
<1>0. n \in Nat /\ DOMAIN s = 1..n /\ DOMAIN t = 1..(n + 1) /\ t[1] = e
       /\ \A i \in 1..n : t[i + 1] = s[i] /\ s[i] \in Op
  OBVIOUS
<1>1. \A o \in Op : o.cost \in Nat
  BY LaneConst DEF Op
<1> HIDE DEF t, n
<1>2. /\ \A i \in 1..n : cs[i] \in Nat /\ ct[i + 1] = cs[i]
      /\ ct[1] = e.cost /\ ct[1] \in Nat
      /\ DOMAIN cs = 1..n /\ DOMAIN ct = 1..(n + 1)
  BY <1>0, <1>1
<1>3. CostOf(t) = SumFunctionOnSet(ct, 1..(n + 1)) /\ CostOf(s) = SumFunctionOnSet(cs, 1..n)
  BY <1>2 DEF CostOf, SumFunction
<1> HIDE DEF cs, ct
<1>4. 1 \in 1..(n + 1) /\ IsFiniteSet(1..n) /\ IsFiniteSet(1..(n + 1))
  BY <1>0, FS_Interval
<1>5. \A y \in 1..(n + 1) : ct[y] \in Nat
  <2>1. ASSUME NEW y \in 1..(n + 1), y # 1 PROVE ct[y] \in Nat
    <3>1. y - 1 \in 1..n /\ (y - 1) + 1 = y
      BY <1>0, <2>1
    <3> QED BY <3>1, <1>2
  <2> QED BY <2>1, <1>2
<1>6. SumFunctionOnSet(ct, 1..(n + 1)) = ct[1] + SumFunctionOnSet(ct, (1..(n + 1)) \ {1})
  <2> DEFINE D == 1..(n + 1)
  <2>1. 1 \in D /\ IsFiniteSet(D) /\ \A y \in D : ct[y] \in Nat
    BY <1>4, <1>5
  <2> HIDE DEF D
  <2>2. SumFunctionOnSet(ct, D) = ct[1] + SumFunctionOnSet(ct, D \ {1})
    BY <2>1, SumRemove
  <2> QED BY <2>2 DEF D
<1>7. {b[i] : i \in 1..n} = (1..(n + 1)) \ {1}
  <2>1. ASSUME NEW y \in (1..(n + 1)) \ {1} PROVE y \in {b[i] : i \in 1..n}
    <3>1. y - 1 \in 1..n /\ b[y - 1] = y
      BY <1>0, <2>1
    <3> QED BY <3>1
  <2>2. ASSUME NEW i \in 1..n PROVE b[i] \in (1..(n + 1)) \ {1}
    BY <1>0
  <2> QED BY <2>1, <2>2
<1>8. SumFunctionOnSet(ct, {b[i] : i \in 1..n}) = SumFunctionOnSet(cs, 1..n)
  <2>1. \A i \in 1..n : cs[i] \in Nat /\ ct[b[i]] = cs[i]
    BY <1>2
  <2>2. \A i, j \in 1..n : b[i] = b[j] => i = j
    BY <1>0
  <2> DEFINE D == 1..n
  <2> HIDE DEF b, D
  <2>3. IsFiniteSet(D) /\ (\A i \in D : cs[i] \in Nat /\ ct[b[i]] = cs[i])
         /\ (\A i, j \in D : b[i] = b[j] => i = j)
    BY <1>4, <2>1, <2>2 DEF D
  <2>4. SumFunctionOnSet(ct, {b[i] : i \in D}) = SumFunctionOnSet(cs, D)
    BY <2>3, SumBijection
  <2> QED BY <2>4 DEF D
<1>9. SumFunctionOnSet(cs, 1..n) \in Nat
  BY <1>2, <1>4, SumNat
<1> HIDE DEF b
<1>10. CostOf(t) = e.cost + CostOf(s) /\ CostOf(s) \in Nat
  BY <1>2, <1>3, <1>6, <1>7, <1>8, <1>9
<1> QED BY <1>10 DEF t

LEMMA CostEmpty == CostOf(<<>>) = 0
<1> DEFINE c == [i \in DOMAIN <<>> |-> <<>>[i].cost]
<1>1. DOMAIN c = {}
  OBVIOUS
<1>2. CostOf(<<>>) = SumFunctionOnSet(c, DOMAIN c)
  BY DEF CostOf, SumFunction
<1> HIDE DEF c
<1> QED BY <1>1, <1>2, SumEmpty

LEMMA FlusherInit == Init => FlusherInv
BY ConcatEmptySeq, EmptySeq, LaneConst DEF Init, FlusherInv, Backlog

LEMMA FlusherThreadStep ==
  ASSUME Typed, FlusherInv, [Next]_vars, NEW f \in Flusher
  PROVE  cost'[f] = 0 /\ pc'[f] \in {"idle", "send", "sched", "token", "await"}
<1> USE LaneConst
<1>0. DOMAIN cost = Thread /\ DOMAIN pc = Thread /\ cost[f] = 0
       /\ pc[f] \in {"idle", "send", "sched", "token", "await"} /\ f \notin Producer
  BY DEF Typed, ThreadTypes, FlusherInv
<1>1. CASE UNCHANGED threadVars
  BY <1>0, <1>1
<1>2. ASSUME NEW p \in Producer, NEW l \in Lane, NEW c \in Cost, TryInsert(p, l, c)
              PROVE cost'[f] = cost[f] /\ pc'[f] = pc[f]
  BY <1>0, <1>2 DEF TryInsert
<1>3. ASSUME NEW g \in Flusher, Flush(g) PROVE cost'[f] = 0
              /\ pc'[f] \in {"idle", "send", "sched", "token", "await"}
  BY <1>0, <1>3 DEF Flush
<1>4. ASSUME NEW p \in Thread, ThreadStep(p) PROVE cost' = cost
              /\ pc'[f] \in {"idle", "send", "sched", "token", "await"}
  BY <1>0, <1>4 DEF ThreadStep, ReserveBytes, TrySend, DropRefused, SendBarrier, Schedule, SendToken,
      Acknowledged, Scheduled
<1> QED BY <1>0, <1>1, <1>2, <1>3, <1>4 DEF Next, vars, Shutdown, Writer, Collect, Pop, Exit, TakeReady,
    ClearStale, Apply, FinishTurn, FinishClear, FinishCheck, FinishCas

LEMMA FlusherStep ==
  ASSUME Typed, TurnInv, FlusherInv, [Next]_vars
  PROVE  FlusherInv'
<1>1. ASSUME NEW l \in Lane
      PROVE  \A i \in DOMAIN Backlog(l)' : Backlog(l)'[i].by \in Flusher => Backlog(l)'[i].cost = 0
  <2> DEFINE before == Backlog(l)
             after == Backlog(l)'
  <2>0. before \in Seq(Op) /\ \A i \in DOMAIN before : before[i].by \in Flusher => before[i].cost = 0
    BY BacklogType DEF FlusherInv
  <2>1. CASE Kept(l)
    BY <2>0, <2>1 DEF Kept
  <2>2. ASSUME NEW p \in Thread, Grown(l, p)
                PROVE \A i \in DOMAIN after : after[i].by \in Flusher => after[i].cost = 0
    <3>1. after = Append(before, OpOf(p))
      BY <2>2 DEF Grown
    <3>2. OpOf(p) \in Op /\ (OpOf(p).by \in Flusher => OpOf(p).cost = 0)
      BY OpType DEF FlusherInv
    <3> HIDE DEF before, after
    <3>3. ASSUME NEW i \in DOMAIN after PROVE after[i].by \in Flusher => after[i].cost = 0
      <4>1. CASE i \in DOMAIN before
        <5>1. after[i] = before[i]
          BY <2>0, <3>1, <3>2, <4>1
        <5> QED BY <5>1, <2>0, <4>1
      <4>2. CASE i \notin DOMAIN before
        <5>1. after[i] = OpOf(p)
          BY <2>0, <3>1, <3>2, <4>2
        <5> QED BY <5>1, <3>2
      <4> QED BY <4>1, <4>2
    <3> QED BY <3>3 DEF after
  <2>3. CASE Worked(l)
    <3>1. before = <<hand[1]>> \o after /\ after \in Seq(Op) /\ hand[1] \in Op
      BY <2>3 DEF Worked
    <3> HIDE DEF before, after
    <3>2. ASSUME NEW i \in DOMAIN after PROVE i + 1 \in DOMAIN before /\ before[i + 1] = after[i]
      BY <3>1
    <3>3. ASSUME NEW i \in DOMAIN after PROVE after[i].by \in Flusher => after[i].cost = 0
      <4>1. i + 1 \in DOMAIN before /\ before[i + 1] = after[i]
        BY <3>2
      <4>2. before[i + 1].by \in Flusher => before[i + 1].cost = 0
        BY <2>0, <4>1
      <4> QED BY <4>1, <4>2
    <3> QED BY <3>3 DEF after
  <2> QED BY <2>1, <2>2, <2>3, BacklogStep
<1> QED BY <1>1, FlusherThreadStep DEF FlusherInv

-----------------------------------------------------------------------------
\* The write lanes: bytes

\* that the bytes are accounted for;
Reserved(l) == SumFunctionOnSet(cost, Reserving(l))

LEMMA ReservedType ==
  ASSUME Typed, NEW l \in Lane
  PROVE  /\ IsFiniteSet(Reserving(l)) /\ Reserved(l) \in Nat
         /\ \A p \in Thread : cost[p] \in Nat
         /\ CostOf(Backlog(l)) \in Nat
<1>1. IsFiniteSet(Reserving(l))
  <2>1. IsFiniteSet(Producer) /\ Reserving(l) \in SUBSET Producer
    BY ThreadAssumption DEF Reserving
  <2> QED BY <2>1, FS_Subset
<1>2. \A p \in Thread : cost[p] \in Nat
  BY LaneConst DEF Typed, ThreadTypes
<1>3. \A p \in Reserving(l) : cost[p] \in Nat
  BY <1>2, LaneConst DEF Reserving
<1>4. Reserved(l) \in Nat
  BY <1>1, <1>3, SumNat DEF Reserved
<1>5. CostOf(Backlog(l)) \in Nat
  <2> DEFINE s == Backlog(l)
             cs == [i \in DOMAIN s |-> s[i].cost]
  <2>1. s \in Seq(Op)
    BY BacklogType
  <2>2. \A o \in Op : o.cost \in Nat
    BY LaneConst DEF Op
  <2> HIDE DEF s
  <2>3. DOMAIN s = 1..Len(s) /\ Len(s) \in Nat /\ \A i \in DOMAIN s : s[i] \in Op
    BY <2>1
  <2>4. DOMAIN cs = DOMAIN s /\ \A i \in DOMAIN s : cs[i] \in Nat
    BY <2>2, <2>3
  <2>5. CostOf(s) = SumFunctionOnSet(cs, DOMAIN s)
    BY <2>4 DEF CostOf, SumFunction
  <2>6. IsFiniteSet(DOMAIN s)
    BY <2>3, FS_Interval
  <2> HIDE DEF cs
  <2>7. CostOf(s) \in Nat
    BY <2>4, <2>5, <2>6, SumNat
  <2> QED BY <2>7 DEF s
<1> QED BY <1>1, <1>2, <1>4, <1>5

LEMMA ReservedSame ==
  ASSUME Typed, NEW l \in Lane, Reserving(l)' = Reserving(l), \A p \in Reserving(l) : cost'[p] = cost[p]
  PROVE  Reserved(l)' = Reserved(l)
<1>1. IsFiniteSet(Reserving(l)) /\ \A p \in Reserving(l) : cost[p] \in Nat /\ cost'[p] = cost[p]
  BY ReservedType, LaneConst DEF Reserving
<1>2. SumFunctionOnSet(cost', Reserving(l)) = SumFunctionOnSet(cost, Reserving(l))
  BY <1>1, SumSame
<1> QED BY <1>2 DEF Reserved

LEMMA ReservedLess ==
  ASSUME Typed, NEW l \in Lane, NEW p \in Producer, p \in Reserving(l), Reserving(l)' = Reserving(l) \ {p},
         cost' = cost
  PROVE  Reserved(l) = cost[p] + Reserved(l)' /\ Reserved(l)' \in Nat
<1>1. IsFiniteSet(Reserving(l)) /\ \A q \in Reserving(l) : cost[q] \in Nat
  BY ReservedType, LaneConst DEF Reserving
<1>2. SumFunctionOnSet(cost, Reserving(l)) = cost[p] + SumFunctionOnSet(cost, Reserving(l) \ {p})
  BY <1>1, SumRemove
<1>3. IsFiniteSet(Reserving(l) \ {p}) /\ \A q \in Reserving(l) \ {p} : cost[q] \in Nat
  BY <1>1, FS_RemoveElement
<1>4. SumFunctionOnSet(cost, Reserving(l) \ {p}) \in Nat
  BY <1>3, SumNat
<1> QED BY <1>2, <1>4 DEF Reserved

LEMMA ReservedMore ==
  ASSUME Typed, NEW l \in Lane, NEW p \in Producer, p \notin Reserving(l),
         Reserving(l)' = Reserving(l) \cup {p}, cost' = cost
  PROVE  Reserved(l)' = cost[p] + Reserved(l)
<1>1. IsFiniteSet(Reserving(l)) /\ \A q \in Reserving(l) \cup {p} : cost[q] \in Nat
  BY ReservedType, LaneConst DEF Reserving
<1>2. SumFunctionOnSet(cost, Reserving(l) \cup {p}) = cost[p] + SumFunctionOnSet(cost, Reserving(l))
  BY <1>1, SumAdd
<1> QED BY <1>2 DEF Reserved

Balanced(l) == queued[l] = CostOf(Backlog(l)) + Reserved(l) /\ queued[l] <= WriterBudget

\* What a thread's own step does to the reservations of lane l.
LEMMA ReserveStep ==
  ASSUME Typed, FlusherInv, NEW l \in Lane, Balanced(l), NEW p \in Thread, ReserveBytes(p), Kept(l)
  PROVE  Balanced(l)'
<1> USE LaneConst
<1>0. /\ p \in Producer /\ at' = at /\ cost' = cost /\ at[p] \in Lane /\ DOMAIN queued = Lane
          /\ DOMAIN pc = Thread
      /\ queued[l] \in Int /\ seen[p] \in Int
  BY DEF Typed, ThreadTypes, CountTypes, FlusherInv, ReserveBytes, Thread
<1>1. CostOf(Backlog(l))' = CostOf(Backlog(l)) /\ CostOf(Backlog(l)) \in Nat /\ Reserved(l) \in Nat
       /\ cost[p] \in Nat
  <2>1. CostOf(Backlog(l))' = CostOf(Backlog(l)')
    BY DEF CostOf
  <2> QED BY <2>1, ReservedType DEF Kept
<1>2. p \notin Reserving(l)
  BY DEF Reserving, ReserveBytes
<1>3. CASE queued' = queued /\ pc'[p] \in {"idle", "reserve"} /\ \A q \in Thread : q # p => pc'[q] = pc[q]
  <2>1. Reserving(l)' = Reserving(l)
    BY <1>0, <1>2, <1>3 DEF Reserving
  <2>2. Reserved(l)' = Reserved(l)
    BY <1>0, <2>1, ReservedSame
  <2> QED BY <1>1, <1>3, <2>2 DEF Balanced
<1>4. CASE /\ queued[at[p]] = seen[p] /\ seen[p] + cost[p] <= WriterBudget
           /\ queued' = [queued EXCEPT ![at[p]] = @ + cost[p]] /\ pc' = [pc EXCEPT ![p] = "send"]
  <2>1. CASE l = at[p]
    <3>1. Reserving(l)' = Reserving(l) \cup {p}
      BY <1>0, <1>2, <1>4, <2>1 DEF Reserving
    <3>2. Reserved(l)' = cost[p] + Reserved(l)
      BY <1>0, <1>2, <3>1, ReservedMore
    <3>3. queued'[l] = queued[l] + cost[p] /\ queued'[l] <= WriterBudget
      BY <1>0, <1>4, <2>1
    <3> QED BY <1>1, <3>2, <3>3 DEF Balanced
  <2>2. CASE l # at[p]
    <3>1. Reserving(l)' = Reserving(l)
      BY <1>0, <1>2, <1>4, <2>2 DEF Reserving
    <3>2. Reserved(l)' = Reserved(l)
      BY <1>0, <3>1, ReservedSame
    <3>3. queued'[l] = queued[l]
      BY <1>0, <1>4, <2>2
    <3> QED BY <1>1, <3>2, <3>3 DEF Balanced
  <2> QED BY <2>1, <2>2
<1> QED BY <1>0, <1>3, <1>4 DEF ReserveBytes

\* A producer leaves the reserving ones: its operation is in the lane, or its bytes are given back.
LEMMA LeaveStep ==
  ASSUME Typed, NEW l \in Lane, Balanced(l), NEW p \in Producer, pc[p] \in {"send", "undo"}, cost' = cost,
         at' = at,
         NEW where \in {"idle", "sched"}, Goto(p, where),
         \/ /\ at[p] = l /\ Grown(l, p) /\ queued' = queued
         \/ /\ at[p] # l /\ Kept(l) /\ queued'[l] = queued[l]
         \/ /\ at[p] = l /\ Kept(l) /\ queued'[l] = queued[l] - cost[p]
  PROVE  Balanced(l)'
<1> USE LaneConst
<1>0. at[p] \in Lane /\ DOMAIN pc = Thread /\ queued[l] \in Int
  BY DEF Typed, ThreadTypes, CountTypes
<1>1. /\ CostOf(Backlog(l)) \in Nat /\ Reserved(l) \in Nat /\ cost[p] \in Nat
      /\ CostOf(Backlog(l))' = CostOf(Backlog(l)')
  BY ReservedType DEF CostOf
<1>2. CASE at[p] # l /\ Kept(l) /\ queued'[l] = queued[l]
  <2>1. Reserving(l)' = Reserving(l)
    BY <1>0, <1>2 DEF Reserving
  <2>2. Reserved(l)' = Reserved(l)
    BY <2>1, ReservedSame
  <2> QED BY <1>1, <1>2, <2>2 DEF Balanced, Kept
<1>3. CASE at[p] = l
  <2>1. p \in Reserving(l) /\ Reserving(l)' = Reserving(l) \ {p}
    BY <1>0, <1>3 DEF Reserving
  <2>2. Reserved(l) = cost[p] + Reserved(l)' /\ Reserved(l)' \in Nat
    BY <2>1, ReservedLess
  <2>3. CASE Kept(l) /\ queued'[l] = queued[l] - cost[p]
    <3>1. CostOf(Backlog(l))' = CostOf(Backlog(l))
      BY <1>1, <2>3 DEF Kept
    <3> QED BY <1>0, <1>1, <2>2, <2>3, <3>1 DEF Balanced
  <2>4. CASE Grown(l, p) /\ queued' = queued
    <3>1. Backlog(l) \in Seq(Op) /\ OpOf(p) \in Op /\ OpOf(p).cost = cost[p]
      BY BacklogType, OpType
    <3>2. CostOf(Backlog(l))' = CostOf(Backlog(l)) + cost[p]
      BY <1>1, <2>4, <3>1, CostAppend DEF Grown
    <3> QED BY <1>0, <1>1, <2>2, <2>4, <3>2 DEF Balanced
  <2> QED BY <1>3, <2>3, <2>4
<1> QED BY <1>2, <1>3

LEMMA BalanceKept ==
  ASSUME Typed, NEW l \in Lane, Balanced(l), Kept(l), queued' = queued,
         Reserving(l)' = Reserving(l), \A p \in Reserving(l) : cost'[p] = cost[p]
  PROVE  Balanced(l)'
<1>1. Reserved(l)' = Reserved(l)
  BY ReservedSame
<1>2. CostOf(Backlog(l))' = CostOf(Backlog(l)')
  BY DEF CostOf
<1> QED BY <1>1, <1>2 DEF Balanced, Kept

LEMMA SendStep ==
  ASSUME Typed, FlusherInv, NEW l \in Lane, Balanced(l), NEW p \in Thread, TrySend(p) \/ SendBarrier(p),
         Kept(l) \/ Grown(l, p)
  PROVE  Balanced(l)'
<1> USE LaneConst
<1>0. at[p] \in Lane /\ DOMAIN pc = Thread /\ queued[l] \in Int /\ at' = at /\ cost' = cost
       /\ queued' = queued
      /\ DOMAIN sent = Lane /\ sent[l] \in Seq(Op)
  BY DEF Typed, ThreadTypes, CountTypes, LaneTypes, TrySend, SendBarrier
<1>1. CASE SendBarrier(p)
  <2>1. Reserving(l)' = Reserving(l)
    BY <1>0, <1>1 DEF Reserving, SendBarrier
  <2>2. Reserved(l)' = Reserved(l)
    BY <1>0, <2>1, ReservedSame
  <2>3. CASE Kept(l)
    BY <1>0, <2>1, <2>3, BalanceKept
  <2>4. CASE Grown(l, p)
    <3>1. Backlog(l) \in Seq(Op) /\ OpOf(p) \in Op /\ OpOf(p).cost = 0
      BY <1>1, BacklogType, OpType DEF FlusherInv, SendBarrier
    <3>2. CostOf(Backlog(l))' = CostOf(Backlog(l)) + 0
      <4>1. CostOf(Backlog(l))' = CostOf(Backlog(l)')
        BY DEF CostOf
      <4> QED BY <4>1, <2>4, <3>1, CostAppend DEF Grown
    <3>3. CostOf(Backlog(l)) \in Nat
      BY ReservedType
    <3> QED BY <1>0, <2>2, <3>2, <3>3 DEF Balanced
  <2> QED BY <2>3, <2>4
<1>2. CASE TrySend(p) /\ Goto(p, "undo") /\ UNCHANGED <<lane, sent>>
  <2>1. Reserving(l)' = Reserving(l)
    BY <1>0, <1>2 DEF Reserving, TrySend
  <2>2. Kept(l)
    BY <1>2 DEF TrySend, Kept, Backlog
  <2> QED BY <1>0, <2>1, <2>2, BalanceKept
<1>3. CASE TrySend(p) /\ Push(p) /\ Goto(p, "sched")
  <2>1. p \in Producer /\ pc[p] \in {"send", "undo"} /\ UNCHANGED <<pending, hand, turn, done>>
    BY <1>3 DEF TrySend
  <2>2. (at[p] = l /\ Grown(l, p)) \/ (at[p] # l /\ Kept(l))
    BY <1>3, <2>1, PushGrows DEF Grown
  <2> QED BY <1>0, <1>3, <2>1, <2>2, LeaveStep
<1> QED BY <1>1, <1>2, <1>3 DEF TrySend

LEMMA ApplyStep ==
  ASSUME Typed, TurnInv, FlusherInv, NEW l \in Lane, Balanced(l), Apply, Worked(l) \/ (l # turn /\ Kept(l))
  PROVE  Balanced(l)'
<1>0. Reserving(l)' = Reserving(l) /\ cost' = cost /\ turn \in Lane /\ DOMAIN queued = Lane
       /\ queued[l] \in Int
  BY DEF Apply, Reserving, Typed, TokenTypes, CountTypes
<1>1. Reserved(l)' = Reserved(l)
  BY <1>0, ReservedSame
<1>2. CASE l # turn /\ Kept(l)
  <2>1. queued'[l] = queued[l]
    BY <1>0, <1>2 DEF Apply
  <2>2. CostOf(Backlog(l))' = CostOf(Backlog(l)')
    BY DEF CostOf
  <2> QED BY <1>1, <1>2, <2>1, <2>2 DEF Balanced, Kept
<1>3. CASE Worked(l)
  <2> DEFINE after == Backlog(l)'
  <2>1. l = turn /\ Backlog(l) = <<hand[1]>> \o after /\ after \in Seq(Op) /\ hand[1] \in Op
    BY <1>3 DEF Worked
  <2>2. CostOf(Backlog(l))' = CostOf(after)
    BY DEF CostOf
  <2> HIDE DEF after
  <2>3. CostOf(Backlog(l)) = hand[1].cost + CostOf(after) /\ CostOf(after) \in Nat /\ hand[1].cost \in Nat
    BY <2>1, CostCons, LaneConst DEF Op
  <2>4. queued'[l] = queued[l] - hand[1].cost
    <3>1. CASE hand[1].by \in Producer
      BY <1>0, <2>1, <3>1, LaneConst DEF Apply
    <3>2. CASE hand[1].by \in Flusher
      <4>1. hand[1] = Backlog(l)[1] /\ 1 \in DOMAIN Backlog(l)
        BY <2>1
      <4>2. hand[1].cost = 0
        BY <4>1, <3>2 DEF FlusherInv
      <4>3. queued' = queued
        BY <3>2, LaneConst DEF Apply
      <4> QED BY <1>0, <4>2, <4>3
    <3> QED BY <3>1, <3>2, <2>1 DEF Op, Thread
  <2>5. Reserved(l) \in Nat
    BY ReservedType
  <2> QED BY <1>0, <1>1, <2>2, <2>3, <2>4, <2>5, LaneConst DEF Balanced
<1> QED BY <1>2, <1>3

LEMMA BalanceStep ==
  ASSUME Typed, TurnInv, FlusherInv, NEW l \in Lane, Balanced(l), [Next]_vars
  PROVE  Balanced(l)'
<1> USE LaneConst
<1>0. DOMAIN pc = Thread /\ DOMAIN at = Thread /\ DOMAIN cost = Thread /\ DOMAIN queued = Lane
  BY DEF Typed, ThreadTypes, CountTypes
<1>1. ASSUME NEW p \in Producer, NEW k \in Lane, NEW c \in Cost, TryInsert(p, k, c) PROVE Balanced(l)'
  <2>1. p \notin Reserving(l) /\ Reserving(l)' = Reserving(l) /\ \A q \in Reserving(l) : cost'[q] = cost[q]
    BY <1>0, <1>1 DEF TryInsert, Reserving
  <2>2. Kept(l) /\ queued' = queued
    BY <1>1 DEF TryInsert, Kept, Backlog
  <2> QED BY <2>1, <2>2, BalanceKept
<1>2. ASSUME NEW f \in Flusher, Flush(f) PROVE Balanced(l)'
  <2>1. Reserving(l)' = Reserving(l) /\ cost' = cost
    BY <1>0, <1>2 DEF Flush, Reserving
  <2>2. Kept(l) /\ queued' = queued
    BY <1>2 DEF Flush, Kept, Backlog
  <2> QED BY <2>1, <2>2, BalanceKept
<1>3. ASSUME NEW p \in Thread, ReserveBytes(p) PROVE Balanced(l)'
  <2>1. Kept(l)
    BY <1>3 DEF ReserveBytes, Kept, Backlog
  <2> QED BY <1>3, <2>1, ReserveStep
<1>4. ASSUME NEW p \in Thread, TrySend(p) \/ SendBarrier(p) PROVE Balanced(l)'
  <2>1. UNCHANGED <<pending, hand, turn, done>>
    BY <1>4 DEF TrySend, SendBarrier
  <2>2. Kept(l) \/ Grown(l, p)
    <3>1. CASE Push(p)
      BY <2>1, <3>1, PushGrows
    <3>2. CASE UNCHANGED <<lane, sent>>
      BY <2>1, <3>2 DEF Kept, Backlog
    <3> QED BY <1>4, <3>1, <3>2 DEF TrySend, SendBarrier
  <2> QED BY <1>4, <2>2, SendStep
<1>5. ASSUME NEW p \in Thread, DropRefused(p) PROVE Balanced(l)'
  <2>1. p \in Producer /\ pc[p] \in {"send", "undo"} /\ cost' = cost /\ at' = at /\ Goto(p, "idle")
         /\ at[p] \in Lane
    BY <1>5 DEF DropRefused, FlusherInv, Thread, Typed, ThreadTypes
  <2>2. Kept(l)
    BY <1>5 DEF DropRefused, Kept, Backlog
  <2>3. (at[p] # l /\ queued'[l] = queued[l]) \/ (at[p] = l /\ queued'[l] = queued[l] - cost[p])
    BY <1>0, <1>5, <2>1 DEF DropRefused
  <2> QED BY <2>1, <2>2, <2>3, LeaveStep
<1>6. ASSUME NEW p \in Thread, Schedule(p) \/ SendToken(p) PROVE Balanced(l)'
  <2>1. Reserving(l)' = Reserving(l)
    <3>1. \A q \in Producer : q # p => at'[q] = at[q] /\ pc'[q] = pc[q]
      BY <1>0, <1>6 DEF Schedule, SendToken, Scheduled
    <3>2. pc[p] \in {"sched", "token"} /\ (p \in Producer => pc'[p] \in {"token", "idle"})
      BY <1>0, <1>6 DEF Schedule, SendToken, Scheduled
    <3> QED BY <3>1, <3>2 DEF Reserving
  <2>2. Kept(l) /\ queued' = queued /\ cost' = cost
    BY <1>6 DEF Schedule, SendToken, Kept, Backlog
  <2> QED BY <2>1, <2>2, BalanceKept
<1>7. ASSUME NEW f \in Flusher, Acknowledged(f) PROVE Balanced(l)'
  <2>1. Reserving(l)' = Reserving(l) /\ cost' = cost
    BY <1>0, <1>7 DEF Acknowledged, Reserving
  <2>2. Kept(l) /\ queued' = queued
    BY <1>7 DEF Acknowledged, Kept, Backlog
  <2> QED BY <2>1, <2>2, BalanceKept
<1>8. CASE UNCHANGED <<threadVars, queued>> /\ ~ Apply
  <2>1. Reserving(l)' = Reserving(l) /\ cost' = cost /\ pc' = pc
    BY <1>8 DEF Reserving
  <2>2. CASE Kept(l)
    BY <1>8, <2>1, <2>2, BalanceKept
  <2>3. ASSUME NEW p \in Thread, TrySend(p) \/ SendBarrier(p) PROVE FALSE
    BY <1>0, <2>1, <2>3 DEF TrySend, SendBarrier
  <2> QED BY <1>8, <2>2, <2>3, BacklogStep
<1>9. CASE Apply
  BY <1>9, ApplyWorks, ApplyStep
<1> QED BY <1>1, <1>2, <1>3, <1>4, <1>5, <1>6, <1>7, <1>8, <1>9
        DEF Next, vars, ThreadStep, Shutdown, Writer, Collect, Pop, Exit, TakeReady, ClearStale,
           FinishTurn, FinishClear, FinishCheck, FinishCas

-----------------------------------------------------------------------------
\* The write lanes: tokens

LEMMA OccType ==
  ASSUME NEW s \in Seq(Lane), NEW l \in Lane
  PROVE  IsFiniteSet({i \in DOMAIN s : s[i] = l}) /\ Occurrences(l, s) \in Nat
<1>1. DOMAIN s = 1..Len(s) /\ Len(s) \in Nat
  OBVIOUS
<1>2. IsFiniteSet(DOMAIN s)
  BY <1>1, FS_Interval
<1>3. IsFiniteSet({i \in DOMAIN s : s[i] = l})
  BY <1>2, FS_Subset
<1> QED BY <1>3, FS_CardinalityType DEF Occurrences

\* How often a lane occurs in a queue of tokens that grows or loses its head.
LEMMA OccAppend ==
  ASSUME NEW s \in Seq(Lane), NEW l \in Lane, NEW k \in Lane
  PROVE  Occurrences(l, Append(s, k)) = Occurrences(l, s) + (IF k = l THEN 1 ELSE 0)
<1> DEFINE t == Append(s, k)
           n == Len(s)
           A == {i \in DOMAIN s : s[i] = l}
           B == {i \in DOMAIN t : t[i] = l}
<1>1. n \in Nat /\ DOMAIN s = 1..n /\ DOMAIN t = 1..(n + 1) /\ t[n + 1] = k /\ \A i \in 1..n : t[i] = s[i]
  OBVIOUS
<1>2. IsFiniteSet(A) /\ Cardinality(A) \in Nat /\ Cardinality(A) = Occurrences(l, s)
       /\ Cardinality(B) = Occurrences(l, t)
  BY OccType DEF Occurrences
<1> HIDE DEF t, n
<1>3. n + 1 \notin A
  BY <1>1
<1>4. B = IF k = l THEN A \cup {n + 1} ELSE A
  BY <1>1
<1> HIDE DEF A, B
<1>5. Cardinality(B) = Cardinality(A) + (IF k = l THEN 1 ELSE 0)
  <2>1. CASE k = l
    BY <1>2, <1>3, <1>4, <2>1, FS_AddElement
  <2>2. CASE k # l
    BY <1>2, <1>4, <2>2
  <2> QED BY <2>1, <2>2
<1> QED BY <1>2, <1>5 DEF t

LEMMA OccTail ==
  ASSUME NEW s \in Seq(Lane), NEW l \in Lane, s # <<>>
  PROVE  Occurrences(l, s) = Occurrences(l, Tail(s)) + (IF Head(s) = l THEN 1 ELSE 0)
<1> DEFINE t == Tail(s)
           n == Len(t)
           A == {i \in DOMAIN t : t[i] = l}
           B == {i \in DOMAIN s : s[i] = l}
           C == {i + 1 : i \in A}
           b == [i \in A |-> i + 1]
<1>1. t \in Seq(Lane) /\ n \in Nat /\ DOMAIN t = 1..n /\ DOMAIN s = 1..(n + 1) /\ s[1] = Head(s)
       /\ \A i \in 1..n : t[i] = s[i + 1]
  OBVIOUS
<1>2. IsFiniteSet(A) /\ Cardinality(A) \in Nat /\ Cardinality(A) = Occurrences(l, t)
       /\ Cardinality(B) = Occurrences(l, s)
  <2> HIDE DEF t
  <2> QED BY <1>1, OccType DEF Occurrences
<1> HIDE DEF t, n
<1>3. A \subseteq Nat /\ b \in Bijection(A, C)
  <2>1. A \subseteq Nat
    BY <1>1
  <2> HIDE DEF A
  <2>2. b \in [A -> C] /\ \A x \in C : \E y \in A : b[y] = x
    OBVIOUS
  <2>3. \A x, y \in A : b[x] = b[y] => x = y
    BY <2>1
  <2> HIDE DEF b, C
  <2>4. b \in Injection(A, C)
    BY <2>2, <2>3 DEF Injection, IsInjective
  <2>5. b \in Surjection(A, C)
    BY <2>2 DEF Surjection
  <2> QED BY <2>1, <2>4, <2>5 DEF Bijection
<1>4. IsFiniteSet(C) /\ Cardinality(C) = Cardinality(A)
  BY <1>2, <1>3, FS_Bijection DEF ExistsBijection
<1>5. 1 \notin C
  BY <1>1
<1>6. B = IF Head(s) = l THEN C \cup {1} ELSE C
  <2>1. ASSUME NEW i \in B, i # 1 PROVE i \in C
    <3>1. i - 1 \in 1..n /\ (i - 1) + 1 = i
      BY <2>1, <1>1
    <3>2. i - 1 \in A
      BY <3>1, <1>1
    <3> QED BY <3>1, <3>2
  <2>2. C \subseteq B
    BY <1>1
  <2>3. 1 \in B <=> Head(s) = l
    BY <1>1
  <2> HIDE DEF B, C
  <2>4. CASE Head(s) = l
    BY <2>1, <2>2, <2>3, <2>4
  <2>5. CASE Head(s) # l
    BY <2>1, <2>2, <2>3, <2>5
  <2> QED BY <2>4, <2>5
<1> HIDE DEF A, B, C
<1>7. Cardinality(B) = Cardinality(A) + (IF Head(s) = l THEN 1 ELSE 0)
  <2>1. CASE Head(s) = l
    <3>1. B = C \cup {1}
      BY <1>6, <2>1
    <3>2. Cardinality(B) = Cardinality(C) + 1
      BY <1>4, <1>5, <3>1, FS_AddElement
    <3> QED BY <1>2, <1>4, <2>1, <3>2
  <2>2. CASE Head(s) # l
    BY <1>2, <1>4, <1>6, <2>2
  <2> QED BY <2>1, <2>2
<1> QED BY <1>2, <1>7 DEF t

\* that a lane has a token exactly while its bit is set: owed by a thread, in one of
\* the two queues, or held by the writer;
Owed(l) == {p \in Thread : pc[p] = "token" /\ at[p] = l}
Held(l) == IF turn = l /\ wpc \in {"take", "clear", "apply", "finish", "fin_clear"} THEN 1 ELSE 0
One(l) == Tokens(l) = IF scheduled[l] THEN 1 ELSE 0

LEMMA TokensAre ==
  ASSUME Typed, NEW l \in Lane
  PROVE  /\ Tokens(l) = Occurrences(l, ready) + Occurrences(l, localReady) + Cardinality(Owed(l)) + Held(l)
         /\ Occurrences(l, ready) \in Nat /\ Occurrences(l, localReady) \in Nat
         /\ IsFiniteSet(Owed(l)) /\ Cardinality(Owed(l)) \in Nat /\ Held(l) \in {0, 1}
<1>1. IsFiniteSet(Owed(l))
  <2>1. IsFiniteSet(Thread)
    BY ThreadAssumption, FS_Union DEF Thread
  <2> QED BY <2>1, FS_Subset DEF Owed
<1> QED BY <1>1, FS_CardinalityType, OccType DEF Tokens, Owed, Held, Typed, TokenTypes

LEMMA TokensAfter ==
  ASSUME NEW l \in Lane
  PROVE  Tokens(l)' = Occurrences(l, ready') + Occurrences(l, localReady') + Cardinality(Owed(l)') + Held(l)'
BY DEF Tokens, Owed, Held, Occurrences

LEMMA TokenThreadStep ==
  ASSUME Typed, NEW l \in Lane, One(l), NEW p \in Thread, Schedule(p) \/ SendToken(p)
  PROVE  One(l)'
<1> USE LaneConst
<1>0. /\ DOMAIN pc = Thread /\ DOMAIN at = Thread /\ DOMAIN scheduled = Lane /\ at[p] \in Lane
      /\ ready \in Seq(Lane) /\ localReady' = localReady /\ wpc' = wpc /\ turn' = turn
  BY DEF Typed, ThreadTypes, TokenTypes, BitTypes, Schedule, SendToken
<1>1. Held(l)' = Held(l)
  BY <1>0 DEF Held
<1>2. CASE Schedule(p) /\ scheduled[at[p]]
  <2>1. pc[p] = "sched" /\ pc'[p] # "token" /\ scheduled' = scheduled /\ ready' = ready
        /\ \A q \in Thread : q # p => pc'[q] = pc[q] /\ at'[q] = at[q]
    BY <1>0, <1>2 DEF Schedule, Scheduled
  <2>2. Owed(l)' = Owed(l)
    BY <2>1 DEF Owed
  <2> QED BY <1>0, <1>1, <2>1, <2>2, TokensAre, TokensAfter DEF One
<1>3. CASE Schedule(p) /\ ~ scheduled[at[p]]
  <2>1. pc[p] = "sched" /\ pc' = [pc EXCEPT ![p] = "token"] /\ at' = at /\ ready' = ready
        /\ scheduled' = [scheduled EXCEPT ![at[p]] = TRUE]
    BY <1>3 DEF Schedule
  <2>2. CASE l = at[p]
    <3>1. Owed(l)' = Owed(l) \cup {p} /\ p \notin Owed(l)
      BY <1>0, <2>1, <2>2 DEF Owed
    <3>2. Cardinality(Owed(l)') = Cardinality(Owed(l)) + 1
      BY <3>1, TokensAre, FS_AddElement
    <3>3. Tokens(l) = 0
      BY <1>3, <2>2 DEF One
    <3>4. Tokens(l)' = 1
      <4>1. Tokens(l)' = Occurrences(l, ready) + Occurrences(l,
             localReady) + (Cardinality(Owed(l)) + 1) + Held(l)
        BY <1>0, <1>1, <2>1, <3>2, TokensAfter
      <4> QED BY <4>1, <3>3, TokensAre
    <3>5. scheduled'[l]
      BY <1>0, <2>1, <2>2
    <3> QED BY <3>4, <3>5 DEF One
  <2>3. CASE l # at[p]
    <3>1. Owed(l)' = Owed(l)
      BY <1>0, <2>1, <2>3 DEF Owed
    <3>2. scheduled'[l] = scheduled[l]
      BY <1>0, <2>1, <2>3
    <3> QED BY <1>0, <1>1, <2>1, <3>1, <3>2, TokensAre, TokensAfter DEF One
  <2> QED BY <2>2, <2>3
<1>4. CASE SendToken(p)
  <2>1. pc[p] = "token" /\ pc'[p] # "token" /\ scheduled' = scheduled /\ ready' = Append(ready, at[p])
        /\ \A q \in Thread : q # p => pc'[q] = pc[q] /\ at'[q] = at[q]
    BY <1>0, <1>4 DEF SendToken, Scheduled
  <2>2. Occurrences(l, ready') = Occurrences(l, ready) + (IF at[p] = l THEN 1 ELSE 0)
    BY <1>0, <2>1, OccAppend
  <2>3. Cardinality(Owed(l)) = Cardinality(Owed(l)') + (IF at[p] = l THEN 1 ELSE 0)
         /\ Cardinality(Owed(l)') \in Nat
    <3>1. Owed(l)' = IF at[p] = l THEN Owed(l) \ {p} ELSE Owed(l)
      BY <2>1 DEF Owed
    <3>2. at[p] = l <=> p \in Owed(l)
      BY <2>1 DEF Owed
    <3>3. IsFiniteSet(Owed(l)) /\ Cardinality(Owed(l)) \in Nat
      BY TokensAre
    <3>4. IsFiniteSet(Owed(l)')
      BY <3>1, <3>3, FS_RemoveElement
    <3>5. Cardinality(Owed(l)') \in Nat
      BY <3>4, FS_CardinalityType
    <3>6. CASE at[p] = l
      <4>1. p \in Owed(l) /\ Owed(l)' = Owed(l) \ {p}
        BY <3>1, <3>2, <3>6
      <4>2. Cardinality(Owed(l)') = Cardinality(Owed(l)) - 1
        BY <4>1, <3>3, FS_RemoveElement
      <4> QED BY <4>2, <3>3, <3>5, <3>6
    <3>7. CASE at[p] # l
      <4>1. Cardinality(Owed(l)') = Cardinality(Owed(l))
        BY <3>1, <3>7
      <4> QED BY <4>1, <3>3, <3>7
    <3> QED BY <3>6, <3>7
  <2> QED BY <1>0, <1>1, <2>1, <2>2, <2>3, TokensAre, TokensAfter, SMTT(30) DEF One
<1> QED BY <1>2, <1>3, <1>4

LEMMA TokenWriterStep ==
  ASSUME Typed, NEW l \in Lane, One(l), Writer
  PROVE  One(l)'
<1>0. /\ DOMAIN scheduled = Lane /\ turn \in Lane /\ ready \in Seq(Lane) /\ localReady \in Seq(Lane)
      /\ pc' = pc /\ at' = at
  BY DEF Typed, ThreadTypes, TokenTypes, BitTypes, Writer, Collect, Pop, Exit, TakeReady, ClearStale, Apply,
      FinishTurn, FinishClear, FinishCheck, FinishCas
<1>1. Owed(l)' = Owed(l)
  BY <1>0 DEF Owed
<1>2. CASE Collect
  <2>1. /\ ready # <<>> /\ Head(ready) \in Lane /\ Tail(ready) \in Seq(Lane)
        /\ localReady' = Append(localReady, Head(ready)) /\ ready' = Tail(ready)
        /\ scheduled' = scheduled /\ turn' = turn /\ wpc' = wpc
    BY <1>0, <1>2 DEF Collect
  <2>2. Occurrences(l, localReady') = Occurrences(l, localReady) + (IF Head(ready) = l THEN 1 ELSE 0)
    BY <1>0, <2>1, OccAppend
  <2>3. Occurrences(l, ready) = Occurrences(l, ready') + (IF Head(ready) = l THEN 1 ELSE 0)
         /\ Occurrences(l, ready') \in Nat
    BY <1>0, <2>1, OccTail, OccType
  <2>4. Held(l)' = Held(l)
    BY <2>1 DEF Held
  <2>5. Tokens(l)' = Tokens(l)
    <3>1. CASE Head(ready) = l
      BY <1>1, <2>2, <2>3, <2>4, <3>1, TokensAre, TokensAfter
    <3>2. CASE Head(ready) # l
      BY <1>1, <2>2, <2>3, <2>4, <3>2, TokensAre, TokensAfter
    <3> QED BY <3>1, <3>2
  <2> QED BY <2>1, <2>5 DEF One
<1>3. CASE Pop
  <2>1. /\ localReady # <<>> /\ Tail(localReady) \in Seq(Lane) /\ localReady' = Tail(localReady)
            /\ ready' = ready /\ scheduled' = scheduled
        /\ turn' = Head(localReady) /\ wpc = "next" /\ wpc' = "take"
    BY <1>0, <1>3 DEF Pop
  <2>2. Occurrences(l, localReady) = Occurrences(l,
         localReady') + (IF Head(localReady) = l THEN 1 ELSE 0) /\ Occurrences(l, localReady') \in Nat
    BY <1>0, <2>1, OccTail, OccType
  <2>3. Held(l) = 0 /\ Held(l)' = IF Head(localReady) = l THEN 1 ELSE 0
    BY <2>1 DEF Held
  <2>4. Tokens(l)' = Tokens(l)
    <3>1. CASE Head(localReady) = l
      BY <1>1, <2>1, <2>2, <2>3, <3>1, TokensAre, TokensAfter
    <3>2. CASE Head(localReady) # l
      BY <1>1, <2>1, <2>2, <2>3, <3>2, TokensAre, TokensAfter
    <3> QED BY <3>1, <3>2
  <2> QED BY <2>1, <2>4 DEF One
<1>4. CASE /\ ready' = ready /\ localReady' = localReady /\ turn' = turn /\ scheduled' = scheduled
           /\ wpc \in {"take", "clear", "apply", "finish", "fin_clear"} <=> wpc' \in {"take", "clear",
               "apply", "finish", "fin_clear"}
  <2>1. Held(l)' = Held(l)
    BY <1>4 DEF Held
  <2> QED BY <1>1, <1>4, <2>1, TokensAre, TokensAfter DEF One
\* The writer gives up the token it holds and clears the bit.
<1>5. CASE /\ ready' = ready /\ localReady' = localReady /\ turn' = turn
               /\ scheduled' = [scheduled EXCEPT ![turn] = FALSE]
           /\ wpc \in {"take", "clear", "apply", "finish", "fin_clear"} /\ wpc' \in {"next", "fin_check"}
  <2>1. Held(l)' = 0 /\ Held(l) = IF turn = l THEN 1 ELSE 0
    BY <1>5 DEF Held
  <2>2. CASE turn = l
    <3>1. Tokens(l) = 1 /\ ~ scheduled'[l]
      BY <1>0, <1>5, <2>1, <2>2, TokensAre DEF One
    <3>2. Tokens(l)' = 0
      BY <1>1, <1>5, <2>1, <2>2, <3>1, TokensAre, TokensAfter
    <3> QED BY <3>1, <3>2 DEF One
  <2>3. CASE turn # l
    <3>1. scheduled'[l] = scheduled[l]
      BY <1>0, <1>5, <2>3
    <3> QED BY <1>1, <1>5, <2>1, <2>3, <3>1, TokensAre, TokensAfter DEF One
  <2> QED BY <2>2, <2>3
<1>6. CASE FinishTurn /\ lane[turn] # <<>>
  <2>1. ready' = ready /\ localReady' = Append(localReady, turn) /\ turn' = turn
         /\ scheduled' = scheduled /\ wpc = "finish" /\ wpc' = "next"
    BY <1>6 DEF FinishTurn
  <2>2. Occurrences(l, localReady') = Occurrences(l, localReady) + (IF turn = l THEN 1 ELSE 0)
    BY <1>0, <2>1, OccAppend
  <2>3. Held(l)' = 0 /\ Held(l) = IF turn = l THEN 1 ELSE 0
    BY <2>1 DEF Held
  <2> QED BY <1>1, <2>1, <2>2, <2>3, TokensAre, TokensAfter DEF One
<1>7. CASE FinishCas /\ ~ scheduled[turn]
  <2>1. /\ ready' = ready /\ localReady' = Append(localReady, turn) /\ turn' = turn
        /\ scheduled' = [scheduled EXCEPT ![turn] = TRUE] /\ wpc = "fin_cas" /\ wpc' = "next"
    BY <1>7 DEF FinishCas
  <2>2. Occurrences(l, localReady') = Occurrences(l, localReady) + (IF turn = l THEN 1 ELSE 0)
    BY <1>0, <2>1, OccAppend
  <2>3. Held(l)' = 0 /\ Held(l) = 0
    BY <2>1 DEF Held
  <2>4. Tokens(l)' = Tokens(l) + (IF turn = l THEN 1 ELSE 0) /\ Tokens(l) \in Nat
    BY <1>1, <2>1, <2>2, <2>3, TokensAre, TokensAfter
  <2>5. scheduled'[l] = IF turn = l THEN TRUE ELSE scheduled[l]
    BY <1>0, <2>1
  <2> QED BY <1>7, <2>4, <2>5 DEF One
<1>8. CASE TakeReady
  BY <1>4, <1>8 DEF TakeReady
<1>9. CASE Exit \/ Apply \/ FinishCheck \/ (FinishCas /\ scheduled[turn]) \/ (FinishTurn
            /\ lane[turn] = <<>> /\ ~closed)
  BY <1>4, <1>9 DEF Exit, Apply, FinishCheck, FinishCas, FinishTurn
<1>10. CASE ClearStale \/ FinishClear \/ (FinishTurn /\ lane[turn] = <<>> /\ closed)
  BY <1>5, <1>10 DEF ClearStale, FinishClear, FinishTurn
<1> QED BY <1>2, <1>3, <1>6, <1>7, <1>8, <1>9, <1>10 DEF Writer

LEMMA TokenStep ==
  ASSUME Typed, NEW l \in Lane, One(l), [Next]_vars
  PROVE  One(l)'
<1> USE LaneConst
<1>0. DOMAIN pc = Thread /\ DOMAIN at = Thread
  BY DEF Typed, ThreadTypes
<1>1. ASSUME UNCHANGED <<ready, localReady, turn, wpc, scheduled>>, Owed(l)' = Owed(l) PROVE One(l)'
  <2>1. Held(l)' = Held(l)
    BY <1>1 DEF Held
  <2> QED BY <1>1, <2>1, TokensAre, TokensAfter DEF One
<1>2. ASSUME NEW p \in Thread, pc[p] # "token", pc'[p] # "token",
             \A q \in Thread : q # p => pc'[q] = pc[q] /\ at'[q] = at[q]
      PROVE  Owed(l)' = Owed(l)
  BY <1>2 DEF Owed
<1>3. ASSUME NEW p \in Producer, NEW k \in Lane, NEW c \in Cost, TryInsert(p, k, c) PROVE One(l)'
  BY <1>0, <1>1, <1>2, <1>3 DEF TryInsert
<1>4. ASSUME NEW f \in Flusher, Flush(f) PROVE One(l)'
  BY <1>0, <1>1, <1>2, <1>4 DEF Flush
<1>5. ASSUME NEW p \in Thread, ReserveBytes(p) PROVE One(l)'
  BY <1>0, <1>1, <1>2, <1>5 DEF ReserveBytes
<1>6. ASSUME NEW p \in Thread, TrySend(p) \/ SendBarrier(p) \/ DropRefused(p) \/ Acknowledged(p) PROVE One(l)'
  BY <1>0, <1>1, <1>2, <1>6 DEF TrySend, SendBarrier, DropRefused, Acknowledged
<1>7. CASE UNCHANGED vars \/ Shutdown
  <2>1. Owed(l)' = Owed(l)
    BY <1>7 DEF Owed, vars, Shutdown
  <2> QED BY <1>1, <1>7, <2>1 DEF vars, Shutdown
<1> QED BY <1>3, <1>4, <1>5, <1>6, <1>7, TokenThreadStep, TokenWriterStep DEF Next, ThreadStep

-----------------------------------------------------------------------------
\* The write lanes: barriers

\* and where the barriers of each flush are: SentTo(f) are the lanes that have the
\* one of the current flush, Current(f, l) its place there, Acked(f) the lanes that applied it.
SentTo(f) == {l \in Lane : \/ pc[f] = "await" \/ l < at[f]
                           \/ (l = at[f] /\ pc[f] \in {"sched", "token"})}
Current(f, l) == {i \in 1..Len(sent[l]) : sent[l][i].by = f /\ sent[l][i].n = left[f]}
Acked(f) == {l \in Lane : \E i \in Current(f, l) : i <= Len(done[l])}

\* The barriers of f in lane l: those of earlier flushes have been applied, the one of
\* the current flush is at most one, behind everything sent when the flush began.
BarrierAt(f, l) ==
    /\ mark[f][l] <= Len(sent[l])
    /\ \A i \in 1..Len(sent[l]) : sent[l][i].by = f =>
          /\ sent[l][i].n >= left[f]
          /\ i > Len(done[l]) => pc[f] # "idle" /\ i \in Current(f, l)
    /\ \A i \in Current(f, l) :
          /\ \A j \in Current(f, l) : i = j
          /\ pc[f] # "idle" => l \in SentTo(f) /\ i > mark[f][l]

BarrierInv ==
    \A f \in Flusher : acks[f] = Cardinality(Acked(f)) /\ \A l \in Lane : BarrierAt(f, l)

LEMMA SentFacts ==
  ASSUME Typed, FifoExactlyOnce, NEW l \in Lane
  PROVE  /\ sent[l] \in Seq(Op) /\ Len(sent[l]) \in Nat /\ Len(done[l]) \in Nat /\ done[l] \in Seq(Op)
         /\ Len(done[l]) <= Len(sent[l])
         /\ \A i \in 1..Len(sent[l]) : sent[l][i] \in Op /\ sent[l][i].n \in Nat
<1>1. sent[l] = done[l] \o Backlog(l) /\ done[l] \in Seq(Op) /\ Backlog(l) \in Seq(Op) /\ sent[l] \in Seq(Op)
  BY BacklogType DEF FifoExactlyOnce
<1>2. Len(sent[l]) = Len(done[l]) + Len(Backlog(l)) /\ Len(done[l]) \in Nat /\ Len(Backlog(l)) \in Nat
  BY <1>1, ConcatProperties
<1>3. \A i \in 1..Len(sent[l]) : sent[l][i] \in Op
  BY <1>1
<1>4. \A o \in Op : o.n \in Nat
  BY LaneConst DEF Op
<1> QED BY <1>1, <1>2, <1>3, <1>4

LEMMA BarrierInit == Init => BarrierInv
<1> SUFFICES ASSUME Init, NEW f \in Flusher PROVE acks[f] = Cardinality(Acked(f))
                     /\ \A l \in Lane : BarrierAt(f, l)
  BY DEF BarrierInv
<1>1. \A l \in Lane : sent[l] = <<>> /\ Len(sent[l]) = 0 /\ mark[f][l] = 0 /\ Current(f, l) = {}
  BY DEF Init, Current
<1>2. Acked(f) = {}
  BY <1>1 DEF Acked
<1> QED BY <1>1, <1>2, FS_EmptySet DEF BarrierAt, Init

\* The step leaves the flusher where it is, or takes it on within its flush.
Onward(f) ==
    /\ left'[f] = left[f] /\ mark'[f] = mark[f] /\ acks'[f] = acks[f]
    /\ pc[f] = "idle" <=> pc'[f] = "idle"
    /\ SentTo(f) \subseteq SentTo(f)'

LEMMA OnwardKept ==
  ASSUME NEW f \in Flusher, NEW l \in Lane, Onward(f), Kept(l), BarrierAt(f, l)
  PROVE  BarrierAt(f, l)' /\ Current(f, l)' = Current(f, l)
<1>1. Current(f, l)' = Current(f, l)
  BY DEF Onward, Kept, Current
<1> QED BY <1>1 DEF Onward, Kept, BarrierAt

LEMMA AckedKept ==
  ASSUME NEW f \in Flusher, left'[f] = left[f], sent' = sent, done' = done
  PROVE  Acked(f)' = Acked(f)
BY DEF Acked, Current

\* A step begins or ends f's flush, applies an operation, or only moves f onward.
LEMMA OnwardSteps ==
  ASSUME Typed, FlusherInv, [Next]_vars, NEW f \in Flusher
  PROVE  \/ Flush(f) \/ Acknowledged(f) \/ Onward(f)
         \/ Apply /\ left' = left /\ mark' = mark /\ pc' = pc /\ at' = at
<1> USE LaneConst
<1>0. /\ DOMAIN pc = Thread /\ DOMAIN at = Thread /\ DOMAIN left = Thread /\ DOMAIN mark = Flusher
          /\ DOMAIN acks = Flusher
      /\ at[f] \in Lane /\ f \notin Producer /\ at[f] \in Nat
  BY DEF Typed, ThreadTypes, CountTypes
<1>1. ASSUME left'[f] = left[f], mark'[f] = mark[f], acks'[f] = acks[f], pc'[f] = pc[f],
              at'[f] = at[f] PROVE Onward(f)
  BY <1>1 DEF Onward, SentTo
<1>2. ASSUME NEW p \in Producer, NEW l \in Lane, NEW c \in Cost, TryInsert(p, l, c) PROVE Onward(f)
  BY <1>0, <1>1, <1>2 DEF TryInsert
<1>3. ASSUME NEW g \in Flusher, Flush(g), g # f PROVE Onward(f)
  BY <1>0, <1>1, <1>3 DEF Flush
<1>4. ASSUME NEW p \in Thread, ThreadStep(p), p # f PROVE Onward(f)
  <2>1. pc'[f] = pc[f] /\ at'[f] = at[f] /\ left' = left /\ mark' = mark /\ acks' = acks
    BY <1>0, <1>4 DEF ThreadStep, ReserveBytes, TrySend, DropRefused, SendBarrier, Schedule, SendToken,
        Acknowledged, Scheduled
  <2> QED BY <1>1, <2>1
<1>5. ASSUME ThreadStep(f) PROVE Onward(f) \/ Acknowledged(f)
  <2>1. SendBarrier(f) \/ Schedule(f) \/ SendToken(f) \/ Acknowledged(f)
    BY <1>0, <1>5 DEF ThreadStep, ReserveBytes, TrySend, DropRefused, FlusherInv
  <2>2. CASE SendBarrier(f)
    <3>1. left' = left /\ mark' = mark /\ acks' = acks /\ at' = at /\ pc[f] = "send" /\ pc'[f] = "sched"
      BY <1>0, <2>2 DEF SendBarrier
    <3> QED BY <3>1 DEF Onward, SentTo
  <2>3. CASE Schedule(f) \/ SendToken(f)
    <3>1. left' = left /\ mark' = mark /\ acks' = acks /\ pc[f] \in {"sched", "token"}
      BY <2>3 DEF Schedule, SendToken
    <3>2. \/ pc'[f] = "token" /\ at'[f] = at[f]
          \/ pc'[f] = "send" /\ at'[f] = at[f] + 1
          \/ pc'[f] = "await"
      BY <1>0, <2>3 DEF Schedule, SendToken, Scheduled
    <3>3. SentTo(f) \subseteq SentTo(f)'
      <4> SUFFICES ASSUME NEW l \in SentTo(f) PROVE l \in SentTo(f)'
        OBVIOUS
      <4>1. l \in Lane /\ l \in Nat /\ l <= at[f]
        <5>1. l \in Lane /\ (l < at[f] \/ l = at[f])
          BY <3>1 DEF SentTo
        <5>2. l \in Nat
          BY <5>1
        <5> QED BY <1>0, <5>1, <5>2
      <4>2. CASE pc'[f] = "token" /\ at'[f] = at[f]
        BY <1>0, <4>1, <4>2 DEF SentTo
      <4>3. CASE pc'[f] = "send" /\ at'[f] = at[f] + 1
        BY <1>0, <4>1, <4>3 DEF SentTo
      <4>4. CASE pc'[f] = "await"
        BY <4>1, <4>4 DEF SentTo
      <4> QED BY <3>2, <4>2, <4>3, <4>4
    <3> QED BY <3>1, <3>2, <3>3 DEF Onward
  <2> QED BY <2>1, <2>2, <2>3
<1>6. CASE Apply
  BY <1>6 DEF Apply
<1>7. CASE UNCHANGED <<threadVars, mark, acks>>
  BY <1>1, <1>7
<1> QED BY <1>2, <1>3, <1>4, <1>5, <1>6, <1>7
        DEF Next, vars, Shutdown, Writer, Collect, Pop, Exit, TakeReady, ClearStale, FinishTurn,
           FinishClear, FinishCheck, FinishCas

\* A new flush has no barrier out yet: those of the earlier ones have other numbers.
LEMMA FlushBegins ==
  ASSUME Typed, FifoExactlyOnce, NEW f \in Flusher, Flush(f), \A l \in Lane : BarrierAt(f, l)
  PROVE  acks'[f] = Cardinality(Acked(f)') /\ \A l \in Lane : BarrierAt(f, l)'
<1> USE LaneConst
<1>0. /\ pc[f] = "idle" /\ pc'[f] = "send" /\ at'[f] = 1 /\ left'[f] = left[f] - 1 /\ left[f] \in Nat
          /\ acks'[f] = 0
      /\ sent' = sent /\ done' = done /\ \A l \in Lane : mark'[f][l] = Len(sent[l])
  BY DEF Flush, Typed, ThreadTypes, CountTypes
<1>1. ASSUME NEW l \in Lane PROVE Current(f, l)' = {}
  <2>1. ASSUME NEW i \in 1..Len(sent[l]), sent[l][i].by = f PROVE sent[l][i].n # left'[f]
    <3>1. sent[l][i].n >= left[f] /\ sent[l][i].n \in Nat
      BY <2>1, SentFacts DEF BarrierAt
    <3> QED BY <3>1, <1>0
  <2> QED BY <1>0, <2>1 DEF Current
<1>2. Acked(f)' = {}
  BY <1>1 DEF Acked
<1>3. acks'[f] = Cardinality(Acked(f)')
  BY <1>0, <1>2, FS_EmptySet
<1>4. ASSUME NEW l \in Lane PROVE BarrierAt(f, l)'
  <2>0. Len(sent[l]) \in Nat /\ Len(done[l]) \in Nat
    BY SentFacts
  <2>1. mark'[f][l] <= Len(sent'[l])
    BY <1>0, <2>0
  <2>2. ASSUME NEW i \in 1..Len(sent[l]), sent[l][i].by = f
        PROVE  sent[l][i].n >= left'[f] /\ ~ (i > Len(done[l]))
    <3>1. sent[l][i].n >= left[f] /\ sent[l][i].n \in Nat /\ ~ (i > Len(done[l]))
      BY <2>2, <1>0, SentFacts DEF BarrierAt
    <3> QED BY <3>1, <1>0
  <2> QED BY <2>1, <2>2, <1>0, <1>1 DEF BarrierAt
<1> QED BY <1>3, <1>4

\* As many acknowledgements as lanes: each lane has applied the flush's own barrier, sent after the mark.
LEMMA AllAcked ==
  ASSUME Typed, FifoExactlyOnce, BarrierInv, NEW f \in Flusher, Acknowledged(f), NEW l \in Lane
  PROVE  \E i \in Current(f, l) : i <= Len(done[l]) /\ i > mark[f][l]
<1>1. IsFiniteSet(Lane) /\ Cardinality(Lane) = NumLanes
  BY LaneConst, FS_Interval DEF Lane
<1>2. Acked(f) \in SUBSET Lane /\ Cardinality(Acked(f)) = NumLanes
  BY DEF Acked, BarrierInv, Acknowledged
<1>3. Acked(f) = Lane
  BY <1>1, <1>2, FS_Subset
<1>4. PICK i \in Current(f, l) : i <= Len(done[l])
  BY <1>3 DEF Acked
<1>5. i > mark[f][l]
  BY DEF BarrierInv, BarrierAt, Acknowledged
<1> QED BY <1>4, <1>5

LEMMA FlushReturns ==
  ASSUME Typed, FifoExactlyOnce, BarrierInv, NEW f \in Flusher, Acknowledged(f)
  PROVE  acks'[f] = Cardinality(Acked(f)') /\ \A l \in Lane : BarrierAt(f, l)'
<1> USE LaneConst
<1>0. pc[f] = "await" /\ pc'[f] = "idle" /\ left' = left /\ acks' = acks /\ mark' = mark /\ sent' = sent
       /\ done' = done
  BY DEF Acknowledged, Typed, ThreadTypes
<1>1. Acked(f)' = Acked(f)
  BY <1>0, AckedKept
<1>2. ASSUME NEW l \in Lane PROVE BarrierAt(f, l)'
  <2>0. Len(sent[l]) \in Nat /\ Len(done[l]) \in Nat /\ BarrierAt(f, l)
    BY SentFacts DEF BarrierInv
  <2>1. Current(f, l)' = Current(f, l)
    BY <1>0 DEF Current
  <2>2. PICK j \in Current(f, l) : j <= Len(done[l])
    BY AllAcked
  <2>3. ASSUME NEW i \in 1..Len(sent[l]), sent[l][i].by = f, i > Len(done[l]) PROVE FALSE
    <3>1. i \in Current(f, l)
      BY <2>0, <2>3 DEF BarrierAt
    <3>2. i = j
      BY <3>1, <2>0, <2>2 DEF BarrierAt
    <3> QED BY <3>2, <2>0, <2>2, <2>3
  <2> QED BY <1>0, <2>0, <2>1, <2>3 DEF BarrierAt
<1> QED BY <1>0, <1>1, <1>2 DEF BarrierInv

LEMMA BarrierGrows ==
  ASSUME Typed, FlusherInv, FifoExactlyOnce, NEW f \in Flusher, NEW l \in Lane, BarrierAt(f, l), Onward(f),
         NEW p \in Thread, Grown(l, p), TrySend(p) \/ SendBarrier(p)
  PROVE  /\ BarrierAt(f, l)'
         /\ \A i \in 1..Len(done[l]) : i \in Current(f, l)' <=> i \in Current(f, l)
<1> USE LaneConst
<1> DEFINE n == Len(sent[l])
           d == Len(done[l])
<1>0. n \in Nat /\ d \in Nat /\ d <= n /\ OpOf(p) \in Op /\ sent[l] \in Seq(Op)
  BY SentFacts, OpType
<1>1. sent'[l] = Append(sent[l], OpOf(p)) /\ done'[l] = done[l]
  BY DEF Grown
<1>2. Len(sent'[l]) = n + 1 /\ sent'[l][n + 1] = OpOf(p) /\ \A i \in 1..n : sent'[l][i] = sent[l][i]
  BY <1>0, <1>1
<1>3. left'[f] = left[f] /\ mark'[f] = mark[f] /\ (pc[f] = "idle" <=> pc'[f] = "idle")
       /\ SentTo(f) \subseteq SentTo(f)'
  BY DEF Onward
<1>4. OpOf(p).by = p /\ OpOf(p).n = left[p] /\ left[f] \in Nat
  BY OpType DEF Typed, ThreadTypes
<1>5. mark'[f][l] <= n + 1 /\ mark[f][l] <= n /\ mark[f][l] \in Nat
  BY <1>0, <1>3 DEF BarrierAt, Typed, CountTypes
<1>6. CASE p # f
  <2>1. Current(f, l)' = Current(f, l)
    <3>1. 1..Len(sent'[l]) = (1..n) \cup {n + 1} /\ sent'[l][n + 1].by # f
      BY <1>0, <1>2, <1>4, <1>6
    <3>2. Current(f, l)' = {i \in 1..Len(sent'[l]) : sent'[l][i].by = f /\ sent'[l][i].n = left[f]}
      BY <1>3 DEF Current
    <3>3. Current(f, l) = {i \in 1..n : sent[l][i].by = f /\ sent[l][i].n = left[f]}
      BY DEF Current
    <3> HIDE DEF n
    <3> QED BY <1>2, <3>1, <3>2, <3>3
  <2>2. ASSUME NEW i \in 1..(n + 1), sent'[l][i].by = f PROVE i \in 1..n /\ sent[l][i].by = f
                /\ sent'[l][i] = sent[l][i]
    BY <1>0, <1>2, <1>4, <1>6, <2>2
  <2>3. \A i \in 1..(n + 1) : sent'[l][i].by = f =>
          /\ sent'[l][i].n >= left[f]
          /\ i > d => pc[f] # "idle" /\ i \in Current(f, l)
    BY <2>2 DEF BarrierAt
  <2> QED BY <1>1, <1>2, <1>3, <1>5, <2>1, <2>3 DEF BarrierAt
<1>7. CASE p = f
  <2>1. l = at[f] /\ pc[f] = "send" /\ pc'[f] = "sched" /\ at' = at /\ l \notin SentTo(f) /\ l \in SentTo(f)'
    <3>1. SendBarrier(f)
      BY <1>7 DEF TrySend
    <3>2. l = at[f] /\ pc[f] = "send" /\ pc'[f] = "sched" /\ at' = at
      BY <1>7, <3>1 DEF SendBarrier, Grown, Typed, ThreadTypes
    <3> QED BY <3>2 DEF SentTo
  <2>2. Current(f, l) = {}
    BY <2>1 DEF BarrierAt
  <2>3. Current(f, l)' = {n + 1}
    <3>1. ASSUME NEW i \in 1..n PROVE i \notin Current(f, l)'
      BY <2>2, <1>0, <1>2, <1>3 DEF Current
    <3>2. n + 1 \in Current(f, l)'
      BY <1>0, <1>2, <1>3, <1>4, <1>7 DEF Current
    <3>3. Current(f, l)' \subseteq 1..(n + 1)
      BY <1>2 DEF Current
    <3> QED BY <1>0, <3>1, <3>2, <3>3
  <2>4. \A i \in 1..(n + 1) : sent'[l][i].by = f =>
          /\ sent'[l][i].n >= left[f]
          /\ i > d => i \in Current(f, l)'
    <3>1. ASSUME NEW i \in 1..n, sent[l][i].by = f PROVE sent[l][i].n >= left[f] /\ ~ (i > d)
      BY <2>2, <3>1 DEF BarrierAt
    <3>2. ASSUME NEW i \in 1..(n + 1), i # n + 1 PROVE i \in 1..n /\ sent'[l][i] = sent[l][i]
      BY <1>0, <1>2, <3>2
    <3>3. sent'[l][n + 1].n >= left[f]
      BY <1>2, <1>4, <1>7
    <3> QED BY <2>3, <3>1, <3>2, <3>3
  <2>5. n + 1 > mark[f][l] /\ \A i \in 1..d : i # n + 1
    BY <1>0, <1>5
  <2> QED BY <1>1, <1>2, <1>3, <1>5, <2>1, <2>2, <2>3, <2>4, <2>5 DEF BarrierAt
<1> QED BY <1>6, <1>7

\* A barrier that is applied is acknowledged, and was not before.
LEMMA BarrierApplied ==
  ASSUME Typed, TurnInv, FifoExactlyOnce, BarrierInv, Apply, NEW f \in Flusher
  PROVE  acks'[f] = Cardinality(Acked(f)') /\ \A l \in Lane : BarrierAt(f, l)'
<1> USE LaneConst
<1> DEFINE d == Len(done[turn])
<1>0. turn \in Lane /\ left' = left /\ mark' = mark /\ pc' = pc /\ at' = at /\ sent' = sent
       /\ DOMAIN done = Lane /\ DOMAIN acks = Flusher
      /\ acks[f] \in Int /\ Apply /\ turn' = turn
  BY DEF Apply, Typed, TokenTypes, LaneTypes, CountTypes
<1>1. Worked(turn)
  BY <1>0, ApplyWorks
<1>2. /\ done'[turn] = Append(done[turn], hand[1]) /\ hand[1] \in Op /\ d \in Nat /\ Len(done'[turn]) = d + 1
      /\ \A l \in Lane : l # turn => done'[l] = done[l]
  <2>1. done[turn] \in Seq(Op) /\ d \in Nat
    BY <1>0, SentFacts
  <2>2. done'[turn] = Append(done[turn], hand[1]) /\ hand[1] \in Op
    BY <1>1 DEF Worked
  <2>3. \A l \in Lane : l # turn => done'[l] = done[l]
    BY <1>0 DEF Apply
  <2>4. Len(done'[turn]) = d + 1
    BY <2>1, <2>2
  <2> QED BY <2>1, <2>2, <2>3, <2>4
<1>3. d + 1 \in 1..Len(sent[turn]) /\ sent[turn][d + 1] = hand[1]
  <2> DEFINE after == Backlog(turn)'
  <2>1. /\ sent[turn] = done[turn] \o Backlog(turn) /\ done[turn] \in Seq(Op)
        /\ Backlog(turn) = <<hand[1]>> \o after /\ after \in Seq(Op)
    BY <1>0, <1>1, SentFacts DEF FifoExactlyOnce, Worked
  <2>2. Backlog(turn) \in Seq(Op) /\ Len(Backlog(turn)) >= 1 /\ Backlog(turn)[1] = hand[1]
    <3> HIDE DEF after
    <3>1. <<hand[1]>> \in Seq(Op)
      BY <1>2
    <3>2. Len(<<hand[1]>> \o after) = 1 + Len(after) /\ Len(after) \in Nat
           /\ (<<hand[1]>> \o after)[1] = hand[1]
      BY <2>1, <1>2
    <3>3. Backlog(turn) \in Seq(Op)
      BY <1>0, BacklogType
    <3> QED BY <2>1, <3>2, <3>3
  <2>3. Len(sent[turn]) = d + Len(Backlog(turn)) /\ sent[turn][d + 1] = Backlog(turn)[1]
    <3> DEFINE b == Backlog(turn)
               s == done[turn]
    <3>1. s \in Seq(Op) /\ b \in Seq(Op) /\ Len(b) >= 1 /\ Len(b) \in Nat /\ Len(s) \in Nat
      BY <2>1, <2>2
    <3> HIDE DEF b, s
    <3>2. Len(s \o b) = Len(s) + Len(b) /\ (s \o b)[Len(s) + 1] = b[1]
      BY <3>1
    <3> QED BY <3>2, <2>1 DEF b, s
  <2> QED BY <1>2, <2>2, <2>3
<1>4. \A l \in Lane : BarrierAt(f, l) /\ Current(f, l)' = Current(f, l) /\ SentTo(f)' = SentTo(f)
  BY <1>0 DEF BarrierInv, Current, SentTo
<1>5. ASSUME NEW l \in Lane PROVE BarrierAt(f, l)'
  <2>1. Len(done[l]) \in Nat /\ Len(sent[l]) \in Nat /\ Len(done'[l]) \in Nat /\ Len(done'[l]) >= Len(done[l])
    BY <1>2, SentFacts
  <2>2. \A i \in 1..Len(sent[l]) : i > Len(done'[l]) => i > Len(done[l])
    BY <2>1
  <2> QED BY <1>0, <1>4, <2>2 DEF BarrierAt
<1>6. IsFiniteSet(Acked(f)) /\ Cardinality(Acked(f)) \in Nat /\ acks[f] = Cardinality(Acked(f))
  <2>1. IsFiniteSet(Lane)
    BY FS_Interval DEF Lane
  <2>2. IsFiniteSet(Acked(f))
    BY <2>1, FS_Subset DEF Acked
  <2> QED BY <2>2, FS_CardinalityType DEF BarrierInv
<1>7. CASE hand[1].by = f
  <2>1. d + 1 \in Current(f, turn)
    BY <1>0, <1>2, <1>3, <1>4, <1>7 DEF BarrierAt
  <2>2. turn \notin Acked(f)
    <3>1. ASSUME NEW i \in Current(f, turn), i <= d PROVE FALSE
      <4>1. i = d + 1
        BY <1>0, <1>4, <2>1 DEF BarrierAt
      <4> QED BY <4>1, <3>1, <1>2
    <3> QED BY <3>1 DEF Acked
  <2>3. Acked(f)' = Acked(f) \cup {turn}
    <3>1. ASSUME NEW l \in Lane, l # turn PROVE l \in Acked(f)' <=> l \in Acked(f)
      BY <1>2, <1>4, <3>1 DEF Acked
    <3>2. turn \in Acked(f)'
      <4>1. \E i \in Current(f, turn)' : i <= Len(done'[turn])
        BY <1>0, <1>2, <1>4, <2>1
      <4> QED BY <1>0, <4>1 DEF Acked
    <3>3. Acked(f)' \subseteq Lane /\ Acked(f) \subseteq Lane
      BY DEF Acked
    <3> QED BY <1>0, <3>1, <3>2, <3>3
  <2>4. Cardinality(Acked(f)') = Cardinality(Acked(f)) + 1
    BY <1>6, <2>2, <2>3, FS_AddElement
  <2>5. acks'[f] = acks[f] + 1
    BY <1>0, <1>7 DEF Apply
  <2> QED BY <1>5, <1>6, <2>4, <2>5
<1>8. CASE hand[1].by # f
  <2>1. d + 1 \notin Current(f, turn)
    BY <1>3, <1>8 DEF Current
  <2>2. ASSUME NEW l \in Lane PROVE l \in Acked(f)' <=> l \in Acked(f)
    <3>1. CASE l # turn
      BY <1>2, <1>4, <3>1 DEF Acked
    <3>2. CASE l = turn
      <4>1. ASSUME NEW i \in Current(f, turn) PROVE i <= d + 1 <=> i <= d
        <5>1. i # d + 1 /\ i \in Nat
          BY <2>1 DEF Current
        <5> QED BY <5>1, <1>2
      <4> QED BY <4>1, <1>0, <1>2, <1>4, <3>2 DEF Acked
    <3> QED BY <3>1, <3>2
  <2>3. Acked(f)' = Acked(f)
    <3>1. Acked(f)' \subseteq Lane /\ Acked(f) \subseteq Lane
      BY DEF Acked
    <3> QED BY <2>2, <3>1
  <2>4. acks'[f] = acks[f]
    BY <1>0, <1>8 DEF Apply
  <2> QED BY <1>5, <1>6, <2>3, <2>4
<1> QED BY <1>7, <1>8

LEMMA BarrierStep ==
  ASSUME Typed, TurnInv, FlusherInv, FifoExactlyOnce, BarrierInv, [Next]_vars
  PROVE  BarrierInv'
<1> SUFFICES ASSUME NEW f \in Flusher PROVE acks'[f] = Cardinality(Acked(f)')
                     /\ \A l \in Lane : BarrierAt(f, l)'
  BY DEF BarrierInv
<1>0. acks[f] = Cardinality(Acked(f)) /\ \A l \in Lane : BarrierAt(f, l)
  BY DEF BarrierInv
<1>1. CASE Flush(f)
  BY <1>0, <1>1, FlushBegins
<1>2. CASE Acknowledged(f)
  BY <1>2, FlushReturns
<1>3. CASE Apply
  BY <1>3, BarrierApplied
<1>4. CASE Onward(f) /\ ~ Apply
  <2>1. ASSUME NEW l \in Lane PROVE BarrierAt(f, l)' /\ (l \in Acked(f)' <=> l \in Acked(f))
    <3>1. CASE Kept(l)
      <4>1. BarrierAt(f, l)' /\ Current(f, l)' = Current(f, l) /\ done'[l] = done[l]
        BY <1>0, <1>4, <3>1, OnwardKept DEF Kept
      <4> QED BY <4>1 DEF Acked
    <3>2. ASSUME NEW p \in Thread, Grown(l, p), TrySend(p) \/ SendBarrier(p)
          PROVE  BarrierAt(f, l)' /\ (l \in Acked(f)' <=> l \in Acked(f))
      <4>1. /\ BarrierAt(f, l)' /\ done'[l] = done[l]
            /\ \A i \in 1..Len(done[l]) : i \in Current(f, l)' <=> i \in Current(f, l)
        BY <1>0, <1>4, <3>2, BarrierGrows DEF Grown
      <4>2. \A i \in Current(f, l) : i >= 1 /\ i \in Nat
        BY DEF Current
      <4>3. \A i \in Current(f, l)' : i >= 1 /\ i \in Nat
        BY DEF Current
      <4>4. Len(done[l]) \in Nat
        BY SentFacts
      <4> QED BY <4>1, <4>2, <4>3, <4>4 DEF Acked
    <3> QED BY <1>4, <3>1, <3>2, BacklogStep
  <2>2. Acked(f)' = Acked(f)
    <3>1. Acked(f)' \subseteq Lane /\ Acked(f) \subseteq Lane
      BY DEF Acked
    <3> QED BY <2>1, <3>1
  <2> QED BY <1>0, <1>4, <2>1, <2>2 DEF Onward
<1> QED BY <1>1, <1>2, <1>3, <1>4, OnwardSteps

LEMMA ReturnIsLate ==
  ASSUME Typed, FlusherInv, FifoExactlyOnce, BarrierInv, [Next]_vars, NEW f \in Flusher, pc[f] = "await",
         pc'[f] = "idle", NEW l \in Lane
  PROVE  Len(done[l]) >= mark[f][l]
<1>1. Acknowledged(f)
  BY OnwardSteps DEF Onward, Flush
<1>2. PICK i \in Current(f, l) : i <= Len(done[l]) /\ i > mark[f][l]
  BY <1>1, AllAcked
<1>3. i \in Nat /\ Len(done[l]) \in Nat /\ mark[f][l] \in Nat
  BY SentFacts DEF Current, Typed, CountTypes
<1> QED BY <1>2, <1>3

-----------------------------------------------------------------------------
\* The write lanes: the theorems

SeenInv == \A p \in Thread : seen[p] >= 0

\* Together.
IInv ==
    /\ Typed /\ TurnInv /\ FlusherInv /\ SeenInv
    /\ \A l \in Lane : Balanced(l) /\ One(l)
    /\ FifoExactlyOnce /\ BarrierInv

LEMMA SeenStep ==
  ASSUME Typed, SeenInv, \A l \in Lane : Balanced(l), [Next]_vars
  PROVE  SeenInv'
<1> USE LaneConst
<1>0. DOMAIN seen = Thread /\ (\A p \in Thread : at[p] \in Lane /\ seen[p] \in Int)
       /\ \A l \in Lane : queued[l] \in Int /\ queued[l] >= 0
  <2>1. ASSUME NEW l \in Lane PROVE queued[l] >= 0
    <3>1. CostOf(Backlog(l)) \in Nat /\ Reserved(l) \in Nat
      BY ReservedType
    <3> QED BY <3>1 DEF Balanced
  <2> QED BY <2>1 DEF Typed, CountTypes, ThreadTypes
<1>1. CASE seen' = seen
  BY <1>1 DEF SeenInv
<1>2. ASSUME NEW p \in Producer, NEW l \in Lane, NEW c \in Cost, TryInsert(p, l, c) PROVE SeenInv'
  BY <1>0, <1>2 DEF TryInsert, SeenInv
<1>3. ASSUME NEW p \in Thread, ReserveBytes(p) PROVE SeenInv'
  BY <1>0, <1>3 DEF ReserveBytes, SeenInv
<1> QED BY <1>1, <1>2, <1>3
        DEF Next, vars, Flush, ThreadStep, TrySend, DropRefused, SendBarrier, Schedule, SendToken,
           Acknowledged, Shutdown,
            Writer, Collect, Pop, Exit, TakeReady, ClearStale, Apply, FinishTurn, FinishClear, FinishCheck,
               FinishCas

LEMMA InitIInv == Init => IInv
<1> SUFFICES ASSUME Init PROVE IInv
  OBVIOUS
<1> USE LaneConst
<1>1. Typed /\ TurnInv /\ FlusherInv /\ BarrierInv
  BY InitTyped, FlusherInit, BarrierInit
<1>2. SeenInv
  BY DEF Init, SeenInv
<1>3. ASSUME NEW l \in Lane PROVE Backlog(l) = <<>> /\ sent[l] = <<>> /\ done[l] = <<>> /\ queued[l] = 0
              /\ ~ scheduled[l] /\ Reserving(l) = {}
  BY EmptySeq, ConcatEmptySeq DEF Init, Backlog, Reserving
<1>4. FifoExactlyOnce
  BY <1>3, EmptySeq, ConcatEmptySeq, ZenonT(40) DEF FifoExactlyOnce
<1>5. ASSUME NEW l \in Lane PROVE Balanced(l)
  <2>1. CostOf(Backlog(l)) = 0 /\ Reserved(l) = 0 /\ queued[l] = 0
    BY <1>3, SumEmpty, CostEmpty DEF Reserved
  <2> QED BY <2>1 DEF Balanced
<1>6. ASSUME NEW l \in Lane PROVE One(l)
  <2>1. Occurrences(l, <<>>) = 0
    <3>1. {i \in DOMAIN <<>> : <<>>[i] = l} = {}
      OBVIOUS
    <3> QED BY <3>1, FS_EmptySet DEF Occurrences
  <2>2. Owed(l) = {} /\ Held(l) = 0
    BY DEF Init, Owed, Held
  <2>3. Tokens(l) = 0
    BY <1>1, <2>1, <2>2, FS_EmptySet, TokensAre DEF Init
  <2> QED BY <1>3, <2>3 DEF One
<1> QED BY <1>1, <1>2, <1>4, <1>5, <1>6 DEF IInv

LEMMA IInvStep == IInv /\ [Next]_vars => IInv'
<1> SUFFICES ASSUME IInv, [Next]_vars PROVE IInv'
  OBVIOUS
<1>0. Typed /\ TurnInv /\ FlusherInv /\ SeenInv /\ FifoExactlyOnce /\ BarrierInv
       /\ \A l \in Lane : Balanced(l) /\ One(l)
  BY DEF IInv
<1>1. Typed'
  BY <1>0, LanesTyped, ThreadsTyped, TokensTyped, BitsTyped, CountsTyped DEF Typed
<1>2. TurnInv' /\ FlusherInv' /\ SeenInv'
  BY <1>0, TurnStep, FlusherStep, SeenStep
<1>3. ASSUME NEW l \in Lane PROVE Balanced(l)' /\ One(l)'
  BY <1>0, BalanceStep, TokenStep
<1>4. FifoExactlyOnce' /\ BarrierInv'
  BY <1>0, FifoStep, BarrierStep
<1> QED BY <1>1, <1>2, <1>3, <1>4 DEF IInv

LEMMA IInvBooks == IInv => LaneBooks
<1> SUFFICES ASSUME IInv PROVE LaneBooks
  OBVIOUS
<1> USE LaneConst
<1>1. BytesAccounted
  BY DEF IInv, Balanced, Reserved, BytesAccounted
<1>2. TokenUnique
  BY DEF IInv, One, TokenUnique
<1>3. queued \in [Lane -> Nat]
  <2>1. ASSUME NEW l \in Lane PROVE queued[l] \in Nat
    <3>1. CostOf(Backlog(l)) \in Nat /\ Reserved(l) \in Nat
      BY ReservedType DEF IInv
    <3> QED BY <3>1 DEF Balanced, IInv
  <2> QED BY <2>1 DEF IInv, Typed, CountTypes
<1>4. seen \in [Thread -> Nat]
  BY DEF IInv, Typed, CountTypes, SeenInv
<1>5. acks \in [Flusher -> 0..NumLanes]
  <2>1. ASSUME NEW f \in Flusher PROVE acks[f] \in 0..NumLanes
    <3>1. IsFiniteSet(Lane) /\ Cardinality(Lane) = NumLanes /\ Acked(f) \in SUBSET Lane
      BY FS_Interval DEF Lane, Acked
    <3>2. IsFiniteSet(Acked(f)) /\ Cardinality(Acked(f)) <= NumLanes
      BY <3>1, FS_Subset
    <3>3. Cardinality(Acked(f)) \in Nat
      BY <3>2, FS_CardinalityType
    <3>4. acks[f] = Cardinality(Acked(f))
      BY DEF IInv, BarrierInv
    <3> QED BY <3>2, <3>3, <3>4
  <2> QED BY <2>1 DEF IInv, Typed, CountTypes
<1>6. TypeOK
  <2>1. LaneTypes /\ ThreadTypes /\ TokenTypes /\ BitTypes /\ mark \in [Flusher -> [Lane -> Nat]]
    BY DEF IInv, Typed, CountTypes
  <2> QED BY <2>1, <1>3, <1>4, <1>5 DEF TypeOK, LaneTypes, ThreadTypes, TokenTypes, BitTypes, Place
<1> QED BY <1>1, <1>2, <1>6 DEF LaneBooks

LEMMA IInvHolds == Spec => []IInv
BY InitIInv, IInvStep, PTL DEF Spec

\* The bytes a lane holds are what its live reservations add up to and within its budget,
\* each lane has at most one token, and the types are as declared, whatever number of request
\* threads, flushes and lanes there is (reserve_bytes, ReservedInsert::drop, schedule, finish_turn).
THEOREM LanesBalance == Spec => []LaneBooks
BY IInvHolds, IInvBooks, PTL

\* Every operation sent to a lane is applied exactly once and in order (take_ready, finish_turn).
THEOREM AppliedOnceInOrder == Spec => []FifoExactlyOnce
<1>1. IInv => FifoExactlyOnce
  BY DEF IInv
<1> QED BY <1>1, IInvHolds, PTL

\* flush() returns only when everything sent before it began has been applied (ExactCache::flush).
THEOREM FlushWaits == Spec => FlushIsABarrier
<1>1. IInv /\ [Next]_vars =>
        [\A f \in Flusher : pc[f] = "await"
           /\ pc'[f] = "idle" => \A l \in Lane : Len(done[l]) >= mark[f][l]]_vars
  <2> SUFFICES ASSUME IInv, [Next]_vars, NEW f \in Flusher, pc[f] = "await", pc'[f] = "idle", NEW l \in Lane
               PROVE  Len(done[l]) >= mark[f][l]
    OBVIOUS
  <2> QED BY ReturnIsLate DEF IInv
<1> QED BY <1>1, IInvHolds, PTL DEF Spec, FlushIsABarrier
=============================================================================
