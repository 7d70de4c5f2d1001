------------------------- MODULE AttemptLoopProofs -------------------------
(***************************************************************************)
(* Proofs about AttemptLoop, for every number of targets, keys, retries and *)
(* hedges and every choice of the timeouts.                                 *)
(*                                                                          *)
(* Shape says which targets run, and that the reply is open exactly while   *)
(* one does.  Timers bounds the timers by the deadline and relates them to  *)
(* the flag that blames the caller.  Books relates the failures charged to  *)
(* a target with the evidence there was.  Each holds relative to the ones   *)
(* before it.                                                               *)
(***************************************************************************)
EXTENDS AttemptLoop, TLAPS

Shape ==
    /\ \A i \in Target : i >= next <=> st[i] = "idle"
    /\ \A i \in Target : st[i] = "idle" =>
         fed[i] = 0 /\ genuine[i] = 0 /\ key[i] = 1 /\ notBefore[i] = 0
    /\ extra = 0 => \A i, j \in Target : st[i] \in Running /\ st[j] \in Running => i = j
    /\ hedgeAt # Never => next <= NTargets /\ extra > 0
    /\ reply = "pending" <=> \E i \in Target : st[i] \in Running
    /\ reply = "pending" => \A i \in Target : st[i] \notin {"won", "dropped"}
    /\ reply = "failed" => \A i \in Target : st[i] = "out"
    /\ \A i \in Target : st[i] = "out" /\ IsPool(i) => key[i] = PoolSize[i]
    /\ rejected <=> refused # {}

Timers ==
    /\ ~capped => expires = Budget
    /\ \A i \in Target : st[i] = "flight" =>
         /\ until[i] <= expires
         /\ since[i] >= notBefore[i]
         /\ bounded[i] => capped
         /\ ~bounded[i] => ServerLimit(i)
    /\ \A i \in Target : st[i] = "sleep" => until[i] < expires /\ until[i] >= notBefore[i]
    /\ \A i \in Target : st[i] = "try" => clock >= notBefore[i]
    /\ DeadlineKept

Books ==
    /\ \A i \in Target : fed[i] <= genuine[i]
    /\ \A i \in Target : ~capped /\ ~IsPool(i) => fed[i] = genuine[i]
    /\ \A i \in Target : IsPool(i) => fed[i] <= 1 /\ (fed[i] = 1 => st[i] = "out")
    /\ poolFault => extra = 0 /\ \A i \in Target : st[i] \in Running => genuine[i] > 0

Sampled ==
    \A i \in Target : samples[i] <= measured[i] /\ (~capped => samples[i] = measured[i])

\* What the attempts of other targets keep when one target moves on.
OthersKeep(i) == \A j \in Target \ {i} : genuine'[j] = genuine[j]

-----------------------------------------------------------------------------
\* TypeOK and Shape

LEMMA ExhaustedStep ==
    ASSUME TypeOK, Shape, NEW i \in Target, st[i] \in Running,
           NEW fault \in BOOLEAN, NEW clientError \in BOOLEAN, NEW feed \in {0, 1},
           Exhausted(i, fault, clientError, feed),
           UNCHANGED <<clock, deadlineVars>>,
           genuine' \in [Target -> Nat], OthersKeep(i)
    PROVE  /\ next' \in 2..(NTargets + 1)
           /\ hedgeAt' \in Nat \cup {Never}
           /\ st' \in [Target -> Running \cup {"idle", "out", "won", "dropped"}]
           /\ key' \in [Target -> Nat]
           /\ \A j \in Target : key'[j] \in 1..PoolSize[j]
           /\ try' \in [Target -> 0..MaxRetries]
           /\ poolFault' \in BOOLEAN /\ rejected' \in BOOLEAN
           /\ fed' \in [Target -> Nat]
           /\ reply' \in {"pending", "ok", "failed", "gone"}
           /\ refused' \subseteq Target \X Nat
           /\ notBefore' \in [Target -> Nat]
           /\ Shape'
<1> DEFINE lastKey == ~IsPool(i) \/ key[i] = PoolSize[i]
<1>0. UNCHANGED extra /\ UNCHANGED clock
  BY DEF deadlineVars
<1>n. /\ next \in Nat /\ next >= 2 /\ next <= NTargets + 1
      /\ NTargets \in Nat \ {0}
      /\ \A j \in Target : j \in Nat /\ 1 <= j /\ j <= NTargets
      /\ next <= NTargets => next \in Target
  BY TargetsAssumption DEF TypeOK, Target
<1>t. /\ st \in [Target -> Running \cup {"idle", "out", "won", "dropped"}]
      /\ key \in [Target -> Nat] /\ try \in [Target -> 0..MaxRetries]
      /\ notBefore \in [Target -> Nat] /\ fed \in [Target -> Nat]
      /\ \A j \in Target : key[j] \in 1..PoolSize[j]
      /\ PoolSize \in [Target -> Nat \ {0}] /\ MaxRetries \in Nat
      /\ reply \in {"pending", "ok", "failed", "gone"}
  BY PoolSizeAssumption, RetryAssumption DEF TypeOK
<1>1. /\ poolFault' \in BOOLEAN
      /\ rejected' \in BOOLEAN
      /\ fed' \in [Target -> Nat]
      /\ refused' \subseteq Target \X Nat
      /\ hedgeAt' \in Nat \cup {Never}
  <2>1. poolFault' \in BOOLEAN /\ rejected' \in BOOLEAN
    BY DEF Exhausted
  <2>2. PoolFeed(i, fault, lastKey) \in Nat
    BY DEF PoolFeed
  <2>3. fed' \in [Target -> Nat]
    BY <1>t, <2>2 DEF Exhausted
  <2>4. refused' \subseteq Target \X Nat
    BY <1>t DEF Exhausted, TypeOK
  <2>5. hedgeAt' \in Nat \cup {Never}
    BY HedgeAssumption DEF Exhausted, Rearm, TypeOK
  <2> QED BY <2>1, <2>3, <2>4, <2>5
<1>3. MoveOn(i, lastKey)
  BY DEF Exhausted
<1>4. hedgeAt' # Never => next' <= NTargets /\ extra' > 0
  BY <1>0 DEF Exhausted, Rearm
<1>5. rejected' <=> refused' # {}
  BY DEF Exhausted, Shape
<1>6. \A j \in Target \ {i} : fed'[j] = fed[j]
  BY DEF Exhausted, TypeOK
<1>7. reply = "pending"
  BY DEF Shape
<1>8. CASE ~lastKey
  <2>1. /\ st' = [st EXCEPT ![i] = "try"] /\ UNCHANGED <<next, reply>>
        /\ key' = [key EXCEPT ![i] = @ + 1]
        /\ try' = [try EXCEPT ![i] = 0]
        /\ notBefore' = [notBefore EXCEPT ![i] = 0]
    BY <1>3, <1>8, <1>n DEF MoveOn
  <2>2. key[i] + 1 \in 1..PoolSize[i] /\ key[i] + 1 \in Nat
    BY <1>t, <1>8
  <2>3. /\ st'[i] = "try" /\ \A j \in Target \ {i} : st'[j] = st[j]
        /\ key'[i] = key[i] + 1 /\ \A j \in Target \ {i} : key'[j] = key[j]
        /\ \A j \in Target \ {i} : notBefore'[j] = notBefore[j]
    BY <1>t, <2>1
  <2>4. st' \in [Target -> Running \cup {"idle", "out", "won", "dropped"}]
    BY <1>t, <2>1 DEF Running
  <2>5. key' \in [Target -> Nat] /\ \A j \in Target : key'[j] \in 1..PoolSize[j]
    BY <1>t, <2>1, <2>2, <2>3
  <2>6. try' \in [Target -> 0..MaxRetries] /\ notBefore' \in [Target -> Nat]
    BY <1>t, <2>1
  <2>7. Shape'
    BY <1>0, <1>4, <1>5, <1>6, <1>7, <1>n, <2>1, <2>3 DEF Shape, Running, IsPool, OthersKeep
  <2> QED BY <1>1, <1>n, <1>t, <2>1, <2>4, <2>5, <2>6, <2>7
<1>9. CASE lastKey /\ next <= NTargets
  <2>1. /\ st' = [st EXCEPT ![i] = "out", ![next] = "try"] /\ next' = next + 1
        /\ UNCHANGED <<key, try, notBefore, reply>>
    BY <1>3, <1>9, <1>n DEF MoveOn
  <2>2. next \in Target /\ st[next] = "idle" /\ next # i
    BY <1>9, <1>n DEF Shape, Running
  <2>3. /\ st'[i] = "out" /\ st'[next] = "try"
        /\ \A j \in Target \ {i, next} : st'[j] = st[j]
        /\ st' \in [Target -> Running \cup {"idle", "out", "won", "dropped"}]
    BY <1>t, <2>1, <2>2 DEF Running
  <2>4. ASSUME NEW j \in Target PROVE j >= next' <=> st'[j] = "idle"
    <3>1. j >= next <=> st[j] = "idle"
      BY DEF Shape
    <3>2. i < next
      BY <1>n DEF Shape, Running
    <3> QED BY <1>n, <2>1, <2>2, <2>3, <3>1, <3>2
  <2>5. \A j \in Target : st'[j] = "idle" =>
           fed'[j] = 0 /\ genuine'[j] = 0 /\ key'[j] = 1 /\ notBefore'[j] = 0
    BY <1>6, <2>1, <2>3 DEF Shape, OthersKeep
  <2>6. extra' = 0 => \A j, k \in Target : st'[j] \in Running /\ st'[k] \in Running => j = k
    BY <1>0, <2>2, <2>3 DEF Shape, Running
  <2>7. \A j \in Target : st'[j] = "out" /\ IsPool(j)' => key'[j] = PoolSize[j]
    BY <1>0, <1>9, <2>1, <2>3 DEF Shape, IsPool
  <2>8. Shape'
    BY <1>0, <1>4, <1>5, <1>7, <2>1, <2>2, <2>3, <2>4, <2>5, <2>6, <2>7 DEF Shape, Running
  <2>9. next' \in 2..(NTargets + 1)
    BY <1>9, <1>n, <2>1
  <2> QED BY <1>1, <1>t, <2>1, <2>3, <2>8, <2>9
<1>10. CASE lastKey /\ next > NTargets
  <2>1. /\ st' = [st EXCEPT ![i] = "out"]
        /\ reply' = IF \E j \in Target \ {i} : st[j] \in Running THEN reply ELSE "failed"
        /\ UNCHANGED <<next, key, try, notBefore>>
    BY <1>3, <1>10, <1>n DEF MoveOn
  <2>3. /\ st'[i] = "out" /\ \A j \in Target \ {i} : st'[j] = st[j]
        /\ st' \in [Target -> Running \cup {"idle", "out", "won", "dropped"}]
        /\ \A j \in Target : st[j] # "idle"
    BY <2>1, <1>10, <1>n, <1>t DEF Shape
  <2>2. \A j \in Target : st'[j] = "out" /\ IsPool(j)' => key'[j] = PoolSize[j]
    BY <1>0, <1>10, <2>1, <2>3 DEF Shape, IsPool
  <2>4. /\ reply' = "pending" <=> \E j \in Target : st'[j] \in Running
        /\ reply' = "failed" => \A j \in Target : st'[j] = "out"
        /\ reply' \in {"pending", "ok", "failed", "gone"}
    BY <1>7, <1>t, <2>1, <2>3 DEF Shape, Running
  <2>5. Shape'
    BY <1>0, <1>4, <1>5, <1>6, <1>7, <1>n, <2>1, <2>2, <2>3, <2>4 DEF Shape, Running, OthersKeep
  <2> QED BY <1>1, <1>n, <1>t, <2>1, <2>3, <2>4, <2>5
<1> QED BY <1>8, <1>9, <1>10, <1>n

\* The failure arm, on its way to a retry or to the next key or target.
LEMMA FailedStep ==
    ASSUME TypeOK, Shape, NEW i \in Target, st[i] = "flight",
           NEW e \in ErrorKind, NEW ra \in Nat, Failed(i, e, ra),
           genuine' \in [Target -> Nat], OthersKeep(i), measured' \in [Target -> Nat]
    PROVE  TypeOK' /\ Shape'
<1> DEFINE ours == IsClientDeadlineTimeout(i, e)
<1> DEFINE fault == CountsAsHealthFailure(e) /\ ~ours
<1> DEFINE feed == IF fault /\ ~IsPool(i) THEN 1 ELSE 0
<1>1. UNCHANGED <<clock, deadlineVars, since, bounded>>
  BY DEF Failed
<1>2. samples' \in [Target -> Nat] /\ cooled' \subseteq Target \X Nat
  <2>1. samples' = IF ours THEN samples ELSE [samples EXCEPT ![i] = @ + 1]
    BY DEF Failed
  <2>2. cooled' = cooled \/ cooled' = cooled \cup {<<i, key[i]>>}
    BY DEF Failed
  <2> QED BY <2>1, <2>2 DEF TypeOK
<1>3. fault \in BOOLEAN /\ feed \in {0, 1}
  BY DEF CountsAsHealthFailure
<1>r. st[i] \in Running
  BY DEF Running
<1>4. ASSUME NEW f \in BOOLEAN, NEW c \in BOOLEAN, Exhausted(i, f, c, feed), UNCHANGED until
      PROVE  TypeOK' /\ Shape'
  <2> HIDE DEF feed
  <2>1. /\ clock' \in Nat /\ expires' \in 1..Budget /\ capped' \in BOOLEAN
        /\ extra' \in Hedges /\ since' \in [Target -> Nat]
        /\ until' \in [Target -> Nat] /\ bounded' \in [Target -> BOOLEAN]
    BY <1>1, <1>4 DEF TypeOK, deadlineVars
  <2>2. UNCHANGED <<clock, deadlineVars>>
    BY <1>1
  <2> QED BY <1>2, <1>3, <1>4, <1>r, <2>1, <2>2, ExhaustedStep DEF TypeOK
<1>5. ASSUME NEW delay \in Nat, try[i] < MaxRetries, Retry(i, delay, ra, feed)
      PROVE  TypeOK' /\ Shape'
  <2> HIDE DEF feed
  <2>1. /\ st' = [st EXCEPT ![i] = IF delay = 0 THEN "try" ELSE "sleep"]
        /\ until' = [until EXCEPT ![i] = clock + delay]
        /\ try' = [try EXCEPT ![i] = @ + 1]
        /\ fed' = [fed EXCEPT ![i] = @ + feed]
        /\ notBefore' = [notBefore EXCEPT ![i] = clock + ra]
        /\ UNCHANGED <<next, hedgeAt, key, poolFault, rejected, reply, refused>>
    BY <1>5 DEF Retry
  <2>2. TypeOK'
    BY <1>1, <1>2, <1>3, <1>5, <2>1, RetryAssumption DEF TypeOK, deadlineVars, Running
  <2>3. /\ st'[i] \in {"try", "sleep"} /\ \A j \in Target \ {i} : st'[j] = st[j]
        /\ \A j \in Target \ {i} : notBefore'[j] = notBefore[j] /\ fed'[j] = fed[j]
    BY <2>1 DEF TypeOK
  <2>4. Shape'
    BY <1>1, <2>1, <2>3 DEF Shape, Running, IsPool, OthersKeep, deadlineVars
  <2> QED BY <2>2, <2>4
<1>6. \/ /\ try[i] < MaxRetries
         /\ \E b \in Backoffs : LET delay == Delay(b, ra) IN
              \/ Retry(i, delay, ra, feed)
              \/ Exhausted(i, FALSE, FALSE, feed) /\ UNCHANGED until
      \/ Exhausted(i, fault, e = "BadRequest", feed) /\ UNCHANGED until
  BY DEF Failed
<1>7. \A b \in Backoffs : Delay(b, ra) \in Nat
  BY DelaysAssumption DEF Delay
<1> QED
  <2> HIDE DEF fault, feed
  <2> QED BY <1>3, <1>4, <1>5, <1>6, <1>7

LEMMA TypeShapeInit == Init => TypeOK /\ Shape
<1> SUFFICES ASSUME Init PROVE TypeOK /\ Shape
  OBVIOUS
<1>1. 1 \in Target
  BY TargetsAssumption DEF Target
<1>2. expires \in 1..Budget /\ capped \in BOOLEAN
  <2>1. PICK cap \in ClientCaps : ClientRequestCap(cap)
    BY DEF Init
  <2>2. cap \in Nat /\ Budget \in Nat \ {0}
    BY DeadlineAssumption
  <2>3. expires = Budget \/ (expires = cap /\ cap > 0 /\ cap < Budget)
    BY <2>1 DEF ClientRequestCap
  <2>4. capped \in BOOLEAN
    BY <2>1, Zenon DEF ClientRequestCap
  <2> QED BY <2>2, <2>3, <2>4
<1>3. TypeOK
  <2>1. /\ clock \in Nat /\ extra \in Hedges /\ next \in 2..(NTargets + 1)
        /\ cooled \subseteq Target \X Nat /\ refused \subseteq Target \X Nat
        /\ reply \in {"pending", "ok", "failed", "gone"}
    BY TargetsAssumption DEF Init
  <2>6. poolFault \in BOOLEAN /\ rejected \in BOOLEAN
    BY Zenon DEF Init
  <2>2. hedgeAt \in Nat \cup {Never}
    BY HedgeAssumption DEF Init
  <2>3. /\ st \in [Target -> Running \cup {"idle", "out", "won", "dropped"}]
        /\ bounded \in [Target -> BOOLEAN]
    BY DEF Init, Running
  <2>4. key \in [Target -> Nat] /\ \A i \in Target : key[i] \in 1..PoolSize[i]
    BY PoolSizeAssumption DEF Init
  <2>5. /\ try \in [Target -> 0..MaxRetries] /\ since \in [Target -> Nat]
        /\ until \in [Target -> Nat] /\ fed \in [Target -> Nat]
        /\ samples \in [Target -> Nat] /\ genuine \in [Target -> Nat]
        /\ measured \in [Target -> Nat] /\ notBefore \in [Target -> Nat]
    BY RetryAssumption DEF Init
  <2> QED BY <1>2, <2>1, <2>2, <2>3, <2>4, <2>5, <2>6 DEF TypeOK
<1>4. st = [i \in Target |-> IF i = 1 THEN "try" ELSE "idle"] /\ next = 2
  BY DEF Init
<1>5. \A i \in Target : i >= next <=> st[i] = "idle"
  BY <1>4 DEF Target
<1>6. \A i \in Target : st[i] \in Running <=> i = 1
  BY <1>4 DEF Running
<1>7. hedgeAt # Never => next <= NTargets /\ extra > 0
  BY TargetsAssumption DEF Init
<1>8. Shape
  BY <1>1, <1>4, <1>5, <1>6, <1>7 DEF Init, Shape
<1> QED BY <1>3, <1>8

LEMMA TypeShapeStep == TypeOK /\ Shape /\ [Next]_vars => TypeOK' /\ Shape'
<1> SUFFICES ASSUME TypeOK, Shape, [Next]_vars PROVE TypeOK' /\ Shape'
  OBVIOUS
<1>1. CASE Tick
  BY <1>1 DEF Tick, TypeOK, Shape, IsPool, deadlineVars, attemptVars, history
<1>2. CASE Hedge
  <2>1. /\ st' = [st EXCEPT ![next] = "try"] /\ next' = next + 1 /\ next <= NTargets
        /\ extra > 0 /\ reply = "pending"
        /\ UNCHANGED <<clock, expires, capped, extra, key, try, since, until, bounded,
                       poolFault, rejected, cooled, fed, samples, reply, history>>
    BY <1>2 DEF Hedge, Shape, deadlineVars
  <2>2. next \in Target /\ next \in Nat /\ st[next] = "idle"
    BY <2>1, TargetsAssumption DEF TypeOK, Target, Shape
  <2>3. /\ hedgeAt' \in Nat \cup {Never}
        /\ hedgeAt' # Never => next' <= NTargets /\ extra' > 0
    BY <1>2, <2>1, HedgeAssumption DEF Hedge, Rearm, TypeOK
  <2>4. st'[next] = "try" /\ \A j \in Target \ {next} : st'[j] = st[j]
    BY <2>1, <2>2 DEF TypeOK
  <2>5. TypeOK'
    BY <2>1, <2>2, <2>3, TargetsAssumption DEF TypeOK, Running, history
  <2>6. \A j \in Target : j >= next' <=> st'[j] = "idle"
    BY <2>1, <2>2, <2>4 DEF Shape, Target
  <2>7. Shape'
    BY <2>1, <2>2, <2>3, <2>4, <2>6 DEF Shape, Running, IsPool, history, Target
  <2> QED BY <2>5, <2>7
<1>3. CASE ClientGone
  BY <1>3 DEF ClientGone, TypeOK, Shape, Running, IsPool, deadlineVars, history
<1>4. CASE Over \/ UNCHANGED vars
  BY <1>4 DEF Over, vars, TypeOK, Shape, IsPool, deadlineVars, attemptVars, history
<1>5. ASSUME NEW i \in Target, Step(i) PROVE TypeOK' /\ Shape'
  <2>1. CASE Skip(i)
    <3>1. /\ st[i] \in Running /\ Exhausted(i, FALSE, FALSE, 0)
          /\ UNCHANGED <<clock, deadlineVars, since, until, bounded, cooled, samples,
                         genuine, measured>>
      BY <2>1 DEF Skip, Running
    <3>2. OthersKeep(i) /\ genuine' \in [Target -> Nat] /\ UNCHANGED <<clock, deadlineVars>>
      BY <3>1 DEF OthersKeep, TypeOK
    <3> QED BY <3>1, <3>2, ExhaustedStep DEF TypeOK, deadlineVars
  <2>2. CASE Dispatch(i)
    <3>1. NextAttemptTimeout(i) \in Nat /\ AttemptBoundedByClient(i) \in BOOLEAN
      BY TargetTimeoutAssumption, DeadlineAssumption
         DEF NextAttemptTimeout, AttemptBoundedByClient, Least, Remaining, ServerAttemptBound, TypeOK
    <3>2. TypeOK'
      BY <2>2, <3>1 DEF Dispatch, TypeOK, Running, deadlineVars, history
    <3>3. Shape'
      BY <2>2 DEF Dispatch, TypeOK, Shape, Running, IsPool, deadlineVars, history
    <3> QED BY <3>2, <3>3
  <2>3. CASE Answer(i)
    <3>1. CASE Win(i)
      BY <2>3, <3>1 DEF Answer, Win, TypeOK, Shape, Running, IsPool, deadlineVars
    <3>2. CASE \E e \in ErrorKind, ra \in RetryAfters :
            /\ e # "RateLimited" => ra = 0
            /\ Failed(i, e, ra)
            /\ measured' = [measured EXCEPT ![i] = @ + 1]
            /\ genuine' = IF CountsAsHealthFailure(e)
                          THEN [genuine EXCEPT ![i] = @ + 1] ELSE genuine
      <4>1. PICK e \in ErrorKind, ra \in RetryAfters :
            /\ Failed(i, e, ra)
            /\ measured' = [measured EXCEPT ![i] = @ + 1]
            /\ genuine' = IF CountsAsHealthFailure(e)
                          THEN [genuine EXCEPT ![i] = @ + 1] ELSE genuine
        BY <3>2
      <4>2. /\ measured' \in [Target -> Nat] /\ genuine' \in [Target -> Nat]
            /\ OthersKeep(i) /\ ra \in Nat
        BY <4>1, DelaysAssumption DEF TypeOK, OthersKeep
      <4> QED BY <2>3, <4>1, <4>2, FailedStep DEF Answer
    <3> QED BY <2>3, <3>1, <3>2 DEF Answer
  <2>4. CASE TimeOut(i)
    <3>1. /\ measured' \in [Target -> Nat] /\ genuine' \in [Target -> Nat]
          /\ OthersKeep(i)
      BY <2>4 DEF TimeOut, TypeOK, OthersKeep
    <3> QED BY <2>4, <3>1, FailedStep DEF TimeOut, ErrorKind
  <2>5. CASE Wake(i)
    BY <2>5 DEF Wake, TypeOK, Shape, Running, IsPool, deadlineVars, history
  <2> QED BY <1>5, <2>1, <2>2, <2>3, <2>4, <2>5 DEF Step
<1> QED BY <1>1, <1>2, <1>3, <1>4, <1>5 DEF Next

\* Every variable has its type, for any targets, keys, retries and hedges.
THEOREM TypeCorrect == Spec => []TypeOK
<1>1. TypeOK /\ Shape /\ [Next]_vars => TypeOK' /\ Shape'
  BY TypeShapeStep
<1> QED BY <1>1, TypeShapeInit, PTL DEF Spec

\* No request fails while a target or a key of a pool is untried, and an
\* earlier client-class 4xx is never forgotten.
THEOREM EveryTargetTried == Spec => []NoTargetSkipped
<1>1. TypeOK /\ Shape /\ [Next]_vars => TypeOK' /\ Shape'
  BY TypeShapeStep
<1>2. Shape => NoTargetSkipped
  BY DEF Shape, NoTargetSkipped
<1> QED BY <1>1, <1>2, TypeShapeInit, PTL DEF Spec

-----------------------------------------------------------------------------
\* Timers

LEMMA TimersExhausted ==
    ASSUME TypeOK, Shape, Timers, NEW i \in Target, st[i] \in Running,
           NEW fault, NEW clientError, NEW feed,
           Exhausted(i, fault, clientError, feed),
           UNCHANGED <<clock, deadlineVars, since, until, bounded>>
    PROVE  Timers'
<1> DEFINE lastKey == ~IsPool(i) \/ key[i] = PoolSize[i]
<1>1. UNCHANGED <<clock, expires, capped, since, until, bounded>>
  BY DEF deadlineVars
<1>2. MoveOn(i, lastKey)
  BY DEF Exhausted
<1>3. reply = "pending"
  BY DEF Shape
<1>4. reply' \in {"pending", "failed"}
  BY <1>2, <1>3 DEF MoveOn
<1>5. ASSUME NEW j \in Target
      PROVE  /\ st'[j] \in {"flight", "sleep"} => st'[j] = st[j] /\ notBefore'[j] = notBefore[j]
             /\ st'[j] = "try" =>
                  (notBefore'[j] = 0 \/ (st[j] = "try" /\ notBefore'[j] = notBefore[j]))
  <2>0. next \in Nat /\ NTargets \in Nat
    BY TargetsAssumption DEF TypeOK
  <2>1. CASE ~lastKey
    <3>1. st' = [st EXCEPT ![i] = "try"] /\ notBefore' = [notBefore EXCEPT ![i] = 0]
      BY <1>2, <2>1 DEF MoveOn
    <3>2. CASE j = i
      <4>1. st'[i] = "try" /\ notBefore'[i] = 0
        BY <3>1 DEF TypeOK
      <4> QED BY <3>2, <4>1
    <3>3. CASE j # i
      <4>1. st'[j] = st[j] /\ notBefore'[j] = notBefore[j]
        BY <3>1, <3>3 DEF TypeOK
      <4> QED BY <4>1
    <3> QED BY <3>2, <3>3
  <2>2. CASE lastKey /\ next <= NTargets
    <3>1. next \in Target /\ st[next] = "idle"
      BY <2>2, TargetsAssumption DEF TypeOK, Shape, Target
    <3>2. st' = [st EXCEPT ![i] = "out", ![next] = "try"] /\ UNCHANGED notBefore
      BY <1>2, <2>0, <2>2 DEF MoveOn
    <3> QED BY <3>1, <3>2 DEF Shape, TypeOK
  <2>3. CASE lastKey /\ ~(next <= NTargets)
    <3>1. st' = [st EXCEPT ![i] = "out"] /\ UNCHANGED notBefore
      BY <1>2, <2>3 DEF MoveOn
    <3> QED BY <3>1 DEF TypeOK
  <2> QED BY <2>1, <2>2, <2>3
<1>6. clock >= 0
  BY DEF TypeOK
<1>7. DeadlineKept'
  BY <1>1, <1>3 DEF Timers, DeadlineKept
<1>8. \A j \in Target : ServerLimit(j)' = ServerLimit(j)
  BY <1>1 DEF ServerLimit
<1> QED BY <1>1, <1>5, <1>6, <1>7, <1>8 DEF Timers

LEMMA TimersFailed ==
    ASSUME TypeOK, Shape, Timers, NEW i \in Target, st[i] = "flight",
           NEW e \in ErrorKind, NEW ra \in Nat, Failed(i, e, ra)
    PROVE  Timers'
<1> DEFINE feed == IF CountsAsHealthFailure(e) /\ ~IsClientDeadlineTimeout(i, e) /\ ~IsPool(i)
                   THEN 1 ELSE 0
<1>1. UNCHANGED <<clock, deadlineVars, since, bounded>>
  BY DEF Failed
<1>r. st[i] \in Running
  BY DEF Running
<1>2. ASSUME NEW f, NEW c, NEW n, Exhausted(i, f, c, n), UNCHANGED until PROVE Timers'
  BY <1>1, <1>2, <1>r, TimersExhausted
<1>3. ASSUME NEW delay \in Nat, NEW n, delay >= ra, WorthWaiting(delay), Retry(i, delay, ra, n)
      PROVE  Timers'
  <2>1. /\ st' = [st EXCEPT ![i] = IF delay = 0 THEN "try" ELSE "sleep"]
        /\ until' = [until EXCEPT ![i] = clock + delay]
        /\ notBefore' = [notBefore EXCEPT ![i] = clock + ra]
        /\ UNCHANGED <<clock, expires, capped, since, bounded, reply>>
    BY <1>1, <1>3 DEF Retry, deadlineVars
  <2>2. clock + delay < expires
    BY <1>3 DEF WorthWaiting, Remaining, TypeOK
  <2>3. /\ st'[i] \in {"try", "sleep"} /\ (st'[i] = "try" => delay = 0)
        /\ until'[i] = clock + delay /\ notBefore'[i] = clock + ra
        /\ \A j \in Target \ {i} :
             st'[j] = st[j] /\ until'[j] = until[j] /\ notBefore'[j] = notBefore[j]
    BY <2>1 DEF TypeOK
  <2>4. \A j \in Target \ {i} : ServerLimit(j)' = ServerLimit(j)
    BY <2>1, <2>3 DEF ServerLimit
  <2>5. DeadlineKept'
    BY <2>1 DEF Timers, DeadlineKept
  <2> QED BY <1>3, <2>1, <2>2, <2>3, <2>4, <2>5 DEF Timers, TypeOK
<1>4. \/ \E b \in Backoffs : LET delay == Delay(b, ra) IN
           \/ \E n \in {0, 1} : WorthWaiting(delay) /\ Retry(i, delay, ra, n)
           \/ \E f \in BOOLEAN, c \in BOOLEAN, n \in {0, 1} : Exhausted(i, f, c, n) /\ UNCHANGED until
      \/ \E f \in BOOLEAN, c \in BOOLEAN, n \in {0, 1} : Exhausted(i, f, c, n) /\ UNCHANGED until
  BY DEF Failed, CountsAsHealthFailure
<1>5. \A b \in Backoffs : Delay(b, ra) \in Nat /\ Delay(b, ra) >= ra
  BY DelaysAssumption DEF Delay
<1> QED BY <1>2, <1>3, <1>4, <1>5

LEMMA TimersStep == TypeOK /\ Shape /\ Timers /\ [Next]_vars => Timers'
<1> SUFFICES ASSUME TypeOK, Shape, Timers, [Next]_vars PROVE Timers'
  OBVIOUS
<1>1. CASE Tick
  <2>1. clock' = clock + 1 /\ UNCHANGED <<expires, capped, st, since, until, bounded, reply, notBefore>>
    BY <1>1 DEF Tick, deadlineVars, attemptVars, history
  <2>2. PICK i \in Target : st[i] \in Running
    BY <1>1 DEF Tick, Shape
  <2>3. clock < until[i] + Slack /\ until[i] <= expires
    BY <1>1, <2>2, SlackAssumption DEF Tick, Overdue, Timers, Running, TypeOK
  <2>4. clock + 1 <= expires + Slack
    BY <2>3, SlackAssumption DEF TypeOK
  <2>5. \A j \in Target : ServerLimit(j)' = ServerLimit(j)
    BY <2>1 DEF ServerLimit
  <2> QED BY <1>1, <2>1, <2>4, <2>5 DEF Timers, DeadlineKept, TypeOK, Tick
<1>2. CASE Hedge
  <2>1. /\ st' = [st EXCEPT ![next] = "try"] /\ next <= NTargets
        /\ UNCHANGED <<clock, expires, capped, since, until, bounded, reply, notBefore>>
    BY <1>2 DEF Hedge, Shape, deadlineVars, history
  <2>2. next \in Target /\ st[next] = "idle" /\ notBefore[next] = 0
    BY <2>1, TargetsAssumption DEF TypeOK, Target, Shape
  <2>3. \A j \in Target : ServerLimit(j)' = ServerLimit(j)
    BY <2>1 DEF ServerLimit
  <2>4. st'[next] = "try" /\ \A j \in Target \ {next} : st'[j] = st[j]
    BY <2>1, <2>2 DEF TypeOK
  <2> QED BY <2>1, <2>2, <2>3, <2>4 DEF Timers, DeadlineKept, TypeOK
<1>3. CASE ClientGone
  <2>1. \A j \in Target : ServerLimit(j)' = ServerLimit(j)
    BY <1>3 DEF ClientGone, ServerLimit
  <2> QED BY <1>3, <2>1 DEF ClientGone, Timers, DeadlineKept, Running, deadlineVars, history, TypeOK
<1>4. CASE Over \/ UNCHANGED vars
  BY <1>4 DEF Over, vars, Timers, DeadlineKept, ServerLimit, deadlineVars, attemptVars, history
<1>5. ASSUME NEW i \in Target, Step(i) PROVE Timers'
  <2>1. CASE Skip(i)
    <3>1. st[i] \in Running /\ Exhausted(i, FALSE, FALSE, 0)
          /\ UNCHANGED <<clock, deadlineVars, since, until, bounded>>
      BY <2>1 DEF Skip, Running
    <3> QED BY <3>1, TimersExhausted
  <2>2. CASE Dispatch(i)
    <3>1. /\ st' = [st EXCEPT ![i] = "flight"] /\ st[i] = "try"
          /\ since' = [since EXCEPT ![i] = clock]
          /\ until' = [until EXCEPT ![i] = clock + NextAttemptTimeout(i)]
          /\ bounded' = [bounded EXCEPT ![i] = AttemptBoundedByClient(i)]
          /\ UNCHANGED <<clock, expires, capped, reply, notBefore>>
          /\ Remaining > 0
      BY <2>2 DEF Dispatch, deadlineVars, history
    <3>2. \A j \in Target \ {i} : /\ st'[j] = st[j] /\ since'[j] = since[j]
                                  /\ until'[j] = until[j] /\ bounded'[j] = bounded[j]
      BY <3>1 DEF TypeOK
    <3>3. /\ st'[i] = "flight" /\ since'[i] = clock
          /\ until'[i] = clock + NextAttemptTimeout(i)
          /\ bounded'[i] = AttemptBoundedByClient(i)
      BY <3>1 DEF TypeOK
    <3>4. /\ ServerAttemptBound(i) \in Nat
          /\ clock \in Nat /\ expires \in Nat /\ Budget \in Nat
      BY TargetTimeoutAssumption, DeadlineAssumption DEF ServerAttemptBound, Least, TypeOK
    <3>5. Remaining = expires - clock
      BY <3>1, <3>4 DEF Remaining
    <3>6. until'[i] <= expires
      BY <3>3, <3>4, <3>5 DEF NextAttemptTimeout, Least
    <3>7. bounded'[i] => capped
      BY <3>3 DEF AttemptBoundedByClient
    <3>8. ~bounded'[i] => ServerLimit(i)'
      <4>1. ServerLimit(i)' <=> NextAttemptTimeout(i) >= Least(ServerAttemptBound(i), Budget - clock)
        BY <3>3, <3>4, <3>5 DEF ServerLimit, NextAttemptTimeout, Least, ServerAttemptBound
      <4>2. CASE ~capped
        BY <3>4, <3>5, <4>1, <4>2 DEF Timers, NextAttemptTimeout, Least
      <4>3. CASE capped
        <5>1. ~bounded'[i] => ~AttemptBoundedByClient(i)
          BY <3>3
        <5> QED BY <3>4, <3>5, <4>1, <4>3, <5>1 DEF AttemptBoundedByClient, NextAttemptTimeout, Least
      <4> QED BY <4>2, <4>3
    <3>9. \A j \in Target \ {i} : ServerLimit(j)' = ServerLimit(j)
      BY <3>2 DEF ServerLimit
    <3>10. DeadlineKept'
      BY <3>1 DEF Timers, DeadlineKept
    <3>11. clock >= notBefore[i]
      BY <3>1 DEF Timers
    <3> QED BY <3>1, <3>2, <3>3, <3>6, <3>7, <3>8, <3>9, <3>10, <3>11 DEF Timers
  <2>3. CASE Answer(i)
    <3>1. CASE Win(i)
      <4>1. \A j \in Target : ServerLimit(j)' = ServerLimit(j)
        BY <3>1 DEF Win, ServerLimit
      <4> QED BY <3>1, <4>1 DEF Win, Timers, DeadlineKept, Running, deadlineVars, TypeOK
    <3>2. CASE \E e \in ErrorKind, ra \in RetryAfters : Failed(i, e, ra)
      BY <2>3, <3>2, TimersFailed, DelaysAssumption DEF Answer
    <3> QED BY <2>3, <3>1, <3>2 DEF Answer
  <2>4. CASE TimeOut(i)
    BY <2>4, TimersFailed DEF TimeOut, ErrorKind
  <2>5. CASE Wake(i)
    <3>1. \A j \in Target : ServerLimit(j)' = ServerLimit(j)
      BY <2>5 DEF Wake, ServerLimit
    <3> QED BY <2>5, <3>1 DEF Wake, Timers, DeadlineKept, deadlineVars, history, TypeOK
  <2> QED BY <1>5, <2>1, <2>2, <2>3, <2>4, <2>5 DEF Step
<1> QED BY <1>1, <1>2, <1>3, <1>4, <1>5 DEF Next

LEMMA TimersInit == Init => Timers
<1> SUFFICES ASSUME Init PROVE Timers
  OBVIOUS
<1>1. /\ \A i \in Target : st[i] \in {"try", "idle"} /\ notBefore[i] = 0
      /\ clock = 0
  BY DEF Init
<1>2. (~capped => expires = Budget) /\ expires \in Nat
  <2>1. PICK cap \in ClientCaps : ClientRequestCap(cap)
    BY DEF Init
  <2> QED BY <2>1, DeadlineAssumption DEF ClientRequestCap
<1>3. DeadlineKept
  BY <1>1, <1>2, SlackAssumption DEF DeadlineKept
<1> QED BY <1>1, <1>2, <1>3 DEF Timers

\* The request is answered by its deadline, however many targets, keys,
\* retries and hedges it goes through.
THEOREM AnsweredInTime == Spec => []DeadlineKept
<1>1. TypeOK /\ Shape /\ Timers /\ [Next]_vars => TypeOK' /\ Shape' /\ Timers'
  BY TypeShapeStep, TimersStep
<1>2. Timers => DeadlineKept
  BY DEF Timers
<1> QED BY <1>1, <1>2, TypeShapeInit, TimersInit, PTL DEF Spec

\* No retry is sent before the Retry-After of the 429 it follows is over.
THEOREM RetriesWait == Spec => []RetryAfterHonoured
<1>1. TypeOK /\ Shape /\ Timers /\ [Next]_vars => TypeOK' /\ Shape' /\ Timers'
  BY TypeShapeStep, TimersStep
<1>2. Timers => RetryAfterHonoured
  BY DEF Timers, RetryAfterHonoured
<1> QED BY <1>1, <1>2, TypeShapeInit, TimersInit, PTL DEF Spec

-----------------------------------------------------------------------------
\* Books and Sampled

LEMMA BooksExhausted ==
    ASSUME TypeOK, Shape, Books, NEW i \in Target, st[i] \in Running,
           NEW fault \in BOOLEAN, NEW clientError, NEW feed \in {0, 1},
           Exhausted(i, fault, clientError, feed),
           UNCHANGED deadlineVars,
           genuine' \in [Target -> Nat], OthersKeep(i),
           genuine'[i] >= genuine[i] + feed,
           fault => genuine'[i] > 0,
           IsPool(i) => feed = 0,
           ~capped /\ ~IsPool(i) => genuine'[i] = genuine[i] + feed
    PROVE  Books'
<1> DEFINE lastKey == ~IsPool(i) \/ key[i] = PoolSize[i]
<1> DEFINE more == PoolFeed(i, fault, lastKey)
<1>1. /\ fed' = [fed EXCEPT ![i] = @ + feed + more]
      /\ poolFault' = (IsPool(i) /\ ~lastKey /\ (poolFault \/ fault))
      /\ MoveOn(i, lastKey)
  BY DEF Exhausted
<1>2. UNCHANGED <<extra, capped>> /\ \A j \in Target : IsPool(j)' = IsPool(j)
  BY DEF deadlineVars, IsPool
<1>3. /\ more \in {0, 1}
      /\ more = 1 => IsPool(i) /\ lastKey /\ (poolFault \/ fault)
  BY DEF PoolFeed
<1>4. more = 1 => genuine'[i] > 0
  BY <1>3 DEF Books, TypeOK
<1>5. IsPool(i) => fed[i] = 0
  BY DEF Books, TypeOK, Running
<1>6. fed'[i] = fed[i] + feed + more /\ \A j \in Target \ {i} : fed'[j] = fed[j]
  <2>1. fed \in [Target -> Nat]
    BY DEF TypeOK
  <2> HIDE DEF more
  <2> QED BY <1>1, <2>1
<1>7. fed'[i] <= genuine'[i]
  <2>1. CASE more = 0
    BY <1>6, <2>1 DEF Books, TypeOK
  <2>2. CASE more = 1
    <3>1. IsPool(i)
      BY <1>3, <2>2
    <3> HIDE DEF more
    <3> QED BY <1>4, <1>5, <1>6, <2>2, <3>1 DEF TypeOK
  <2> QED BY <1>3, <2>1, <2>2
<1>8. \A j \in Target : fed'[j] <= genuine'[j]
  BY <1>6, <1>7 DEF Books, OthersKeep
<1>9. \A j \in Target : ~capped' /\ ~IsPool(j)' => fed'[j] = genuine'[j]
  <2>1. ~capped /\ ~IsPool(i) => fed'[i] = genuine'[i]
    <3>1. ~IsPool(i) => more = 0
      BY <1>3
    <3> HIDE DEF more
    <3> QED BY <1>6, <3>1 DEF Books, TypeOK
  <2> QED BY <1>2, <1>6, <2>1 DEF Books, OthersKeep
<1>10. ASSUME NEW j \in Target, IsPool(j)'
       PROVE  fed'[j] <= 1 /\ (fed'[j] = 1 => st'[j] = "out")
  <2>1. IsPool(j)
    BY <1>2, <1>10
  <2>2. CASE j = i
    <3>1. fed'[i] = more
      <4> HIDE DEF more
      <4> QED BY <1>3, <1>5, <1>6, <2>1, <2>2
    <3>2. more = 1 => st'[i] = "out"
      <4>1. CASE ~lastKey
        BY <1>3, <4>1
      <4>2. CASE lastKey /\ next <= NTargets
        <5>0. next \in Target /\ next >= next
          BY <4>2, TargetsAssumption DEF TypeOK, Target
        <5>1. next # i /\ next \in Target
          BY <5>0 DEF Shape, Running
        <5>2. next \in Nat /\ NTargets \in Nat
          BY TargetsAssumption DEF TypeOK
        <5>3. st' = [st EXCEPT ![i] = "out", ![next] = "try"]
          BY <1>1, <4>2, <5>2 DEF MoveOn
        <5> QED BY <5>1, <5>3 DEF TypeOK
      <4>3. CASE lastKey /\ ~(next <= NTargets)
        <5>1. st' = [st EXCEPT ![i] = "out"]
          BY <1>1, <4>3 DEF MoveOn
        <5> QED BY <5>1 DEF TypeOK
      <4> QED BY <4>1, <4>2, <4>3
    <3> HIDE DEF more
    <3> QED BY <1>3, <2>2, <3>1, <3>2
  <2>3. CASE j # i
    <3>1. fed'[j] = fed[j]
      BY <1>6, <2>3
    <3>2. st[j] = "out" => st'[j] = "out"
      <4>1. next \in Nat /\ NTargets \in Nat /\ (next <= NTargets => st[next] = "idle")
        BY TargetsAssumption DEF TypeOK, Shape, Target
      <4>2. \/ st' = [st EXCEPT ![i] = "try"]
            \/ next <= NTargets /\ st' = [st EXCEPT ![i] = "out", ![next] = "try"]
            \/ st' = [st EXCEPT ![i] = "out"]
        BY <1>1 DEF MoveOn
      <4>3. st \in [Target -> Running \cup {"idle", "out", "won", "dropped"}]
        BY DEF TypeOK
      <4> QED BY <2>3, <4>1, <4>2, <4>3
    <3> QED BY <2>1, <3>1, <3>2 DEF Books
  <2> QED BY <2>2, <2>3
<1>12. poolFault' => extra' = 0
  BY <1>1, <1>2 DEF IsPool
<1>11. poolFault' => \A j \in Target : st'[j] \in Running => genuine'[j] > 0
  <2> SUFFICES ASSUME poolFault', NEW j \in Target, st'[j] \in Running
               PROVE  genuine'[j] > 0
    OBVIOUS
  <2>1. IsPool(i) /\ ~lastKey /\ (poolFault \/ fault)
    BY <1>1
  <2>2. st' = [st EXCEPT ![i] = "try"]
    BY <1>1, <2>1 DEF MoveOn
  <2>3. j = i
    BY <2>1, <2>2 DEF Shape, IsPool, TypeOK
  <2>4. genuine[i] > 0 \/ fault
    BY <2>1 DEF Books
  <2> QED BY <2>3, <2>4 DEF TypeOK
<1> HIDE DEF more
<1> QED BY <1>8, <1>9, <1>10, <1>11, <1>12 DEF Books

LEMMA BooksFailed ==
    ASSUME TypeOK, Shape, Timers, Books, NEW i \in Target, st[i] = "flight",
           NEW e \in ErrorKind, NEW ra \in Nat, Failed(i, e, ra),
           genuine' \in [Target -> Nat], OthersKeep(i),
           genuine'[i] >= genuine[i],
           CountsAsHealthFailure(e) /\ ~IsClientDeadlineTimeout(i, e)
               => genuine'[i] = genuine[i] + 1,
           ~(CountsAsHealthFailure(e) /\ ~IsClientDeadlineTimeout(i, e)) /\ ~capped
               => genuine'[i] = genuine[i]
    PROVE  Books'
<1> DEFINE fault == CountsAsHealthFailure(e) /\ ~IsClientDeadlineTimeout(i, e)
<1> DEFINE feed == IF fault /\ ~IsPool(i) THEN 1 ELSE 0
<1>1. UNCHANGED deadlineVars /\ st[i] \in Running
  BY DEF Failed, Running
<1>2. genuine[i] \in Nat
  BY DEF TypeOK
<1>3. /\ fault \in BOOLEAN /\ feed \in {0, 1}
      /\ genuine'[i] >= genuine[i] + feed
      /\ fault => genuine'[i] > 0
      /\ IsPool(i) => feed = 0
      /\ ~capped /\ ~IsPool(i) => genuine'[i] = genuine[i] + feed
  <2>1. fault \in BOOLEAN /\ feed \in {0, 1} /\ (IsPool(i) => feed = 0)
        /\ (feed = 1 <=> fault /\ ~IsPool(i))
    BY DEF CountsAsHealthFailure
  <2> HIDE DEF feed
  <2> QED BY <1>2, <2>1
<1>4. ASSUME NEW f \in BOOLEAN, NEW c, f => fault, Exhausted(i, f, c, feed)
      PROVE  Books'
  <2>1. f => genuine'[i] > 0
    BY <1>3, <1>4
  <2> HIDE DEF fault, feed
  <2> QED BY <1>1, <1>3, <1>4, <2>1, BooksExhausted
<1>5. ASSUME NEW delay, Retry(i, delay, ra, feed)
      PROVE  Books'
  <2>1. /\ fed' = [fed EXCEPT ![i] = @ + feed]
        /\ st' = [st EXCEPT ![i] = IF delay = 0 THEN "try" ELSE "sleep"]
        /\ UNCHANGED poolFault
    BY <1>5 DEF Retry
  <2> HIDE DEF feed
  <2>2. /\ fed'[i] = fed[i] + feed /\ \A j \in Target \ {i} : fed'[j] = fed[j]
        /\ st'[i] \in {"try", "sleep"} /\ \A j \in Target \ {i} : st'[j] = st[j]
    BY <1>3, <2>1 DEF TypeOK
  <2>3. \A j \in Target : IsPool(j)' = IsPool(j)
    BY <1>1 DEF deadlineVars, IsPool
  <2>4. UNCHANGED capped
    BY <1>1 DEF deadlineVars
  <2>5. \A j \in Target : fed'[j] <= genuine'[j]
    BY <1>2, <1>3, <2>2 DEF Books, OthersKeep, TypeOK
  <2>6. \A j \in Target : ~capped' /\ ~IsPool(j)' => fed'[j] = genuine'[j]
    BY <1>2, <1>3, <2>2, <2>3, <2>4 DEF Books, OthersKeep, TypeOK
  <2>7. \A j \in Target : IsPool(j)' => fed'[j] <= 1 /\ (fed'[j] = 1 => st'[j] = "out")
    BY <1>1, <1>3, <2>2, <2>3 DEF Books, TypeOK, Running
  <2>8. poolFault' => \A j \in Target : st'[j] \in Running => genuine'[j] > 0
    BY <1>1, <1>2, <2>1, <2>2 DEF Books, OthersKeep, Running
  <2>9. poolFault' => extra' = 0
    BY <1>1, <2>1 DEF Books, deadlineVars
  <2> QED BY <2>5, <2>6, <2>7, <2>8, <2>9 DEF Books
<1>6. \/ \E delay : Retry(i, delay, ra, feed)
      \/ Exhausted(i, FALSE, FALSE, feed)
      \/ Exhausted(i, fault, e = "BadRequest", feed)
  BY DEF Failed
<1> QED
  <2>1. fault \in BOOLEAN
    BY <1>3
  <2> HIDE DEF fault, feed
  <2> QED BY <1>4, <1>5, <1>6, <2>1

LEMMA BooksStep ==
    TypeOK /\ Shape /\ Timers /\ Books /\ Sampled /\ [Next]_vars => Books' /\ Sampled'
<1> SUFFICES ASSUME TypeOK, Shape, Timers, Books, Sampled, [Next]_vars PROVE Books' /\ Sampled'
  OBVIOUS
<1>1. CASE Tick
  BY <1>1 DEF Tick, Books, Sampled, IsPool, deadlineVars, attemptVars, history
<1>2. CASE Hedge
  <2>1. /\ st' = [st EXCEPT ![next] = "try"] /\ next <= NTargets /\ extra > 0
        /\ UNCHANGED <<extra, capped, poolFault, fed, samples, genuine, measured>>
    BY <1>2 DEF Hedge, Shape, deadlineVars, history
  <2>2. next \in Target /\ next >= next
    BY <2>1, TargetsAssumption DEF TypeOK, Target
  <2>3. \A j \in Target : ~IsPool(j) /\ ~IsPool(j)'
    BY <2>1 DEF IsPool
  <2>4. ~poolFault
    <3>1. poolFault => extra = 0
      BY DEF Books
    <3> QED BY <2>1, <3>1
  <2> QED BY <2>1, <2>3, <2>4 DEF Books, Sampled
<1>3. CASE ClientGone
  BY <1>3 DEF ClientGone, Books, Sampled, IsPool, Running, deadlineVars, history, TypeOK
<1>4. CASE Over \/ UNCHANGED vars
  BY <1>4 DEF Over, vars, Books, Sampled, IsPool, deadlineVars, attemptVars, history
<1>5. ASSUME NEW i \in Target, Step(i) PROVE Books' /\ Sampled'
  <2>1. CASE Skip(i)
    <3>1. /\ st[i] \in Running /\ Exhausted(i, FALSE, FALSE, 0)
          /\ UNCHANGED <<deadlineVars, samples, genuine, measured>>
      BY <2>1 DEF Skip, Running
    <3>2. Books'
      <4>1. /\ genuine' \in [Target -> Nat] /\ OthersKeep(i)
            /\ genuine'[i] >= genuine[i] + 0
            /\ ~capped /\ ~IsPool(i) => genuine'[i] = genuine[i] + 0
        BY <3>1 DEF TypeOK, OthersKeep
      <4> QED BY <3>1, <4>1, BooksExhausted
    <3>3. Sampled'
      BY <3>1 DEF Sampled, deadlineVars
    <3> QED BY <3>2, <3>3
  <2>2. CASE Dispatch(i)
    BY <2>2 DEF Dispatch, Books, Sampled, IsPool, Running, deadlineVars, history, TypeOK
  <2>3. CASE Answer(i)
    <3>1. CASE Win(i)
      BY <2>3, <3>1 DEF Answer, Win, Books, Sampled, IsPool, Running, deadlineVars, TypeOK
    <3>2. CASE \E e \in ErrorKind, ra \in RetryAfters :
            /\ Failed(i, e, ra)
            /\ measured' = [measured EXCEPT ![i] = @ + 1]
            /\ genuine' = IF CountsAsHealthFailure(e)
                          THEN [genuine EXCEPT ![i] = @ + 1] ELSE genuine
      <4>1. PICK e \in ErrorKind, ra \in RetryAfters :
            /\ Failed(i, e, ra)
            /\ measured' = [measured EXCEPT ![i] = @ + 1]
            /\ genuine' = IF CountsAsHealthFailure(e)
                          THEN [genuine EXCEPT ![i] = @ + 1] ELSE genuine
        BY <3>2
      <4>2. st[i] = "flight" /\ ra \in Nat /\ (bounded[i] => capped)
        BY <2>3, DelaysAssumption DEF Answer, Timers
      <4>3. /\ genuine' \in [Target -> Nat] /\ OthersKeep(i)
            /\ genuine'[i] >= genuine[i]
            /\ CountsAsHealthFailure(e) => genuine'[i] = genuine[i] + 1
            /\ ~CountsAsHealthFailure(e) => genuine'[i] = genuine[i]
        BY <4>1 DEF TypeOK, OthersKeep
      <4>4. ~capped => ~IsClientDeadlineTimeout(i, e)
        BY <4>2 DEF IsClientDeadlineTimeout
      <4>5. Books'
        BY <4>1, <4>2, <4>3, <4>4, BooksFailed
      <4>6. Sampled'
        <5>1. /\ samples' = IF IsClientDeadlineTimeout(i, e) THEN samples
                            ELSE [samples EXCEPT ![i] = @ + 1]
              /\ UNCHANGED capped
          BY <4>1 DEF Failed, deadlineVars
        <5> QED BY <4>1, <4>4, <5>1 DEF Sampled, TypeOK
      <4> QED BY <4>5, <4>6
    <3> QED BY <2>3, <3>1, <3>2 DEF Answer
  <2>4. CASE TimeOut(i)
    <3> DEFINE one == IF ServerLimit(i) THEN 1 ELSE 0
    <3>1. /\ st[i] = "flight" /\ Failed(i, "Timeout", 0)
          /\ measured' = [measured EXCEPT ![i] = @ + one]
          /\ genuine' = [genuine EXCEPT ![i] = @ + one]
      BY <2>4 DEF TimeOut
    <3>2. /\ bounded[i] => capped
          /\ ~bounded[i] => one = 1
      BY <3>1 DEF Timers
    <3>3. IsClientDeadlineTimeout(i, "Timeout") <=> bounded[i]
      BY DEF IsClientDeadlineTimeout
    <3>4. one \in {0, 1}
      OBVIOUS
    <3> HIDE DEF one
    <3>5. /\ genuine' \in [Target -> Nat] /\ OthersKeep(i)
          /\ genuine'[i] >= genuine[i]
          /\ ~bounded[i] => genuine'[i] = genuine[i] + 1
      BY <3>1, <3>2, <3>4 DEF TypeOK, OthersKeep
    <3>6. CountsAsHealthFailure("Timeout") /\ "Timeout" \in ErrorKind
      BY DEF CountsAsHealthFailure, ErrorKind
    <3>7. Books'
      BY <3>1, <3>2, <3>3, <3>5, <3>6, BooksFailed
    <3>8. Sampled'
      <4>1. /\ samples' = IF bounded[i] THEN samples ELSE [samples EXCEPT ![i] = @ + 1]
            /\ UNCHANGED capped
        BY <3>1, <3>3 DEF Failed, deadlineVars
      <4> QED BY <3>1, <3>2, <3>4, <4>1 DEF Sampled, TypeOK
    <3> QED BY <3>7, <3>8
  <2>5. CASE Wake(i)
    BY <2>5 DEF Wake, Books, Sampled, IsPool, Running, deadlineVars, history, TypeOK
  <2> QED BY <1>5, <2>1, <2>2, <2>3, <2>4, <2>5 DEF Step
<1> QED BY <1>1, <1>2, <1>3, <1>4, <1>5 DEF Next

LEMMA BooksInit == Init => Books /\ Sampled
  BY DEF Init, Books, Sampled

IInv == TypeOK /\ Shape /\ Timers /\ Books /\ Sampled

LEMMA IInvHolds == Spec => []IInv
<1>1. Init => IInv
  BY TypeShapeInit, TimersInit, BooksInit DEF IInv
<1>2. IInv /\ [Next]_vars => IInv'
  BY TypeShapeStep, TimersStep, BooksStep DEF IInv
<1> QED BY <1>1, <1>2, PTL DEF Spec

\* A caller's deadline only withholds evidence from the shared breaker and
\* latency average: neither is ever told of a fault there was no sign of.
THEOREM CallerCannotInject == Spec => []WithholdOnly
<1>1. IInv => WithholdOnly
  BY DEF IInv, Books, Sampled, WithholdOnly
<1> QED BY <1>1, IInvHolds, PTL

\* Without the caller's header every fault and every latency is reported.
THEOREM NothingWithheldUnasked == Spec => []NoFaultHidden
<1>1. IInv => NoFaultHidden
  BY DEF IInv, Books, Sampled, NoFaultHidden
<1> QED BY <1>1, IInvHolds, PTL

\* A pool of keys charges the shared breaker at most once per request, and
\* only when no key of it answered.
THEOREM PoolChargesOnce == Spec => []PoolFeedsOnce
<1>1. IInv => PoolFeedsOnce
  <2> SUFFICES ASSUME IInv, NEW i \in Target, IsPool(i)
               PROVE  fed[i] <= 1 /\ (fed[i] = 1 =>
                        st[i] = "out" /\ key[i] = PoolSize[i] /\ genuine[i] > 0)
    BY DEF PoolFeedsOnce
  <2>1. fed[i] \in Nat /\ genuine[i] \in Nat /\ fed[i] <= genuine[i]
    BY DEF IInv, TypeOK, Books
  <2>2. fed[i] <= 1 /\ (fed[i] = 1 => st[i] = "out")
    BY DEF IInv, Books
  <2>3. st[i] = "out" => key[i] = PoolSize[i]
    BY DEF IInv, Shape
  <2> QED BY <2>1, <2>2, <2>3
<1> QED BY <1>1, IInvHolds, PTL

=============================================================================
