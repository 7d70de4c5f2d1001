-------------------------- MODULE StreamPathProofs --------------------------
(***************************************************************************)
(* Proofs about StreamPath, for every number of targets, keys, retries and  *)
(* chunks.                                                                  *)
(*                                                                          *)
(* Account follows the accounting of the body: nothing before the first     *)
(* poll, then an armed guard whose snapshot agrees with the inline total.   *)
(* Health follows the walk: the targets ahead are untouched, and inside a   *)
(* pool poolFault remembers whether any of its keys was at fault.           *)
(***************************************************************************)
EXTENDS StreamPath, TLAPS

Account ==
    /\ phase \in Walking \cup {"committed"} =>
         ~armed /\ taken = 0 /\ usage = 0 /\ snapshot = 0 /\ reported = 0
    /\ phase \in Relaying => armed /\ usage = reported /\ snapshot = reported

Won == {"committed", "ended", "unpolled"} \cup Relaying

\* What is still ahead of the walk.
Ahead(i) == i > target \/ (i = target /\ phase = "enter")

Untouched ==
    \A i \in Target : Ahead(i) =>
        fed[i] = 0 /\ genuine[i] = 0 /\ calls[i] = 0 /\ samples[i] = 0 /\ spared[i] = 0

Charged ==
    /\ phase \in {"try", "sleep", "flight"} /\ target \in Pooled =>
         (poolFault <=> genuine[target] > 0)
    /\ \A i \in Target \ Pooled : fed[i] = genuine[i]
    /\ \A i \in Pooled : fed[i] = IF (i < target \/ phase = "failed") /\ genuine[i] > 0
                                  THEN 1 ELSE 0

Credited ==
    /\ \A i \in Target : credited[i] = IF i = target /\ phase \in Won THEN 1 ELSE 0
    /\ phase \in Won => <<target, key>> \notin cooled

Sampled ==
    \A i \in Target :
        LET missing == calls[i] - samples[i] - spared[i]
        IN /\ missing \in {0, 1}
           /\ missing = 1 => i = target /\ phase \in {"flight", "gone"}
           /\ i = target /\ phase = "flight" => missing = 1

Health == Untouched /\ Charged /\ Credited /\ Sampled

-----------------------------------------------------------------------------
\* TypeOK and Account

\* Moving on stays within the targets and records at most one decision.
LEMMA NextTargetType ==
    ASSUME TypeOK, NextTarget
    PROVE  /\ phase' \in {"enter", "failed"}
           /\ target' \in Target /\ key' \in 1..PoolSize[target'] /\ try' \in 0..MaxRetries
           /\ decisions' \in Seq(Outcome)
<1>. USE TargetsAssumption, PoolAssumption, StreamRetryAssumption
<1>1. CASE target < NTargets
  <2>1. target' = target + 1 /\ key' = 1 /\ try' = 0 /\ phase' = "enter" /\ decisions' = decisions
    BY <1>1 DEF NextTarget, TypeOK, Target
  <2>2. target' \in Target
    BY <1>1, <2>1 DEF TypeOK, Target
  <2>3. PoolSize[target'] \in Nat \ {0}
    BY <2>2
  <2>. QED BY <2>1, <2>2, <2>3, SMTT(30) DEF TypeOK
<1>2. CASE target = NTargets
  <2>1. /\ phase' = "failed" /\ decisions' = Append(decisions, "AllFailed")
        /\ UNCHANGED <<target, key, try>>
    BY <1>2 DEF NextTarget, TypeOK, Target
  <2>. QED BY <2>1 DEF TypeOK, Outcome
<1>. QED BY <1>1, <1>2 DEF NextTarget

\* The end of a key: the next key of the pool or the next target.
LEMMA KeyDoneType ==
    ASSUME TypeOK, NEW fault \in BOOLEAN, NEW feed \in {0, 1}, KeyDone(fault, feed)
    PROVE  /\ phase' \in {"try", "enter", "failed"}
           /\ target' \in Target /\ key' \in 1..PoolSize[target'] /\ try' \in 0..MaxRetries
           /\ poolFault' \in BOOLEAN
           /\ fed' \in [Target -> Nat]
           /\ decisions' \in Seq(Outcome)
<1>. USE TargetsAssumption, PoolAssumption, StreamRetryAssumption
<1>1. CASE key < PoolSize[target]
  <2>1. /\ phase' = "try" /\ key' = key + 1 /\ try' = 0 /\ poolFault' = fault
        /\ fed' = [fed EXCEPT ![target] = @ + feed] /\ UNCHANGED <<target, decisions>>
    BY <1>1 DEF KeyDone, TypeOK
  <2>2. PoolSize[target] \in Nat /\ key' \in 1..PoolSize[target]
    BY <1>1, <2>1 DEF TypeOK
  <2>. QED BY <2>1, <2>2, SMTT(30) DEF TypeOK
<1>2. CASE key = PoolSize[target]
  <2>1. /\ NextTarget /\ poolFault' = fault
        /\ fed' = [fed EXCEPT ![target] =
                     @ + feed + (IF target \in Pooled /\ fault THEN 1 ELSE 0)]
    BY <1>2 DEF KeyDone, TypeOK
  <2>2. fed' \in [Target -> Nat]
    BY <2>1 DEF TypeOK
  <2>. QED BY <2>1, <2>2, NextTargetType
<1>. QED BY <1>1, <1>2 DEF KeyDone

\* TypeOK and Account hold at the start.
LEMMA StartTyped == Init => TypeOK /\ Account
<1>. SUFFICES ASSUME Init PROVE TypeOK /\ Account
  OBVIOUS
<1>. USE TargetsAssumption, PoolAssumption, StreamRetryAssumption, ChunkAssumption
<1>1. target \in Target /\ key \in 1..PoolSize[target]
  BY DEF Init, Target
<1>2. Zero \in [Target -> Nat]
  BY DEF Zero
<1>3. fed = Zero /\ credited = Zero /\ samples = Zero /\ genuine = Zero /\ calls = Zero /\ spared = Zero
  BY DEF Init
<1>4. settled \in Seq(Nat) /\ decisions \in Seq(Outcome)
  BY DEF Init
<1>5. try \in 0..MaxRetries /\ taken \in 0..MaxChunks
  BY DEF Init
<1>6. phase \in Phase /\ bounded \in BOOLEAN /\ expired \in BOOLEAN /\ capped \in BOOLEAN
      /\ poolFault \in BOOLEAN /\ rejected \in BOOLEAN /\ armed \in BOOLEAN /\ cut \in BOOLEAN
      /\ cooled \subseteq Target \X Nat
      /\ usage \in Tokens \cup {0} /\ snapshot \in Tokens \cup {0} /\ reported \in Tokens \cup {0}
  BY DEF Init, Phase, Walking
<1>7. TypeOK
  BY <1>1, <1>2, <1>3, <1>4, <1>5, <1>6, Zenon DEF TypeOK
<1>. QED BY <1>7 DEF Init, Account, Walking, Relaying

\* Every step of the walk preserves both.
LEMMA FailedTyped ==
    ASSUME TypeOK, Account, NEW e, NEW retryable \in BOOLEAN, Failed(e, retryable)
    PROVE  TypeOK' /\ Account'
<1>. DEFINE fault == CountsAsHealthFailure(e) /\ ~(bounded /\ e = "Timeout")
            feed == IF fault /\ target \notin Pooled THEN 1 ELSE 0
<1>1. /\ fault \in BOOLEAN /\ feed \in {0, 1} /\ PoolVerdict(fault) \in BOOLEAN
  BY DEF TypeOK, PoolVerdict, CountsAsHealthFailure
<1>2. /\ phase = "flight"
      /\ UNCHANGED <<bounded, capped, expired, credited, calls, bodyVars, settled>>
      /\ samples' \in {samples, Bump(samples)} /\ spared' \in {spared, Bump(spared)}
      /\ genuine' \in {genuine, Bump(genuine)}
      /\ cooled' \in {cooled, cooled \cup {<<target, key>>}}
      /\ rejected' \in BOOLEAN
  BY DEF Failed, TypeOK
<1>3. /\ phase' \in {"sleep", "try", "enter", "failed"}
      /\ target' \in Target /\ key' \in 1..PoolSize[target'] /\ try' \in 0..MaxRetries
      /\ poolFault' \in BOOLEAN
      /\ fed' \in [Target -> Nat]
      /\ decisions' \in Seq(Outcome)
  <2>1. CASE KeyDone(PoolVerdict(fault), feed)
    BY <1>1, <2>1, KeyDoneType
  <2>2. CASE /\ MayRetry(retryable) /\ phase' = "sleep" /\ try' = try + 1
             /\ poolFault' = PoolVerdict(fault)
             /\ fed' = [fed EXCEPT ![target] = @ + feed]
             /\ UNCHANGED <<target, key, decisions>>
    BY <1>1, <2>2, StreamRetryAssumption DEF TypeOK, MayRetry
  <2>. QED BY <2>1, <2>2 DEF Failed
<1>4. \A f \in [Target -> Nat] : Bump(f) \in [Target -> Nat]
  BY DEF TypeOK, Bump
<1>5. <<target, key>> \in Target \X Nat
  BY PoolAssumption DEF TypeOK
<1>6. /\ samples' \in [Target -> Nat] /\ spared' \in [Target -> Nat] /\ genuine' \in [Target -> Nat]
      /\ credited' \in [Target -> Nat] /\ calls' \in [Target -> Nat]
      /\ cooled' \subseteq Target \X Nat
  BY <1>2, <1>4, <1>5 DEF TypeOK
<1>7. /\ taken' \in 0..MaxChunks /\ settled' \in Seq(Nat)
      /\ usage' \in Tokens \cup {0} /\ snapshot' \in Tokens \cup {0} /\ reported' \in Tokens \cup {0}
      /\ armed' \in BOOLEAN /\ cut' \in BOOLEAN
      /\ bounded' \in BOOLEAN /\ capped' \in BOOLEAN /\ expired' \in BOOLEAN /\ rejected' \in BOOLEAN
  BY <1>2 DEF TypeOK, bodyVars
<1>8. TypeOK'
  BY <1>3, <1>6, <1>7 DEF TypeOK, Phase, Walking
<1>. QED BY <1>2, <1>3, <1>8 DEF Account, bodyVars, Walking, Relaying

\* TypeOK and Account are inductive together.
LEMMA StepTyped == TypeOK /\ Account /\ [Next]_vars => TypeOK' /\ Account'
<1>. SUFFICES ASSUME TypeOK, Account, [Next]_vars PROVE TypeOK' /\ Account'
  OBVIOUS
<1>. USE DEF attemptVars, healthVars, bodyVars, books
<1>0. \A f \in [Target -> Nat] : Bump(f) \in [Target -> Nat]
  BY DEF TypeOK, Bump
<1>1. CASE Expire
  BY <1>1 DEF Expire, TypeOK, Account, Phase, Walking, Relaying
<1>2. CASE Enter
  <2>1. /\ phase' \in {"enter", "failed", "try"}
        /\ target' \in Target /\ key' \in 1..PoolSize[target'] /\ try' \in 0..MaxRetries
        /\ decisions' \in Seq(Outcome)
    BY <1>2, NextTargetType DEF Enter, TypeOK
  <2>. QED BY <1>2, <2>1 DEF Enter, TypeOK, Account, Phase, Walking, Relaying
<1>3. CASE Skip
  <2>1. /\ phase' \in {"try", "enter", "failed"}
        /\ target' \in Target /\ key' \in 1..PoolSize[target'] /\ try' \in 0..MaxRetries
        /\ poolFault' \in BOOLEAN /\ fed' \in [Target -> Nat] /\ decisions' \in Seq(Outcome)
    BY <1>3, KeyDoneType DEF Skip, TypeOK
  <2>. QED BY <1>3, <2>1 DEF Skip, TypeOK, Account, Phase, Walking, Relaying
<1>4. CASE Dispatch
  BY <1>0, <1>4 DEF Dispatch, TypeOK, Account, Phase, Walking, Relaying
<1>5. CASE Refused
  <2>1. PICK e \in ErrorKind : Failed(e, IsRetryable(e))
    BY <1>5 DEF Refused
  <2>2. IsRetryable(e) \in BOOLEAN
    BY DEF IsRetryable
  <2>. QED BY <2>1, <2>2, FailedTyped
<1>6. CASE TimeOut
  BY <1>6, FailedTyped DEF TimeOut
<1>7. CASE Wake
  BY <1>7 DEF Wake, TypeOK, Account, Phase, Walking, Relaying
<1>8. CASE Commit
  BY <1>0, <1>8 DEF Commit, TypeOK, Account, Phase, Walking, Relaying
<1>9. CASE FirstPoll
  <2>1. PICK n \in Tokens \cup {0} : Take(n)
    BY <1>9 DEF FirstPoll
  <2>2. taken' = 1 /\ taken' \in 0..MaxChunks
    BY <1>9, <2>1, ChunkAssumption DEF FirstPoll, Take, Account
  <2>3. n \in Nat /\ usage = reported /\ snapshot = reported
    BY <1>9, ChunkAssumption DEF FirstPoll, Account
  <2>4. usage' \in Tokens \cup {0} /\ snapshot' = usage' /\ reported' = usage'
    BY <2>1, <2>3 DEF Take, TypeOK
  <2>5. phase' \in {"yield", "last"} /\ cut' \in BOOLEAN
    BY <1>9 DEF FirstPoll, Relay, TypeOK
  <2>. QED BY <1>9, <2>2, <2>4, <2>5 DEF FirstPoll, TypeOK, Account, Phase, Walking, Relaying
<1>10. CASE Resume
  BY <1>10 DEF Resume, TypeOK, Account, Phase, Walking, Relaying
<1>11. CASE Chunk
  <2>1. PICK n \in Tokens \cup {0} : Take(n)
    BY <1>11 DEF Chunk
  <2>2. taken' \in 0..MaxChunks
    BY <1>11, <2>1, ChunkAssumption DEF Chunk, Take, TypeOK
  <2>3. n \in Nat /\ usage = reported /\ snapshot = reported /\ armed
    BY <1>11, ChunkAssumption DEF Chunk, Account, Relaying
  <2>4. usage' \in Tokens \cup {0} /\ snapshot' = usage' /\ reported' = usage'
    BY <2>1, <2>3 DEF Take, TypeOK
  <2>5. phase' \in {"yield", "last"} /\ cut' \in BOOLEAN
    BY <1>11 DEF Chunk, Relay, TypeOK
  <2>. QED BY <1>11, <2>2, <2>3, <2>4, <2>5 DEF Chunk, TypeOK, Account, Phase, Walking, Relaying
<1>12. CASE Upstream
  BY <1>12 DEF Upstream, TypeOK, Account, Phase, Walking, Relaying
<1>13. CASE Finish
  <2>1. usage \in Nat
    BY ChunkAssumption DEF TypeOK
  <2>2. settled' \in Seq(Nat) /\ decisions' \in Seq(Outcome)
    BY <1>13, <2>1 DEF Finish, DropGuard, TypeOK, Outcome
  <2>3. phase' = "ended" /\ armed' = FALSE
    BY <1>13 DEF Finish, DropGuard
  <2>. QED BY <1>13, <2>2, <2>3 DEF Finish, TypeOK, Account, Phase, Walking, Relaying
<1>14. CASE ClientGone
  <2>1. snapshot \in Nat
    BY ChunkAssumption DEF TypeOK
  <2>2. CASE phase \in Relaying
    <3>1. /\ phase' = "ended" /\ DropGuard(armed, settled, decisions)
          /\ UNCHANGED <<attemptVars, capped, expired, healthVars, taken, usage, snapshot, cut, reported>>
      BY <1>14, <2>2 DEF ClientGone, Relaying
    <3>2. settled' \in Seq(Nat) /\ decisions' \in Seq(Outcome) /\ armed' = FALSE
      BY <2>1, <3>1 DEF DropGuard, TypeOK, Outcome
    <3>. QED BY <3>1, <3>2 DEF TypeOK, Account, Phase, Walking, Relaying
  <2>3. CASE phase \notin Relaying
    BY <1>14, <2>3 DEF ClientGone, TypeOK, Account, Phase, Walking, Relaying
  <2>. QED BY <2>2, <2>3
<1>15. CASE UNCHANGED vars
  BY <1>15 DEF vars, TypeOK, Account
<1>. QED BY <1>1, <1>2, <1>3, <1>4, <1>5, <1>6, <1>7, <1>8, <1>9, <1>10, <1>11,
           <1>12, <1>13, <1>14, <1>15 DEF Next

\* Every variable of the streaming path keeps its type.
THEOREM TypeCorrect == Spec => []TypeOK
BY StartTyped, StepTyped, PTL DEF Spec
-----------------------------------------------------------------------------
\* The accounting of the body

\* The walk settles nothing, and records a decision only with its failure.
LEMMA WalkRecords ==
    ASSUME Enter \/ Skip \/ Refused \/ TimeOut
    PROVE  /\ phase \in Walking
           /\ settled' = settled
           /\ phase' = "failed" \/ (phase' \in Walking /\ decisions' = decisions)
<1>1. ASSUME NextTarget
      PROVE  phase' = "failed" \/ (phase' = "enter" /\ decisions' = decisions)
  BY <1>1 DEF NextTarget
<1>2. ASSUME NEW fault, NEW feed, KeyDone(fault, feed)
      PROVE  phase' = "failed" \/ (phase' \in {"enter", "try"} /\ decisions' = decisions)
  BY <1>1, <1>2 DEF KeyDone
<1>3. ASSUME NEW e, NEW retryable, Failed(e, retryable)
      PROVE  /\ phase = "flight" /\ settled' = settled
             /\ phase' = "failed" \/ (phase' \in Walking /\ decisions' = decisions)
  BY <1>2, <1>3 DEF Failed, Walking
<1>4. CASE Enter
  BY <1>1, <1>4 DEF Enter, Walking
<1>5. CASE Skip
  BY <1>2, <1>5 DEF Skip, Walking
<1>6. CASE Refused \/ TimeOut
  BY <1>3, <1>6 DEF Refused, TimeOut, Walking
<1>. QED BY <1>4, <1>5, <1>6

\* The accounting is preserved by every step.
LEMMA StepAccounted ==
    TypeOK /\ Account /\ AccountedOnce /\ [Next]_vars => AccountedOnce'
<1>. SUFFICES ASSUME TypeOK, Account, AccountedOnce, [Next]_vars PROVE AccountedOnce'
  OBVIOUS
<1>. USE DEF books
<1>1. CASE Enter \/ Skip \/ Refused \/ TimeOut
  BY <1>1, WalkRecords DEF AccountedOnce, Walking, Relaying
<1>2. CASE Expire \/ Dispatch \/ Wake \/ Commit
  BY <1>2 DEF Expire, Dispatch, Wake, Commit, AccountedOnce, Walking, Relaying
<1>3. CASE FirstPoll \/ Resume \/ Chunk \/ Upstream
  BY <1>3 DEF FirstPoll, Resume, Chunk, Upstream, Relay, AccountedOnce, Walking, Relaying
<1>4. CASE Finish
  <2>1. settled = <<>> /\ decisions = <<>> /\ usage = reported
    BY <1>4 DEF Finish, AccountedOnce, Account, Relaying
  <2>2. /\ phase' = "ended" /\ settled' = Append(settled, usage) /\ reported' = reported
        /\ decisions' = Append(decisions, IF cut THEN "StreamTruncated" ELSE "Ok")
    BY <1>4 DEF Finish, DropGuard
  <2>3. settled' = <<reported'>> /\ Len(decisions') = 1
    BY <2>1, <2>2
  <2>. QED BY <2>2, <2>3 DEF AccountedOnce, Walking, Relaying
<1>5. CASE ClientGone
  <2>1. CASE phase \in Relaying
    <3>1. settled = <<>> /\ decisions = <<>> /\ snapshot = reported /\ armed
      BY <2>1 DEF AccountedOnce, Account
    <3>2. /\ phase' = "ended" /\ settled' = Append(settled, snapshot) /\ reported' = reported
          /\ decisions' = Append(decisions, "Ok")
      BY <1>5, <2>1, <3>1 DEF ClientGone, DropGuard, Relaying
    <3>3. settled' = <<reported'>> /\ Len(decisions') = 1
      BY <3>1, <3>2
    <3>. QED BY <3>2, <3>3 DEF AccountedOnce, Walking, Relaying
  <2>2. CASE phase \notin Relaying
    BY <1>5, <2>2 DEF ClientGone, AccountedOnce, Walking, Relaying
  <2>. QED BY <2>1, <2>2
<1>6. CASE UNCHANGED vars
  BY <1>6 DEF vars, bodyVars, AccountedOnce
<1>. QED BY <1>1, <1>2, <1>3, <1>4, <1>5, <1>6 DEF Next

\* "a request settles exactly once" (StreamAbortAccounting), with the last usage
\* the provider reported, wherever the client leaves.
THEOREM SettledExactlyOnce == Spec => []AccountedOnce
<1>1. Init => AccountedOnce
  BY DEF Init, AccountedOnce, Walking, Relaying
<1>. QED BY <1>1, StartTyped, StepTyped, StepAccounted, PTL DEF Spec
-----------------------------------------------------------------------------
\* What the walk tells the shared health state

\* A key that is given up charges its own target only; a pool is charged when
\* the walk leaves the target.
LEMMA KeyDoneEffect ==
    ASSUME TypeOK, NEW fault \in BOOLEAN, NEW feed \in {0, 1}, KeyDone(fault, feed)
    PROVE  /\ \A i \in Target \ {target} : fed'[i] = fed[i]
           /\ \/ /\ phase' = "try" /\ target' = target /\ poolFault' = fault
                 /\ fed'[target] = fed[target] + feed
              \/ /\ \/ phase' = "enter" /\ target' = target + 1
                    \/ phase' = "failed" /\ target' = target /\ target = NTargets
                 /\ fed'[target] = fed[target] + feed
                                     + (IF target \in Pooled /\ fault THEN 1 ELSE 0)
<1>1. CASE key < PoolSize[target]
  <2>1. /\ phase' = "try" /\ poolFault' = fault
        /\ fed' = [fed EXCEPT ![target] = @ + feed] /\ target' = target
    BY <1>1, PoolAssumption DEF KeyDone, TypeOK
  <2>. QED BY <2>1 DEF TypeOK
<1>2. CASE key = PoolSize[target]
  <2>1. /\ NextTarget
        /\ fed' = [fed EXCEPT ![target] =
                     @ + feed + (IF target \in Pooled /\ fault THEN 1 ELSE 0)]
    BY <1>2, PoolAssumption DEF KeyDone, TypeOK
  <2>2. \/ phase' = "enter" /\ target' = target + 1
        \/ phase' = "failed" /\ target' = target /\ target = NTargets
    BY <2>1 DEF NextTarget
  <2>. QED BY <2>1, <2>2 DEF TypeOK
<1>. QED BY <1>1, <1>2 DEF KeyDone

\* A step that tells of the target in use nothing but its evidence keeps Health.
LEMMA WalkHealth ==
    ASSUME TypeOK, Health, TypeOK',
           phase \in {"try", "flight"},
           NEW fault \in BOOLEAN, NEW verdict \in BOOLEAN,
           verdict <=> (poolFault \/ (target \in Pooled /\ fault)),
           NEW feed \in {0, 1},
           feed = IF fault /\ target \notin Pooled THEN 1 ELSE 0,
           genuine' = IF fault THEN Bump(genuine) ELSE genuine,
           credited' = credited, calls' = calls,
           \A i \in Target \ {target} : samples'[i] = samples[i] /\ spared'[i] = spared[i],
           samples'[target] + spared'[target] =
               samples[target] + spared[target] + (IF phase = "flight" THEN 1 ELSE 0),
           KeyDone(verdict, feed)
             \/ (/\ phase' = "sleep" /\ target' = target /\ poolFault' = verdict
                 /\ fed' = [fed EXCEPT ![target] = @ + feed])
    PROVE  Health'
<1>1. /\ \A i \in Target \ {target} : fed'[i] = fed[i]
      /\ \/ /\ phase' \in {"try", "sleep"} /\ target' = target /\ poolFault' = verdict
            /\ fed'[target] = fed[target] + feed
         \/ /\ \/ phase' = "enter" /\ target' = target + 1
               \/ phase' = "failed" /\ target' = target /\ target = NTargets
            /\ fed'[target] = fed[target] + feed
                                + (IF target \in Pooled /\ verdict THEN 1 ELSE 0)
  <2>1. CASE KeyDone(verdict, feed)
    BY <2>1, KeyDoneEffect
  <2>2. CASE /\ phase' = "sleep" /\ target' = target /\ poolFault' = verdict
             /\ fed' = [fed EXCEPT ![target] = @ + feed]
    BY <2>2 DEF TypeOK
  <2>. QED BY <2>1, <2>2
<1>2. /\ \A i \in Target \ {target} : genuine'[i] = genuine[i]
      /\ genuine'[target] = genuine[target] + (IF fault THEN 1 ELSE 0)
  BY DEF Bump, TypeOK
<1>3. target \in Target /\ target' \in Target /\ Target \subseteq Nat
  BY DEF TypeOK, Target
<1>. DEFINE Counts(i) ==
        /\ fed[i] \in Nat /\ genuine[i] \in Nat /\ calls[i] \in Nat
        /\ samples[i] \in Nat /\ spared[i] \in Nat
        /\ samples'[i] \in Nat /\ spared'[i] \in Nat
<1>0. \A i \in Target : Counts(i)
  BY DEF TypeOK
<1>4. Untouched'
  <2>1. ASSUME NEW i \in Target, Ahead(i)' PROVE i > target /\ i # target
    BY <1>1, <1>3, <2>1, TargetsAssumption DEF Ahead, Target
  <2>. QED BY <1>1, <1>2, <2>1 DEF Health, Untouched, Ahead
<1>5. Charged'
  <2>1. CASE target \in Pooled
    <3>1. /\ feed = 0 /\ fed[target] = 0
          /\ poolFault <=> genuine[target] > 0
      BY <1>3, <2>1 DEF Health, Charged
    <3>2. verdict <=> genuine'[target] > 0
      <4>1. poolFault \in BOOLEAN /\ Counts(target)
        BY <1>3, <1>0 DEF TypeOK
      <4>2. CASE fault
        BY <1>2, <2>1, <3>1, <4>1, <4>2
      <4>3. CASE ~fault
        BY <1>2, <2>1, <3>1, <4>1, <4>3
      <4>. QED BY <4>2, <4>3
    <3>3. CASE phase' \in {"try", "sleep"} /\ target' = target /\ poolFault' = verdict
               /\ fed'[target] = fed[target] + feed
      BY <1>1, <1>2, <1>3, <2>1, <3>1, <3>2, <3>3, PoolAssumption DEF Health, Charged
    <3>4. CASE /\ phase' = "enter" /\ target' = target + 1
               /\ fed'[target] = fed[target] + feed + (IF target \in Pooled /\ verdict THEN 1 ELSE 0)
      <4>1. fed'[target] = IF genuine'[target] > 0 THEN 1 ELSE 0
        BY <2>1, <3>1, <3>2, <3>4
      <4>2. \A i \in Target : i < target' <=> i < target \/ i = target
        BY <1>3, <3>4
      <4>. QED BY <1>1, <1>2, <1>3, <2>1, <3>4, <4>1, <4>2, PoolAssumption DEF Health, Charged
    <3>5. CASE /\ phase' = "failed" /\ target' = target /\ target = NTargets
               /\ fed'[target] = fed[target] + feed + (IF target \in Pooled /\ verdict THEN 1 ELSE 0)
      <4>1. fed'[target] = IF genuine'[target] > 0 THEN 1 ELSE 0
        BY <2>1, <3>1, <3>2, <3>5
      <4>2. \A i \in Target : i < target \/ i = target
        BY <3>5, TargetsAssumption DEF Target
      <4>. QED BY <1>1, <1>2, <1>3, <2>1, <3>5, <4>1, <4>2, PoolAssumption DEF Health, Charged
    <3>. QED BY <1>1, <3>3, <3>4, <3>5
  <2>2. CASE target \notin Pooled
    <3>1. fed'[target] = genuine'[target]
      <4>1. fed[target] = genuine[target] /\ feed = IF fault THEN 1 ELSE 0
        BY <1>3, <2>2 DEF Health, Charged
      <4>2. fed'[target] = fed[target] + feed
        BY <1>0, <1>1, <1>3, <2>2
      <4>. QED BY <1>0, <1>2, <1>3, <4>1, <4>2
    <3>2. \A i \in Target \ Pooled : fed'[i] = genuine'[i]
      BY <1>1, <1>2, <3>1 DEF Health, Charged
    <3>3. \A i \in Pooled : (i < target' \/ phase' = "failed") <=> i < target
      BY <1>1, <1>3, <2>2, PoolAssumption DEF Target
    <3>4. \A i \in Pooled : i # target /\ i \in Target
      BY <2>2, PoolAssumption
    <3>5. phase # "failed"
      OBVIOUS
    <3>6. \A i \in Pooled : fed'[i] = IF (i < target' \/ phase' = "failed") /\ genuine'[i] > 0
                                      THEN 1 ELSE 0
      BY <1>1, <1>2, <3>3, <3>4, <3>5 DEF Health, Charged
    <3>7. phase' \in {"try", "sleep", "flight"} => target' = target
      BY <1>1
    <3>. QED BY <2>2, <3>2, <3>6, <3>7 DEF Charged
  <2>. QED BY <2>1, <2>2
<1>6. Credited'
  BY <1>1, <1>3 DEF Health, Credited, Won, Relaying
<1>7. Sampled'
  <2>1. ASSUME NEW i \in Target PROVE calls'[i] - samples'[i] - spared'[i] = 0
    <3>0. Counts(i)
      BY <1>0
    <3>1. CASE i = target
      <4>1. calls[i] - samples[i] - spared[i] = IF phase = "flight" THEN 1 ELSE 0
        BY <3>0, <3>1 DEF Health, Sampled
      <4>. QED BY <3>0, <3>1, <4>1
    <3>2. CASE i # target
      <4>1. calls[i] - samples[i] - spared[i] = 0
        BY <3>0, <3>2 DEF Health, Sampled
      <4>. QED BY <3>0, <3>2, <4>1
    <3>. QED BY <3>1, <3>2
  <2>. QED BY <1>1, <2>1 DEF Sampled
<1>. QED BY <1>4, <1>5, <1>6, <1>7 DEF Health
\* A failed attempt keeps Health.
LEMMA FailedHealth ==
    ASSUME TypeOK, Account, Health, NEW e, NEW retryable \in BOOLEAN, Failed(e, retryable)
    PROVE  Health'
<1>. DEFINE ours == bounded /\ e = "Timeout"
            fault == CountsAsHealthFailure(e) /\ ~ours
            feed == IF fault /\ target \notin Pooled THEN 1 ELSE 0
<1>1. TypeOK' /\ target \in Target
  BY FailedTyped DEF TypeOK
<1>2. /\ fault \in BOOLEAN /\ feed \in {0, 1} /\ PoolVerdict(fault) \in BOOLEAN
      /\ PoolVerdict(fault) <=> (poolFault \/ (target \in Pooled /\ fault))
  BY DEF TypeOK, PoolVerdict, CountsAsHealthFailure
<1>3. /\ phase = "flight" /\ credited' = credited /\ calls' = calls
      /\ genuine' = IF fault THEN Bump(genuine) ELSE genuine
      /\ samples' = IF ours THEN samples ELSE Bump(samples)
      /\ spared' = IF ours THEN Bump(spared) ELSE spared
  BY DEF Failed
<1>4. \A i \in Target \ {target} : samples'[i] = samples[i] /\ spared'[i] = spared[i]
  BY <1>1, <1>3 DEF Bump, TypeOK
<1>5. samples'[target] + spared'[target] =
        samples[target] + spared[target] + (IF phase = "flight" THEN 1 ELSE 0)
  <2>1. samples[target] \in Nat /\ spared[target] \in Nat
    BY DEF TypeOK
  <2>2. CASE ours
    BY <1>1, <1>3, <2>1, <2>2 DEF Bump, TypeOK
  <2>3. CASE ~ours
    BY <1>1, <1>3, <2>1, <2>3 DEF Bump, TypeOK
  <2>. QED BY <2>2, <2>3
<1>6. KeyDone(PoolVerdict(fault), feed)
        \/ (/\ phase' = "sleep" /\ target' = target /\ poolFault' = PoolVerdict(fault)
            /\ fed' = [fed EXCEPT ![target] = @ + feed])
  BY DEF Failed
<1>. HIDE DEF fault, feed, ours
<1>. QED BY <1>1, <1>2, <1>3, <1>4, <1>5, <1>6, WalkHealth DEF fault, feed

\* Health is preserved by every step.
LEMMA StepHealth == TypeOK /\ Account /\ Health /\ [Next]_vars => Health'
<1>. SUFFICES ASSUME TypeOK, Account, Health, [Next]_vars PROVE Health'
  OBVIOUS
<1>. USE DEF attemptVars, healthVars
<1>0. TypeOK' /\ target \in Target /\ Target \subseteq Nat
  <2>1. TypeOK'
    BY StepTyped
  <2>. QED BY <2>1, SMTT(30) DEF TypeOK, Target
<1>1. CASE Expire
  BY <1>1 DEF Expire, Health, Untouched, Ahead, Charged, Credited, Sampled
<1>2. CASE Enter
  <2>1. /\ phase = "enter" /\ UNCHANGED <<cooled, fed, credited, samples, genuine, calls, spared>>
        /\ poolFault' = FALSE
    BY <1>2 DEF Enter
  <2>2. CASE phase' = "try" /\ target' = target
    BY <1>0, <2>1, <2>2, PoolAssumption
       DEF Health, Untouched, Ahead, Charged, Credited, Sampled, Won, Relaying
  <2>3. CASE phase' = "enter" /\ target' = target + 1
    BY <1>0, <2>1, <2>3, PoolAssumption
       DEF Health, Untouched, Ahead, Charged, Credited, Sampled, Won, Relaying
  <2>4. CASE phase' = "failed" /\ target' = target /\ target = NTargets
    BY <1>0, <2>1, <2>4, PoolAssumption, TargetsAssumption
       DEF Health, Untouched, Ahead, Charged, Credited, Sampled, Won, Relaying, Target
  <2>. QED BY <1>2, <2>2, <2>3, <2>4 DEF Enter, NextTarget
<1>3. CASE Skip
  <2>1. /\ phase = "try" /\ KeyDone(poolFault, 0) /\ poolFault \in BOOLEAN
        /\ UNCHANGED <<credited, samples, genuine, calls, spared>>
    BY <1>3 DEF Skip, TypeOK
  <2>2. samples'[target] + spared'[target] =
          samples[target] + spared[target] + (IF phase = "flight" THEN 1 ELSE 0)
    <3>1. samples[target] \in Nat /\ spared[target] \in Nat
      BY DEF TypeOK
    <3>. QED BY <2>1, <3>1
  <2>3. /\ poolFault <=> (poolFault \/ (target \in Pooled /\ FALSE))
        /\ 0 = IF FALSE /\ target \notin Pooled THEN 1 ELSE 0
        /\ genuine' = IF FALSE THEN Bump(genuine) ELSE genuine
    BY <2>1
  <2>. QED BY <1>0, <2>1, <2>2, <2>3, WalkHealth
<1>4. CASE Dispatch
  <2>1. /\ phase = "try" /\ phase' = "flight" /\ calls' = Bump(calls)
        /\ UNCHANGED <<target, key, poolFault, cooled, fed, credited, samples, genuine, spared>>
    BY <1>4 DEF Dispatch
  <2>2. \A i \in Target : calls[i] \in Nat /\ samples[i] \in Nat /\ spared[i] \in Nat
                          /\ calls'[i] = IF i = target THEN calls[i] + 1 ELSE calls[i]
    BY <2>1 DEF Bump, TypeOK
  <2>3. Sampled'
    BY <2>1, <2>2 DEF Health, Sampled
  <2>. QED BY <1>0, <2>1, <2>2, <2>3 DEF Health, Untouched, Ahead, Charged, Credited, Won, Relaying
<1>5. CASE Refused
  <2>1. PICK e \in ErrorKind : Failed(e, IsRetryable(e))
    BY <1>5 DEF Refused
  <2>2. IsRetryable(e) \in BOOLEAN
    BY DEF IsRetryable
  <2>. QED BY <2>1, <2>2, FailedHealth
<1>6. CASE TimeOut
  BY <1>6, FailedHealth DEF TimeOut
<1>7. CASE Wake
  BY <1>7 DEF Wake, Health, Untouched, Ahead, Charged, Credited, Sampled, Won, Relaying
<1>8. CASE Commit
  <2>1. /\ phase = "flight" /\ phase' = "committed" /\ samples' = Bump(samples)
        /\ credited' = Bump(credited) /\ cooled' = cooled \ {<<target, key>>}
        /\ UNCHANGED <<target, key, fed, genuine, calls, spared>>
    BY <1>8 DEF Commit
  <2>2. \A i \in Target : /\ calls[i] \in Nat /\ samples[i] \in Nat /\ spared[i] \in Nat
                          /\ samples'[i] = IF i = target THEN samples[i] + 1 ELSE samples[i]
                          /\ credited'[i] = IF i = target THEN credited[i] + 1 ELSE credited[i]
    BY <2>1 DEF Bump, TypeOK
  <2>3. Sampled'
    BY <2>1, <2>2 DEF Health, Sampled
  <2>4. Credited'
    BY <2>1, <2>2 DEF Health, Credited, Won, Relaying
  <2>. QED BY <1>0, <2>1, <2>2, <2>3, <2>4 DEF Health, Untouched, Ahead, Charged
<1>9. CASE FirstPoll \/ Resume \/ Chunk \/ Upstream \/ Finish
  <2>1. /\ phase \in {"committed"} \cup Relaying /\ phase' \in Relaying \cup {"ended"}
        /\ UNCHANGED <<target, key, poolFault, cooled, fed, credited, samples, genuine, calls, spared>>
    BY <1>9 DEF FirstPoll, Resume, Chunk, Upstream, Finish, Relay, Relaying
  <2>. QED BY <2>1 DEF Health, Untouched, Ahead, Charged, Credited, Sampled, Won, Relaying
<1>10. CASE ClientGone
  BY <1>10 DEF ClientGone, Health, Untouched, Ahead, Charged, Credited, Sampled, Won, Relaying
<1>11. CASE UNCHANGED vars
  BY <1>11 DEF vars, Health, Untouched, Ahead, Charged, Credited, Sampled
<1>. QED BY <1>1, <1>2, <1>3, <1>4, <1>5, <1>6, <1>7, <1>8, <1>9, <1>10, <1>11 DEF Next

\* For any targets, pools and retries, the shared health state is told what the
\* walk of a streamed request learned: single keys fault by fault, a pool once.
THEOREM HealthIsEvidence == Spec => []EvidenceOnly
<1>1. Init => Health
  BY PoolAssumption
     DEF Init, Zero, Health, Untouched, Ahead, Charged, Credited, Sampled, Won, Relaying, Target
<1>2. TypeOK /\ Health => EvidenceOnly
  <2>. SUFFICES ASSUME TypeOK, Health, NEW i \in Target
       PROVE  EvidenceOnly!(i)
    BY DEF EvidenceOnly
  <2>. QED BY DEF Health, Charged, Credited, Sampled, Won, Relaying
<1>. QED BY <1>1, <1>2, StartTyped, StepTyped, StepHealth, PTL DEF Spec

=============================================================================
