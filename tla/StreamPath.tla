----------------------------- MODULE StreamPath -----------------------------
(***************************************************************************)
(* A stream: true request (stream_chat_completions of crates/routeplane/    *)
(* src/proxy.rs): the walk over targets, keys and retries until a first     *)
(* chunk is in hand, then the SSE generator that relays the chunks, and the *)
(* accounting at its end (StreamAbortAccounting).                           *)
(*                                                                          *)
(* One action is what the code does between two awaits or yields.  A future *)
(* is dropped only there: the client may leave while the handler waits for  *)
(* a provider or sleeps, before the body is polled for the first time, and  *)
(* at every await and yield of the generator.                               *)
(*                                                                          *)
(* Time is abstracted to whether the request's deadline has passed; how     *)
(* long a wait is compared with what is left is a choice.  A chunk is       *)
(* abstracted to the token count it reports.                                *)
(***************************************************************************)
EXTENDS Integers, Sequences, ProviderErrors

CONSTANTS
    NTargets,    \* targets in the order of the router
    Pooled,      \* the targets whose provider key is a comma-separated pool
    PoolSize,    \* how many keys of each target resolve, 1 without a pool
    MaxRetries,  \* retry.attempts
    Tokens,      \* total_tokens a chunk with usage may report
    MaxChunks    \* bound: chunks a provider sends

Target == 1..NTargets

ASSUME TargetsAssumption == NTargets \in Nat \ {0}
ASSUME PoolAssumption ==
    /\ Pooled \subseteq Target
    /\ PoolSize \in [Target -> Nat \ {0}]
    /\ \A i \in Target \ Pooled : PoolSize[i] = 1
ASSUME StreamRetryAssumption ==
    MaxRetries \in Nat /\ OnStatus \subseteq {"RateLimited", "Upstream5xx"}
ASSUME ChunkAssumption == Tokens \subseteq Nat \ {0} /\ MaxChunks \in Nat \ {0}

VARIABLES
    phase,
    target, key, try,   \* the attempt: target, key in the pool order, retries so far
    bounded,            \* client_bounded of the dispatch
    capped,             \* did the caller shorten the deadline?
    expired,            \* deadline.remaining() is zero
    poolFault,          \* pool_health_failure
    rejected,           \* is last_client_status set?
    cooled,             \* keys in a cooldown that this request set
    fed,                \* record_failure calls per target
    credited,           \* record_success calls per target
    samples,            \* record_latency calls per target
    taken,              \* chunks the generator has taken from the provider
    usage,              \* acc_usage, 0 for None
    armed, snapshot,    \* StreamAbortAccounting: armed, usage (0 for None)
    cut,                \* is stream_error set?
    settled,            \* the token counts settled against the budgets
    decisions,          \* the outcomes recorded in the ledger
    genuine,            \* history: faults that are evidence about the provider
    calls, spared,      \* history: dispatches, and those the caller's deadline ended
    reported            \* history: the last usage the generator was sent

attemptVars == <<target, key, try, bounded>>
healthVars == <<poolFault, rejected, cooled, fed, credited, samples, genuine, calls, spared>>
bodyVars == <<taken, usage, armed, snapshot, cut, reported>>
books == <<settled, decisions>>
vars == <<phase, attemptVars, capped, expired, healthVars, bodyVars, books>>

\* "committed" is the response head returned and its body not yet polled; the
\* generator then waits in stream.next ("next"), at the yield of a chunk
\* ("yield") or at the yield of the terminal frame ("last").
Walking == {"enter", "try", "sleep", "flight"}
Relaying == {"next", "yield", "last"}
Phase == Walking \cup Relaying \cup {"committed", "ended", "failed", "gone", "unpolled"}

Outcome == {"Ok", "StreamTruncated", "AllFailed"}

TypeOK ==
    /\ phase \in Phase
    /\ target \in Target /\ key \in 1..PoolSize[target] /\ try \in 0..MaxRetries
    /\ bounded \in BOOLEAN /\ capped \in BOOLEAN /\ expired \in BOOLEAN
    /\ poolFault \in BOOLEAN /\ rejected \in BOOLEAN
    /\ cooled \subseteq Target \X Nat
    /\ fed \in [Target -> Nat] /\ credited \in [Target -> Nat] /\ samples \in [Target -> Nat]
    /\ genuine \in [Target -> Nat] /\ calls \in [Target -> Nat] /\ spared \in [Target -> Nat]
    /\ taken \in 0..MaxChunks
    /\ usage \in Tokens \cup {0} /\ snapshot \in Tokens \cup {0} /\ reported \in Tokens \cup {0}
    /\ armed \in BOOLEAN /\ cut \in BOOLEAN
    /\ settled \in Seq(Nat) /\ decisions \in Seq(Outcome)

Zero == [i \in Target |-> 0]

Init ==
    /\ phase = "enter"
    /\ target = 1 /\ key = 1 /\ try = 0
    /\ bounded = FALSE /\ capped \in BOOLEAN /\ expired = FALSE
    /\ poolFault = FALSE /\ rejected = FALSE /\ cooled = {}
    /\ fed = Zero /\ credited = Zero /\ samples = Zero
    /\ genuine = Zero /\ calls = Zero /\ spared = Zero
    /\ taken = 0 /\ usage = 0 /\ reported = 0
    /\ armed = FALSE /\ snapshot = 0 /\ cut = FALSE
    /\ settled = <<>> /\ decisions = <<>>

Bump(f) == [f EXCEPT ![target] = @ + 1]

-----------------------------------------------------------------------------
\* Establishment

\* Time: the deadline passes while the request waits.
Expire ==
    /\ phase \in {"sleep", "flight"} /\ ~expired
    /\ expired' = TRUE
    /\ UNCHANGED <<phase, attemptVars, capped, healthVars, bodyVars, books>>

\* The end of the walk: every candidate failed before a first chunk.
NextTarget ==
    \/ /\ target < NTargets
       /\ phase' = "enter"
       /\ target' = target + 1 /\ key' = 1 /\ try' = 0
       /\ UNCHANGED decisions
    \/ /\ target = NTargets
       /\ phase' = "failed"
       /\ decisions' = Append(decisions, "AllFailed")
       /\ UNCHANGED <<target, key, try>>

\* The head of the loop over the targets: no adapter or no key, or the first key.
Enter ==
    /\ phase = "enter"
    /\ poolFault' = FALSE
    /\ \/ NextTarget
       \/ phase' = "try" /\ UNCHANGED <<target, key, try, decisions>>
    /\ UNCHANGED <<bounded, capped, expired, rejected, cooled, fed, credited, samples,
                   genuine, calls, spared, bodyVars, settled>>

\* A key is used up: the next one, or the pool's single failure and the next
\* target.  fault is the pool's verdict so far, feed a failure of the attempt.
KeyDone(fault, feed) ==
    \/ /\ key < PoolSize[target]
       /\ phase' = "try" /\ key' = key + 1 /\ try' = 0
       /\ poolFault' = fault
       /\ fed' = [fed EXCEPT ![target] = @ + feed]
       /\ UNCHANGED <<target, decisions>>
    \/ /\ key = PoolSize[target]
       /\ NextTarget
       /\ poolFault' = fault
       /\ fed' = [fed EXCEPT ![target] =
                    @ + feed + (IF target \in Pooled /\ fault THEN 1 ELSE 0)]

\* The breaker is open, the deadline is over, or the half-open cap is full.
Skip ==
    /\ phase = "try"
    /\ KeyDone(poolFault, 0)
    /\ UNCHANGED <<bounded, capped, expired, rejected, cooled, credited, samples,
                   genuine, calls, spared, bodyVars, settled>>

Dispatch ==
    /\ phase = "try" /\ ~expired
    /\ phase' = "flight"
    /\ bounded' \in IF capped THEN BOOLEAN ELSE {FALSE}
    /\ calls' = Bump(calls)
    /\ UNCHANGED <<target, key, try, capped, expired, poolFault, rejected, cooled, fed,
                   credited, samples, genuine, spared, bodyVars, books>>

\* The verdict of the last error alone, where the code accumulates.
PoolVerdictMutant(fault) == target \in Pooled /\ fault

PoolVerdict(fault) == poolFault \/ (target \in Pooled /\ fault)

MayRetry(retryable) == retryable /\ try < MaxRetries /\ ~expired

\* A failed attempt: what it tells the breaker, the latency average and the
\* key's cooldown, and then a retry of the key (if there is time to wait for
\* it) or the end of the key.
Failed(e, retryable) ==
    LET ours == bounded /\ e = "Timeout"
        fault == CountsAsHealthFailure(e) /\ ~ours
        feed == IF fault /\ target \notin Pooled THEN 1 ELSE 0
    IN
    /\ phase = "flight"
    /\ samples' = IF ours THEN samples ELSE Bump(samples)
    /\ spared' = IF ours THEN Bump(spared) ELSE spared
    /\ genuine' = IF fault THEN Bump(genuine) ELSE genuine
    /\ cooled' = IF target \in Pooled /\ CoolsKey(e)
                 THEN cooled \cup {<<target, key>>} ELSE cooled
    /\ rejected' = (rejected \/ e = "BadRequest")
    /\ \/ /\ MayRetry(retryable)
          /\ phase' = "sleep" /\ try' = try + 1
          /\ poolFault' = PoolVerdict(fault)
          /\ fed' = [fed EXCEPT ![target] = @ + feed]
          /\ UNCHANGED <<target, key, decisions>>
       \/ KeyDone(PoolVerdict(fault), feed)
    /\ UNCHANGED <<bounded, capped, expired, credited, calls, bodyVars, settled>>

\* The provider, or the stream before its first chunk, returns an error.
Refused == \E e \in ErrorKind : Failed(e, IsRetryable(e))

\* tokio::time::timeout elapses: always retryable.
TimeOut == Failed("Timeout", TRUE)

Wake ==
    /\ phase = "sleep"
    /\ phase' = "try"
    /\ UNCHANGED <<attemptVars, capped, expired, healthVars, bodyVars, books>>

\* The first chunk is in hand.  The response is returned with the generator as
\* its body; none of the generator has run.
Commit ==
    /\ phase = "flight"
    /\ phase' = "committed"
    /\ cooled' = cooled \ {<<target, key>>}
    /\ samples' = Bump(samples)
    /\ credited' = Bump(credited)
    /\ UNCHANGED <<attemptVars, capped, expired, poolFault, rejected, fed, genuine,
                   calls, spared, bodyVars, books>>

-----------------------------------------------------------------------------
\* The SSE generator

\* The usage is folded into the inline total and not into the abort snapshot.
TakeMutant(n) ==
    /\ taken' = taken + 1
    /\ reported' = IF n > 0 THEN n ELSE reported
    /\ usage' = IF n > 0 THEN n ELSE usage
    /\ UNCHANGED snapshot

\* A chunk is taken and its usage, if it has one, kept in both places (observe).
Take(n) ==
    /\ taken' = taken + 1
    /\ reported' = IF n > 0 THEN n ELSE reported
    /\ usage' = IF n > 0 THEN n ELSE usage
    /\ snapshot' = IF n > 0 THEN n ELSE snapshot

\* The chunk is yielded, or it cannot be serialized and the stream is cut.
Relay ==
    \/ phase' = "yield" /\ UNCHANGED cut
    \/ phase' = "last" /\ cut' = TRUE

\* The first poll of the body constructs the guard and relays the first chunk.
FirstPoll ==
    /\ phase = "committed"
    /\ armed' = TRUE
    /\ \E n \in Tokens \cup {0} : Take(n)
    /\ Relay
    /\ UNCHANGED <<attemptVars, capped, expired, healthVars, books>>

\* The client took the frame and polls again.
Resume ==
    /\ phase = "yield"
    /\ phase' = "next"
    /\ UNCHANGED <<attemptVars, capped, expired, healthVars, bodyVars, books>>

Chunk ==
    /\ phase = "next" /\ taken < MaxChunks
    /\ \E n \in Tokens \cup {0} : Take(n)
    /\ Relay
    /\ UNCHANGED <<attemptVars, capped, expired, healthVars, armed, books>>

\* The upstream ends, or fails, or is silent for too long; the terminal frame
\* ([DONE], or the error frame) is yielded.
Upstream ==
    /\ phase = "next"
    /\ phase' = "last"
    /\ cut' \in BOOLEAN
    /\ UNCHANGED <<attemptVars, capped, expired, healthVars, taken, usage, armed,
                   snapshot, reported, books>>

\* Drop of StreamAbortAccounting, after what was settled and recorded inline.
DropGuard(isArmed, inlineSettled, inlineDecisions) ==
    /\ settled' = IF isArmed THEN Append(inlineSettled, snapshot) ELSE inlineSettled
    /\ decisions' = IF isArmed THEN Append(inlineDecisions, "Ok") ELSE inlineDecisions
    /\ armed' = FALSE

\* The end of the generator without the disarm.
FinishMutant ==
    /\ phase = "last"
    /\ phase' = "ended"
    /\ DropGuard(armed, Append(settled, usage),
                 Append(decisions, IF cut THEN "StreamTruncated" ELSE "Ok"))
    /\ UNCHANGED <<attemptVars, capped, expired, healthVars, taken, usage, snapshot, cut, reported>>

\* The generator resumes past the terminal frame: disarm, settle, record.
Finish ==
    /\ phase = "last"
    /\ phase' = "ended"
    /\ DropGuard(FALSE, Append(settled, usage),
                 Append(decisions, IF cut THEN "StreamTruncated" ELSE "Ok"))
    /\ UNCHANGED <<attemptVars, capped, expired, healthVars, taken, usage, snapshot, cut, reported>>

\* The client leaves, and what the server was doing for it is dropped.
ClientGone ==
    \/ /\ phase \in {"sleep", "flight"}
       /\ phase' = "gone"
       /\ UNCHANGED <<attemptVars, capped, expired, healthVars, bodyVars, books>>
    \/ /\ phase = "committed"
       /\ phase' = "unpolled"
       /\ UNCHANGED <<attemptVars, capped, expired, healthVars, bodyVars, books>>
    \/ /\ phase \in Relaying
       /\ phase' = "ended"
       /\ DropGuard(armed, settled, decisions)
       /\ UNCHANGED <<attemptVars, capped, expired, healthVars, taken, usage, snapshot, cut, reported>>

-----------------------------------------------------------------------------

Next ==
    \/ Expire \/ Enter \/ Skip \/ Dispatch \/ Refused \/ TimeOut \/ Wake \/ Commit
    \/ FirstPoll \/ Resume \/ Chunk \/ Upstream \/ Finish
    \/ ClientGone

Spec == Init /\ [][Next]_vars

-----------------------------------------------------------------------------

\* A stream whose body was polled is accounted exactly once, by the inline code
\* at its end or by the guard's Drop and never by both, wherever the client
\* leaves and however the upstream ends, with the last usage that the provider
\* had reported by then; and until then not at all.
AccountedOnce ==
    /\ phase = "ended" => settled = <<reported>> /\ Len(decisions) = 1
    /\ phase \in Walking \cup Relaying \cup {"committed"} => settled = <<>> /\ decisions = <<>>

\* What the walk tells the shared health state is what it learned.  A failed
\* single-key target is charged fault by fault; a pool is charged once, when its
\* last key is used up and any of its keys was at fault, also when the last word
\* of the walk was a deadline or an open breaker; only the target that committed
\* is credited, and its key is not left in a cooldown.  Every dispatch leaves a
\* latency sample unless the caller's deadline ended it.
EvidenceOnly ==
    \A i \in Target :
        /\ i \notin Pooled => fed[i] = genuine[i]
        /\ i \in Pooled =>
             LET usedUp == i < target \/ phase = "failed"
             IN fed[i] = IF usedUp /\ genuine[i] > 0 THEN 1 ELSE 0
        /\ LET won == i = target /\ phase \in Relaying \cup {"committed", "ended", "unpolled"}
           IN /\ credited[i] = IF won THEN 1 ELSE 0
              /\ won => <<i, key>> \notin cooled
        /\ LET open == i = target /\ (phase \in {"flight", "gone"})
           IN calls[i] - samples[i] - spared[i] \in IF open THEN {0, 1} ELSE {0}

-----------------------------------------------------------------------------
\* What a comment in the code says, and a client that leaves refutes

\* "a truncated stream must never enter the audit record as Ok" (the inline
\* accounting of the generator).
TruncatedNeverOk ==
    cut /\ phase = "ended" => \A k \in DOMAIN decisions : decisions[k] # "Ok"
=============================================================================
