--------------------------- MODULE ConsoleAccounts ---------------------------
(***************************************************************************)
(* Console accounts and sessions: signup, login and logout                  *)
(* (console_api.rs), the account store with its file                        *)
(* (console_accounts.rs) and the session tokens (console_auth.rs).          *)
(*                                                                          *)
(* A handler is a task; it may be parked at every await: at the store's     *)
(* write lock, while the file is written, while a password is hashed.  The  *)
(* store's own steps run in a spawned task, so they go on when the client   *)
(* hangs up; a crash ends every task and the next process loads the file.   *)
(***************************************************************************)
EXTENDS Integers, FiniteSets

CONSTANTS
    Tasks, Emails,
    SecretFromEnv,   \* RP_CONSOLE_SESSION_SECRET is set: the secret survives a restart
    MaxVersion,      \* bound: logouts per account
    MaxBoots         \* bound: process starts
Absent == -1         \* no account of this address

VARIABLES
    file,      \* session_version per address in the accounts file, or Absent
    shared,    \* the published snapshot
    lock,      \* the task that holds write_lock, if any
    task,      \* what each task is doing
    tokens,    \* session tokens handed out: address, version, secret
    boot,      \* number of this process
    revoked,   \* history: tokens a confirmed logout has ended
    created    \* history: addresses whose signup was confirmed, once per confirmation
vars == <<file, shared, lock, task, tokens, boot, revoked, created>>

Idle == [pc |-> "idle"]
Snapshots == [Emails -> Absent..MaxVersion]
secret == IF SecretFromEnv THEN 0 ELSE boot      \* session_secret_from_env

TypeOK ==
    /\ file \in Snapshots /\ shared \in Snapshots
    /\ lock \subseteq Tasks
    /\ boot \in 1..MaxBoots
    /\ tokens \subseteq [email : Emails, sv : 0..MaxVersion, secret : 0..MaxBoots]

Init ==
    /\ file = [e \in Emails |-> Absent] /\ shared = file
    /\ lock = {} /\ task = [t \in Tasks |-> Idle]
    /\ tokens = {} /\ boot = 1 /\ revoked = {} /\ created = [e \in Emails |-> 0]

find(e) == shared[e]
\* ConsoleAuthBridge::issue and verify; a token may also expire, which only refuses more.
issue(e, version) == [email |-> e, sv |-> version, secret |-> secret]
verify(token) == token.secret = secret /\ find(token.email) = token.sv

Goto(t, record) == task' = [task EXCEPT ![t] = record]

\* signup: the address and password have been checked and the password hashed.
Signup(t, e) ==
    /\ task[t] = Idle
    /\ Goto(t, [pc |-> "lock", op |-> "create", email |-> e])
    /\ UNCHANGED <<file, shared, lock, tokens, boot, revoked, created>>

\* login: the account is read, then Argon2 runs on a blocking thread.
Login(t, e) ==
    /\ task[t] = Idle /\ find(e) # Absent
    /\ Goto(t, [pc |-> "hashing", email |-> e, version |-> find(e)])
    /\ UNCHANGED <<file, shared, lock, tokens, boot, revoked, created>>
\* The session is issued for the version read before the hashing.
Issue(t) ==
    /\ task[t].pc = "hashing"
    /\ tokens' = tokens \cup {issue(task[t].email, task[t].version)}
    /\ Goto(t, Idle)
    /\ UNCHANGED <<file, shared, lock, boot, revoked, created>>

\* logout: auth_middleware has verified the session token.
Logout(t, token) ==
    /\ task[t] = Idle /\ verify(token) /\ token.sv < MaxVersion
    /\ Goto(t, [pc |-> "lock", op |-> "bump", email |-> token.email])
    /\ UNCHANGED <<file, shared, lock, tokens, boot, revoked, created>>

\* The write lock is acquired and the snapshot read under it.
Locked(t) ==
    LET e == task[t].email
    IN  /\ task[t].pc = "lock" /\ lock = {}
        /\ IF task[t].op = "create" /\ shared[e] # Absent
             THEN Goto(t, Idle) /\ UNCHANGED lock               \* CreateError::Duplicate
             ELSE /\ lock' = {t}
                  /\ shared[e] < MaxVersion
                  /\ Goto(t, [pc |-> "persist", op |-> task[t].op, email |-> e,
                              next |-> [shared EXCEPT ![e] = @ + 1]])
        /\ UNCHANGED <<file, shared, tokens, boot, revoked, created>>

\* The snapshot is published without the file being written.
PersistMutant(t) ==
    /\ task[t].pc = "persist"
    /\ Goto(t, [task[t] EXCEPT !.pc = "publish"])
    /\ UNCHANGED <<file, shared, lock, tokens, boot, revoked, created>>

\* write_atomic: the file has the new content, or (an error) still the old one.
Persist(t) ==
    /\ task[t].pc = "persist"
    /\ \/ file' = task[t].next /\ Goto(t, [task[t] EXCEPT !.pc = "publish"]) /\ UNCHANGED lock
       \/ lock' = {} /\ Goto(t, Idle) /\ UNCHANGED file
    /\ UNCHANGED <<shared, tokens, boot, revoked, created>>

\* store, release the lock, answer: a confirmed logout ends the tokens handed out so far.
Publish(t) ==
    /\ task[t].pc = "publish"
    /\ shared' = task[t].next /\ lock' = {}
    /\ Goto(t, [pc |-> "answer", op |-> task[t].op, email |-> task[t].email, version |-> task[t].next[task[t].email]])
    /\ UNCHANGED <<file, tokens, boot, revoked, created>>
Answer(t) ==
    LET e == task[t].email
    IN  /\ task[t].pc = "answer" /\ Goto(t, Idle)
        /\ IF task[t].op = "create"
             THEN /\ tokens' = tokens \cup {issue(e, task[t].version)}
                  /\ created' = [created EXCEPT ![e] = @ + 1]
                  /\ UNCHANGED revoked
             ELSE /\ revoked' = revoked \cup {k \in tokens : k.email = e /\ k.sv < task[t].version}
                  /\ UNCHANGED <<tokens, created>>
        /\ UNCHANGED <<file, shared, lock, boot>>

\* The process ends at any point; the next one loads the file.
Crash ==
    /\ boot < MaxBoots /\ boot' = boot + 1
    /\ shared' = file /\ lock' = {} /\ task' = [t \in Tasks |-> Idle]
    /\ UNCHANGED <<file, tokens, revoked, created>>

Next == \/ Crash
        \/ \E t \in Tasks : \/ \E e \in Emails : Signup(t, e) \/ Login(t, e)
                            \/ \E k \in tokens : Logout(t, k)
                            \/ Issue(t) \/ Locked(t) \/ Persist(t) \/ Publish(t) \/ Answer(t)
Spec == Init /\ [][Next]_vars

-----------------------------------------------------------------------------
\* A confirmed logout is final: no token that was out when it was confirmed is accepted
\* again, neither by this process nor, with a secret that survives, by the next one, and
\* a login that began before it and finishes after it does not bring one back
\* (console_accounts.rs bump_session_version, console_auth.rs verify).
LogoutIsFinal == \A k \in revoked : ~verify(k)

\* An account has one owner: a signup is confirmed at most once per address, and what was
\* confirmed is still there after a crash (console_accounts.rs, create).
OneOwner == \A e \in Emails : created[e] <= 1 /\ (created[e] = 1 => shared[e] # Absent)
=============================================================================
