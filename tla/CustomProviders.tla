--------------------------- MODULE CustomProviders ---------------------------
(***************************************************************************)
(* The providers that tenants register at run time                          *)
(* (crates/routeplane/src/custom_providers.rs, providers_api.rs): an        *)
(* immutable snapshot behind an ArcSwap, a file that is written first, a    *)
(* lock that only the admin handlers take, and the registration of a        *)
(* circuit breaker that follows.  A chat request reads the snapshot three   *)
(* times: for the name, for the key and, at dispatch, for the adapter.      *)
(*                                                                          *)
(* Names are numbers, ordered like the strings they stand for; address and  *)
(* key of a registration are told apart by its revision.                    *)
(***************************************************************************)
EXTENDS Integers, FiniteSets

CONSTANTS Tasks,        \* admin requests that may run at once
          Chats,        \* chat requests that may run at once
          Calls,        \* the admin requests
          Asks,         \* the chat requests: tenant, and a provider's name or a model
          BuiltIns,     \* names of built-in providers
          Globals,      \* the operator's entries in the boot file
          AllowPrivate, \* RP_CUSTOM_PROVIDER_ALLOW_PRIVATE
          MaxBoots

GLOBAL_OWNER == "global"
VARIABLES disk, live, lock, trackers, task, chat, boots
vars == <<disk, live, lock, trackers, task, chat, boots>>

Free == "free"
Idle == [pc |-> "idle"]
NoEntry == [owner |-> "nobody", name |-> 0, revision |-> 0, models |-> {}]

\* What the constants are: the boot file has the operator's entries, of different names
\* (RuntimeProviders::build), and a tenant's id is never the operator's (resolved_tenant_id,
\* "Never empty").
Configured ==
    /\ Free \notin Tasks
    /\ \A e, f \in Globals : e.owner = GLOBAL_OWNER /\ (e.name = f.name => e = f)
    /\ \A call \in Calls : call.tenant # GLOBAL_OWNER

-----------------------------------------------------------------------------
\* Checks on what is registered

\* One of the flaws of a name, address, key or list of models.
validate_and_normalize(cfg) == cfg.flaw = "none"

\* ip_is_blocked: an IPv4 address mapped into IPv6 is judged as the address it holds.
ip_is_blocked(ip, allow_private) ==
    LET class == IF ip.class = "mapped" THEN ip.holds.class ELSE ip.class
    IN  \/ class \in {"unspecified", "multicast", "broadcast", "link_local"}
        \/ class \in {"loopback", "private"} /\ ~allow_private
\* ssrf_check: every address the host has; a name that does not resolve passes.
ssrf_check(host, allow_private) == \A ip \in host : ~ip_is_blocked(ip, allow_private)

-----------------------------------------------------------------------------
\* Lookups in a snapshot

Of(snap, owner, name) == {e \in snap : e.owner = owner /\ e.name = name}
Own(set, else) == IF set # {} THEN CHOOSE e \in set : TRUE ELSE else
entry_for(snap, tenant, name) == Own(Of(snap, tenant, name), Own(Of(snap, GLOBAL_OWNER, name), NoEntry))

\* model_index: of an owner's providers with the model the first by name.
model_index(snap, owner, model) ==
    LET with == {e \in snap : e.owner = owner /\ model \in e.models}
    IN  IF with = {} THEN 0 ELSE (CHOOSE e \in with : \A f \in with : e.name <= f.name).name
provider_for_model(snap, tenant, model) ==
    IF model_index(snap, tenant, model) # 0 THEN model_index(snap, tenant, model)
    ELSE model_index(snap, GLOBAL_OWNER, model)
owned_names(snap) == {<<e.owner, e.name>> : e \in snap}

-----------------------------------------------------------------------------
Init ==
    /\ disk = Globals /\ live = Globals
    /\ lock = Free
    /\ trackers = owned_names(Globals)
    /\ task = [t \in Tasks |-> Idle] /\ chat = [c \in Chats |-> Idle]
    /\ boots = 1

\* The handler up to the task it spawns.
Accepted(call) ==
    call.op = "delete" \/
    (validate_and_normalize(call) /\ call.name \notin BuiltIns /\ ssrf_check(call.host, AllowPrivate))
Arrive(t) ==
    /\ task[t].pc = "idle"
    /\ \E call \in Calls :
        /\ Accepted(call)
        /\ task' = [task EXCEPT ![t] = [pc |-> "locking", call |-> call, next |-> {}, connected |-> TRUE]]
    /\ UNCHANGED <<disk, live, lock, trackers, chat, boots>>

\* The owner the body names is kept.
UpsertedMutant(call, snap) ==
    LET owner == call.tenant_id
    IN  (snap \ Of(snap, owner, call.name)) \cup
        {[owner |-> owner, name |-> call.name, revision |-> call.revision, models |-> call.models]}

\* upsert: the owner is the caller, whatever the body says.
Upserted(call, snap) ==
    LET owner == call.tenant
    IN  (snap \ Of(snap, owner, call.name)) \cup
        {[owner |-> owner, name |-> call.name, revision |-> call.revision, models |-> call.models]}
Removed(call, snap) == snap \ Of(snap, call.tenant, call.name)

\* The spawned task takes the lock and computes the next registry from the live one.
Lock(t) ==
    /\ task[t].pc = "locking" /\ lock = Free
    /\ LET call == task[t].call
           next == IF call.op = "delete" THEN Removed(call, live) ELSE Upserted(call, live)
       IN  IF call.op = "delete" /\ next = live
             THEN task' = [task EXCEPT ![t] = Idle] /\ lock' = lock          \* 404
             ELSE task' = [task EXCEPT ![t].pc = "persist", ![t].next = next] /\ lock' = t
    /\ UNCHANGED <<disk, live, trackers, chat, boots>>

\* write_atomic: the new file takes the old one's place, or an error leaves everything.
Persist(t) ==
    /\ task[t].pc = "persist"
    /\ \/ disk' = task[t].next /\ task' = [task EXCEPT ![t].pc = "swap"] /\ lock' = lock
       \/ disk' = disk /\ task' = [task EXCEPT ![t] = Idle] /\ lock' = Free
    /\ UNCHANGED <<live, trackers, chat, boots>>
Swap(t) ==
    /\ task[t].pc = "swap"
    /\ live' = task[t].next /\ lock' = Free
    /\ task' = [task EXCEPT ![t] = IF task[t].call.op = "upsert" THEN [task[t] EXCEPT !.pc = "register", !.next = {}] ELSE Idle]
    /\ UNCHANGED <<disk, trackers, chat, boots>>

\* Back in the handler: HealthTracker::register, unless the client has gone.
Register(t) ==
    /\ task[t].pc = "register"
    /\ trackers' = IF task[t].connected THEN trackers \cup {<<task[t].call.tenant, task[t].call.name>>} ELSE trackers
    /\ task' = [task EXCEPT ![t] = Idle]
    /\ UNCHANGED <<disk, live, lock, chat, boots>>
\* The handler is dropped with the connection; the task it spawned runs on.
Hangup(t) ==
    /\ task[t].pc # "idle" /\ task[t].connected /\ task[t].call.op = "upsert"
    /\ task' = [task EXCEPT ![t].connected = FALSE]
    /\ UNCHANGED <<disk, live, lock, trackers, chat, boots>>

-----------------------------------------------------------------------------
\* Chat

\* The target: a name the client gives, or the provider of the model.
Target(c) ==
    /\ chat[c].pc \in {"idle", "sent"}
    /\ \E ask \in Asks :
        LET name == IF ask.by = "name" THEN ask.name ELSE provider_for_model(live, ask.tenant, ask.model)
        IN  /\ entry_for(live, ask.tenant, name) # NoEntry
            /\ chat' = [chat EXCEPT ![c] = [pc |-> "key", ask |-> ask, name |-> name, key |-> NoEntry]]
    /\ UNCHANGED <<disk, live, lock, trackers, task, boots>>
\* api_key, while the targets are made ready; without one the target is left out.
ApiKey(c) ==
    /\ chat[c].pc = "key"
    /\ LET e == entry_for(live, chat[c].ask.tenant, chat[c].name)
       IN  chat' = [chat EXCEPT ![c] = IF e = NoEntry THEN Idle ELSE [chat[c] EXCEPT !.pc = "dispatch", !.key = e]]
    /\ UNCHANGED <<disk, live, lock, trackers, task, boots>>
\* resolve_provider, when its turn comes among the targets.
Dispatch(c) ==
    /\ chat[c].pc = "dispatch"
    /\ LET e == entry_for(live, chat[c].ask.tenant, chat[c].name)
       IN  chat' = [chat EXCEPT ![c] = IF e = NoEntry THEN Idle
                                       ELSE [pc |-> "sent", ask |-> chat[c].ask, name |-> chat[c].name,
                                             key |-> chat[c].key, adapter |-> e]]
    /\ UNCHANGED <<disk, live, lock, trackers, task, boots>>

\* A crash and the start after it: load, and the replay of the health cells.
Crash ==
    /\ boots < MaxBoots /\ boots' = boots + 1
    /\ live' = disk /\ trackers' = owned_names(disk)
    /\ lock' = Free
    /\ task' = [t \in Tasks |-> Idle] /\ chat' = [c \in Chats |-> Idle]
    /\ UNCHANGED disk

Next == \/ \E t \in Tasks : Arrive(t) \/ Lock(t) \/ Persist(t) \/ Swap(t) \/ Register(t) \/ Hangup(t)
        \/ \E c \in Chats : Target(c) \/ ApiKey(c) \/ Dispatch(c)
        \/ Crash
Spec == Init /\ [][Next]_vars

-----------------------------------------------------------------------------
\* Whatever the admin requests of several tenants, their failures and a crash do: a name is
\* one entry of one owner; the live registry is the file's but for the one mutation whose
\* file is written and whose swap is due, so that no entry is seen that a restart would
\* lose; the operator's entries stay as they are; and a chat request is sent to, and with
\* the key of, a provider of its own tenant or of the operator (custom_providers.rs
\* upsert, remove, persist, entry_for).
RegistryIsDurable ==
    /\ \A snap \in {live, disk} : \A e, f \in snap : e.owner = f.owner /\ e.name = f.name => e = f
    /\ live = disk \/ \E t \in Tasks : lock = t /\ task[t].pc = "swap" /\ disk = task[t].next
    /\ {e \in live : e.owner = GLOBAL_OWNER} = Globals
    /\ \A c \in Chats : chat[c].pc = "sent" =>
        {chat[c].key.owner, chat[c].adapter.owner} \subseteq {chat[c].ask.tenant, GLOBAL_OWNER}

\* "Register a circuit breaker + latency EWMA + in-flight gauge for the provider so it is
\* fast-failed and latency-ordered like a built-in" (providers_api.rs:104): a provider that
\* no admin request is about any more has its tracker.
LiveIsGuarded ==
    \A e \in live : <<e.owner, e.name>> \in trackers
                    \/ \E t \in Tasks : task[t].pc # "idle" /\ task[t].call.name = e.name /\ task[t].call.tenant = e.owner

\* A request pairs address and key of one registration.  It does not hold: the two are read
\* from two snapshots, and an update or removal may come between them.
OneRegistration == \A c \in Chats : chat[c].pc = "sent" => chat[c].key = chat[c].adapter
=============================================================================
