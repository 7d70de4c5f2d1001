--------------------------- MODULE ProviderErrors ---------------------------
(* The errors of a provider call and what the buffered and the streaming    *)
(* path make of them (crates/routeplane/src/proxy.rs).                      *)

CONSTANT OnStatus   \* which of RateLimited, Upstream5xx retry.on_status lists

ErrorKind == {"Timeout", "RateLimited", "Auth", "BadRequest", "Upstream5xx",
              "Network", "Translation"}

IsRetryable(e) == e \in {"Timeout", "Network"} \cup OnStatus

CountsAsHealthFailure(e) == e \notin {"RateLimited", "BadRequest"}

\* key_cooldown_for_error: is this the key's fault?
CoolsKey(e) == e \notin {"BadRequest", "Translation"}
=============================================================================
