--------------------------- MODULE MCAttemptLoop ---------------------------
(* A target with a shorter timeout of its own, then a pool of two keys, and *)
(* a plain one; one retry each.  The caller's cap is absent, shorter than   *)
(* one attempt, or shorter than the request only.                           *)
EXTENDS AttemptLoop

Pools == <<1, 2, 1>>
Timeouts == <<1, 2, 2>>
=============================================================================
