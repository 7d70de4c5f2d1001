---------------------------- MODULE MCStreamPath ----------------------------
(* A pool of two keys between two single-key targets, one retry each, and   *)
(* streams of up to three chunks.                                           *)
EXTENDS StreamPath

Pools == <<1, 2, 1>>
=============================================================================
