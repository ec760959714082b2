---------------------------- MODULE MCRateLimiter ----------------------------
(* Two callers of a bucket of two tokens. *)
EXTENDS RateLimiter

CONSTANTS p1, p2
=============================================================================
