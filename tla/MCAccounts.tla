----------------------------- MODULE MCAccounts ------------------------------
(* A few requests about one or two addresses within a few seconds. *)
EXTENDS Accounts

CONSTANTS r1, r2, r3, r4, r5, e1, e2
=============================================================================
