----------------------------- MODULE MCDailyAgent ----------------------------
(* Daily runs of one account on two worker slots. *)
EXTENDS EventStream

CONSTANTS r1, r2, w1, w2, l1, l2
=============================================================================
