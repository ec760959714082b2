--------------------------- MODULE MCOptimization ---------------------------
(***************************************************************************)
(* Optimization for TLC, and the claims of the repository that concurrent  *)
(* or failing requests break.                                              *)
(***************************************************************************)
EXTENDS Optimization, TLC

\* No definition tells requests apart.
RequestSymmetry == Permutations(Request)

-----------------------------------------------------------------------------
\* "Human-in-the-loop approval gate": what the user has rejected is not on Etsy.
RejectedIsNotWritten ==
    \A o \in Opt : status[o] = "rejected" => ~written[o]

\* "Requires status=approved": a row being written to Etsy is approved.
WriteNeedsApproved ==
    \A p \in Request : pc[p] = "writing" => status[target[p]] = "approved"

\* "One pending optimization per type per listing; repeat applies are no-ops".
OnePendingPerField ==
    \A o, q \in Opt :
        status[o] = "pending" /\ status[q] = "pending" /\ FieldOf(o) = FieldOf(q)
        => o = q

\* "Etsy API timed out; retry later": the row of a request answered so can be
\* applied again (or has been).
RetryIsPossible ==
    \A p \in Request :
        pc[p] = "unavailable" => status[target[p]] \in {"approved", "applied"}

\* "Mirror the change locally so the UI is consistent": when every request has
\* been answered, and none was late, the mirror is the listing on Etsy.
MirrorIsConsistent == MirrorAfterAnswer

\* "SHA-256 over the SEO-relevant content": the stored hash is the mirror's.
HashIsOfContent == hash = listing
=============================================================================
