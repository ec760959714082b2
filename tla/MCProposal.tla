----------------------------- MODULE MCProposal ------------------------------
(* Titles of up to three characters, and up to three tags of five words. *)
EXTENDS Proposal

CONSTANTS wool, hat, red, handknitted, blank
=============================================================================
