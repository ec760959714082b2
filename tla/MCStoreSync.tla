----------------------------- MODULE MCStoreSync -----------------------------
(* Syncs, applied optimizations and connections of one or two shops. *)
EXTENDS StoreSync

CONSTANTS s1, s2, a1, c1, c2, shop1, shop2
=============================================================================
