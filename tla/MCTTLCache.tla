----------------------------- MODULE MCTTLCache -----------------------------
(* Instances of TTLCache for TLC. *)
EXTENDS TTLCache, TLC
=============================================================================
