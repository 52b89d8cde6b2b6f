---------------------------- MODULE MCReadCache -----------------------------
(***************************************************************************)
(* ReadCache for TLC.  The pollers are alike, so a run of safety           *)
(* properties alone takes one state for all their permutations.            *)
(***************************************************************************)
EXTENDS ReadCache, TLC

Alike == Permutations(Pollers)
=============================================================================
