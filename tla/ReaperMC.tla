------------------------------ MODULE ReaperMC ------------------------------
(***************************************************************************)
(* Reaper with the constants given their values for TLC.                   *)
(***************************************************************************)
EXTENDS Reaper

CONSTANTS probe   \* one of the waiters

MCProbes == {probe}
=============================================================================
