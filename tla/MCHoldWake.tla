----------------------------- MODULE MCHoldWake -----------------------------
(***************************************************************************)
(* Two requests to cancel one wake.                                        *)
(***************************************************************************)
EXTENDS HoldWake

CONSTANTS r1, r2
=============================================================================
