---------------------------- MODULE MCCancelCustody ----------------------------
(***************************************************************************)
(* Three runs of two cats: two compete for one CLI session.                *)
(***************************************************************************)
EXTENDS CancelCustody, TLC

CONSTANTS codex, opus, x1, x2, x3

MCCatOf == (x1 :> codex) @@ (x2 :> codex) @@ (x3 :> opus)
=============================================================================
