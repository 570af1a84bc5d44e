--------------------------- MODULE MCSessionChain ---------------------------
(***************************************************************************)
(* SessionChain with one finalizer, one reaper and one proposal.           *)
(***************************************************************************)
EXTENDS SessionChain

CONSTANTS f1, r1, p1
=============================================================================
