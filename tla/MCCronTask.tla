----------------------------- MODULE MCCronTask -----------------------------
(***************************************************************************)
(* A dense and a sparse schedule; the delays of the sparse one exceed a    *)
(* timer, and a timer may be early by less than the distance of two slots. *)
(***************************************************************************)
EXTENDS CronTask
=============================================================================
