--------------------------- MODULE MCMultiMention ---------------------------
(***************************************************************************)
(* Three cats and three calls: a asks b and c, retries the call with the   *)
(* same key, and b asks a.                                                 *)
(***************************************************************************)
EXTENDS MultiMention

CONSTANTS a, b, c, m1, m2, m3, k1

MCCallerOf == [x \in {m1, m2, m3} |-> IF x = m3 THEN b ELSE a]
MCKeyOf == [x \in {m1, m2, m3} |-> IF x = m3 THEN NoKey ELSE k1]
MCTargetsOf == [x \in {m1, m2, m3} |-> IF x = m3 THEN <<a>> ELSE <<b, c>>]
=============================================================================
