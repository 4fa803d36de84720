---------------------------- MODULE MCStairsLed ----------------------------
(***************************************************************************)
(* Instances of StairsLed for TLC: two programs of different lengths, the  *)
(* shortest for which every state of the light has a step of its own.      *)
(***************************************************************************)
EXTENDS StairsLed

CONSTANTS p1, p2

MCPrograms     == {p1, p2}
MCDefaults     == [p \in MCPrograms |-> IF p = p1 THEN [n |-> 5, m |-> 3] ELSE [n |-> 3, m |-> 2]]
LongPrograms   == {[n |-> 3, m |-> 4], [n |-> 4, m |-> 2]}
=============================================================================
