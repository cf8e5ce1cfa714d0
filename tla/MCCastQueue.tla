----------------------------- MODULE MCCastQueue -----------------------------
(* Three slots, so that the ring wraps, fills and evicts within four pushes; *)
(* the spells share a category and only spell 2 is NON_GCD.                  *)
EXTENDS CastQueue

MCSpellIds == {1, 2}
MCNonGcd   == {2}
MCCategory == [s \in MCSpellIds |-> 7]
==============================================================================
