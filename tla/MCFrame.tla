------------------------------- MODULE MCFrame -------------------------------
EXTENDS Frame

(* Two copies of one item: one is worn, the other soulbound and in a bag.    *)
MCItemId == [i \in {"worn", "bound"} |-> 1]
MCPlace  == [i \in {"worn", "bound"} |-> IF i = "worn" THEN 1 ELSE 2]
==============================================================================
