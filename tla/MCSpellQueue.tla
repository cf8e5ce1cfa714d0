---------------------------- MODULE MCSpellQueue ----------------------------
EXTENDS SpellQueue

MCUsages ==
  {[queueOnCooldown |-> TRUE,  noQueue |-> FALSE, attempts |-> 2],
   [queueOnCooldown |-> FALSE, noQueue |-> TRUE,  attempts |-> 2],
   [queueOnCooldown |-> FALSE, noQueue |-> FALSE, attempts |-> 3]}

MCCooldown == {[queueOnCooldown |-> TRUE, noQueue |-> FALSE, attempts |-> 3]}
MCNoQueue  == {[queueOnCooldown |-> FALSE, noQueue |-> TRUE, attempts |-> 3]}
==============================================================================
