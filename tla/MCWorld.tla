------------------------------ MODULE MCWorld ------------------------------
(* Instances of World for TLC: one account with two roles, one with one. *)
EXTENDS World, TLC

CONSTANTS knight, mage, elf, alice, bob

MCOwner == [r \in Roles |-> IF r = elf THEN bob ELSE alice]
MCSettings ==
  [clients : {"any"}, roles : {{knight, mage}}, conns : {2}, threads : {1}, queue : {1}]
    \union [clients : {"polite", "quiet"}, roles : {Roles}, conns : {3}, threads : {2}, queue : {2}]
ThreadSymmetry == Permutations(Sessions) \union Permutations(Workers)
=============================================================================
