------------------------------ MODULE MCServer ------------------------------
(* Server with two clients, told apart only by name.                        *)
EXTENDS Server, TLC
CONSTANTS c1, c2
MCClients == {c1, c2}
Symmetry == Permutations(MCClients)
=============================================================================
