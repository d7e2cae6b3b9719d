------------------------------ MODULE MCTimers ------------------------------
(* Timers with two clients and small timeouts, all three different.         *)
EXTENDS Timers, TLC
CONSTANTS c1, c2
MCClients == {c1, c2}
MCTimeout == [client |-> 1, remote |-> 2, idle |-> 3]
Symmetry == Permutations(MCClients)
=============================================================================
