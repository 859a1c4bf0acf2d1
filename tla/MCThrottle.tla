----------------------------- MODULE MCThrottle -----------------------------
(* Throttle on small instances: the key of a client under the scope of the *)
(* recovery, and one under a throttle with a shorter window.               *)
EXTENDS Throttle, TLC

ProcessSymmetry == Permutations(Processes)

MCClients == {"recovery", "anon"}
MCRate == [recovery |-> 2, anon |-> 1]
MCDuration == [recovery |-> 2, anon |-> 1]
=============================================================================
