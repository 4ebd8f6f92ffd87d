----------------------------- MODULE MCColorTemp -----------------------------
(* ColorTemp with the symmetry of its goroutines and processes, for TLC.    *)
EXTENDS ColorTemp, TLC

\* No property tells the members of one of these sets apart.
Symmetry == Permutations(Client) \cup Permutations(Loop) \cup Permutations(Pid)

=============================================================================
