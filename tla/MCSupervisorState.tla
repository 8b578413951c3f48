-------------------------- MODULE MCSupervisorState --------------------------
(* Two applications, every zero and non-zero token number a caller may     *)
(* pass, and a revision that runs out.                                     *)
EXTENDS StateCompatibility, TLC

CONSTANTS a1, a2

MCGenerations == 0..2
MCEpochs == 0..2
MCLeases == 0..2

Symmetric == Permutations(App)
=============================================================================
