---------------------------- MODULE MCInputMode ----------------------------
(* Two applications, and enough fences for a launch, a recovered park and   *)
(* another launch.                                                          *)
EXTENDS InputMode
=============================================================================
