------------------------------ MODULE MCDaemon ------------------------------
EXTENDS Daemon, TLC

CONSTANTS a1, a2

Symmetric == Permutations(App)
=============================================================================
