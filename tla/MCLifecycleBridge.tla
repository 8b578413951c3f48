-------------------------- MODULE MCLifecycleBridge -------------------------
EXTENDS LifecycleBridge, TLC
=============================================================================
