------------------------------ MODULE MCSuspend -----------------------------
EXTENDS Suspend, TLC
=============================================================================
