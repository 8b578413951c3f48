--------------------------- MODULE MCDisplayHost ---------------------------
(* A small display: the manager's surface and an application, one touch and *)
(* one stroke of the pen.                                                   *)
EXTENDS DisplayHost
=============================================================================
