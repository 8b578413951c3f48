--------------------------- MODULE MCRequestFence ---------------------------
(* Three requests for a channel of two places: two launches that commit    *)
(* through the fence and supersede each other, and one request that does   *)
(* neither.                                                                *)
EXTENDS RequestFence

CONSTANTS r1, r2, r3
=============================================================================
