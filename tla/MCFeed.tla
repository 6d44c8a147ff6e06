-------------------------------- MODULE MCFeed --------------------------------
(* Instances of Feed for TLC. *)
EXTENDS Feed

CONSTANTS r1, r2, r3
==============================================================================
