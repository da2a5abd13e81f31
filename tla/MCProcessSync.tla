--------------------------- MODULE MCProcessSync ---------------------------
(* Instances of ProcessSync for TLC.                                       *)
EXTENDS ProcessSync
=============================================================================
