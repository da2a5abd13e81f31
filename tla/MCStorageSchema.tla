-------------------------- MODULE MCStorageSchema --------------------------
(* Instances of StorageSchema for TLC.                                     *)
EXTENDS StorageSchema

\* A second before 1970, the two sides of a boundary, the last second that an int
\* has, the first that it has not, and the last, which is narrowed to -1.
MCClock == {-1, 2, 3, 7, 8, 15}
=============================================================================
