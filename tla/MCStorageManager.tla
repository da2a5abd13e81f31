-------------------------- MODULE MCStorageManager --------------------------
(* Instances of StorageManager for TLC.                                    *)
EXTENDS StorageManager

\* A group that presses in the last second of a cluster and in the first of the
\* next: two rows of the table.
MCOneGroup == {7}
MCEdge == {899, 900}
=============================================================================
