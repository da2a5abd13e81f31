--------------------------- MODULE MCProcessTree ---------------------------
(* Instances of ProcessTree for TLC.                                       *)
EXTENDS ProcessTree

\* Every way to hang the processes 2 and 3 below process 1.
ThreeProcesses == {<<0, 1, 1>>, <<0, 1, 2>>, <<0, 3, 1>>}

\* FreeBSD and Mac OS list a process 0, the parent of process 1 and of itself.
WithZero(s) == [p \in DOMAIN s \cup {0} |-> IF p = 0 THEN 0 ELSE s[p]]

\* Four processes in a line, their numbers mixed.
Line == <<0, 4, 1, 3>>

MCSystems == ThreeProcesses \cup {WithZero(s) : s \in ThreeProcesses} \cup {Line}
MCOne == {3}
=============================================================================
