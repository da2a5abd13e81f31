------------------------------- MODULE MCChart -------------------------------
(* Instances of Chart for TLC.                                             *)
EXTENDS Chart, TLC

\* Two clusters at the two ends of an hour, the first of the next hour, and one
\* after a gap of hours and one after a gap of days.
Begins == {900, 2700, 3600, 14400, 259200}
Subsets == SUBSET (Begins \X Groups)

\* The rows of the groups have different counts.
MCTables == {[r \in rows |-> IF r[2] = 1 THEN 1 ELSE 3] : rows \in Subsets}
MCRanges == {3600, 86400}
MCDataRanges == {<<0, 300000>>, <<2700, 259199>>}

\* One row today and one tomorrow.
MCOneTable == {(<<900, 1>> :> 2) @@ (<<86400, 1>> :> 5)}
MCDay == {86400}
=============================================================================
