---------------------------- MODULE StorageLedger ----------------------------
(***************************************************************************)
(* What the storage of keyfrog promises, whatever happens to the process   *)
(* and to the file: a ledger of at-most-once accounting.  A key press      *)
(* belongs to one row; it is counted in that row once, or it is lost, and  *)
(* what was counted once stays counted.                                    *)
(***************************************************************************)
EXTENDS Integers

CONSTANT Rows       \* <<cluster_begin, app_group>>

VARIABLES pressed,  \* row -> key presses that belong to it
          stored,   \* row -> key presses counted in the data base
          lost      \* row -> key presses that no longer can be

ledgerVars == <<pressed, stored, lost>>

Open(row) == pressed[row] - stored[row] - lost[row]

Init == /\ pressed = [row \in Rows |-> 0]
        /\ stored = [row \in Rows |-> 0]
        /\ lost = [row \in Rows |-> 0]

Press(row) == /\ pressed' = [pressed EXCEPT ![row] = @ + 1]
              /\ UNCHANGED <<stored, lost>>

\* Presses that are still open reach their row, several at a time.
Store(row) == /\ \E n \in 1..Open(row) : stored' = [stored EXCEPT ![row] = @ + n]
              /\ UNCHANGED <<pressed, lost>>

\* Presses that are still open are given up, in any number of rows at once.
Lose == /\ lost' \in [Rows -> Nat]
        /\ \A row \in Rows : /\ lost'[row] >= lost[row]
                             /\ lost'[row] <= pressed[row] - stored[row]
        /\ UNCHANGED <<pressed, stored>>

Next == \/ \E row \in Rows : Press(row) \/ Store(row)
        \/ Lose

Spec == Init /\ [][Next]_ledgerVars
=============================================================================
