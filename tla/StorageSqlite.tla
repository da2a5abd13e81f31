---------------------------- MODULE StorageSqlite ----------------------------
(***************************************************************************)
(* The SQLite backend of keyfrog (StorageSqlite.cpp): one table            *)
(*                                                                         *)
(*   keypresses(id, cluster_begin, cluster_end, count, app_group)          *)
(*                                                                         *)
(* with a unique index on (cluster_begin, app_group).  id and cluster_end  *)
(* are left out: the first is never read, the second is                    *)
(* cluster_begin + m_clusterSize.  Every count that is written is at least *)
(* 1, so the count 0 stands for a row that is not in the table.            *)
(*                                                                         *)
(* Keyvis reads the same file from another process.  Its SHARED lock makes *)
(* each statement that has to change the file end with SQLITE_BUSY (no     *)
(* busy handler is installed).                                             *)
(***************************************************************************)
EXTENDS Integers

CONSTANTS Groups,   \* ids of the configured groups
          Times     \* the time(NULL) values at which keys are pressed

\* -1 is the "no group" id of EventFilter, which Daemon::run never stores.
ASSUME GroupsAssumption == Groups \subseteq Int \ {-1}
ASSUME TimesAssumption  == Times \subseteq Nat

VARIABLES keypresses,    \* the table: row -> count
          connected,     \* connect() prepared the statements
          chartReading   \* Keyvis has a SELECT open on the file

storageVars == <<keypresses, connected, chartReading>>

\* Fifteen minutes, in seconds.
m_clusterSize == 15 * 60

\* The start of the cluster of time that a time stamp is in.
getClusterStart(timestamp) == timestamp - (timestamp % m_clusterSize)

Clusters == {getClusterStart(t) : t \in Times}

\* The columns of the unique index.
Rows == Clusters \X Groups

RowExists(row) == keypresses[row] > 0

NoRows == [row \in Rows |-> 0]

-----------------------------------------------------------------------------

\* addKeyPress(timestamp, app_group, count), the row its statements address.
AddressedRow(timestamp, app_group) == <<getClusterStart(timestamp), app_group>>

\* sqlite3_step of the UPDATE is SQLITE_DONE and changes a row.
UpdateDone(row) == connected /\ RowExists(row) /\ ~chartReading

\* sqlite3_step of the INSERT is SQLITE_DONE: the unique index has no such
\* row, and nobody reads.
InsertDone(row) == connected /\ ~RowExists(row) /\ ~chartReading

\* Either statement, when it is SQLITE_DONE, adds count to the row.
AddToRow(row, count) == keypresses' = [keypresses EXCEPT ![row] = @ + count]

\* connect(): the caller ignores the result, so a failure only leaves the
\* statements unprepared.
Connect == connected' \in BOOLEAN

\* LineChartFactory: executeQuery ... conn.close(), in the process of Keyvis.
OpenChart  == ~chartReading /\ chartReading' = TRUE
CloseChart == chartReading /\ chartReading' = FALSE
=============================================================================
