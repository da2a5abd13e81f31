---------------------------- MODULE StorageSchema ----------------------------
(***************************************************************************)
(* StorageSqlite with the details that module StorageSqlite leaves out.    *)
(*                                                                         *)
(* The schema: initDatabase executes CREATE TABLE and CREATE UNIQUE INDEX  *)
(* in one call of sqlite3_exec; each is committed for itself, and the      *)
(* first one that fails ends the call.  On every start but the first the   *)
(* CREATE TABLE fails, because there is a table, and that error is let     *)
(* pass.  So the index may be missing, and the table is a sequence of      *)
(* rows here, several of them for the same cluster perhaps.                *)
(*                                                                         *)
(* The time: time(NULL) is narrowed to an int, and the remainder of C      *)
(* truncates toward zero.  The int is scaled down: its range is            *)
(* -IntMax - 1 .. IntMax, and like 2^31 for 15 minutes its size is no      *)
(* multiple of a cluster.                                                  *)
(*                                                                         *)
(* There is one group, and every count is 1.                               *)
(***************************************************************************)
EXTENDS Integers, SequencesExt

CONSTANTS IntMax,         \* the greatest int
          m_clusterSize,  \* in seconds
          Clock,          \* what time(NULL) returns when a key is pressed, 1901 to 2106
          MaxPresses,     \* bound: key presses
          MaxKills,       \* bound: times the process is killed
          MaxCharts       \* bound: charts that Keyvis draws

ASSUME IntAssumption == /\ IntMax \in Nat /\ m_clusterSize \in 1..IntMax
                        /\ (IntMax + 1) % m_clusterSize # 0
                        /\ Clock \subseteq -IntMax - 1 .. 2 * IntMax + 1
ASSUME BoundsAssumption == MaxPresses \in Nat /\ MaxKills \in Nat /\ MaxCharts \in Nat

VARIABLES table,         \* the table exists
          index,         \* the unique index exists
          rows,          \* the table: cluster_begin, cluster_end and count of each row
          step,          \* of the process
          insertTime,    \* the time stamp of the INSERT that is next
          chartReading,  \* Keyvis has the file locked
          pressed,       \* history: time(NULL) -> key presses given to addKeyPress
          lost,          \* history: time stamp -> those that it returned false for
          kills,         \* how often the process was killed
          charts         \* how many charts were drawn

fileVars == <<table, index, rows>>
historyVars == <<pressed, lost, kills, charts>>
vars == <<fileVars, step, insertTime, chartReading, historyVars>>

-----------------------------------------------------------------------------
(* Time stamps                                                             *)

Ints == -IntMax - 1 .. IntMax

\* A conversion to int, and an addition that overflows.
ToInt(n) == ((n + IntMax + 1) % (2 * (IntMax + 1))) - IntMax - 1

\* The remainder of C has the sign of the dividend.
Remainder(a, b) == IF a >= 0 THEN a % b ELSE -((-a) % b)

\* Slip: a cluster is named after its middle.
ClusterMiddle(timestamp) ==
    timestamp - Remainder(timestamp, m_clusterSize) + m_clusterSize \div 2

getClusterStart(timestamp) == timestamp - Remainder(timestamp, m_clusterSize)

\* What the commiter gives to addKeyPress: the time narrowed to the parameter of
\* StorageManager::addKeyPress, and the cluster of its key.
CachedTime(time) == getClusterStart(ToInt(time))

NewRow(timestamp, n) ==
    [cluster_begin |-> getClusterStart(timestamp),
     cluster_end |-> ToInt(getClusterStart(timestamp) + m_clusterSize),
     count |-> n]

SameCluster(row, timestamp) == row.cluster_begin = getClusterStart(timestamp)

RowExists(timestamp) == \E i \in DOMAIN rows : SameCluster(rows[i], timestamp)

-----------------------------------------------------------------------------
(* connect                                                                 *)

\* The first statement of the script.  The error "table already exists" ends the
\* script and nothing else.
CreateTable ==
    /\ step = "createTable"
    /\ IF table THEN step' = "prepare" /\ UNCHANGED table
                ELSE step' = "createIndex" /\ table' = TRUE
    /\ UNCHANGED <<index, rows, insertTime, chartReading, historyVars>>

\* The second statement, unless it is SQLITE_BUSY.
CreateIndex ==
    /\ step = "createIndex"
    /\ index' = ~chartReading
    /\ step' = "prepare"
    /\ UNCHANGED <<table, rows, insertTime, chartReading, historyVars>>

\* prepareStatements: there is a table by now, whoever made it.
PrepareStatements ==
    /\ step = "prepare"
    /\ step' = "ready"
    /\ UNCHANGED <<fileVars, insertTime, chartReading, historyVars>>

-----------------------------------------------------------------------------
(* addKeyPress                                                             *)

CountOneMore(timestamp) ==
    rows' = [i \in DOMAIN rows |-> IF SameCluster(rows[i], timestamp)
                                  THEN [rows[i] EXCEPT !.count = @ + 1] ELSE rows[i]]

\* Slip: the INSERT is tried after every UPDATE.
UpdateAndInsert(time) ==
    /\ step = "ready"
    /\ SumFunction(pressed) < MaxPresses
    /\ pressed' = [pressed EXCEPT ![time] = @ + 1]
    /\ CountOneMore(CachedTime(time))
    /\ insertTime' = CachedTime(time)
    /\ step' = "insert"
    /\ UNCHANGED <<table, index, chartReading, lost, kills, charts>>

\* The UPDATE changes every row of the cluster, unless it is SQLITE_BUSY; if it
\* changes none, the INSERT is next.
Update(time) ==
    /\ step = "ready"
    /\ SumFunction(pressed) < MaxPresses
    /\ pressed' = [pressed EXCEPT ![time] = @ + 1]
    /\ IF ~chartReading /\ RowExists(CachedTime(time))
       THEN CountOneMore(CachedTime(time)) /\ UNCHANGED <<step, insertTime>>
       ELSE step' = "insert" /\ insertTime' = CachedTime(time) /\ UNCHANGED rows
    /\ UNCHANGED <<table, index, chartReading, lost, kills, charts>>

CanInsert == ~chartReading /\ ~(index /\ RowExists(insertTime))

\* Slip: the INSERT makes a row for the UPDATE to count in.
InsertEmpty ==
    /\ step = "insert"
    /\ IF CanInsert
       THEN rows' = Append(rows, NewRow(insertTime, 0)) /\ UNCHANGED lost
       ELSE lost' = [lost EXCEPT ![insertTime] = @ + 1] /\ UNCHANGED rows
    /\ step' = "ready"
    /\ UNCHANGED <<table, index, insertTime, chartReading, pressed, kills, charts>>

\* The INSERT makes a row, unless the unique index has its cluster already.
Insert ==
    /\ step = "insert"
    /\ IF CanInsert
       THEN rows' = Append(rows, NewRow(insertTime, 1)) /\ UNCHANGED lost
       ELSE lost' = [lost EXCEPT ![insertTime] = @ + 1] /\ UNCHANGED rows
    /\ step' = "ready"
    /\ UNCHANGED <<table, index, insertTime, chartReading, pressed, kills, charts>>

-----------------------------------------------------------------------------

\* The process is killed between two statements.  A press between its UPDATE and
\* its INSERT is lost with it.
Kill ==
    /\ kills < MaxKills
    /\ step # "off"
    /\ kills' = kills + 1
    /\ lost' = IF step = "insert" THEN [lost EXCEPT ![insertTime] = @ + 1] ELSE lost
    /\ step' = "off"
    /\ UNCHANGED <<fileVars, insertTime, chartReading, pressed, charts>>

Start ==
    /\ step = "off"
    /\ step' = "createTable"
    /\ UNCHANGED <<fileVars, insertTime, chartReading, historyVars>>

OpenChart ==
    /\ ~chartReading
    /\ charts < MaxCharts
    /\ table
    /\ chartReading' = TRUE
    /\ charts' = charts + 1
    /\ UNCHANGED <<fileVars, step, insertTime, pressed, lost, kills>>

CloseChart ==
    /\ chartReading
    /\ chartReading' = FALSE
    /\ UNCHANGED <<fileVars, step, insertTime, historyVars>>

Init == /\ table = FALSE /\ index = FALSE /\ rows = <<>>
        /\ step = "off"
        /\ insertTime = 0
        /\ chartReading = FALSE
        /\ pressed = [t \in Clock |-> 0]
        /\ lost = [t \in Ints |-> 0]
        /\ kills = 0 /\ charts = 0

Next == \/ Start \/ CreateTable \/ CreateIndex \/ PrepareStatements
        \/ \E time \in Clock : Update(time)
        \/ Insert
        \/ Kill
        \/ OpenChart \/ CloseChart

Spec == Init /\ [][Next]_vars

-----------------------------------------------------------------------------
(* Properties                                                              *)

TypeOK == /\ table \in BOOLEAN /\ index \in BOOLEAN
          /\ rows \in Seq([cluster_begin : Ints, cluster_end : Ints, count : 1..MaxPresses])
          /\ step \in {"off", "createTable", "createIndex", "prepare", "ready", "insert"}
          /\ insertTime \in Ints
          /\ chartReading \in BOOLEAN
          /\ pressed \in [Clock -> 0..MaxPresses]
          /\ lost \in [Ints -> 0..MaxPresses]
          /\ kills \in 0..MaxKills /\ charts \in 0..MaxCharts

\* Presses that begin is the row of and that no row counts.
Missing(begin) == lost[begin] + (IF step = "insert" /\ insertTime = begin THEN 1 ELSE 0)

CountedIn(begin) == SumFunction([i \in DOMAIN rows |->
                                    IF rows[i].cluster_begin = begin THEN rows[i].count ELSE 0])

\* The key presses in the 15 minutes from begin on, by the clock and not by the ints
\* that the program makes of it, and those at times that it has no quarter for.
PressedIn(begin) ==
    SumFunctionOnSet(pressed, {t \in Clock : begin <= t /\ t < begin + m_clusterSize /\ t <= IntMax})
Strays == {t \in Clock : pressed[t] > 0 /\ ~(0 <= t /\ t <= IntMax)}

UniqueClusters ==
    \A i, j \in DOMAIN rows : i # j => rows[i].cluster_begin # rows[j].cluster_begin

Open == IF step = "insert" THEN 1 ELSE 0

\* Why the index is right once it is there: it is made for an empty table, in the
\* same call as that, and before there was a key press.
RowRecords == [cluster_begin : Ints, cluster_end : Ints, count : Nat]
SchemaInv == /\ rows \in Seq(RowRecords)
             /\ \A i \in DOMAIN rows :
                    rows[i].cluster_end = ToInt(rows[i].cluster_begin + m_clusterSize)
             /\ insertTime \in Ints /\ getClusterStart(insertTime) = insertTime
             /\ ~table => step \in {"off", "createTable"} /\ ~index
             /\ ~table \/ step = "createIndex" =>
                    rows = <<>> /\ SumFunction(pressed) = 0 /\ SumFunction(lost) = 0
             /\ index => UniqueClusters

\* Each press changes the count of a row by one, or is under way or lost.
CountsInv == /\ pressed \in [Clock -> Nat] /\ SumFunction(pressed) <= MaxPresses
             /\ lost \in [Ints -> Nat] /\ SumFunction(lost) + Open <= SumFunction(pressed)
             /\ \A i \in DOMAIN rows : /\ rows[i].count > 0
                                       /\ rows[i].count + Open <= SumFunction(pressed)

\* A press is counted twice only in a data base without the unique index, and
\* there for good: with the index, what is stored and lost are the presses.
IndexKeepsCount ==
    index => /\ UniqueClusters
             /\ SumFunction([i \in DOMAIN rows |-> rows[i].count]) + SumFunction(lost) + Open
                    = SumFunction(pressed)

\* The row of a quarter of an hour has the presses of these 15 minutes by the clock,
\* although a time is narrowed to an int and rounded twice, first for the key of the
\* cache and then for the row.  Presses from before 1970 and from after the last int
\* come to no row of another quarter but the first one of all, which is on both sides
\* of 1970.  A row ends where the next one begins, unless that is past the last int.
QuarterCounts ==
    index => /\ \A n \in 0..IntMax :
                    LET begin == n - (n % m_clusterSize)
                        kept == CountedIn(begin) + Missing(begin)
                    IN  /\ kept >= PressedIn(begin)
                        /\ begin > 0 \/ Strays = {} => kept = PressedIn(begin)
             /\ \A i \in DOMAIN rows :
                    LET row == rows[i] IN
                    row.cluster_end = row.cluster_begin + m_clusterSize
                        \/ row.cluster_begin + m_clusterSize > IntMax
=============================================================================
