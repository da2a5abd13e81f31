-------------------------------- MODULE Chart --------------------------------
(***************************************************************************)
(* What Keyvis makes of the table keypresses, at each press of the button  *)
(* "Update chart", one after the other: LineChartFactory reads the         *)
(* rows of a range of time, ordered by cluster_begin and app_group, and    *)
(* either plots each of them (SIMPLE) or accumulates them over an hour, a  *)
(* day, a week or a month (ACCUMULATE) before it plots them, one point per *)
(* group and one for all groups.                                           *)
(*                                                                         *)
(* Times are in seconds; the code has them in milliseconds, times a        *)
(* thousand, and every division it does is exact in both.  A series of     *)
(* points is a function from minutes (JFreeChart's Minute) to counts.  The *)
(* SELECT holds its lock until the rows are read, so the table stands      *)
(* still.                                                                  *)
(***************************************************************************)
EXTENDS Integers, FiniteSetsExt, Functions

CONSTANTS Groups,      \* ids of groups
          ClusterSize, \* StorageSqlite::m_clusterSize
          Named,       \* ids that the configuration gives a name
          Tables,      \* tables: functions <<cluster_begin, app_group>> -> count
          Ranges,      \* accumulation ranges of the combo box: HOUR, DAY, WEEK, MONTH
          DataRanges   \* pairs of time stamps, begin and end, of the form

\* A cluster is whole minutes long, and begins at a multiple of its size.  The
\* shortest range is the hour; two minutes would do.
ASSUME ChartAssumption ==
    /\ ClusterSize \in Nat \ {0} /\ ClusterSize % 60 = 0
    /\ Groups \subseteq Int
    /\ \A n \in Ranges : n \in Nat /\ n >= 120
    /\ DataRanges \subseteq Nat \X Nat
    /\ \A t \in Tables :
           /\ IsFiniteSet(DOMAIN t)
           /\ \A r \in DOMAIN t : /\ r \in Nat \X Groups /\ r[1] % ClusterSize = 0
                                  /\ t[r] \in Nat \ {0}

VARIABLES keypresses,           \* the table
          m_groupIdToName,      \* group -> its name, "Unknown", or the one configured
          m_chartType,          \* "SIMPLE" or "ACCUMULATE"
          m_accumulationRange,
          selected,             \* the rows of the SELECT
          unread,               \* those that rs.next() has not reached
          rangeEndCursor,       \* end of the period that is accumulated
          keystrokesMap,        \* group -> keystrokes accumulated
          allGroupsKeystrokes,
          unprocessedData,
          timeSeriesTable,      \* group -> its series
          allGroupsSeries,
          step

resultSet == <<selected, unread>>
accumulators == <<rangeEndCursor, keystrokesMap, allGroupsKeystrokes, unprocessedData>>
series == <<timeSeriesTable, allGroupsSeries>>
settings == <<m_chartType, m_accumulationRange>>
vars == <<keypresses, m_groupIdToName, settings, resultSet, accumulators, series, step>>

-----------------------------------------------------------------------------
(* Rows, points and series                                                 *)

\* cavg, the middle of the cluster.
Middle(row) == row[1] + ClusterSize \div 2

Minute(t) == t \div 60

\* ORDER BY cluster_begin, app_group
Before(r, q) == r[1] < q[1] \/ (r[1] = q[1] /\ r[2] < q[2])
NextRow == CHOOSE r \in unread : \A q \in unread \ {r} : Before(r, q)

\* addOrUpdate: a point at the same minute is replaced.
addOrUpdate(points, t, n) ==
    [m \in DOMAIN points \cup {Minute(t)} |-> IF m = Minute(t) THEN n ELSE points[m]]

\* The end of the period that a time is in.
PeriodEnd(t) == t - (t % m_accumulationRange) + m_accumulationRange

\* The keystrokes of a group that is met for the first time are 0 so far.
Prepared(map, g, value) ==
    [h \in DOMAIN map \cup {g} |-> IF h \in DOMAIN map THEN map[h] ELSE value]

-----------------------------------------------------------------------------

\* The type of the combo box, set before the rest of the form is looked at.
ChooseType == \/ m_chartType' = "SIMPLE" /\ UNCHANGED m_accumulationRange
              \/ m_chartType' = "ACCUMULATE" /\ m_accumulationRange' \in Ranges

\* Slip: the tables of series are members, created once.
MembersStay == UNCHANGED <<accumulators, series>>

\* What a method has of its local variables when it starts.
NewLocals == /\ rangeEndCursor' = 0
             /\ keystrokesMap' = <<>>
             /\ allGroupsKeystrokes' = 0
             /\ unprocessedData' = FALSE
             /\ timeSeriesTable' = <<>>
             /\ allGroupsSeries' = <<>>

\* jButtonUpdateActionPerformed: the combo box and the form, then produceChart.
Update ==
    /\ step \in {"idle", "chart"}
    /\ ChooseType
    /\ \E d \in DataRanges :
           selected' = {r \in DOMAIN keypresses : d[1] <= r[1] /\ r[1] <= d[2]}
    /\ unread' = selected'
    /\ NewLocals
    /\ step' = "query"
    /\ UNCHANGED <<keypresses, m_groupIdToName>>

\* A date of the form is no number: parseInt throws, and Swing goes on with the
\* next event.  The type of the chart is set, and the chart of before is shown.
UpdateBadDate ==
    /\ step \in {"idle", "chart"}
    /\ ChooseType
    /\ selected' = {} /\ unread' = {}
    /\ NewLocals
    /\ step' = "idle"
    /\ UNCHANGED <<keypresses, m_groupIdToName>>

\* The file is none of SQLite's, has no table, or is written to by keyfrog just now:
\* a message, and System.exit(2).
SqlException ==
    /\ step \in {"query", "accumulate"}
    /\ step' = "exit"
    /\ UNCHANGED <<keypresses, m_groupIdToName, settings, resultSet, accumulators, series>>

\* A group that the configuration does not know gets a name when it is met.
NameGroup(g) == m_groupIdToName' = Prepared(m_groupIdToName, g, "Unknown")

\* createSimpleDataset: a row is a point of its group.
ReadSimpleRow ==
    /\ step = "query"
    /\ m_chartType = "SIMPLE"
    /\ unread # {}
    /\ LET g == NextRow[2]
           table == Prepared(timeSeriesTable, g, <<>>)
       IN  timeSeriesTable' =
               [table EXCEPT ![g] = addOrUpdate(@, Middle(NextRow), keypresses[NextRow])]
    /\ NameGroup(NextRow[2])
    /\ unread' = unread \ {NextRow}
    /\ UNCHANGED <<keypresses, settings, selected, accumulators,
                   allGroupsSeries, step>>

\* Slip: the first period ends one range after the first row.
FirstRowUnaligned ==
    /\ step = "query"
    /\ m_chartType = "ACCUMULATE"
    /\ unread # {}
    /\ rangeEndCursor' = NextRow[1] + m_accumulationRange
    /\ step' = "accumulate"
    /\ UNCHANGED <<keypresses, m_groupIdToName, settings, resultSet, keystrokesMap,
                   allGroupsKeystrokes, unprocessedData, series>>

\* Slip: the accumulation range is added twice.
FirstRowLate ==
    /\ step = "query"
    /\ m_chartType = "ACCUMULATE"
    /\ unread # {}
    /\ rangeEndCursor' = PeriodEnd(NextRow[1]) + m_accumulationRange
    /\ step' = "accumulate"
    /\ UNCHANGED <<keypresses, m_groupIdToName, settings, resultSet, keystrokesMap,
                   allGroupsKeystrokes, unprocessedData, series>>

\* createAverageDataset: the first row gives the first period.
FirstRow ==
    /\ step = "query"
    /\ m_chartType = "ACCUMULATE"
    /\ unread # {}
    /\ rangeEndCursor' = PeriodEnd(NextRow[1])
    /\ step' = "accumulate"
    /\ UNCHANGED <<keypresses, m_groupIdToName, settings, resultSet, keystrokesMap,
                   allGroupsKeystrokes, unprocessedData, series>>

\* Where the point of the period that ends at e is.
MiddleOfPeriod(e) == e - m_accumulationRange \div 2

\* Slip: the points of the groups are at the end of the period.
WithPeriodAtEnd(table, keystrokes, e) ==
    [g \in DOMAIN table |-> addOrUpdate(table[g], e - 1, keystrokes[g])]

\* addAccumulatedTimeSeries: a point for every group there is.
WithPeriod(table, keystrokes, e) ==
    [g \in DOMAIN table |-> addOrUpdate(table[g], MiddleOfPeriod(e), keystrokes[g])]

\* Slip: the entries of the map are not set to 0.
NotCleared(keystrokes) == keystrokes

\* Its e.setValue(0).
Cleared(keystrokes) == [g \in DOMAIN keystrokes |-> 0]

\* The tables and the sum with the next row.
SeriesWithRow == Prepared(timeSeriesTable, NextRow[2], <<>>)
KeystrokesWithRow ==
    [Prepared(keystrokesMap, NextRow[2], 0) EXCEPT ![NextRow[2]] = @ + keypresses[NextRow]]
AllWithRow == allGroupsKeystrokes + keypresses[NextRow]

\* One turn of the loop, for a row of the period.
AddRow ==
    /\ step = "accumulate"
    /\ unread # {}
    /\ Middle(NextRow) < rangeEndCursor
    /\ timeSeriesTable' = SeriesWithRow
    /\ keystrokesMap' = KeystrokesWithRow
    /\ allGroupsKeystrokes' = AllWithRow
    /\ unprocessedData' = TRUE
    /\ NameGroup(NextRow[2])
    /\ unread' = unread \ {NextRow}
    /\ UNCHANGED <<keypresses, settings, selected, rangeEndCursor,
                   allGroupsSeries, step>>

\* One turn of the loop, for a row beyond the period: it is added as well, then
\* the period is plotted, with it, and left for the next one.
AddRowAndPlot ==
    /\ step = "accumulate"
    /\ unread # {}
    /\ Middle(NextRow) >= rangeEndCursor
    /\ timeSeriesTable' = WithPeriod(SeriesWithRow, KeystrokesWithRow, rangeEndCursor)
    /\ keystrokesMap' = Cleared(KeystrokesWithRow)
    /\ allGroupsSeries' = addOrUpdate(allGroupsSeries, MiddleOfPeriod(rangeEndCursor), AllWithRow)
    /\ allGroupsKeystrokes' = 0
    /\ rangeEndCursor' = rangeEndCursor + m_accumulationRange
    /\ unprocessedData' = FALSE
    /\ NameGroup(NextRow[2])
    /\ unread' = unread \ {NextRow}
    /\ UNCHANGED <<keypresses, settings, selected, step>>

\* Slip: nothing is plotted after the loop.
LastPeriodForgotten ==
    /\ step = "accumulate"
    /\ unread = {}
    /\ step' = "chart"
    /\ UNCHANGED <<keypresses, m_groupIdToName, settings, resultSet, accumulators, series>>

\* No row is left: what is accumulated is plotted, unless the last row was.
\* addAccumulatedTimeSeries clears the map once more; allGroupsKeystrokes stays.
LastPeriod ==
    /\ step = "accumulate"
    /\ unread = {}
    /\ IF unprocessedData
       THEN /\ timeSeriesTable' = WithPeriod(timeSeriesTable, keystrokesMap, rangeEndCursor)
            /\ allGroupsSeries' =
                   addOrUpdate(allGroupsSeries, MiddleOfPeriod(rangeEndCursor), allGroupsKeystrokes)
            /\ keystrokesMap' = Cleared(keystrokesMap)
       ELSE UNCHANGED <<series, keystrokesMap>>
    /\ step' = "chart"
    /\ UNCHANGED <<keypresses, m_groupIdToName, settings, resultSet, rangeEndCursor,
                   allGroupsKeystrokes, unprocessedData>>

\* No rows, or all of a SIMPLE chart are read.
NoMoreRows ==
    /\ step = "query"
    /\ unread = {}
    /\ step' = "chart"
    /\ UNCHANGED <<keypresses, m_groupIdToName, settings, resultSet, accumulators, series>>

-----------------------------------------------------------------------------

Init == /\ keypresses \in Tables
        /\ m_groupIdToName = [g \in Named |-> "configured"]
        /\ m_chartType = "SIMPLE"
        /\ m_accumulationRange = 86400
        /\ selected = {} /\ unread = {}
        /\ rangeEndCursor = 0
        /\ keystrokesMap = <<>>
        /\ allGroupsKeystrokes = 0
        /\ unprocessedData = FALSE
        /\ timeSeriesTable = <<>>
        /\ allGroupsSeries = <<>>
        /\ step = "idle"

Next == \/ Update \/ UpdateBadDate \/ SqlException
        \/ ReadSimpleRow \/ NoMoreRows
        \/ FirstRow \/ AddRow \/ AddRowAndPlot \/ LastPeriod

Spec == Init /\ [][Next]_vars

-----------------------------------------------------------------------------
(* Properties                                                              *)

Counts(rows) == SumFunctionOnSet(keypresses, rows)
Points(points, minutes) == SumFunctionOnSet(points, minutes)
Read == selected \ unread
RowsOf(rows, g) == {r \in rows : r[2] = g}

\* The two hash tables have the same groups, those of the rows read, and a
\* period ends at a multiple of its length.
TypeOK == /\ selected \subseteq DOMAIN keypresses /\ unread \subseteq selected
          /\ m_chartType \in {"SIMPLE", "ACCUMULATE"}
          /\ DOMAIN timeSeriesTable = {r[2] : r \in Read}
          /\ DOMAIN keystrokesMap = IF m_chartType = "SIMPLE" THEN {}
                                    ELSE DOMAIN timeSeriesTable
          /\ rangeEndCursor % m_accumulationRange = 0
          /\ unprocessedData \in BOOLEAN
          /\ DOMAIN timeSeriesTable \subseteq DOMAIN m_groupIdToName
          /\ step \in {"idle", "query", "accumulate", "chart", "exit"}

\* Every key stroke of the rows read so far is in the chart or accumulated, and
\* once: no point replaces another, no period is plotted twice or left out, and
\* nothing is left of the chart of an earlier press of the button.
Accounted ==
    \A g \in DOMAIN timeSeriesTable :
        LET points == timeSeriesTable[g]
            waiting == IF g \in DOMAIN keystrokesMap THEN keystrokesMap[g] ELSE 0
        IN  Points(points, DOMAIN points) + waiting = Counts(RowsOf(Read, g))

\* A finished chart is complete: each group has all its key strokes.
ChartComplete ==
    step = "chart" =>
        \A g \in DOMAIN timeSeriesTable :
            LET points == timeSeriesTable[g]
            IN  Points(points, DOMAIN points) = Counts(RowsOf(selected, g))

\* At every point the line "all" is the sum of the lines of the groups.
AllIsSum ==
    m_chartType = "ACCUMULATE" =>
        \A m \in DOMAIN allGroupsSeries :
            LET groups == {g \in DOMAIN timeSeriesTable : m \in DOMAIN timeSeriesTable[g]}
            IN  allGroupsSeries[m] = SumFunction([g \in groups |-> timeSeriesTable[g][m]])

\* A key stroke may be plotted in a period before its own, but never in a later
\* one: up to the end of any period the chart has at least what the rows have.
NeverLate ==
    step = "chart" /\ m_chartType = "ACCUMULATE" =>
        \A g \in DOMAIN timeSeriesTable : \A q \in selected :
            LET e == PeriodEnd(Middle(q))
                points == timeSeriesTable[g]
            IN  Points(points, {m \in DOMAIN points : m < Minute(e)})
                    >= Counts({r \in RowsOf(selected, g) : Middle(r) < e})

\* LineChartFactory.java on the end of a period: "Before new accumulation period
\* is started add already collected data to chart".  A point of a finished chart
\* has the key strokes of its own period.
OwnPeriod ==
    step = "chart" /\ m_chartType = "ACCUMULATE" =>
        \A g \in DOMAIN timeSeriesTable : \A m \in DOMAIN timeSeriesTable[g] :
            timeSeriesTable[g][m] =
                Counts({r \in RowsOf(selected, g) : PeriodEnd(Middle(r)) = PeriodEnd(60 * m)})
=============================================================================
