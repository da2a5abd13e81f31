---------------------------- MODULE Chart_proofs ----------------------------
(***************************************************************************)
(* Proofs about Chart, for every table, every size of the clusters, every  *)
(* range, and one press of the button after the other: a chart has each    *)
(* key stroke of the rows once, its line "all" is the sum of the others,   *)
(* and no key stroke is plotted after the period it belongs to.            *)
(***************************************************************************)
EXTENDS Chart, Sums_proofs

-----------------------------------------------------------------------------
(* Times                                                                   *)

LEMMA NextMultiple ==
    ASSUME NEW a \in Nat, NEW r \in Nat \ {0}, a % r = 0
    PROVE  (a + r) % r = 0
<1> DEFINE k == a \div r
<1>1. k \in Int /\ a = r * k
  OBVIOUS
<1>2. a + r = r * (k + 1) /\ k + 1 \in Int
  BY <1>1
<1> HIDE DEF k
<1> DEFINE j == k + 1
           b == a + r
<1>3. b = r * j /\ j \in Int
  BY <1>2
<1> HIDE DEF j, b
<1>4. b % r = 0
  BY <1>3
<1> QED BY <1>4 DEF b

LEMMA MultiplesApart ==
    ASSUME NEW a \in Nat, NEW b \in Nat, NEW r \in Nat \ {0},
           a % r = 0, b % r = 0, a < b
    PROVE  a + r <= b
<1> DEFINE k == a \div r
           j == b \div r
<1>1. k \in Int /\ a = r * k
  OBVIOUS
<1>2. j \in Int /\ b = r * j
  OBVIOUS
<1> HIDE DEF j, k
<1>3. k < j
  <2> SUFFICES ASSUME j <= k PROVE FALSE
    BY <1>1, <1>2
  <2>1. r * j <= r * k
    BY <1>1, <1>2
  <2> QED BY <2>1, <1>1, <1>2
<1>4. r * (k + 1) <= r * j
  BY <1>1, <1>2, <1>3
<1>5. r * (k + 1) = r * k + r
  BY <1>1
<1> QED BY <1>1, <1>2, <1>4, <1>5

LEMMA MultipleOfMultiple ==
    ASSUME NEW a \in Nat, NEW c \in Nat \ {0}, c % 60 = 0, a % c = 0
    PROVE  a % 60 = 0
<1>1. PICK k \in Nat : c = 60 * k
  OBVIOUS
<1>2. PICK j \in Nat : a = c * j
  OBVIOUS
<1>3. a = 60 * (k * j)
  BY <1>1, <1>2
<1>4. k * j \in Nat
  OBVIOUS
<1> HIDE <1>1, <1>2
<1> QED BY <1>3, <1>4

LEMMA RoundedUp ==
    ASSUME NEW t \in Nat, NEW r \in Nat \ {0}
    PROVE  /\ t % r \in Nat /\ t % r < r /\ t % r <= t
           /\ (t - (t % r) + r) % r = 0
<1>1. t % r \in Nat /\ t % r < r /\ t % r <= t
  OBVIOUS
<1>2. (t - (t % r) + r) % r = 0
  OBVIOUS
<1> QED BY <1>1, <1>2

LEMMA ZeroIsMultiple ==
    ASSUME NEW r \in Nat \ {0}
    PROVE  0 % r = 0
OBVIOUS

\* The ends of periods.
Ends == {e \in Nat : e % m_accumulationRange = 0}

LEMMA EndOfPeriod ==
    ASSUME m_accumulationRange \in Nat, m_accumulationRange >= 120, NEW t \in Nat
    PROVE  /\ PeriodEnd(t) \in Ends
           /\ t < PeriodEnd(t)
           /\ PeriodEnd(t) - m_accumulationRange <= t
           /\ m_accumulationRange <= PeriodEnd(t)
<1> DEFINE r == m_accumulationRange
<1>1. /\ r \in Nat \ {0}
      /\ PeriodEnd(t) = t - (t % r) + r
  BY DEF PeriodEnd
<1> HIDE DEF r
<1>2. t % r \in Nat /\ t % r < r /\ t % r <= t
  BY <1>1, RoundedUp
<1>3. PeriodEnd(t) % r = 0
  BY <1>1, RoundedUp
<1> QED BY <1>1, <1>2, <1>3 DEF Ends, r

\* Where the point of a period is, from one end to the other.
PointOf(e) == Minute(MiddleOfPeriod(e))

LEMMA PointOfPeriod ==
    ASSUME m_accumulationRange \in Nat, m_accumulationRange >= 120,
           NEW c \in Ends, m_accumulationRange <= c
    PROVE  /\ PointOf(c) \in Int
           /\ PointOf(c) < Minute(c)
           /\ PointOf(c) < PointOf(c + m_accumulationRange)
           /\ c + m_accumulationRange \in Ends
           /\ \A e \in Ends : e < c => Minute(e) <= PointOf(c)
           /\ \A e \in Ends : e >= c => PointOf(c) < Minute(e)
<1> DEFINE r == m_accumulationRange
           h == r \div 2
<1>1. c \in Nat /\ c % r = 0 /\ r \in Nat \ {0}
  BY DEF Ends
<1>2. h \in Nat /\ h >= 60 /\ h <= r
  OBVIOUS
<1>3. (c + r) % r = 0
  BY <1>1, NextMultiple
<1>4. \A e \in Ends : e < c => e + r <= c
  BY <1>1, MultiplesApart DEF Ends
<1>5. \A e \in Ends : e \in Nat
  BY DEF Ends
<1>6. PointOf(c) = (c - h) \div 60 /\ PointOf(c + r) = ((c + r) - h) \div 60
  BY <1>1, <1>2 DEF PointOf, Minute, MiddleOfPeriod
<1>7. c + r \in Ends
  BY <1>1, <1>3 DEF Ends
<1> HIDE DEF r, h
<1>8. (c - h) \div 60 \in Int /\ (c - h) \div 60 < c \div 60
  BY <1>1, <1>2
<1>9. r >= 120
  BY DEF r
<1>10. (c - h) \div 60 < ((c + r) - h) \div 60
  BY <1>1, <1>2, <1>9
<1>11. ASSUME NEW e \in Ends, e < c
       PROVE  Minute(e) <= PointOf(c)
  <2>1. e \in Nat /\ e + r <= c
    BY <1>4, <1>5, <1>11
  <2>2. e <= c - h
    BY <2>1, <1>1, <1>2
  <2>3. e \div 60 <= (c - h) \div 60
    BY <2>1, <2>2, <1>1, <1>2
  <2> QED BY <2>3, <1>6 DEF Minute
<1>12. ASSUME NEW e \in Ends, e >= c
       PROVE  PointOf(c) < Minute(e)
  <2>1. e \in Nat /\ c - h <= e - 60
    BY <1>1, <1>2, <1>5, <1>12
  <2>2. (c - h) \div 60 < e \div 60
    BY <2>1, <1>1, <1>2
  <2> QED BY <2>2, <1>6 DEF Minute
<1> QED BY <1>6, <1>7, <1>8, <1>10, <1>11, <1>12 DEF Minute, r

\* Clusters have minutes of their own.
LEMMA ClustersApart ==
    ASSUME NEW a \in Nat, a % ClusterSize = 0,
           NEW b \in Nat, b % ClusterSize = 0,
           a # b
    PROVE  (a + ClusterSize \div 2) \div 60 # (b + ClusterSize \div 2) \div 60
<1>1. a % 60 = 0 /\ b % 60 = 0
  BY ChartAssumption, MultipleOfMultiple
<1> DEFINE h == ClusterSize \div 2
<1>2. h \in Nat
  BY ChartAssumption
<1> HIDE DEF h
<1>3. (a + h) \div 60 # (b + h) \div 60
  BY <1>1, <1>2
<1> QED BY <1>3 DEF h

-----------------------------------------------------------------------------
(* Series                                                                  *)

IsSeries(points) == /\ IsFiniteSet(DOMAIN points)
                    /\ DOMAIN points \subseteq Int
                    /\ \A m \in DOMAIN points : points[m] \in Nat

Total(points) == Points(points, DOMAIN points)
Under(points, minute) == {m \in DOMAIN points : m < minute}
Until(points, e) == Points(points, Under(points, Minute(e)))

LEMMA NoPoints == IsSeries(<<>>) /\ DOMAIN <<>> = {} /\ Total(<<>>) = 0
<1>1. DOMAIN <<>> = {}
  OBVIOUS
<1> QED BY <1>1, SumOfNone, FS_EmptySet DEF IsSeries, Total, Points

LEMMA SeriesUnder ==
    ASSUME NEW points, IsSeries(points), NEW minute \in Int
    PROVE  /\ Points(points, Under(points, minute)) \in Nat
           /\ (\A m \in DOMAIN points : m < minute)
                 => Points(points, Under(points, minute)) = Total(points)
           /\ Total(points) \in Nat
<1>1. Under(points, minute) \subseteq DOMAIN points
  BY DEF Under
<1>2. IsFiniteSet(Under(points, minute))
  BY <1>1, FS_Subset DEF IsSeries
<1>3. \A m \in Under(points, minute) : points[m] \in Nat
  BY <1>1 DEF IsSeries
<1>4. Points(points, Under(points, minute)) \in Nat
  BY <1>2, <1>3, SumOfNats DEF Points
<1>5. Total(points) \in Nat
  BY SumOfNats DEF Points, Total, IsSeries
<1>6. (\A m \in DOMAIN points : m < minute) => Under(points, minute) = DOMAIN points
  BY DEF Under
<1> QED BY <1>4, <1>5, <1>6 DEF Total

\* A point at a new minute.
LEMMA PointAdded ==
    ASSUME NEW points, IsSeries(points), NEW t, Minute(t) \in Int,
           Minute(t) \notin DOMAIN points, NEW n \in Nat
    PROVE  LET longer == addOrUpdate(points, t, n)
           IN  /\ IsSeries(longer)
               /\ DOMAIN longer = DOMAIN points \cup {Minute(t)}
               /\ longer[Minute(t)] = n
               /\ \A m \in DOMAIN points : longer[m] = points[m]
               /\ Total(longer) = Total(points) + n
               /\ \A b \in Int : b <= Minute(t) =>
                      Points(longer, Under(longer, b)) = Points(points, Under(points, b))
<1> DEFINE k == Minute(t)
           longer == addOrUpdate(points, t, n)
<1>1. /\ DOMAIN longer = DOMAIN points \cup {k}
      /\ longer[k] = n
      /\ \A m \in DOMAIN points : longer[m] = points[m]
  BY DEF addOrUpdate
<1>2. IsFiniteSet(DOMAIN longer)
  BY <1>1, FS_AddElement DEF IsSeries
<1> HIDE DEF longer
<1>3. IsSeries(longer)
  BY <1>1, <1>2 DEF IsSeries
<1>4. \A m \in DOMAIN points : points[m] \in Int
  BY DEF IsSeries
<1>5. Total(longer) = Total(points) + n
  <2>1. \A m \in DOMAIN points \cup {k} : longer[m] \in Int
    BY <1>1, <1>3 DEF IsSeries
  <2>2. SumFunctionOnSet(longer, DOMAIN points \cup {k})
           = SumFunctionOnSet(longer, DOMAIN points) + longer[k]
    BY <2>1, SumWithOneMore DEF IsSeries
  <2>3. SumFunctionOnSet(longer, DOMAIN points) = SumFunctionOnSet(points, DOMAIN points)
    BY <1>1, <1>4, SumOfSame DEF IsSeries
  <2> QED BY <2>2, <2>3, <1>1 DEF Total, Points
<1>6. ASSUME NEW b \in Int, b <= k
      PROVE  Points(longer, Under(longer, b)) = Points(points, Under(points, b))
  <2>1. Under(longer, b) = Under(points, b)
    BY <1>1, <1>6 DEF Under
  <2>2. Under(points, b) \subseteq DOMAIN points
    BY DEF Under
  <2>3. IsFiniteSet(Under(points, b))
    BY <2>2, FS_Subset DEF IsSeries
  <2>4. SumFunctionOnSet(longer, Under(points, b)) = SumFunctionOnSet(points, Under(points, b))
    BY <2>2, <2>3, <1>1, <1>4, SumOfSame
  <2> QED BY <2>1, <2>4 DEF Points
<1> QED BY <1>1, <1>3, <1>5, <1>6 DEF longer

\* The point of a period, for a group that has one or for one that is not there.
Plotted(longer, points, n, e) ==
    \/ longer = addOrUpdate(points, MiddleOfPeriod(e), n)
    \/ longer = points /\ n = 0

LEMMA PeriodPlotted ==
    ASSUME m_accumulationRange \in Nat, m_accumulationRange >= 120,
           NEW c \in Ends, m_accumulationRange <= c,
           NEW points, IsSeries(points), \A m \in DOMAIN points : m < PointOf(c),
           NEW n \in Nat, NEW longer, Plotted(longer, points, n, c)
    PROVE  /\ IsSeries(longer)
           /\ Total(longer) = Total(points) + n
           /\ DOMAIN longer \subseteq DOMAIN points \cup {PointOf(c)}
           /\ \A m \in DOMAIN longer : m < PointOf(c + m_accumulationRange)
           /\ \A e \in Ends : e < c => Until(longer, e) = Until(points, e)
           /\ \A e \in Ends : e >= c => Until(longer, e) = Total(longer)
<1> DEFINE k == PointOf(c)
           next == PointOf(c + m_accumulationRange)
<1>1. /\ k \in Int /\ k < Minute(c) /\ k < next
      /\ \A e \in Ends : e < c => Minute(e) <= k
      /\ \A e \in Ends : e >= c => k < Minute(e)
  BY PointOfPeriod
<1>2. \A e \in Ends : Minute(e) \in Int
  BY DEF Ends, Minute
<1>3. k \notin DOMAIN points
  BY <1>1
<1>4. next \in Int
  <2>1. c + m_accumulationRange \in Ends /\ m_accumulationRange <= c + m_accumulationRange
    BY PointOfPeriod DEF Ends
  <2> QED BY <2>1, PointOfPeriod
<1>5. \A m \in DOMAIN points : m \in Int /\ m < k
  BY DEF IsSeries
<1> HIDE DEF k, next
<1>6. /\ IsSeries(longer)
      /\ Total(longer) = Total(points) + n
      /\ DOMAIN longer \subseteq DOMAIN points \cup {k}
      /\ \A e \in Ends : e < c => Until(longer, e) = Until(points, e)
  <2>1. CASE longer = points /\ n = 0
    <3>1. Total(points) \in Nat
      BY <1>1, SeriesUnder
    <3> QED BY <2>1, <3>1
  <2>2. CASE longer = addOrUpdate(points, MiddleOfPeriod(c), n)
    <3>1. Minute(MiddleOfPeriod(c)) = k
      BY DEF k, PointOf
    <3>2. /\ IsSeries(longer)
          /\ DOMAIN longer = DOMAIN points \cup {k}
          /\ Total(longer) = Total(points) + n
          /\ \A b \in Int : b <= k =>
                 Points(longer, Under(longer, b)) = Points(points, Under(points, b))
      BY <2>2, <3>1, <1>1, <1>3, PointAdded
    <3>3. \A e \in Ends : e < c => Until(longer, e) = Until(points, e)
      BY <3>2, <1>1, <1>2 DEF Until
    <3> QED BY <3>2, <3>3
  <2> QED BY <2>1, <2>2 DEF Plotted
<1>7. \A m \in DOMAIN longer : m \in Int /\ m <= k
  BY <1>1, <1>5, <1>6
<1>8. \A m \in DOMAIN longer : m < next
  BY <1>1, <1>4, <1>7
<1>9. ASSUME NEW e \in Ends, e >= c
      PROVE  Until(longer, e) = Total(longer)
  <2>1. \A m \in DOMAIN longer : m < Minute(e)
    BY <1>1, <1>2, <1>7, <1>9
  <2> QED BY <1>2, <1>6, <2>1, SeriesUnder DEF Until
<1> QED BY <1>6, <1>8, <1>9 DEF k, next

-----------------------------------------------------------------------------
(* Rows                                                                    *)

\* rs.next() gives a row of the earliest cluster that is left.
LEMMA FirstOfRows ==
    ASSUME NEW T, IsFiniteSet(T), T \subseteq Nat \X Int, T # {}
    PROVE  \E r \in T : \A q \in T \ {r} : Before(r, q)
<1> DEFINE F == {s \in SUBSET T : s = {} \/ \E r \in s : \A q \in s \ {r} : Before(r, q)}
<1>1. {} \in F
  OBVIOUS
<1>2. ASSUME NEW s \in SUBSET T, NEW x \in T \ s, s \in F
      PROVE  s \cup {x} \in F
  <2>1. CASE s = {}
    BY <2>1
  <2>2. CASE s # {}
    <3>1. PICK r \in s : \A q \in s \ {r} : Before(r, q)
      BY <1>2, <2>2
    <3>2. /\ r \in Nat \X Int /\ x \in Nat \X Int /\ r # x
          /\ r = <<r[1], r[2]>> /\ x = <<x[1], x[2]>>
      BY <1>2
    <3>3. Before(r, x) \/ Before(x, r)
      BY <3>2 DEF Before
    <3>4. CASE Before(r, x)
      BY <3>1, <3>4
    <3>5. CASE Before(x, r)
      <4>1. \A q \in s : q \in Nat \X Int
        BY <1>2
      <4>2. \A q \in s : Before(x, q)
        BY <3>1, <3>2, <3>5, <4>1 DEF Before
      <4>3. \A q \in (s \cup {x}) \ {x} : Before(x, q)
        BY <4>2
      <4> QED BY <4>3
    <3> QED BY <3>3, <3>4, <3>5
  <2> QED BY <2>1, <2>2
<1> HIDE DEF F
<1>3. SUBSET T \subseteq F
  BY <1>1, <1>2, SetOfSubsets
<1>4. T \in F
  BY <1>3
<1> QED BY <1>4 DEF F

LEMMA NextRowIsFirst ==
    ASSUME IsFiniteSet(unread), unread \subseteq Nat \X Int, unread # {}
    PROVE  /\ NextRow \in unread
           /\ \A q \in unread : NextRow[1] <= q[1]
<1>1. /\ NextRow \in unread
      /\ \A q \in unread \ {NextRow} : Before(NextRow, q)
  BY FirstOfRows DEF NextRow
<1>2. \A q \in unread : q[1] \in Nat
  OBVIOUS
<1> QED BY <1>1, <1>2 DEF Before

\* What the rows have of one group, before a time.
Typed(rows, e) == Counts({r \in rows : Middle(r) < e})

LEMMA RowsOfTable ==
    ASSUME keypresses \in Tables, NEW rows, rows \subseteq DOMAIN keypresses
    PROVE  /\ IsFiniteSet(rows)
           /\ rows \subseteq Nat \X Int
           /\ \A r \in rows : /\ r \in Nat \X Groups /\ r[2] \in Groups
                               /\ r[1] \in Nat /\ r[1] % ClusterSize = 0
                               /\ Middle(r) \in Nat /\ r[1] <= Middle(r)
                               /\ keypresses[r] \in Nat
           /\ Counts(rows) \in Nat
           /\ \A e \in Nat : Typed(rows, e) \in Nat /\ Typed(rows, e) <= Counts(rows)
<1>1. IsFiniteSet(rows)
  BY FS_Subset, ChartAssumption
<1>2. \A r \in rows : /\ r \in Nat \X Groups /\ r[1] % ClusterSize = 0
                     /\ keypresses[r] \in Nat
  BY ChartAssumption
<1>3. rows \subseteq Nat \X Int
  BY <1>2, ChartAssumption
<1>4. \A r \in rows : r[1] \in Nat /\ r[2] \in Groups
  BY <1>2
<1>5. \A r \in rows : Middle(r) \in Nat /\ r[1] <= Middle(r)
  <2>1. ClusterSize \div 2 \in Nat
    BY ChartAssumption
  <2> QED BY <1>4, <2>1 DEF Middle
<1>6. Counts(rows) \in Nat
  BY <1>1, <1>2, SumOfNats DEF Counts
<1>7. ASSUME NEW e \in Nat
      PROVE  Typed(rows, e) \in Nat /\ Typed(rows, e) <= Counts(rows)
  <2> DEFINE some == {r \in rows : Middle(r) < e}
  <2>1. some \in SUBSET rows /\ IsFiniteSet(some)
    BY <1>1, FS_Subset
  <2>2. Counts(some) \in Nat
    BY <2>1, <1>2, SumOfNats DEF Counts
  <2>3. Counts(some) <= Counts(rows)
    BY <2>1, <1>1, <1>2, SumOfSubset DEF Counts
  <2> QED BY <2>2, <2>3 DEF Typed
<1> QED BY <1>1, <1>2, <1>3, <1>4, <1>5, <1>6, <1>7

-----------------------------------------------------------------------------
(* The invariant                                                           *)

\* A group has no points, and nothing accumulated, until its first row is read.
SeriesOf(g) == IF g \in DOMAIN timeSeriesTable THEN timeSeriesTable[g] ELSE <<>>
Accumulated(g) == IF g \in DOMAIN keystrokesMap THEN keystrokesMap[g] ELSE 0

ChartTypes ==
    /\ TypeOK
    /\ keypresses \in Tables
    /\ m_accumulationRange \in Nat /\ m_accumulationRange >= 120
    /\ rangeEndCursor \in Nat
    /\ allGroupsKeystrokes \in Nat
    /\ DOMAIN allGroupsSeries \subseteq Int
    /\ \A g \in Groups : IsSeries(SeriesOf(g)) /\ Accumulated(g) \in Nat

\* No key stroke is missing, and none is counted twice.
AllThere ==
    \A g \in Groups : Total(SeriesOf(g)) + Accumulated(g) = Counts(RowsOf(Read, g))

\* A chart is new, or each point of it is a cluster that was read.
QueryInv ==
    step = "query" =>
        /\ m_chartType = "ACCUMULATE" => /\ unread = selected
                                        /\ DOMAIN allGroupsSeries = {}
                                        /\ allGroupsKeystrokes = 0
                                        /\ ~unprocessedData
        /\ m_chartType = "SIMPLE" =>
               \A g \in Groups :
                   DOMAIN SeriesOf(g) = {Minute(Middle(r)) : r \in RowsOf(Read, g)}

\* Up to the end of each period there are the key strokes of it.
InTime(g) == \A e \in Ends : Until(SeriesOf(g), e) >= Typed(RowsOf(Read, g), e)

\* What is to come belongs to the current period or to a later one; the periods
\* before it are plotted.
PeriodInv ==
    step = "accumulate" =>
        /\ m_chartType = "ACCUMULATE"
        /\ m_accumulationRange <= rangeEndCursor
        /\ \A q \in unread : rangeEndCursor - m_accumulationRange <= Middle(q)
        /\ \A g \in Groups :
               /\ \A m \in DOMAIN SeriesOf(g) : m < PointOf(rangeEndCursor)
               /\ \A e \in Ends : e < rangeEndCursor =>
                      Until(SeriesOf(g), e) >= Typed(RowsOf(Read, g), e)
        /\ ~unprocessedData => \A g \in Groups : Accumulated(g) = 0

AllGroupsInv ==
    step = "accumulate" =>
        /\ \A g \in Groups : DOMAIN SeriesOf(g) \subseteq DOMAIN allGroupsSeries
        /\ \A m \in DOMAIN allGroupsSeries : m < PointOf(rangeEndCursor)
        /\ allGroupsKeystrokes = SumFunction(keystrokesMap)

FinishedInv ==
    step = "chart" =>
        /\ unread = {}
        /\ \A g \in Groups : Accumulated(g) = 0
        /\ m_chartType = "ACCUMULATE" => \A g \in Groups : InTime(g)

ChartInv == /\ ChartTypes /\ AllThere /\ QueryInv /\ PeriodInv /\ AllGroupsInv
            /\ FinishedInv /\ AllIsSum

\* Before the first row of a chart.
LEMMA InitChart == Init => ChartInv
<1> SUFFICES ASSUME Init PROVE ChartInv
  OBVIOUS
<1>1. /\ DOMAIN <<>> = {}
      /\ Read = {}
      /\ \A g : RowsOf(Read, g) = {}
      /\ \A g : SeriesOf(g) = <<>> /\ Accumulated(g) = 0
  BY DEF Init, Read, RowsOf, SeriesOf, Accumulated
<1>2. 0 % 86400 = 0
  OBVIOUS
<1>3. TypeOK
  <2>1. {r[2] : r \in Read} = {}
    BY <1>1
  <2>2. DOMAIN timeSeriesTable = {} /\ DOMAIN keystrokesMap = {}
    BY <1>1 DEF Init
  <2>3. rangeEndCursor % m_accumulationRange = 0
    BY <1>2 DEF Init
  <2>4. unprocessedData \in BOOLEAN
    <3>1. unprocessedData = FALSE
      BY DEF Init
    <3> QED BY <3>1
  <2>5. selected \subseteq DOMAIN keypresses /\ unread \subseteq selected
    BY DEF Init
  <2> QED BY <2>1, <2>2, <2>3, <2>4, <2>5 DEF Init, TypeOK
<1>4. ChartTypes
  BY <1>1, <1>3, NoPoints DEF Init, ChartTypes
<1>5. AllThere
  BY <1>1, NoPoints, SumOfNone DEF AllThere, Counts
<1>6. QueryInv /\ PeriodInv /\ AllGroupsInv /\ FinishedInv
  BY DEF Init, QueryInv, PeriodInv, AllGroupsInv, FinishedInv
<1>7. AllIsSum
  BY <1>1 DEF Init, AllIsSum
<1> QED BY <1>4, <1>5, <1>6, <1>7 DEF ChartInv

LEMMA NewChart ==
    ASSUME ChartInv, ChooseType, NewLocals, unread' = selected',
           selected' \subseteq DOMAIN keypresses,
           UNCHANGED <<keypresses, m_groupIdToName>>, step' \in {"idle", "query"}
    PROVE  ChartInv'
<1>1. /\ DOMAIN <<>> = {}
      /\ Read' = {}
      /\ \A g : RowsOf(Read, g)' = {}
      /\ \A g : SeriesOf(g)' = <<>> /\ Accumulated(g)' = 0
      /\ DOMAIN timeSeriesTable' = {} /\ DOMAIN allGroupsSeries' = {}
  BY DEF NewLocals, Read, RowsOf, SeriesOf, Accumulated
<1>2. /\ m_chartType' \in {"SIMPLE", "ACCUMULATE"}
      /\ m_accumulationRange' \in Nat /\ m_accumulationRange' >= 120
  BY ChartAssumption DEF ChartInv, ChartTypes, ChooseType
<1>3. 0 % m_accumulationRange' = 0
  <2>1. m_accumulationRange' \in Nat \ {0}
    BY <1>2
  <2> QED BY <2>1, ZeroIsMultiple
<1>4. TypeOK'
  BY <1>1, <1>2, <1>3 DEF NewLocals, TypeOK
<1>5. ChartTypes'
  BY <1>1, <1>2, <1>4, NoPoints DEF NewLocals, ChartTypes, ChartInv
<1>6. AllThere'
  <2>1. ASSUME NEW g \in Groups
        PROVE  (Total(SeriesOf(g)) + Accumulated(g) = Counts(RowsOf(Read, g)))'
    <3>1. Counts(RowsOf(Read, g))' = 0
      BY <1>1, SumOfNone DEF Counts
    <3>2. Total(SeriesOf(g))' = 0
      BY <1>1, NoPoints
    <3> QED BY <1>1, <3>1, <3>2
  <2> QED BY <2>1 DEF AllThere
<1>7. QueryInv'
  BY <1>1 DEF NewLocals, QueryInv
<1>8. PeriodInv' /\ AllGroupsInv' /\ FinishedInv'
  BY DEF PeriodInv, AllGroupsInv, FinishedInv
<1>9. AllIsSum'
  BY <1>1 DEF AllIsSum
<1> QED BY <1>5, <1>6, <1>7, <1>8, <1>9 DEF ChartInv

LEMMA UpdateStep == ChartInv /\ (Update \/ UpdateBadDate) => ChartInv'
<1>1. ASSUME ChartInv, Update
      PROVE  ChartInv'
  <2>1. selected' \subseteq DOMAIN keypresses
    BY <1>1 DEF Update
  <2> QED BY <1>1, <2>1, NewChart DEF Update
<1>2. ASSUME ChartInv, UpdateBadDate
      PROVE  ChartInv'
  BY <1>2, NewChart DEF UpdateBadDate
<1> QED BY <1>1, <1>2

LEMMA SqlExceptionStep == ChartInv /\ SqlException => ChartInv'
<1> SUFFICES ASSUME ChartInv, SqlException PROVE ChartInv'
  OBVIOUS
<1> USE DEF SqlException, settings, resultSet, accumulators, series
<1>1. ChartTypes'
  BY DEF ChartInv, ChartTypes, TypeOK, Read, SeriesOf, Accumulated
<1>2. AllThere'
  BY DEF ChartInv, AllThere, SeriesOf, Accumulated, Total, Points, Counts, Read
<1>3. QueryInv' /\ PeriodInv' /\ AllGroupsInv' /\ FinishedInv'
  BY DEF QueryInv, PeriodInv, AllGroupsInv, FinishedInv
<1>4. AllIsSum'
  BY DEF ChartInv, AllIsSum
<1> QED BY <1>1, <1>2, <1>3, <1>4 DEF ChartInv

LEMMA NoMoreRowsStep == ChartInv /\ NoMoreRows => ChartInv'
<1> SUFFICES ASSUME ChartInv, NoMoreRows PROVE ChartInv'
  OBVIOUS
<1> USE DEF NoMoreRows, settings, resultSet, accumulators, series
<1>1. ChartTypes'
  BY DEF ChartInv, ChartTypes, TypeOK, Read, SeriesOf, Accumulated
<1>2. AllThere'
  BY DEF ChartInv, AllThere, SeriesOf, Accumulated, Total, Points, Counts, Read
<1>3. QueryInv' /\ PeriodInv' /\ AllGroupsInv'
  BY DEF QueryInv, PeriodInv, AllGroupsInv
<1>4. FinishedInv'
  <2>1. unread' = {} /\ step = "query"
    OBVIOUS
  <2>2. TypeOK /\ ChartTypes /\ QueryInv
    BY DEF ChartInv, ChartTypes
  <2>3. m_chartType' = m_chartType /\ m_chartType \in {"SIMPLE", "ACCUMULATE"}
    BY <2>2 DEF TypeOK
  <2>4. m_chartType = "ACCUMULATE" => Read = {}
    BY <2>1, <2>2 DEF QueryInv, Read
  <2>5. DOMAIN keystrokesMap = {}
    BY <2>2, <2>3, <2>4 DEF TypeOK
  <2>6. \A g \in Groups : Accumulated(g)' = 0
    BY <2>5 DEF Accumulated
  <2>7. ASSUME m_chartType = "ACCUMULATE", NEW g \in Groups, NEW e \in Ends'
        PROVE  (Until(SeriesOf(g), e) >= Typed(RowsOf(Read, g), e))'
    <3>1. {r \in RowsOf(Read, g)' : Middle(r) < e} = {}
      BY <2>4, <2>7 DEF RowsOf, Read
    <3>2. Typed(RowsOf(Read, g), e)' = 0
      BY <3>1, SumOfNone DEF Typed, Counts, Middle
    <3>3. IsSeries(SeriesOf(g)) /\ Minute(e) \in Int
      BY <2>2 DEF ChartTypes, Ends, Minute
    <3>4. Until(SeriesOf(g), e) \in Nat
      BY <3>3, SeriesUnder DEF Until
    <3>5. Until(SeriesOf(g), e)' = Until(SeriesOf(g), e)
      BY DEF Until, SeriesOf, Points, Under
    <3> QED BY <3>2, <3>4, <3>5
  <2> QED BY <2>1, <2>3, <2>6, <2>7 DEF FinishedInv, InTime
<1>5. AllIsSum'
  BY DEF ChartInv, AllIsSum
<1> QED BY <1>1, <1>2, <1>3, <1>4, <1>5 DEF ChartInv

-----------------------------------------------------------------------------
(* A row is read                                                           *)

\* What a row adds to the key strokes of a group.
Strokes(row, g) == IF g = row[2] THEN keypresses[row] ELSE 0

LEMMA RowRead ==
    ASSUME ChartTypes, NEW row \in unread, unread' = unread \ {row},
           UNCHANGED <<keypresses, selected>>
    PROVE  /\ row \in DOMAIN keypresses /\ row[2] \in Groups
           /\ keypresses[row] \in Nat /\ Middle(row) \in Nat
           /\ row \notin Read /\ Read' = Read \cup {row}
           /\ \A g \in Groups :
                  /\ Strokes(row, g) \in Nat
                  /\ Counts(RowsOf(Read, g)) \in Nat
                  /\ Counts(RowsOf(Read, g))' = Counts(RowsOf(Read, g)) + Strokes(row, g)
                  /\ \A e \in Nat :
                         /\ Typed(RowsOf(Read, g), e)' <= Counts(RowsOf(Read, g))'
                         /\ e <= Middle(row) =>
                               Typed(RowsOf(Read, g), e)' = Typed(RowsOf(Read, g), e)
<1>1. /\ selected \subseteq DOMAIN keypresses /\ unread \subseteq selected
      /\ keypresses \in Tables
  BY DEF ChartTypes, TypeOK
<1>2. /\ row \in DOMAIN keypresses /\ row[2] \in Groups
      /\ keypresses[row] \in Nat /\ Middle(row) \in Nat
  BY <1>1, RowsOfTable
<1>3. row \notin Read /\ Read' = Read \cup {row}
  BY <1>1 DEF Read
<1>4. ASSUME NEW g \in Groups
      PROVE  /\ Strokes(row, g) \in Nat
             /\ Counts(RowsOf(Read, g)) \in Nat
             /\ Counts(RowsOf(Read, g))' = Counts(RowsOf(Read, g)) + Strokes(row, g)
             /\ \A e \in Nat :
                    /\ Typed(RowsOf(Read, g), e)' <= Counts(RowsOf(Read, g))'
                    /\ e <= Middle(row) =>
                          Typed(RowsOf(Read, g), e)' = Typed(RowsOf(Read, g), e)
  <2> DEFINE rows == RowsOf(Read, g)
             more == RowsOf(Read', g)
  <2>1. rows \subseteq DOMAIN keypresses /\ more \subseteq DOMAIN keypresses
    BY <1>1, <1>2, <1>3 DEF RowsOf, Read
  <2>2. row \notin rows
    BY <1>3 DEF RowsOf
  <2>3. /\ g = row[2] => more = rows \cup {row}
        /\ g # row[2] => more = rows
    BY <1>3 DEF RowsOf
  <2>4. RowsOf(Read, g)' = more /\ Counts(RowsOf(Read, g))' = Counts(more)
    BY DEF RowsOf, Counts
  <2>5. \A e \in Nat : Typed(RowsOf(Read, g), e)' = Typed(more, e)
    BY DEF RowsOf, Typed, Counts, Middle
  <2> HIDE DEF rows, more
  <2>6. /\ Counts(rows) \in Nat /\ IsFiniteSet(rows)
        /\ \A r \in rows : keypresses[r] \in Nat
    BY <1>1, <2>1, RowsOfTable
  <2>7. \A e \in Nat : Typed(more, e) <= Counts(more)
    BY <1>1, <2>1, RowsOfTable
  <2>8. Counts(more) = Counts(rows) + Strokes(row, g)
    <3>1. CASE g = row[2]
      <4>1. \A r \in rows \cup {row} : keypresses[r] \in Int
        BY <2>6, <1>2
      <4>2. Counts(rows \cup {row}) = Counts(rows) + keypresses[row]
        BY <2>2, <2>6, <4>1, SumWithOneMore DEF Counts
      <4> QED BY <3>1, <4>2, <2>3 DEF Strokes
    <3>2. CASE g # row[2]
      BY <3>2, <2>3, <2>6 DEF Strokes
    <3> QED BY <3>1, <3>2
  <2>9. ASSUME NEW e \in Nat, e <= Middle(row)
        PROVE  Typed(more, e) = Typed(rows, e)
    <3>1. ~ (Middle(row) < e)
      BY <1>2, <2>9
    <3>2. {r \in more : Middle(r) < e} = {r \in rows : Middle(r) < e}
      BY <2>3, <3>1
    <3> QED BY <3>2 DEF Typed
  <2>10. Strokes(row, g) \in Nat
    BY <1>2 DEF Strokes
  <2>11. Counts(RowsOf(Read, g)) = Counts(rows) /\ \A e \in Nat : Typed(RowsOf(Read, g), e) = Typed(rows, e)
    BY DEF rows
  <2> QED BY <2>4, <2>5, <2>6, <2>7, <2>8, <2>9, <2>10, <2>11
<1> QED BY <1>2, <1>3, <1>4

LEMMA NextRowRead ==
    ASSUME ChartTypes, unread # {}
    PROVE  /\ NextRow \in unread
           /\ \A q \in unread : Middle(NextRow) <= Middle(q)
           /\ \A q \in unread : NextRow[1] <= Middle(q)
<1>1. unread \subseteq DOMAIN keypresses /\ keypresses \in Tables
  BY DEF ChartTypes, TypeOK
<1>2. IsFiniteSet(unread) /\ unread \subseteq Nat \X Int
  BY <1>1, RowsOfTable
<1>3. NextRow \in unread /\ \A q \in unread : NextRow[1] <= q[1]
  BY <1>2, NextRowIsFirst
<1>4. \A q \in unread : q[1] \in Nat
  BY <1>2
<1>5. ClusterSize \div 2 \in Nat
  BY ChartAssumption
<1> QED BY <1>3, <1>4, <1>5 DEF Middle

\* The groups of the rows read have one more, perhaps.
LEMMA GroupsRead ==
    ASSUME ChartTypes, NEW row \in unread, Read' = Read \cup {row},
           DOMAIN timeSeriesTable' = DOMAIN timeSeriesTable \cup {row[2]},
           NameGroup(row[2])
    PROVE  /\ DOMAIN timeSeriesTable' = {r[2] : r \in Read'}
           /\ DOMAIN timeSeriesTable' \subseteq DOMAIN m_groupIdToName'
<1>1. /\ DOMAIN timeSeriesTable = {r[2] : r \in Read}
      /\ DOMAIN timeSeriesTable \subseteq DOMAIN m_groupIdToName
  BY DEF ChartTypes, TypeOK
<1>2. DOMAIN m_groupIdToName' = DOMAIN m_groupIdToName \cup {row[2]}
  BY DEF NameGroup, Prepared
<1> QED BY <1>1, <1>2

\* A cluster is a minute of its own, so a point of a SIMPLE chart replaces none.
LEMMA MinuteIsNew ==
    ASSUME ChartTypes, NEW row \in unread, NEW q \in Read, q[2] = row[2]
    PROVE  Minute(Middle(q)) # Minute(Middle(row))
<1>1. q # row /\ q \in DOMAIN keypresses /\ row \in DOMAIN keypresses
  BY DEF ChartTypes, TypeOK, Read
<1>2. /\ q \in Nat \X Groups /\ row \in Nat \X Groups
      /\ q[1] % ClusterSize = 0 /\ row[1] % ClusterSize = 0
  BY <1>1, ChartAssumption DEF ChartTypes
<1>3. q[1] \in Nat /\ row[1] \in Nat /\ q[1] # row[1]
  BY <1>1, <1>2
<1>4. (q[1] + ClusterSize \div 2) \div 60 # (row[1] + ClusterSize \div 2) \div 60
  BY <1>2, <1>3, ClustersApart
<1> QED BY <1>4 DEF Minute, Middle

LEMMA ReadSimpleRowStep == ChartInv /\ ReadSimpleRow => ChartInv'
<1> SUFFICES ASSUME ChartInv, ReadSimpleRow PROVE ChartInv'
  OBVIOUS
<1>1. ChartTypes /\ TypeOK /\ AllThere /\ QueryInv /\ unread # {} /\ m_chartType = "SIMPLE"
  BY DEF ChartInv, ChartTypes, ReadSimpleRow
<1>2. PICK row \in unread : row = NextRow
  BY <1>1, NextRowRead
<1> DEFINE g == row[2]
           t == Middle(row)
           n == keypresses[row]
<1>3. /\ unread' = unread \ {row} /\ NameGroup(g)
      /\ timeSeriesTable' = [Prepared(timeSeriesTable, g, <<>>)
                                EXCEPT ![g] = addOrUpdate(@, t, n)]
      /\ step = "query" /\ step' = "query"
      /\ UNCHANGED <<keypresses, selected, m_chartType, m_accumulationRange, rangeEndCursor,
                     keystrokesMap, allGroupsKeystrokes, unprocessedData, allGroupsSeries>>
  BY <1>2 DEF ReadSimpleRow, accumulators, settings
<1>4. /\ row[2] \in Groups /\ keypresses[row] \in Nat /\ Middle(row) \in Nat
      /\ row \notin Read /\ Read' = Read \cup {row}
      /\ \A h \in Groups :
            /\ Strokes(row, h) \in Nat
            /\ Counts(RowsOf(Read, h)) \in Nat
            /\ Counts(RowsOf(Read, h))' = Counts(RowsOf(Read, h)) + Strokes(row, h)
  BY <1>1, <1>3, RowRead
<1>5. DOMAIN timeSeriesTable' = DOMAIN timeSeriesTable \cup {g}
  BY <1>3 DEF Prepared
<1>6. /\ SeriesOf(g)' = addOrUpdate(SeriesOf(g), t, n)
      /\ \A h \in Groups \ {g} : SeriesOf(h)' = SeriesOf(h)
  BY <1>3, <1>5 DEF SeriesOf, Prepared
<1>7. /\ \A h \in Groups : Accumulated(h)' = Accumulated(h)
      /\ \A h \in Groups : IsSeries(SeriesOf(h)) /\ Accumulated(h) \in Nat
      /\ \A h \in Groups : Total(SeriesOf(h)) + Accumulated(h) = Counts(RowsOf(Read, h))
  BY <1>1, <1>3 DEF Accumulated, ChartTypes, AllThere
<1>8. \A h \in Groups :
          DOMAIN SeriesOf(h) = {Minute(Middle(r)) : r \in RowsOf(Read, h)}
  BY <1>1, <1>3 DEF QueryInv
<1>9. Minute(t) \in Int /\ Minute(t) \notin DOMAIN SeriesOf(g)
  <2>1. \A r \in RowsOf(Read, g) : Minute(Middle(r)) # Minute(t)
    BY <1>1, MinuteIsNew DEF RowsOf
  <2>2. Minute(t) \in Int
    BY <1>4 DEF Minute
  <2>3. DOMAIN SeriesOf(g) = {Minute(Middle(r)) : r \in RowsOf(Read, g)}
    BY <1>4, <1>8
  <2> HIDE DEF t
  <2>4. Minute(t) \notin {Minute(Middle(r)) : r \in RowsOf(Read, g)}
    BY <2>1
  <2> QED BY <2>2, <2>3, <2>4
<1> DEFINE points == SeriesOf(g)
           longer == SeriesOf(g)'
<1>10. /\ IsSeries(longer)
       /\ DOMAIN longer = DOMAIN points \cup {Minute(t)}
       /\ Total(longer) = Total(points) + n
  BY <1>4, <1>6, <1>7, <1>9, PointAdded
<1>11. \A h \in Groups : Total(points) \in Nat /\ Total(SeriesOf(h)) \in Nat
  BY <1>4, <1>7, SeriesUnder, 0 \in Int
<1>12. ChartTypes'
  <2>1. /\ DOMAIN timeSeriesTable' = {r[2] : r \in Read'}
        /\ DOMAIN timeSeriesTable' \subseteq DOMAIN m_groupIdToName'
    BY <1>1, <1>3, <1>4, <1>5, GroupsRead
  <2>2. TypeOK'
    BY <1>1, <1>3, <2>1 DEF TypeOK
  <2>3. \A h \in Groups : IsSeries(SeriesOf(h))' /\ Accumulated(h)' \in Nat
    BY <1>6, <1>7, <1>10 DEF IsSeries
  <2> QED BY <1>1, <1>3, <2>2, <2>3 DEF ChartTypes
<1>13. AllThere'
  <2>1. ASSUME NEW h \in Groups
        PROVE  (Total(SeriesOf(h)) + Accumulated(h) = Counts(RowsOf(Read, h)))'
    <3>1. Total(SeriesOf(h))' = Total(SeriesOf(h)) + Strokes(row, h)
      <4>1. CASE h = g
        BY <4>1, <1>10 DEF Strokes, Total, Points
      <4>2. CASE h # g
        <5>1. SeriesOf(h)' = SeriesOf(h) /\ Strokes(row, h) = 0
          BY <4>2, <1>6 DEF Strokes
        <5> QED BY <5>1, <1>11 DEF Total, Points
      <4> QED BY <4>1, <4>2
    <3>2. /\ Accumulated(h)' = Accumulated(h) /\ Accumulated(h) \in Nat
          /\ Total(SeriesOf(h)) + Accumulated(h) = Counts(RowsOf(Read, h))
          /\ Counts(RowsOf(Read, h))' = Counts(RowsOf(Read, h)) + Strokes(row, h)
          /\ Strokes(row, h) \in Nat /\ Total(SeriesOf(h)) \in Nat
      BY <1>4, <1>7, <1>11
    <3> QED BY <3>1, <3>2
  <2> QED BY <2>1 DEF AllThere
<1>14. QueryInv'
  <2>1. ASSUME NEW h \in Groups
        PROVE  DOMAIN SeriesOf(h)' = {Minute(Middle(r)) : r \in RowsOf(Read', h)}
    <3>1. CASE h = g
      <4>1. RowsOf(Read', h) = RowsOf(Read, h) \cup {row}
        BY <1>4, <3>1 DEF RowsOf
      <4> QED BY <4>1, <3>1, <1>8, <1>10
    <3>2. CASE h # g
      <4>1. RowsOf(Read', h) = RowsOf(Read, h)
        BY <1>4, <3>2 DEF RowsOf
      <4> QED BY <4>1, <3>2, <1>6, <1>8
    <3> QED BY <3>1, <3>2
  <2>2. \A h \in Groups : DOMAIN SeriesOf(h)' = {Minute(Middle(r)) : r \in RowsOf(Read, h)'}
    BY <2>1 DEF RowsOf
  <2> QED BY <1>1, <1>3, <2>2 DEF QueryInv, Middle, Minute
<1>15. PeriodInv' /\ AllGroupsInv' /\ FinishedInv'
  BY <1>3 DEF PeriodInv, AllGroupsInv, FinishedInv
<1>16. AllIsSum'
  BY <1>1, <1>3 DEF AllIsSum
<1> QED BY <1>12, <1>13, <1>14, <1>15, <1>16 DEF ChartInv

LEMMA FirstRowStep == ChartInv /\ FirstRow => ChartInv'
<1> SUFFICES ASSUME ChartInv, FirstRow PROVE ChartInv'
  OBVIOUS
<1>1. ChartTypes /\ TypeOK /\ AllThere /\ QueryInv /\ unread # {}
  BY DEF ChartInv, ChartTypes, FirstRow
<1>2. /\ rangeEndCursor' = PeriodEnd(NextRow[1])
      /\ step = "query" /\ step' = "accumulate" /\ m_chartType = "ACCUMULATE"
      /\ UNCHANGED <<keypresses, m_groupIdToName, m_chartType, m_accumulationRange, selected,
                     unread, keystrokesMap, allGroupsKeystrokes, unprocessedData,
                     timeSeriesTable, allGroupsSeries>>
  BY DEF FirstRow, settings, resultSet, series
<1>3. NextRow \in unread /\ \A q \in unread : NextRow[1] <= Middle(q)
  BY <1>1, NextRowRead
<1>4. NextRow[1] \in Nat /\ \A q \in unread : Middle(q) \in Nat
  <2>1. unread \subseteq DOMAIN keypresses /\ keypresses \in Tables
    BY <1>1 DEF ChartTypes, TypeOK
  <2> QED BY <2>1, <1>3, RowsOfTable
<1>5. /\ PeriodEnd(NextRow[1]) \in Ends
      /\ PeriodEnd(NextRow[1]) - m_accumulationRange <= NextRow[1]
      /\ m_accumulationRange <= PeriodEnd(NextRow[1])
      /\ m_accumulationRange \in Nat
  BY <1>1, <1>4, EndOfPeriod DEF ChartTypes
<1>6. rangeEndCursor' \in Nat /\ rangeEndCursor' % m_accumulationRange' = 0
  BY <1>2, <1>5 DEF Ends
<1>7. ChartTypes'
  <2>1. TypeOK'
    BY <1>1, <1>2, <1>6 DEF TypeOK, Read
  <2> QED BY <1>1, <1>2, <1>6, <2>1 DEF ChartTypes, SeriesOf, Accumulated
<1>8. AllThere'
  BY <1>1, <1>2 DEF AllThere, SeriesOf, Accumulated, Total, Points, Counts, Read
<1>9. QueryInv' /\ FinishedInv'
  BY <1>2 DEF QueryInv, FinishedInv
<1>10. /\ Read = {} /\ DOMAIN timeSeriesTable = {} /\ DOMAIN keystrokesMap = {}
       /\ DOMAIN allGroupsSeries = {} /\ allGroupsKeystrokes = 0
  BY <1>1, <1>2 DEF QueryInv, Read, TypeOK
<1>11. \A g \in Groups : SeriesOf(g)' = <<>> /\ Accumulated(g)' = 0
  BY <1>2, <1>10 DEF SeriesOf, Accumulated
<1>12. PeriodInv'
  <2>1. \A q \in unread : rangeEndCursor' - m_accumulationRange <= Middle(q)
    BY <1>2, <1>3, <1>4, <1>5, <1>6
  <2>2. ASSUME NEW g \in Groups, NEW e \in Ends'
        PROVE  (Until(SeriesOf(g), e) >= Typed(RowsOf(Read, g), e))'
    <3>1. {r \in RowsOf(Read, g)' : Middle(r) < e} = {}
      BY <1>2, <1>10 DEF RowsOf, Read
    <3>2. Typed(RowsOf(Read, g), e)' = 0
      BY <3>1, SumOfNone DEF Typed, Counts, Middle
    <3>3. Minute(e) \in Int
      BY <2>2, <1>1, <1>2 DEF Ends, Minute, ChartTypes
    <3>4. Until(<<>>, e) \in Nat
      BY <3>3, NoPoints, SeriesUnder DEF Until
    <3>5. Until(SeriesOf(g), e)' = Until(<<>>, e)
      BY <1>11 DEF Until, Points, Under
    <3> QED BY <3>2, <3>4, <3>5
  <2>3. \A g \in Groups : \A m \in DOMAIN SeriesOf(g)' : FALSE
    BY <1>11, NoPoints
  <2>4. \A g \in Groups : Accumulated(g)' = 0
    BY <1>11
  <2>5. (\A g \in Groups :
            /\ \A m \in DOMAIN SeriesOf(g) : m < PointOf(rangeEndCursor)
            /\ \A e \in Ends : e < rangeEndCursor =>
                  Until(SeriesOf(g), e) >= Typed(RowsOf(Read, g), e))'
    BY <2>2, <2>3
  <2>6. (\A q \in unread : rangeEndCursor - m_accumulationRange <= Middle(q))'
    BY <2>1, <1>2 DEF Middle
  <2> QED BY <1>2, <1>5, <2>4, <2>5, <2>6 DEF PeriodInv
<1>13. AllGroupsInv'
  <2>1. SumFunction(keystrokesMap') = 0
    BY <1>2, <1>10, SumOfNone DEF SumFunction
  <2> QED BY <1>2, <1>10, <1>11, <2>1, NoPoints DEF AllGroupsInv
<1>14. AllIsSum'
  BY <1>2, <1>10 DEF AllIsSum
<1> QED BY <1>7, <1>8, <1>9, <1>12, <1>13, <1>14 DEF ChartInv

-----------------------------------------------------------------------------
(* A period is accumulated and plotted                                     *)

\* The sum of the lines of the groups, at a minute.
SumAt(table, m) ==
    LET groups == {g \in DOMAIN table : m \in DOMAIN table[g]}
    IN  SumFunction([g \in groups |-> table[g][m]])

LEMMA SameSumAt ==
    ASSUME NEW T, NEW U, NEW m,
           \A g : (g \in DOMAIN U /\ m \in DOMAIN U[g]) <=> (g \in DOMAIN T /\ m \in DOMAIN T[g]),
           \A g \in DOMAIN T : m \in DOMAIN T[g] => U[g][m] = T[g][m]
    PROVE  SumAt(U, m) = SumAt(T, m)
<1> DEFINE S == {g \in DOMAIN T : m \in DOMAIN T[g]}
<1>1. {g \in DOMAIN U : m \in DOMAIN U[g]} = S
  OBVIOUS
<1>2. [g \in S |-> U[g][m]] = [g \in S |-> T[g][m]]
  OBVIOUS
<1> QED BY <1>1, <1>2 DEF SumAt

\* The keystrokes with those of a row.
LEMMA KeystrokesAdded ==
    ASSUME ChartTypes, m_chartType = "ACCUMULATE", NEW row \in unread,
           row[2] \in Groups, keypresses[row] \in Nat,
           NEW K, K = [Prepared(keystrokesMap, row[2], 0) EXCEPT ![row[2]] = @ + keypresses[row]]
    PROVE  /\ DOMAIN K = DOMAIN timeSeriesTable \cup {row[2]}
           /\ \A h \in DOMAIN K : h \in Groups /\ K[h] = Accumulated(h) + Strokes(row, h)
           /\ \A h \in Groups \ DOMAIN K : Accumulated(h) + Strokes(row, h) = 0
           /\ IsFiniteSet(DOMAIN K)
           /\ SumFunction(keystrokesMap) \in Nat
           /\ SumFunction(K) = SumFunction(keystrokesMap) + keypresses[row]
<1> DEFINE D == DOMAIN keystrokesMap
           x == row[2]
           n == keypresses[row]
<1>1. /\ D = DOMAIN timeSeriesTable /\ D = {r[2] : r \in Read}
      /\ Read \subseteq DOMAIN keypresses /\ keypresses \in Tables
  BY DEF ChartTypes, TypeOK, Read
<1>2. IsFiniteSet(D) /\ D \subseteq Groups
  <2>1. IsFiniteSet(Read) /\ \A r \in Read : r[2] \in Groups
    BY <1>1, RowsOfTable
  <2> DEFINE group == [r \in Read |-> r[2]]
  <2>2. group \in Surjection(Read, D)
    BY <1>1 DEF Surjection
  <2>3. IsFiniteSet(D)
    BY <2>1, <2>2, FS_Surjection
  <2> QED BY <1>1, <2>1, <2>3
<1>3. \A h \in D : Accumulated(h) = keystrokesMap[h] /\ keystrokesMap[h] \in Nat
  BY <1>2 DEF Accumulated, ChartTypes
<1>4. /\ DOMAIN K = D \cup {x}
      /\ \A h \in D \ {x} : K[h] = keystrokesMap[h]
      /\ K[x] = (IF x \in D THEN keystrokesMap[x] ELSE 0) + n
  BY DEF Prepared
<1>5. \A h \in DOMAIN K : h \in Groups /\ K[h] = Accumulated(h) + Strokes(row, h)
  <2>1. ASSUME NEW h \in DOMAIN K, h = x
        PROVE  K[h] = Accumulated(h) + Strokes(row, h)
    BY <2>1, <1>4 DEF Strokes, Accumulated
  <2>2. ASSUME NEW h \in DOMAIN K, h # x
        PROVE  K[h] = Accumulated(h) + Strokes(row, h)
    BY <2>2, <1>3, <1>4 DEF Strokes
  <2> QED BY <2>1, <2>2, <1>2, <1>4
<1>6. \A h \in Groups \ DOMAIN K : Accumulated(h) + Strokes(row, h) = 0
  BY <1>4 DEF Accumulated, Strokes
<1>7. SumFunction(keystrokesMap) \in Nat
  BY <1>2, <1>3, SumOfNats DEF SumFunction
<1> HIDE DEF D, x, n
<1>8. n \in Nat
  BY DEF n
<1>9. \A h \in D : keystrokesMap[h] \in Int
  BY <1>3
<1>10. SumFunction(keystrokesMap) = SumFunctionOnSet(keystrokesMap, D)
  BY DEF SumFunction, D
<1>11. SumFunction(K) = SumFunctionOnSet(K, D \cup {x})
  BY <1>4 DEF SumFunction
<1>12. SumFunction(K) = SumFunction(keystrokesMap) + n
  <2>1. CASE x \in D
    <3>1. D \cup {x} = D
      BY <2>1
    <3>2. /\ K[x] = keystrokesMap[x] + n
          /\ keystrokesMap[x] \in Nat
          /\ K[x] \in Int
      BY <2>1, <1>3, <1>4, <1>8
    <3>3. SumFunctionOnSet(K, D)
             = SumFunctionOnSet(keystrokesMap, D) - keystrokesMap[x] + K[x]
      BY <1>2, <1>4, <1>9, <2>1, <3>2, SumWithChange
    <3>4. SumFunction(K) = SumFunctionOnSet(K, D)
      BY <3>1, <1>11
    <3> DEFINE a == SumFunction(keystrokesMap)
               b == keystrokesMap[x]
    <3>5. SumFunction(K) = a - b + (b + n)
      BY <3>2, <3>3, <3>4, <1>10
    <3>6. a \in Nat /\ b \in Nat
      BY <3>2, <1>7
    <3> HIDE DEF a, b
    <3>7. a - b + (b + n) = a + n
      BY <3>6, <1>8
    <3> QED BY <3>5, <3>7 DEF a
  <2>2. CASE x \notin D
    <3>1. K[x] = n
      BY <2>2, <1>4, <1>8
    <3>2. \A h \in D : K[h] = keystrokesMap[h]
      BY <2>2, <1>4
    <3>3. \A h \in D \cup {x} : K[h] \in Int
      BY <3>1, <3>2, <1>8, <1>9
    <3>4. SumFunctionOnSet(K, D \cup {x}) = SumFunctionOnSet(K, D) + K[x]
      BY <1>2, <2>2, <3>3, SumWithOneMore
    <3>5. SumFunctionOnSet(K, D) = SumFunctionOnSet(keystrokesMap, D)
      BY <1>2, <1>9, <3>2, SumOfSame
    <3> QED BY <3>1, <3>4, <3>5, <1>10, <1>11
  <2> QED BY <2>1, <2>2
<1>13. IsFiniteSet(DOMAIN K)
  BY <1>2, <1>4, FS_AddElement
<1> QED BY <1>1, <1>4, <1>5, <1>6, <1>7, <1>12, <1>13 DEF x, n

LEMMA AddRowStep == ChartInv /\ AddRow => ChartInv'
<1> SUFFICES ASSUME ChartInv, AddRow PROVE ChartInv'
  OBVIOUS
<1>1. /\ ChartTypes /\ TypeOK /\ AllThere /\ PeriodInv /\ AllGroupsInv /\ AllIsSum
      /\ unread # {} /\ step = "accumulate" /\ m_chartType = "ACCUMULATE"
  BY DEF ChartInv, ChartTypes, AddRow, PeriodInv
<1>2. PICK row \in unread : row = NextRow
  BY <1>1, NextRowRead
<1>3. /\ unread' = unread \ {row} /\ NameGroup(row[2])
      /\ timeSeriesTable' = Prepared(timeSeriesTable, row[2], <<>>)
      /\ keystrokesMap' = [Prepared(keystrokesMap, row[2], 0)
                              EXCEPT ![row[2]] = @ + keypresses[row]]
      /\ allGroupsKeystrokes' = allGroupsKeystrokes + keypresses[row]
      /\ unprocessedData' = TRUE
      /\ step' = "accumulate"
      /\ UNCHANGED <<keypresses, selected, m_chartType, m_accumulationRange, rangeEndCursor,
                     allGroupsSeries>>
  BY <1>1, <1>2 DEF AddRow, SeriesWithRow, KeystrokesWithRow, AllWithRow, settings
<1>4. /\ row[2] \in Groups /\ keypresses[row] \in Nat /\ Middle(row) \in Nat
      /\ row \notin Read /\ Read' = Read \cup {row}
      /\ \A h \in Groups :
            /\ Strokes(row, h) \in Nat
            /\ Counts(RowsOf(Read, h)) \in Nat
            /\ Counts(RowsOf(Read, h))' = Counts(RowsOf(Read, h)) + Strokes(row, h)
            /\ \A e \in Nat : e <= Middle(row) =>
                   Typed(RowsOf(Read, h), e)' = Typed(RowsOf(Read, h), e)
  BY <1>1, <1>3, RowRead
<1> DEFINE K == keystrokesMap'
<1>5. /\ DOMAIN K = DOMAIN timeSeriesTable \cup {row[2]}
      /\ \A h \in DOMAIN K : h \in Groups /\ K[h] = Accumulated(h) + Strokes(row, h)
      /\ \A h \in Groups \ DOMAIN K : Accumulated(h) + Strokes(row, h) = 0
      /\ SumFunction(keystrokesMap) \in Nat
      /\ SumFunction(K) = SumFunction(keystrokesMap) + keypresses[row]
  BY <1>1, <1>3, <1>4, KeystrokesAdded
<1>6. /\ DOMAIN timeSeriesTable' = DOMAIN timeSeriesTable \cup {row[2]}
      /\ \A h \in DOMAIN timeSeriesTable : timeSeriesTable'[h] = timeSeriesTable[h]
      /\ row[2] \notin DOMAIN timeSeriesTable => timeSeriesTable'[row[2]] = <<>>
  BY <1>3 DEF Prepared
<1>7. \A h \in Groups : SeriesOf(h)' = SeriesOf(h)
  BY <1>6 DEF SeriesOf
<1>8. \A h \in Groups : Accumulated(h)' = Accumulated(h) + Strokes(row, h)
  BY <1>5 DEF Accumulated
<1>9. \A h \in Groups : /\ IsSeries(SeriesOf(h)) /\ Accumulated(h) \in Nat
                        /\ Total(SeriesOf(h)) \in Nat
  BY <1>1, SeriesUnder, 0 \in Int DEF ChartTypes
<1>10. ChartTypes'
  <2>1. /\ DOMAIN timeSeriesTable' = {r[2] : r \in Read'}
        /\ DOMAIN timeSeriesTable' \subseteq DOMAIN m_groupIdToName'
    BY <1>1, <1>3, <1>4, <1>6, GroupsRead
  <2>2. TypeOK'
    BY <1>1, <1>3, <1>5, <1>6, <2>1 DEF TypeOK
  <2>3. \A h \in Groups : IsSeries(SeriesOf(h))' /\ Accumulated(h)' \in Nat
    BY <1>4, <1>7, <1>8, <1>9 DEF IsSeries
  <2>4. allGroupsKeystrokes' \in Nat
    BY <1>1, <1>3, <1>4 DEF ChartTypes
  <2> QED BY <1>1, <1>3, <2>2, <2>3, <2>4 DEF ChartTypes
<1>11. AllThere'
  <2>1. ASSUME NEW h \in Groups
        PROVE  (Total(SeriesOf(h)) + Accumulated(h) = Counts(RowsOf(Read, h)))'
    <3>1. Total(SeriesOf(h))' = Total(SeriesOf(h))
      BY <1>7 DEF Total, Points
    <3>2. Total(SeriesOf(h)) + Accumulated(h) = Counts(RowsOf(Read, h))
      BY <1>1 DEF AllThere
    <3> QED BY <3>1, <3>2, <1>4, <1>8, <1>9
  <2> QED BY <2>1 DEF AllThere
<1>12. QueryInv' /\ FinishedInv'
  BY <1>3 DEF QueryInv, FinishedInv
<1>13. PeriodInv'
  <2>1. \A q \in unread : rangeEndCursor - m_accumulationRange <= Middle(q)
    BY <1>1 DEF PeriodInv
  <2>2. ASSUME NEW h \in Groups, NEW e \in Ends', e < rangeEndCursor
        PROVE  (Until(SeriesOf(h), e) >= Typed(RowsOf(Read, h), e))'
    <3>1. /\ e \in Nat /\ e \in Ends /\ rangeEndCursor \in Nat
          /\ m_accumulationRange \in Nat \ {0}
          /\ e % m_accumulationRange = 0 /\ rangeEndCursor % m_accumulationRange = 0
      BY <1>1, <1>3, <2>2 DEF Ends, ChartTypes, TypeOK
    <3>2. e + m_accumulationRange <= rangeEndCursor
      BY <2>2, <3>1, MultiplesApart
    <3>3. e <= Middle(row)
      BY <2>1, <3>1, <3>2, <1>4
    <3>4. Typed(RowsOf(Read, h), e)' = Typed(RowsOf(Read, h), e)
      BY <1>4, <3>1, <3>3
    <3>5. Until(SeriesOf(h), e)' = Until(SeriesOf(h), e)
      BY <1>7 DEF Until, Points, Under
    <3>6. Until(SeriesOf(h), e) >= Typed(RowsOf(Read, h), e)
      BY <1>1, <2>2, <3>1 DEF PeriodInv
    <3> QED BY <3>4, <3>5, <3>6
  <2>3. \A h \in Groups : \A m \in DOMAIN SeriesOf(h)' : m < PointOf(rangeEndCursor)'
    BY <1>1, <1>3, <1>7 DEF PeriodInv, PointOf, MiddleOfPeriod
  <2>4. (\A g \in Groups :
            /\ \A m \in DOMAIN SeriesOf(g) : m < PointOf(rangeEndCursor)
            /\ \A e \in Ends : e < rangeEndCursor =>
                  Until(SeriesOf(g), e) >= Typed(RowsOf(Read, g), e))'
    BY <1>3, <2>2, <2>3
  <2>5. (\A q \in unread : rangeEndCursor - m_accumulationRange <= Middle(q))'
    BY <2>1, <1>3 DEF Middle
  <2> QED BY <1>1, <1>3, <2>4, <2>5 DEF PeriodInv
<1>14. AllGroupsInv'
  <2>1. allGroupsKeystrokes' = SumFunction(K)
    BY <1>1, <1>3, <1>5 DEF AllGroupsInv
  <2>2. \A h \in Groups : DOMAIN SeriesOf(h)' \subseteq DOMAIN allGroupsSeries
    BY <1>1, <1>7 DEF AllGroupsInv
  <2>3. \A m \in DOMAIN allGroupsSeries' : m < PointOf(rangeEndCursor)'
    BY <1>1, <1>3 DEF AllGroupsInv, PointOf, MiddleOfPeriod
  <2> QED BY <1>3, <2>1, <2>2, <2>3 DEF AllGroupsInv
<1>15. AllIsSum'
  <2>1. ASSUME NEW m \in DOMAIN allGroupsSeries
        PROVE  allGroupsSeries[m] = SumAt(timeSeriesTable', m)
    <3>1. SumAt(timeSeriesTable', m) = SumAt(timeSeriesTable, m)
      BY <1>6, NoPoints, SameSumAt
    <3>2. allGroupsSeries[m] = SumAt(timeSeriesTable, m)
      BY <1>1, <2>1 DEF AllIsSum, SumAt
    <3> QED BY <3>1, <3>2
  <2> QED BY <1>3, <2>1 DEF AllIsSum, SumAt
<1> QED BY <1>10, <1>11, <1>12, <1>13, <1>14, <1>15 DEF ChartInv

\* A group is plotted: it has all its rows, and up to the end of each period at
\* least those of it.
LEMMA GroupPlotted ==
    ASSUME m_accumulationRange \in Nat, m_accumulationRange >= 120, keypresses \in Tables,
           NEW c \in Ends, m_accumulationRange <= c,
           NEW points, IsSeries(points), \A m \in DOMAIN points : m < PointOf(c),
           NEW n \in Nat, NEW longer, Plotted(longer, points, n, c),
           NEW rows, rows \subseteq DOMAIN keypresses, Total(points) + n = Counts(rows),
           \A e \in Ends : e < c => Until(points, e) >= Typed(rows, e)
    PROVE  /\ IsSeries(longer)
           /\ Total(longer) = Counts(rows)
           /\ \A m \in DOMAIN longer : m < PointOf(c + m_accumulationRange)
           /\ \A e \in Ends : Until(longer, e) >= Typed(rows, e)
<1>1. /\ IsSeries(longer)
      /\ Total(longer) = Total(points) + n
      /\ \A m \in DOMAIN longer : m < PointOf(c + m_accumulationRange)
      /\ \A e \in Ends : e < c => Until(longer, e) = Until(points, e)
      /\ \A e \in Ends : e >= c => Until(longer, e) = Total(longer)
  BY PeriodPlotted
<1>2. ASSUME NEW e \in Ends
      PROVE  Until(longer, e) >= Typed(rows, e)
  <2>1. e \in Nat /\ c \in Nat
    BY DEF Ends
  <2>2. /\ Counts(rows) \in Nat
        /\ Typed(rows, e) \in Nat /\ Typed(rows, e) <= Counts(rows)
    BY <2>1, RowsOfTable
  <2>3. CASE e < c
    BY <2>3, <1>1
  <2>4. CASE e >= c
    BY <2>2, <2>4, <1>1
  <2> QED BY <2>1, <2>3, <2>4
<1> QED BY <1>1, <1>2

LinesAmong(table, all) == \A g \in DOMAIN table : DOMAIN table[g] \subseteq DOMAIN all
IsSumOf(all, table) == \A m \in DOMAIN all : all[m] = SumAt(table, m)

LEMMA AllPlotted ==
    ASSUME NEW T, NEW K, NEW all, NEW c,
           DOMAIN K = DOMAIN T, IsFiniteSet(DOMAIN K), \A g \in DOMAIN K : K[g] \in Nat,
           LinesAmong(T, all),
           PointOf(c) \notin DOMAIN all,
           IsSumOf(all, T)
    PROVE  LET U == WithPeriod(T, K, c)
               new == addOrUpdate(all, MiddleOfPeriod(c), SumFunction(K))
           IN  /\ DOMAIN new = DOMAIN all \cup {PointOf(c)}
               /\ LinesAmong(U, new)
               /\ IsSumOf(new, U)
<1> DEFINE U == WithPeriod(T, K, c)
           new == addOrUpdate(all, MiddleOfPeriod(c), SumFunction(K))
           k == PointOf(c)
<1>1. /\ DOMAIN new = DOMAIN all \cup {k} /\ new[k] = SumFunction(K)
      /\ \A m \in DOMAIN all : m # k => new[m] = all[m]
  BY DEF addOrUpdate, PointOf
<1>2. /\ DOMAIN U = DOMAIN T
      /\ \A g \in DOMAIN T : /\ DOMAIN U[g] = DOMAIN T[g] \cup {k} /\ U[g][k] = K[g]
                            /\ \A m \in DOMAIN T[g] : m # k => U[g][m] = T[g][m]
  BY DEF WithPeriod, addOrUpdate, PointOf
<1> HIDE DEF U, new, k
<1>3. k \notin DOMAIN all
  BY DEF k
<1>4. LinesAmong(U, new)
  BY <1>1, <1>2, <1>3 DEF LinesAmong
<1>5. ASSUME NEW m \in DOMAIN all
      PROVE  new[m] = SumAt(U, m)
  <2>1. m # k
    BY <1>3
  <2>2. \A g : (g \in DOMAIN U /\ m \in DOMAIN U[g]) <=> (g \in DOMAIN T /\ m \in DOMAIN T[g])
    BY <1>2, <2>1
  <2>3. \A g \in DOMAIN T : m \in DOMAIN T[g] => U[g][m] = T[g][m]
    BY <1>2, <2>1
  <2>4. SumAt(U, m) = SumAt(T, m)
    BY <2>2, <2>3, SameSumAt
  <2> QED BY <1>1, <2>1, <2>4 DEF IsSumOf
<1>6. new[k] = SumAt(U, k)
  <2> DEFINE line == [g \in DOMAIN T |-> U[g][k]]
  <2>1. {g \in DOMAIN U : k \in DOMAIN U[g]} = DOMAIN T
    BY <1>2
  <2>2. SumAt(U, k) = SumFunction(line)
    BY <2>1 DEF SumAt
  <2>3. DOMAIN line = DOMAIN K /\ \A g \in DOMAIN K : line[g] = K[g]
    BY <1>2
  <2> HIDE DEF line
  <2>4. \A g \in DOMAIN K : K[g] \in Int
    OBVIOUS
  <2>5. SumFunctionOnSet(line, DOMAIN K) = SumFunctionOnSet(K, DOMAIN K)
    BY <2>3, <2>4, SumOfSame
  <2> QED BY <1>1, <2>2, <2>3, <2>5 DEF SumFunction
<1> QED BY <1>1, <1>4, <1>5, <1>6 DEF U, new, k, IsSumOf

LEMMA AddRowAndPlotStep == ChartInv /\ AddRowAndPlot => ChartInv'
<1> SUFFICES ASSUME ChartInv, AddRowAndPlot PROVE ChartInv'
  OBVIOUS
<1>1. /\ ChartTypes /\ TypeOK /\ AllThere /\ PeriodInv /\ AllGroupsInv /\ AllIsSum
      /\ unread # {} /\ step = "accumulate" /\ m_chartType = "ACCUMULATE"
  BY DEF ChartInv, ChartTypes, AddRowAndPlot, PeriodInv
<1>2. PICK row \in unread : row = NextRow
  BY <1>1, NextRowRead
<1> DEFINE c == rangeEndCursor
           range == m_accumulationRange
           T == Prepared(timeSeriesTable, row[2], <<>>)
           K == [Prepared(keystrokesMap, row[2], 0) EXCEPT ![row[2]] = @ + keypresses[row]]
           all == allGroupsKeystrokes + keypresses[row]
<1>3. /\ unread' = unread \ {row} /\ NameGroup(row[2]) /\ c <= Middle(row)
      /\ timeSeriesTable' = WithPeriod(T, K, c)
      /\ keystrokesMap' = Cleared(K)
      /\ allGroupsSeries' = addOrUpdate(allGroupsSeries, MiddleOfPeriod(c), all)
      /\ allGroupsKeystrokes' = 0
      /\ rangeEndCursor' = c + range
      /\ unprocessedData' = FALSE
      /\ step' = "accumulate"
      /\ UNCHANGED <<keypresses, selected, m_chartType, m_accumulationRange>>
  <2>1. Middle(row) >= c /\ Middle(row) \in Int /\ c \in Int
    <3>1. unread \subseteq DOMAIN keypresses /\ keypresses \in Tables /\ c \in Nat
      BY <1>1 DEF ChartTypes, TypeOK
    <3>2. Middle(row) \in Nat
      BY <3>1, RowsOfTable
    <3> QED BY <1>2, <3>1, <3>2 DEF AddRowAndPlot
  <2> QED BY <1>1, <1>2, <2>1 DEF AddRowAndPlot, SeriesWithRow, KeystrokesWithRow, AllWithRow, settings
<1>4. /\ row[2] \in Groups /\ keypresses[row] \in Nat /\ Middle(row) \in Nat
      /\ row \notin Read /\ Read' = Read \cup {row} /\ row \in DOMAIN keypresses
      /\ \A h \in Groups :
            /\ Strokes(row, h) \in Nat
            /\ Counts(RowsOf(Read, h)) \in Nat
            /\ Counts(RowsOf(Read, h))' = Counts(RowsOf(Read, h)) + Strokes(row, h)
            /\ \A e \in Nat : e <= Middle(row) =>
                   Typed(RowsOf(Read, h), e)' = Typed(RowsOf(Read, h), e)
  BY <1>1, <1>3, RowRead
<1>5. /\ DOMAIN K = DOMAIN timeSeriesTable \cup {row[2]}
      /\ \A h \in DOMAIN K : h \in Groups /\ K[h] = Accumulated(h) + Strokes(row, h)
      /\ \A h \in Groups \ DOMAIN K : Accumulated(h) + Strokes(row, h) = 0
      /\ IsFiniteSet(DOMAIN K)
      /\ SumFunction(keystrokesMap) \in Nat
      /\ SumFunction(K) = SumFunction(keystrokesMap) + keypresses[row]
  BY <1>1, <1>4, KeystrokesAdded
<1>6. /\ DOMAIN T = DOMAIN timeSeriesTable \cup {row[2]}
      /\ \A h \in DOMAIN timeSeriesTable : T[h] = timeSeriesTable[h]
      /\ row[2] \notin DOMAIN timeSeriesTable => T[row[2]] = <<>>
  BY DEF Prepared
<1>7. /\ c \in Ends /\ range <= c /\ range \in Nat /\ range >= 120 /\ c \in Nat
      /\ keypresses \in Tables
  BY <1>1 DEF Ends, ChartTypes, TypeOK, PeriodInv
<1> HIDE DEF T, K, all
<1>8. DOMAIN timeSeriesTable' = DOMAIN T /\ DOMAIN keystrokesMap' = DOMAIN T
  BY <1>3, <1>5, <1>6 DEF WithPeriod, Cleared
<1>9. \A h \in Groups : Plotted(SeriesOf(h)', SeriesOf(h), Accumulated(h) + Strokes(row, h), c)
  <2>1. ASSUME NEW h \in DOMAIN T
        PROVE  SeriesOf(h)' = addOrUpdate(SeriesOf(h), MiddleOfPeriod(c),
                                          Accumulated(h) + Strokes(row, h))
    <3>1. T[h] = SeriesOf(h) /\ K[h] = Accumulated(h) + Strokes(row, h)
      BY <1>5, <1>6 DEF SeriesOf
    <3>2. SeriesOf(h)' = addOrUpdate(T[h], MiddleOfPeriod(c), K[h])
      BY <1>3, <1>8 DEF SeriesOf, WithPeriod
    <3> QED BY <3>1, <3>2
  <2>2. ASSUME NEW h \in Groups \ DOMAIN T
        PROVE  SeriesOf(h)' = SeriesOf(h) /\ Accumulated(h) + Strokes(row, h) = 0
    BY <1>5, <1>6, <1>8 DEF SeriesOf
  <2> QED BY <2>1, <2>2 DEF Plotted
<1>10. \A h \in Groups : Accumulated(h)' = 0
  BY <1>3 DEF Accumulated, Cleared
<1>11. ASSUME NEW h \in Groups
       PROVE  /\ IsSeries(SeriesOf(h)')
              /\ Total(SeriesOf(h)') = Counts(RowsOf(Read, h))'
              /\ \A m \in DOMAIN SeriesOf(h)' : m < PointOf(c + range)
              /\ \A e \in Ends : Until(SeriesOf(h)', e) >= Typed(RowsOf(Read, h), e)'
  <2> DEFINE points == SeriesOf(h)
             longer == SeriesOf(h)'
             n == Accumulated(h) + Strokes(row, h)
             rows == RowsOf(Read', h)
  <2>1. IsSeries(points) /\ \A m \in DOMAIN points : m < PointOf(c)
    BY <1>1 DEF ChartTypes, PeriodInv
  <2>2. n \in Nat /\ Plotted(longer, points, n, c)
    BY <1>1, <1>4, <1>9 DEF ChartTypes
  <2>3. rows \subseteq DOMAIN keypresses
    BY <1>1, <1>4 DEF RowsOf, Read, TypeOK
  <2>4. /\ RowsOf(Read, h)' = rows /\ Counts(RowsOf(Read, h))' = Counts(rows)
        /\ \A e \in Ends : Typed(RowsOf(Read, h), e)' = Typed(rows, e)
    BY <1>3 DEF RowsOf, Counts, Typed, Middle
  <2>5. Total(points) + n = Counts(rows)
    <3>1. Total(points) + Accumulated(h) = Counts(RowsOf(Read, h))
      BY <1>1 DEF AllThere
    <3>2. Total(points) \in Nat /\ Accumulated(h) \in Nat
      BY <1>1, <2>1, SeriesUnder, 0 \in Int DEF ChartTypes
    <3> QED BY <3>1, <3>2, <2>4, <1>4
  <2>6. ASSUME NEW e \in Ends, e < c
        PROVE  Until(points, e) >= Typed(rows, e)
    <3>1. e \in Nat /\ e <= Middle(row)
      BY <1>3, <1>4, <1>7, <2>6 DEF Ends
    <3>2. Typed(rows, e) = Typed(RowsOf(Read, h), e)
      BY <1>4, <2>4, <3>1
    <3> QED BY <3>2, <2>6, <1>1 DEF PeriodInv
  <2> HIDE DEF points, longer, n, rows, c, range
  <2>7. /\ IsSeries(longer) /\ Total(longer) = Counts(rows)
        /\ \A m \in DOMAIN longer : m < PointOf(c + range)
        /\ \A e \in Ends : Until(longer, e) >= Typed(rows, e)
    BY <1>7, <2>1, <2>2, <2>3, <2>5, <2>6, GroupPlotted DEF range
  <2> QED BY <2>4, <2>7 DEF longer
<1>12. c + range \in Ends /\ PointOf(c) < PointOf(c + range) /\ PointOf(c) \in Int
  BY <1>7, PointOfPeriod
<1>13. DOMAIN allGroupsSeries \subseteq Int
  BY <1>1 DEF ChartTypes
<1>14. all = SumFunction(K)
  BY <1>1, <1>5 DEF AllGroupsInv, all
<1>15. /\ DOMAIN allGroupsSeries' = DOMAIN allGroupsSeries \cup {PointOf(c)}
       /\ \A h \in DOMAIN timeSeriesTable' :
              DOMAIN timeSeriesTable'[h] \subseteq DOMAIN allGroupsSeries'
       /\ \A m \in DOMAIN allGroupsSeries' : allGroupsSeries'[m] = SumAt(timeSeriesTable', m)
  <2>1. DOMAIN K = DOMAIN T
    BY <1>5, <1>6
  <2>2. \A h \in DOMAIN K : K[h] \in Nat
    BY <1>1, <1>4, <1>5 DEF ChartTypes
  <2>3. IsFiniteSet(DOMAIN K)
    BY <1>5
  <2>4. LinesAmong(T, allGroupsSeries)
    <3>1. \A h \in DOMAIN T : T[h] = SeriesOf(h)
      BY <1>6 DEF SeriesOf
    <3> QED BY <3>1, <1>1, <1>5, <2>1 DEF AllGroupsInv, LinesAmong
  <2>5. PointOf(c) \notin DOMAIN allGroupsSeries
    BY <1>1, <1>12 DEF AllGroupsInv
  <2>6. IsSumOf(allGroupsSeries, T)
    <3>1. \A m : SumAt(T, m) = SumAt(timeSeriesTable, m)
      BY <1>6, NoPoints, SameSumAt
    <3>2. \A m \in DOMAIN allGroupsSeries : allGroupsSeries[m] = SumAt(timeSeriesTable, m)
      BY <1>1 DEF AllIsSum, SumAt
    <3> QED BY <3>1, <3>2 DEF IsSumOf
  <2> DEFINE U == WithPeriod(T, K, c)
             new == addOrUpdate(allGroupsSeries, MiddleOfPeriod(c), SumFunction(K))
  <2>7. timeSeriesTable' = U /\ allGroupsSeries' = new
    BY <1>3, <1>14
  <2> HIDE DEF c
  <2>8. /\ DOMAIN new = DOMAIN allGroupsSeries \cup {PointOf(c)}
        /\ LinesAmong(U, new) /\ IsSumOf(new, U)
    BY <2>1, <2>2, <2>3, <2>4, <2>5, <2>6, AllPlotted
  <2> HIDE DEF U, new
  <2> QED BY <2>7, <2>8 DEF LinesAmong, IsSumOf
<1>16. ChartTypes'
  <2>1. /\ DOMAIN timeSeriesTable' = {r[2] : r \in Read'}
        /\ DOMAIN timeSeriesTable' \subseteq DOMAIN m_groupIdToName'
    BY <1>1, <1>3, <1>4, <1>6, <1>8, GroupsRead
  <2>2. rangeEndCursor' \in Nat /\ rangeEndCursor' % m_accumulationRange' = 0
    BY <1>3, <1>12 DEF Ends
  <2>3. TypeOK'
    BY <1>1, <1>3, <1>8, <2>1, <2>2 DEF TypeOK
  <2>4. \A h \in Groups : IsSeries(SeriesOf(h))' /\ Accumulated(h)' \in Nat
    BY <1>10, <1>11 DEF IsSeries
  <2>5. DOMAIN allGroupsSeries' \subseteq Int
    BY <1>12, <1>13, <1>15
  <2> QED BY <1>3, <1>7, <2>2, <2>3, <2>4, <2>5 DEF ChartTypes
<1>17. AllThere'
  <2>1. ASSUME NEW h \in Groups
        PROVE  (Total(SeriesOf(h)) + Accumulated(h) = Counts(RowsOf(Read, h)))'
    <3>1. Total(SeriesOf(h))' = Total(SeriesOf(h)') /\ Total(SeriesOf(h)') = Counts(RowsOf(Read, h))'
      BY <1>11 DEF Total, Points
    <3>2. Counts(RowsOf(Read, h))' \in Nat
      BY <1>4
    <3> QED BY <3>1, <3>2, <1>10
  <2> QED BY <2>1 DEF AllThere
<1>18. QueryInv' /\ FinishedInv'
  BY <1>3 DEF QueryInv, FinishedInv
<1>19. PeriodInv'
  <2>1. \A q \in unread : Middle(row) <= Middle(q) /\ Middle(q) \in Nat
    <3>1. unread \subseteq DOMAIN keypresses
      BY <1>1 DEF TypeOK
    <3> QED BY <3>1, <1>1, <1>2, <1>7, NextRowRead, RowsOfTable
  <2>2. (\A q \in unread : rangeEndCursor - m_accumulationRange <= Middle(q))'
    <3>1. rangeEndCursor' - m_accumulationRange' = c
      BY <1>3, <1>7
    <3>2. \A q \in unread' : c <= Middle(q)
      BY <2>1, <1>3, <1>4, <1>7
    <3> QED BY <3>1, <3>2 DEF Middle
  <2>3. \A h \in Groups : \A m \in DOMAIN SeriesOf(h)' : m < PointOf(rangeEndCursor)'
    BY <1>3, <1>11 DEF PointOf, MiddleOfPeriod
  <2>4. ASSUME NEW h \in Groups, NEW e \in Ends'
        PROVE  (Until(SeriesOf(h), e) >= Typed(RowsOf(Read, h), e))'
    <3>1. e \in Ends
      BY <1>3, <2>4 DEF Ends
    <3> QED BY <3>1, <1>11 DEF Until, Points, Under
  <2>5. (\A g \in Groups :
            /\ \A m \in DOMAIN SeriesOf(g) : m < PointOf(rangeEndCursor)
            /\ \A e \in Ends : e < rangeEndCursor =>
                  Until(SeriesOf(g), e) >= Typed(RowsOf(Read, g), e))'
    BY <2>3, <2>4
  <2>6. (m_accumulationRange <= rangeEndCursor)'
    BY <1>3, <1>7
  <2>7. (\A g \in Groups : Accumulated(g) = 0)'
    BY <1>10
  <2> QED BY <1>1, <1>3, <2>2, <2>5, <2>6, <2>7 DEF PeriodInv
<1>20. AllGroupsInv'
  <2>1. SumFunction(keystrokesMap') = 0
    <3>1. DOMAIN keystrokesMap' = DOMAIN K /\ \A h \in DOMAIN K : keystrokesMap'[h] = 0
      BY <1>3 DEF Cleared
    <3> QED BY <3>1, <1>5, SumOfZeros DEF SumFunction
  <2>2. \A h \in Groups : DOMAIN SeriesOf(h)' \subseteq DOMAIN allGroupsSeries'
    BY <1>15, NoPoints DEF SeriesOf
  <2>3. \A m \in DOMAIN allGroupsSeries' : m < PointOf(c + range)
    <3>1. \A m \in DOMAIN allGroupsSeries : m \in Int /\ m < PointOf(c)
      BY <1>1, <1>13 DEF AllGroupsInv
    <3>2. PointOf(c + range) \in Int
      BY <1>7 DEF PointOf, Minute, MiddleOfPeriod
    <3> QED BY <3>1, <3>2, <1>12, <1>15
  <2>4. PointOf(rangeEndCursor)' = PointOf(c + range)
    BY <1>3 DEF PointOf, MiddleOfPeriod
  <2> QED BY <1>3, <2>1, <2>2, <2>3, <2>4 DEF AllGroupsInv
<1>21. AllIsSum'
  BY <1>15 DEF AllIsSum, SumAt
<1> QED BY <1>16, <1>17, <1>18, <1>19, <1>20, <1>21 DEF ChartInv

LEMMA LastPeriodStep == ChartInv /\ LastPeriod => ChartInv'
<1> SUFFICES ASSUME ChartInv, LastPeriod PROVE ChartInv'
  OBVIOUS
<1> DEFINE c == rangeEndCursor
<1>1. /\ ChartTypes /\ TypeOK /\ AllThere /\ PeriodInv /\ AllGroupsInv /\ AllIsSum
      /\ unread = {} /\ step = "accumulate" /\ m_chartType = "ACCUMULATE"
  BY DEF ChartInv, ChartTypes, LastPeriod, PeriodInv
<1>2. /\ step' = "chart"
      /\ UNCHANGED <<keypresses, m_groupIdToName, m_chartType, m_accumulationRange, selected, unread,
                     rangeEndCursor, allGroupsKeystrokes, unprocessedData>>
  BY DEF LastPeriod, settings, resultSet
<1>3. \/ /\ unprocessedData
         /\ timeSeriesTable' = WithPeriod(timeSeriesTable, keystrokesMap, c)
         /\ allGroupsSeries' = addOrUpdate(allGroupsSeries, MiddleOfPeriod(c), allGroupsKeystrokes)
         /\ keystrokesMap' = Cleared(keystrokesMap)
      \/ /\ ~unprocessedData
         /\ UNCHANGED <<timeSeriesTable, allGroupsSeries, keystrokesMap>>
  BY DEF LastPeriod, series
<1>4. /\ c \in Ends /\ m_accumulationRange <= c
      /\ m_accumulationRange \in Nat /\ m_accumulationRange >= 120 /\ c \in Nat
      /\ keypresses \in Tables
  BY <1>1 DEF Ends, ChartTypes, TypeOK, PeriodInv
<1>5. /\ DOMAIN keystrokesMap = DOMAIN timeSeriesTable
      /\ DOMAIN timeSeriesTable' = DOMAIN timeSeriesTable
      /\ DOMAIN keystrokesMap' = DOMAIN timeSeriesTable
  BY <1>1, <1>3 DEF TypeOK, WithPeriod, Cleared
<1>6. /\ \A h \in Groups : Plotted(SeriesOf(h)', SeriesOf(h), Accumulated(h), c)
      /\ \A h \in Groups : Accumulated(h)' = 0
  <2>1. CASE unprocessedData
    <3>1. ASSUME NEW h \in DOMAIN timeSeriesTable
          PROVE  SeriesOf(h)' = addOrUpdate(SeriesOf(h), MiddleOfPeriod(c), Accumulated(h))
      BY <2>1, <1>3, <1>5 DEF SeriesOf, Accumulated, WithPeriod
    <3>2. ASSUME NEW h \in Groups \ DOMAIN timeSeriesTable
          PROVE  SeriesOf(h)' = SeriesOf(h) /\ Accumulated(h) = 0
      BY <1>5 DEF SeriesOf, Accumulated
    <3>3. \A h \in Groups : Accumulated(h)' = 0
      BY <2>1, <1>3 DEF Accumulated, Cleared
    <3> QED BY <3>1, <3>2, <3>3 DEF Plotted
  <2>2. CASE ~unprocessedData
    <3>1. \A h \in Groups : SeriesOf(h)' = SeriesOf(h) /\ Accumulated(h)' = Accumulated(h)
      BY <2>2, <1>3 DEF SeriesOf, Accumulated
    <3>2. \A h \in Groups : Accumulated(h) = 0
      BY <2>2, <1>1 DEF PeriodInv
    <3> QED BY <3>1, <3>2 DEF Plotted
  <2> QED BY <2>1, <2>2
<1>7. ASSUME NEW h \in Groups
      PROVE  /\ IsSeries(SeriesOf(h)')
             /\ Total(SeriesOf(h)') = Counts(RowsOf(Read, h))
             /\ Counts(RowsOf(Read, h)) \in Nat
             /\ \A e \in Ends : Until(SeriesOf(h)', e) >= Typed(RowsOf(Read, h), e)
  <2> DEFINE points == SeriesOf(h)
             longer == SeriesOf(h)'
             n == Accumulated(h)
             rows == RowsOf(Read, h)
  <2>1. IsSeries(points) /\ \A m \in DOMAIN points : m < PointOf(c)
    BY <1>1 DEF ChartTypes, PeriodInv
  <2>2. n \in Nat /\ Plotted(longer, points, n, c)
    BY <1>1, <1>6 DEF ChartTypes
  <2>3. rows \subseteq DOMAIN keypresses
    BY <1>1 DEF RowsOf, Read, TypeOK
  <2>4. Total(points) + n = Counts(rows)
    BY <1>1 DEF AllThere
  <2>5. \A e \in Ends : e < c => Until(points, e) >= Typed(rows, e)
    BY <1>1 DEF PeriodInv
  <2>6. Counts(rows) \in Nat
    BY <1>4, <2>3, RowsOfTable
  <2> HIDE DEF points, longer, n, rows, c
  <2>7. /\ IsSeries(longer) /\ Total(longer) = Counts(rows)
        /\ \A e \in Ends : Until(longer, e) >= Typed(rows, e)
    BY <1>4, <2>1, <2>2, <2>3, <2>4, <2>5, GroupPlotted
  <2> QED BY <2>6, <2>7 DEF longer, rows
<1>8. /\ \A h \in Groups : RowsOf(Read, h)' = RowsOf(Read, h)
      /\ \A h \in Groups : Counts(RowsOf(Read, h))' = Counts(RowsOf(Read, h))
      /\ \A h \in Groups : \A e \in Ends :
             Typed(RowsOf(Read, h), e)' = Typed(RowsOf(Read, h), e)
  BY <1>2 DEF RowsOf, Read, Counts, Typed, Middle
<1>9. /\ DOMAIN allGroupsSeries' \subseteq Int
      /\ IsSumOf(allGroupsSeries', timeSeriesTable')
  <2>1. /\ DOMAIN allGroupsSeries \subseteq Int
        /\ IsSumOf(allGroupsSeries, timeSeriesTable)
    BY <1>1 DEF ChartTypes, AllIsSum, IsSumOf, SumAt
  <2>2. CASE unprocessedData
    <3> DEFINE T == timeSeriesTable
               K == keystrokesMap
               U == WithPeriod(T, K, c)
               new == addOrUpdate(allGroupsSeries, MiddleOfPeriod(c), SumFunction(K))
    <3>1. DOMAIN K = DOMAIN T
      BY <1>5
    <3>2. DOMAIN T \subseteq Groups /\ IsFiniteSet(DOMAIN K)
      <4> DEFINE group == [r \in Read |-> r[2]]
      <4>1. Read \subseteq DOMAIN keypresses
        BY <1>1 DEF Read, TypeOK
      <4>2. IsFiniteSet(Read) /\ \A r \in Read : r[2] \in Groups
        BY <4>1, <1>4, RowsOfTable
      <4>3. DOMAIN T = {r[2] : r \in Read}
        BY <1>1 DEF TypeOK
      <4>4. group \in Surjection(Read, DOMAIN K)
        BY <3>1, <4>3 DEF Surjection
      <4> QED BY <4>2, <4>3, <4>4, FS_Surjection
    <3>3. \A h \in DOMAIN K : K[h] \in Nat
      BY <1>1, <3>1, <3>2 DEF ChartTypes, Accumulated
    <3>4. LinesAmong(T, allGroupsSeries)
      BY <1>1, <3>2 DEF LinesAmong, AllGroupsInv, SeriesOf
    <3>5. PointOf(c) \in Int
      BY <1>4, PointOfPeriod
    <3>6. PointOf(c) \notin DOMAIN allGroupsSeries
      BY <1>1, <3>5 DEF AllGroupsInv
    <3>7. timeSeriesTable' = U /\ allGroupsSeries' = new
      BY <1>1, <1>3, <2>2 DEF AllGroupsInv
    <3> HIDE DEF c, K, T
    <3>8. /\ DOMAIN new = DOMAIN allGroupsSeries \cup {PointOf(c)}
          /\ LinesAmong(U, new) /\ IsSumOf(new, U)
      BY <2>1, <3>1, <3>2, <3>3, <3>4, <3>6, AllPlotted DEF T
    <3> HIDE DEF U, new
    <3> QED BY <2>1, <3>5, <3>7, <3>8
  <2>3. CASE ~unprocessedData
    BY <2>1, <2>3, <1>3
  <2> QED BY <2>2, <2>3
<1>10. ChartTypes'
  <2>1. TypeOK'
    BY <1>1, <1>2, <1>5 DEF TypeOK, Read
  <2>2. \A h \in Groups : IsSeries(SeriesOf(h))' /\ Accumulated(h)' \in Nat
    BY <1>6, <1>7 DEF IsSeries
  <2> QED BY <1>1, <1>2, <1>9, <2>1, <2>2 DEF ChartTypes
<1>11. AllThere'
  <2>1. ASSUME NEW h \in Groups
        PROVE  (Total(SeriesOf(h)) + Accumulated(h) = Counts(RowsOf(Read, h)))'
    <3>1. Total(SeriesOf(h))' = Total(SeriesOf(h)')
      BY DEF Total, Points
    <3> QED BY <3>1, <1>6, <1>7, <1>8
  <2> QED BY <2>1 DEF AllThere
<1>12. QueryInv' /\ PeriodInv' /\ AllGroupsInv'
  BY <1>2 DEF QueryInv, PeriodInv, AllGroupsInv
<1>13. FinishedInv'
  <2>1. ASSUME NEW h \in Groups, NEW e \in Ends'
        PROVE  (Until(SeriesOf(h), e) >= Typed(RowsOf(Read, h), e))'
    <3>1. e \in Ends
      BY <1>2, <2>1 DEF Ends
    <3> QED BY <3>1, <1>7, <1>8 DEF Until, Points, Under
  <2>2. (\A h \in Groups : Accumulated(h) = 0)'
    BY <1>6
  <2>3. (\A h \in Groups : InTime(h))'
    BY <2>1 DEF InTime
  <2> QED BY <1>1, <1>2, <2>2, <2>3 DEF FinishedInv
<1>14. AllIsSum'
  BY <1>9 DEF AllIsSum, IsSumOf, SumAt
<1> QED BY <1>10, <1>11, <1>12, <1>13, <1>14 DEF ChartInv

-----------------------------------------------------------------------------
(* The theorems                                                            *)

LEMMA StutterStep == ChartInv /\ UNCHANGED vars => ChartInv'
<1> SUFFICES ASSUME ChartInv, UNCHANGED vars PROVE ChartInv'
  OBVIOUS
<1> USE DEF vars, settings, resultSet, accumulators, series
<1>1. ChartTypes'
  BY DEF ChartInv, ChartTypes, TypeOK, Read, SeriesOf, Accumulated
<1>2. AllThere'
  BY DEF ChartInv, AllThere, SeriesOf, Accumulated, Total, Points, Counts, Read
<1>3. QueryInv'
  BY DEF ChartInv, QueryInv, SeriesOf, RowsOf, Read, Middle, Minute
<1> DEFINE Same(g) == /\ SeriesOf(g)' = SeriesOf(g) /\ Accumulated(g)' = Accumulated(g)
                      /\ \A e \in Ends : /\ Until(SeriesOf(g), e)' = Until(SeriesOf(g), e)
                                        /\ Typed(RowsOf(Read, g), e)' = Typed(RowsOf(Read, g), e)
<1>4. \A g : Same(g)
  BY DEF SeriesOf, Accumulated, Until, Points, Under, Typed, Counts, RowsOf, Read, Middle
<1>5. PeriodInv'
  BY <1>4 DEF ChartInv, PeriodInv, PointOf, MiddleOfPeriod, Middle, Ends
<1>6. AllGroupsInv'
  BY <1>4 DEF ChartInv, AllGroupsInv, PointOf, MiddleOfPeriod
<1>7. FinishedInv'
  BY <1>4 DEF ChartInv, FinishedInv, InTime, Ends
<1>8. AllIsSum'
  BY DEF ChartInv, AllIsSum
<1> QED BY <1>1, <1>2, <1>3, <1>5, <1>6, <1>7, <1>8 DEF ChartInv

LEMMA ChartInvariant == Spec => []ChartInv
<1>1. ChartInv /\ [Next]_vars => ChartInv'
  BY UpdateStep, SqlExceptionStep, ReadSimpleRowStep, NoMoreRowsStep, FirstRowStep, AddRowStep,
     AddRowAndPlotStep, LastPeriodStep, StutterStep DEF Next
<1> QED BY InitChart, <1>1, PTL DEF Spec

\* What has a series is a group.
LEMMA SeriesAreOfGroups ==
    ASSUME ChartTypes, NEW g \in DOMAIN timeSeriesTable
    PROVE  g \in Groups
<1>1. PICK r \in Read : g = r[2]
  BY DEF ChartTypes, TypeOK
<1>2. r \in DOMAIN keypresses /\ keypresses \in Tables
  BY DEF Read, ChartTypes, TypeOK
<1> QED BY <1>1, <1>2, ChartAssumption

\* The hash tables of a chart have the groups of the rows read, and periods end
\* at multiples of their length (createAverageDataset).
THEOREM TypeCorrect == Spec => []TypeOK
<1>1. ChartInv => TypeOK
  BY DEF ChartInv, ChartTypes
<1> QED BY <1>1, ChartInvariant, PTL

\* Each key stroke of the rows read is in the chart or accumulated, once: the
\* points that addOrUpdate makes are new, and e.setValue(0) follows each of them.
THEOREM AccountedTheorem == Spec => []Accounted
<1>1. ChartInv => Accounted
  <2> SUFFICES ASSUME ChartInv, NEW g \in DOMAIN timeSeriesTable
               PROVE  Points(timeSeriesTable[g], DOMAIN timeSeriesTable[g])
                        + (IF g \in DOMAIN keystrokesMap THEN keystrokesMap[g] ELSE 0)
                           = Counts(RowsOf(Read, g))
    BY DEF Accounted
  <2>1. g \in Groups
    BY SeriesAreOfGroups DEF ChartInv
  <2> QED BY <2>1 DEF ChartInv, AllThere, SeriesOf, Accumulated, Total
<1> QED BY <1>1, ChartInvariant, PTL

\* A finished chart has all key strokes of the rows of the SELECT: what is left
\* after the loop of createAverageDataset is plotted.
THEOREM ChartCompleteTheorem == Spec => []ChartComplete
<1>1. ChartInv => ChartComplete
  <2> SUFFICES ASSUME ChartInv, step = "chart", NEW g \in DOMAIN timeSeriesTable
               PROVE  Points(timeSeriesTable[g], DOMAIN timeSeriesTable[g])
                           = Counts(RowsOf(selected, g))
    BY DEF ChartComplete
  <2>1. g \in Groups
    BY SeriesAreOfGroups DEF ChartInv
  <2>2. unread = {} /\ Accumulated(g) = 0
    BY <2>1 DEF ChartInv, FinishedInv
  <2>3. Read = selected
    BY <2>2 DEF Read
  <2>4. Total(SeriesOf(g)) + Accumulated(g) = Counts(RowsOf(Read, g))
    BY <2>1 DEF ChartInv, AllThere
  <2>5. Total(SeriesOf(g)) \in Nat
    BY <2>1, SeriesUnder, 0 \in Int DEF ChartInv, ChartTypes
  <2>6. Total(SeriesOf(g)) = Counts(RowsOf(selected, g))
    BY <2>2, <2>3, <2>4, <2>5
  <2> QED BY <2>6 DEF Total, SeriesOf
<1> QED BY <1>1, ChartInvariant, PTL

\* The line "all" is the sum of the lines of the groups, at each of its points.
THEOREM AllIsSumTheorem == Spec => []AllIsSum
<1>1. ChartInv => AllIsSum
  BY DEF ChartInv
<1> QED BY <1>1, ChartInvariant, PTL

\* Up to the end of any period the chart has at least the key strokes of the rows.
THEOREM NeverLateTheorem == Spec => []NeverLate
<1>1. ChartInv => NeverLate
  <2> SUFFICES ASSUME ChartInv, step = "chart", m_chartType = "ACCUMULATE",
                      NEW g \in DOMAIN timeSeriesTable, NEW q \in selected
               PROVE  LET e == PeriodEnd(Middle(q))
                          points == timeSeriesTable[g]
                      IN  Points(points, {m \in DOMAIN points : m < Minute(e)})
                              >= Counts({r \in RowsOf(selected, g) : Middle(r) < e})
    BY DEF NeverLate
  <2>1. g \in Groups
    BY SeriesAreOfGroups DEF ChartInv
  <2>2. Read = selected /\ InTime(g)
    BY <2>1 DEF ChartInv, FinishedInv, Read
  <2>3. Middle(q) \in Nat
    <3>1. selected \subseteq DOMAIN keypresses /\ keypresses \in Tables
      BY DEF ChartInv, ChartTypes, TypeOK
    <3> QED BY <3>1, RowsOfTable
  <2>4. PeriodEnd(Middle(q)) \in Ends
    BY <2>3, EndOfPeriod DEF ChartInv, ChartTypes
  <2>5. Until(SeriesOf(g), PeriodEnd(Middle(q))) >= Typed(RowsOf(selected, g), PeriodEnd(Middle(q)))
    BY <2>2, <2>4 DEF InTime
  <2> QED BY <2>5 DEF Until, Under, SeriesOf, Typed
<1> QED BY <1>1, ChartInvariant, PTL
=============================================================================
