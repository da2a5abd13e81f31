------------------------ MODULE StorageSchema_proofs ------------------------
(***************************************************************************)
(* Proofs about StorageSchema, for every width of int, every size of a     *)
(* cluster, every clock, and any number of presses, kills and charts.      *)
(***************************************************************************)
EXTENDS StorageSchema, Sums_proofs, SequenceTheorems

-----------------------------------------------------------------------------
(* The time of a cluster                                                   *)

LEMMA SizeIsPositive == m_clusterSize \in Nat \ {0} /\ IntMax \in Nat
BY IntAssumption

\* What is left when the remainder is taken away has no remainder.
LEMMA NoRemainder ==
    ASSUME NEW n \in Int, NEW m \in Nat \ {0}
    PROVE  n % m \in 0..(m - 1) /\ (n - (n % m)) % m = 0
<1>1. n % m \in 0..(m - 1) /\ n \div m \in Int /\ n = m * (n \div m) + (n % m)
  OBVIOUS
<1>2. n - (n % m) = m * (n \div m)
  BY <1>1
<1>3. \A q \in Int : (m * q) % m = 0
  OBVIOUS
<1> QED BY <1>1, <1>2, <1>3

\* Rounding a time that is rounded changes nothing, on both sides of 1970: the
\* key of the cache and the statement mean the same row.
THEOREM RoundedOnce ==
    ASSUME NEW t \in Int
    PROVE  /\ getClusterStart(t) \in Int
           /\ getClusterStart(getClusterStart(t)) = getClusterStart(t)
<1> USE SizeIsPositive
<1>1. CASE t >= 0
  <2>1. /\ t % m_clusterSize \in 0..(m_clusterSize - 1)
        /\ (t - (t % m_clusterSize)) % m_clusterSize = 0
    BY <1>1, NoRemainder
  <2>2. getClusterStart(t) = t - (t % m_clusterSize)
    BY <1>1 DEF getClusterStart, Remainder
  <2>3. t - (t % m_clusterSize) >= 0
    <3>1. t % m_clusterSize <= t
      BY <1>1, <2>1
    <3> QED BY <1>1, <2>1, <3>1
  <2> QED BY <1>1, <2>1, <2>2, <2>3 DEF getClusterStart, Remainder
<1>2. CASE t < 0
  <2> DEFINE u == -t
  <2>1. u \in Int /\ u > 0
    BY <1>2
  <2>2. /\ u % m_clusterSize \in 0..(m_clusterSize - 1)
        /\ (u - (u % m_clusterSize)) % m_clusterSize = 0
    BY <2>1, NoRemainder
  <2>3. getClusterStart(t) = -(u - (u % m_clusterSize))
    BY <1>2, <2>2 DEF getClusterStart, Remainder
  <2>4. u - (u % m_clusterSize) >= 0
    <3>1. u % m_clusterSize <= u
      BY <2>1, <2>2
    <3> QED BY <2>1, <2>2, <3>1
  <2> DEFINE v == u - (u % m_clusterSize)
  <2>5. v \in Int /\ v >= 0 /\ v % m_clusterSize = 0 /\ getClusterStart(t) = -v
    BY <2>1, <2>2, <2>3, <2>4
  <2>6. Remainder(-v, m_clusterSize) = 0
    <3> HIDE DEF v
    <3>1. CASE v = 0
      BY <2>5, <3>1 DEF Remainder
    <3>2. CASE v > 0
      BY <2>5, <3>2 DEF Remainder
    <3> QED BY <2>5, <3>1, <3>2
  <2> HIDE DEF v
  <2> QED BY <2>5, <2>6 DEF getClusterStart
<1> QED BY <1>1, <1>2

\* A time is rounded toward 1970, so an int is rounded to an int.
LEMMA RoundsInside ==
    ASSUME NEW n \in Ints
    PROVE  getClusterStart(n) \in Ints
<1> USE SizeIsPositive
<1>1. CASE n >= 0
  <2>1. n % m_clusterSize \in 0..(m_clusterSize - 1) /\ n % m_clusterSize <= n
    <3>1. n \in Nat
      BY <1>1 DEF Ints
    <3> QED BY <3>1
  <2> QED BY <1>1, <2>1 DEF getClusterStart, Remainder, Ints
<1>2. CASE n < 0
  <2> DEFINE u == -n
  <2>1. u \in Int /\ u > 0 /\ u <= IntMax + 1
    BY <1>2 DEF Ints
  <2>2. u % m_clusterSize \in 0..(m_clusterSize - 1) /\ u % m_clusterSize <= u
    <3> HIDE DEF u
    <3>1. u \in Nat
      BY <2>1
    <3> QED BY <3>1
  <2>3. getClusterStart(n) = -(u - (u % m_clusterSize))
    BY <1>2, <2>2 DEF getClusterStart, Remainder, Ints
  <2> HIDE DEF u
  <2> QED BY <2>1, <2>2, <2>3 DEF Ints
<1> QED BY <1>1, <1>2 DEF Ints

\* A conversion to int gives an int, and changes none.
LEMMA ConvertsToInt ==
    ASSUME NEW n \in Int
    PROVE  ToInt(n) \in Ints /\ (n \in Ints => ToInt(n) = n)
<1> DEFINE w == 2 * (IntMax + 1)
<1>1. w \in Nat \ {0} /\ IntMax \in Nat
  BY SizeIsPositive
<1>2. (n + IntMax + 1) % w \in 0..(w - 1)
  <2> HIDE DEF w
  <2> QED BY <1>1, NoRemainder
<1>3. n \in Ints => (n + IntMax + 1) % w = n + IntMax + 1
  <2>1. n \in Ints => n + IntMax + 1 \in 0..(w - 1)
    BY <1>1 DEF Ints
  <2>2. \A k \in 0..(w - 1) : k % w = k
    <3> HIDE DEF w
    <3> QED BY <1>1
  <2> QED BY <2>1, <2>2
<1> QED BY <1>1, <1>2, <1>3 DEF ToInt, Ints

LEMMA TimesAreInts ==
    ASSUME NEW time \in Int
    PROVE  CachedTime(time) \in Ints /\ getClusterStart(CachedTime(time)) = CachedTime(time)
<1>1. ToInt(time) \in Ints /\ ToInt(time) \in Int
  BY ConvertsToInt, SizeIsPositive DEF Ints
<1> QED BY <1>1, RoundsInside, RoundedOnce DEF CachedTime

\* The numbers that are rounded down to a multiple of m are those from it to the next.
LEMMA RoundedDown ==
    ASSUME NEW m \in Nat \ {0}, NEW a \in Nat, NEW b \in Nat, b % m = 0
    PROVE  a - (a % m) = b <=> b <= a /\ a < b + m
<1>1. a % m \in 0..(m - 1) /\ a \div m \in Int /\ a = m * (a \div m) + (a % m)
  OBVIOUS
<1>2. b \div m \in Int /\ b = m * (b \div m)
  OBVIOUS
<1> DEFINE d == (a \div m) - (b \div m)
<1>3. d \in Int /\ m * d = m * (a \div m) - m * (b \div m)
  BY <1>1, <1>2
<1>4. m * d \in Int /\ a = b + m * d + (a % m)
  BY <1>1, <1>2, <1>3
<1> HIDE DEF d
<1>5. CASE d = 0
  BY <1>1, <1>4, <1>5
<1>6. CASE d >= 1
  <2>1. m * d >= m
    BY <1>3, <1>6
  <2> QED BY <1>1, <1>4, <2>1
<1>7. CASE d <= -1
  <2>1. m * d <= -m
    BY <1>3, <1>7
  <2> QED BY <1>1, <1>4, <2>1
<1> QED BY <1>3, <1>5, <1>6, <1>7

\* The ints of a row: from its beginning, but before 1970 up to it, and around 1970
\* the two clusters that share the row 0.
Seconds(begin) == {n \in Ints : /\ begin >= 0 => n < begin + m_clusterSize
                                /\ begin > 0 => n >= begin
                                /\ begin <= 0 => n > begin - m_clusterSize
                                /\ begin < 0 => n <= begin}

\* The presses at times that are narrowed to one of them.
Narrowed(begin) == SumFunctionOnSet(pressed, {t \in Clock : ToInt(t) \in Seconds(begin)})

\* The ints that are rounded to a cluster are its seconds, before 1970, around it
\* and after it.
LEMMA RoundedSeconds ==
    ASSUME NEW k \in Ints, NEW b \in Int, getClusterStart(b) = b
    PROVE  getClusterStart(k) = b <=> k \in Seconds(b)
<1> DEFINE m == m_clusterSize
<1>1. m \in Nat \ {0} /\ k \in Int
  BY SizeIsPositive DEF Ints
<1>2. (b >= 0 => b % m = 0) /\ (b < 0 => (-b) % m = 0)
  BY <1>1 DEF getClusterStart, Remainder
<1>3. CASE k >= 0
  <2>1. getClusterStart(k) = k - (k % m) /\ k % m \in 0..(m - 1)
    BY <1>1, <1>3, NoRemainder DEF getClusterStart, Remainder
  <2>2. CASE b >= 0
    <3>1. k - (k % m) = b <=> b <= k /\ k < b + m
      <4> HIDE DEF m
      <4> QED BY <1>1, <1>2, <1>3, <2>2, RoundedDown
    <3> QED BY <1>1, <1>3, <2>1, <2>2, <3>1 DEF Seconds
  <2>3. CASE b < 0
    <3>1. k % m <= k
      <4> HIDE DEF m
      <4> QED BY <1>1, <1>3
    <3> QED BY <1>1, <1>3, <2>1, <2>3, <3>1 DEF Seconds
  <2> QED BY <2>2, <2>3
<1>4. CASE k < 0
  <2> DEFINE u == -k
  <2>1. u \in Nat /\ u > 0 /\ u % m \in 0..(m - 1) /\ getClusterStart(k) = -(u - (u % m))
    <3>1. u \in Nat /\ u > 0
      BY <1>1, <1>4
    <3>2. u % m \in 0..(m - 1)
      <4> HIDE DEF m, u
      <4> QED BY <1>1, <3>1, NoRemainder
    <3> QED BY <1>1, <1>4, <3>1, <3>2 DEF getClusterStart, Remainder
  <2>2. CASE b <= 0
    <3> DEFINE c == -b
    <3>1. c \in Nat /\ c % m = 0
      <4>1. CASE b = 0
        BY <1>2, <4>1
      <4>2. CASE b < 0
        BY <1>2, <4>2
      <4> QED BY <2>2, <4>1, <4>2
    <3>2. u - (u % m) = c <=> c <= u /\ u < c + m
      <4> HIDE DEF m, u, c
      <4> QED BY <1>1, <2>1, <3>1, RoundedDown
    <3> QED BY <1>1, <1>4, <2>1, <2>2, <3>2 DEF Seconds
  <2>3. CASE b > 0
    <3>1. u % m <= u
      <4> HIDE DEF m, u
      <4> QED BY <1>1, <2>1
    <3> QED BY <1>1, <1>4, <2>1, <2>3, <3>1 DEF Seconds
  <2> QED BY <2>2, <2>3
<1> QED BY <1>1, <1>3, <1>4

-----------------------------------------------------------------------------
(* What the invariant says of the table                                    *)

LEMMA FiniteData ==
    IsFiniteSet(Clock) /\ IsFiniteSet(Ints) /\ Clock \subseteq Int /\ Ints \subseteq Int
<1>1. /\ IntMax \in Nat /\ Clock \subseteq -IntMax - 1 .. 2 * IntMax + 1
      /\ IsFiniteSet(-IntMax - 1 .. 2 * IntMax + 1) /\ IsFiniteSet(Ints)
  BY SizeIsPositive, IntAssumption, FS_Interval DEF Ints
<1>2. IsFiniteSet(Clock)
  BY <1>1, FS_Subset
<1> QED BY <1>1, <1>2 DEF Ints

LEMMA RowsAreSequence ==
    ASSUME NEW table2 \in Seq(RowRecords)
    PROVE  /\ DOMAIN table2 = 1..Len(table2) /\ Len(table2) \in Nat
           /\ IsFiniteSet(DOMAIN table2)
           /\ \A i \in DOMAIN table2 :
                  /\ table2[i] \in RowRecords
                  /\ table2[i].count \in Nat
                  /\ table2[i].cluster_begin \in Ints
                  /\ table2[i].cluster_end \in Ints
<1>1. DOMAIN table2 = 1..Len(table2) /\ Len(table2) \in Nat
  BY LenProperties
<1>2. IsFiniteSet(1..Len(table2))
  BY <1>1, FS_Interval
<1>3. \A i \in DOMAIN table2 : table2[i] \in RowRecords
  BY <1>1, ElementOfSeq
<1> QED BY <1>1, <1>2, <1>3 DEF RowRecords

\* A row as NewRow makes it, of a time that is rounded.
LEMMA NewRowType ==
    ASSUME NEW t \in Ints, getClusterStart(t) = t
    PROVE  NewRow(t, 1) \in RowRecords /\ NewRow(t, 1).cluster_begin = t
           /\ NewRow(t, 1).cluster_end = ToInt(t + m_clusterSize) /\ NewRow(t, 1).count = 1
<1>1. ToInt(t + m_clusterSize) \in Ints
  BY ConvertsToInt, SizeIsPositive, FiniteData
<1> QED BY <1>1 DEF NewRow, RowRecords

\* Counting leaves a row a row of its cluster.
LEMMA CountedRow ==
    ASSUME NEW row \in RowRecords
    PROVE  /\ [row EXCEPT !.count = @ + 1] \in RowRecords
           /\ [row EXCEPT !.count = @ + 1].cluster_begin = row.cluster_begin
           /\ [row EXCEPT !.count = @ + 1].cluster_end = row.cluster_end
           /\ [row EXCEPT !.count = @ + 1].count = row.count + 1
BY DEF RowRecords

\* What an UPDATE makes of the table: the same rows, and those of the cluster count
\* one more.
LEMMA CountOneMoreRows ==
    ASSUME rows \in Seq(RowRecords), NEW t \in Ints, getClusterStart(t) = t, CountOneMore(t)
    PROVE  /\ rows' \in Seq(RowRecords) /\ DOMAIN rows' = DOMAIN rows
           /\ \A i \in DOMAIN rows :
                  /\ rows'[i].cluster_begin = rows[i].cluster_begin
                  /\ rows'[i].cluster_end = rows[i].cluster_end
                  /\ rows'[i].count = rows[i].count + (IF rows[i].cluster_begin = t THEN 1 ELSE 0)
<1>1. DOMAIN rows = 1..Len(rows) /\ Len(rows) \in Nat /\ \A i \in DOMAIN rows : rows[i] \in RowRecords
  BY RowsAreSequence
<1>2. DOMAIN rows' = DOMAIN rows
  BY DEF CountOneMore
<1>3. ASSUME NEW i \in DOMAIN rows
      PROVE  /\ rows'[i] \in RowRecords
             /\ rows'[i].cluster_begin = rows[i].cluster_begin
             /\ rows'[i].cluster_end = rows[i].cluster_end
             /\ rows'[i].count = rows[i].count + (IF rows[i].cluster_begin = t THEN 1 ELSE 0)
  <2>1. rows[i] \in RowRecords /\ rows[i].count \in Nat
    BY <1>1 DEF RowRecords
  <2>2. CASE rows[i].cluster_begin = t
    <3>1. rows'[i] = [rows[i] EXCEPT !.count = @ + 1]
      BY <2>2 DEF CountOneMore, SameCluster
    <3> QED BY <2>1, <2>2, <3>1, CountedRow
  <2>3. CASE rows[i].cluster_begin # t
    <3>1. rows'[i] = rows[i]
      BY <2>3 DEF CountOneMore, SameCluster
    <3> QED BY <2>1, <2>3, <3>1
  <2> QED BY <2>2, <2>3
<1>4. rows' \in Seq(RowRecords)
  <2>1. rows' = [i \in 1..Len(rows) |-> rows'[i]]
    BY <1>1 DEF CountOneMore
  <2> QED BY <1>1, <1>3, <2>1
<1> QED BY <1>2, <1>3, <1>4

\* What an INSERT makes of it: one row more.
LEMMA AppendedRows ==
    ASSUME rows \in Seq(RowRecords), NEW row \in RowRecords, rows' = Append(rows, row)
    PROVE  /\ rows' \in Seq(RowRecords)
           /\ DOMAIN rows = 1..Len(rows) /\ Len(rows) \in Nat
           /\ DOMAIN rows' = 1..(Len(rows) + 1)
           /\ \A i \in 1..Len(rows) : rows'[i] = rows[i]
           /\ rows'[Len(rows) + 1] = row
<1>1. /\ rows' \in Seq(RowRecords)
      /\ Len(rows') = Len(rows) + 1
      /\ \A i \in 1..Len(rows) : rows'[i] = rows[i]
      /\ rows'[Len(rows) + 1] = row
  BY AppendProperties
<1> QED BY <1>1, RowsAreSequence

-----------------------------------------------------------------------------
(* What the table counts                                                   *)

Counts(table2) == [i \in DOMAIN table2 |-> table2[i].count]
CountsOf(table2, begin) ==
    [i \in DOMAIN table2 |-> IF table2[i].cluster_begin = begin THEN table2[i].count ELSE 0]

LEMMA CountsAreNats ==
    ASSUME NEW table2 \in Seq(RowRecords), NEW begin \in Int
    PROVE  /\ \A i \in DOMAIN table2 : Counts(table2)[i] \in Nat
           /\ \A i \in DOMAIN table2 : CountsOf(table2, begin)[i] \in Nat
           /\ SumFunction(Counts(table2)) \in Nat
           /\ SumFunction(CountsOf(table2, begin)) \in Nat
<1>1. \A i \in DOMAIN table2 : Counts(table2)[i] \in Nat
  BY RowsAreSequence DEF Counts
<1>2. \A i \in DOMAIN table2 : CountsOf(table2, begin)[i] \in Nat
  BY RowsAreSequence DEF CountsOf
<1>3. IsFiniteSet(DOMAIN table2)
  BY RowsAreSequence
<1>4. DOMAIN Counts(table2) = DOMAIN table2 /\ DOMAIN CountsOf(table2, begin) = DOMAIN table2
  BY DEF Counts, CountsOf
<1>5. SumFunctionOnSet(Counts(table2), DOMAIN table2) \in Nat
  BY <1>1, <1>3, SumOfNats
<1>6. SumFunctionOnSet(CountsOf(table2, begin), DOMAIN table2) \in Nat
  BY <1>2, <1>3, SumOfNats
<1> QED BY <1>1, <1>2, <1>4, <1>5, <1>6 DEF SumFunction

\* One row of a table without doubles counts one more.
LEMMA CountedOnce ==
    ASSUME NEW t1 \in Seq(RowRecords), NEW t2 \in Seq(RowRecords), DOMAIN t2 = DOMAIN t1,
           NEW t \in Int, NEW j \in DOMAIN t1, t1[j].cluster_begin = t,
           \A i \in DOMAIN t1 : i # j => t1[i].cluster_begin # t,
           \A i \in DOMAIN t1 :
               /\ t2[i].cluster_begin = t1[i].cluster_begin
               /\ t2[i].count = t1[i].count + (IF t1[i].cluster_begin = t THEN 1 ELSE 0)
    PROVE  /\ SumFunction(Counts(t2)) = SumFunction(Counts(t1)) + 1
           /\ \A begin \in Int : SumFunction(CountsOf(t2, begin)) =
                  SumFunction(CountsOf(t1, begin)) + (IF begin = t THEN 1 ELSE 0)
<1> DEFINE D == DOMAIN t1
<1>1. IsFiniteSet(D) /\ \A i \in D : t1[i].count \in Nat /\ t2[i].count \in Nat
  BY RowsAreSequence
<1>2. SumFunctionOnSet(Counts(t2), D) = SumFunctionOnSet(Counts(t1), D) + 1
  <2> DEFINE f == Counts(t1)
             e == Counts(t2)
  <2>1. /\ \A i \in D : f[i] \in Int
        /\ \A i \in D \ {j} : e[i] = f[i]
        /\ e[j] \in Int /\ e[j] = f[j] + 1
    BY <1>1 DEF Counts
  <2>2. SumFunctionOnSet(f, D) \in Nat
    BY CountsAreNats DEF SumFunction, Counts
  <2> HIDE DEF D, f, e
  <2>3. j \in D
    BY DEF D
  <2>4. SumFunctionOnSet(e, D) = SumFunctionOnSet(f, D) - f[j] + e[j]
    BY <1>1, <2>1, <2>3, SumWithChange
  <2> QED BY <2>1, <2>2, <2>3, <2>4 DEF e, f
<1>3. ASSUME NEW begin \in Int
      PROVE  SumFunctionOnSet(CountsOf(t2, begin), D) =
                 SumFunctionOnSet(CountsOf(t1, begin), D) + (IF begin = t THEN 1 ELSE 0)
  <2> DEFINE f == CountsOf(t1, begin)
             e == CountsOf(t2, begin)
  <2>1. /\ \A i \in D : f[i] \in Int
        /\ \A i \in D \ {j} : e[i] = f[i]
        /\ e[j] \in Int /\ e[j] = f[j] + (IF begin = t THEN 1 ELSE 0)
    BY <1>1 DEF CountsOf
  <2>2. SumFunctionOnSet(f, D) \in Nat
    BY CountsAreNats DEF SumFunction, CountsOf
  <2> HIDE DEF D, f, e
  <2>3. j \in D
    BY DEF D
  <2>4. SumFunctionOnSet(e, D) = SumFunctionOnSet(f, D) - f[j] + e[j]
    BY <1>1, <2>1, <2>3, SumWithChange
  <2> QED BY <2>1, <2>2, <2>3, <2>4 DEF e, f
<1>4. /\ DOMAIN Counts(t1) = D /\ DOMAIN Counts(t2) = D
      /\ \A begin \in Int : DOMAIN CountsOf(t1, begin) = D /\ DOMAIN CountsOf(t2, begin) = D
  BY DEF Counts, CountsOf
<1> QED BY <1>2, <1>3, <1>4 DEF SumFunction

\* One row more.
LEMMA CountedMore ==
    ASSUME NEW t1 \in Seq(RowRecords), NEW t2 \in Seq(RowRecords), NEW n \in Nat,
           DOMAIN t1 = 1..n, DOMAIN t2 = 1..(n + 1), \A i \in 1..n : t2[i] = t1[i],
           t2[n + 1].count = 1
    PROVE  /\ SumFunction(Counts(t2)) = SumFunction(Counts(t1)) + 1
           /\ \A begin \in Int : SumFunction(CountsOf(t2, begin)) =
                  SumFunction(CountsOf(t1, begin))
                      + (IF begin = t2[n + 1].cluster_begin THEN 1 ELSE 0)
<1>1. \A i \in 1..n : t1[i].count \in Nat
  BY RowsAreSequence
<1>2. n + 1 \in 1..(n + 1) /\ \A i \in 1..n : i \in 1..(n + 1)
  OBVIOUS
<1>3. SumFunction(Counts(t2)) = SumFunction(Counts(t1)) + 1
  <2> DEFINE f == Counts(t1)
             e == Counts(t2)
  <2>1. /\ DOMAIN f = 1..n /\ \A i \in 1..n : f[i] \in Int
        /\ DOMAIN e = 1..(n + 1) /\ \A i \in 1..n : e[i] = f[i]
        /\ e[n + 1] = 1
    BY <1>1, <1>2 DEF Counts
  <2> HIDE DEF e, f
  <2> QED BY <2>1, SumAppended DEF e, f
<1>4. ASSUME NEW begin \in Int
      PROVE  SumFunction(CountsOf(t2, begin)) = SumFunction(CountsOf(t1, begin))
                      + (IF begin = t2[n + 1].cluster_begin THEN 1 ELSE 0)
  <2> DEFINE f == CountsOf(t1, begin)
             e == CountsOf(t2, begin)
  <2>1. /\ DOMAIN f = 1..n /\ \A i \in 1..n : f[i] \in Int
        /\ DOMAIN e = 1..(n + 1) /\ \A i \in 1..n : e[i] = f[i]
        /\ e[n + 1] = IF begin = t2[n + 1].cluster_begin THEN 1 ELSE 0
        /\ e[n + 1] \in Int
    BY <1>1, <1>2 DEF CountsOf
  <2> HIDE DEF e, f
  <2>2. SumFunction(e) = SumFunction(f) + e[n + 1]
    BY <2>1, SumAppended
  <2> QED BY <2>1, <2>2 DEF e, f
<1> QED BY <1>3, <1>4

-----------------------------------------------------------------------------
(* The inductive invariant                                                 *)

\* Presses are the counts, the lost ones and the one under way, in all and of each
\* 15 minutes.
PressesKept == SumFunction(Counts(rows)) + SumFunction(lost) + Open = SumFunction(pressed)
ClusterKept(begin) == SumFunction(CountsOf(rows, begin)) + Missing(begin) = Narrowed(begin)

CountedInv == /\ SchemaInv
              /\ CountsInv
              /\ index => PressesKept /\ \A n \in Ints : ClusterKept(getClusterStart(n))

LEMMA SumsAreNats ==
    ASSUME CountsInv
    PROVE  /\ SumFunction(pressed) \in Nat /\ SumFunction(lost) \in Nat /\ Open \in {0, 1}
           /\ \A t \in Ints : lost[t] \in Nat
           /\ \A t \in Ints : Narrowed(t) \in Nat /\ Missing(t) \in Nat
<1>1. /\ DOMAIN pressed = Clock /\ DOMAIN lost = Ints
      /\ \A t \in Clock : pressed[t] \in Nat
      /\ \A t \in Ints : lost[t] \in Nat
  BY DEF CountsInv
<1>2. SumFunctionOnSet(pressed, Clock) \in Nat /\ SumFunctionOnSet(lost, Ints) \in Nat
  BY <1>1, FiniteData, SumOfNats
<1>3. ASSUME NEW t \in Ints
      PROVE  Narrowed(t) \in Nat
  <2> DEFINE R == {u \in Clock : ToInt(u) \in Seconds(t)}
  <2>1. IsFiniteSet(R) /\ \A u \in R : pressed[u] \in Nat
    BY <1>1, FiniteData, FS_Subset
  <2>2. SumFunctionOnSet(pressed, R) \in Nat
    <3> HIDE DEF R
    <3> QED BY <2>1, SumOfNats
  <2> QED BY <2>2 DEF Narrowed
<1> QED BY <1>1, <1>2, <1>3 DEF SumFunction, Open, Missing

\* A press is counted in the 15 minutes that its time is rounded to.
LEMMA PressedOnce ==
    ASSUME CountsInv, NEW time \in Clock, pressed' = [pressed EXCEPT ![time] = @ + 1]
    PROVE  /\ pressed' \in [Clock -> Nat]
           /\ SumFunction(pressed') = SumFunction(pressed) + 1
           /\ \A n \in Ints : Narrowed(getClusterStart(n))' = Narrowed(getClusterStart(n))
                  + (IF getClusterStart(n) = CachedTime(time) THEN 1 ELSE 0)
<1> DEFINE e == pressed'
<1>1. pressed \in [Clock -> Nat] /\ IsFiniteSet(Clock) /\ time \in Clock
  BY FiniteData DEF CountsInv
<1>2. /\ e \in [Clock -> Nat] /\ e[time] = pressed[time] + 1
      /\ \A t \in Clock \ {time} : e[t] = pressed[t]
  BY <1>1
<1>3. /\ SumFunction(e) = SumFunction(pressed) + 1
      /\ \A R \in SUBSET Clock : SumFunctionOnSet(e, R) =
             SumFunctionOnSet(pressed, R) + (IF time \in R THEN 1 ELSE 0)
  <2> HIDE DEF e
  <2> QED BY <1>1, <1>2, SumOneMore
<1>4. ASSUME NEW n \in Ints
      PROVE  Narrowed(getClusterStart(n))' = Narrowed(getClusterStart(n))
                  + (IF getClusterStart(n) = CachedTime(time) THEN 1 ELSE 0)
  <2> DEFINE begin == getClusterStart(n)
             R == {t \in Clock : ToInt(t) \in Seconds(begin)}
  <2>1. begin \in Int /\ getClusterStart(begin) = begin
    BY RoundedOnce, FiniteData
  <2>2. ToInt(time) \in Ints
    BY ConvertsToInt, FiniteData
  <2>3. time \in R <=> begin = CachedTime(time)
    <3>1. getClusterStart(ToInt(time)) = begin <=> ToInt(time) \in Seconds(begin)
      <4> HIDE DEF begin
      <4> QED BY <2>1, <2>2, RoundedSeconds
    <3> QED BY <3>1 DEF CachedTime
  <2>4. SumFunctionOnSet(pressed', R) =
            SumFunctionOnSet(pressed, R) + (IF time \in R THEN 1 ELSE 0)
    BY <1>3
  <2>5. Narrowed(begin) = SumFunctionOnSet(pressed, R)
        /\ Narrowed(begin)' = SumFunctionOnSet(pressed', R)
    BY DEF Narrowed
  <2> HIDE DEF R, begin
  <2>6. Narrowed(begin)' = Narrowed(begin) + (IF begin = CachedTime(time) THEN 1 ELSE 0)
    BY <2>3, <2>4, <2>5
  <2> QED BY <2>6 DEF begin
<1> QED BY <1>2, <1>3, <1>4

LEMMA LostOnce ==
    ASSUME CountsInv, SchemaInv, lost' = [lost EXCEPT ![insertTime] = @ + 1]
    PROVE  /\ lost' \in [Ints -> Nat]
           /\ SumFunction(lost') = SumFunction(lost) + 1
           /\ \A t \in Ints : lost'[t] = lost[t] + (IF t = insertTime THEN 1 ELSE 0)
<1>1. lost \in [Ints -> Nat] /\ IsFiniteSet(Ints) /\ insertTime \in Ints
  BY FiniteData DEF CountsInv, SchemaInv
<1> DEFINE e == lost'
<1>2. /\ e \in [Ints -> Nat] /\ e[insertTime] = lost[insertTime] + 1
      /\ \A t \in Ints \ {insertTime} : e[t] = lost[t]
  BY <1>1
<1>3. SumFunction(e) = SumFunction(lost) + 1
  <2> HIDE DEF e
  <2> QED BY <1>1, <1>2, SumOneMore
<1> QED BY <1>1, <1>2, <1>3

LEMMA CountedInit == Init => CountedInv
<1> SUFFICES ASSUME Init
             PROVE  CountedInv
  OBVIOUS
<1>1. 0 \in Ints /\ getClusterStart(0) = 0
  BY SizeIsPositive, RoundedOnce DEF Ints, getClusterStart, Remainder
<1>2. rows = <<>> /\ rows \in Seq(RowRecords) /\ DOMAIN rows = {} /\ ~index
  BY EmptySeq DEF Init
<1>3. SumFunction(pressed) = 0 /\ SumFunction(lost) = 0
  <2>1. /\ DOMAIN pressed = Clock /\ \A t \in Clock : pressed[t] = 0
        /\ DOMAIN lost = Ints /\ \A t \in Ints : lost[t] = 0
    BY DEF Init
  <2>2. SumFunctionOnSet(pressed, Clock) = 0 /\ SumFunctionOnSet(lost, Ints) = 0
    BY <2>1, FiniteData, SumOfZeros
  <2> QED BY <2>1, <2>2 DEF SumFunction
<1>4. SchemaInv
  BY <1>1, <1>2, <1>3 DEF Init, SchemaInv
<1>5. CountsInv
  BY <1>2, <1>3, BoundsAssumption DEF Init, CountsInv, Open
<1> QED BY <1>2, <1>4, <1>5 DEF CountedInv

\* The rows as the invariant sees them.
LEMMA RowFacts ==
    ASSUME SchemaInv
    PROVE  /\ rows \in Seq(RowRecords) /\ insertTime \in Ints /\ insertTime \in Int
           /\ getClusterStart(insertTime) = insertTime
           /\ SumFunction(Counts(rows)) \in Nat
           /\ \A begin \in Int : SumFunction(CountsOf(rows, begin)) \in Nat
           /\ \A n \in Ints : getClusterStart(n) \in Ints /\ getClusterStart(n) \in Int
<1>1. rows \in Seq(RowRecords) /\ insertTime \in Ints /\ getClusterStart(insertTime) = insertTime
  BY DEF SchemaInv
<1>2. \A n \in Ints : getClusterStart(n) \in Ints
  BY RoundsInside
<1>3. 0 \in Int /\ Ints \subseteq Int
  BY FiniteData
<1> QED BY <1>1, <1>2, <1>3, CountsAreNats

\* Any UPDATE: one press more.
LEMMA UpdateStep ==
    ASSUME CountedInv, NEW time \in Clock, Update(time)
    PROVE  CountedInv'
<1> DEFINE t == CachedTime(time)
<1>1. /\ t \in Ints /\ t \in Int /\ getClusterStart(t) = t
  BY TimesAreInts, FiniteData
<1>2. /\ SchemaInv /\ CountsInv
      /\ pressed' \in [Clock -> Nat]
      /\ SumFunction(pressed') = SumFunction(pressed) + 1
      /\ \A n \in Ints : Narrowed(getClusterStart(n))' = Narrowed(getClusterStart(n))
                  + (IF getClusterStart(n) = t THEN 1 ELSE 0)
  BY PressedOnce DEF CountedInv, Update
<1>3. /\ SumFunction(pressed) \in Nat /\ SumFunction(lost) \in Nat
      /\ SumFunction(pressed) < MaxPresses /\ MaxPresses \in Nat
      /\ \A n \in Ints : /\ Narrowed(getClusterStart(n)) \in Nat
                         /\ Missing(getClusterStart(n)) \in Nat
                         /\ lost[getClusterStart(n)] \in Nat
  BY <1>2, SumsAreNats, RowFacts, BoundsAssumption DEF Update
<1>4. /\ step = "ready" /\ table /\ UNCHANGED <<table, index, lost>> /\ Open = 0
  BY <1>2 DEF Update, SchemaInv, Open
<1>5. CASE ~chartReading /\ RowExists(t)
  <2>1. CountOneMore(t) /\ UNCHANGED <<step, insertTime>>
    BY <1>5 DEF Update
  <2>2. /\ rows \in Seq(RowRecords) /\ rows' \in Seq(RowRecords) /\ DOMAIN rows' = DOMAIN rows
        /\ \A i \in DOMAIN rows :
               /\ rows'[i].cluster_begin = rows[i].cluster_begin
               /\ rows'[i].cluster_end = rows[i].cluster_end
               /\ rows'[i].count = rows[i].count + (IF rows[i].cluster_begin = t THEN 1 ELSE 0)
    <3> HIDE DEF t
    <3> QED BY <1>1, <1>2, <2>1, CountOneMoreRows DEF SchemaInv
  <2>3. SchemaInv'
    BY <1>2, <1>4, <2>1, <2>2 DEF SchemaInv, UniqueClusters
  <2>4. CountsInv'
    <3>1. \A i \in DOMAIN rows : rows[i].count \in Nat
      BY <2>2, RowsAreSequence
    <3>2. Open' = 0 /\ lost' = lost /\ DOMAIN rows' = DOMAIN rows
      BY <1>4, <2>1, <2>2 DEF Open
    <3>3. \A i \in DOMAIN rows : rows'[i].count \in {rows[i].count, rows[i].count + 1}
      BY <2>2, <3>1
    <3>4. \A i \in DOMAIN rows : rows[i].count > 0 /\ rows[i].count <= SumFunction(pressed)
      BY <1>2, <1>4, <3>1 DEF CountsInv
    <3>5. \A i \in DOMAIN rows' : rows'[i].count > 0 /\ rows'[i].count + Open' <= SumFunction(pressed')
      BY <1>2, <1>3, <3>1, <3>2, <3>3, <3>4
    <3>6. lost' \in [Ints -> Nat] /\ SumFunction(lost') + Open' <= SumFunction(pressed')
      BY <1>2, <1>3, <1>4, <3>2 DEF CountsInv
    <3>7. SumFunction(pressed') <= MaxPresses
      BY <1>2, <1>3
    <3> QED BY <1>2, <3>5, <3>6, <3>7 DEF CountsInv
  <2>5. ASSUME index'
        PROVE  PressesKept' /\ \A n \in Ints : ClusterKept(getClusterStart(n))'
    <3>1. index /\ PressesKept /\ \A n \in Ints : ClusterKept(getClusterStart(n))
      BY <1>4, <2>5 DEF CountedInv
    <3>2. PICK j \in DOMAIN rows : rows[j].cluster_begin = t
      BY <1>1, <1>5 DEF RowExists, SameCluster
    <3>3. \A i \in DOMAIN rows : i # j => rows[i].cluster_begin # t
      BY <1>2, <3>1, <3>2 DEF SchemaInv, UniqueClusters
    <3>4. /\ SumFunction(Counts(rows')) = SumFunction(Counts(rows)) + 1
          /\ \A begin \in Int : SumFunction(CountsOf(rows', begin)) =
                  SumFunction(CountsOf(rows, begin)) + (IF begin = t THEN 1 ELSE 0)
      <4> DEFINE t2 == rows'
      <4>1. /\ t2 \in Seq(RowRecords) /\ DOMAIN t2 = DOMAIN rows
            /\ \A i \in DOMAIN rows :
               /\ t2[i].cluster_begin = rows[i].cluster_begin
               /\ t2[i].count = rows[i].count + (IF rows[i].cluster_begin = t THEN 1 ELSE 0)
        BY <2>2
      <4> HIDE DEF t2, t
      <4> QED BY <1>1, <2>2, <3>2, <3>3, <4>1, CountedOnce DEF t2
    <3>5. PressesKept'
      BY <1>2, <1>3, <1>4, <2>1, <3>1, <3>4, RowFacts DEF PressesKept, Open
    <3>6. ASSUME NEW n \in Ints
          PROVE  ClusterKept(getClusterStart(n))'
      <4> DEFINE begin == getClusterStart(n)
      <4>1. begin \in Int /\ begin \in Ints /\ SumFunction(CountsOf(rows, begin)) \in Nat
        BY <1>2, RowFacts
      <4>2. /\ SumFunction(CountsOf(rows, begin)) + Missing(begin) = Narrowed(begin)
            /\ Missing(begin) \in Nat /\ Narrowed(begin) \in Nat
            /\ Missing(begin)' = Missing(begin)
        BY <1>3, <1>4, <2>1, <3>1 DEF ClusterKept, Missing
      <4>3. Narrowed(begin)' = Narrowed(begin) + (IF begin = t THEN 1 ELSE 0)
        BY <1>2
      <4>4. SumFunction(CountsOf(rows', begin)) =
                SumFunction(CountsOf(rows, begin)) + (IF begin = t THEN 1 ELSE 0)
        BY <3>4, <4>1
      <4> HIDE DEF begin, t
      <4>5. SumFunction(CountsOf(rows', begin)) + Missing(begin)' = Narrowed(begin)'
        BY <4>1, <4>2, <4>3, <4>4
      <4> QED BY <4>5 DEF ClusterKept, begin
    <3> QED BY <3>5, <3>6
  <2> QED BY <2>3, <2>4, <2>5 DEF CountedInv
<1>6. CASE ~(~chartReading /\ RowExists(t))
  <2>1. step' = "insert" /\ insertTime' = t /\ UNCHANGED rows /\ Open' = 1
    BY <1>6 DEF Update, Open
  <2>2. SchemaInv'
    BY <1>1, <1>2, <1>4, <2>1 DEF SchemaInv, UniqueClusters
  <2>3. CountsInv'
    <3>1. \A i \in DOMAIN rows : rows[i].count \in Nat
      BY <1>2, RowsAreSequence, RowFacts
    <3> QED BY <1>2, <1>3, <1>4, <2>1, <3>1 DEF CountsInv
  <2>4. ASSUME index'
        PROVE  PressesKept' /\ \A n \in Ints : ClusterKept(getClusterStart(n))'
    <3>1. index /\ PressesKept /\ \A n \in Ints : ClusterKept(getClusterStart(n))
      BY <1>4, <2>4 DEF CountedInv
    <3>2. PressesKept'
      BY <1>2, <1>3, <1>4, <2>1, <3>1, RowFacts DEF PressesKept
    <3>3. ASSUME NEW n \in Ints
          PROVE  ClusterKept(getClusterStart(n))'
      <4> DEFINE begin == getClusterStart(n)
      <4>1. begin \in Int /\ begin \in Ints /\ SumFunction(CountsOf(rows, begin)) \in Nat
        BY <1>2, RowFacts
      <4>2. /\ SumFunction(CountsOf(rows, begin)) + Missing(begin) = Narrowed(begin)
            /\ Missing(begin) \in Nat /\ Narrowed(begin) \in Nat
            /\ Missing(begin)' = Missing(begin) + (IF begin = t THEN 1 ELSE 0)
        BY <1>3, <1>4, <2>1, <3>1 DEF ClusterKept, Missing
      <4>3. Narrowed(begin)' = Narrowed(begin) + (IF begin = t THEN 1 ELSE 0)
        BY <1>2
      <4>4. rows' = rows
        BY <2>1
      <4> HIDE DEF begin, t
      <4>5. SumFunction(CountsOf(rows', begin)) + Missing(begin)' = Narrowed(begin)'
        BY <4>1, <4>2, <4>3, <4>4
      <4> QED BY <4>5 DEF ClusterKept, begin
    <3> QED BY <3>2, <3>3
  <2> QED BY <2>2, <2>3, <2>4 DEF CountedInv
<1> QED BY <1>5, <1>6

\* An INSERT that makes a row.
LEMMA InsertStep ==
    ASSUME CountedInv, Insert, CanInsert
    PROVE  CountedInv'
<1> DEFINE t == insertTime
           row == NewRow(t, 1)
           k == Len(rows)
<1>1. /\ SchemaInv /\ CountsInv /\ rows \in Seq(RowRecords)
      /\ t \in Ints /\ t \in Int /\ getClusterStart(t) = t
  BY RowFacts DEF CountedInv
<1>2. /\ step = "insert" /\ step' = "ready" /\ rows' = Append(rows, row) /\ table
      /\ UNCHANGED <<table, index, insertTime, pressed, lost>> /\ Open = 1 /\ Open' = 0
  BY <1>1 DEF Insert, Open, SchemaInv
<1>3. row \in RowRecords /\ row.cluster_begin = t /\ row.count = 1
      /\ row.cluster_end = ToInt(t + m_clusterSize)
  BY <1>1, NewRowType
<1>4. /\ rows' \in Seq(RowRecords) /\ DOMAIN rows = 1..k /\ k \in Nat
      /\ DOMAIN rows' = 1..(k + 1)
      /\ \A i \in 1..k : rows'[i] = rows[i]
      /\ rows'[k + 1] = row
  <2> HIDE DEF row
  <2> QED BY <1>1, <1>2, <1>3, AppendedRows
<1>5. \A i \in 1..(k + 1) : i \in 1..k \/ i = k + 1
  BY <1>4
<1>6. /\ SumFunction(pressed) \in Nat /\ SumFunction(lost) \in Nat
      /\ \A n \in Ints : Narrowed(n) \in Nat /\ Missing(n) \in Nat /\ lost[n] \in Nat
  BY <1>1, SumsAreNats
<1> HIDE DEF row, k
<1>7. SchemaInv'
  <2>1. index' => UniqueClusters'
    <3> SUFFICES ASSUME index'
                 PROVE  UniqueClusters'
      OBVIOUS
    <3>1. UniqueClusters /\ \A i \in 1..k : rows[i].cluster_begin # t
      BY <1>1, <1>2, <1>4 DEF CanInsert, RowExists, SameCluster, SchemaInv
    <3> QED BY <1>3, <1>4, <1>5, <3>1 DEF UniqueClusters
  <2>2. \A i \in DOMAIN rows' :
            rows'[i].cluster_end = ToInt(rows'[i].cluster_begin + m_clusterSize)
    BY <1>1, <1>3, <1>4, <1>5 DEF SchemaInv
  <2> QED BY <1>1, <1>2, <1>4, <2>1, <2>2 DEF SchemaInv
<1>8. CountsInv'
  <2>1. \A i \in DOMAIN rows : rows[i].count \in Nat
    BY <1>1, RowsAreSequence
  <2> QED BY <1>1, <1>2, <1>3, <1>4, <1>5, <1>6, <2>1 DEF CountsInv
<1>9. ASSUME index'
      PROVE  PressesKept' /\ \A n \in Ints : ClusterKept(getClusterStart(n))'
  <2>1. index /\ PressesKept /\ \A n \in Ints : ClusterKept(getClusterStart(n))
    BY <1>2, <1>9 DEF CountedInv
  <2>2. /\ SumFunction(Counts(rows')) = SumFunction(Counts(rows)) + 1
        /\ \A begin \in Int : SumFunction(CountsOf(rows', begin)) =
                SumFunction(CountsOf(rows, begin)) + (IF begin = t THEN 1 ELSE 0)
    <3> DEFINE t2 == rows'
    <3>1. /\ t2 \in Seq(RowRecords) /\ DOMAIN t2 = 1..(k + 1)
          /\ \A i \in 1..k : t2[i] = rows[i]
          /\ t2[k + 1].count = 1 /\ t2[k + 1].cluster_begin = t
      BY <1>3, <1>4
    <3> HIDE DEF t2, t
    <3>2. /\ SumFunction(Counts(t2)) = SumFunction(Counts(rows)) + 1
          /\ \A begin \in Int : SumFunction(CountsOf(t2, begin)) =
                SumFunction(CountsOf(rows, begin))
                    + (IF begin = t2[k + 1].cluster_begin THEN 1 ELSE 0)
      BY <1>1, <1>4, <3>1, CountedMore
    <3> QED BY <3>1, <3>2 DEF t2
  <2>3. PressesKept'
    BY <1>1, <1>2, <1>6, <2>1, <2>2, RowFacts DEF PressesKept
  <2>4. ASSUME NEW n \in Ints
        PROVE  ClusterKept(getClusterStart(n))'
    <3> DEFINE begin == getClusterStart(n)
    <3>1. begin \in Int /\ begin \in Ints /\ SumFunction(CountsOf(rows, begin)) \in Nat
      BY <1>1, RowFacts
    <3>2. /\ SumFunction(CountsOf(rows, begin)) + Missing(begin) = Narrowed(begin)
          /\ Missing(begin) = lost[begin] + (IF begin = t THEN 1 ELSE 0)
          /\ Missing(begin)' = lost[begin]
      BY <1>2, <1>6, <2>1, <3>1 DEF ClusterKept, Missing
    <3>3. Narrowed(begin)' = Narrowed(begin) /\ lost[begin] \in Nat
      BY <1>2, <1>6, <3>1 DEF Narrowed
    <3>4. SumFunction(CountsOf(rows', begin)) =
              SumFunction(CountsOf(rows, begin)) + (IF begin = t THEN 1 ELSE 0)
      BY <2>2, <3>1
    <3> HIDE DEF begin, t
    <3>5. SumFunction(CountsOf(rows', begin)) + Missing(begin)' = Narrowed(begin)'
      BY <3>1, <3>2, <3>3, <3>4
    <3> QED BY <3>5 DEF ClusterKept, begin
  <2> QED BY <2>3, <2>4
<1> QED BY <1>7, <1>8, <1>9 DEF CountedInv

\* The press that is under way is lost: the INSERT fails, or the process is killed.
LEMMA LoseStep ==
    ASSUME CountedInv, step = "insert", step' \in {"ready", "off"},
           lost' = [lost EXCEPT ![insertTime] = @ + 1],
           UNCHANGED <<table, index, rows, insertTime, pressed>>
    PROVE  CountedInv'
<1>1. SchemaInv /\ CountsInv /\ table /\ Open = 1 /\ Open' = 0
  BY DEF CountedInv, SchemaInv, Open
<1>2. /\ lost' \in [Ints -> Nat]
      /\ SumFunction(lost') = SumFunction(lost) + 1
      /\ \A t \in Ints : lost'[t] = lost[t] + (IF t = insertTime THEN 1 ELSE 0)
  BY <1>1, LostOnce
<1>3. /\ SumFunction(pressed) \in Nat /\ SumFunction(lost) \in Nat
      /\ \A n \in Ints : Narrowed(n) \in Nat /\ Missing(n) \in Nat /\ lost[n] \in Nat
  BY <1>1, SumsAreNats
<1>4. SchemaInv'
  BY <1>1 DEF SchemaInv, UniqueClusters
<1>5. CountsInv'
  <2>1. \A i \in DOMAIN rows : rows[i].count \in Nat
    BY <1>1, RowsAreSequence, RowFacts
  <2> QED BY <1>1, <1>2, <1>3, <2>1 DEF CountsInv
<1>6. ASSUME index'
      PROVE  PressesKept' /\ \A n \in Ints : ClusterKept(getClusterStart(n))'
  <2>1. index /\ PressesKept /\ \A n \in Ints : ClusterKept(getClusterStart(n))
    BY <1>6 DEF CountedInv
  <2>2. PressesKept'
    BY <1>1, <1>2, <1>3, <2>1, RowFacts DEF PressesKept
  <2>3. ASSUME NEW n \in Ints
        PROVE  ClusterKept(getClusterStart(n))'
    <3> DEFINE begin == getClusterStart(n)
    <3>1. begin \in Int /\ begin \in Ints
      BY <1>1, RowFacts
    <3>2. Missing(begin)' = Missing(begin)
      BY <1>2, <1>3, <3>1 DEF Missing
    <3>3. Narrowed(begin)' = Narrowed(begin)
      BY DEF Narrowed
    <3>4. ClusterKept(begin)
      BY <2>1
    <3> HIDE DEF begin
    <3>5. ClusterKept(begin)'
      BY <3>2, <3>3, <3>4 DEF ClusterKept
    <3> QED BY <3>5 DEF begin
  <2> QED BY <2>2, <2>3
<1> QED BY <1>4, <1>5, <1>6 DEF CountedInv

\* A step that leaves the table's rows and the history alone.
LEMMA QuietStep ==
    ASSUME CountedInv, UNCHANGED <<rows, insertTime, pressed, lost>>,
           step' = step \/ (step # "insert" /\ step' # "insert"),
           SchemaInv', index' = index
    PROVE  CountedInv'
<1>1. Open' = Open /\ \A begin : Missing(begin)' = Missing(begin)
  BY DEF Open, Missing
<1>2. \A begin : Narrowed(begin)' = Narrowed(begin)
  BY DEF Narrowed
<1>3. CountsInv'
  BY <1>1 DEF CountedInv, CountsInv
<1>4. PressesKept' = PressesKept /\ \A begin : ClusterKept(begin)' = ClusterKept(begin)
  BY <1>1, <1>2 DEF PressesKept, ClusterKept
<1> QED BY <1>3, <1>4 DEF CountedInv

\* The index is made for a table that nothing was ever counted in.
LEMMA IndexStep ==
    ASSUME CountedInv, CreateIndex
    PROVE  CountedInv'
<1>1. /\ SchemaInv /\ CountsInv /\ step = "createIndex" /\ step' = "prepare"
      /\ UNCHANGED <<table, rows, insertTime, pressed, lost>>
      /\ rows = <<>> /\ SumFunction(pressed) = 0 /\ SumFunction(lost) = 0 /\ table
  BY DEF CountedInv, CreateIndex, SchemaInv, historyVars
<1>2. DOMAIN rows = {} /\ Open = 0 /\ Open' = 0 /\ IsFiniteSet(DOMAIN rows)
  BY <1>1, FS_EmptySet DEF Open
<1>3. SchemaInv' /\ CountsInv'
  BY <1>1, <1>2 DEF SchemaInv, CountsInv, UniqueClusters
<1>4. /\ SumFunction(Counts(rows)) = 0
      /\ \A begin : SumFunction(CountsOf(rows, begin)) = 0
  <2>1. DOMAIN Counts(rows) = {} /\ \A begin : DOMAIN CountsOf(rows, begin) = {}
    BY <1>2 DEF Counts, CountsOf
  <2> QED BY <2>1, SumOfNone DEF SumFunction
<1>5. ASSUME NEW b \in Ints
      PROVE  Narrowed(b) = 0 /\ lost[b] = 0
  <2> DEFINE R == {t \in Clock : ToInt(t) \in Seconds(b)}
  <2>1. /\ DOMAIN pressed = Clock /\ DOMAIN lost = Ints
        /\ \A t \in Clock : pressed[t] \in Nat
        /\ \A t \in Ints : lost[t] \in Nat
    BY <1>1 DEF CountsInv
  <2>2. SumFunctionOnSet(pressed, R) <= 0
    <3>1. R \in SUBSET Clock /\ SumFunctionOnSet(pressed, Clock) = 0
      BY <1>1, <2>1 DEF SumFunction
    <3> HIDE DEF R
    <3>2. SumFunctionOnSet(pressed, R) <= SumFunctionOnSet(pressed, Clock)
      BY <2>1, <3>1, FiniteData, SumOfSubset
    <3> QED BY <3>1, <3>2
  <2>3. lost[b] <= 0
    <3>1. SumFunctionOnSet(lost, Ints) = 0
      BY <1>1, <2>1 DEF SumFunction
    <3>2. lost[b] <= SumFunctionOnSet(lost, Ints)
      BY <2>1, FiniteData, SumIsAtLeast
    <3> QED BY <3>1, <3>2
  <2>4. Narrowed(b) \in Nat /\ Narrowed(b) = SumFunctionOnSet(pressed, R)
    BY <1>1, SumsAreNats DEF Narrowed
  <2> QED BY <2>1, <2>2, <2>3, <2>4
<1>6. PressesKept'
  BY <1>1, <1>2, <1>4 DEF PressesKept
<1>7. ASSUME NEW n \in Ints
      PROVE  ClusterKept(getClusterStart(n))'
  <2> DEFINE begin == getClusterStart(n)
  <2>1. begin \in Ints
    BY <1>1, RowFacts
  <2>2. Missing(begin)' = 0
    BY <1>1, <1>5, <2>1 DEF Missing
  <2>3. Narrowed(begin)' = 0
    <3>1. Narrowed(begin)' = Narrowed(begin)
      BY <1>1 DEF Narrowed
    <3> QED BY <1>5, <2>1, <3>1
  <2>4. SumFunction(CountsOf(rows', begin)) = 0
    BY <1>1, <1>4
  <2> HIDE DEF begin
  <2>5. ClusterKept(begin)'
    BY <2>2, <2>3, <2>4 DEF ClusterKept
  <2> QED BY <2>5 DEF begin
<1> QED BY <1>3, <1>6, <1>7 DEF CountedInv

LEMMA CountedNext == CountedInv /\ [Next]_vars => CountedInv'
<1> SUFFICES ASSUME CountedInv, [Next]_vars
             PROVE  CountedInv'
  OBVIOUS
<1>1. SchemaInv
  BY DEF CountedInv
<1>2. CASE Start
  <2>1. SchemaInv'
    BY <1>1, <1>2 DEF Start, SchemaInv, UniqueClusters, fileVars, historyVars
  <2> QED BY <1>2, <2>1, QuietStep DEF Start, fileVars, historyVars
<1>3. CASE CreateTable
  <2>1. SchemaInv'
    BY <1>1, <1>3 DEF CreateTable, SchemaInv, UniqueClusters, historyVars
  <2> QED BY <1>3, <2>1, QuietStep DEF CreateTable, historyVars
<1>4. CASE CreateIndex
  BY <1>4, IndexStep
<1>5. CASE PrepareStatements
  <2>1. SchemaInv'
    BY <1>1, <1>5 DEF PrepareStatements, SchemaInv, UniqueClusters, fileVars, historyVars
  <2> QED BY <1>5, <2>1, QuietStep DEF PrepareStatements, fileVars, historyVars
<1>6. CASE \E time \in Clock : Update(time)
  BY <1>6, UpdateStep
<1>7. CASE Insert
  <2>1. CASE CanInsert
    BY <1>7, <2>1, InsertStep
  <2>2. CASE ~CanInsert
    BY <1>7, <2>2, LoseStep DEF Insert
  <2> QED BY <2>1, <2>2
<1>8. CASE Kill
  <2>1. CASE step = "insert"
    BY <1>8, <2>1, LoseStep DEF Kill, fileVars
  <2>2. CASE step # "insert"
    <3>1. SchemaInv'
      BY <1>1, <1>8, <2>2 DEF Kill, SchemaInv, UniqueClusters, fileVars
    <3> QED BY <1>8, <2>2, <3>1, QuietStep DEF Kill, fileVars
  <2> QED BY <2>1, <2>2
<1>9. CASE OpenChart \/ CloseChart
  <2>1. UNCHANGED <<fileVars, step, insertTime, pressed, lost>>
    BY <1>9 DEF OpenChart, CloseChart, historyVars
  <2>2. SchemaInv'
    BY <1>1, <2>1 DEF SchemaInv, UniqueClusters, fileVars
  <2> QED BY <2>1, <2>2, QuietStep DEF fileVars
<1>10. CASE UNCHANGED vars
  <2>1. SchemaInv'
    BY <1>1, <1>10 DEF SchemaInv, UniqueClusters, vars, fileVars, historyVars
  <2> QED BY <1>10, <2>1, QuietStep DEF vars, fileVars, historyVars
<1> QED BY <1>2, <1>3, <1>4, <1>5, <1>6, <1>7, <1>8, <1>9, <1>10 DEF Next

LEMMA CountedInvariant == Spec => []CountedInv
BY CountedInit, CountedNext, PTL DEF Spec

-----------------------------------------------------------------------------
(* What follows from it                                                    *)

\* With the unique index, what the table counts, what is lost and what is under
\* way are the presses given to addKeyPress: none is counted twice.
THEOREM IndexKeepsCountTheorem == Spec => []IndexKeepsCount
<1>1. CountedInv => IndexKeepsCount
  BY DEF CountedInv, SchemaInv, PressesKept, IndexKeepsCount, Counts
<1> QED BY <1>1, CountedInvariant, PTL

\* A time that an int has is narrowed to itself, and one after the last int to one
\* before 1970.
LEMMA NarrowedTimes ==
    ASSUME NEW t \in Clock
    PROVE  /\ t \in Int
           /\ t <= IntMax => ToInt(t) = t
           /\ t > IntMax => ToInt(t) < 0
<1> DEFINE M == IntMax + 1
           w == 2 * M
<1>1. t \in Int /\ -M <= t /\ t < w /\ M \in Nat /\ M > 0 /\ w = M + M
  BY SizeIsPositive, IntAssumption
<1>2. t <= IntMax => ToInt(t) = t
  <2>1. t <= IntMax => t \in Ints
    BY <1>1, SizeIsPositive DEF Ints
  <2> QED BY <1>1, <2>1, ConvertsToInt
<1>3. ASSUME t > IntMax
      PROVE  ToInt(t) < 0
  <2>1. t + M - w \in 0..(w - 1) /\ t + M - w < M
    <3>1. t >= M
      BY <1>1, <1>3, SizeIsPositive
    <3> HIDE DEF w, M
    <3> QED BY <1>1, <3>1
  <2>2. \A k \in 0..(w - 1) : (k + w) % w = k
    <3> HIDE DEF w
    <3> QED BY <1>1
  <2>3. (t + M) % w = t + M - w
    <3> DEFINE k == t + M - w
    <3>1. k + w = t + M /\ k \in 0..(w - 1)
      BY <1>1, <2>1
    <3> HIDE DEF k
    <3>2. (k + w) % w = k
      BY <2>2, <3>1
    <3>3. (t + M) % w = k
      BY <3>1, <3>2
    <3> QED BY <3>3 DEF k
  <2>4. ToInt(t) = ((t + M) % w) - M
    BY <1>1, SizeIsPositive DEF ToInt
  <2> HIDE DEF w, M
  <2> QED BY <1>1, <2>1, <2>3, <2>4
<1> QED BY <1>1, <1>2, <1>3

\* What a row keeps are the presses of its own quarter, but for row 0 and strays.
LEMMA NarrowedQuarter ==
    ASSUME CountsInv, NEW begin \in 0..IntMax
    PROVE  /\ Narrowed(begin) \in Nat /\ PressedIn(begin) \in Nat
           /\ Narrowed(begin) >= PressedIn(begin)
           /\ begin > 0 \/ Strays = {} => Narrowed(begin) = PressedIn(begin)
<1> DEFINE own == {t \in Clock : begin <= t /\ t < begin + m_clusterSize /\ t <= IntMax}
           all == {t \in Clock : ToInt(t) \in Seconds(begin)}
<1>1. /\ DOMAIN pressed = Clock /\ \A t \in Clock : pressed[t] \in Nat
      /\ begin \in Int /\ begin >= 0 /\ m_clusterSize \in Nat \ {0} /\ IntMax \in Nat
  BY SizeIsPositive DEF CountsInv
<1>2. PressedIn(begin) = SumFunctionOnSet(pressed, own)
      /\ Narrowed(begin) = SumFunctionOnSet(pressed, all)
  BY DEF PressedIn, Narrowed
<1>3. ASSUME NEW t \in own
      PROVE  t \in all
  <2>1. t \in Clock /\ t \in Int /\ t <= IntMax /\ begin <= t /\ t < begin + m_clusterSize
    BY NarrowedTimes
  <2>2. t \in Ints /\ ToInt(t) = t
    BY <1>1, <2>1, NarrowedTimes DEF Ints
  <2>3. t \in Seconds(begin)
    BY <1>1, <2>1, <2>2 DEF Seconds
  <2> QED BY <2>1, <2>2, <2>3
<1>4. ASSUME NEW t \in all
      PROVE  t \in own \/ (begin = 0 /\ ~(0 <= t /\ t <= IntMax))
  <2>1. t \in Int /\ (t <= IntMax => ToInt(t) = t) /\ (t > IntMax => ToInt(t) < 0)
    BY NarrowedTimes
  <2>2. ToInt(t) \in Seconds(begin) /\ ToInt(t) \in Int
    BY <2>1, ConvertsToInt, SizeIsPositive DEF Ints
  <2>3. ToInt(t) < begin + m_clusterSize /\ (begin > 0 => ToInt(t) >= begin)
    BY <1>1, <2>2 DEF Seconds
  <2> QED BY <1>1, <2>1, <2>2, <2>3
<1>5. IsFiniteSet(all) /\ IsFiniteSet(all \ own) /\ IsFiniteSet(own)
      /\ own \subseteq all /\ all \subseteq Clock
  BY <1>3, FiniteData, FS_Subset
<1> HIDE DEF own, all
<1>6. /\ \A t \in all : pressed[t] \in Nat
      /\ SumFunctionOnSet(pressed, own) \in Nat /\ SumFunctionOnSet(pressed, all) \in Nat
      /\ SumFunctionOnSet(pressed, own) <= SumFunctionOnSet(pressed, all)
  BY <1>1, <1>5, SumOfNats, SumOfSubset
<1>7. ASSUME begin > 0 \/ Strays = {}
      PROVE  SumFunctionOnSet(pressed, all) = SumFunctionOnSet(pressed, own)
  <2>1. \A t \in all \ own : pressed[t] = 0
    <3> SUFFICES ASSUME NEW t \in all \ own
                 PROVE  pressed[t] = 0
      OBVIOUS
    <3>1. begin = 0 /\ ~(0 <= t /\ t <= IntMax)
      BY <1>4
    <3>2. t \in Clock /\ pressed[t] \in Nat /\ Strays = {}
      BY <1>1, <1>5, <1>7, <3>1
    <3>3. ~(pressed[t] > 0)
      BY <3>1, <3>2 DEF Strays
    <3> QED BY <3>2, <3>3
  <2>2. SumFunctionOnSet(pressed, all \ own) = 0
    BY <1>5, <2>1, SumOfZeros
  <2>3. own \cup (all \ own) = all /\ own \cap (all \ own) = {}
    BY <1>5
  <2>4. SumFunctionOnSet(pressed, own \cup (all \ own)) =
            SumFunctionOnSet(pressed, own) + SumFunctionOnSet(pressed, all \ own)
    <3>1. \A t \in own \cup (all \ own) : pressed[t] \in Int
      BY <1>6, <2>3
    <3> QED BY <1>5, <2>3, <3>1, SumOfUnion
  <2> QED BY <1>6, <2>2, <2>3, <2>4
<1> QED BY <1>2, <1>6, <1>7

\* A row has the presses of its own 15 minutes by the clock, narrowed and rounded twice
\* as their times are, and none of a time that the program has no quarter for but in
\* the row 0; and it ends where the next one begins.
THEOREM QuarterCountsTheorem == Spec => []QuarterCounts
<1>1. CountedInv => QuarterCounts
  <2> SUFFICES ASSUME CountedInv, index
               PROVE  QuarterCounts
    BY DEF QuarterCounts
  <2>1. ASSUME NEW n \in 0..IntMax, NEW begin, begin = n - (n % m_clusterSize)
        PROVE  /\ CountedIn(begin) + Missing(begin) >= PressedIn(begin)
               /\ begin > 0 \/ Strays = {} =>
                      CountedIn(begin) + Missing(begin) = PressedIn(begin)
    <3>1. n \in Ints /\ n % m_clusterSize \in 0..(m_clusterSize - 1)
          /\ n % m_clusterSize <= n /\ getClusterStart(n) = begin
      <4>1. n \in Nat /\ n \in Ints /\ m_clusterSize \in Nat \ {0}
        BY SizeIsPositive DEF Ints
      <4>2. n % m_clusterSize \in 0..(m_clusterSize - 1) /\ n % m_clusterSize <= n
        <5> DEFINE m == m_clusterSize
        <5> HIDE DEF m
        <5>1. m \in Nat \ {0} => n % m \in 0..(m - 1) /\ n % m <= n
          BY <4>1
        <5> QED BY <4>1, <5>1 DEF m
      <4> QED BY <2>1, <4>1, <4>2 DEF getClusterStart, Remainder
    <3>2. begin \in 0..IntMax
      BY <2>1, <3>1, SizeIsPositive
    <3>3. CountedIn(begin) + Missing(begin) = Narrowed(begin)
      <4>1. ClusterKept(begin)
        BY <3>1 DEF CountedInv
      <4> QED BY <4>1 DEF ClusterKept, CountedIn, CountsOf
    <3> QED BY <3>2, <3>3, NarrowedQuarter DEF CountedInv
  <2>2. ASSUME NEW i \in DOMAIN rows
        PROVE  \/ rows[i].cluster_end = rows[i].cluster_begin + m_clusterSize
               \/ rows[i].cluster_begin + m_clusterSize > IntMax
    <3> DEFINE end == rows[i].cluster_begin + m_clusterSize
    <3>1. rows \in Seq(RowRecords) /\ rows[i].cluster_end = ToInt(end)
      BY DEF CountedInv, SchemaInv
    <3>2. rows[i].cluster_begin \in Ints
      BY <3>1, RowsAreSequence
    <3>3. end \in Int /\ (end > IntMax \/ end \in Ints)
      BY <3>2, SizeIsPositive DEF Ints
    <3>4. end \in Ints => ToInt(end) = end
      <4> HIDE DEF end
      <4> QED BY <3>3, ConvertsToInt
    <3> QED BY <3>1, <3>3, <3>4
  <2> QED BY <2>1, <2>2 DEF QuarterCounts
<1> QED BY <1>1, CountedInvariant, PTL

PlainTypes ==
    /\ table \in BOOLEAN /\ index \in BOOLEAN /\ chartReading \in BOOLEAN
    /\ step \in {"off", "createTable", "createIndex", "prepare", "ready", "insert"}
    /\ kills \in 0..MaxKills /\ charts \in 0..MaxCharts

LEMMA PlainTypesNext == PlainTypes /\ [Next]_vars => PlainTypes'
<1> SUFFICES ASSUME PlainTypes, [Next]_vars
             PROVE  PlainTypes'
  OBVIOUS
<1> USE DEF PlainTypes
<1>1. CASE Start \/ PrepareStatements \/ CloseChart \/ UNCHANGED vars
  BY <1>1 DEF Start, PrepareStatements, CloseChart, vars, fileVars, historyVars
<1>2. CASE CreateTable \/ CreateIndex
  BY <1>2 DEF CreateTable, CreateIndex, historyVars
<1>3. CASE \E time \in Clock : Update(time)
  BY <1>3 DEF Update
<1>4. CASE Insert
  BY <1>4 DEF Insert
<1>5. CASE Kill
  BY <1>5, BoundsAssumption DEF Kill, fileVars
<1>6. CASE OpenChart
  BY <1>6, BoundsAssumption DEF OpenChart, fileVars
<1> QED BY <1>1, <1>2, <1>3, <1>4, <1>5, <1>6 DEF Next

\* No count, neither of a row nor of the history, exceeds the presses.
LEMMA CountsFit ==
    ASSUME CountedInv
    PROVE  /\ rows \in Seq([cluster_begin : Ints, cluster_end : Ints, count : 1..MaxPresses])
           /\ pressed \in [Clock -> 0..MaxPresses] /\ lost \in [Ints -> 0..MaxPresses]
           /\ insertTime \in Ints
<1>1. /\ SchemaInv /\ CountsInv /\ rows \in Seq(RowRecords) /\ insertTime \in Ints
      /\ SumFunction(pressed) \in Nat /\ SumFunction(lost) \in Nat /\ Open \in {0, 1}
      /\ SumFunction(pressed) <= MaxPresses
      /\ SumFunction(lost) + Open <= SumFunction(pressed)
      /\ MaxPresses \in Nat
  BY SumsAreNats, RowFacts, BoundsAssumption DEF CountedInv, CountsInv
<1>2. ASSUME NEW i \in DOMAIN rows
      PROVE  rows[i] \in [cluster_begin : Ints, cluster_end : Ints, count : 1..MaxPresses]
  <2>1. rows[i] \in RowRecords
    BY <1>1, RowsAreSequence
  <2>2. rows[i].count > 0 /\ rows[i].count + Open <= SumFunction(pressed)
    BY <1>1 DEF CountsInv
  <2>3. rows[i].count \in Nat
    BY <2>1 DEF RowRecords
  <2>4. rows[i].count \in 1..MaxPresses
    BY <1>1, <2>2, <2>3
  <2> QED BY <2>1, <2>4 DEF RowRecords
<1>3. rows \in Seq([cluster_begin : Ints, cluster_end : Ints, count : 1..MaxPresses])
  <2> DEFINE S == [cluster_begin : Ints, cluster_end : Ints, count : 1..MaxPresses]
  <2>1. DOMAIN rows = 1..Len(rows) /\ Len(rows) \in Nat /\ rows = [i \in 1..Len(rows) |-> rows[i]]
    BY <1>1
  <2>2. \A i \in 1..Len(rows) : rows[i] \in S
    BY <1>2, <2>1
  <2> HIDE DEF S
  <2>3. rows \in Seq(S)
    BY <2>1, <2>2
  <2> QED BY <2>3 DEF S
<1>4. /\ DOMAIN pressed = Clock /\ pressed \in [Clock -> Nat]
      /\ DOMAIN lost = Ints /\ lost \in [Ints -> Nat]
  BY <1>1 DEF CountsInv
<1>5. ASSUME NEW t \in Clock
      PROVE  pressed[t] \in 0..MaxPresses
  <2>1. pressed[t] \in Nat /\ pressed[t] <= SumFunctionOnSet(pressed, Clock)
    BY <1>4, FiniteData, SumIsAtLeast
  <2>2. SumFunctionOnSet(pressed, Clock) = SumFunction(pressed)
    BY <1>4 DEF SumFunction
  <2> QED BY <1>1, <2>1, <2>2
<1>6. ASSUME NEW t \in Ints
      PROVE  lost[t] \in 0..MaxPresses
  <2>1. lost[t] \in Nat /\ lost[t] <= SumFunctionOnSet(lost, Ints)
    BY <1>4, FiniteData, SumIsAtLeast
  <2>2. SumFunctionOnSet(lost, Ints) = SumFunction(lost)
    BY <1>4 DEF SumFunction
  <2> QED BY <1>1, <2>1, <2>2
<1> QED BY <1>1, <1>3, <1>4, <1>5, <1>6

\* The types of all variables, the counts within the number of presses.
THEOREM TypeCorrect == Spec => []TypeOK
<1>1. Init => PlainTypes
  <2>1. 0 \in 0..MaxKills /\ 0 \in 0..MaxCharts
    BY BoundsAssumption
  <2> QED BY <2>1 DEF Init, PlainTypes
<1>2. CountedInv /\ PlainTypes => TypeOK
  BY CountsFit DEF PlainTypes, TypeOK
<1> QED BY <1>1, <1>2, PlainTypesNext, CountedInvariant, PTL DEF Spec
=============================================================================
