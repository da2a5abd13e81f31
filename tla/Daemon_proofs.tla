---------------------------- MODULE Daemon_proofs ----------------------------
(***************************************************************************)
(* Proofs about StorageManager and about Daemon, which has it inside, for  *)
(* every set of groups and time stamps, with and without --nb, and for     *)
(* every number of key presses, deaths, charts and stops of the X server.  *)
(***************************************************************************)
EXTENDS Daemon, TLAPS

-----------------------------------------------------------------------------
(* StorageManager alone                                                    *)

\* A cluster starts at its own start: StorageManager calls getClusterStart on a
\* time stamp, and the backend calls it again on the result.
LEMMA ClusterStartIdempotent ==
    ASSUME NEW t \in Nat
    PROVE  /\ getClusterStart(t) \in Nat
           /\ getClusterStart(getClusterStart(t)) = getClusterStart(t)
<1> DEFINE q == t \div 900
           r == t % 900
<1>1. q \in Nat /\ r \in 0..899 /\ t = 900 * q + r
  OBVIOUS
<1>2. getClusterStart(t) = 900 * q
  BY <1>1 DEF getClusterStart, m_clusterSize
<1>3. (900 * q) % 900 = 0
  BY <1>1
<1> QED BY <1>1, <1>2, <1>3 DEF getClusterStart, m_clusterSize

\* The string key survives: what the commiter decodes from the key of a press
\* addresses the row of that press, and no two keys share a row.
LEMMA KeyRoundTrip ==
    /\ \A key \in Keys : /\ RowFor(key) \in Rows
                         /\ KeyOf(RowFor(key)) = key
    /\ \A row \in Rows : /\ KeyOf(row) \in Keys
                         /\ RowFor(KeyOf(row)) = row
    /\ \A g \in Groups, t \in Times : /\ KeyFor(g, t) \in Keys
                                      /\ <<getClusterStart(t), g>> \in Rows
                                      /\ RowFor(KeyFor(g, t)) = <<getClusterStart(t), g>>
<1>1. \A c \in Clusters : getClusterStart(c) = c
  BY ClusterStartIdempotent, TimesAssumption DEF Clusters
<1>2. \A t \in Times : getClusterStart(t) \in Clusters
  BY DEF Clusters
<1>3. \A key \in Keys : key[1] \in Groups /\ key[2] \in Clusters /\ key = <<key[1], key[2]>>
  BY DEF Keys
<1>4. \A row \in Rows : row[1] \in Clusters /\ row[2] \in Groups /\ row = <<row[1], row[2]>>
  BY DEF Rows
<1>5. \A key \in Keys : RowFor(key) = <<key[2], key[1]>>
  BY <1>1, <1>3 DEF RowFor, AddressedRow
<1>6. \A key \in Keys : RowFor(key) \in Rows /\ KeyOf(RowFor(key)) = key
  BY <1>3, <1>5 DEF KeyOf, Rows
<1>7. \A row \in Rows : KeyOf(row) \in Keys /\ RowFor(KeyOf(row)) = row
  BY <1>4, <1>5 DEF KeyOf, Keys
<1>8. ASSUME NEW g \in Groups, NEW t \in Times
      PROVE  /\ KeyFor(g, t) \in Keys
             /\ <<getClusterStart(t), g>> \in Rows
             /\ RowFor(KeyFor(g, t)) = <<getClusterStart(t), g>>
  BY <1>2, <1>5 DEF KeyFor, Keys, Rows
<1> QED BY <1>6, <1>7, <1>8

-----------------------------------------------------------------------------
(* Type correctness.                                                       *)

LEMMA EmptyType == Empty \in [Keys -> Nat] /\ NoRows \in [Rows -> Nat]
BY DEF Empty, NoRows

\* What is in flight is a number of presses.
LEMMA InFlightType ==
    ASSUME TypeOK, NEW row \in Rows
    PROVE  InFlight(row) \in Nat
BY KeyRoundTrip DEF TypeOK, InFlight

\* Dying leaves the memory of the process empty, and what was in flight lost.
LEMMA ProcessDiesType ==
    ASSUME TypeOK, ProcessDies
    PROVE  /\ running' \in BOOLEAN
           /\ lost' \in [Rows -> Nat]
           /\ pending' = NoKey
           /\ m_cache' \in [Keys -> Nat]
           /\ m_cache_mutex' = "free"
           /\ commiter' = "sleep"
           /\ localcache' \in [Keys -> Nat]
           /\ entry' = NoKey
<1>1. \A row \in Rows : lost[row] + InFlight(row) \in Nat
  BY InFlightType DEF TypeOK
<1>2. lost' \in [Rows -> Nat]
  BY <1>1 DEF ProcessDies
<1>3. running' \in BOOLEAN
  BY DEF ProcessDies
<1> QED BY <1>2, <1>3, EmptyType DEF ProcessDies

LEMMA TypeInit == Init => TypeOK
<1> SUFFICES ASSUME Init
             PROVE  TypeOK
  OBVIOUS
<1>1. /\ keypresses \in [Rows -> Nat]
      /\ m_cache \in [Keys -> Nat]
      /\ localcache \in [Keys -> Nat]
      /\ pressed \in [Rows -> Nat]
      /\ lost \in [Rows -> Nat]
  BY EmptyType DEF Init
<1>2. /\ m_cache_mutex \in {"free", "commiter"}
      /\ commiter \in CommiterStates
      /\ pending = NoKey
      /\ entry = NoKey
      /\ deaths \in Nat
      /\ charts \in Nat
  BY DEF Init, CommiterStates
<1>3. connected \in BOOLEAN /\ chartReading \in BOOLEAN /\ running \in BOOLEAN
  BY DEF Init
<1> QED BY <1>1, <1>2, <1>3 DEF TypeOK

\* Every step keeps the types.  The INSERT needs to know that it has an entry.
LEMMA TypeStep ==
    ASSUME TypeOK, SnapshotInv, [Next]_vars
    PROVE  TypeOK'
<1> USE DEF TypeOK, CommiterStates
<1>1. CASE \E g \in Groups, t \in Times : AddKeyPress(g, t)
  <2>1. PICK g \in Groups, t \in Times : AddKeyPress(g, t)
    BY <1>1
  <2> QED BY <2>1, KeyRoundTrip DEF AddKeyPress, storageVars, commiterVars
<1>2. CASE CacheAdd
  BY <1>2 DEF CacheAdd, storageVars, commiterVars, historyVars
<1>3. CASE CommiterSnapshot
  BY <1>3 DEF CommiterSnapshot, storageVars, mainVars, historyVars
<1>4. CASE CommiterClear
  BY <1>4, EmptyType DEF CommiterClear, storageVars, historyVars
<1>5. CASE \E key \in Keys : CommiterUpdate(key)
  <2>1. PICK key \in Keys : CommiterUpdate(key)
    BY <1>5
  <2> QED BY <2>1, KeyRoundTrip DEF CommiterUpdate, AddToRow, mainVars, historyVars
<1>6. CASE CommiterInsert
  <2>1. entry \in Keys /\ RowFor(entry) \in Rows
    BY <1>6, KeyRoundTrip DEF CommiterInsert, SnapshotInv
  <2>2. keypresses' \in [Rows -> Nat] /\ lost' \in [Rows -> Nat]
    BY <1>6, <2>1 DEF CommiterInsert, AddToRow
  <2> QED BY <1>6, <2>1, <2>2 DEF CommiterInsert, mainVars
<1>7. CASE CommiterSleep
  BY <1>7 DEF CommiterSleep, storageVars, mainVars, historyVars
<1>8. CASE DrawChart
  BY <1>8 DEF DrawChart, OpenChart, mainVars, commiterVars
<1>9. CASE EndChart
  BY <1>9 DEF EndChart, CloseChart, mainVars, commiterVars, historyVars
<1>10. CASE Kill
  BY <1>10, ProcessDiesType DEF Kill, storageVars
<1>11. CASE CommiterCrash
  BY <1>11, ProcessDiesType DEF CommiterCrash, storageVars
<1>12. CASE Restart
  BY <1>12 DEF Restart, Connect, mainVars, commiterVars, historyVars
<1>13. CASE UNCHANGED vars
  BY <1>13 DEF vars, storageVars, mainVars, commiterVars, historyVars
<1> QED BY <1>1, <1>2, <1>3, <1>4, <1>5, <1>6, <1>7, <1>8, <1>9, <1>10, <1>11, <1>12,
           <1>13 DEF Next, Commiter

\* Every step keeps the snapshot what the commiter takes it for: the main thread
\* cannot touch the cache between the copy and the clear.
LEMMA SnapshotStep ==
    ASSUME TypeOK, SnapshotInv, [Next]_vars
    PROVE  SnapshotInv'
<1> USE DEF SnapshotInv
<1>1. CASE \E g \in Groups, t \in Times : AddKeyPress(g, t)
  BY <1>1 DEF AddKeyPress, commiterVars
<1>2. CASE CacheAdd
  BY <1>2 DEF CacheAdd, commiterVars
<1>3. CASE CommiterSnapshot
  BY <1>3 DEF CommiterSnapshot, mainVars
<1>4. CASE CommiterClear
  BY <1>4 DEF CommiterClear
<1>5. CASE \E key \in Keys : CommiterUpdate(key)
  BY <1>5 DEF CommiterUpdate, mainVars
<1>6. CASE CommiterInsert
  BY <1>6 DEF CommiterInsert, mainVars
<1>7. CASE CommiterSleep
  BY <1>7 DEF CommiterSleep, mainVars
<1>8. CASE DrawChart
  BY <1>8 DEF DrawChart, mainVars, commiterVars
<1>9. CASE EndChart
  BY <1>9 DEF EndChart, mainVars, commiterVars
<1>10. CASE Kill
  BY <1>10 DEF Kill, ProcessDies
<1>11. CASE CommiterCrash
  BY <1>11 DEF CommiterCrash, ProcessDies
<1>12. CASE Restart
  BY <1>12 DEF Restart, mainVars, commiterVars
<1>13. CASE UNCHANGED vars
  BY <1>13 DEF vars, mainVars, commiterVars
<1> QED BY <1>1, <1>2, <1>3, <1>4, <1>5, <1>6, <1>7, <1>8, <1>9, <1>10, <1>11, <1>12,
           <1>13 DEF Next, Commiter

\* The variables have their types in every reachable state; a key in addKeyPress
\* or in the commiter is always one the backend has a row for.
THEOREM TypeCorrect == Spec => []TypeOK
<1>1. Init => TypeOK /\ SnapshotInv
  BY TypeInit DEF Init, SnapshotInv
<1>2. (TypeOK /\ SnapshotInv) /\ [Next]_vars => (TypeOK /\ SnapshotInv)'
  BY TypeStep, SnapshotStep
<1> QED BY <1>1, <1>2, PTL DEF Spec

-----------------------------------------------------------------------------
(* Conservation.                                                           *)

\* What changes nothing that a row counts keeps its balance.
LEMMA ConservationStutter ==
    ASSUME Conservation,
           UNCHANGED <<pressed, keypresses, lost, pending, m_cache, commiter, localcache>>
    PROVE  Conservation'
BY DEF Conservation, InFlight

\* Dying moves what is in flight to the lost ones, and leaves nothing in flight.
LEMMA ProcessDiesConserves ==
    ASSUME TypeOK, Conservation, ProcessDies, UNCHANGED <<keypresses, pressed>>
    PROVE  Conservation'
<1> SUFFICES ASSUME NEW row \in Rows
             PROVE  pressed'[row] = keypresses'[row] + InFlight(row)' + lost'[row]
  BY DEF Conservation
<1>1. KeyOf(row) \in Keys /\ KeyOf(row) # NoKey
  BY KeyRoundTrip DEF KeyOf, NoKey
<1>2. InFlight(row)' = 0
  BY <1>1 DEF ProcessDies, InFlight, Empty
<1>3. lost'[row] = lost[row] + InFlight(row)
  BY DEF ProcessDies
<1>4. /\ pressed[row] = keypresses[row] + InFlight(row) + lost[row]
      /\ keypresses[row] \in Nat /\ lost[row] \in Nat /\ InFlight(row) \in Nat
  BY InFlightType DEF Conservation, TypeOK
<1> QED BY <1>2, <1>3, <1>4

\* Every step keeps the balance of every row.
LEMMA ConservationStep ==
    ASSUME IInv, [Next]_vars
    PROVE  Conservation'
<1> USE DEF IInv
<1>1. CASE \E g \in Groups, t \in Times : AddKeyPress(g, t)
  <2>1. PICK g \in Groups, t \in Times : AddKeyPress(g, t)
    BY <1>1
  <2> DEFINE key == KeyFor(g, t)
             own == <<getClusterStart(t), g>>
  <2>2. key \in Keys /\ own \in Rows /\ RowFor(key) = own /\ KeyOf(own) = key
    BY KeyRoundTrip
  <2> SUFFICES ASSUME NEW row \in Rows
               PROVE  pressed'[row] = keypresses'[row] + InFlight(row)' + lost'[row]
    BY DEF Conservation
  <2>3. KeyOf(row) = key <=> row = own
    BY <2>2, KeyRoundTrip
  <2>4. KeyOf(row) \in Keys /\ KeyOf(row) # NoKey
    BY KeyRoundTrip DEF KeyOf, NoKey
  <2>5. /\ pending = NoKey /\ pending' = key
        /\ pressed' = [pressed EXCEPT ![own] = @ + 1]
        /\ UNCHANGED <<keypresses, lost, m_cache, commiter, localcache>>
    BY <2>1 DEF AddKeyPress, storageVars, commiterVars
  <2>6. pressed[row] = keypresses[row] + InFlight(row) + lost[row]
    BY DEF Conservation
  <2> QED BY <2>2, <2>3, <2>4, <2>5, <2>6 DEF InFlight, TypeOK
<1>2. CASE CacheAdd
  <2> SUFFICES ASSUME NEW row \in Rows
               PROVE  pressed'[row] = keypresses'[row] + InFlight(row)' + lost'[row]
    BY DEF Conservation
  <2>1. KeyOf(row) \in Keys /\ KeyOf(row) # NoKey
    BY KeyRoundTrip DEF KeyOf, NoKey
  <2>2. /\ pending \in Keys /\ pending' = NoKey
        /\ m_cache' = [m_cache EXCEPT ![pending] = @ + 1]
        /\ UNCHANGED <<pressed, keypresses, lost, commiter, localcache>>
    BY <1>2 DEF CacheAdd, TypeOK, storageVars, commiterVars, historyVars
  <2>3. pressed[row] = keypresses[row] + InFlight(row) + lost[row]
    BY DEF Conservation
  <2> QED BY <2>1, <2>2, <2>3 DEF InFlight, TypeOK
<1>3. CASE CommiterSnapshot
  <2> SUFFICES ASSUME NEW row \in Rows
               PROVE  InFlight(row)' = InFlight(row)
    BY <1>3 DEF Conservation, CommiterSnapshot, storageVars, historyVars
  <2>1. KeyOf(row) \in Keys
    BY KeyRoundTrip
  <2>2. localcache[KeyOf(row)] = 0 /\ m_cache[KeyOf(row)] \in Nat
    BY <1>3, <2>1 DEF CommiterSnapshot, SnapshotInv, Empty, TypeOK
  <2> QED BY <1>3, <2>2 DEF CommiterSnapshot, InFlight, mainVars
<1>4. CASE CommiterClear
  <2> SUFFICES ASSUME NEW row \in Rows
               PROVE  InFlight(row)' = InFlight(row)
    BY <1>4 DEF Conservation, CommiterClear, storageVars, historyVars
  <2>1. KeyOf(row) \in Keys
    BY KeyRoundTrip
  <2>2. localcache = m_cache /\ m_cache[KeyOf(row)] \in Nat /\ m_cache'[KeyOf(row)] = 0
    BY <1>4, <2>1 DEF CommiterClear, SnapshotInv, Empty, TypeOK
  <2> QED BY <1>4, <2>2 DEF CommiterClear, InFlight
<1>5. CASE \E key \in Keys : CommiterUpdate(key)
  <2>1. PICK key \in Keys : CommiterUpdate(key)
    BY <1>5
  <2>2. CASE UpdateDone(RowFor(key))
    <3> SUFFICES ASSUME NEW row \in Rows
                 PROVE  pressed'[row] = keypresses'[row] + InFlight(row)' + lost'[row]
      BY DEF Conservation
    <3>1. KeyOf(row) \in Keys /\ RowFor(key) \in Rows /\ (KeyOf(row) = key <=> row = RowFor(key))
      BY KeyRoundTrip
    <3>2. /\ commiter = "write"
          /\ keypresses' = [keypresses EXCEPT ![RowFor(key)] = @ + localcache[key]]
          /\ localcache' = [localcache EXCEPT ![key] = 0]
          /\ UNCHANGED <<pressed, lost, pending, m_cache, commiter>>
      BY <2>1, <2>2 DEF CommiterUpdate, AddToRow, mainVars, historyVars
    <3>3. pressed[row] = keypresses[row] + InFlight(row) + lost[row]
      BY DEF Conservation
    <3> QED BY <3>1, <3>2, <3>3 DEF InFlight, TypeOK
  <2>3. CASE ~UpdateDone(RowFor(key))
    BY <2>1, <2>3 DEF CommiterUpdate, Conservation, InFlight, mainVars, historyVars
  <2> QED BY <2>2, <2>3
<1>6. CASE CommiterInsert
  <2> SUFFICES ASSUME NEW row \in Rows
               PROVE  pressed'[row] = keypresses'[row] + InFlight(row)' + lost'[row]
    BY DEF Conservation
  <2>1. entry \in Keys
    BY <1>6 DEF CommiterInsert, SnapshotInv
  <2>2. KeyOf(row) \in Keys /\ RowFor(entry) \in Rows /\ (KeyOf(row) = entry <=> row = RowFor(entry))
    BY <2>1, KeyRoundTrip
  <2>3. /\ commiter = "insert" /\ commiter' = "write"
        /\ localcache' = [localcache EXCEPT ![entry] = 0]
        /\ UNCHANGED <<pressed, pending, m_cache>>
    BY <1>6 DEF CommiterInsert, mainVars
  <2>4. \/ /\ keypresses' = [keypresses EXCEPT ![RowFor(entry)] = @ + localcache[entry]]
           /\ UNCHANGED lost
        \/ /\ lost' = [lost EXCEPT ![RowFor(entry)] = @ + localcache[entry]]
           /\ UNCHANGED keypresses
    BY <1>6 DEF CommiterInsert, AddToRow
  <2>5. pressed[row] = keypresses[row] + InFlight(row) + lost[row]
    BY DEF Conservation
  <2> QED BY <2>1, <2>2, <2>3, <2>4, <2>5 DEF InFlight, TypeOK
<1>7. CASE CommiterSleep
  BY <1>7 DEF CommiterSleep, Conservation, InFlight, storageVars, mainVars, historyVars
<1>8. CASE DrawChart
  BY <1>8, ConservationStutter DEF DrawChart, mainVars, commiterVars
<1>9. CASE EndChart
  BY <1>9, ConservationStutter DEF EndChart, mainVars, commiterVars, historyVars
<1>10. CASE Kill
  BY <1>10, ProcessDiesConserves DEF Kill, storageVars
<1>11. CASE CommiterCrash
  BY <1>11, ProcessDiesConserves DEF CommiterCrash, storageVars
<1>12. CASE Restart
  BY <1>12, ConservationStutter DEF Restart, mainVars, commiterVars, historyVars
<1>13. CASE UNCHANGED vars
  BY <1>13, ConservationStutter DEF vars, storageVars, mainVars, commiterVars, historyVars
<1> QED BY <1>1, <1>2, <1>3, <1>4, <1>5, <1>6, <1>7, <1>8, <1>9, <1>10, <1>11, <1>12,
           <1>13 DEF Next, Commiter

LEMMA InductiveInvariant == Spec => []IInv
<1>1. Init => IInv
  <2> SUFFICES ASSUME Init
               PROVE  IInv
    OBVIOUS
  <2>1. TypeOK /\ SnapshotInv
    BY TypeInit DEF Init, SnapshotInv
  <2>2. \A row \in Rows : KeyOf(row) \in Keys /\ KeyOf(row) # NoKey
    BY KeyRoundTrip DEF KeyOf, NoKey
  <2>3. Conservation
    BY <2>2 DEF Init, Conservation, InFlight, Empty, NoRows
  <2> QED BY <2>1, <2>3 DEF IInv
<1>2. IInv /\ [Next]_vars => IInv'
  BY TypeStep, SnapshotStep, ConservationStep DEF IInv
<1> QED BY <1>1, <1>2, PTL DEF Spec

\* In every reachable state each key press is accounted for exactly once, in the
\* row of its own group and cluster: through the lock around copy and clear, the
\* decoding of the key, the two statements, BUSY, and the death of the process.
THEOREM PressesConserved == Spec => []Conservation
BY InductiveInvariant, PTL DEF IInv

-----------------------------------------------------------------------------
(* Nothing is lost without a reason.                                       *)

LEMMA UndisturbedStep ==
    ASSUME IInv, UndisturbedInv, [Next]_vars
    PROVE  UndisturbedInv'
<1> USE DEF UndisturbedInv, RowExists
<1>1. CASE \E g \in Groups, t \in Times : AddKeyPress(g, t)
  BY <1>1 DEF AddKeyPress, storageVars, commiterVars
<1>2. CASE CacheAdd
  BY <1>2 DEF CacheAdd, storageVars, commiterVars, historyVars
<1>3. CASE CommiterSnapshot
  BY <1>3 DEF CommiterSnapshot, storageVars, historyVars
<1>4. CASE CommiterClear
  BY <1>4 DEF CommiterClear, storageVars, historyVars
<1>5. CASE \E key \in Keys : CommiterUpdate(key)
  BY <1>5 DEF CommiterUpdate, UpdateDone, historyVars
<1>6. CASE CommiterInsert
  BY <1>6 DEF CommiterInsert, InsertDone
<1>7. CASE CommiterSleep
  BY <1>7 DEF CommiterSleep, storageVars, historyVars
<1>8. CASE DrawChart
  BY <1>8 DEF DrawChart, OpenChart, commiterVars, IInv, TypeOK
<1>9. CASE EndChart
  BY <1>9 DEF EndChart, CloseChart, commiterVars, historyVars
<1>10. CASE Kill
  BY <1>10 DEF Kill, storageVars, IInv, TypeOK
<1>11. CASE CommiterCrash
  BY <1>11 DEF CommiterCrash, storageVars, IInv, TypeOK
<1>12. CASE Restart
  BY <1>12 DEF Restart, commiterVars, historyVars, IInv, TypeOK
<1>13. CASE UNCHANGED vars
  BY <1>13 DEF vars, storageVars, commiterVars, historyVars
<1> QED BY <1>1, <1>2, <1>3, <1>4, <1>5, <1>6, <1>7, <1>8, <1>9, <1>10, <1>11, <1>12,
           <1>13 DEF Next, Commiter

\* As long as the process lives, the data base is connected and nobody reads it,
\* the results that the commiter ignores are all true: nothing is lost.
THEOREM UndisturbedLosesNothing == Spec => []NothingLostUndisturbed
<1>1. Init => UndisturbedInv
  BY DEF Init, UndisturbedInv
<1>2. IInv /\ UndisturbedInv /\ [Next]_vars => UndisturbedInv'
  BY UndisturbedStep
<1>3. UndisturbedInv => NothingLostUndisturbed
  BY DEF UndisturbedInv, NothingLostUndisturbed
<1> QED BY <1>1, <1>2, <1>3, InductiveInvariant, PTL DEF Spec

-----------------------------------------------------------------------------
(* StorageManager implements the ledger.                                   *)

\* A step that changes the count of a row moves open presses there, all at once.
LEMMA StoreStep ==
    ASSUME IInv, IInv', NEW key \in Keys, localcache[key] > 0,
           AddToRow(RowFor(key), localcache[key]),
           UNCHANGED <<pressed, lost>>
    PROVE  Ledger!Store(RowFor(key))
<1> DEFINE row == RowFor(key)
           n == localcache[key]
<1>1. row \in Rows
  BY KeyRoundTrip
<1>2. keypresses' = [keypresses EXCEPT ![row] = @ + n]
  BY DEF AddToRow
<1>3. /\ pressed[row] \in Nat /\ keypresses[row] \in Nat /\ lost[row] \in Nat
      /\ n \in Nat
      /\ keypresses'[row] = keypresses[row] + n
  BY <1>1, <1>2 DEF IInv, TypeOK
<1>4. InFlight(row)' \in Nat
  <2>1. KeyOf(row) \in Keys
    BY <1>1, KeyRoundTrip
  <2> QED BY <2>1 DEF InFlight, IInv, TypeOK
<1>5. pressed'[row] = keypresses'[row] + InFlight(row)' + lost'[row]
  BY <1>1 DEF IInv, Conservation
<1>6. n \in 1..Ledger!Open(row)
  BY <1>3, <1>4, <1>5 DEF Ledger!Open
<1> QED BY <1>2, <1>6 DEF Ledger!Store

\* Whatever a step gives up was open.
LEMMA LoseStep ==
    ASSUME IInv', UNCHANGED <<pressed, keypresses>>,
           \A row \in Rows : lost'[row] >= lost[row]
    PROVE  Ledger!Lose
<1>1. \A row \in Rows : /\ pressed'[row] = keypresses'[row] + InFlight(row)' + lost'[row]
                        /\ lost'[row] \in Nat /\ keypresses'[row] \in Nat
  BY DEF IInv, Conservation, TypeOK
<1>2. \A row \in Rows : InFlight(row)' \in Nat
  BY KeyRoundTrip DEF InFlight, IInv, TypeOK
<1>3. \A row \in Rows : lost'[row] <= pressed[row] - keypresses[row]
  BY <1>1, <1>2
<1>4. lost' \in [Rows -> Nat]
  BY DEF IInv, TypeOK
<1> QED BY <1>3, <1>4 DEF Ledger!Lose

LEMMA DeathLoses ==
    ASSUME IInv, IInv', ProcessDies, UNCHANGED <<pressed, keypresses>>
    PROVE  Ledger!Lose
<1>1. \A row \in Rows : /\ lost'[row] = lost[row] + InFlight(row)
                        /\ lost[row] \in Nat /\ InFlight(row) \in Nat
  BY InFlightType DEF ProcessDies, IInv, TypeOK
<1> QED BY <1>1, LoseStep

\* Every step of the storage is a step of the ledger, or leaves it alone.
LEMMA LedgerStep ==
    ASSUME IInv, IInv', [Next]_vars
    PROVE  [Ledger!Next]_(Ledger!ledgerVars)
<1> USE DEF Ledger!ledgerVars
<1>1. CASE \E g \in Groups, t \in Times : AddKeyPress(g, t)
  <2>1. PICK g \in Groups, t \in Times : AddKeyPress(g, t)
    BY <1>1
  <2>2. Ledger!Press(<<getClusterStart(t), g>>)
    BY <2>1 DEF AddKeyPress, Ledger!Press, storageVars
  <2> QED BY <2>2, KeyRoundTrip DEF Ledger!Next
<1>2. CASE CacheAdd
  BY <1>2 DEF CacheAdd, storageVars, historyVars
<1>3. CASE CommiterSnapshot
  BY <1>3 DEF CommiterSnapshot, storageVars, historyVars
<1>4. CASE CommiterClear
  BY <1>4 DEF CommiterClear, storageVars, historyVars
<1>5. CASE \E key \in Keys : CommiterUpdate(key)
  <2>1. PICK key \in Keys : CommiterUpdate(key)
    BY <1>5
  <2>2. CASE UpdateDone(RowFor(key))
    <3>1. Ledger!Store(RowFor(key))
      BY <2>1, <2>2, StoreStep DEF CommiterUpdate, historyVars
    <3> QED BY <3>1, KeyRoundTrip DEF Ledger!Next
  <2>3. CASE ~UpdateDone(RowFor(key))
    BY <2>1, <2>3 DEF CommiterUpdate, historyVars
  <2> QED BY <2>2, <2>3
<1>6. CASE CommiterInsert
  <2>1. entry \in Keys /\ RowFor(entry) \in Rows
    BY <1>6, KeyRoundTrip DEF CommiterInsert, IInv, SnapshotInv
  <2>2. CASE InsertDone(RowFor(entry))
    <3>1. CASE localcache[entry] > 0
      <4>1. Ledger!Store(RowFor(entry))
        BY <1>6, <2>1, <2>2, <3>1, StoreStep DEF CommiterInsert
      <4> QED BY <2>1, <4>1 DEF Ledger!Next
    <3>2. CASE localcache[entry] = 0
      BY <1>6, <2>1, <2>2, <3>2 DEF CommiterInsert, AddToRow, IInv, TypeOK
    <3> QED BY <2>1, <3>1, <3>2 DEF IInv, TypeOK
  <2>3. CASE ~InsertDone(RowFor(entry))
    <3>1. \A row \in Rows : lost'[row] >= lost[row]
      BY <1>6, <2>1, <2>3 DEF CommiterInsert, IInv, TypeOK
    <3>2. Ledger!Lose
      BY <1>6, <2>3, <3>1, LoseStep DEF CommiterInsert
    <3> QED BY <3>2 DEF Ledger!Next
  <2> QED BY <2>2, <2>3
<1>7. CASE CommiterSleep
  BY <1>7 DEF CommiterSleep, storageVars, historyVars
<1>8. CASE DrawChart
  BY <1>8 DEF DrawChart
<1>9. CASE EndChart
  BY <1>9 DEF EndChart, historyVars
<1>10. CASE Kill
  BY <1>10, DeathLoses DEF Kill, storageVars, Ledger!Next
<1>11. CASE CommiterCrash
  BY <1>11, DeathLoses DEF CommiterCrash, storageVars, Ledger!Next
<1>12. CASE Restart
  BY <1>12 DEF Restart, historyVars
<1>13. CASE UNCHANGED vars
  BY <1>13 DEF vars, storageVars, historyVars
<1> QED BY <1>1, <1>2, <1>3, <1>4, <1>5, <1>6, <1>7, <1>8, <1>9, <1>10, <1>11, <1>12,
           <1>13 DEF Next, Commiter

\* The storage implements the ledger: nothing is counted twice, and what has
\* been counted or lost stays counted or lost, through every kill and restart.
THEOREM ImplementsLedger == Spec => LedgerSpec
<1>1. Init => Ledger!Init
  BY DEF Init, Ledger!Init, NoRows
<1>2. IInv /\ IInv' /\ [Next]_vars => [Ledger!Next]_(Ledger!ledgerVars)
  BY LedgerStep
<1> QED BY <1>1, <1>2, InductiveInvariant, PTL DEF Spec, LedgerSpec, Ledger!Spec

-----------------------------------------------------------------------------
(* The storage inside the process                                          *)

\* Nothing the process does to its storage is anything that StorageManager does
\* not describe.
LEMMA StorageStep ==
    ASSUME DaemonNext
    PROVE  [Next]_vars
<1>1. CASE MainThread
  <2>1. CASE CreateStorage
    BY <2>1 DEF CreateStorage, Next
  <2>2. CASE NotDaemonized \/ NoRecording \/ XIOError
    BY <2>2 DEF NotDaemonized, NoRecording, XIOError, Next
  <2>3. CASE UNCHANGED vars
    BY <2>3
  <2> QED BY <1>1, <2>1, <2>2, <2>3 DEF MainThread, ReadConfig, NoConfig, MainOptions, Run,
             AlreadyConnected, StartMonitor, OpenCtrlDisplay, OpenDataDisplay,
             SetupRecordExtension, StartRecording
<1>2. CASE LoopKeyPress
  BY <1>2 DEF LoopKeyPress, Next
<1>3. CASE LoopCacheAdd \/ CommiterThread \/ KeyvisChart
  BY <1>3 DEF LoopCacheAdd, CommiterThread, KeyvisChart, Next
<1>4. CASE Killed \/ Crashed
  BY <1>4 DEF Killed, Crashed, Next
<1>5. CASE XServerStops \/ XServerStarts \/ XServerFills \/ WriteConfig \/ Launch
  BY <1>5 DEF XServerStops, XServerStarts, XServerFills, WriteConfig, Launch
<1> QED BY <1>1, <1>2, <1>3, <1>4, <1>5 DEF DaemonNext

\* The storage inside a process that starts, forks, loses its X server and dies,
\* any number of times, does what StorageManager describes.
THEOREM ImplementsStorage == DaemonSpec => StorageSpec
<1>1. DaemonInit => Init
  BY DEF DaemonInit
<1>2. [DaemonNext]_allVars => [Next]_vars
  BY StorageStep DEF allVars
<1> QED BY <1>1, <1>2, PTL DEF DaemonSpec, StorageSpec, Spec

\* So every key press of every process is in exactly one place.
THEOREM DaemonConserves == DaemonSpec => []Conservation
BY ImplementsStorage, PressesConserved, PTL DEF StorageSpec

\* And a process that nothing disturbs, with a data base, loses none.
THEOREM DaemonLosesNothing == DaemonSpec => []NothingLostUndisturbed
BY ImplementsStorage, UndisturbedLosesNothing, PTL DEF StorageSpec

-----------------------------------------------------------------------------
(* The inductive invariant                                                 *)

LEMMA DaemonInvInit == DaemonInit => DaemonInv
<1> SUFFICES ASSUME DaemonInit
             PROVE  DaemonInv
  OBVIOUS
<1>1. ~running
  BY DEF DaemonInit, Init
<1>2. DaemonTypeOK
  BY <1>1, ModesAssumption DEF DaemonInit, DaemonTypeOK, Phases, Displays, XServers
<1>3. SameServer /\ ConnectionsInv
  BY DEF DaemonInit, SameServer, ConnectionsInv
<1> QED BY <1>1, <1>2, <1>3 DEF DaemonInv

\* A process that is gone leaves the invariant behind, whatever ended it.
LEMMA GoneKeeps ==
    ASSUME DaemonInv, Gone, ~running'
    PROVE  DaemonInv'
BY DEF DaemonInv, Gone, DaemonTypeOK, SameServer, ConnectionsInv, Phases,
   Displays, XServers, optionVars, configVars, serverVars

LEMMA EndsKeep ==
    ASSUME DaemonInv,
           Killed \/ Crashed \/ NotDaemonized \/ NoRecording \/ XIOError
    PROVE  DaemonInv'
<1>1. Gone
  BY DEF Killed, Crashed, NotDaemonized, NoRecording, XIOError
<1>2. ~running'
  <2>1. CASE Kill \/ CommiterCrash
    BY <2>1 DEF Kill, CommiterCrash, ProcessDies
  <2>2. CASE phase \in {"configure", "storage"} /\ UNCHANGED vars
    BY <2>2 DEF vars, DaemonInv, DaemonTypeOK
  <2> QED BY <2>1, <2>2 DEF Killed, Crashed, NotDaemonized, NoRecording, XIOError
<1> QED BY <1>1, <1>2, GoneKeeps

\* Steps of the main thread before it has a StorageManager.
LEMMA ConstructorKeeps ==
    ASSUME DaemonInv, ReadConfig \/ NoConfig \/ CreateStorage
    PROVE  DaemonInv'
<1> USE DEF DaemonInv, DaemonTypeOK, SameServer, ConnectionsInv, Phases,
            optionVars, configVars, connectionVars, serverVars
<1>1. CASE ReadConfig
  BY <1>1 DEF ReadConfig, vars
<1>2. CASE NoConfig
  BY <1>2 DEF NoConfig, vars
<1>3. CASE CreateStorage
  BY <1>3 DEF CreateStorage, Restart
<1> QED BY <1>1, <1>2, <1>3

\* The fork, and the way around connectXserver.
LEMMA RunKeeps ==
    ASSUME DaemonInv, MainOptions \/ Run \/ AlreadyConnected \/ StartMonitor
    PROVE  DaemonInv'
<1> USE DEF DaemonInv, DaemonTypeOK, SameServer, ConnectionsInv, Phases,
            optionVars, configVars, connectionVars, serverVars, vars
<1>1. CASE MainOptions
  BY <1>1 DEF MainOptions
<1>2. CASE Run
  BY <1>2 DEF Run
<1>3. CASE AlreadyConnected
  BY <1>3 DEF AlreadyConnected
<1>4. CASE StartMonitor
  BY <1>4 DEF StartMonitor
<1> QED BY <1>1, <1>2, <1>3, <1>4

\* One request to the X server after the other.
LEMMA ConnectKeeps ==
    ASSUME DaemonInv,
           OpenCtrlDisplay \/ OpenDataDisplay \/ SetupRecordExtension \/ StartRecording
    PROVE  DaemonInv'
<1> USE DEF DaemonInv, DaemonTypeOK, SameServer, ConnectionsInv, Phases,
            Displays, optionVars, configVars, connectionVars, serverVars, vars
<1>1. CASE OpenCtrlDisplay
  BY <1>1 DEF OpenCtrlDisplay
<1>2. CASE OpenDataDisplay
  BY <1>2 DEF OpenDataDisplay
<1>3. CASE SetupRecordExtension
  BY <1>3 DEF SetupRecordExtension
<1>4. CASE StartRecording
  BY <1>4 DEF StartRecording, Connecting, Connected
<1> QED BY <1>1, <1>2, <1>3, <1>4

\* Key presses, charts and the commiter touch nothing of the process but its storage.
LEMMA StorageKeeps ==
    ASSUME DaemonInv, LoopKeyPress \/ LoopCacheAdd \/ CommiterThread \/ KeyvisChart
    PROVE  DaemonInv'
<1>1. UNCHANGED daemonVars
  BY DEF LoopKeyPress, LoopCacheAdd, CommiterThread, KeyvisChart
<1>2. UNCHANGED running
  BY DEF LoopKeyPress, LoopCacheAdd, CommiterThread, KeyvisChart, AddKeyPress, CacheAdd,
     Commiter, CommiterSnapshot, CommiterClear, CommiterUpdate, CommiterInsert,
     CommiterSleep, DrawChart, EndChart
<1> QED BY <1>1, <1>2 DEF DaemonInv, DaemonTypeOK, SameServer, ConnectionsInv,
           daemonVars, optionVars, configVars, connectionVars, serverVars

\* What other programs and the user do.
LEMMA OutsideKeeps ==
    ASSUME DaemonInv,
           \/ XServerStops \/ XServerStarts \/ XServerFills
           \/ WriteConfig \/ Launch \/ UNCHANGED allVars
    PROVE  DaemonInv'
<1> USE DEF DaemonInv, DaemonTypeOK, SameServer, ConnectionsInv, Phases,
            Displays, XServers, optionVars, configVars, connectionVars, serverVars, vars
<1>1. CASE XServerStops
  BY <1>1 DEF XServerStops, Broken
<1>2. CASE XServerStarts
  BY <1>2 DEF XServerStarts
<1>3. CASE XServerFills
  BY <1>3 DEF XServerFills
<1>4. CASE WriteConfig
  BY <1>4 DEF WriteConfig
<1>5. CASE Launch
  BY <1>5, ModesAssumption DEF Launch
<1>6. CASE UNCHANGED allVars
  BY <1>6 DEF allVars, daemonVars
<1> QED BY <1>1, <1>2, <1>3, <1>4, <1>5, <1>6

LEMMA DaemonInvStep == DaemonInv /\ [DaemonNext]_allVars => DaemonInv'
BY EndsKeep, ConstructorKeeps, RunKeeps, ConnectKeeps, StorageKeeps, OutsideKeeps
   DEF DaemonNext, MainThread

LEMMA DaemonInvariant == DaemonSpec => []DaemonInv
BY DaemonInvInit, DaemonInvStep, PTL DEF DaemonSpec

-----------------------------------------------------------------------------
(* The theorems                                                            *)

\* There is a StorageManager exactly in the phases that have one, and no key is
\* counted before the RECORD context is set up.
THEOREM DaemonTypeCorrect == DaemonSpec => []DaemonTypeOK
<1>1. DaemonInv => DaemonTypeOK
  BY DEF DaemonInv
<1> QED BY <1>1, DaemonInvariant, PTL

\* The two connections of a recording process are never to two X servers.
THEOREM OneServer == DaemonSpec => []SameServer
<1>1. DaemonInv => SameServer
  BY DEF DaemonInv
<1> QED BY <1>1, DaemonInvariant, PTL
=============================================================================
