--------------------------- MODULE StorageManager ---------------------------
(***************************************************************************)
(* StorageManager puts a cache in front of the SQLite backend.  The main   *)
(* thread counts key presses in m_cache (addKeyPress); the commiter thread *)
(* (StorageManagerCommiter::operator()) wakes up every five seconds, takes *)
(* a snapshot of m_cache, clears it, and writes the snapshot entry by      *)
(* entry, each with an UPDATE and, when that changes nothing, an INSERT.   *)
(*                                                                         *)
(* Keyvis may read the file at any moment and the process may be killed at *)
(* any moment: Daemon::run never returns, so being killed is the only way  *)
(* keyfrog ends.                                                           *)
(*                                                                         *)
(* pressed and lost are history variables, counted per row of the table.   *)
(***************************************************************************)
EXTENDS StorageSqlite

CONSTANTS MaxPresses,  \* bound: key presses per row
          MaxKills,    \* bound: deaths of the process after which it is not killed again
          MaxCharts    \* bound: charts that Keyvis draws

ASSUME BoundsAssumption == MaxPresses \in Nat /\ MaxKills \in Nat /\ MaxCharts \in Nat

VARIABLES running,        \* a keyfrog process is alive that has its StorageManager
          m_cache,        \* key -> presses since the last snapshot, 0: no entry
          m_cache_mutex,  \* its holder, between two steps
          pending,        \* main thread: addKeyPress before its lock
          commiter,       \* program counter of the commiter thread
          localcache,     \* commiter: entries of the snapshot still to write
          entry,          \* commiter: the entry whose INSERT is next
          pressed,        \* history: row -> key presses of a group
          lost,           \* history: row -> key presses that no row will count
          deaths,         \* how often the process died
          charts          \* how many charts were drawn

mainVars     == <<m_cache, pending>>
commiterVars == <<commiter, localcache, entry>>
historyVars  == <<pressed, lost, deaths, charts>>
vars == <<storageVars, running, m_cache_mutex, mainVars, commiterVars, historyVars>>

-----------------------------------------------------------------------------
(* The key of m_cache is the string "{app_group}_{begin_cluster}".  It is  *)
(* kept as the pair of the two parts that split() finds.                   *)

Keys == Groups \X Clusters

NoKey == <<>>

Empty == [key \in Keys |-> 0]

\* Slip: the parts in the order that StorageManager.h gives them.
HeaderOrderKey(app_group, timestamp) == <<getClusterStart(timestamp), app_group>>

\* The key that addKeyPress(app_group, timestamp, count) builds.
KeyFor(app_group, timestamp) == <<app_group, getClusterStart(timestamp)>>

\* The commiter names the first part cluster_begin and the second app_group,
\* and calls addKeyPress(app_group, cluster_begin, n); the first parameter of
\* StorageSqlite::addKeyPress is the time stamp.
RowFor(key) == LET cluster_begin == key[1]
                   app_group == key[2]
               IN  AddressedRow(app_group, cluster_begin)

CommiterStates == {"sleep", "copied", "write", "insert"}

-----------------------------------------------------------------------------
(* Main thread                                                             *)

\* addKeyPress up to its lock: time(NULL) is read and the key is built.
AddKeyPress(app_group, timestamp) ==
    LET row == <<getClusterStart(timestamp), app_group>>
    IN  /\ running
        /\ pending = NoKey
        /\ pressed[row] < MaxPresses
        /\ pending' = KeyFor(app_group, timestamp)
        /\ pressed' = [pressed EXCEPT ![row] = @ + 1]
        /\ UNCHANGED <<storageVars, running, m_cache_mutex, m_cache, commiterVars,
                       lost, deaths, charts>>

\* addKeyPress under its lock, on a free mutex, in one step: whatever else
\* touches m_cache holds the mutex too.
CacheAdd ==
    /\ running
    /\ pending # NoKey
    /\ m_cache_mutex = "free"
    /\ m_cache' = [m_cache EXCEPT ![pending] = @ + 1]
    /\ pending' = NoKey
    /\ UNCHANGED <<storageVars, running, m_cache_mutex, commiterVars, historyVars>>

-----------------------------------------------------------------------------
(* Commiter thread                                                         *)

\* Slip: the scope of the lock ends before the cache is cleared.
SnapshotUnlocked ==
    /\ running
    /\ commiter = "sleep"
    /\ m_cache_mutex = "free"
    /\ localcache' = m_cache
    /\ commiter' = "copied"
    /\ UNCHANGED <<storageVars, running, m_cache_mutex, mainVars, entry, historyVars>>

\* The sleep is over: lock, and copy the cache.
CommiterSnapshot ==
    /\ running
    /\ commiter = "sleep"
    /\ m_cache_mutex = "free"
    /\ m_cache_mutex' = "commiter"
    /\ localcache' = m_cache
    /\ commiter' = "copied"
    /\ UNCHANGED <<storageVars, running, mainVars, entry, historyVars>>

\* Slip: the cache is copied and never cleared.
SnapshotWithoutClear ==
    /\ running
    /\ commiter = "copied"
    /\ m_cache_mutex' = "free"
    /\ commiter' = "write"
    /\ UNCHANGED <<storageVars, running, mainVars, localcache, entry, historyVars>>

\* Slip: the mutex is locked by hand and not unlocked.
ClearWithoutUnlock ==
    /\ running
    /\ commiter = "copied"
    /\ m_cache' = Empty
    /\ commiter' = "write"
    /\ UNCHANGED <<storageVars, running, m_cache_mutex, pending, localcache, entry,
                   historyVars>>

\* m_cache.clear(), and the end of the scope of the lock.
CommiterClear ==
    /\ running
    /\ commiter = "copied"
    /\ m_cache' = Empty
    /\ m_cache_mutex' = "free"
    /\ commiter' = "write"
    /\ UNCHANGED <<storageVars, running, pending, localcache, entry, historyVars>>

\* Slip: INSERT without the UPDATE first.
InsertOnly(key) ==
    /\ running
    /\ commiter = "write"
    /\ localcache[key] > 0
    /\ entry' = key
    /\ commiter' = "insert"
    /\ UNCHANGED <<storageVars, running, m_cache_mutex, mainVars, localcache, historyVars>>

\* The next entry of the snapshot (the order of the strings is abstracted to
\* any order): the UPDATE changes its row and the entry is done, or it does
\* not and the INSERT is next.
CommiterUpdate(key) ==
    /\ running
    /\ commiter = "write"
    /\ localcache[key] > 0
    /\ \/ /\ UpdateDone(RowFor(key))
          /\ AddToRow(RowFor(key), localcache[key])
          /\ localcache' = [localcache EXCEPT ![key] = 0]
          /\ UNCHANGED <<commiter, entry>>
       \/ /\ ~UpdateDone(RowFor(key))
          /\ entry' = key
          /\ commiter' = "insert"
          /\ UNCHANGED <<keypresses, localcache>>
    /\ UNCHANGED <<connected, chartReading, running, m_cache_mutex, mainVars, historyVars>>

\* The INSERT of the entry.  When it fails addKeyPress returns false, which
\* the commiter ignores: the count of the entry is dropped.
CommiterInsert ==
    /\ running
    /\ commiter = "insert"
    /\ \/ /\ InsertDone(RowFor(entry))
          /\ AddToRow(RowFor(entry), localcache[entry])
          /\ UNCHANGED lost
       \/ /\ ~InsertDone(RowFor(entry))
          /\ lost' = [lost EXCEPT ![RowFor(entry)] = @ + localcache[entry]]
          /\ UNCHANGED keypresses
    /\ localcache' = [localcache EXCEPT ![entry] = 0]
    /\ entry' = NoKey
    /\ commiter' = "write"
    /\ UNCHANGED <<connected, chartReading, running, m_cache_mutex, mainVars,
                   pressed, deaths, charts>>

\* The snapshot is written: back to the sleep of five seconds.
CommiterSleep ==
    /\ running
    /\ commiter = "write"
    /\ localcache = Empty
    /\ commiter' = "sleep"
    /\ UNCHANGED <<storageVars, running, m_cache_mutex, mainVars, localcache, entry,
                   historyVars>>

Commiter == \/ CommiterSnapshot
            \/ CommiterClear
            \/ \E key \in Keys : CommiterUpdate(key)
            \/ CommiterInsert
            \/ CommiterSleep

-----------------------------------------------------------------------------
(* Keyvis, and the life of the process                                     *)

DrawChart == /\ charts < MaxCharts
             /\ OpenChart
             /\ charts' = charts + 1
             /\ UNCHANGED <<keypresses, connected, running, m_cache_mutex, mainVars,
                            commiterVars, pressed, lost, deaths>>

EndChart == /\ CloseChart
            /\ UNCHANGED <<keypresses, connected, running, m_cache_mutex, mainVars,
                           commiterVars, historyVars>>

KeyOf(row) == <<row[2], row[1]>>

\* Presses of a row that only the memory of the process knows.  Until the
\* cache is cleared the snapshot is a copy of it.
InFlight(row) ==
    LET key == KeyOf(row)
    IN  (IF pending = key THEN 1 ELSE 0)
        + m_cache[key]
        + (IF commiter = "copied" THEN 0 ELSE localcache[key])

\* The memory of the process is gone; SQLite keeps what was committed.
ProcessDies ==
    /\ running
    /\ running' = FALSE
    /\ lost' = [row \in Rows |-> lost[row] + InFlight(row)]
    /\ pending' = NoKey
    /\ m_cache' = Empty
    /\ m_cache_mutex' = "free"
    /\ commiter' = "sleep"
    /\ localcache' = Empty
    /\ entry' = NoKey

Kill == /\ deaths < MaxKills
        /\ ProcessDies
        /\ deaths' = deaths + 1
        /\ UNCHANGED <<storageVars, pressed, charts>>

\* The statements of a backend that is not connected were never initialised:
\* instead of an error code, stepping one may crash the process.
CommiterCrash == /\ commiter \in {"write", "insert"}
                 /\ localcache # Empty
                 /\ ~connected
                 /\ ProcessDies
                 /\ deaths' = deaths + 1
                 /\ UNCHANGED <<storageVars, pressed, charts>>

\* Daemon::Daemon in a new process, the first or another: a StorageManager, whose
\* constructor starts the commiter, and its connect().
Restart == /\ ~running
           /\ running' = TRUE
           /\ Connect
           /\ UNCHANGED <<keypresses, chartReading, m_cache_mutex, mainVars, commiterVars,
                          historyVars>>

-----------------------------------------------------------------------------

Init == /\ keypresses = NoRows
        /\ connected = FALSE
        /\ chartReading = FALSE
        /\ running = FALSE
        /\ m_cache = Empty
        /\ m_cache_mutex = "free"
        /\ pending = NoKey
        /\ commiter = "sleep"
        /\ localcache = Empty
        /\ entry = NoKey
        /\ pressed = NoRows
        /\ lost = NoRows
        /\ deaths = 0
        /\ charts = 0

Next == \/ \E g \in Groups, t \in Times : AddKeyPress(g, t)
        \/ CacheAdd
        \/ Commiter
        \/ DrawChart
        \/ EndChart
        \/ Kill
        \/ CommiterCrash
        \/ Restart

Spec == Init /\ [][Next]_vars

\* Both threads are scheduled for ever.  boost::mutex is not fair, but the
\* commiter leaves it alone while it sleeps: the waiting main thread gets it.
Fairness == WF_vars(Commiter) /\ SF_vars(CacheAdd)

FairSpec == Spec /\ Fairness

-----------------------------------------------------------------------------
(* Properties                                                              *)

TypeOK == /\ keypresses \in [Rows -> Nat]
          /\ connected \in BOOLEAN
          /\ chartReading \in BOOLEAN
          /\ running \in BOOLEAN
          /\ m_cache \in [Keys -> Nat]
          /\ m_cache_mutex \in {"free", "commiter"}
          /\ pending \in Keys \cup {NoKey}
          /\ commiter \in CommiterStates
          /\ localcache \in [Keys -> Nat]
          /\ entry \in Keys \cup {NoKey}
          /\ pressed \in [Rows -> Nat]
          /\ lost \in [Rows -> Nat]
          /\ deaths \in Nat
          /\ charts \in Nat

\* No key press is counted twice, counted in a row of another group or cluster,
\* or forgotten without being lost: it is in exactly one of addKeyPress, the
\* cache, the snapshot, its row, and the lost ones.  This rests on the lock
\* around copy and clear, and on the key surviving its two swapped decodings.
Conservation ==
    \A row \in Rows : pressed[row] = keypresses[row] + InFlight(row) + lost[row]

\* Where the commiter is tells what its snapshot is: a copy of the cache, under
\* the lock, until the cache is cleared, and nothing while it sleeps.
SnapshotInv == /\ m_cache_mutex = "commiter" <=> commiter = "copied"
               /\ commiter = "copied" => localcache = m_cache
               /\ commiter = "sleep" => localcache = Empty
               /\ commiter = "insert" => entry \in Keys

\* The inductive invariant behind Conservation.
IInv == TypeOK /\ SnapshotInv /\ Conservation

\* A backend that is connected and that nobody else reads loses nothing as long
\* as the process lives, although no result of addKeyPress is ever looked at.
NothingLostUndisturbed ==
    (deaths = 0 /\ charts = 0 /\ connected) => lost = NoRows

\* Why: a loss needs a death, a chart, or a failed connect, and so does an
\* INSERT of a row that is there already.
UndisturbedInv ==
    /\ ~running => deaths > 0 \/ (lost = NoRows /\ commiter = "sleep")
    /\ chartReading => charts > 0
    /\ (deaths = 0 /\ charts = 0 /\ connected) =>
           /\ lost = NoRows
           /\ commiter = "insert" => ~RowExists(RowFor(entry))

\* What the user sees is at-most-once accounting, through kills and BUSY.
Ledger == INSTANCE StorageLedger WITH stored <- keypresses

LedgerSpec == Ledger!Spec

\* Every key press is settled: the commiter gets around to it, or it is lost.
\* No press waits in the cache for ever, however often Keyvis reads.
PressesSettle ==
    \A row \in Rows : \A n \in 1..MaxPresses :
        (pressed[row] >= n) ~> (keypresses[row] + lost[row] >= n)
=============================================================================
