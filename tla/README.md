# Keyfrog in TLA+

Keyfrog counts key presses per application group and per fifteen minutes, in a
SQLite data base `~/.keyfrog/keyfrog.db`. The counting program `keyfrog` is C++
(`src/src/`); `Keyvis` (`src/keyvis/`, Java) reads the same data base and the
same `~/.keyfrog/config` and draws charts. These modules describe what the two
programs do with a key press from the X server to the chart, the threads and
processes around it, and the failures they meet on the way.

Paths below are relative to the repository. In comments, "Slip" marks a definition that
no specification uses: it is a plausible mistake in the code, and the property
named for it in `PROJECT.json` (`mutants`) is violated when the mistake is made.

## 1. Inventory

### The parts and how they work together

```
 X server --RECORD--> EventMonitorX11 --raw events--> EventFilter --events--> Daemon::run
                                                       |   |  |                  |
                              KfWindowCache <----------+   |  +--> FilterConfig  | addKeyPress
                              (class, pid of a window)     |       (ConfigReader)|
                                                           v                     v
 ProcessMonitor thread --5 s--> ProcessManager --> ProcessTree              StorageManager
                                (/proc, sysctl)                             m_cache + mutex
                                                                                 |
                                            commiter thread --5 s--> StorageSqlite --> keyfrog.db
                                                                                 |
                                                    Keyvis: Main.readConfig, LineChartFactory
```

| Component | State | Operations | What is hard | What makes it correct |
|---|---|---|---|---|
| `StorageManager` | `m_cache`, its mutex, the commiter's snapshot | `addKeyPress`, commiter loop | two threads; a kill between steps; ignored results | no press counted twice, in a wrong row, or silently gone; each is settled in the end |
| `StorageSqlite` | the table `keypresses`, its unique index, two prepared statements | `connect`, `addKeyPress` (UPDATE, then INSERT) | `SQLITE_BUSY` at each statement; a half-executed script | one row per group and cluster |
| `Daemon`, `main` | `~/.keyfrog`, the threads, the fork | the constructor, `connectXserver`, `run` | a missing config; fork after a thread was created; X server that comes and goes | the loop is reached; no press is stuck; a failed start leaves nothing behind |
| `EventMonitorX11` | two connections, last key code, raw events | `connect`, `setupRecordExtension`, `start`, `eventCallback`, `waitForEvents` | the server stops between two requests; one record per receiving client | both connections are to one server; no press is counted twice, and a press of another key than the last is counted |
| `EventFilter` | `m_events`, group list | `processEvents`, `nextEvent`, `setGroupId` | batches: all windows are resolved before any event is dispatched | every event is dispatched; the first matching rule decides |
| `KfWindowCache` | class and pid by window id | the two walks to parent windows, `invalidate` | window ids are reused while a notice is in a queue, and in the middle of a walk | an entry is never wrong for longer than a notice is queued |
| `ProcessMonitor`, `ProcessManager` | mutex of the manager, the map that is filled | rebuild every five seconds, `createProcTree` | two threads, two nested recursive mutexes; a scan is not atomic | readers see whole trees, which never get older; nobody waits for ever; what stood still during a scan is in it |
| `ProcessTree` | graph, `m_pidToIdMap` | `clear`, `addConnectProcesses`, `fetchDescendants`, `fetchName` | two recursions; missing parents; wrapped pids; an uninitialised variable | the graph is the scan; descendants are exact; calls return |
| Configuration | groups with rules, options | `ConfigReader::readConfig`, `Main.readConfig` | two parsers of one document | the groups are the written ones, or the reader ends; a press is shown under the name of its group |
| Keyvis charts | accumulators, series | `LineChartFactory` | end of a period, gaps, last row | a chart has every key stroke once |
| Keyvis window | ranges of the form | `Main`, button Update | pressed again, with a bad date, with a data base that fails | nothing of an earlier chart is in the next |
| `EventMonitorMac`, logging, build files | - | - | - | not modelled, section 7 |

`PROJECT.json` lists every component with its status, and under `hazards` what
is hard to test in each, at its line, with the properties that would notice.

### Modules

| Module | Code | State and actions |
|---|---|---|
| `StorageSqlite` | `StorageSqlite.cpp`, the reading `SELECT` of Keyvis | the table as a function from rows `<<cluster, group>>` to counts, whether the backend is connected, whether a chart reads; `getClusterStart`, outcomes of `UPDATE` and `INSERT` |
| `StorageManager` | `StorageManager.cpp/.h` | `EXTENDS StorageSqlite`; `addKeyPress` before and under its lock (`AddKeyPress`, `CacheAdd`), commiter (`CommiterSnapshot`, `CommiterClear`, `CommiterUpdate`, `CommiterInsert`, ...), kill, crash, restart, charts |
| `StorageLedger` | none: the promise | at-most-once accounting: a press is open, stored or lost |
| `Daemon` | `keyfrog.cpp`, `Daemon.cpp`, `connect`, `setupRecordExtension` and `start` of `EventMonitorX11.cpp` | `EXTENDS StorageManager`; main thread from the constructor to the loop, the directory and the config file, fork, the two connections one request after the other, missing RECORD extension, Xlib's exit, launches and deaths |
| `StorageSchema` | `StorageSqlite.cpp:59-87`, `getClusterStart`, `addKeyPress` | the two-statement script, each statement committed for itself; the table as a sequence of rows with `cluster_begin` and `cluster_end`; times in an `int` of limited width, with C's remainder |
| `ProcessSync` | `ProcessMonitor.cpp`, the locks of `ProcessManager*.cpp` and `ProcessTree.cpp`, `EventFilter.cpp` | two threads, two recursive mutexes, one step per lock, clear, added process, unlock, read |
| `ProcessScan` | the reading of `/proc`, `sysctl` and `kinfo_getallproc` in `ProcessManager*.cpp` | processes that start, end and get another parent between the steps of a scan; `procMap`, the listing in batches, one stat file per step, rounds of `sysctl` with `ENOMEM` |
| `ProcessTree` | `ProcessTree.cpp/.h` | `EXTENDS ProcessScan`; the graph, `m_pidToIdMap`, and both recursions with their stacks, one step per call |
| `EventPipeline` | `EventMonitorX11.cpp`, `EventFilter.cpp`, `KfWindowCache.cpp`, loop of `Daemon.cpp` | three queues (records, raw events, events), the window cache, the phases of the main thread, and the place and next request of a walk through the window tree |
| `ConfigReader` | `ConfigReader.cpp`, `FilterConfig.cpp`, `Options.cpp`; `Main.java` (`readConfig`) | sections, nodes and rules read one at a time; ends `done`, `exception`, `segfault`; what Keyvis makes of the document |
| `GroupMatch` | `EventFilter.cpp` (`setGroupId`, `match*`) | `EXTENDS ConfigReader`; three kinds of rules in their order, one step per group looked at |
| `Chart` | `LineChartFactory.java`, `KeyVisWin.java` (button) | one step per row; accumulators, series and ends of periods; one press of the button after the other |
| `Daemon_proofs`, `ProcessSync_proofs`, `ProcessTree_proofs`, `EventPipeline_proofs`, `GroupMatch_proofs`, `StorageSchema_proofs`, `Chart_proofs` | - | theorems, section 5 |
| `Sums_proofs` | - | lemmas about sums over finite sets, and the two inductions they rest on |

What the definitions stand for, line by line, is `map` in `PROJECT.json`.

## 2. Plan

The order is that of the importance of the behaviour: what is counted first,
then who is counted, then what is shown.

1. Done: `StorageSqlite`, `StorageManager`, the ledger it implements, and their
   proofs; `Daemon` on top of them.
2. Done: `ProcessSync` and `ProcessTree`; `EventPipeline`.
3. Done: `StorageSchema`, `ConfigReader` with `GroupMatch`, `Chart`.
4. Done, more of the system: times with the width of the code
   (`StorageSchema`); scans that are not atomic, with reused pids
   (`ProcessScan`); the walk from a window to its parents, one request after
   the other (`EventPipeline`); the constructor with its configuration and both
   connections to the X server (`Daemon`); charts one after the other (`Chart`).
5. Done, proofs: `StorageManager` and the ledger; `Daemon`, as an
   implementation of `StorageManager` and for itself; `ProcessSync`; the cache
   and the order of `EventPipeline`; `GroupMatch`; the rounding of
   `StorageSchema`.
6. Done, proofs that need sums, paths and recursions: the counts of
   `StorageSchema`, `EventPipeline` and `Chart`; `ProcessScan` and `ProcessTree`;
   the document and its two readers in `ConfigReader` and `GroupMatch`. Every
   invariant that a run checks is a theorem.
7. Left: proofs of the parts of the liveness properties that are safety (that a
   descent takes each edge once, that a queue only gets shorter while nothing
   arrives), from which TLC's result could be read for every instance.

No module declares a RECURSIVE operator: recursion of the code is a stack in
the state, and sums are folds, so every module can be proved about.

## 3. The modules and the code

**Storage.** `addKeyPress` reads the clock, builds the key, locks, counts. The
clock and the key are one step, what happens under the lock another: all other
code that touches `m_cache` holds the mutex, so nothing can come in between. The
commiter's copy and clear are two steps with the mutex held. The key is a
string `"{app_group}_{begin_cluster}"` that `split()` takes apart
again; the commiter calls the first part `cluster_begin` and the second
`app_group`, and passes them on in an order that undoes the exchange. The
model keeps both exchanges (`KeyFor`, `RowFor`), so that `Conservation` depends
on there being exactly two. The iteration order of the map is abstracted to any
order. UPDATE and INSERT are separate steps; each may meet the lock of a chart,
and nobody looks at the result. `Kill` is possible in every state:
`Daemon::run` never returns, so being killed is how keyfrog ends.
`pressed` and `lost` are history variables.

**Daemon.** The constructor makes the directory, reads the configuration, and
only then creates the storage and its commiter thread (`StorageManager.cpp:98`);
`run()` forks later (`Daemon.cpp:169`), and a child has only the thread that
called `fork()`. `threads` is the set of threads that exist; without the
commiter in it no `CommiterThread` step happens. The model follows the process
that goes on. The connection is made call by call: the first `XOpenDisplay`, the
second, the RECORD context on the first connection, `start()` on the second; the
X server may stop, start, fill up or miss the extension between any two, and a
connection that was open breaks with it. Every storage action is reused with
the variables of the daemon beside it, which makes `StorageSpec` (every
behaviour of `Daemon` is one of `StorageManager`) a statement about that reuse:
starting, forking and dying must leave the storage alone in every way that
`StorageManager` does not know of.

**Processes.** `ProcessSync` looks at locks and ages only; `ProcessScan` and
`ProcessTree` at the data, under the lock. A scan reads Linux's `/proc` in
batches of the directory iterator and then file by file, while the other
processes go on: `Fork`, `Exit` with a new parent for the children, pids given
away again. What a scan should have found is said by history variables: `born`
(parents that processes had), `stable` (processes that were there all the
time), `reused`. In `addConnectProcesses` the variable `newProc` is
uninitialised when the pid is in the map already; a use of it is a choice
over all vertices, or a crash (`VertexRead`, `ReadCrashes`). `FindParent` has
the `operator[]` that makes an entry 0 for a parent that is not in the scan.

**Events.** A window id has a life, odd while a window has it, even while none
has. A window without `WM_CLASS` belongs to its `owner`, the nearest window above
that has one; what the cache knows of an id is the owner and life it was told.
The X server's steps interleave with those of the main thread, and every request
of `resolveClassName` and `resolveClientPid` is a step: `XGetClassHint`,
`XQueryTree`, the property `_NET_WM_PID`. A press is recorded once for each
receiving client, a destruction once for each client that selected it, which may
be none (`missed`).

**Configuration.** Documents are records of sections, nodes and rules; names and
labels are small values. An id has two values, since it is read twice: that of
its leading digits, which `atoi` wraps to the width `IntMax`, and that of the number
that Java's Double parses to its end, exponent included, whose `intValue` saturates;
what is no such number makes Keyvis give up. An element may be in a namespace, which
keyfrog does not look at and Keyvis' path does not select. How the reader ends on what it does not expect (an element of
another name among rules, a rule without a text) is part of the model.

**Charts.** Rows are read in the order of the `SELECT`. Local variables are new for each press of the
button, the names of groups and the type of chart stay. Times are in seconds,
minutes are JFreeChart's `Minute`: a second point in a minute replaces the
first, as `addOrUpdate` does.

**Storage schema.** The table is a sequence of rows with no promise that a
cluster has one only: that is what the index is for. Time stamps are
converted to an `int` of 16 values, whose width, as that of 32 bits, is no
multiple of a cluster; `Remainder` has the sign of its dividend, as in C++, and
a time is rounded by the key of the cache and again by the statement.

## 4. Runs

| Run | Result | States | What it shows |
|---|---|---|---|
| `MCStorageManager` | pass | 33,724 | `Conservation`, `NothingLostUndisturbed`, implements `StorageLedger`, `PressesSettle` |
| `MCDaemon` | pass | 137,708 | both modes: `SameServer`, `StorageSpec`, `RetryConnects`, `ForegroundSettles` |
| `MCDaemonBackground` | violation | - | with the fork, `PressesSettle` fails |
| `MCProcessSync` | pass | 931 | `WholeTreeSeen`, `TreeNeverOlder`, `TreeCatchesUp`, `MatchEnds`, no deadlock |
| `MCProcessSyncName` | violation | - | `NameOutlivesLock` |
| `MCProcessTree` | pass | 280,394 | `TreeIsScan`, `DescendantsExact`; across scans that are not atomic `DescendantsByBirth`, `StandingFound`; `DescentsEnd`, `ScansEnd` |
| `MCEventPipeline` | pass | 820,906 | `StaleHasNotice`, `CountsPresses`, `QueuesDrain` |
| `MCEventPipelineReuse` | violation | - | `UsesActualEntry` |
| `MCStorageSchema` | pass | 84,167 | `IndexKeepsCount`, `QuarterCounts` |
| `MCChart` | pass | 140,944 | `Accounted`, `ChartComplete`, `AllIsSum`, `NeverLate` |
| `MCChartPeriods` | violation | - | `OwnPeriod` |
| `MCGroupMatch` | pass | 83,064 | `GroupsAsWritten`, `FirstRuleDecides`, `NamelessNotCounted`, `ShownUnderItsName` |

### Bounds, and why they are enough

- `MCStorageManager`: one group, the times 899 and 900 (the two sides of a
  cluster boundary, so two rows), two presses per row, two kills, two charts.
  Rows do not influence each other except through the shared snapshot, for
  which two are enough; two presses of a row reach both UPDATE and INSERT and a
  cache that fills while the snapshot is written; with two kills a restarted
  process is killed again; with two charts both statements of one entry may
  find the file locked.
- `MCDaemon`: one group, one time, two presses, two deaths, one chart, two stops
  of the X server; with and without `--nb`, `--display`, `HOME`, the directory
  and a good config. Two stops: the server may stop between the two
  connections and be another one after that, and once more in the loop; two
  deaths: one of the connections that broke, one of a kill. An X server that
  is full may become so between the two `XOpenDisplay`.
- `MCProcessSync`: two processes in a scan (a tree may be empty, half built or
  whole) and two changes of the system (an older scan can be overtaken).
  Deadlock is checked here: both threads run for ever.
- `MCProcessTree`: every tree on the pids 1 to 3, with and without the process 0
  of FreeBSD and Mac OS, and a line of four processes whose numbers are mixed;
  the stat file of process 3 may be unreadable; two scans, so that a rebuild
  meets what the first one left; two processes that start or end during scans,
  which is what giving a pid away again takes, and what ENOMEM after ENOMEM
  takes; six calls of stack, more than a tree of four is deep.
- `MCEventPipeline`: two window ids, one of which may be created below the other,
  so that a walk has a window to pass; two keys; one or two receivers; none or one
  client that selected the notice; two presses, so that one may fill the cache
  that the other uses; three creations or destructions, so that an id is
  destroyed, given away again and destroyed while an event of its first life is
  queued.
- `MCStorageSchema`: an int of 16 values and clusters of 3, so that the last
  cluster is cut off by the end of the range; six times: before 1970, on the
  two sides of a boundary, the last that an int has, the first it has not, and one that
  is narrowed to the last second before 1970;
  three presses, two kills (once between the two statements of the script and
  once later), two charts.
- `MCChart`: every table with two groups and five clusters, which
  are the two ends of an hour, the next hour, a gap of hours, a gap of days;
  periods of an hour and a day; a data range with all rows and one that cuts
  off the first and the last cluster. The button may be pressed without end: the
  local variables are new each time, so the states are finitely many.
- `MCGroupMatch`: any two nodes out of those with two ids or -1 and seven lists
  of rules, with missing, overflowing and half-numeric ids, comments, texts; an
  exponent and a namespace; in one section or in two with the options between them;
  a section in a namespace; a wrong root; a document that does not parse; fifteen
  windows. An int is 8 bits wide, so that 257 and -257 wrap to two of the other ids.

`CHECK_DEADLOCK FALSE` is where the environment may simply stop: no more key
presses within the bounds, a process that ended, a document that is read.

### Fairness

- `StorageManager`: weak fairness of the commiter, which wakes up by a timer;
  strong fairness of `CacheAdd`, because `boost::mutex` is not fair but
  the commiter sleeps five seconds without it, so a waiting thread gets it.
  None for presses, kills, charts and restarts.
- `Daemon`: the same, and weak fairness of the main thread, from its
  constructor on; the 60 seconds between two attempts to connect are a
  step of it like others. None for X servers, the user, launches and deaths:
  `RetryConnects` assumes a good config file and an X server that takes clients
  and stays up only as its antecedent.
- `ProcessSync`: strong fairness of taking locks, for the same reason; weak
  fairness of steps that hold one, and of the timer.
- `EventPipeline`: weak fairness of the main thread, which does nothing else, and of
  the end of its waiting. None for the X server's clients.
- `ProcessTree`: weak fairness of `CallStep`, a scan or a call that started goes
  on. None for the other processes, nor for a scan to begin or fail.

### Findings

1. `Daemon.cpp:169` - in the default (background) mode the commiter thread does
   not survive the fork, and nothing is ever written (`README.md:43` says that
   it is collected in the data base). `MCDaemonBackground`.
2. `ProcessTree.cpp:234` - `fetchName` returns a reference into the tree and
   unlocks; the comment in `ProcessTree.h:74-78` says that locking per method
   is enough. `MCProcessSyncName`.
3. `EventFilter.cpp:91` - windows of a batch are resolved before the
   `DestroyNotify` among them is handled, so a press in a new window may get
   the group of the old owner of the id. `MCEventPipelineReuse`.
4. `LineChartFactory.java:322` - the first row of a new period is plotted in the
   period before. `MCChartPeriods`; `NeverLate` shows that the error goes in one
   direction only.

Other disagreements met on the way, which are not runs:

- `EventMonitorX11.cpp:253` drops repeats of the last key, in order to count a press
  once that was recorded for two clients; but the same key pressed twice gives the
  same records, so a double letter counts once. `EventMonitorX11.h:54` says "Allows to
  catch every keypress in X11". `CountsPresses` is what holds: the count is at most
  the presses, and at least those of another key than the one before. With
  `AllDispatched => counted = Len(typed)` in its place TLC finds the two presses of one key.
- `Main.java:72-79` parses an id as a Double and `ConfigReader.cpp:105` by `atoi`: the
  id `1e2` is 1 for keyfrog and 100 for Keyvis. libxml2 gives local names, and the
  path of `selectNodes` asks for names in no namespace. Two groups of one id are
  counted as one, and Keyvis has the name of the second. In all these cases the presses
  of one group are shown under the name of another one or as "Unknown". `Portable` is
  the documents in which none of them occurs; without any one of its conditions
  TLC finds `ShownUnderItsName` violated.
- `ProcessTree.cpp:116`: an entry 0 for a missing parent leads to edges from the
  first vertex to itself; `fetchDescendants` of that process does not return.
  `DescendantsExact` and `DescentsEnd` are about all others.
- With a pid that is given away again during a scan the parents may form a
  cycle. `addConnectProcesses` returns all the same (`ScansEnd`);
  `fetchDescendants` of a process on the cycle does not, so `DescentsEnd`
  excludes scans in which that happened (`reused`).
- `ProcessTree.cpp:105`: with wrapped pids (a child numbered below its parent)
  the parent is added by the recursion, and when its own turn comes, `newProc`
  is read uninitialised for its edge. Its right edge is there from the
  recursion; the edge added by chance is one that the vertex of chance has or
  gets anyway, unless the read ends the process. So `TreeIsScan` and
  `DescendantsExact` hold in every build that goes on.
- `ProcessManagerLinux.cpp:142`: `%s` stops at a space in the name of a process,
  the rest does not parse, and the process has no parent: its terminal is not
  found (`README.md:13-14`). A name such as `(a 1 7 b)` does parse, with the parent 7;
  that case is left out of `ReadStat`.
- `StorageSqlite.cpp:71-73`: after a kill or `SQLITE_BUSY` between the two
  statements there is no unique index, on this start or any later one. With the
  index, `IndexKeepsCount` holds.
- `StorageSqlite.cpp:136`: the remainder of a negative time is negative, so
  `getClusterStart(-1)` is 0, which is no "start time boundary" (lines 131-133) of
  that second: before 1970 a row counts the 15 minutes up to its name, and the row 0 those
  on both sides of 1970. A time after 2038 is narrowed to one before 1970 and may
  come to the row 0 in the same way. `QuarterCounts` measures with the clock itself and so
  lets the row 0, and no later one, have more than its own.
- `ConfigReader.cpp:75`: a missing file is reported and then dereferenced.
- `EventMonitorX11.cpp:254`: the branch for a repeated key does not call
  `XRecordFreeData`.
- `Options.cpp:45`: a local variable hides the member `m_clusterSize`. Nothing
  reads the member.

## 5. Proofs

Eight modules of theorems; each holds for any value of the constants that satisfies
the named assumptions of its specification. Every invariant of a passing run is
stated by a theorem, as are `TreeNeverOlder`, `LedgerSpec` and `StorageSpec`.

**`Daemon_proofs`**, the storage: `TypeCorrect` (`Spec => []TypeOK`), `PressesConserved`
(`[]Conservation`), `UndisturbedLosesNothing` (`[]NothingLostUndisturbed`),
`ImplementsLedger` (`Spec => LedgerSpec`).
Assumptions: groups are integers other than -1, the "no group" that is never
stored (`GroupsAssumption`), times are natural numbers
(`TimesAssumption`), bounds are natural numbers (`BoundsAssumption`).

The inductive invariant is `IInv == TypeOK /\ SnapshotInv /\ Conservation`.
`Conservation` alone is not inductive: that `CommiterClear` loses nothing needs
to know that the snapshot is what the cache still is (`commiter = "copied" =>
localcache = m_cache`), which needs the lock (`m_cache_mutex = "commiter"`
exactly then), and that `CommiterSnapshot` overwrites nothing needs an empty
snapshot while the commiter sleeps. That a written entry goes to the row whose
press made it is a lemma about the round trip of the key (`KeyFor`, `RowFor`),
which also makes `KeyFor` injective on rows. The proof has one step
per action. `UndisturbedInv` adds why nothing is lost on the quiet path: a lost
press needs a death, a chart or a failed connect, and so does an INSERT of a
row that exists. `ImplementsLedger` maps each action to `Press`, `Store`, `Lose`
or a stutter, with `stored <- keypresses`.

**`Daemon_proofs`**, the process: `ImplementsStorage` (`DaemonSpec => StorageSpec`): each step
of the process is a step of `StorageManager` or leaves the storage alone. So
the theorems about `StorageManager` hold in the process: `DaemonConserves`,
`DaemonLosesNothing`. By the invariant `DaemonInv`: `DaemonTypeCorrect`,
`OneServer` (`[]SameServer`). `SameServer`
is not inductive: that the record context is set up on the server of the
second connection needs that a broken first connection is never beside a
working second one, which is `ConnectionsInv`, the order in which the two are
opened and closed. Assumption: `ModesAssumption`, and those of the storage.

**`ProcessSync_proofs`**: `SyncInvariant`, and from it `TypeCorrect`,
`ReadsWholeTrees` (`[]WholeTreeSeen`) and the action property `NeverOlder`
(`TreeNeverOlder`). `SyncInv` says who holds which mutex at which step
(`LocksInv`, so that no two threads are at steps that hold the same one),
that the tree is whole unless a thread is filling it (`WholeInv`), and that
the scan of a thread which has the manager's mutex is not older than the tree
(`AgeInv`): the reason why the manager's mutex is held across scan and rebuild.
Assumption: `SyncAssumption`.

**`EventPipeline_proofs`**: `CacheIsWarned` (`[]StaleHasNotice`),
`NoticesKeepOrder` (`[]PressesInv`), `CountsPressesTheorem` and `TypeCorrect`.
What is cached at the end of a walk may be
old in the moment it is written, so `StaleHasNotice` needs the following,
together `PipelineInv`: the windows form a tree in which each belongs to itself
or to the owner of its parent (`WindowsInv`); the notice of a window that was
pressed in and destroyed is behind the press in the queues, however these are
batched (`PressesInv`); and as long as the pressed window lives, the walk is at
a window above it of the same owner, on a path of windows that all live,
because windows are destroyed from below (`WalkInv`). The lives of ids only
grow (`LivesInv`), so an owner of an earlier life is not mistaken for one of a
later life. The lemmas about queues (what appending copies, taking the head and
moving it to the next queue keep) come first.
`CountInv` follows each change of key from the records to the count: what is
counted, the presses in `m_events`, the one being resolved, those in `events`
and the records that differ from the one before them are together the changes of
keys. That a batch, a repeated key or a record for another client keeps the sum is a
matter of which records differ from the one before, so the invariant carries the
key that each record will be compared with (`KeyBefore`). `TypeOK` bounds the lives
by `MaxChanges`; that needs the sum of all lives (`BoundsInv`).
Assumption: `PipelineAssumption`, with finitely many windows.

**`GroupMatch_proofs`**: `TypeCorrect`, `FirstRuleWins` (`[]FirstRuleDecides`),
`NamelessStaysOut` (`[]NamelessNotCounted`), `GroupsReadAsWritten`
(`[]GroupsAsWritten`) and `PressesAreNamed` (`[]ShownUnderItsName`), for any documents
and windows. The
invariant says of a search under way that the groups before the next one do not
match, and that the kinds of rules before this one gave no group (`SearchInv`); of
the reader, that no rule is empty (`ReaderInv`). One lemma, `StageDecided`, is
about the return of a match function, with a result or without; a group with
the id -1 is a result that is none. `NamelessNotCounted` then follows without
another induction.
`GroupsAsWritten` is about the document as a whole, while the reader has only what
is left of it. `WrittenInv` says where in the document that is: the sections and nodes
to come are a suffix of the written ones, the groups are those before that place,
and the group under way lacks just what the rules to come would add. The lemmas say how
the set of groups before a place grows from one node and from one section to the
next. `ShownUnderItsName` follows: a group that was found is one of `m_groups`
that match (`GroupFound`), this has its place in the document, and in a portable document
Keyvis reads the node in that place with the same number and no other node with it.
Assumptions: `ConfigAssumption`, `DocumentsAssumption` and
`WindowsAssumption`, the shapes of documents and windows.

**`StorageSchema_proofs`**: `IndexKeepsCountTheorem`, `QuarterCountsTheorem`,
`TypeCorrect`, and `RoundedOnce`: of every int, rounding it down to a cluster twice is
rounding it once, with the remainder of C; the key of the cache and the statement rely
on it. `SchemaInv` has the reason for the index: it is only ever
made for an empty table, since a start that finds a table never gets to the second
statement, so that with it a cluster has one row. `CountedInv` then keeps two
equations between sums: of all rows, lost and pressed keys, and of those of each
cluster. They are needed together, as an `UPDATE` changes one row and both sums, and
they hold only with an index: without it, one `UPDATE` adds to several rows.
`CountedInv` speaks of the ints that the program makes of the time. `QuarterCounts` does
not; that a row begins with the clock's quarter of an hour, and which times of the
clock may be narrowed into it, are the lemmas `NarrowedTimes` and `NarrowedQuarter`.
Assumptions: `IntAssumption` (a width that is no multiple of a cluster, as 2^31 is none
of 900, and a clock from the least int to twice the width, which are the years 1901 to
2106) and `BoundsAssumption`.

**`Chart_proofs`**: `TypeCorrect`, `AccountedTheorem`, `ChartCompleteTheorem`,
`AllIsSumTheorem`, `NeverLateTheorem`, for tables of any size. `ChartInv` has, for
each group, that points and accumulator are the rows read (`AllThere`); where in time
the loop is (`PeriodInv`: all points are before the point of the current period, no
row to come is in an earlier one, and up to the end of each finished period the points
hold at least the rows typed until then), which is what makes `addOrUpdate` an addition
and never a replacement, so that no key stroke is overwritten; and that
the accumulator of all groups is the sum of theirs (`AllGroupsInv`).
Assumption: `ChartAssumption`. A cluster is whole minutes long, so that no two of a
group are shown at one minute; a period, shown in its middle, has at least two minutes,
so that no two periods are, and the form of Keyvis offers an hour and more.

**`ProcessTree_proofs`**: `TypeCorrect`, `TreeIsScanTheorem`,
`DescendantsExactTheorem`, `DescendantsByBirthTheorem`, `StandingFoundTheorem`, for any
set of pids and any systems. The invariant has three parts.
`ScanInv` is about the scan that is not atomic: a parent in the map is a parent by birth
or the parent of one (`BirthInv`, as long as no pid was given away again); a process
that is there all the time has such a parent, and a parent that ended does not come
back (`StableInv`).
`TreeInv` is about the recursion of `addConnectProcesses`: every vertex is a process of
the map and every edge comes from its parent (`GraphInv`), and while the recursion runs
every process is still to come or on its way (`Expected`), every vertex has its edge or a
call that is about to add it (`Connecting`), and each call but the last waits for its
parent (`CallInv`), so that no pid is on the stack twice.
`QueryInv` is the invariant of a depth-first search: what was found is below the
process, and each edge from what was found leads to what was found or is still left in a
frame of the stack.
Lemmas say that descendants are a least closed set, are transitive, and grow with the
map. A scan that breaks off, and reads of an uninitialised vertex, are among the
steps. `DescendantsExact` and what follows from it are about processes that are not the
first vertex, as the missing parents hang there.
Assumptions: `SystemsAssumption` (finitely many pids, a process 1 without a parent,
parents that are there) and `StackAssumption`.

**`Sums_proofs`**: lemmas only. The prover cannot use an induction theorem that takes a
predicate. Where a set will do for the predicate, `SetOfNaturals` and `SetOfSubsets` give
induction over numbers and over the subsets of a finite set, from the theorem that
every non-empty set of numbers has a least one. From them follows that a sum, the
community modules' `SumFunctionOnSet`, does not depend on the order of its terms, and what
changing, adding or taking away a term does to it. The generations of
descendants and the sums over rows and points rest on these.

Only model-checked: liveness under fairness and everything with ENABLED
(`PressesSettle`, `ForegroundSettles`, `RetryConnects`, `TreeCatchesUp`,
`MatchEnds`, `QueuesDrain`, `DescentsEnd`, `ScansEnd`), which the prover does
not do.

## 6. How to run

```
tlc -workers 2 -config MCStorageManager.cfg MCStorageManager
tlc -workers 2 -config MCChartPeriods.cfg MCChart
tlapm Sums_proofs.tla
tlapm Daemon_proofs.tla
```

and so on for each module of theorems; `ProcessTree_proofs` takes longest.

Each `.cfg` belongs to the MC module that its name starts with.

## 7. What is not modelled

- `EventMonitorMac`: nothing creates one.
- Logging, `TermCode`, `Debug`, string helpers: wording. `XErrorUtil` only
  logs; that a request about a window that is gone fails and the program goes
  on is in `EventPipeline`. `autoconf` files.
- The layout of the Swing form of Keyvis, its window About, colours, titles and
  axes of charts. Of a form whose second date is bad, the first one is kept by
  nothing that the next press of the button does not set again.
- `--help`, which prints and ends.
- Reading of stat files and `kinfo_proc` byte by byte. What `sysctl` and
  `kinfo_getallproc` return is one moment of the system, as the kernel holds its
  list meanwhile.
- Windows that get another parent (XEmbed, window managers that reparent later
  than at mapping) or a `WM_CLASS` after a key was pressed in them.
- `EventMonitorX11::stop` and what other destructors do: `Daemon::run` does not
  return, and exceptions that nobody catches run no destructor.
- The overflow of `cluster_begin + m_clusterSize` is undefined in C++ and taken
  to wrap around; only `cluster_end`, which nothing reads, depends on it.
- `Options::m_clusterSize` and the debug options are read from the document
  (`ConfigReader`), and that is all: nothing that is modelled uses them.
- The X server, Xlib, SQLite, libxml2 and JFreeChart are external: what is said
  of them is what the code relies on.
