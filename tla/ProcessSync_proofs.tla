------------------------- MODULE ProcessSync_proofs -------------------------
(***************************************************************************)
(* Proofs about ProcessSync, for every number of processes and of changes: *)
(* the two mutexes of createProcTree are enough for the tree to be read    *)
(* whole and never to go back in time.                                     *)
(***************************************************************************)
EXTENDS ProcessSync, TLAPS

LEMMA SyncInit == Init => SyncInv
BY SyncAssumption DEF Init, SyncInv, TypeOK, LocksInv, WholeInv, AgeInv, WholeTreeSeen,
   Threads, Mutexes, CreateSteps, MatchSteps, HoldsManager, HoldsTree

\* A thread that fills the tree has it for itself.
LEMMA OneHolder ==
    ASSUME LocksInv, NEW t \in Threads, NEW u \in Threads, t # u
    PROVE  /\ pc[t] \in HoldsManager => pc[u] \notin HoldsManager
           /\ pc[t] \in HoldsTree => pc[u] \notin HoldsTree
BY DEF LocksInv

-----------------------------------------------------------------------------
(* createProcTree, in either thread                                        *)

LEMMA LockManagerStep ==
    ASSUME SyncInv, NEW t \in Threads, LockManager(t)
    PROVE  SyncInv'
<1> USE DEF SyncInv, LockManager, Goto, Threads
<1>1. TypeOK'
  BY DEF TypeOK, CreateSteps, Mutexes
<1>2. LocksInv'
  BY DEF LocksInv, TypeOK, CanLock, HoldsManager, HoldsTree, Mutexes
<1>3. WholeInv'
  BY DEF WholeInv, TypeOK, CreateSteps
<1>4. AgeInv'
  BY DEF AgeInv, TypeOK
<1>5. WholeTreeSeen'
  BY DEF WholeTreeSeen
<1> QED BY <1>1, <1>2, <1>3, <1>4, <1>5

LEMMA ScanStep ==
    ASSUME SyncInv, NEW t \in Threads, Scan(t)
    PROVE  SyncInv'
<1> USE DEF SyncInv, Scan, Goto, Threads
<1>1. TypeOK'
  BY DEF TypeOK, CreateSteps
<1>2. LocksInv'
  BY DEF LocksInv, TypeOK, HoldsManager, HoldsTree
<1>3. WholeInv'
  BY DEF WholeInv, TypeOK, CreateSteps
<1>4. AgeInv'
  BY SyncAssumption DEF AgeInv, TypeOK
<1>5. WholeTreeSeen'
  BY DEF WholeTreeSeen
<1> QED BY <1>1, <1>2, <1>3, <1>4, <1>5

LEMMA LockTreeStep ==
    ASSUME SyncInv, NEW t \in Threads, LockTree(t)
    PROVE  SyncInv'
<1> USE DEF SyncInv, LockTree, Goto, Threads
<1>1. TypeOK'
  BY DEF TypeOK, CreateSteps, Mutexes
<1>2. LocksInv'
  BY DEF LocksInv, TypeOK, CanLock, HoldsManager, HoldsTree, Mutexes
<1>3. WholeInv'
  BY DEF WholeInv, TypeOK, CreateSteps
<1>4. AgeInv'
  BY DEF AgeInv, TypeOK
<1>5. WholeTreeSeen'
  BY DEF WholeTreeSeen
<1> QED BY <1>1, <1>2, <1>3, <1>4, <1>5

\* Only the holder of the manager's mutex has a scan to use, so the tree becomes
\* as old as the only scan that is left.
LEMMA ClearStep ==
    ASSUME SyncInv, NEW t \in Threads, Clear(t)
    PROVE  SyncInv' /\ age' >= age
<1> USE DEF SyncInv, Clear, Goto, Threads
<1>1. TypeOK'
  BY SyncAssumption DEF TypeOK, CreateSteps
<1>2. LocksInv'
  BY DEF LocksInv, TypeOK, HoldsManager, HoldsTree
<1>3. WholeInv'
  <2>1. \A u \in Threads : u # t => pc[u] \notin HoldsTree
    BY OneHolder DEF HoldsTree
  <2> QED BY <2>1, SyncAssumption DEF WholeInv, TypeOK, CreateSteps, HoldsTree
<1>4. AgeInv' /\ age' >= age
  <2>1. \A u \in Threads : u # t => pc[u] \notin HoldsManager
    BY OneHolder DEF HoldsManager
  <2> QED BY <2>1, SyncAssumption DEF AgeInv, TypeOK, HoldsManager
<1>5. WholeTreeSeen'
  BY DEF WholeTreeSeen
<1> QED BY <1>1, <1>2, <1>3, <1>4, <1>5

LEMMA AddStep ==
    ASSUME SyncInv, NEW t \in Threads, Add(t)
    PROVE  SyncInv'
<1> USE DEF SyncInv, Add, Goto, Threads
<1>1. TypeOK'
  BY SyncAssumption DEF TypeOK, WholeInv, CreateSteps
<1>2. LocksInv'
  BY DEF LocksInv, TypeOK, HoldsManager, HoldsTree
<1>3. WholeInv'
  <2>1. \A u \in Threads : u # t => pc[u] \notin HoldsTree
    BY OneHolder DEF HoldsTree
  <2> QED BY <2>1, SyncAssumption DEF WholeInv, TypeOK, CreateSteps, HoldsTree
<1>4. AgeInv'
  BY DEF AgeInv, TypeOK
<1>5. WholeTreeSeen'
  BY DEF WholeTreeSeen
<1> QED BY <1>1, <1>2, <1>3, <1>4, <1>5

LEMMA UnlockStep ==
    ASSUME SyncInv, NEW t \in Threads, Unlock(t)
    PROVE  SyncInv'
<1> USE DEF SyncInv, Unlock, Goto, Threads
<1>1. TypeOK'
  BY DEF TypeOK, Mutexes
<1>2. LocksInv'
  BY DEF LocksInv, TypeOK, HoldsManager, HoldsTree, Mutexes
<1>3. WholeInv'
  BY DEF WholeInv, TypeOK, CreateSteps
<1>4. AgeInv'
  BY DEF AgeInv, TypeOK
<1>5. WholeTreeSeen'
  BY DEF WholeTreeSeen
<1> QED BY <1>1, <1>2, <1>3, <1>4, <1>5

-----------------------------------------------------------------------------
(* Steps that leave the mutexes and the tree alone                         *)

LEMMA MonitorStep ==
    ASSUME SyncInv, MonitorLoop \/ MonitorSleep
    PROVE  SyncInv'
<1> USE DEF SyncInv, MonitorLoop, MonitorSleep, Goto, Threads
<1>1. TypeOK'
  BY DEF TypeOK, CreateSteps
<1>2. LocksInv'
  BY DEF LocksInv, TypeOK, HoldsManager, HoldsTree
<1>3. WholeInv'
  BY DEF WholeInv, TypeOK
<1>4. AgeInv'
  BY DEF AgeInv, TypeOK
<1>5. WholeTreeSeen'
  BY DEF WholeTreeSeen
<1> QED BY <1>1, <1>2, <1>3, <1>4, <1>5

\* The main thread moves between steps at which it holds no mutex, and has built a
\* tree before.
LEMMA MainMoves ==
    ASSUME SyncInv,
           pc["main"] \in MatchSteps \cup {"loop"},
           NEW step \in MatchSteps \cup {"loop"}, pc' = [pc EXCEPT !["main"] = step],
           UNCHANGED <<owner, system, scanned, age, vertices>>,
           procName' \in {"none", "static", "vertex", "destroyed"},
           seen' = Processes
    PROVE  SyncInv'
<1> USE DEF SyncInv, Threads, MatchSteps
<1>1. TypeOK'
  BY SyncAssumption DEF TypeOK, CreateSteps
<1>2. LocksInv'
  BY DEF LocksInv, TypeOK, HoldsManager, HoldsTree
<1>3. WholeInv'
  BY DEF WholeInv, TypeOK, CreateSteps
<1>4. AgeInv'
  BY DEF AgeInv, TypeOK
<1>5. WholeTreeSeen'
  BY DEF WholeTreeSeen
<1> QED BY <1>1, <1>2, <1>3, <1>4, <1>5

\* Under the mutex of the tree the main thread reads a whole one: the monitor, if
\* it were filling the tree, would hold it.
LEMMA ReadsWhole ==
    ASSUME SyncInv, pc["main"] \in MatchSteps, CanLock("main", "tree")
    PROVE  vertices = Processes
<1>1. owner["tree"] # "monitor"
  BY DEF CanLock
<1>2. pc["monitor"] # "add"
  BY <1>1 DEF SyncInv, LocksInv, Threads, HoldsTree
<1>3. pc["main"] \notin CreateSteps
  BY DEF MatchSteps, CreateSteps
<1> QED BY <1>2, <1>3 DEF SyncInv, WholeInv

LEMMA MatchStep ==
    ASSUME SyncInv, Match
    PROVE  SyncInv'
<1> USE DEF Goto, MatchSteps
<1>0. seen = Processes /\ procName \in {"none", "static", "vertex", "destroyed"}
  BY DEF SyncInv, WholeTreeSeen, TypeOK
<1>1. CASE KeyPress
  BY <1>0, <1>1, MainMoves DEF KeyPress
<1>2. CASE FetchDescendants
  BY <1>0, <1>2, ReadsWhole, MainMoves DEF FetchDescendants
<1>3. CASE FetchName
  <2>1. seen' = Processes
    BY <1>3, ReadsWhole DEF FetchName
  <2> QED BY <1>3, <2>1, MainMoves DEF FetchName
<1>4. CASE Compare
  <2>1. CASE UNCHANGED <<pc, procName>>
    <3>1. pc' = [pc EXCEPT !["main"] = "compare"]
      BY <1>4, <2>1 DEF Compare, SyncInv, TypeOK, Threads
    <3> QED BY <1>0, <1>4, <2>1, <3>1, MainMoves DEF Compare
  <2>2. CASE Goto("main", "loop") /\ procName' = "none"
    BY <1>0, <1>4, <2>2, MainMoves DEF Compare
  <2> QED BY <1>4, <2>1, <2>2 DEF Compare
<1> QED BY <1>1, <1>2, <1>3, <1>4 DEF Match

LEMMA SystemStep ==
    ASSUME SyncInv, SystemChanges \/ UNCHANGED vars
    PROVE  SyncInv'
<1> USE DEF SyncInv, SystemChanges, vars
<1>1. TypeOK'
  BY SyncAssumption DEF TypeOK
<1>2. LocksInv'
  BY DEF LocksInv
<1>3. WholeInv'
  BY DEF WholeInv
<1>4. AgeInv'
  BY SyncAssumption DEF AgeInv, TypeOK
<1>5. WholeTreeSeen'
  BY DEF WholeTreeSeen
<1> QED BY <1>1, <1>2, <1>3, <1>4, <1>5

LEMMA SyncStep == SyncInv /\ [Next]_vars => SyncInv'
<1> SUFFICES ASSUME SyncInv, [Next]_vars
             PROVE  SyncInv'
  OBVIOUS
<1>1. CASE \E t \in Threads : createProcTree(t)
  BY <1>1, LockManagerStep, ScanStep, LockTreeStep, ClearStep, AddStep, UnlockStep
     DEF createProcTree
<1>2. CASE MonitorLoop \/ MonitorSleep
  BY <1>2, MonitorStep
<1>3. CASE Match
  BY <1>3, MatchStep
<1>4. CASE SystemChanges \/ UNCHANGED vars
  BY <1>4, SystemStep
<1> QED BY <1>1, <1>2, <1>3, <1>4 DEF Next

-----------------------------------------------------------------------------
(* The theorems                                                            *)

\* Who holds which mutex, what the tree then is, and how old.
THEOREM SyncInvariant == Spec => []SyncInv
BY SyncInit, SyncStep, PTL DEF Spec

THEOREM TypeCorrect == Spec => []TypeOK
<1>1. SyncInv => TypeOK
  BY DEF SyncInv
<1> QED BY <1>1, SyncInvariant, PTL

\* matchProc and matchTermProc never look into a tree that is half built, however
\* the rebuilds of the two threads fall between the key presses.
THEOREM ReadsWholeTrees == Spec => []WholeTreeSeen
<1>1. SyncInv => WholeTreeSeen
  BY DEF SyncInv
<1> QED BY <1>1, SyncInvariant, PTL

\* No rebuild replaces the tree by an older one.
THEOREM NeverOlder == Spec => TreeNeverOlder
<1>1. SyncInv /\ [Next]_vars => [age' >= age]_vars
  <2> SUFFICES ASSUME SyncInv, Next
               PROVE  age' >= age
    BY DEF vars
  <2>0. age \in Nat
    BY SyncAssumption DEF SyncInv, TypeOK
  <2>1. CASE \E t \in Threads : createProcTree(t)
    <3>1. PICK t \in Threads : createProcTree(t)
      BY <2>1
    <3>2. CASE Clear(t)
      BY <3>2, ClearStep
    <3>3. CASE ~Clear(t)
      BY <2>0, <3>1, <3>3 DEF createProcTree, LockManager, Scan, LockTree, Add, Unlock
    <3> QED BY <3>2, <3>3
  <2>2. CASE ~\E t \in Threads : createProcTree(t)
    BY <2>0, <2>2 DEF Next, MonitorLoop, MonitorSleep, Match, KeyPress, FetchDescendants,
       FetchName, Compare, SystemChanges
  <2> QED BY <2>1, <2>2
<1> QED BY <1>1, SyncInvariant, PTL DEF Spec, TreeNeverOlder
=============================================================================
