----------------------------- MODULE ProcessSync -----------------------------
(***************************************************************************)
(* The two threads that share the process tree.  The thread of             *)
(* ProcessMonitor::eventLoop rebuilds the tree every five seconds with     *)
(* ProcessManager::createProcTree; the main thread builds it once in       *)
(* Daemon::run and then reads it for every key press (EventFilter::        *)
(* matchTermProc and matchProc).                                           *)
(*                                                                         *)
(* There are two recursive mutexes: createProcTree holds the one of the    *)
(* process manager from the scan of /proc on, and the one of the tree from *)
(* clear() to the last addConnectProcesses(); every method of ProcessTree  *)
(* locks the latter for its own duration.  What a tree looks like is left  *)
(* to ProcessTree; here it has the age of its scan and a number of         *)
(* vertices.                                                               *)
(***************************************************************************)
EXTENDS Naturals

CONSTANTS Processes,   \* how many processes a scan finds
          MaxChanges   \* bound: changes of the processes of the system

ASSUME SyncAssumption == Processes \in Nat \ {0} /\ MaxChanges \in Nat

Threads == {"main", "monitor"}
Mutexes == {"manager", "tree"}

VARIABLES pc,        \* thread -> next step
          owner,     \* mutex -> thread that holds it, or "nobody"
          system,    \* number of changes of the processes of the system so far
          scanned,   \* thread -> value of system when its scan began
          age,       \* value of system that the tree is about
          vertices,  \* number of vertices of the tree
          procName,  \* what matchProc's reference to a name refers to
          seen       \* vertices of the tree when the main thread last read it

vars == <<pc, owner, system, scanned, age, vertices, procName, seen>>

CreateSteps == {"lockManager", "scan", "lockTree", "clear", "add", "unlock"}
MatchSteps == {"fetchDescendants", "fetchName", "compare"}

\* Slip: mutexes that are not recursive.
CanLockOnce(t, m) == owner[m] = "nobody"

\* The mutexes are recursive.
CanLock(t, m) == owner[m] \in {"nobody", t}

Goto(t, step) == pc' = [pc EXCEPT ![t] = step]

-----------------------------------------------------------------------------
(* createProcTree, in either thread                                        *)

\* Slip: the manager's mutex is not taken.
LockNothing(t) ==
    /\ pc[t] = "lockManager"
    /\ Goto(t, "scan")
    /\ UNCHANGED <<owner, system, scanned, age, vertices, procName, seen>>

\* lock(m_accessMutex)
LockManager(t) ==
    /\ pc[t] = "lockManager"
    /\ CanLock(t, "manager")
    /\ owner' = [owner EXCEPT !["manager"] = t]
    /\ Goto(t, "scan")
    /\ UNCHANGED <<system, scanned, age, vertices, procName, seen>>

\* The walk through /proc, which takes its time: LockTree is a later step.
Scan(t) ==
    /\ pc[t] = "scan"
    /\ scanned' = [scanned EXCEPT ![t] = system]
    /\ Goto(t, "lockTree")
    /\ UNCHANGED <<owner, system, age, vertices, procName, seen>>

\* Slip: without lock2, each method of the tree locks for itself only.
NoLock2(t) ==
    /\ pc[t] = "lockTree"
    /\ Goto(t, "clear")
    /\ UNCHANGED <<owner, system, scanned, age, vertices, procName, seen>>

\* lock2(m_processTree.mutex())
LockTree(t) ==
    /\ pc[t] = "lockTree"
    /\ CanLock(t, "tree")
    /\ owner' = [owner EXCEPT !["tree"] = t]
    /\ Goto(t, "clear")
    /\ UNCHANGED <<system, scanned, age, vertices, procName, seen>>

\* m_processTree.clear() destroys the names, whoever refers to them.
Clear(t) ==
    /\ pc[t] = "clear"
    /\ CanLock(t, "tree")
    /\ vertices' = 0
    /\ age' = scanned[t]
    /\ procName' = IF procName = "vertex" THEN "destroyed" ELSE procName
    /\ Goto(t, "add")
    /\ UNCHANGED <<owner, system, scanned, seen>>

\* Slip: one process too many.
AddOneMore(t) ==
    /\ pc[t] = "add"
    /\ CanLock(t, "tree")
    /\ vertices' = vertices + 1
    /\ Goto(t, IF vertices = Processes THEN "unlock" ELSE "add")
    /\ UNCHANGED <<owner, system, scanned, age, procName, seen>>

\* addConnectProcesses(processMap), vertex by vertex.
Add(t) ==
    /\ pc[t] = "add"
    /\ CanLock(t, "tree")
    /\ vertices' = vertices + 1
    /\ Goto(t, IF vertices' = Processes THEN "unlock" ELSE "add")
    /\ UNCHANGED <<owner, system, scanned, age, procName, seen>>

\* Slip: the monitor holds the tree over its sleep.
UnlockAsMain(t) ==
    /\ pc[t] = "unlock"
    /\ owner' = [m \in Mutexes |->
                    IF owner[m] = t /\ (m = "manager" \/ t = "main") THEN "nobody" ELSE owner[m]]
    /\ Goto(t, IF t = "main" THEN "loop" ELSE "sleep")
    /\ UNCHANGED <<system, scanned, age, vertices, procName, seen>>

\* The end of createProcTree, and what its caller does next.
Unlock(t) ==
    /\ pc[t] = "unlock"
    /\ owner' = [m \in Mutexes |-> IF owner[m] = t THEN "nobody" ELSE owner[m]]
    /\ Goto(t, IF t = "main" THEN "loop" ELSE "sleep")
    /\ UNCHANGED <<system, scanned, age, vertices, procName, seen>>

createProcTree(t) == \/ LockManager(t) \/ Scan(t) \/ LockTree(t)
                     \/ Clear(t) \/ Add(t) \/ Unlock(t)

-----------------------------------------------------------------------------
(* ProcessMonitor::eventLoop                                               *)

\* The top of the loop logs processTree().count(), under its lock.
MonitorLoop ==
    /\ pc["monitor"] = "loop"
    /\ CanLock("monitor", "tree")
    /\ Goto("monitor", "lockManager")
    /\ UNCHANGED <<owner, system, scanned, age, vertices, procName, seen>>

MonitorSleep ==
    /\ pc["monitor"] = "sleep"
    /\ Goto("monitor", "loop")
    /\ UNCHANGED <<owner, system, scanned, age, vertices, procName, seen>>

-----------------------------------------------------------------------------
(* A key press in the main thread: setGroupId                              *)

\* A window with a pid: matchTermProc if it is a terminal, else matchProc.
KeyPress ==
    /\ pc["main"] = "loop"
    /\ \E step \in {"fetchDescendants", "fetchName"} : Goto("main", step)
    /\ UNCHANGED <<owner, system, scanned, age, vertices, procName, seen>>

\* fetchDescendants returns a copy; if no group has one of the names, matchProc
\* is next.
FetchDescendants ==
    /\ pc["main"] = "fetchDescendants"
    /\ CanLock("main", "tree")
    /\ seen' = vertices
    /\ \E step \in {"loop", "fetchName"} : Goto("main", step)
    /\ UNCHANGED <<owner, system, scanned, age, vertices, procName>>

\* fetchName returns a reference: to the name in the vertex, or to a static
\* empty string if there is no such pid.  The lock ends with the method.
FetchName ==
    /\ pc["main"] = "fetchName"
    /\ CanLock("main", "tree")
    /\ seen' = vertices
    /\ procName' \in {"vertex", "static"}
    /\ Goto("main", "compare")
    /\ UNCHANGED <<owner, system, scanned, age, vertices>>

\* string_eq_ci(*pit, procName), for one process name of the groups after the
\* other, until one matches or there is no more.
Compare ==
    /\ pc["main"] = "compare"
    /\ \/ UNCHANGED <<pc, procName>>
       \/ Goto("main", "loop") /\ procName' = "none"
    /\ UNCHANGED <<owner, system, scanned, age, vertices, seen>>

CompareLast == Compare /\ pc' # pc

Match == KeyPress \/ FetchDescendants \/ FetchName \/ Compare

-----------------------------------------------------------------------------

\* Processes start and end.
SystemChanges ==
    /\ system < MaxChanges
    /\ system' = system + 1
    /\ UNCHANGED <<pc, owner, scanned, age, vertices, procName, seen>>

\* Daemon::run has just started the thread of the monitor.
Init == /\ pc = [t \in Threads |-> IF t = "main" THEN "lockManager" ELSE "loop"]
        /\ owner = [m \in Mutexes |-> "nobody"]
        /\ system = 0
        /\ scanned = [t \in Threads |-> 0]
        /\ age = 0
        /\ vertices = 0
        /\ procName = "none"
        /\ seen = Processes

Next == \/ \E t \in Threads : createProcTree(t)
        \/ MonitorLoop
        \/ MonitorSleep
        \/ Match
        \/ SystemChanges

Spec == Init /\ [][Next]_vars

\* Both threads run.  The mutexes are not fair, but nobody holds one while it
\* sleeps or waits for a key: whoever waits for one gets it in the end.
Fairness == /\ \A t \in Threads : /\ SF_vars(LockManager(t))
                                  /\ SF_vars(LockTree(t))
                                  /\ WF_vars(Scan(t) \/ Clear(t) \/ Add(t) \/ Unlock(t))
            /\ SF_vars(MonitorLoop)
            /\ WF_vars(MonitorSleep)
            /\ SF_vars(FetchDescendants \/ FetchName)
            /\ WF_vars(CompareLast)

FairSpec == Spec /\ Fairness

-----------------------------------------------------------------------------
(* Properties                                                              *)

TypeOK == /\ pc \in [Threads -> CreateSteps \cup MatchSteps \cup {"loop", "sleep"}]
          /\ owner \in [Mutexes -> Threads \cup {"nobody"}]
          /\ system \in 0..MaxChanges
          /\ scanned \in [Threads -> 0..MaxChanges]
          /\ age \in 0..MaxChanges
          /\ vertices \in 0..Processes
          /\ procName \in {"none", "static", "vertex", "destroyed"}
          /\ seen \in 0..Processes

\* A match never reads a tree that is being rebuilt, nor the empty one that the
\* program starts with.
WholeTreeSeen == seen = Processes

\* Steps of createProcTree at which a thread holds a mutex.
HoldsManager == {"scan", "lockTree", "clear", "add", "unlock"}
HoldsTree == {"clear", "add", "unlock"}

LocksInv == \A t \in Threads : /\ owner["manager"] = t <=> pc[t] \in HoldsManager
                               /\ owner["tree"] = t <=> pc[t] \in HoldsTree

WholeInv == /\ \A t \in Threads : /\ pc[t] = "add" => vertices < Processes
                                  /\ pc[t] = "unlock" => vertices = Processes
            /\ pc["main"] \notin CreateSteps /\ pc["monitor"] # "add"
                   => vertices = Processes

AgeInv == /\ age <= system
          /\ \A t \in Threads : /\ scanned[t] <= system
                                /\ pc[t] \in {"lockTree", "clear"} => age <= scanned[t]

\* Why the last property and the next one hold: no mutex has two holders at any two
\* steps of createProcTree; once the main thread has built a tree, one that nobody
\* is filling is whole; and no scan that a rebuild still has to use is older than
\* the tree it replaces.
SyncInv == TypeOK /\ LocksInv /\ WholeInv /\ AgeInv /\ WholeTreeSeen

\* The tree never goes back in time: no rebuild replaces a tree by one from an
\* older scan, although two threads rebuild it.
TreeNeverOlder == [][age' >= age]_vars

\* Every change of the processes gets into the tree, and the rebuilds never keep
\* the key presses from being matched, nor the other way round.
TreeCatchesUp == \A n \in 1..MaxChanges : (system >= n) ~> (age >= n)
MatchEnds == (pc["main"] \in MatchSteps) ~> (pc["main"] = "loop")

\* ProcessTree.h, on its methods: "there is no actual thing to do with
\* m_procTreeGraph after their end.  Thus the method-scope locking is a correct
\* solution."  For fetchName: what it returned is there while it is compared.
NameOutlivesLock == pc["main"] = "compare" => procName # "destroyed"
=============================================================================
