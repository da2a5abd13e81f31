----------------------------- MODULE ProcessScan -----------------------------
(***************************************************************************)
(* How createProcTree of the three process managers fills its ProcessMap   *)
(* while the processes of the system go on: Linux reads the directory      *)
(* /proc in batches and then one stat file after the other, Mac OS asks    *)
(* for the size of the list before it asks for the list, FreeBSD gets the  *)
(* list in one call.                                                       *)
(***************************************************************************)
EXTENDS Integers, SequencesExt, FiniteSetsExt

CONSTANTS Systems,    \* functions pid -> pid of its parent, 0 for none
          Unreadable, \* pids whose stat file may not be parsed: a space in the name
          MaxScans,   \* bound: calls of createProcTree
          MaxChanges  \* bound: processes that start or end during scans

VARIABLES host,     \* the operating system
          system,   \* its processes, as of the end of the last scan
          procMap,  \* processMap of the last scan: pid -> ppid
          scan,     \* "idle", "reading", or "filled": procMap is complete
          position, \* Linux: /proc has been listed up to this pid
          listed,   \* Linux: pids listed in /proc, whose stat is not read yet
          room,     \* Mac OS: elements of procList, -1 before its size is known
          scans, changes,
          born,     \* history: the first parent of each process during the scan
          stable,   \* history: processes that the scan began with and that go on
          reused    \* history: a pid was given away again during the scan

readVars == <<procMap, scan, position, listed, room>>
worldVars == <<system, changes, born, stable, reused>>
scanVars == <<host, readVars, worldVars, scans>>

Pids == UNION {DOMAIN s : s \in Systems}

\* FreeBSD and Mac OS have a process 0.
SystemsOf(h) == {s \in Systems : (0 \in DOMAIN s) <=> (h # "Linux")}

\* A process has a parent that there is, or none; process 1 has none, and nor has
\* process 0.
ASSUME SystemsAssumption ==
    /\ Pids \subseteq Nat /\ IsFiniteSet(Pids)
    /\ \A s \in Systems : /\ 1 \in DOMAIN s /\ s[1] = 0
                          /\ 0 \in DOMAIN s => s[0] = 0
                          /\ \A p \in DOMAIN s : s[p] \in DOMAIN s \cup {0}

With(f, x, y) == [z \in DOMAIN f \cup {x} |-> IF z = x THEN y ELSE f[z]]

ParentIn(parents, p) == IF p \in DOMAIN parents THEN parents[p] ELSE 0

\* The processes that are any number of generations below p.
DescendantsIn(parents, p) ==
    LET within[n \in 0..Cardinality(DOMAIN parents)] ==
            IF n = 0 THEN {}
            ELSE LET nearer == within[n - 1]
                 IN  {q \in DOMAIN parents : parents[q] \in nearer \cup {p}}
    IN  within[Cardinality(DOMAIN parents)]

-----------------------------------------------------------------------------
(* The system, between two steps of a scan                                 *)

\* A process starts, under any pid that is free.
Fork(parent, pid) ==
    /\ scan = "reading"
    /\ changes < MaxChanges
    /\ parent \in DOMAIN system \ {0}
    /\ pid \in Pids \ (DOMAIN system \cup {0})
    /\ system' = With(system, pid, parent)
    /\ born' = With(born, pid, parent)
    /\ reused' = (reused \/ pid \in DOMAIN born)
    /\ changes' = changes + 1
    /\ UNCHANGED <<host, readVars, scans, stable>>

\* A process ends, and its children get an ancestor as their parent: process 1,
\* or one that has asked to be the reaper of what is below it.
Exit(pid) ==
    /\ scan = "reading"
    /\ changes < MaxChanges
    /\ pid \in DOMAIN system \ {0, 1}
    /\ \E reaper \in {p \in DOMAIN system \ {0, pid} : pid \in DescendantsIn(system, p)} :
           system' = [p \in DOMAIN system \ {pid} |->
                         IF system[p] = pid THEN reaper ELSE system[p]]
    /\ stable' = stable \ {pid}
    /\ changes' = changes + 1
    /\ UNCHANGED <<host, readVars, scans, born, reused>>

\* The system has become s since the last scan.
BeginsWith(s) ==
    /\ system' = s
    /\ born' = s
    /\ stable' = DOMAIN s
    /\ reused' = FALSE
    /\ UNCHANGED <<host, changes>>

-----------------------------------------------------------------------------
(* Linux                                                                   *)

OpenProc(s) ==
    /\ host = "Linux" /\ scan = "idle" /\ scans < MaxScans
    /\ BeginsWith(s)
    /\ procMap' = <<>>
    /\ scan' = "reading" /\ position' = 0
    /\ scans' = scans + 1
    /\ UNCHANGED <<listed, room>>

\* The iterator has handed out all that it knows, and asks for more of /proc,
\* which is sorted by pid.
ReadDirectory ==
    /\ host = "Linux" /\ scan = "reading" /\ listed = {}
    /\ \E last \in Pids :
           /\ position < last
           /\ position' = last
           /\ listed' = {p \in DOMAIN system : position < p /\ p <= last}
    /\ UNCHANGED <<host, procMap, scan, room, worldVars, scans>>

\* Slip: one ProcessProperties for all rounds of the loop.
ReadStatIntoOldProperties ==
    /\ host = "Linux" /\ scan = "reading" /\ listed # {}
    /\ LET pid == Min(listed)
           before == {p \in DOMAIN procMap : p < pid}
       IN  /\ procMap' = With(procMap, pid,
                              IF pid \in DOMAIN system THEN system[pid]
                              ELSE IF before = {} THEN 0 ELSE procMap[Max(before)])
           /\ listed' = listed \ {pid}
    /\ UNCHANGED <<host, scan, position, room, worldVars, scans>>

\* Slip: a stat file that is gone ends the loop.
ReadStatOrStop ==
    /\ host = "Linux" /\ scan = "reading" /\ listed # {}
    /\ LET pid == Min(listed)
       IN  IF pid \in DOMAIN system
           THEN /\ procMap' = With(procMap, pid, system[pid])
                /\ listed' = listed \ {pid}
                /\ UNCHANGED scan
           ELSE /\ listed' = {}
                /\ scan' = "filled"
                /\ UNCHANGED procMap
    /\ UNCHANGED <<host, position, room, worldVars, scans>>

\* The loop body: an entry for the pid, and then what is in its stat file by now.
\* A process that has ended, or whose name has a space, keeps the ppid 0 of a
\* ProcessProperties().  Names with numbers after their spaces, one of which would
\* be taken for the ppid, are left out.
ReadStat ==
    /\ host = "Linux" /\ scan = "reading" /\ listed # {}
    /\ LET pid == Min(listed)
       IN  /\ \E ppid \in {ParentIn(system, pid)} \cup (IF pid \in Unreadable THEN {0} ELSE {}) :
                  procMap' = With(procMap, pid, ppid)
           /\ listed' = listed \ {pid}
    /\ UNCHANGED <<host, scan, position, room, worldVars, scans>>

\* The end of /proc.
EndOfDirectory ==
    /\ host = "Linux" /\ scan = "reading" /\ listed = {}
    /\ position = Max(Pids)
    /\ scan' = "filled"
    /\ UNCHANGED <<host, procMap, position, listed, room, worldVars, scans>>

\* The iterator throws: the loop is over, and what it has read is used.
IterationFails ==
    /\ host = "Linux" /\ scan = "reading"
    /\ scan' = "filled" /\ listed' = {}
    /\ stable' = stable \cap DOMAIN procMap
    /\ UNCHANGED <<host, procMap, position, room, system, changes, born, reused, scans>>

ScanLinux == ReadDirectory \/ ReadStat \/ EndOfDirectory

-----------------------------------------------------------------------------
(* Mac OS                                                                  *)

\* GetUnixProcesses with its empty vector.
BeginSysctl(s) ==
    /\ host = "Mac" /\ scan = "idle" /\ scans < MaxScans
    /\ BeginsWith(s)
    /\ procMap' = <<>>
    /\ scan' = "reading" /\ room' = -1
    /\ scans' = scans + 1
    /\ UNCHANGED <<position, listed>>

\* The first sysctl of a round: the size of the list, for resize().
AskSize ==
    /\ host = "Mac" /\ scan = "reading" /\ room = -1
    /\ room' = Cardinality(DOMAIN system)
    /\ UNCHANGED <<host, procMap, scan, position, listed, worldVars, scans>>

\* Slip: the vector keeps its size for the next round.
NoMemoryKeepsSize ==
    /\ host = "Mac" /\ scan = "reading" /\ room >= 0
    /\ Cardinality(DOMAIN system) > room
    /\ UNCHANGED scanVars

\* The second one, with more processes by now: ENOMEM, and a new round.
NoMemory ==
    /\ host = "Mac" /\ scan = "reading" /\ room >= 0
    /\ Cardinality(DOMAIN system) > room
    /\ room' = -1
    /\ UNCHANGED <<host, procMap, scan, position, listed, worldVars, scans>>

\* ... or as many, or fewer, and the vector is cut to them.
GetList ==
    /\ host = "Mac" /\ scan = "reading" /\ room >= 0
    /\ Cardinality(DOMAIN system) <= room
    /\ procMap' = system
    /\ scan' = "filled"
    /\ UNCHANGED <<host, position, listed, room, worldVars, scans>>

\* Any other error, or a size that is no multiple of an element: the vector is
\* cleared, and nobody asks GetUnixProcesses whether it succeeded.
SysctlFails ==
    /\ host = "Mac" /\ scan = "reading"
    /\ scan' = "filled"
    /\ stable' = {}
    /\ UNCHANGED <<host, procMap, position, listed, room, system, changes, born, reused, scans>>

ScanMac == AskSize \/ NoMemory \/ GetList

-----------------------------------------------------------------------------
(* FreeBSD                                                                 *)

KinfoGetallproc(s) ==
    /\ host = "FreeBSD" /\ scan = "idle" /\ scans < MaxScans
    /\ BeginsWith(s)
    /\ procMap' = s
    /\ scan' = "filled"
    /\ scans' = scans + 1
    /\ UNCHANGED <<position, listed, room>>

\* NULL: return, and the tree stays as it is.
KinfoFails ==
    /\ host = "FreeBSD" /\ scan = "idle" /\ scans < MaxScans
    /\ scans' = scans + 1
    /\ UNCHANGED <<host, readVars, worldVars>>

-----------------------------------------------------------------------------

BeginScan == \/ \E s \in SystemsOf(host) : OpenProc(s) \/ BeginSysctl(s) \/ KinfoGetallproc(s)
             \/ KinfoFails

ScanSteps == ScanLinux \/ ScanMac
ScanFails == IterationFails \/ SysctlFails

\* The other processes, which do not wait for createProcTree.
World == \/ \E parent, pid \in Pids : Fork(parent, pid)
         \/ \E pid \in Pids : Exit(pid)

ScanInit == /\ host \in {"Linux", "Mac", "FreeBSD"}
            /\ system = <<>> /\ procMap = <<>>
            /\ scan = "idle" /\ position = 0 /\ listed = {} /\ room = -1
            /\ scans = 0 /\ changes = 0
            /\ born = <<>> /\ stable = {} /\ reused = FALSE

ScanTypeOK ==
    /\ DOMAIN procMap \subseteq Pids
    /\ scan \in {"idle", "reading", "filled"}
    /\ listed \subseteq {p \in Pids : p <= position}
    /\ room \in -1..Cardinality(Pids)
    /\ \A p \in DOMAIN system : system[p] \in DOMAIN system \cup {0}
    /\ stable \subseteq DOMAIN system
    /\ DOMAIN system \subseteq DOMAIN born
=============================================================================
