----------------------------- MODULE ProcessTree -----------------------------
(***************************************************************************)
(* The process tree: createProcTree scans the system (module ProcessScan)  *)
(* and ProcessTree::addConnectProcesses makes a graph of the ProcessMap,   *)
(* recursing from a process to the parent that is not there yet;           *)
(* fetchDescendants recurses from a process to its children.  Both         *)
(* recursions are modelled with their stack, one step per call, return, or *)
(* look at the graph.                                                      *)
(*                                                                         *)
(* Vertices are numbered from 0, as in boost.  All of this runs under the  *)
(* mutex of the tree (module ProcessSync), so one thread is enough.        *)
(***************************************************************************)
EXTENDS ProcessScan

CONSTANT StackSize      \* bound: calls that the stack has room for

ASSUME StackAssumption == StackSize \in Nat \ {0}

VARIABLES todo,       \* addConnectProcesses(procMap): pids still to come
          calls,      \* stack of addConnectProcesses(pid, procMap)
          graph,      \* vertex -> its pid and ppid
          edges,      \* sequence of <<parent vertex, child vertex>>, without parallel ones
          m_pidToIdMap,
          phase,
          query,      \* pid of the last fetchDescendants(pid)
          descents,   \* stack of fetchDescendants_sub
          result      \* pids of the set it returns

buildVars == <<todo, calls, graph, edges, m_pidToIdMap>>
queryVars == <<query, descents, result>>
treeVars == <<buildVars, phase, queryVars>>
vars == <<scanVars, treeVars>>

\* The local variable newProc, before addProcess gives it a value.
Uninitialised == -1

Vertices == DOMAIN graph
OutEdges(v) == {i \in DOMAIN edges : edges[i][1] = v}

-----------------------------------------------------------------------------
(* createProcTree: the scan, clear(), and the start of addConnectProcesses *)

\* Slip: clear() forgets the graph.
ClearKeepsGraph ==
    /\ scan = "filled"
    /\ scan' = "idle"
    /\ todo' = DOMAIN procMap
    /\ m_pidToIdMap' = <<>>
    /\ phase' = "build"
    /\ UNCHANGED <<calls, graph, edges, queryVars, host, procMap, position, listed, room,
                   worldVars, scans>>

Clear ==
    /\ scan = "filled"
    /\ scan' = "idle"
    /\ todo' = DOMAIN procMap
    /\ graph' = <<>>
    /\ edges' = <<>>
    /\ m_pidToIdMap' = <<>>
    /\ phase' = "build"
    /\ UNCHANGED <<calls, queryVars, host, procMap, position, listed, room, worldVars, scans>>

\* No method of the tree runs, and a new scan may begin.
Scan == /\ phase \in {"ready", "answered"}
        /\ \/ BeginScan /\ phase' = "ready" /\ query' = 0 /\ result' = {}
           \/ (World \/ ScanSteps \/ ScanFails) /\ UNCHANGED <<phase, query, result>>
        /\ UNCHANGED <<buildVars, descents>>

-----------------------------------------------------------------------------
(* addConnectProcesses                                                     *)

Call(pid) == [pid |-> pid, newProc |-> Uninitialised, step |-> "addProcess"]

Top == Last(calls)
WithTop(call) == Append(Front(calls), call)

\* The loop over the map, which is sorted by pid.
NextProcess ==
    /\ phase = "build"
    /\ calls = <<>>
    /\ IF todo = {} THEN phase' = "ready" /\ UNCHANGED <<todo, calls>>
                    ELSE /\ calls' = <<Call(Min(todo))>>
                         /\ todo' = todo \ {Min(todo)}
                         /\ UNCHANGED phase
    /\ UNCHANGED <<scanVars, graph, edges, m_pidToIdMap, queryVars>>

\* addProcess(pid, procMap, newProc) of a pid that is in the graph already
\* returns true and leaves newProc alone.
AddKnownProcess ==
    /\ phase = "build" /\ calls # <<>> /\ Top.step = "addProcess"
    /\ Top.pid \in DOMAIN m_pidToIdMap
    /\ calls' = WithTop([Top EXCEPT !.step = "findParent"])
    /\ UNCHANGED <<scanVars, todo, graph, edges, m_pidToIdMap, phase, queryVars>>

\* Slip: the number of the new vertex is the number of vertices with it.
AddNewProcessFromOne ==
    /\ phase = "build" /\ calls # <<>> /\ Top.step = "addProcess"
    /\ Top.pid \notin DOMAIN m_pidToIdMap
    /\ Top.pid \in DOMAIN procMap
    /\ LET v == Cardinality(Vertices) + 1
       IN  /\ graph' = [w \in Vertices \cup {v} |->
                           IF w = v THEN [pid |-> Top.pid, ppid |-> procMap[Top.pid]]
                                    ELSE graph[w]]
           /\ m_pidToIdMap' = [p \in DOMAIN m_pidToIdMap \cup {Top.pid} |->
                                  IF p = Top.pid THEN v ELSE m_pidToIdMap[p]]
           /\ calls' = WithTop([Top EXCEPT !.newProc = v, !.step = "findParent"])
    /\ UNCHANGED <<scanVars, todo, edges, phase, queryVars>>

\* addProcess of a pid that the scan found: a new vertex.
AddNewProcess ==
    /\ phase = "build" /\ calls # <<>> /\ Top.step = "addProcess"
    /\ Top.pid \notin DOMAIN m_pidToIdMap
    /\ Top.pid \in DOMAIN procMap
    /\ LET v == Cardinality(Vertices)
       IN  /\ graph' = [w \in Vertices \cup {v} |->
                           IF w = v THEN [pid |-> Top.pid, ppid |-> procMap[Top.pid]]
                                    ELSE graph[w]]
           /\ m_pidToIdMap' = [p \in DOMAIN m_pidToIdMap \cup {Top.pid} |->
                                  IF p = Top.pid THEN v ELSE m_pidToIdMap[p]]
           /\ calls' = WithTop([Top EXCEPT !.newProc = v, !.step = "findParent"])
    /\ UNCHANGED <<scanVars, todo, edges, phase, queryVars>>

\* addProcess of a pid that the scan did not find: return false.
AddMissingProcess ==
    /\ phase = "build" /\ calls # <<>> /\ Top.step = "addProcess"
    /\ Top.pid \notin DOMAIN m_pidToIdMap
    /\ Top.pid \notin DOMAIN procMap
    /\ calls' = Front(calls)
    /\ UNCHANGED <<scanVars, todo, graph, edges, m_pidToIdMap, phase, queryVars>>

\* The vertex that m_procTreeGraph[newProc] is.  What newProc holds if nobody
\* has set it is up to the build.
VertexRead == IF Top.newProc = Uninitialised THEN Vertices ELSE {Top.newProc}

\* Slip: the parent is not added first.
FindParentLater ==
    /\ phase = "build" /\ calls # <<>> /\ Top.step = "findParent"
    /\ \E v \in VertexRead :
           IF graph[v].pid = 0
           THEN calls' = Front(calls)
           ELSE calls' = WithTop([Top EXCEPT !.newProc = v, !.step = "addEdge"])
    /\ UNCHANGED <<scanVars, todo, graph, edges, m_pidToIdMap, phase, queryVars>>

\* pid 0 has no parent; a parent that is not in the graph is added first.
FindParent ==
    /\ phase = "build" /\ calls # <<>> /\ Top.step = "findParent"
    /\ \E v \in VertexRead :
           LET ppid == graph[v].ppid
               connecting == WithTop([Top EXCEPT !.newProc = v, !.step = "addEdge"])
           IN  calls' = IF graph[v].pid = 0 THEN Front(calls)
                        ELSE IF ppid \in DOMAIN m_pidToIdMap THEN connecting
                        ELSE Append(connecting, Call(ppid))
    /\ UNCHANGED <<scanVars, todo, graph, edges, m_pidToIdMap, phase, queryVars>>

\* Out of the vector: the read of an uninitialised newProc may end the process.
ReadCrashes ==
    /\ phase = "build" /\ calls # <<>> /\ Top.step = "findParent"
    /\ Top.newProc = Uninitialised
    /\ phase' = "crashed"
    /\ UNCHANGED <<scanVars, buildVars, queryVars>>

\* add_edge(m_pidToIdMap[ppid], newProc).  operator[] makes an entry for a
\* parent that could not be added, and its value is 0: the first vertex.
AddEdge ==
    /\ phase = "build" /\ calls # <<>> /\ Top.step = "addEdge"
    /\ LET ppid == graph[Top.newProc].ppid
           ids == [p \in DOMAIN m_pidToIdMap \cup {ppid} |->
                      IF p \in DOMAIN m_pidToIdMap THEN m_pidToIdMap[p] ELSE 0]
       IN  /\ m_pidToIdMap' = ids
           /\ edges' = LET e == <<ids[ppid], Top.newProc>>
                       IN  IF Contains(edges, e) THEN edges ELSE Append(edges, e)
    /\ calls' = Front(calls)
    /\ UNCHANGED <<scanVars, todo, graph, phase, queryVars>>

Build == \/ NextProcess \/ AddKnownProcess \/ AddNewProcess \/ AddMissingProcess
         \/ FindParent \/ AddEdge

-----------------------------------------------------------------------------
(* fetchDescendants                                                        *)

\* The edges that the iterator eit has not reached yet, by their places.
Descent(v) == [vertex |-> v, left |-> OutEdges(v)]
Eit == Min(Last(descents).left)
SubProc == edges[Eit][2]
Advanced == Append(Front(descents), [Last(descents) EXCEPT !.left = @ \ {Eit}])

\* fetchDescendants(pid): the set is empty if there is no such pid.
FetchDescendants(pid) ==
    /\ phase = "ready" /\ scan = "idle"
    /\ scans > 0
    /\ query' = pid
    /\ result' = {}
    /\ IF pid \in DOMAIN m_pidToIdMap
       THEN phase' = "query" /\ descents' = <<Descent(m_pidToIdMap[pid])>>
       ELSE phase' = "answered" /\ descents' = <<>>
    /\ UNCHANGED <<scanVars, buildVars>>

\* Slip: children, but not the children of children.
InsertChild ==
    /\ phase = "query"
    /\ descents # <<>>
    /\ Last(descents).left # {}
    /\ result' = result \cup {graph[SubProc].pid}
    /\ descents' = Advanced
    /\ UNCHANGED <<scanVars, buildVars, phase, query>>

\* Slip: the loop does not go on to the next edge.
DescendAgain ==
    /\ phase = "query"
    /\ descents # <<>>
    /\ Last(descents).left # {}
    /\ result' = result \cup {graph[SubProc].pid}
    /\ UNCHANGED <<scanVars, buildVars, phase, query, descents>>

\* The loop of fetchDescendants_sub: insert a child, and recurse.
Descend ==
    /\ phase = "query"
    /\ descents # <<>>
    /\ Len(descents) < StackSize
    /\ Last(descents).left # {}
    /\ result' = result \cup {graph[SubProc].pid}
    /\ descents' = Append(Advanced, Descent(SubProc))
    /\ UNCHANGED <<scanVars, buildVars, phase, query>>

\* The end of the loop.
Return ==
    /\ phase = "query"
    /\ descents # <<>>
    /\ Last(descents).left = {}
    /\ descents' = Front(descents)
    /\ phase' = IF Len(descents) = 1 THEN "answered" ELSE "query"
    /\ UNCHANGED <<scanVars, buildVars, query, result>>

\* No room for another call: the process ends.
StackOverflow ==
    /\ phase = "query"
    /\ Len(descents) = StackSize
    /\ Last(descents).left # {}
    /\ phase' = "crashed"
    /\ UNCHANGED <<scanVars, buildVars, queryVars>>

Query == Descend \/ Return \/ StackOverflow

-----------------------------------------------------------------------------

\* The tree before its first createProcTree, which Daemon::run calls before the
\* first key press.
Init == /\ ScanInit
        /\ todo = {} /\ calls = <<>>
        /\ graph = <<>> /\ edges = <<>> /\ m_pidToIdMap = <<>>
        /\ phase = "ready"
        /\ query = 0 /\ descents = <<>> /\ result = {}

Next == \/ Scan
        \/ Clear
        \/ Build
        \/ ReadCrashes
        \/ \E pid \in Pids : FetchDescendants(pid)
        \/ Query

Spec == Init /\ [][Next]_vars

\* A call that has started goes on; nothing has to fail.
CallStep == (ScanSteps /\ UNCHANGED treeVars) \/ Clear \/ Build \/ Query

FairSpec == Spec /\ WF_vars(CallStep)

-----------------------------------------------------------------------------
(* Properties                                                              *)

\* The types of the scan and of the graph: vertices are numbered without gaps,
\* and no pid is mapped to a vertex that there is not.
TypeOK == /\ ScanTypeOK
          /\ phase \in {"ready", "build", "query", "answered", "crashed"}
          /\ Vertices = 0..(Cardinality(Vertices) - 1)
          /\ \A p \in DOMAIN m_pidToIdMap : m_pidToIdMap[p] \in Vertices \cup {0}
          /\ ToSet(edges) \subseteq Vertices \X Vertices
          /\ result \subseteq Pids
          /\ Len(calls) <= Cardinality(Pids) + 1

\* Whatever order the pids come in, and whatever entries the missing parents
\* leave behind, even if the parents form a cycle: the vertices are the
\* processes of the scan, once each, each under its own pid, and each that has
\* a parent among them hangs below it.
TreeIsScan ==
    phase = "ready" /\ scan = "idle" /\ scans > 0 =>
        /\ {graph[v].pid : v \in Vertices} = DOMAIN procMap
        /\ Cardinality(Vertices) = Cardinality(DOMAIN procMap)
        /\ \A p \in DOMAIN procMap : graph[m_pidToIdMap[p]].pid = p
        /\ \A p \in DOMAIN procMap :
               procMap[p] \in DOMAIN procMap =>
                   p = 0 \/ <<m_pidToIdMap[procMap[p]], m_pidToIdMap[p]>> \in ToSet(edges)

\* fetchDescendants has answered about another process than that of the first
\* vertex, to which operator[] sends the parents that are missing.
AnsweredAboutOther ==
    /\ phase = "answered" /\ scan = "idle"
    /\ query \in DOMAIN m_pidToIdMap => m_pidToIdMap[query] # 0

\* Asked about any process but the one of the first vertex, fetchDescendants
\* returns those below it in the scan, whatever the numbers of the pids.
DescendantsExact == AnsweredAboutOther => result = DescendantsIn(procMap, query)

\* A scan that is not atomic still finds no descendants that were not there:
\* unless a pid was given away twice meanwhile, each has been started, at some
\* number of generations, by the process asked for.
DescendantsByBirth ==
    AnsweredAboutOther /\ ~reused => result \subseteq DescendantsIn(born, query)

\* The processes that can be read, and have had one parent all the time.
Standing == [p \in {q \in stable \ Unreadable : born[q] = system[q]} |-> system[p]]

\* ... and it misses none that stood still: whatever starts and ends around
\* them, and wherever a scan breaks off, processes that were there throughout,
\* with all between them and the process asked for, are found.
StandingFound ==
    AnsweredAboutOther /\ query \in stable => DescendantsIn(Standing, query) \subseteq result

\* A look-up returns, unless pids were reused during the scan and the parents
\* form a cycle; what the first vertex has of itself is out of its reach.
DescentsEnd ==
    (phase = "query" /\ m_pidToIdMap[query] # 0 /\ ~reused) ~> phase = "answered"

\* createProcTree returns, whatever the other processes do and however the
\* parents are connected.
ScansEnd ==
    (scan # "idle" \/ phase = "build") ~> (scan = "idle" /\ phase # "build")
=============================================================================
