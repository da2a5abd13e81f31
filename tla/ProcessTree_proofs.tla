------------------------- MODULE ProcessTree_proofs -------------------------
(***************************************************************************)
(* Proofs about ProcessTree and ProcessScan, for every set of systems,     *)
(* whatever starts and ends during a scan and wherever it breaks off: the  *)
(* graph is what the scan read, and fetchDescendants returns all that is   *)
(* below a process, what stood still at least and none that never was.     *)
(***************************************************************************)
EXTENDS ProcessTree, Sums_proofs, SequenceTheorems

-----------------------------------------------------------------------------
(* The invariants                                                          *)

\* What there is in the system while it is read, and in the map.
SystemInv ==
    /\ host \in {"Linux", "Mac", "FreeBSD"}
    /\ position \in Nat
    /\ DOMAIN system \subseteq Pids /\ DOMAIN born \subseteq Pids
    /\ 1 \in DOMAIN system => system[1] = 0
    /\ 0 \in DOMAIN system => system[0] = 0
    /\ scan = "reading" => 1 \in DOMAIN system
    /\ host = "Linux" => 0 \notin DOMAIN born
    /\ 0 \notin listed /\ (host # "Linux" \/ scan # "reading" => listed = {})
    /\ 0 \in DOMAIN procMap => host # "Linux" /\ procMap[0] = 0
    /\ \A p \in DOMAIN procMap : procMap[p] \in Pids \cup {0}

\* Process 1 is read first, and has no parent.
RootInv ==
    /\ 1 \in DOMAIN procMap => procMap[1] = 0
    /\ DOMAIN procMap # {} => 1 \in DOMAIN procMap
    /\ host = "Linux" /\ scan = "reading" /\ position > 0 => 1 \in DOMAIN procMap \cup listed

\* A parent is one by birth, or the parent of a parent.
BirthInv ==
    ~reused => /\ \A p \in DOMAIN system : p \in DescendantsIn(born, system[p])
               /\ \A p \in DOMAIN procMap : \/ p \in DescendantsIn(born, procMap[p])
                                            \/ procMap[p] = 0 /\ host = "Linux"

\* The parent of a stable process is one, and if it is another than it was, the
\* first one has ended, so it will not be the parent again.
StableInv ==
    /\ scan = "reading" =>
           \A p \in stable : /\ system[p] \in stable \cup {0}
                             /\ system[p] # born[p] => born[p] \notin stable
    /\ \A p \in stable \ Unreadable :
           p \in DOMAIN procMap /\ system[p] = born[p] => procMap[p] = system[p]
    /\ scan = "reading" /\ host = "Linux" =>
           \A p \in stable : p \in DOMAIN procMap \cup listed \/ position < p
    /\ scan # "reading" => stable \subseteq DOMAIN procMap

ScanInv == ScanTypeOK /\ SystemInv /\ RootInv /\ BirthInv /\ StableInv

\* The shape of the graph, the stacks and the phases.
CallRecords == [pid : Pids \cup {0}, newProc : Vertices \cup {Uninitialised},
                step : {"addProcess", "findParent", "addEdge"}]
DescentRecords == [vertex : Vertices, left : SUBSET DOMAIN edges]

ShapeInv ==
    /\ phase \in {"ready", "build", "query", "answered", "crashed"}
    /\ IsFiniteSet(Vertices) /\ Vertices = 0..(Cardinality(Vertices) - 1)
    /\ \A p \in DOMAIN m_pidToIdMap : m_pidToIdMap[p] \in Vertices
    /\ edges \in Seq(Vertices \X Vertices)
    /\ calls \in Seq(CallRecords)
    /\ \A i, j \in DOMAIN calls : i # j => calls[i].pid # calls[j].pid
    /\ descents \in Seq(DescentRecords) /\ Len(descents) <= StackSize
    /\ result \subseteq Pids
    /\ phase \in {"ready", "query", "answered"} => calls = <<>>
    /\ phase \in {"ready", "build", "answered"} => descents = <<>>
    /\ scan # "idle" => phase = "ready"

Ppid(v) == graph[v].ppid

\* The vertices are processes of the map, each with an id of its own.
VerticesInv ==
    \A v \in Vertices :
        /\ graph[v].pid \in DOMAIN procMap /\ Ppid(v) = procMap[graph[v].pid]
        /\ graph[v].pid \in DOMAIN m_pidToIdMap /\ m_pidToIdMap[graph[v].pid] = v

\* Missing parents have the first vertex for theirs.
IdsInv ==
    \A p \in DOMAIN m_pidToIdMap : IF p \in DOMAIN procMap
                                   THEN graph[m_pidToIdMap[p]].pid = p
                                   ELSE m_pidToIdMap[p] = 0

\* An edge comes from the parent.
EdgesInv ==
    \A i \in DOMAIN edges :
        LET v == edges[i][2]
        IN  /\ graph[v].pid # 0
            /\ Ppid(v) \in DOMAIN m_pidToIdMap
            /\ edges[i][1] = m_pidToIdMap[Ppid(v)]

GraphInv ==
    scan = "idle" /\ phase # "crashed" =>
        /\ VerticesInv /\ IdsInv /\ EdgesInv
        /\ 0 \in Vertices => graph[0].pid = Min(DOMAIN procMap)

\* A vertex hangs below its parent.
Connected(v) ==
    \/ graph[v].pid = 0
    \/ /\ Ppid(v) \in DOMAIN m_pidToIdMap
       /\ \E i \in DOMAIN edges : edges[i] = <<m_pidToIdMap[Ppid(v)], v>>

\* A call of addConnectProcesses that is not the last waits for its parent.
CallInv(i) ==
    LET call == calls[i]
    IN  /\ call.step # "addProcess" => call.pid \in DOMAIN m_pidToIdMap
        /\ call.step = "addEdge" => call.newProc \in Vertices /\ graph[call.newProc].pid # 0
        /\ i < Len(calls) => call.step = "addEdge" /\ calls[i + 1].pid = Ppid(call.newProc)
        /\ i = Len(calls) /\ call.step = "addEdge" =>
               Ppid(call.newProc) \in DOMAIN m_pidToIdMap \/ Ppid(call.newProc) \notin DOMAIN procMap

\* Each process of the map is still to come or on its way into the graph ...
Expected ==
    \A p \in DOMAIN procMap :
        \/ p \in todo \/ p \in DOMAIN m_pidToIdMap
        \/ calls # <<>> /\ Top.pid = p /\ Top.step = "addProcess"

\* ... where it is connected, or a call is about to do it ...
Connecting ==
    \A v \in Vertices :
        Connected(v) \/ \E i \in DOMAIN calls : calls[i].newProc = v /\ calls[i].step # "addProcess"

\* ... and the first one is that of the smallest pid.
FirstComes ==
    Vertices = {} =>
        \/ todo = DOMAIN procMap /\ calls = <<>>
        \/ DOMAIN procMap # {} /\ calls = <<Call(Min(DOMAIN procMap))>>

BuildInv ==
    phase = "build" =>
        /\ todo \subseteq DOMAIN procMap
        /\ Expected /\ Connecting /\ FirstComes
        /\ \A i \in DOMAIN calls : CallInv(i)

\* The graph has all of them.
CompleteInv ==
    scan = "idle" /\ phase \in {"ready", "query", "answered"} =>
        /\ DOMAIN procMap \subseteq DOMAIN m_pidToIdMap
        /\ \A v \in Vertices : Connected(v)

TreeInv == ShapeInv /\ GraphInv /\ BuildInv /\ CompleteInv

\* The process whose children are looked at is the one asked for or below it.
Met(v) == graph[v].pid \in result \cup {query}

\* What fetchDescendants has found is below the process, and the children of what
\* it has found are found or left.
QueryInv ==
    /\ phase = "answered" /\ query \notin DOMAIN m_pidToIdMap => result = {}
    /\ phase = "query" => query \in DOMAIN m_pidToIdMap
    /\ phase \in {"query", "answered"} /\ query \in DOMAIN m_pidToIdMap
       /\ m_pidToIdMap[query] # 0 =>
           /\ result \subseteq DescendantsIn(procMap, query)
           /\ \A i \in DOMAIN descents :
                  /\ descents[i].vertex # 0 /\ Met(descents[i].vertex)
                  /\ descents[i].left \subseteq OutEdges(descents[i].vertex)
           /\ \A e \in DOMAIN edges :
                  Met(edges[e][1]) =>
                      \/ graph[edges[e][2]].pid \in result
                      \/ \E i \in DOMAIN descents : e \in descents[i].left

Inv == ScanInv /\ TreeInv /\ QueryInv

-----------------------------------------------------------------------------
(* Descendants                                                             *)

Below(parents, p, S) == {q \in DOMAIN parents : parents[q] \in S \cup {p}}

\* The recursion of DescendantsIn, for C generations.
Generations(parents, p, C, w) ==
    w = [n \in 0..C |-> IF n = 0 THEN {} ELSE Below(parents, p, w[n - 1])]

LEMMA GenerationAt ==
    ASSUME NEW parents, NEW p, NEW C \in Nat, NEW w, Generations(parents, p, C, w)
    PROVE  w[0] = {} /\ \A n \in 0..C : n # 0 => w[n] = Below(parents, p, w[n - 1])
<1> DEFINE G == [n \in 0..C |-> IF n = 0 THEN {} ELSE Below(parents, p, w[n - 1])]
<1>1. G[0] = {} /\ \A n \in 0..C : n # 0 => G[n] = Below(parents, p, w[n - 1])
  OBVIOUS
<1>2. w = G
  BY DEF Generations
<1> HIDE DEF G
<1> QED BY <1>1, <1>2

LEMMA GenerationsExist ==
    ASSUME NEW parents, NEW p, NEW C \in Nat
    PROVE  \E w : Generations(parents, p, C, w)
<1> DEFINE N == {n \in Nat : \E w : Generations(parents, p, n, w)}
<1>1. 0 \in N
  <2>1. Generations(parents, p, 0, [n \in 0..0 |-> {}])
    BY DEF Generations
  <2> QED BY <2>1
<1>2. ASSUME NEW n \in Nat, n \in N
      PROVE  n + 1 \in N
  <2>1. PICK w : Generations(parents, p, n, w)
    BY <1>2
  <2> DEFINE W == [k \in 0..(n + 1) |-> IF k = 0 THEN {} ELSE Below(parents, p, w[k - 1])]
  <2>2. \A k \in 0..n : W[k] = w[k]
    <3>1. w[0] = {} /\ \A k \in 0..n : k # 0 => w[k] = Below(parents, p, w[k - 1])
      BY <2>1, GenerationAt
    <3>2. \A k \in 0..n : k \in 0..(n + 1)
      OBVIOUS
    <3>3. \A k \in 0..(n + 1) : W[k] = IF k = 0 THEN {} ELSE Below(parents, p, w[k - 1])
      OBVIOUS
    <3> HIDE DEF W
    <3> QED BY <3>1, <3>2, <3>3
  <2>3. \A k \in 0..(n + 1) : k # 0 => k - 1 \in 0..n
    OBVIOUS
  <2>4. \A k \in 0..(n + 1) : W[k] = IF k = 0 THEN {} ELSE Below(parents, p, W[k - 1])
    BY <2>2, <2>3
  <2>5. Generations(parents, p, n + 1, W)
    BY <2>4 DEF Generations
  <2> HIDE DEF W
  <2> QED BY <2>5
<1>3. Nat \subseteq N
  <2> HIDE DEF N
  <2> QED BY <1>1, <1>2, SetOfNaturals
<1> QED BY <1>3

LEMMA DescendantsRecursion ==
    ASSUME NEW parents, NEW p, IsFiniteSet(DOMAIN parents)
    PROVE  LET C == Cardinality(DOMAIN parents)
           IN  C \in Nat /\ \E w : /\ Generations(parents, p, C, w)
                                   /\ DescendantsIn(parents, p) = w[C]
<1> DEFINE C == Cardinality(DOMAIN parents)
           w == CHOOSE f : Generations(parents, p, C, f)
<1>1. C \in Nat
  BY FS_CardinalityType
<1>2. Generations(parents, p, C, w)
  <2>1. \E f : Generations(parents, p, C, f)
    <3> HIDE DEF C
    <3> QED BY <1>1, GenerationsExist
  <2> QED BY <2>1
<1>3. DescendantsIn(parents, p) = w[C]
  BY DEF DescendantsIn, Generations, Below
<1> QED BY <1>1, <1>2, <1>3

\* The generations grow ...
LEMMA GenerationsGrow ==
    ASSUME NEW parents, NEW p, NEW C \in Nat, NEW w, Generations(parents, p, C, w),
           NEW n \in 0..C
    PROVE  w[n] \subseteq Below(parents, p, w[n]) /\ w[n] \subseteq DOMAIN parents
<1> DEFINE N == {k \in Nat : k <= C => w[k] \subseteq Below(parents, p, w[k])}
<1>1. w[0] = {} /\ \A k \in 0..C : k # 0 => w[k] = Below(parents, p, w[k - 1])
  BY GenerationAt
<1>2. 0 \in N
  BY <1>1
<1>3. ASSUME NEW k \in Nat, k \in N
      PROVE  k + 1 \in N
  <2> SUFFICES ASSUME k + 1 <= C
               PROVE  w[k + 1] \subseteq Below(parents, p, w[k + 1])
    OBVIOUS
  <2>1. w[k] \subseteq Below(parents, p, w[k])
    BY <1>3
  <2>2. w[k + 1] = Below(parents, p, w[k])
    BY <1>1
  <2> QED BY <2>1, <2>2 DEF Below
<1>4. Nat \subseteq N
  <2> HIDE DEF N
  <2> QED BY <1>2, <1>3, SetOfNaturals
<1>5. w[n] \subseteq Below(parents, p, w[n])
  BY <1>4
<1> QED BY <1>5 DEF Below

\* ... until there are no more processes: what is below a descendant is one.
LEMMA DescendantsClosed ==
    ASSUME NEW parents, NEW p, IsFiniteSet(DOMAIN parents)
    PROVE  /\ DescendantsIn(parents, p) \subseteq DOMAIN parents
           /\ Below(parents, p, DescendantsIn(parents, p)) = DescendantsIn(parents, p)
<1> DEFINE C == Cardinality(DOMAIN parents)
<1>0. C \in Nat /\ \E w : Generations(parents, p, C, w) /\ DescendantsIn(parents, p) = w[C]
  BY DescendantsRecursion
<1>1. PICK w : Generations(parents, p, C, w) /\ DescendantsIn(parents, p) = w[C]
  BY <1>0
<1> DEFINE Closed(n) == Below(parents, p, w[n]) = w[n]
           N == {n \in Nat : n <= C => Cardinality(w[n]) >= n \/ Closed(n)}
<1>2. \A n \in 0..C : /\ w[n] \subseteq Below(parents, p, w[n]) /\ w[n] \subseteq DOMAIN parents
                      /\ IsFiniteSet(w[n]) /\ Cardinality(w[n]) \in Nat
  <2> TAKE n \in 0..C
  <2> HIDE DEF C
  <2>1. w[n] \subseteq Below(parents, p, w[n]) /\ w[n] \subseteq DOMAIN parents
    BY <1>0, <1>1, GenerationsGrow
  <2> QED BY <2>1, FS_Subset, FS_CardinalityType
<1>3. w[0] = {} /\ \A n \in 0..C : n # 0 => w[n] = Below(parents, p, w[n - 1])
  <2> HIDE DEF C
  <2> QED BY <1>0, <1>1, GenerationAt
<1>4. 0 \in N
  BY <1>0, <1>2
<1>5. ASSUME NEW n \in Nat, n \in N
      PROVE  n + 1 \in N
  <2> SUFFICES ASSUME n + 1 <= C, ~Closed(n + 1)
               PROVE  Cardinality(w[n + 1]) >= n + 1
    OBVIOUS
  <2> HIDE DEF C
  <2>0. n \in 0..C /\ n + 1 \in 0..C /\ n <= C /\ n + 1 # 0 /\ (n + 1) - 1 = n
    BY <1>0
  <2>1. w[n + 1] = Below(parents, p, w[n])
    <3>1. w[n + 1] = Below(parents, p, w[(n + 1) - 1])
      BY <1>3, <2>0
    <3> QED BY <2>0, <3>1
  <2>2. ~Closed(n)
    BY <2>1
  <2>3. Cardinality(w[n]) >= n
    BY <1>5, <2>0, <2>2
  <2>4. w[n] \subseteq w[n + 1] /\ w[n] # w[n + 1]
    BY <1>2, <2>0, <2>1, <2>2
  <2>5. Cardinality(w[n]) <= Cardinality(w[n + 1]) /\ Cardinality(w[n]) # Cardinality(w[n + 1])
    <3>1. IsFiniteSet(w[n + 1])
      BY <1>2, <2>0
    <3> QED BY <2>4, <3>1, FS_Subset
  <2> QED BY <1>2, <2>0, <2>3, <2>5
<1>6. Nat \subseteq N
  <2> HIDE DEF N
  <2> QED BY <1>4, <1>5, SetOfNaturals
<1>7. C \in 0..C /\ (Cardinality(w[C]) >= C \/ Closed(C))
  BY <1>0, <1>6
<1>8. Closed(C)
  <2> SUFFICES ASSUME Cardinality(w[C]) >= Cardinality(DOMAIN parents)
               PROVE  Closed(C)
    BY <1>7
  <2>1. w[C] = DOMAIN parents
    <3>1. w[C] \subseteq DOMAIN parents /\ Cardinality(w[C]) \in Nat
      BY <1>2, <1>7
    <3>2. Cardinality(w[C]) <= Cardinality(DOMAIN parents)
      BY <3>1, FS_Subset
    <3>3. Cardinality(w[C]) = Cardinality(DOMAIN parents)
      BY <1>0, <3>1, <3>2
    <3> QED BY <3>1, <3>3, FS_Subset
  <2>2. w[C] \subseteq Below(parents, p, w[C])
    BY <1>2, <1>7
  <2> QED BY <2>1, <2>2 DEF Below
<1> QED BY <1>1, <1>2, <1>7, <1>8

\* ... and they are no more than that.
LEMMA DescendantsLeast ==
    ASSUME NEW parents, NEW p, IsFiniteSet(DOMAIN parents),
           NEW X, Below(parents, p, X) \subseteq X
    PROVE  DescendantsIn(parents, p) \subseteq X
<1> DEFINE C == Cardinality(DOMAIN parents)
<1>0. C \in Nat /\ \E w : Generations(parents, p, C, w) /\ DescendantsIn(parents, p) = w[C]
  BY DescendantsRecursion
<1>1. PICK w : Generations(parents, p, C, w) /\ DescendantsIn(parents, p) = w[C]
  BY <1>0
<1> DEFINE N == {n \in Nat : n <= C => w[n] \subseteq X}
<1>2. w[0] = {} /\ \A n \in 0..C : n # 0 => w[n] = Below(parents, p, w[n - 1])
  <2> HIDE DEF C
  <2> QED BY <1>0, <1>1, GenerationAt
<1>3. 0 \in N
  BY <1>2
<1>4. ASSUME NEW n \in Nat, n \in N
      PROVE  n + 1 \in N
  <2> SUFFICES ASSUME n + 1 <= C
               PROVE  w[n + 1] \subseteq X
    OBVIOUS
  <2> HIDE DEF C
  <2>1. n + 1 \in 0..C /\ n + 1 # 0 /\ (n + 1) - 1 = n
    BY <1>0
  <2>2. w[n + 1] = Below(parents, p, w[(n + 1) - 1])
    BY <1>2, <2>1
  <2>3. w[n] \subseteq X
    BY <1>0, <1>4
  <2>4. Below(parents, p, w[n]) \subseteq Below(parents, p, X)
    BY <2>3 DEF Below
  <2> QED BY <2>1, <2>2, <2>4
<1>5. Nat \subseteq N
  <2> HIDE DEF N
  <2> QED BY <1>3, <1>4, SetOfNaturals
<1>6. w[C] \subseteq X
  BY <1>0, <1>5
<1> QED BY <1>1, <1>6

\* A child is a descendant.
LEMMA ChildDescends ==
    ASSUME NEW parents, IsFiniteSet(DOMAIN parents), NEW q \in DOMAIN parents
    PROVE  q \in DescendantsIn(parents, parents[q])
BY DescendantsClosed DEF Below

\* A descendant of a descendant is one.
LEMMA DescendantsTransitive ==
    ASSUME NEW parents, IsFiniteSet(DOMAIN parents), NEW p, NEW r \in DescendantsIn(parents, p)
    PROVE  DescendantsIn(parents, r) \subseteq DescendantsIn(parents, p)
<1> DEFINE X == DescendantsIn(parents, p)
<1>1. Below(parents, p, X) = X
  BY DescendantsClosed
<1>2. Below(parents, r, X) \subseteq X
  <2>1. r \in X
    OBVIOUS
  <2> HIDE DEF X
  <2> QED BY <1>1, <2>1 DEF Below
<1> HIDE DEF X
<1>3. DescendantsIn(parents, r) \subseteq X
  BY <1>2, DescendantsLeast
<1> QED BY <1>3 DEF X

\* Where each child of f descends in g from its parent of f.
Refines(f, g) == \A q \in DOMAIN f : q \in DescendantsIn(g, f[q])

LEMMA DescendantsMonotone ==
    ASSUME NEW f, NEW g, IsFiniteSet(DOMAIN f), IsFiniteSet(DOMAIN g), Refines(f, g), NEW p
    PROVE  DescendantsIn(f, p) \subseteq DescendantsIn(g, p)
<1> DEFINE X == DescendantsIn(g, p)
<1>1. ASSUME NEW q \in DOMAIN f, f[q] \in X \cup {p}
      PROVE  q \in X
  <2>1. q \in DescendantsIn(g, f[q])
    BY DEF Refines
  <2>2. CASE f[q] = p
    BY <2>1, <2>2
  <2>3. CASE f[q] \in X
    BY <2>1, <2>3, DescendantsTransitive
  <2> QED BY <1>1, <2>2, <2>3
<1> HIDE DEF X
<1>2. Below(f, p, X) \subseteq X
  BY <1>1 DEF Below
<1>3. DescendantsIn(f, p) \subseteq X
  BY <1>2, DescendantsLeast
<1> QED BY <1>3 DEF X

-----------------------------------------------------------------------------
(* The scan                                                                *)

LEMMA MinIsIn ==
    ASSUME NEW S, S \subseteq Nat, S # {}
    PROVE  Min(S) \in S /\ \A x \in S : Min(S) <= x
<1> DEFINE Free == {n \in Nat : \A x \in S : n <= x}
<1>1. \E n \in S : \A x \in S : n <= x
  <2> SUFFICES ASSUME ~ \E n \in S : \A x \in S : n <= x
               PROVE  FALSE
    OBVIOUS
  <2>1. 0 \in Free
    OBVIOUS
  <2>2. ASSUME NEW n \in Nat, n \in Free
        PROVE  n + 1 \in Free
    <3>1. n \notin S
      BY <2>2
    <3> QED BY <2>2, <3>1
  <2>3. Nat \subseteq Free
    <3> HIDE DEF Free
    <3> QED BY <2>1, <2>2, SetOfNaturals
  <2>4. PICK x \in S : TRUE
    OBVIOUS
  <2>5. x + 1 \in Free
    BY <2>3, <2>4
  <2> QED BY <2>4, <2>5
<1> QED BY <1>1, Zenon DEF Min

LEMMA MaxIsIn ==
    ASSUME NEW S, S \subseteq Nat, IsFiniteSet(S), S # {}
    PROVE  Max(S) \in S /\ \A x \in S : Max(S) >= x
<1> DEFINE F == {s \in SUBSET S : s = {} \/ \E n \in s : \A x \in s : n >= x}
<1>1. {} \in F
  OBVIOUS
<1>2. ASSUME NEW s \in SUBSET S, NEW y \in S \ s, s \in F
      PROVE  s \cup {y} \in F
  <2>1. CASE s = {}
    BY <2>1
  <2>2. CASE s # {}
    <3>1. PICK n \in s : \A x \in s : n >= x
      BY <1>2, <2>2
    <3>2. CASE y >= n
      <4>1. \A x \in s \cup {y} : y >= x
        BY <3>1, <3>2
      <4> QED BY <4>1
    <3>3. CASE ~(y >= n)
      <4>1. \A x \in s \cup {y} : n >= x
        BY <3>1, <3>3
      <4> QED BY <4>1
    <3> QED BY <3>2, <3>3
  <2> QED BY <2>1, <2>2
<1>3. SUBSET S \subseteq F
  <2> HIDE DEF F
  <2> QED BY <1>1, <1>2, SetOfSubsets
<1>4. \E n \in S : \A x \in S : n >= x
  BY <1>3
<1> QED BY <1>4, Zenon DEF Max

LEMMA FiniteMaps ==
    ASSUME SystemInv, ScanTypeOK
    PROVE  /\ IsFiniteSet(DOMAIN system) /\ IsFiniteSet(DOMAIN born)
           /\ IsFiniteSet(DOMAIN procMap)
           /\ Pids \subseteq Nat /\ IsFiniteSet(Pids)
BY SystemsAssumption, FS_Subset DEF SystemInv, ScanTypeOK

\* Nothing of the scan changes.
LEMMA ScanInvUnchanged ==
    ASSUME ScanInv, UNCHANGED <<host, procMap, position, listed, room, worldVars>>,
           scan' = scan \/ (scan # "reading" /\ scan' = "idle")
    PROVE  ScanInv'
BY DEF ScanInv, ScanTypeOK, SystemInv, RootInv, BirthInv, StableInv, worldVars

\* A process is started below one that there is.
LEMMA ForkInv ==
    ASSUME ScanInv, NEW parent, NEW pid, Fork(parent, pid)
    PROVE  ScanInv'
<1> USE DEF ScanInv
<1>1. /\ scan = "reading" /\ scan' = scan /\ host' = host /\ procMap' = procMap
      /\ position' = position /\ listed' = listed /\ room' = room /\ stable' = stable
      /\ parent \in DOMAIN system /\ pid \in Pids \ DOMAIN system /\ pid # 0
      /\ system' = With(system, pid, parent) /\ born' = With(born, pid, parent)
      /\ reused' = (reused \/ pid \in DOMAIN born)
  BY DEF Fork, readVars
<1>2. /\ DOMAIN system' = DOMAIN system \cup {pid} /\ system'[pid] = parent
      /\ \A p \in DOMAIN system : system'[p] = system[p]
      /\ DOMAIN born' = DOMAIN born \cup {pid} /\ born'[pid] = parent
      /\ \A p \in DOMAIN born : p # pid => born'[p] = born[p]
  <2>1. /\ DOMAIN With(system, pid, parent) = DOMAIN system \cup {pid}
        /\ With(system, pid, parent)[pid] = parent
        /\ \A p \in DOMAIN system : p # pid => With(system, pid, parent)[p] = system[p]
    BY DEF With
  <2>2. /\ DOMAIN With(born, pid, parent) = DOMAIN born \cup {pid}
        /\ With(born, pid, parent)[pid] = parent
        /\ \A p \in DOMAIN born : p # pid => With(born, pid, parent)[p] = born[p]
    BY DEF With
  <2> QED BY <1>1, <2>1, <2>2
<1>3. ScanTypeOK'
  BY <1>1, <1>2 DEF ScanTypeOK
<1>4. SystemInv'
  BY <1>1, <1>2 DEF SystemInv
<1>5. RootInv'
  BY <1>1 DEF RootInv
<1>6. BirthInv'
  <2> SUFFICES ASSUME ~reused'
               PROVE  /\ \A p \in DOMAIN system' : p \in DescendantsIn(born', system'[p])
                      /\ \A p \in DOMAIN procMap : \/ p \in DescendantsIn(born', procMap[p])
                                                   \/ procMap[p] = 0 /\ host = "Linux"
    BY <1>1 DEF BirthInv
  <2>1. ~reused /\ pid \notin DOMAIN born
    BY <1>1
  <2>2. IsFiniteSet(DOMAIN born) /\ IsFiniteSet(DOMAIN born')
    BY <1>2, FiniteMaps, FS_AddElement
  <2>3. \A q \in DOMAIN born : q \in DescendantsIn(born', born[q])
    <3> TAKE q \in DOMAIN born
    <3>1. q \in DOMAIN born' /\ born'[q] = born[q]
      BY <1>2, <2>1
    <3>2. q \in DescendantsIn(born', born'[q])
      BY <2>2, <3>1, ChildDescends
    <3> QED BY <3>1, <3>2
  <2>4. \A p : DescendantsIn(born, p) \subseteq DescendantsIn(born', p)
    <3>1. Refines(born, born')
      BY <2>3 DEF Refines
    <3> QED BY <2>2, <3>1, DescendantsMonotone
  <2>5. pid \in DescendantsIn(born', parent)
    BY <1>2, <2>2, ChildDescends
  <2> QED BY <1>2, <2>1, <2>4, <2>5 DEF BirthInv
<1>7. StableInv'
  <2>1. pid \notin stable /\ \A p \in stable : p \in DOMAIN system /\ p \in DOMAIN born /\ p # pid
    BY <1>1 DEF ScanTypeOK
  <2>2. \A p \in stable : system'[p] = system[p] /\ born'[p] = born[p]
    BY <1>2, <2>1
  <2> QED BY <1>1, <2>2 DEF StableInv
<1> QED BY <1>3, <1>4, <1>5, <1>6, <1>7

\* The children of a process that ends get one of its ancestors.
LEMMA ExitInv ==
    ASSUME ScanInv, NEW pid, Exit(pid)
    PROVE  ScanInv'
<1> USE DEF ScanInv
<1>1. PICK reaper \in DOMAIN system \ {0, pid} :
          /\ pid \in DescendantsIn(system, reaper)
          /\ system' = [p \in DOMAIN system \ {pid} |->
                           IF system[p] = pid THEN reaper ELSE system[p]]
  BY DEF Exit
<1>2. /\ scan = "reading" /\ scan' = scan /\ host' = host /\ procMap' = procMap
      /\ position' = position /\ listed' = listed /\ room' = room /\ stable' = stable \ {pid}
      /\ pid \in DOMAIN system /\ pid # 0 /\ pid # 1
      /\ born' = born /\ reused' = reused
  BY DEF Exit, readVars
<1>3. /\ DOMAIN system' = DOMAIN system \ {pid}
      /\ \A p \in DOMAIN system : p # pid =>
             system'[p] = IF system[p] = pid THEN reaper ELSE system[p]
  BY <1>1
<1>4. IsFiniteSet(DOMAIN system) /\ IsFiniteSet(DOMAIN born)
  BY FiniteMaps
<1>5. ScanTypeOK'
  BY <1>1, <1>2, <1>3 DEF ScanTypeOK
<1>6. SystemInv'
  <2>1. 1 \in DOMAIN system /\ system[1] = 0 /\ system'[1] = 0
    BY <1>2, <1>3 DEF SystemInv
  <2>2. 0 \in DOMAIN system => system[0] = 0 /\ system'[0] = 0
    BY <1>2, <1>3 DEF SystemInv
  <2> QED BY <1>2, <1>3, <2>1, <2>2 DEF SystemInv
<1>7. RootInv'
  BY <1>2 DEF RootInv
<1>8. BirthInv'
  <2> SUFFICES ASSUME ~reused
               PROVE  \A p \in DOMAIN system' : p \in DescendantsIn(born, system'[p])
    BY <1>2 DEF BirthInv
  <2>1. \A p \in DOMAIN system : p \in DescendantsIn(born, system[p])
    BY DEF BirthInv
  <2>2. pid \in DescendantsIn(born, reaper)
    <3>1. Refines(system, born)
      BY <2>1 DEF Refines
    <3> QED BY <1>1, <1>4, <3>1, DescendantsMonotone
  <2>3. DescendantsIn(born, pid) \subseteq DescendantsIn(born, reaper)
    BY <1>4, <2>2, DescendantsTransitive
  <2> QED BY <1>3, <2>1, <2>3
<1>9. StableInv'
  <2>1. \A p \in stable : /\ p \in DOMAIN system
                          /\ system[p] \in stable \cup {0}
                          /\ system[p] # born[p] => born[p] \notin stable
    BY <1>2 DEF StableInv, ScanTypeOK
  <2>2. pid \in stable => reaper \in stable
    <3> SUFFICES ASSUME reaper \notin stable
                 PROVE  pid \notin stable
      OBVIOUS
    <3> DEFINE X == DOMAIN system \ (stable \cup {0})
    <3>1. ASSUME NEW q \in DOMAIN system, system[q] \in X \cup {reaper}
          PROVE  q \in X
      <4>1. system[q] # 0 /\ system[q] \notin stable
        BY <1>1, <3>1
      <4>2. q # 0
        BY <4>1 DEF SystemInv
      <4> QED BY <2>1, <4>1, <4>2
    <3> HIDE DEF X
    <3>2. Below(system, reaper, X) \subseteq X
      BY <3>1 DEF Below
    <3>3. DescendantsIn(system, reaper) \subseteq X
      BY <1>4, <3>2, DescendantsLeast
    <3> QED BY <1>1, <3>3 DEF X
  <2>3. ASSUME NEW p \in stable, p # pid
        PROVE  /\ system'[p] \in (stable \ {pid}) \cup {0}
               /\ system'[p] # born[p] => born[p] \notin stable \ {pid}
               /\ system'[p] = born[p] => system'[p] = system[p]
    <3>1. CASE system[p] = pid
      <4>1. system'[p] = reaper /\ reaper # pid
        BY <1>1, <1>3, <2>1, <2>3, <3>1
      <4>2. pid \in stable /\ reaper \in stable
        BY <1>2, <2>1, <2>2, <3>1
      <4> QED BY <2>1, <3>1, <4>1, <4>2
    <3>2. CASE system[p] # pid
      <4>1. system'[p] = system[p]
        BY <1>3, <2>1, <2>3, <3>2
      <4> QED BY <2>1, <3>2, <4>1
    <3> QED BY <3>1, <3>2
  <2> QED BY <1>2, <2>3 DEF StableInv
<1> QED BY <1>5, <1>6, <1>7, <1>8, <1>9

\* A scan begins with a system that is all there.
LEMMA BeginScanInv ==
    ASSUME ScanInv, BeginScan
    PROVE  ScanInv'
<1> USE DEF ScanInv
<1>1. ASSUME NEW s \in SystemsOf(host), BeginsWith(s), scan = "idle", room' \in {-1, room},
             \/ host = "Linux" /\ procMap' = <<>> /\ scan' = "reading" /\ position' = 0
             \/ host = "Mac" /\ procMap' = <<>> /\ scan' = "reading" /\ position' = position
             \/ host = "FreeBSD" /\ procMap' = s /\ scan' = "filled" /\ position' = position,
             listed' = listed
      PROVE  ScanInv'
  <2>1. /\ s \in Systems /\ DOMAIN s \subseteq Pids /\ 1 \in DOMAIN s /\ s[1] = 0
        /\ 0 \in DOMAIN s => s[0] = 0 /\ host # "Linux"
        /\ \A p \in DOMAIN s : s[p] \in DOMAIN s \cup {0}
        /\ Pids \subseteq Nat
    <3>1. s \in Systems /\ (0 \in DOMAIN s => host # "Linux")
      BY DEF SystemsOf
    <3>2. DOMAIN s \subseteq Pids
      BY <3>1 DEF Pids
    <3> QED BY <3>1, <3>2, SystemsAssumption
  <2>2. system' = s /\ born' = s /\ stable' = DOMAIN s /\ reused' = FALSE /\ host' = host
    BY <1>1 DEF BeginsWith
  <2>3. listed = {} /\ listed' = {}
    BY <1>1 DEF SystemInv
  <2>4. \A p \in DOMAIN s : p \in DescendantsIn(s, s[p])
    <3>1. IsFiniteSet(DOMAIN s)
      BY <2>1, FiniteMaps, FS_Subset
    <3> QED BY <3>1, ChildDescends
  <2>5. procMap' = s \/ DOMAIN procMap' = {}
    BY <1>1
  <2>6. ScanTypeOK'
    <3>1. Cardinality(Pids) \in Nat /\ room' \in -1..Cardinality(Pids)
      BY <1>1, FiniteMaps, FS_CardinalityType DEF ScanTypeOK
    <3> QED BY <1>1, <2>1, <2>2, <2>3, <2>5, <3>1 DEF ScanTypeOK
  <2>7. SystemInv'
    <3>1. position' \in Nat
      BY <1>1 DEF SystemInv
    <3>2. \A p \in DOMAIN procMap' : procMap'[p] \in Pids \cup {0}
      BY <2>1, <2>5
    <3>3. 0 \in DOMAIN procMap' => host' # "Linux" /\ procMap'[0] = 0
      BY <2>1, <2>2, <2>5
    <3> QED BY <2>1, <2>2, <2>3, <3>1, <3>2, <3>3 DEF SystemInv
  <2>8. RootInv'
    BY <1>1, <2>1, <2>2, <2>5 DEF RootInv
  <2>9. BirthInv'
    BY <2>2, <2>4, <2>5 DEF BirthInv
  <2>10. StableInv'
    <3>1. host = "Linux" => \A p \in DOMAIN s : 0 < p
      <4>1. \A p \in DOMAIN s : p \in Nat
        BY <2>1
      <4> QED BY <2>1, <4>1
    <3> QED BY <1>1, <2>1, <2>2, <2>5, <3>1 DEF StableInv
  <2> QED BY <2>6, <2>7, <2>8, <2>9, <2>10
<1>2. ASSUME NEW s \in SystemsOf(host), OpenProc(s)
      PROVE  ScanInv'
  BY <1>1, <1>2 DEF OpenProc
<1>3. ASSUME NEW s \in SystemsOf(host), BeginSysctl(s)
      PROVE  ScanInv'
  BY <1>1, <1>3 DEF BeginSysctl
<1>4. ASSUME NEW s \in SystemsOf(host), KinfoGetallproc(s)
      PROVE  ScanInv'
  BY <1>1, <1>4 DEF KinfoGetallproc
<1>5. CASE KinfoFails
  BY <1>5, ScanInvUnchanged DEF KinfoFails, readVars
<1> QED BY <1>2, <1>3, <1>4, <1>5 DEF BeginScan

\* The next part of /proc.
LEMMA ReadDirectoryInv ==
    ASSUME ScanInv, ReadDirectory
    PROVE  ScanInv'
<1> USE DEF ScanInv
<1>1. PICK last \in Pids :
          /\ position < last
          /\ position' = last
          /\ listed' = {p \in DOMAIN system : position < p /\ p <= last}
  BY DEF ReadDirectory
<1>2. /\ host = "Linux" /\ scan = "reading" /\ listed = {}
      /\ UNCHANGED <<host, procMap, scan, room, system, born, stable, reused>>
  BY DEF ReadDirectory, worldVars
<1>3. last \in Nat /\ position \in Nat /\ \A p \in DOMAIN system : p \in Pids /\ p \in Nat
  BY FiniteMaps DEF SystemInv
<1>4. ScanTypeOK'
  BY <1>1, <1>2, <1>3 DEF ScanTypeOK
<1>5. SystemInv'
  BY <1>1, <1>2, <1>3 DEF SystemInv
<1>6. RootInv'
  <2>1. 1 \in DOMAIN system
    BY <1>2 DEF SystemInv
  <2>2. position = 0 => 1 \in listed'
    BY <1>1, <1>3, <2>1
  <2>3. position > 0 => 1 \in DOMAIN procMap
    BY <1>2 DEF RootInv
  <2> QED BY <1>2, <1>3, <2>2, <2>3 DEF RootInv
<1>7. BirthInv'
  BY <1>2 DEF BirthInv
<1>8. StableInv'
  <2>1. ASSUME NEW p \in stable
        PROVE  p \in DOMAIN procMap \cup listed' \/ last < p
    <3>1. p \in DOMAIN procMap \/ position < p
      BY <1>2 DEF StableInv
    <3>2. p \in DOMAIN system
      BY DEF ScanTypeOK
    <3> QED BY <1>1, <1>3, <3>1, <3>2
  <2> QED BY <1>1, <1>2, <2>1 DEF StableInv
<1> QED BY <1>4, <1>5, <1>6, <1>7, <1>8

\* One entry.
LEMMA ReadStatInv ==
    ASSUME ScanInv, ReadStat
    PROVE  ScanInv'
<1> USE DEF ScanInv
<1> DEFINE pid == Min(listed)
<1>1. PICK ppid \in {ParentIn(system, pid)} \cup (IF pid \in Unreadable THEN {0} ELSE {}) :
          procMap' = With(procMap, pid, ppid)
  BY DEF ReadStat
<1>2. /\ host = "Linux" /\ scan = "reading" /\ listed # {} /\ listed' = listed \ {pid}
      /\ UNCHANGED <<host, scan, position, room, system, born, stable, reused>>
  BY DEF ReadStat, worldVars
<1>3. pid \in listed /\ \A p \in listed : pid <= p
  <2>1. listed \subseteq Nat
    BY FiniteMaps DEF ScanTypeOK
  <2> QED BY <1>2, <2>1, MinIsIn
<1>4. pid \in Pids /\ pid \in Nat /\ pid # 0 /\ pid <= position /\ position \in Nat
  BY <1>3, FiniteMaps DEF ScanTypeOK, SystemInv
<1> HIDE DEF pid
<1>5. /\ DOMAIN procMap' = DOMAIN procMap \cup {pid} /\ procMap'[pid] = ppid
      /\ \A p \in DOMAIN procMap : p # pid => procMap'[p] = procMap[p]
  BY <1>1 DEF With
<1>6. \/ pid \in DOMAIN system /\ ppid = system[pid]
      \/ pid \notin DOMAIN system /\ ppid = 0
      \/ pid \in Unreadable /\ ppid = 0
  BY <1>1 DEF ParentIn
<1>7. ScanTypeOK'
  BY <1>2, <1>4, <1>5 DEF ScanTypeOK
<1>8. SystemInv'
  <2>1. ppid \in Pids \cup {0}
    BY <1>6 DEF ScanTypeOK, SystemInv
  <2>2. \A p \in DOMAIN procMap' : procMap'[p] \in Pids \cup {0}
    BY <1>5, <2>1 DEF SystemInv
  <2>3. 0 \in DOMAIN procMap' => host # "Linux" /\ procMap'[0] = 0
    BY <1>4, <1>5 DEF SystemInv
  <2> QED BY <1>2, <2>2, <2>3 DEF SystemInv
<1>9. RootInv'
  <2>1. pid = 1 => ppid = 0
    BY <1>6 DEF SystemInv
  <2>2. 1 \in DOMAIN procMap' => procMap'[1] = 0
    BY <1>5, <2>1 DEF RootInv
  <2>3. 1 \in DOMAIN procMap'
    <3>1. 1 \in DOMAIN procMap \cup listed
      BY <1>2, <1>4 DEF RootInv
    <3>2. 1 \in listed => pid = 1
      BY <1>3, <1>4
    <3> QED BY <1>5, <3>1, <3>2
  <2> QED BY <2>2, <2>3 DEF RootInv
<1>10. BirthInv'
  <2>1. ~reused => pid \in DescendantsIn(born, ppid) \/ (ppid = 0 /\ host = "Linux")
    BY <1>2, <1>6 DEF BirthInv
  <2> QED BY <1>2, <1>5, <2>1 DEF BirthInv
<1>11. StableInv'
  <2>1. pid \in stable \ Unreadable => ppid = system[pid]
    BY <1>6 DEF ScanTypeOK
  <2>2. \A p \in stable \ Unreadable :
            p \in DOMAIN procMap' /\ system[p] = born[p] => procMap'[p] = system[p]
    BY <1>5, <2>1 DEF StableInv
  <2>3. \A p \in stable : p \in DOMAIN procMap' \cup listed' \/ position < p
    BY <1>2, <1>5 DEF StableInv
  <2> QED BY <1>2, <2>2, <2>3 DEF StableInv
<1> QED BY <1>7, <1>8, <1>9, <1>10, <1>11

\* The end of /proc: no pid is larger.
LEMMA EndOfDirectoryInv ==
    ASSUME ScanInv, EndOfDirectory
    PROVE  ScanInv'
<1> USE DEF ScanInv
<1>1. /\ host = "Linux" /\ scan = "reading" /\ scan' = "filled" /\ listed = {}
      /\ position = Max(Pids)
      /\ UNCHANGED <<host, procMap, position, listed, room, system, born, stable, reused>>
  BY DEF EndOfDirectory, worldVars
<1>2. ScanTypeOK' /\ SystemInv' /\ RootInv' /\ BirthInv'
  BY <1>1 DEF ScanTypeOK, SystemInv, RootInv, BirthInv
<1>3. ASSUME NEW p \in stable
      PROVE  p \in DOMAIN procMap
  <2>1. p \in Pids /\ p \in Nat
    BY FiniteMaps DEF ScanTypeOK, SystemInv
  <2>2. Max(Pids) \in Nat /\ Max(Pids) >= p
    BY <2>1, FiniteMaps, MaxIsIn
  <2>3. p \in DOMAIN procMap \/ Max(Pids) < p
    BY <1>1 DEF StableInv
  <2> QED BY <2>1, <2>2, <2>3
<1>4. StableInv'
  BY <1>1, <1>3 DEF StableInv
<1> QED BY <1>2, <1>4

\* A scan that breaks off.
LEMMA ScanFailsInv ==
    ASSUME ScanInv, ScanFails
    PROVE  ScanInv'
<1> USE DEF ScanInv
<1>1. /\ scan' = "filled" /\ listed' = {} /\ stable' \subseteq stable \cap DOMAIN procMap
      /\ UNCHANGED <<host, procMap, position, room, system, born, reused>>
  BY DEF ScanFails, IterationFails, SysctlFails, SystemInv, ScanTypeOK
<1>2. ScanTypeOK' /\ SystemInv' /\ RootInv' /\ BirthInv'
  BY <1>1 DEF ScanTypeOK, SystemInv, RootInv, BirthInv
<1>3. StableInv'
  BY <1>1 DEF StableInv
<1> QED BY <1>2, <1>3

\* The list is what the system is when it comes.
LEMMA ScanMacInv ==
    ASSUME ScanInv, ScanMac
    PROVE  ScanInv'
<1> USE DEF ScanInv
<1>1. CASE AskSize \/ NoMemory
  <2>1. UNCHANGED <<host, procMap, scan, position, listed, worldVars>>
    BY <1>1 DEF AskSize, NoMemory
  <2>2. room' \in -1..Cardinality(Pids)
    <3>1. /\ Cardinality(Pids) \in Nat /\ Cardinality(DOMAIN system) \in Nat
          /\ Cardinality(DOMAIN system) <= Cardinality(Pids)
      BY FiniteMaps, FS_Subset, FS_CardinalityType DEF SystemInv
    <3> QED BY <1>1, <3>1 DEF AskSize, NoMemory
  <2>3. SystemInv' /\ RootInv' /\ BirthInv' /\ StableInv'
    BY <2>1 DEF worldVars, SystemInv, RootInv, BirthInv, StableInv
  <2>4. ScanTypeOK'
    BY <2>1, <2>2 DEF worldVars, ScanTypeOK
  <2> QED BY <2>3, <2>4
<1>2. CASE GetList
  <2>1. /\ host = "Mac" /\ scan = "reading" /\ scan' = "filled" /\ procMap' = system
        /\ UNCHANGED <<host, position, listed, room, system, born, stable, reused>>
    BY <1>2 DEF GetList, worldVars
  <2>2. ScanTypeOK'
    BY <2>1 DEF ScanTypeOK, SystemInv
  <2>3. \A p \in DOMAIN procMap' : procMap'[p] \in Pids \cup {0}
    BY <2>1 DEF ScanTypeOK, SystemInv
  <2>4. SystemInv'
    BY <2>1, <2>3 DEF SystemInv
  <2>5. RootInv'
    BY <2>1 DEF RootInv, SystemInv
  <2>6. BirthInv'
    BY <2>1 DEF BirthInv
  <2>7. StableInv'
    BY <2>1 DEF StableInv, ScanTypeOK
  <2> QED BY <2>2, <2>4, <2>5, <2>6, <2>7
<1> QED BY <1>1, <1>2 DEF ScanMac

\* All that createProcTree does to scan, and all that happens meanwhile.
LEMMA ScanInvScan ==
    ASSUME ScanInv, BeginScan \/ World \/ ScanSteps \/ ScanFails
    PROVE  ScanInv'
BY BeginScanInv, ForkInv, ExitInv, ReadDirectoryInv, ReadStatInv, EndOfDirectoryInv,
   ScanFailsInv, ScanMacInv DEF World, ScanSteps, ScanLinux

-----------------------------------------------------------------------------
(* The stacks                                                              *)

LEMMA StackIs ==
    ASSUME NEW S, NEW s \in Seq(S), s # <<>>
    PROVE  /\ Len(s) \in Nat \ {0} /\ DOMAIN s = 1..Len(s)
           /\ Last(s) = s[Len(s)] /\ Last(s) \in S
           /\ Front(s) \in Seq(S) /\ Len(Front(s)) = Len(s) - 1
           /\ \A i \in 1..(Len(s) - 1) : Front(s)[i] = s[i]
<1>1. Len(s) \in Nat \ {0} /\ DOMAIN s = 1..Len(s)
  OBVIOUS
<1>2. Last(s) = s[Len(s)]
  BY DEF Last
<1>3. s[Len(s)] \in S
  BY <1>1
<1>4. /\ SubSeq(s, 1, Len(s) - 1) \in Seq(S)
      /\ Len(SubSeq(s, 1, Len(s) - 1)) = Len(s) - 1
      /\ \A i \in 1..(Len(s) - 1) : SubSeq(s, 1, Len(s) - 1)[i] = s[i]
  BY <1>1
<1> QED BY <1>1, <1>2, <1>3, <1>4 DEF Front

LEMMA PushIs ==
    ASSUME NEW S, NEW s \in Seq(S), NEW x \in S
    PROVE  /\ Append(s, x) \in Seq(S) /\ Len(Append(s, x)) = Len(s) + 1
           /\ Len(s) \in Nat /\ DOMAIN Append(s, x) = 1..(Len(s) + 1)
           /\ Append(s, x)[Len(s) + 1] = x
           /\ \A i \in 1..Len(s) : Append(s, x)[i] = s[i]
OBVIOUS

LEMMA ReplaceIs ==
    ASSUME NEW S, NEW s \in Seq(S), s # <<>>, NEW x \in S
    PROVE  LET t == Append(Front(s), x)
           IN  /\ t \in Seq(S) /\ Len(t) = Len(s) /\ DOMAIN t = DOMAIN s
               /\ t[Len(s)] = x
               /\ \A i \in 1..(Len(s) - 1) : t[i] = s[i]
<1>1. /\ Len(s) \in Nat \ {0} /\ DOMAIN s = 1..Len(s)
      /\ Front(s) \in Seq(S) /\ Len(Front(s)) = Len(s) - 1
      /\ \A i \in 1..(Len(s) - 1) : Front(s)[i] = s[i]
  BY StackIs
<1> DEFINE f == Front(s)
           t == Append(f, x)
<1> HIDE DEF f
<1>2. /\ t \in Seq(S) /\ Len(t) = Len(f) + 1 /\ DOMAIN t = 1..(Len(f) + 1)
      /\ t[Len(f) + 1] = x
      /\ \A i \in 1..Len(f) : t[i] = f[i]
  <2>1. f \in Seq(S)
    BY <1>1 DEF f
  <2> QED BY <2>1, PushIs
<1>3. Len(f) = Len(s) - 1 /\ Len(f) + 1 = Len(s)
  BY <1>1 DEF f
<1> HIDE DEF t
<1>4. /\ t \in Seq(S) /\ Len(t) = Len(s) /\ DOMAIN t = DOMAIN s /\ t[Len(s)] = x
  BY <1>1, <1>2, <1>3
<1>5. \A i \in 1..(Len(s) - 1) : t[i] = s[i]
  BY <1>1, <1>2, <1>3 DEF f
<1> QED BY <1>4, <1>5 DEF f, t

LEMMA SeqLarger ==
    ASSUME NEW S, NEW T, S \subseteq T, NEW s \in Seq(S)
    PROVE  s \in Seq(T)
OBVIOUS

\* What a call of addConnectProcesses can rest on.
LEMMA CallFacts ==
    ASSUME Inv, phase = "build"
    PROVE  /\ scan = "idle" /\ VerticesInv /\ IdsInv /\ EdgesInv
           /\ descents = <<>>
           /\ 0 \in Vertices => graph[0].pid = Min(DOMAIN procMap)
           /\ todo \subseteq DOMAIN procMap /\ Expected /\ Connecting /\ FirstComes
           /\ \A i \in DOMAIN calls : CallInv(i)
BY DEF Inv, TreeInv, ShapeInv, GraphInv, BuildInv

LEMMA VerticesAre ==
    ASSUME Inv
    PROVE  /\ Cardinality(Vertices) \in Nat /\ Vertices \subseteq Nat
           /\ \A v \in Nat : v \in Vertices <=> v < Cardinality(Vertices)
<1>1. Cardinality(Vertices) \in Nat /\ Vertices = 0..(Cardinality(Vertices) - 1)
  BY FS_CardinalityType DEF Inv, TreeInv, ShapeInv
<1> DEFINE n == Cardinality(Vertices)
<1> HIDE DEF n
<1>2. n \in Nat /\ Vertices = 0..(n - 1)
  BY <1>1 DEF n
<1>3. Vertices \subseteq Nat /\ \A v \in Nat : v \in Vertices <=> v < n
  BY <1>2
<1> QED BY <1>2, <1>3 DEF n

LEMMA TopFacts ==
    ASSUME Inv, phase = "build", calls # <<>>
    PROVE  /\ Len(calls) \in Nat \ {0} /\ DOMAIN calls = 1..Len(calls)
           /\ Len(calls) \in DOMAIN calls
           /\ Top = calls[Len(calls)] /\ Top \in CallRecords
           /\ Top.pid \in Pids \cup {0} /\ Top.newProc \in Vertices \cup {Uninitialised}
           /\ Front(calls) \in Seq(CallRecords) /\ Len(Front(calls)) = Len(calls) - 1
           /\ DOMAIN Front(calls) = 1..(Len(calls) - 1)
           /\ \A i \in 1..(Len(calls) - 1) : /\ Front(calls)[i] = calls[i]
                                             /\ calls[i].step = "addEdge"
                                             /\ calls[i + 1].pid = Ppid(calls[i].newProc)
<1>1. calls \in Seq(CallRecords)
  BY DEF Inv, TreeInv, ShapeInv
<1>2. /\ Len(calls) \in Nat \ {0} /\ DOMAIN calls = 1..Len(calls)
      /\ Last(calls) = calls[Len(calls)] /\ Last(calls) \in CallRecords
      /\ Front(calls) \in Seq(CallRecords) /\ Len(Front(calls)) = Len(calls) - 1
      /\ \A i \in 1..(Len(calls) - 1) : Front(calls)[i] = calls[i]
  BY <1>1, StackIs
<1>3. ASSUME NEW i \in 1..(Len(calls) - 1)
      PROVE  calls[i].step = "addEdge" /\ calls[i + 1].pid = Ppid(calls[i].newProc)
  <2>1. i \in DOMAIN calls /\ i < Len(calls)
    BY <1>2
  <2> QED BY <2>1, CallFacts DEF CallInv
<1>4. DOMAIN Front(calls) = 1..(Len(calls) - 1)
  <2> DEFINE f == Front(calls)
  <2>1. f \in Seq(CallRecords) /\ Len(f) = Len(calls) - 1
    BY <1>2
  <2> HIDE DEF f
  <2>2. DOMAIN f = 1..Len(f)
    BY <2>1
  <2> QED BY <2>1, <2>2 DEF f
<1>5. Top = calls[Len(calls)] /\ Top \in CallRecords
  BY <1>2 DEF Top
<1>6. Top.pid \in Pids \cup {0} /\ Top.newProc \in Vertices \cup {Uninitialised}
  BY <1>5 DEF CallRecords
<1>7. Len(calls) \in DOMAIN calls
  BY <1>2
<1> QED BY <1>2, <1>3, <1>4, <1>5, <1>6, <1>7

\* The scan and the look-up are none of addConnectProcesses' business.
LEMMA BuildLeavesScan ==
    ASSUME Inv, UNCHANGED <<scanVars, queryVars>>, phase = "build",
           phase' \in {"build", "ready", "crashed"}
    PROVE  ScanInv' /\ QueryInv'
<1>1. ScanInv'
  BY ScanInvUnchanged DEF Inv, scanVars, readVars
<1>2. QueryInv'
  BY DEF QueryInv
<1> QED BY <1>1, <1>2

\* The shape, after a step that changes the calls only.
LEMMA CallsShape ==
    ASSUME Inv, phase = "build", phase' = "build",
           UNCHANGED <<scanVars, graph, edges, m_pidToIdMap, queryVars>>,
           calls' \in Seq(CallRecords),
           \A i, j \in DOMAIN calls' : i # j => calls'[i].pid # calls'[j].pid
    PROVE  ShapeInv' /\ GraphInv' /\ CompleteInv'
<1>1. ShapeInv'
  <2>1. CallRecords' = CallRecords
    BY DEF CallRecords, Vertices
  <2> QED BY <2>1 DEF Inv, TreeInv, ShapeInv, scanVars, readVars, queryVars, Vertices, DescentRecords
<1>2. GraphInv'
  BY CallFacts DEF GraphInv, VerticesInv, IdsInv, EdgesInv, Vertices, Ppid, scanVars, readVars
<1>3. CompleteInv'
  BY DEF CompleteInv
<1> QED BY <1>1, <1>2, <1>3

LEMMA NextProcessInv ==
    ASSUME Inv, NextProcess
    PROVE  Inv'
<1>1. /\ phase = "build" /\ calls = <<>>
      /\ UNCHANGED <<scanVars, graph, edges, m_pidToIdMap, queryVars>>
      /\ scan = "idle" /\ scan' = "idle" /\ procMap' = procMap
  BY CallFacts DEF NextProcess, scanVars, readVars
<1>2. \A v \in Vertices : Connected(v) /\ Connected(v)'
  BY <1>1, CallFacts DEF Connecting, Connected, Ppid
<1>3. CASE todo = {}
  <2>1. phase' = "ready" /\ UNCHANGED <<todo, calls>>
    BY <1>3 DEF NextProcess
  <2>2. ShapeInv'
    BY <1>1, <2>1 DEF Inv, TreeInv, ShapeInv, scanVars, readVars, queryVars, CallRecords,
        DescentRecords, Vertices
  <2>3. GraphInv'
    BY <1>1, CallFacts DEF GraphInv, VerticesInv, IdsInv, EdgesInv, Vertices, Ppid
  <2>4. CompleteInv'
    <3>1. DOMAIN procMap \subseteq DOMAIN m_pidToIdMap
      BY <1>1, <1>3, CallFacts DEF Expected
    <3> QED BY <1>1, <1>2, <3>1 DEF CompleteInv, Vertices
  <2>5. BuildInv'
    BY <2>1 DEF BuildInv
  <2> QED BY <1>1, <2>1, <2>2, <2>3, <2>4, <2>5, BuildLeavesScan DEF Inv, TreeInv
<1>4. CASE todo # {}
  <2> DEFINE pid == Min(todo)
  <2>1. phase' = "build" /\ calls' = <<Call(pid)>> /\ todo' = todo \ {pid}
    BY <1>1, <1>4 DEF NextProcess
  <2>2. pid \in todo /\ pid \in Pids
    <3>1. todo \subseteq Pids
      BY <1>1, CallFacts DEF Inv, ScanInv, ScanTypeOK
    <3>2. todo \subseteq Nat
      BY <3>1, FiniteMaps DEF Inv, ScanInv
    <3> QED BY <1>4, <3>1, <3>2, MinIsIn
  <2> HIDE DEF pid
  <2>3. Call(pid) \in CallRecords /\ Call(pid).pid = pid /\ Call(pid).step = "addProcess"
    BY <2>2 DEF Call, CallRecords
  <2> DEFINE c == Call(pid)
  <2> HIDE DEF c
  <2>4. /\ calls' \in Seq(CallRecords) /\ calls' # <<>> /\ Len(calls') = 1
        /\ DOMAIN calls' = {1} /\ calls'[1] = c /\ Top' = c
    <3>1. calls' = <<c>> /\ c \in CallRecords
      BY <2>1, <2>3 DEF c
    <3>2. <<c>> \in Seq(CallRecords) /\ <<c>> # <<>> /\ Len(<<c>>) = 1 /\ DOMAIN <<c>> = {1} /\ <<c>>[1] = c
      BY <3>1
    <3>3. Last(<<c>>) = c
      BY <3>2 DEF Last
    <3> QED BY <3>1, <3>2, <3>3 DEF Top
  <2>5. ShapeInv' /\ GraphInv' /\ CompleteInv'
    BY <1>1, <2>1, <2>4, CallsShape
  <2>6. BuildInv'
    <3>1. Expected'
      BY <1>1, <2>1, <2>3, <2>4, CallFacts DEF Expected, c
    <3>2. Connecting'
      BY <1>1, <1>2 DEF Connecting, Vertices
    <3>3. FirstComes'
      BY <1>1, <1>4, <2>1, CallFacts DEF FirstComes, Vertices, pid
    <3>4. \A i \in DOMAIN calls' : CallInv(i)'
      BY <2>3, <2>4 DEF CallInv, c
    <3> QED BY <1>1, <2>1, <3>1, <3>2, <3>3, <3>4, CallFacts DEF BuildInv
  <2> QED BY <1>1, <2>1, <2>5, <2>6, BuildLeavesScan DEF Inv, TreeInv
<1> QED BY <1>3, <1>4

\* A step that changes the top of the calls only.
LEMMA TopReplaced ==
    ASSUME Inv, phase = "build", calls # <<>>, phase' = "build",
           UNCHANGED <<scanVars, graph, edges, m_pidToIdMap, queryVars>>,
           NEW c \in CallRecords, c.pid = Top.pid, calls' = WithTop(c)
    PROVE  /\ ShapeInv' /\ GraphInv' /\ CompleteInv'
           /\ DOMAIN calls' = DOMAIN calls /\ Len(calls') = Len(calls)
           /\ calls' \in Seq(CallRecords) /\ calls'[Len(calls)] = c /\ Top' = c /\ calls' # <<>>
           /\ \A i \in 1..(Len(calls) - 1) : calls'[i] = calls[i]
           /\ \A i \in DOMAIN calls : calls'[i].pid = calls[i].pid
<1>1. calls \in Seq(CallRecords)
  BY DEF Inv, TreeInv, ShapeInv
<1>2. /\ calls' \in Seq(CallRecords) /\ Len(calls') = Len(calls) /\ DOMAIN calls' = DOMAIN calls
      /\ calls'[Len(calls)] = c
      /\ \A i \in 1..(Len(calls) - 1) : calls'[i] = calls[i]
  BY <1>1, ReplaceIs DEF WithTop
<1>3. \A i \in DOMAIN calls : calls'[i].pid = calls[i].pid
  BY <1>2, TopFacts
<1>4. ShapeInv' /\ GraphInv' /\ CompleteInv'
  <2>1. \A i, j \in DOMAIN calls' : i # j => calls'[i].pid # calls'[j].pid
    BY <1>2, <1>3 DEF Inv, TreeInv, ShapeInv
  <2> QED BY <1>2, <2>1, CallsShape
<1>5. Top' = c /\ calls' # <<>>
  BY <1>2, TopFacts DEF Top, Last
<1> QED BY <1>2, <1>3, <1>4, <1>5

LEMMA AddKnownProcessInv ==
    ASSUME Inv, AddKnownProcess
    PROVE  Inv'
<1> DEFINE c == [Top EXCEPT !.step = "findParent"]
<1>1. /\ phase = "build" /\ phase' = "build" /\ calls # <<>> /\ Top.step = "addProcess"
      /\ Top.pid \in DOMAIN m_pidToIdMap /\ calls' = WithTop(c)
      /\ UNCHANGED <<scanVars, todo, graph, edges, m_pidToIdMap, queryVars>>
  BY DEF AddKnownProcess
<1>2. /\ c \in CallRecords /\ c.pid = Top.pid /\ c.newProc = Top.newProc
      /\ c.step = "findParent"
  BY <1>1, TopFacts DEF CallRecords
<1> HIDE DEF c
<1>3. /\ ShapeInv' /\ GraphInv' /\ CompleteInv'
      /\ DOMAIN calls' = DOMAIN calls /\ Len(calls') = Len(calls)
      /\ calls'[Len(calls)] = c /\ Top' = c /\ calls' # <<>>
      /\ \A i \in 1..(Len(calls) - 1) : calls'[i] = calls[i]
      /\ \A i \in DOMAIN calls : calls'[i].pid = calls[i].pid
  BY <1>1, <1>2, TopReplaced
<1>4. procMap' = procMap
  BY <1>1 DEF scanVars, readVars
<1>5. Expected'
  BY <1>1, <1>4, CallFacts DEF Expected
<1>6. Connecting'
  <2> SUFFICES ASSUME NEW v \in Vertices, ~Connected(v)
               PROVE  \E i \in DOMAIN calls : calls'[i].newProc = v /\ calls'[i].step # "addProcess"
    BY <1>1, <1>3 DEF Connecting, Connected, Vertices, Ppid
  <2>1. PICK i \in DOMAIN calls : calls[i].newProc = v /\ calls[i].step # "addProcess"
    BY <1>1, CallFacts DEF Connecting
  <2>2. i \in 1..(Len(calls) - 1)
    BY <1>1, <2>1, TopFacts
  <2> QED BY <1>3, <2>1, <2>2
<1>7. FirstComes'
  <2>1. Vertices # {}
    BY <1>1 DEF Inv, TreeInv, ShapeInv
  <2> QED BY <1>1, <2>1 DEF FirstComes, Vertices
<1>8. ASSUME NEW i \in DOMAIN calls
      PROVE  CallInv(i)'
  <2>1. CASE i = Len(calls)
    BY <1>1, <1>2, <1>3, <2>1, TopFacts DEF CallInv
  <2>2. CASE i # Len(calls)
    <3>1. i \in 1..(Len(calls) - 1) /\ i < Len(calls) /\ i + 1 \in DOMAIN calls
      BY <1>1, <2>2, TopFacts
    <3>2. CallInv(i)
      BY <1>1, CallFacts
    <3> QED BY <1>1, <1>3, <3>1, <3>2 DEF CallInv, Vertices, Ppid
  <2> QED BY <2>1, <2>2
<1>9. BuildInv'
  BY <1>1, <1>3, <1>4, <1>5, <1>6, <1>7, <1>8, CallFacts DEF BuildInv
<1> QED BY <1>1, <1>3, <1>9, BuildLeavesScan DEF Inv, TreeInv

\* The step back to the call that waits: its parent is done.
LEMMA TopDropped ==
    ASSUME Inv, phase = "build", calls # <<>>, phase' = "build",
           UNCHANGED <<scanVars, graph, edges, m_pidToIdMap, queryVars>>,
           calls' = Front(calls)
    PROVE  /\ ShapeInv' /\ GraphInv' /\ CompleteInv'
           /\ DOMAIN calls' = 1..(Len(calls) - 1) /\ Len(calls') = Len(calls) - 1
           /\ \A i \in 1..(Len(calls) - 1) : calls'[i] = calls[i] /\ i \in DOMAIN calls
<1>1. /\ calls' \in Seq(CallRecords) /\ Len(calls') = Len(calls) - 1
      /\ DOMAIN calls' = 1..(Len(calls) - 1)
      /\ \A i \in 1..(Len(calls) - 1) : calls'[i] = calls[i] /\ i \in DOMAIN calls
  <2>1. \A i \in 1..(Len(calls) - 1) : i \in DOMAIN calls
    BY TopFacts
  <2>2. \A i \in 1..(Len(calls) - 1) : calls'[i] = calls[i]
    BY TopFacts
  <2>3. calls' \in Seq(CallRecords) /\ Len(calls') = Len(calls) - 1
    BY TopFacts
  <2>4. DOMAIN calls' = 1..(Len(calls) - 1)
    BY TopFacts
  <2> QED BY <2>1, <2>2, <2>3, <2>4
<1>2. \A i, j \in DOMAIN calls' : i # j => calls'[i].pid # calls'[j].pid
  <2>1. \A i, j \in DOMAIN calls : i # j => calls[i].pid # calls[j].pid
    BY DEF Inv, TreeInv, ShapeInv
  <2>2. \A i \in DOMAIN calls' : calls'[i] = calls[i] /\ i \in DOMAIN calls
    BY <1>1
  <2> QED BY <2>1, <2>2
<1>3. ShapeInv' /\ GraphInv' /\ CompleteInv'
  BY <1>1, <1>2, CallsShape
<1> QED BY <1>1, <1>3

\* ... and it can be found, or is not there to be found.
LEMMA WaitingGoesOn ==
    ASSUME Inv, phase = "build", calls # <<>>, UNCHANGED <<graph, edges, m_pidToIdMap>>,
           procMap' = procMap,
           calls' = Front(calls), Len(calls') = Len(calls) - 1,
           DOMAIN calls' = 1..(Len(calls) - 1),
           \A i \in 1..(Len(calls) - 1) : calls'[i] = calls[i] /\ i \in DOMAIN calls,
           Top.pid \in DOMAIN m_pidToIdMap \/ Top.pid \notin DOMAIN procMap
    PROVE  \A i \in DOMAIN calls' : CallInv(i)'
<1> SUFFICES ASSUME NEW i \in 1..(Len(calls) - 1)
             PROVE  CallInv(i)'
  OBVIOUS
<1>1. CallInv(i) /\ calls[i].step = "addEdge" /\ calls[i + 1].pid = Ppid(calls[i].newProc)
  BY CallFacts, TopFacts
<1>2. calls'[i] = calls[i] /\ i \in Nat /\ i < Len(calls) /\ Len(calls) \in Nat
  BY TopFacts
<1>3. CASE i = Len(calls) - 1
  <2>1. Top.pid = Ppid(calls[i].newProc) /\ i = Len(calls')
    BY <1>1, <1>2, <1>3, TopFacts
  <2> QED BY <1>1, <1>2, <2>1 DEF CallInv, Vertices, Ppid
<1>4. CASE i # Len(calls) - 1
  <2>1. i < Len(calls') /\ i + 1 \in 1..(Len(calls) - 1) /\ calls'[i + 1] = calls[i + 1]
    BY <1>2, <1>4
  <2>2. i # Len(calls')
    BY <1>2, <1>4
  <2> QED BY <1>1, <1>2, <2>1, <2>2 DEF CallInv, Vertices, Ppid
<1> QED BY <1>3, <1>4

LEMMA AddMissingProcessInv ==
    ASSUME Inv, AddMissingProcess
    PROVE  Inv'
<1>1. /\ phase = "build" /\ phase' = "build" /\ calls # <<>> /\ Top.step = "addProcess"
      /\ Top.pid \notin DOMAIN procMap /\ calls' = Front(calls)
      /\ UNCHANGED <<scanVars, todo, graph, edges, m_pidToIdMap, queryVars>>
  BY DEF AddMissingProcess
<1>2. /\ ShapeInv' /\ GraphInv' /\ CompleteInv'
      /\ DOMAIN calls' = 1..(Len(calls) - 1) /\ Len(calls') = Len(calls) - 1
      /\ \A i \in 1..(Len(calls) - 1) : calls'[i] = calls[i] /\ i \in DOMAIN calls
  BY <1>1, TopDropped
<1>3. procMap' = procMap
  BY <1>1 DEF scanVars, readVars
<1>4. Expected'
  BY <1>1, <1>3, CallFacts DEF Expected
<1>5. Connecting'
  <2> SUFFICES ASSUME NEW v \in Vertices, ~Connected(v)
               PROVE  \E i \in DOMAIN calls' : calls'[i].newProc = v /\ calls'[i].step # "addProcess"
    BY <1>1 DEF Connecting, Connected, Vertices, Ppid
  <2>1. PICK i \in DOMAIN calls : calls[i].newProc = v /\ calls[i].step # "addProcess"
    BY <1>1, CallFacts DEF Connecting
  <2>2. i \in 1..(Len(calls) - 1)
    BY <1>1, <2>1, TopFacts
  <2> QED BY <1>2, <2>1, <2>2
<1>6. FirstComes'
  <2> SUFFICES ASSUME Vertices = {}
               PROVE  FALSE
    BY <1>1 DEF FirstComes, Vertices
  <2>1. DOMAIN procMap # {} /\ calls = <<Call(Min(DOMAIN procMap))>>
    BY <1>1, CallFacts DEF FirstComes
  <2>2. Top = Call(Min(DOMAIN procMap))
    <3>1. Len(calls) = 1 /\ calls[1] = Call(Min(DOMAIN procMap))
      BY <2>1
    <3> QED BY <1>1, <3>1, TopFacts
  <2>3. Min(DOMAIN procMap) \in DOMAIN procMap
    <3>1. DOMAIN procMap \subseteq Nat
      BY FiniteMaps DEF Inv, ScanInv, ScanTypeOK
    <3> QED BY <2>1, <3>1, MinIsIn
  <2> QED BY <1>1, <2>2, <2>3 DEF Call
<1>7. \A i \in DOMAIN calls' : CallInv(i)'
  BY <1>1, <1>2, <1>3, WaitingGoesOn
<1>8. BuildInv'
  BY <1>1, <1>3, <1>4, <1>5, <1>6, <1>7, CallFacts DEF BuildInv
<1> QED BY <1>1, <1>2, <1>8, BuildLeavesScan DEF Inv, TreeInv

LEMMA FindParentInv ==
    ASSUME Inv, FindParent
    PROVE  Inv'
<1>1. PICK v \in VertexRead :
          calls' = IF graph[v].pid = 0 THEN Front(calls)
                   ELSE IF graph[v].ppid \in DOMAIN m_pidToIdMap
                   THEN WithTop([Top EXCEPT !.newProc = v, !.step = "addEdge"])
                   ELSE Append(WithTop([Top EXCEPT !.newProc = v, !.step = "addEdge"]),
                               Call(graph[v].ppid))
  BY DEF FindParent
<1>2. /\ phase = "build" /\ phase' = "build" /\ calls # <<>> /\ Top.step = "findParent"
      /\ UNCHANGED <<scanVars, todo, graph, edges, m_pidToIdMap, queryVars>>
      /\ procMap' = procMap
  BY DEF FindParent, scanVars, readVars
<1>3. v \in Vertices /\ v # Uninitialised
  <2>1. v \in Vertices
    BY <1>1, <1>2, TopFacts DEF VertexRead
  <2> QED BY <2>1, VerticesAre DEF Uninitialised
<1>4. Top.newProc \in {v, Uninitialised}
  BY <1>1 DEF VertexRead
<1>5. Uninitialised \notin Vertices
  BY VerticesAre DEF Uninitialised
<1>6. Top.pid \in DOMAIN m_pidToIdMap
  BY <1>2, CallFacts, TopFacts DEF CallInv
<1>7. FirstComes'
  BY <1>2, <1>3 DEF FirstComes, Vertices
<1>8. Expected'
  BY <1>2, CallFacts DEF Expected
<1>9. CASE graph[v].pid = 0
  <2>1. calls' = Front(calls)
    BY <1>1, <1>9
  <2>2. /\ ShapeInv' /\ GraphInv' /\ CompleteInv'
        /\ DOMAIN calls' = 1..(Len(calls) - 1) /\ Len(calls') = Len(calls) - 1
        /\ \A i \in 1..(Len(calls) - 1) : calls'[i] = calls[i] /\ i \in DOMAIN calls
    BY <1>2, <2>1, TopDropped
  <2>3. Connecting'
    <3> SUFFICES ASSUME NEW w \in Vertices, ~Connected(w)
                 PROVE  \E i \in DOMAIN calls' : calls'[i].newProc = w /\ calls'[i].step # "addProcess"
      BY <1>2 DEF Connecting, Connected, Vertices, Ppid
    <3>1. PICK i \in DOMAIN calls : calls[i].newProc = w /\ calls[i].step # "addProcess"
      BY <1>2, CallFacts DEF Connecting
    <3>2. w # v
      BY <1>9 DEF Connected
    <3>3. i \in 1..(Len(calls) - 1)
      BY <1>2, <1>4, <1>5, <3>1, <3>2, TopFacts
    <3> QED BY <2>2, <3>1, <3>3
  <2>4. \A i \in DOMAIN calls' : CallInv(i)'
    BY <1>2, <1>6, <2>1, <2>2, WaitingGoesOn
  <2>5. BuildInv'
    BY <1>2, <1>7, <1>8, <2>3, <2>4, CallFacts DEF BuildInv
  <2> QED BY <1>2, <2>2, <2>5, BuildLeavesScan DEF Inv, TreeInv
<1> DEFINE c == [Top EXCEPT !.newProc = v, !.step = "addEdge"]
           ppid == graph[v].ppid
<1>10. /\ c \in CallRecords /\ c.pid = Top.pid /\ c.newProc = v /\ c.step = "addEdge"
  BY <1>2, <1>3, TopFacts DEF CallRecords
<1>11. graph[v].pid # 0 => calls' = IF ppid \in DOMAIN m_pidToIdMap THEN WithTop(c)
                                    ELSE Append(WithTop(c), Call(ppid))
  BY <1>1
<1>12. ppid = Ppid(v)
  BY DEF Ppid
<1> HIDE DEF c, ppid
<1>13. CASE graph[v].pid # 0 /\ ppid \in DOMAIN m_pidToIdMap
  <2>1. calls' = WithTop(c)
    BY <1>11, <1>13
  <2>2. /\ ShapeInv' /\ GraphInv' /\ CompleteInv'
        /\ DOMAIN calls' = DOMAIN calls /\ Len(calls') = Len(calls)
        /\ calls'[Len(calls)] = c /\ Top' = c /\ calls' # <<>>
        /\ \A i \in 1..(Len(calls) - 1) : calls'[i] = calls[i]
        /\ \A i \in DOMAIN calls : calls'[i].pid = calls[i].pid
    BY <1>2, <1>10, <2>1, TopReplaced
  <2>3. Connecting'
    <3> SUFFICES ASSUME NEW w \in Vertices, ~Connected(w)
                 PROVE  \E i \in DOMAIN calls : calls'[i].newProc = w /\ calls'[i].step # "addProcess"
      BY <1>2, <2>2 DEF Connecting, Connected, Vertices, Ppid
    <3>1. PICK i \in DOMAIN calls : calls[i].newProc = w /\ calls[i].step # "addProcess"
      BY <1>2, CallFacts DEF Connecting
    <3>2. CASE i = Len(calls)
      BY <1>2, <1>4, <1>5, <1>10, <2>2, <3>1, <3>2, TopFacts
    <3>3. CASE i \in 1..(Len(calls) - 1)
      BY <2>2, <3>1, <3>3
    <3> QED BY <1>2, <3>2, <3>3, TopFacts
  <2>4. ASSUME NEW i \in DOMAIN calls
        PROVE  CallInv(i)'
    <3>1. CASE i = Len(calls)
      BY <1>2, <1>3, <1>6, <1>10, <1>12, <1>13, <2>2, <3>1, TopFacts DEF CallInv, Vertices, Ppid
    <3>2. CASE i # Len(calls)
      <4>1. i \in 1..(Len(calls) - 1) /\ i < Len(calls) /\ i + 1 \in DOMAIN calls
        BY <1>2, <3>2, TopFacts
      <4>2. CallInv(i)
        BY <1>2, CallFacts
      <4> QED BY <1>2, <2>2, <4>1, <4>2 DEF CallInv, Vertices, Ppid
    <3> QED BY <3>1, <3>2
  <2>5. BuildInv'
    BY <1>2, <1>7, <1>8, <2>2, <2>3, <2>4, CallFacts DEF BuildInv
  <2> QED BY <1>2, <2>2, <2>5, BuildLeavesScan DEF Inv, TreeInv
<1>14. CASE graph[v].pid # 0 /\ ppid \notin DOMAIN m_pidToIdMap
  <2> DEFINE t == WithTop(c)
             n == Len(calls)
             d == Call(ppid)
  <2>1. calls' = Append(t, d)
    BY <1>11, <1>14
  <2>2. /\ calls \in Seq(CallRecords) /\ n \in Nat \ {0} /\ n \in DOMAIN calls
        /\ DOMAIN calls = 1..n
    BY <1>2, TopFacts DEF Inv, TreeInv, ShapeInv
  <2>3. /\ t \in Seq(CallRecords) /\ Len(t) = n /\ DOMAIN t = 1..n
        /\ t[n] = c
        /\ \A i \in 1..(n - 1) : t[i] = calls[i]
    <3>1. /\ t \in Seq(CallRecords) /\ Len(t) = Len(calls) /\ DOMAIN t = DOMAIN calls
          /\ t[Len(calls)] = c
          /\ \A i \in 1..(Len(calls) - 1) : t[i] = calls[i]
      <4>1. calls \in Seq(CallRecords) /\ calls # <<>> /\ c \in CallRecords
        BY <1>2, <1>10, <2>2
      <4> QED BY <4>1, ReplaceIs DEF WithTop
    <3> QED BY <2>2, <3>1
  <2>4. d \in CallRecords /\ d.pid = ppid /\ d.step = "addProcess" /\ d.newProc = Uninitialised
    <3>1. ppid \in Pids \cup {0}
      <4>1. graph[v].pid \in DOMAIN procMap /\ Ppid(v) = procMap[graph[v].pid]
        BY <1>2, <1>3, CallFacts DEF VerticesInv
      <4> QED BY <1>12, <4>1 DEF Inv, ScanInv, SystemInv
    <3> QED BY <3>1 DEF Call, CallRecords
  <2> HIDE DEF t, n, d
  <2>5. /\ calls' \in Seq(CallRecords) /\ Len(calls') = n + 1 /\ DOMAIN calls' = 1..(n + 1)
        /\ calls'[n + 1] = d /\ calls' # <<>>
        /\ \A i \in 1..n : calls'[i] = t[i]
    BY <2>1, <2>2, <2>3, <2>4, PushIs
  <2>6. calls'[n] = c /\ \A i \in 1..(n - 1) : calls'[i] = calls[i]
    BY <2>2, <2>3, <2>5
  <2>7. \A i \in 1..n : calls'[i].pid = calls[i].pid /\ calls[i].pid \in DOMAIN m_pidToIdMap
    <3> TAKE i \in 1..n
    <3>1. CASE i = n
      BY <1>2, <1>6, <1>10, <2>6, <3>1, TopFacts DEF n
    <3>2. CASE i \in 1..(n - 1)
      <4>1. calls[i].step = "addEdge" /\ i \in DOMAIN calls
        BY <1>2, <2>2, <3>2, TopFacts DEF n
      <4>2. calls[i].pid \in DOMAIN m_pidToIdMap
        BY <1>2, <4>1, CallFacts DEF CallInv
      <4> QED BY <2>6, <3>2, <4>2
    <3> QED BY <2>2, <3>1, <3>2
  <2>8. \A i, j \in DOMAIN calls' : i # j => calls'[i].pid # calls'[j].pid
    <3> SUFFICES ASSUME NEW i \in 1..(n + 1), NEW j \in 1..(n + 1), i # j
                 PROVE  calls'[i].pid # calls'[j].pid
      BY <2>5
    <3>1. CASE i \in 1..n /\ j \in 1..n
      BY <2>2, <2>7, <3>1 DEF Inv, TreeInv, ShapeInv
    <3>2. CASE i = n + 1 /\ j \in 1..n
      BY <1>14, <2>4, <2>5, <2>7, <3>2
    <3>3. CASE i \in 1..n /\ j = n + 1
      BY <1>14, <2>4, <2>5, <2>7, <3>3
    <3> QED BY <2>2, <3>1, <3>2, <3>3
  <2>9. ShapeInv' /\ GraphInv' /\ CompleteInv'
    BY <1>2, <2>5, <2>8, CallsShape
  <2>10. Connecting'
    <3> SUFFICES ASSUME NEW w \in Vertices, ~Connected(w)
                 PROVE  \E i \in 1..(n + 1) : calls'[i].newProc = w /\ calls'[i].step # "addProcess"
      BY <1>2, <2>5 DEF Connecting, Connected, Vertices, Ppid
    <3>1. PICK i \in DOMAIN calls : calls[i].newProc = w /\ calls[i].step # "addProcess"
      BY <1>2, CallFacts DEF Connecting
    <3>2. i \in 1..n /\ i \in 1..(n + 1)
      BY <2>2, <3>1
    <3>3. CASE i = n
      BY <1>2, <1>4, <1>5, <1>10, <2>6, <3>1, <3>2, <3>3, TopFacts DEF n
    <3>4. CASE i # n
      <4>1. i \in 1..(n - 1)
        BY <2>2, <3>2, <3>4
      <4> QED BY <2>6, <3>1, <3>2, <4>1
    <3> QED BY <3>3, <3>4
  <2>11. ASSUME NEW i \in DOMAIN calls'
         PROVE  CallInv(i)'
    <3>1. i \in 1..(n + 1)
      BY <2>5
    <3>2. CASE i = n + 1
      BY <2>2, <2>4, <2>5, <3>2 DEF CallInv
    <3>3. CASE i = n
      <4>1. i # Len(calls') /\ calls'[i + 1].pid = Ppid(v) /\ calls'[i] = c
        BY <1>12, <2>2, <2>4, <2>5, <2>6, <3>3
      <4> QED BY <1>2, <1>3, <1>6, <1>10, <1>14, <4>1 DEF CallInv, Vertices, Ppid
    <3>4. CASE i \in 1..(n - 1)
      <4>1. i \in DOMAIN calls /\ i + 1 \in 1..n /\ i < n /\ i # Len(calls')
        BY <2>2, <2>5, <3>4
      <4>2. CallInv(i) /\ i < Len(calls)
        BY <1>2, <4>1, CallFacts DEF n
      <4> QED BY <1>2, <2>6, <2>7, <3>4, <4>1, <4>2 DEF CallInv, Vertices, Ppid
    <3> QED BY <2>2, <3>1, <3>2, <3>3, <3>4
  <2>12. BuildInv'
    BY <1>2, <1>7, <1>8, <2>10, <2>11, CallFacts DEF BuildInv
  <2> QED BY <1>2, <2>9, <2>12, BuildLeavesScan DEF Inv, TreeInv
<1> QED BY <1>9, <1>13, <1>14

\* The new vertex is one more than there are, and the call will connect it.
LEMMA AddNewProcessInv ==
    ASSUME Inv, AddNewProcess
    PROVE  Inv'
<1>0. PICK v : v = Cardinality(Vertices)
  OBVIOUS
<1> DEFINE pid == Top.pid
           n == Len(calls)
           c == [Top EXCEPT !.newProc = v, !.step = "findParent"]
<1>1. /\ phase = "build" /\ phase' = "build" /\ calls # <<>> /\ Top.step = "addProcess"
      /\ pid \notin DOMAIN m_pidToIdMap /\ pid \in DOMAIN procMap
      /\ calls' = WithTop(c)
      /\ UNCHANGED <<scanVars, todo, edges, queryVars>> /\ procMap' = procMap
      /\ scan = "idle" /\ scan' = scan
  BY <1>0, CallFacts DEF AddNewProcess, scanVars, readVars
<1>2. v \in Nat /\ v \notin Vertices /\ v # Uninitialised
  BY <1>0, VerticesAre DEF Uninitialised
<1>3. /\ Vertices' = Vertices \cup {v}
      /\ \A w \in Vertices : graph'[w] = graph[w]
      /\ graph'[v].pid = pid /\ Ppid(v)' = procMap[pid]
  <2>1. graph' = [w \in Vertices \cup {v} |->
                     IF w = v THEN [pid |-> pid, ppid |-> procMap[pid]] ELSE graph[w]]
    BY <1>0 DEF AddNewProcess
  <2>2. DOMAIN graph' = Vertices \cup {v}
    BY <2>1
  <2>3. \A w \in Vertices : graph'[w] = graph[w]
    BY <1>2, <2>1
  <2>4. graph'[v] = [pid |-> pid, ppid |-> procMap[pid]]
    BY <2>1
  <2>5. Vertices' = Vertices \cup {v}
    BY <2>2 DEF Vertices
  <2>6. graph'[v].pid = pid /\ graph'[v].ppid = procMap[pid]
    BY <2>4
  <2> QED BY <2>3, <2>5, <2>6 DEF Ppid
<1>4. /\ DOMAIN m_pidToIdMap' = DOMAIN m_pidToIdMap \cup {pid}
      /\ \A p \in DOMAIN m_pidToIdMap : m_pidToIdMap'[p] = m_pidToIdMap[p]
      /\ m_pidToIdMap'[pid] = v
  <2>1. m_pidToIdMap' = [p \in DOMAIN m_pidToIdMap \cup {pid} |->
                            IF p = pid THEN v ELSE m_pidToIdMap[p]]
    BY <1>0 DEF AddNewProcess
  <2> QED BY <1>1, <2>1
<1>5. pid \in Pids /\ Top \in CallRecords
  BY <1>1, TopFacts DEF Inv, ScanInv, ScanTypeOK
<1>6. CallRecords \subseteq CallRecords' /\ c \in CallRecords'
  BY <1>3, <1>5 DEF CallRecords
<1>7. c.pid = pid /\ c.newProc = v /\ c.step = "findParent"
  BY <1>5 DEF CallRecords
<1> HIDE DEF c, pid
<1>8. /\ calls' \in Seq(CallRecords') /\ Len(calls') = n /\ DOMAIN calls' = DOMAIN calls
      /\ calls'[n] = c
      /\ \A i \in 1..(n - 1) : calls'[i] = calls[i]
      /\ DOMAIN calls = 1..n /\ n \in Nat \ {0}
  <2>1. calls \in Seq(CallRecords)
    BY DEF Inv, TreeInv, ShapeInv
  <2>2. calls \in Seq(CallRecords')
    BY <1>6, <2>1, SeqLarger
  <2>3. /\ WithTop(c) \in Seq(CallRecords') /\ Len(WithTop(c)) = Len(calls)
        /\ DOMAIN WithTop(c) = DOMAIN calls /\ WithTop(c)[Len(calls)] = c
        /\ \A i \in 1..(Len(calls) - 1) : WithTop(c)[i] = calls[i]
    BY <1>1, <1>6, <2>2, ReplaceIs DEF WithTop
  <2> QED BY <1>1, <2>3, TopFacts
<1>9. \A i \in DOMAIN calls : calls'[i].pid = calls[i].pid
  <2>1. calls[n].pid = pid
    BY <1>1, TopFacts DEF pid
  <2> QED BY <1>7, <1>8, <2>1
<1>10. \A i \in 1..(n - 1) : /\ i \in DOMAIN calls /\ i + 1 \in DOMAIN calls /\ i < n
                             /\ calls[i].step = "addEdge"
  BY <1>1, <1>8, TopFacts
<1> HIDE DEF n
<1>11. Ppid(v)' = procMap[graph'[v].pid] /\ \A w \in Vertices : Ppid(w)' = Ppid(w)
  BY <1>3 DEF Ppid
<1>12. ShapeInv'
  <2>1. IsFiniteSet(Vertices') /\ Vertices' = 0..(Cardinality(Vertices') - 1)
    <3>1. IsFiniteSet(Vertices)
      BY DEF Inv, TreeInv, ShapeInv
    <3>2. IsFiniteSet(Vertices') /\ Cardinality(Vertices') = v + 1
      BY <1>2, <1>3, <3>1, <1>0, FS_AddElement
    <3>3. \A w \in Nat : w \in Vertices <=> w < v
      BY <1>0, VerticesAre
    <3>4. Vertices' = 0..v
      BY <1>2, <1>3, <3>3, VerticesAre
    <3> QED BY <1>2, <3>2, <3>4
  <2>2. \A p \in DOMAIN m_pidToIdMap' : m_pidToIdMap'[p] \in Vertices'
    BY <1>3, <1>4 DEF Inv, TreeInv, ShapeInv
  <2>3. edges' \in Seq(Vertices' \X Vertices')
    <3>1. edges \in Seq(Vertices \X Vertices)
      BY DEF Inv, TreeInv, ShapeInv
    <3>2. Vertices \X Vertices \subseteq Vertices' \X Vertices'
      BY <1>3
    <3> QED BY <1>1, <3>1, <3>2, SeqLarger
  <2>4. \A i, j \in DOMAIN calls' : i # j => calls'[i].pid # calls'[j].pid
    BY <1>8, <1>9 DEF Inv, TreeInv, ShapeInv
  <2>5. descents' = <<>> /\ descents' \in Seq(DescentRecords') /\ result' = result
        /\ Len(descents') <= StackSize
    BY <1>1, StackAssumption DEF Inv, TreeInv, ShapeInv, queryVars
  <2> QED BY <1>1, <1>8, <2>1, <2>2, <2>3, <2>4, <2>5 DEF Inv, TreeInv, ShapeInv
<1>13. GraphInv'
  <2>1. VerticesInv'
    <3>1. ASSUME NEW w \in Vertices
          PROVE  /\ graph'[w].pid \in DOMAIN procMap' /\ Ppid(w)' = procMap'[graph'[w].pid]
                 /\ graph'[w].pid \in DOMAIN m_pidToIdMap' /\ m_pidToIdMap'[graph'[w].pid] = w
      <4>1. /\ graph[w].pid \in DOMAIN procMap /\ Ppid(w) = procMap[graph[w].pid]
            /\ graph[w].pid \in DOMAIN m_pidToIdMap /\ m_pidToIdMap[graph[w].pid] = w
        BY <1>1, CallFacts DEF VerticesInv
      <4> QED BY <1>1, <1>3, <1>4, <1>11, <4>1
    <3>2. /\ graph'[v].pid \in DOMAIN procMap' /\ Ppid(v)' = procMap'[graph'[v].pid]
          /\ graph'[v].pid \in DOMAIN m_pidToIdMap' /\ m_pidToIdMap'[graph'[v].pid] = v
      BY <1>1, <1>3, <1>4
    <3> QED BY <1>3, <3>1, <3>2 DEF VerticesInv
  <2>2. IdsInv'
    <3>1. \A p \in DOMAIN m_pidToIdMap : m_pidToIdMap[p] \in Vertices
      BY DEF Inv, TreeInv, ShapeInv
    <3> QED BY <1>1, <1>3, <1>4, <3>1, CallFacts DEF IdsInv
  <2>3. EdgesInv'
    <3>1. ASSUME NEW i \in DOMAIN edges
          PROVE  edges[i][2] \in Vertices
      BY DEF Inv, TreeInv, ShapeInv
    <3> QED BY <1>1, <1>3, <1>4, <1>11, <3>1, CallFacts DEF EdgesInv
  <2>4. 0 \in Vertices' => graph'[0].pid = Min(DOMAIN procMap')
    <3>1. CASE Vertices = {}
      <4>1. calls = <<Call(Min(DOMAIN procMap))>>
        BY <1>1, <3>1, CallFacts DEF FirstComes
      <4>2. pid = Min(DOMAIN procMap)
        <5>1. Len(calls) = 1 /\ calls[1] = Call(Min(DOMAIN procMap))
          BY <4>1
        <5> QED BY <1>1, <5>1, TopFacts DEF Call, pid
      <4> QED BY <1>1, <1>3, <3>1, <4>2
    <3>2. CASE Vertices # {}
      <4>1. 0 \in Vertices
        BY <3>2, VerticesAre
      <4> QED BY <1>1, <1>3, <4>1, CallFacts
    <3> QED BY <3>1, <3>2
  <2> QED BY <2>1, <2>2, <2>3, <2>4 DEF GraphInv
<1>14. CompleteInv'
  BY <1>1 DEF CompleteInv
<1>15. BuildInv'
  <2>1. Expected'
    BY <1>1, <1>4, CallFacts DEF Expected, pid
  <2>2. Connecting'
    <3>1. ASSUME NEW w \in Vertices
          PROVE  \/ Connected(w)'
                 \/ \E i \in DOMAIN calls' : calls'[i].newProc = w /\ calls'[i].step # "addProcess"
      <4>1. CASE Connected(w)
        BY <1>1, <1>3, <1>4, <1>11, <4>1 DEF Connected
      <4>2. CASE ~Connected(w)
        <5>1. PICK i \in DOMAIN calls : calls[i].newProc = w /\ calls[i].step # "addProcess"
          BY <1>1, <4>2, CallFacts DEF Connecting
        <5>2. i \in 1..(n - 1)
          BY <1>1, <1>8, <5>1, TopFacts DEF n
        <5> QED BY <1>8, <5>1, <5>2
      <4> QED BY <4>1, <4>2
    <3>2. \E i \in DOMAIN calls' : calls'[i].newProc = v /\ calls'[i].step # "addProcess"
      BY <1>7, <1>8
    <3> QED BY <1>3, <3>1, <3>2 DEF Connecting
  <2>3. FirstComes'
    BY <1>3 DEF FirstComes
  <2>4. ASSUME NEW i \in DOMAIN calls
        PROVE  CallInv(i)'
    <3>1. CASE i = n
      BY <1>4, <1>7, <1>8, <3>1 DEF CallInv
    <3>2. CASE i # n
      <4>1. i \in 1..(n - 1)
        BY <1>8, <3>2
      <4>2. CallInv(i) /\ i < Len(calls)
        BY <1>1, <1>10, <4>1, CallFacts DEF n
      <4>3. calls[i].newProc \in Vertices
        BY <1>10, <4>1, <4>2 DEF CallInv
      <4> QED BY <1>1, <1>3, <1>4, <1>8, <1>9, <1>10, <1>11, <4>1, <4>2, <4>3 DEF CallInv
    <3> QED BY <3>1, <3>2
  <2> QED BY <1>1, <1>8, <2>1, <2>2, <2>3, <2>4, CallFacts DEF BuildInv
<1> QED BY <1>1, <1>12, <1>13, <1>14, <1>15, BuildLeavesScan DEF Inv, TreeInv

\* The edge from the parent, or from the first vertex if there is no such parent.
LEMMA AddEdgeInv ==
    ASSUME Inv, AddEdge
    PROVE  Inv'
<1> DEFINE v == Top.newProc
           ppid == graph[v].ppid
           ids == [p \in DOMAIN m_pidToIdMap \cup {ppid} |->
                      IF p \in DOMAIN m_pidToIdMap THEN m_pidToIdMap[p] ELSE 0]
           e == <<ids[ppid], v>>
<1>1. /\ phase = "build" /\ phase' = "build" /\ calls # <<>> /\ Top.step = "addEdge"
      /\ m_pidToIdMap' = ids /\ calls' = Front(calls)
      /\ edges' = IF Contains(edges, e) THEN edges ELSE Append(edges, e)
      /\ UNCHANGED <<scanVars, todo, graph, queryVars>> /\ procMap' = procMap
      /\ scan = "idle" /\ scan' = scan
  BY CallFacts DEF AddEdge, scanVars, readVars
<1>2. /\ v \in Vertices /\ graph[v].pid # 0 /\ ppid = Ppid(v)
      /\ ppid \in DOMAIN m_pidToIdMap \/ ppid \notin DOMAIN procMap
      /\ Top.pid \in DOMAIN m_pidToIdMap
  <2>1. CallInv(Len(calls)) /\ Top = calls[Len(calls)]
    BY <1>1, CallFacts, TopFacts
  <2> QED BY <1>1, <2>1 DEF CallInv, Ppid
<1> HIDE DEF v, ppid
<1>3. /\ DOMAIN ids = DOMAIN m_pidToIdMap \cup {ppid}
      /\ \A p \in DOMAIN m_pidToIdMap : ids[p] = m_pidToIdMap[p]
      /\ ppid \notin DOMAIN m_pidToIdMap => ids[ppid] = 0
  OBVIOUS
<1> HIDE DEF ids
<1>4. 0 \in Vertices
  BY <1>2, VerticesAre
<1>5. \A p \in DOMAIN ids : ids[p] \in Vertices
  BY <1>3, <1>4 DEF Inv, TreeInv, ShapeInv
<1>6. e \in Vertices \X Vertices /\ e[1] = ids[ppid] /\ e[2] = v
  BY <1>2, <1>3, <1>5
<1> HIDE DEF e
<1>7. /\ edges' \in Seq(Vertices \X Vertices)
      /\ \A i \in DOMAIN edges : i \in DOMAIN edges' /\ edges'[i] = edges[i]
      /\ \A i \in DOMAIN edges' : (i \in DOMAIN edges /\ edges'[i] = edges[i]) \/ edges'[i] = e
      /\ \E i \in DOMAIN edges' : edges'[i] = e
  <2>1. edges \in Seq(Vertices \X Vertices)
    BY DEF Inv, TreeInv, ShapeInv
  <2>2. CASE Contains(edges, e)
    <3>1. edges' = edges
      BY <1>1, <2>2
    <3>2. \E i \in DOMAIN edges : edges[i] = e
      BY <2>1, <2>2 DEF Contains
    <3> QED BY <2>1, <3>1, <3>2
  <2>3. CASE ~Contains(edges, e)
    <3> DEFINE t == Append(edges, e)
    <3>1. edges' = t
      BY <1>1, <2>3
    <3>2. /\ t \in Seq(Vertices \X Vertices) /\ DOMAIN t = 1..(Len(edges) + 1) /\ Len(edges) \in Nat
          /\ t[Len(edges) + 1] = e /\ \A i \in 1..Len(edges) : t[i] = edges[i]
      BY <1>6, <2>1, PushIs
    <3>3. DOMAIN edges = 1..Len(edges)
      BY <2>1
    <3> HIDE DEF t
    <3>4. /\ \A i \in DOMAIN edges : i \in DOMAIN t /\ t[i] = edges[i]
          /\ \A i \in DOMAIN t : (i \in DOMAIN edges /\ t[i] = edges[i]) \/ t[i] = e
          /\ Len(edges) + 1 \in DOMAIN t
      BY <3>2, <3>3
    <3> QED BY <3>1, <3>2, <3>4
  <2> QED BY <2>2, <2>3
<1>8. /\ calls \in Seq(CallRecords) /\ calls' \in Seq(CallRecords) /\ Len(calls') = Len(calls) - 1
      /\ DOMAIN calls' = 1..(Len(calls) - 1)
      /\ \A i \in 1..(Len(calls) - 1) : calls'[i] = calls[i] /\ i \in DOMAIN calls
  <2>1. \A i \in 1..(Len(calls) - 1) : i \in DOMAIN calls
    BY <1>1, TopFacts
  <2>2. \A i \in 1..(Len(calls) - 1) : calls'[i] = calls[i]
    BY <1>1, TopFacts
  <2>3. calls' \in Seq(CallRecords) /\ Len(calls') = Len(calls) - 1
    BY <1>1, TopFacts
  <2>4. DOMAIN calls' = 1..(Len(calls) - 1)
    BY <1>1, TopFacts
  <2> QED BY <2>1, <2>2, <2>3, <2>4 DEF Inv, TreeInv, ShapeInv
<1>9. Vertices' = Vertices /\ \A w : Ppid(w)' = Ppid(w)
  BY <1>1 DEF Vertices, Ppid
<1>10. ShapeInv'
  <2>1. CallRecords' = CallRecords
    BY <1>9 DEF CallRecords
  <2>2. \A i, j \in DOMAIN calls' : i # j => calls'[i].pid # calls'[j].pid
    BY <1>8 DEF Inv, TreeInv, ShapeInv
  <2>3. descents' = <<>> /\ descents' \in Seq(DescentRecords') /\ result' = result
        /\ Len(descents') <= StackSize
    BY <1>1, StackAssumption DEF Inv, TreeInv, ShapeInv, queryVars
  <2>4. \A p \in DOMAIN m_pidToIdMap' : m_pidToIdMap'[p] \in Vertices'
    BY <1>1, <1>5, <1>9
  <2> QED BY <1>1, <1>7, <1>8, <1>9, <2>1, <2>2, <2>3, <2>4 DEF Inv, TreeInv, ShapeInv
<1>11. GraphInv'
  <2>1. VerticesInv'
    BY <1>1, <1>3, <1>9, CallFacts DEF VerticesInv
  <2>2. IdsInv'
    BY <1>1, <1>2, <1>3, CallFacts DEF IdsInv
  <2>3. EdgesInv'
    <3>1. ASSUME NEW i \in DOMAIN edges'
          PROVE  /\ graph[edges'[i][2]].pid # 0
                 /\ Ppid(edges'[i][2]) \in DOMAIN ids
                 /\ edges'[i][1] = ids[Ppid(edges'[i][2])]
      <4>1. CASE i \in DOMAIN edges /\ edges'[i] = edges[i]
        BY <1>1, <1>3, <4>1, CallFacts DEF EdgesInv
      <4>2. CASE edges'[i] = e
        BY <1>2, <1>3, <1>6, <4>2
      <4> QED BY <1>7, <4>1, <4>2
    <3> QED BY <1>1, <1>9, <3>1 DEF EdgesInv
  <2> QED BY <1>1, <1>9, <2>1, <2>2, <2>3, CallFacts DEF GraphInv
<1>12. CompleteInv'
  BY <1>1 DEF CompleteInv
<1>13. BuildInv'
  <2>1. Expected'
    BY <1>1, <1>3, CallFacts DEF Expected
  <2>2. ASSUME NEW w \in Vertices, Connected(w) \/ w = v
        PROVE  Connected(w)'
    <3>1. CASE w = v
      <4>1. PICK i \in DOMAIN edges' : edges'[i] = e
        BY <1>7
      <4>2. e = <<ids[Ppid(v)], v>>
        BY <1>2 DEF e
      <4>3. Ppid(v) \in DOMAIN ids
        BY <1>2, <1>3
      <4> QED BY <1>1, <1>9, <3>1, <4>1, <4>2, <4>3 DEF Connected
    <3>2. CASE Connected(w) /\ graph[w].pid = 0
      BY <1>1, <3>2 DEF Connected
    <3>3. CASE Connected(w) /\ graph[w].pid # 0
      <4>1. Ppid(w) \in DOMAIN m_pidToIdMap /\ ids[Ppid(w)] = m_pidToIdMap[Ppid(w)]
            /\ Ppid(w) \in DOMAIN ids
        BY <1>3, <3>3 DEF Connected
      <4>2. PICK i \in DOMAIN edges : edges[i] = <<m_pidToIdMap[Ppid(w)], w>>
        BY <3>3 DEF Connected
      <4>3. i \in DOMAIN edges' /\ edges'[i] = <<ids[Ppid(w)], w>>
        BY <1>7, <4>1, <4>2
      <4> QED BY <1>1, <1>9, <4>1, <4>3 DEF Connected
    <3> QED BY <2>2, <3>1, <3>2, <3>3
  <2>3. Connecting'
    <3> SUFFICES ASSUME NEW w \in Vertices, ~Connected(w), w # v
                 PROVE  \E i \in DOMAIN calls' : calls'[i].newProc = w /\ calls'[i].step # "addProcess"
      BY <1>9, <2>2 DEF Connecting
    <3>1. PICK i \in DOMAIN calls : calls[i].newProc = w /\ calls[i].step # "addProcess"
      BY <1>1, CallFacts DEF Connecting
    <3>2. i \in 1..(Len(calls) - 1)
      BY <1>1, <3>1, TopFacts DEF v
    <3> QED BY <1>8, <3>1, <3>2
  <2>4. FirstComes'
    BY <1>4, <1>9 DEF FirstComes
  <2>5. ASSUME NEW i \in DOMAIN calls'
        PROVE  CallInv(i)'
    <3>1. i \in 1..(Len(calls) - 1) /\ i \in DOMAIN calls /\ calls'[i] = calls[i]
      BY <1>8
    <3>2. CallInv(i) /\ calls[i].step = "addEdge" /\ calls[i + 1].pid = Ppid(calls[i].newProc)
      BY <1>1, <3>1, CallFacts, TopFacts
    <3>3. i \in Nat /\ i < Len(calls) /\ Len(calls) \in Nat
      BY <1>1, <3>1, TopFacts
    <3>4. CASE i = Len(calls) - 1
      <4>1. Top.pid = Ppid(calls[i].newProc) /\ i = Len(calls')
        BY <1>1, <1>8, <3>2, <3>3, <3>4, TopFacts
      <4> QED BY <1>1, <1>2, <1>3, <1>9, <3>1, <3>2, <4>1 DEF CallInv
    <3>5. CASE i # Len(calls) - 1
      <4>1. i + 1 \in 1..(Len(calls) - 1) /\ i # Len(calls')
        BY <1>8, <3>3, <3>5
      <4>2. calls'[i + 1] = calls[i + 1]
        BY <1>8, <4>1
      <4> QED BY <1>1, <1>3, <1>9, <3>1, <3>2, <4>1, <4>2 DEF CallInv
    <3> QED BY <3>4, <3>5
  <2> QED BY <1>1, <2>1, <2>3, <2>4, <2>5, CallFacts DEF BuildInv
<1> QED BY <1>1, <1>10, <1>11, <1>12, <1>13, BuildLeavesScan DEF Inv, TreeInv

LEMMA ReadCrashesInv ==
    ASSUME Inv, ReadCrashes
    PROVE  Inv'
<1>1. phase = "build" /\ phase' = "crashed" /\ UNCHANGED <<scanVars, buildVars, queryVars>>
  BY DEF ReadCrashes
<1>2. ShapeInv'
  BY <1>1 DEF Inv, TreeInv, ShapeInv, scanVars, readVars, buildVars, queryVars, CallRecords,
     DescentRecords, Vertices
<1>3. GraphInv' /\ BuildInv' /\ CompleteInv'
  BY <1>1 DEF GraphInv, BuildInv, CompleteInv
<1> QED BY <1>1, <1>2, <1>3, BuildLeavesScan DEF Inv, TreeInv

LEMMA ClearInv ==
    ASSUME Inv, Clear
    PROVE  Inv'
<1>1. /\ scan = "filled" /\ scan' = "idle" /\ phase' = "build" /\ todo' = DOMAIN procMap
      /\ graph' = <<>> /\ edges' = <<>> /\ m_pidToIdMap' = <<>> /\ procMap' = procMap
      /\ UNCHANGED <<calls, queryVars>>
      /\ UNCHANGED <<host, procMap, position, listed, room, worldVars>>
  BY DEF Clear
<1>2. phase = "ready" /\ calls' = <<>> /\ descents' = <<>> /\ result' \subseteq Pids
  BY <1>1 DEF Inv, TreeInv, ShapeInv, queryVars
<1>3. Vertices' = {} /\ DOMAIN m_pidToIdMap' = {} /\ DOMAIN edges' = {} /\ DOMAIN calls' = {}
  BY <1>1, <1>2 DEF Vertices
<1>4. ScanInv'
  BY <1>1, ScanInvUnchanged DEF Inv
<1>5. ShapeInv'
  <2>1. IsFiniteSet({}) /\ Cardinality({}) = 0
    BY FS_EmptySet
  <2>2. {} = 0..(0 - 1)
    OBVIOUS
  <2>3. Len(descents') <= StackSize
    BY <1>2, StackAssumption
  <2> QED BY <1>1, <1>2, <1>3, <2>1, <2>2, <2>3 DEF ShapeInv
<1>6. GraphInv'
  BY <1>3 DEF GraphInv, VerticesInv, IdsInv, EdgesInv
<1>7. BuildInv'
  <2>1. Expected' /\ Connecting' /\ FirstComes'
    BY <1>1, <1>2, <1>3 DEF Expected, Connecting, FirstComes
  <2> QED BY <1>1, <1>3, <2>1 DEF BuildInv
<1>8. CompleteInv' /\ QueryInv'
  BY <1>1 DEF CompleteInv, QueryInv
<1> QED BY <1>4, <1>5, <1>6, <1>7, <1>8 DEF Inv, TreeInv

LEMMA ScanStepInv ==
    ASSUME Inv, Scan
    PROVE  Inv'
<1>1. ScanInv' /\ UNCHANGED <<buildVars, descents>>
  BY ScanInvScan DEF Inv, Scan
<1>2. \/ phase' = "ready" /\ result' = {} /\ (scan' # "idle" \/ procMap' = procMap)
      \/ phase' = phase /\ phase = "ready" /\ result' = result /\ scan' # "idle"
  <2>1. CASE BeginScan /\ phase' = "ready" /\ result' = {}
    BY <2>1 DEF BeginScan, OpenProc, BeginSysctl, KinfoGetallproc, KinfoFails, readVars
  <2>2. CASE (World \/ ScanSteps \/ ScanFails) /\ UNCHANGED <<phase, query, result>>
    <3>1. scan = "reading"
      BY <2>2 DEF World, Fork, Exit, ScanSteps, ScanLinux, ReadDirectory, ReadStat,
         EndOfDirectory, ScanMac, AskSize, NoMemory, GetList, ScanFails, IterationFails,
         SysctlFails
    <3>2. scan' \in {"reading", "filled"}
      BY <2>2, <3>1 DEF World, Fork, Exit, ScanSteps, ScanLinux, ReadDirectory, ReadStat,
         EndOfDirectory, ScanMac, AskSize, NoMemory, GetList, ScanFails, IterationFails,
         SysctlFails, readVars
    <3> QED BY <2>2, <3>1, <3>2 DEF Inv, TreeInv, ShapeInv
  <2> QED BY <2>1, <2>2 DEF Scan
<1>3. phase \in {"ready", "answered"} /\ calls = <<>> /\ descents = <<>>
  BY DEF Scan, Inv, TreeInv, ShapeInv
<1>4. ShapeInv'
  <2>1. CallRecords' = CallRecords /\ DescentRecords' = DescentRecords
    BY <1>1 DEF CallRecords, DescentRecords, Vertices, buildVars
  <2>2. result' \subseteq Pids
    BY <1>2 DEF Inv, TreeInv, ShapeInv
  <2> QED BY <1>1, <1>2, <1>3, <2>1, <2>2 DEF Inv, TreeInv, ShapeInv, buildVars, Vertices
<1>5. CASE scan' # "idle"
  BY <1>1, <1>2, <1>4, <1>5 DEF Inv, TreeInv, GraphInv, BuildInv, CompleteInv, QueryInv
<1>6. CASE scan' = "idle"
  <2>1. scan = "idle" /\ procMap' = procMap
    BY <1>2, <1>6 DEF Scan, BeginScan, OpenProc, BeginSysctl, KinfoGetallproc, KinfoFails,
       World, Fork, Exit, ScanSteps, ScanLinux, ReadDirectory, ReadStat, EndOfDirectory,
       ScanMac, AskSize, NoMemory, GetList, ScanFails, IterationFails, SysctlFails, readVars
  <2>2. GraphInv' /\ CompleteInv'
    BY <1>1, <1>3, <1>2, <1>6, <2>1 DEF Inv, TreeInv, GraphInv, VerticesInv, IdsInv, EdgesInv,
       CompleteInv, Connected, Ppid, Vertices, buildVars
  <2>3. BuildInv' /\ QueryInv'
    BY <1>2, <1>6 DEF BuildInv, QueryInv
  <2> QED BY <1>1, <1>4, <2>2, <2>3 DEF Inv, TreeInv
<1> QED BY <1>5, <1>6

-----------------------------------------------------------------------------
(* The look-up                                                             *)

LEMMA LookupFacts ==
    ASSUME Inv, scan = "idle", phase \in {"ready", "query", "answered"}
    PROVE  /\ VerticesInv /\ IdsInv /\ EdgesInv
           /\ 0 \in Vertices => graph[0].pid = Min(DOMAIN procMap)
           /\ DOMAIN procMap \subseteq DOMAIN m_pidToIdMap
           /\ \A v \in Vertices : Connected(v)
           /\ \A p \in DOMAIN m_pidToIdMap : m_pidToIdMap[p] \in Vertices
           /\ edges \in Seq(Vertices \X Vertices) /\ descents \in Seq(DescentRecords)
           /\ IsFiniteSet(DOMAIN procMap) /\ DOMAIN procMap \subseteq Pids
           /\ calls = <<>>
BY FiniteMaps DEF Inv, ScanInv, ScanTypeOK, TreeInv, ShapeInv, GraphInv, CompleteInv

\* A look-up changes none of the rest.
LEMMA LookupLeaves ==
    ASSUME Inv, UNCHANGED <<scanVars, buildVars>>, scan = "idle",
           phase \in {"ready", "query"}, phase' \in {"query", "answered", "crashed"},
           descents' \in Seq(DescentRecords), Len(descents') <= StackSize, result' \subseteq Pids,
           phase' = "answered" => descents' = <<>>
    PROVE  ScanInv' /\ TreeInv'
<1>1. ScanInv'
  BY ScanInvUnchanged DEF Inv, scanVars, readVars
<1>2. ShapeInv'
  <2>1. CallRecords' = CallRecords /\ DescentRecords' = DescentRecords /\ scan' = scan
    BY DEF CallRecords, DescentRecords, Vertices, buildVars, scanVars, readVars
  <2> QED BY <2>1 DEF Inv, TreeInv, ShapeInv, Vertices, buildVars
<1>3. GraphInv' /\ CompleteInv'
  BY DEF Inv, TreeInv, GraphInv, VerticesInv, IdsInv, EdgesInv, CompleteInv, Connected, Ppid,
     Vertices, buildVars, scanVars, readVars
<1>4. BuildInv'
  BY DEF BuildInv
<1> QED BY <1>1, <1>2, <1>3, <1>4 DEF TreeInv

\* There is no edge to the first vertex but those from itself.
LEMMA NoneAboveFirst ==
    ASSUME Inv, scan = "idle", phase \in {"ready", "query", "answered"},
           NEW i \in DOMAIN edges, edges[i][1] # 0
    PROVE  edges[i][2] # 0
<1> SUFFICES ASSUME edges[i][2] = 0
             PROVE  FALSE
  OBVIOUS
<1>1. 0 \in Vertices /\ edges[i][1] \in Vertices
  BY LookupFacts
<1>2. /\ graph[0].pid # 0 /\ Ppid(0) \in DOMAIN m_pidToIdMap
      /\ edges[i][1] = m_pidToIdMap[Ppid(0)]
  BY LookupFacts DEF EdgesInv
<1>3. graph[0].pid = Min(DOMAIN procMap) /\ graph[0].pid \in DOMAIN procMap
      /\ Ppid(0) = procMap[graph[0].pid]
  BY <1>1, LookupFacts DEF VerticesInv
<1>4. DOMAIN procMap \subseteq Nat
  BY FiniteMaps DEF Inv, ScanInv, ScanTypeOK
<1>5. \A p \in DOMAIN procMap : graph[0].pid <= p
  BY <1>3, <1>4, MinIsIn
<1>6. 1 \in DOMAIN procMap /\ procMap[1] = 0
  BY <1>3 DEF Inv, ScanInv, RootInv
<1>7. graph[0].pid = 1
  BY <1>2, <1>3, <1>4, <1>5, <1>6
<1>8. 0 \notin DOMAIN procMap
  BY <1>5, <1>7
<1>9. Ppid(0) = 0 /\ m_pidToIdMap[0] = 0
  BY <1>2, <1>3, <1>6, <1>7, <1>8, LookupFacts DEF IdsInv
<1> QED BY <1>2, <1>9

\* An edge from another vertex is one from a process to its child.
LEMMA EdgeIsChild ==
    ASSUME Inv, scan = "idle", phase \in {"ready", "query", "answered"},
           NEW i \in DOMAIN edges, edges[i][1] # 0
    PROVE  LET p == graph[edges[i][1]].pid
               q == graph[edges[i][2]].pid
           IN  q \in DOMAIN procMap /\ procMap[q] = p /\ p \in DOMAIN procMap
<1> DEFINE v == edges[i][1]
           w == edges[i][2]
<1>1. v \in Vertices /\ w \in Vertices
  BY LookupFacts
<1>2. Ppid(w) \in DOMAIN m_pidToIdMap /\ v = m_pidToIdMap[Ppid(w)]
  BY LookupFacts DEF EdgesInv
<1>3. graph[w].pid \in DOMAIN procMap /\ Ppid(w) = procMap[graph[w].pid]
  BY <1>1, LookupFacts DEF VerticesInv
<1>4. Ppid(w) \in DOMAIN procMap /\ graph[v].pid = Ppid(w)
  BY <1>2, LookupFacts DEF IdsInv
<1> QED BY <1>3, <1>4

LEMMA FetchDescendantsInv ==
    ASSUME Inv, NEW pid \in Pids, FetchDescendants(pid)
    PROVE  Inv'
<1>1. /\ phase = "ready" /\ scan = "idle" /\ query' = pid /\ result' = {}
      /\ UNCHANGED <<scanVars, buildVars>>
      /\ procMap' = procMap /\ graph' = graph /\ edges' = edges /\ m_pidToIdMap' = m_pidToIdMap
  BY DEF FetchDescendants, scanVars, readVars, buildVars
<1>2. CASE pid \notin DOMAIN m_pidToIdMap
  <2>1. phase' = "answered" /\ descents' = <<>>
    BY <1>2 DEF FetchDescendants
  <2>2. descents' \in Seq(DescentRecords) /\ Len(descents') <= StackSize
    BY <2>1, StackAssumption
  <2>3. ScanInv' /\ TreeInv'
    BY <1>1, <2>1, <2>2, LookupLeaves
  <2>4. QueryInv'
    BY <1>1, <1>2, <2>1 DEF QueryInv
  <2> QED BY <2>3, <2>4 DEF Inv
<1>3. CASE pid \in DOMAIN m_pidToIdMap
  <2> DEFINE v == m_pidToIdMap[pid]
  <2>1. phase' = "query" /\ descents' = <<Descent(v)>>
    BY <1>3 DEF FetchDescendants
  <2>2. v \in Vertices
    BY <1>1, <1>3, LookupFacts
  <2>3. Descent(v) \in DescentRecords
    BY <2>2 DEF DescentRecords, Descent, OutEdges
  <2>4. descents' \in Seq(DescentRecords) /\ Len(descents') <= StackSize /\ DOMAIN descents' = {1}
        /\ descents'[1].vertex = v /\ descents'[1].left = OutEdges(v)
    <3>1. Len(descents') = 1
      BY <2>1
    <3>2. Len(descents') <= StackSize
      BY <3>1, StackAssumption
    <3>3. descents'[1] = Descent(v) /\ DOMAIN descents' = {1}
      BY <2>1
    <3>4. descents' \in Seq(DescentRecords)
      <4> DEFINE d == Descent(v)
      <4>1. d \in DescentRecords /\ descents' = <<d>>
        BY <2>1, <2>3
      <4> HIDE DEF d
      <4> QED BY <4>1
    <3> QED BY <3>2, <3>3, <3>4 DEF Descent
  <2>5. ScanInv' /\ TreeInv'
    BY <1>1, <2>1, <2>4, LookupLeaves
  <2>6. QueryInv'
    <3> SUFFICES ASSUME v # 0
                 PROVE  /\ graph[v].pid \in {} \cup {pid}
                        /\ \A e \in DOMAIN edges :
                               graph[edges[e][1]].pid \in {} \cup {pid} => e \in OutEdges(v)
      BY <1>1, <1>3, <2>1, <2>4 DEF QueryInv, Met, OutEdges
    <3>1. graph[v].pid = pid
      BY <1>1, <1>3, LookupFacts DEF IdsInv
    <3>2. ASSUME NEW e \in DOMAIN edges, graph[edges[e][1]].pid = pid
          PROVE  e \in OutEdges(v)
      <4>1. edges[e][1] \in Vertices
        BY <1>1, LookupFacts
      <4>2. m_pidToIdMap[graph[edges[e][1]].pid] = edges[e][1]
        BY <1>1, <4>1, LookupFacts DEF VerticesInv
      <4> QED BY <3>2, <4>2 DEF OutEdges
    <3> QED BY <3>1, <3>2
  <2> QED BY <2>5, <2>6 DEF Inv
<1> QED BY <1>2, <1>3

\* A child is found, and its children are left to be.
LEMMA DescendInv ==
    ASSUME Inv, Descend
    PROVE  Inv'
<1>1. /\ phase = "query" /\ phase' = "query" /\ descents # <<>> /\ Len(descents) < StackSize
      /\ Last(descents).left # {} /\ scan = "idle" /\ query' = query
      /\ UNCHANGED <<scanVars, buildVars>>
      /\ procMap' = procMap /\ graph' = graph /\ edges' = edges /\ m_pidToIdMap' = m_pidToIdMap
  BY DEF Descend, Inv, TreeInv, ShapeInv, scanVars, readVars, buildVars
<1>2. PICK n : n = Len(descents)
  OBVIOUS
<1>3. PICK d : d = Last(descents)
  OBVIOUS
<1>4. PICK e : e = Eit
  OBVIOUS
<1>5. PICK c : c = SubProc
  OBVIOUS
<1>6. /\ descents \in Seq(DescentRecords) /\ n \in Nat \ {0} /\ DOMAIN descents = 1..n
      /\ d = descents[n] /\ d \in DescentRecords
  <2>1. descents \in Seq(DescentRecords)
    BY <1>1, LookupFacts
  <2> QED BY <1>1, <1>2, <1>3, <2>1, StackIs
<1>7. e \in d.left /\ e \in DOMAIN edges /\ c = edges[e][2] /\ c \in Vertices
  <2>1. edges \in Seq(Vertices \X Vertices)
    BY <1>1, LookupFacts
  <2>2. d.left \subseteq DOMAIN edges /\ d.left # {} /\ d.left \subseteq Nat
    <3>1. d.left \subseteq DOMAIN edges
      BY <1>6 DEF DescentRecords
    <3>2. DOMAIN edges \subseteq Nat
      BY <2>1
    <3> QED BY <1>1, <1>3, <3>1, <3>2
  <2>3. e = Min(d.left) /\ c = edges[e][2]
    BY <1>3, <1>4, <1>5 DEF Eit, SubProc
  <2>4. e \in d.left
    BY <2>2, <2>3, MinIsIn
  <2> QED BY <2>1, <2>2, <2>3, <2>4
<1> DEFINE rest == [d EXCEPT !.left = @ \ {e}]
           t == Append(Front(descents), rest)
<1>8. /\ result' = result \cup {graph[c].pid}
      /\ descents' = Append(t, Descent(c))
  BY <1>3, <1>4, <1>5 DEF Descend, Advanced
<1>9. /\ rest \in DescentRecords /\ rest.vertex = d.vertex /\ rest.left = d.left \ {e}
  BY <1>6 DEF DescentRecords
<1> HIDE DEF rest
<1>10. /\ t \in Seq(DescentRecords) /\ Len(t) = n /\ DOMAIN t = 1..n
       /\ t[n] = rest /\ \A i \in 1..(n - 1) : t[i] = descents[i]
  BY <1>1, <1>2, <1>6, <1>9, ReplaceIs
<1>11. Descent(c) \in DescentRecords
  BY <1>7 DEF DescentRecords, Descent, OutEdges
<1> HIDE DEF t
<1>12. /\ descents' \in Seq(DescentRecords) /\ Len(descents') = n + 1
       /\ DOMAIN descents' = 1..(n + 1)
       /\ descents'[n + 1].vertex = c /\ descents'[n + 1].left = OutEdges(c)
       /\ \A i \in 1..n : descents'[i] = t[i]
  <2> DEFINE f == Descent(c)
  <2>1. f.vertex = c /\ f.left = OutEdges(c) /\ f \in DescentRecords
    BY <1>11 DEF Descent
  <2> HIDE DEF f
  <2>2. Append(t, f) \in Seq(DescentRecords) /\ Len(Append(t, f)) = n + 1
        /\ DOMAIN Append(t, f) = 1..(n + 1) /\ Append(t, f)[n + 1] = f
        /\ \A i \in 1..n : Append(t, f)[i] = t[i]
    BY <1>10, <2>1, PushIs
  <2> QED BY <1>8, <2>1, <2>2 DEF f
<1>13. \A i \in 1..n : /\ descents'[i].vertex = descents[i].vertex
                       /\ descents'[i].left \subseteq descents[i].left
                       /\ descents[i].left \subseteq descents'[i].left \cup {e}
  <2> TAKE i \in 1..n
  <2>1. CASE i = n
    BY <1>6, <1>9, <1>10, <1>12, <2>1
  <2>2. CASE i # n
    <3>1. i \in 1..(n - 1)
      BY <1>6, <2>2
    <3> QED BY <1>10, <1>12, <3>1
  <2> QED BY <2>1, <2>2
<1>14. graph[c].pid \in DOMAIN procMap /\ graph[c].pid \in Pids /\ m_pidToIdMap[graph[c].pid] = c
  BY <1>1, <1>7, LookupFacts DEF VerticesInv
<1>15. ScanInv' /\ TreeInv'
  <2>1. result' \subseteq Pids
    BY <1>8, <1>14 DEF Inv, TreeInv, ShapeInv
  <2>2. n < StackSize
    BY <1>1, <1>2
  <2>3. Len(descents') <= StackSize
    BY <1>6, <1>12, <2>2, StackAssumption
  <2> QED BY <1>1, <1>12, <2>1, <2>3, LookupLeaves
<1>16. QueryInv'
  <2>1. query \in DOMAIN m_pidToIdMap
    BY <1>1 DEF Inv, QueryInv
  <2> SUFFICES ASSUME m_pidToIdMap[query] # 0
               PROVE  /\ result' \subseteq DescendantsIn(procMap, query)
                      /\ \A i \in 1..(n + 1) :
                             /\ descents'[i].vertex # 0
                             /\ graph[descents'[i].vertex].pid \in result' \cup {query}
                             /\ descents'[i].left \subseteq OutEdges(descents'[i].vertex)
                      /\ \A k \in DOMAIN edges :
                             graph[edges[k][1]].pid \in result' \cup {query} =>
                                 \/ graph[edges[k][2]].pid \in result'
                                 \/ \E i \in 1..(n + 1) : k \in descents'[i].left
    BY <1>1, <1>12, <2>1 DEF QueryInv, Met, OutEdges
  <2>2. /\ result \subseteq DescendantsIn(procMap, query)
        /\ \A i \in 1..n :
               /\ descents[i].vertex # 0
               /\ graph[descents[i].vertex].pid \in result \cup {query}
               /\ descents[i].left \subseteq OutEdges(descents[i].vertex)
        /\ \A k \in DOMAIN edges :
               graph[edges[k][1]].pid \in result \cup {query} =>
                   \/ graph[edges[k][2]].pid \in result
                   \/ \E i \in 1..n : k \in descents[i].left
    BY <1>1, <1>6, <2>1 DEF Inv, QueryInv, Met
  <2>3. /\ edges[e][1] = d.vertex /\ d.vertex # 0
        /\ graph[d.vertex].pid \in result \cup {query}
    BY <1>6, <1>7, <2>2 DEF OutEdges
  <2>4. c # 0
    BY <1>1, <1>7, <2>3, NoneAboveFirst
  <2>5. graph[c].pid \in DescendantsIn(procMap, query)
    <3>1. procMap[graph[c].pid] = graph[d.vertex].pid
      BY <1>1, <1>7, <2>3, EdgeIsChild
    <3>2. Below(procMap, query, DescendantsIn(procMap, query)) = DescendantsIn(procMap, query)
      BY <1>1, LookupFacts, DescendantsClosed
    <3> QED BY <1>14, <2>2, <2>3, <3>1, <3>2 DEF Below
  <2>6. ASSUME NEW i \in 1..(n + 1)
        PROVE  /\ descents'[i].vertex # 0
               /\ graph[descents'[i].vertex].pid \in result' \cup {query}
               /\ descents'[i].left \subseteq OutEdges(descents'[i].vertex)
    <3>1. CASE i = n + 1
      BY <1>8, <1>12, <2>4, <3>1
    <3>2. CASE i \in 1..n
      BY <1>8, <1>13, <2>2, <3>2
    <3> QED BY <1>6, <3>1, <3>2
  <2>7. ASSUME NEW k \in DOMAIN edges, graph[edges[k][1]].pid \in result' \cup {query}
        PROVE  \/ graph[edges[k][2]].pid \in result'
               \/ \E i \in 1..(n + 1) : k \in descents'[i].left
    <3>1. CASE k = e
      BY <1>7, <1>8, <3>1
    <3>2. CASE graph[edges[k][1]].pid \in result \cup {query} /\ k # e
      <4>1. CASE graph[edges[k][2]].pid \in result
        BY <1>8, <4>1
      <4>2. CASE \E i \in 1..n : k \in descents[i].left
        <5>1. PICK i \in 1..n : k \in descents[i].left
          BY <4>2
        <5>2. i \in 1..(n + 1) /\ k \in descents'[i].left
          BY <1>6, <1>13, <3>2, <5>1
        <5> QED BY <5>2
      <4> QED BY <2>2, <3>2, <4>1, <4>2
    <3>3. CASE graph[edges[k][1]].pid = graph[c].pid
      <4>1. edges[k][1] \in Vertices
        BY <1>1, LookupFacts
      <4>2. edges[k][1] = c
        <5>1. m_pidToIdMap[graph[edges[k][1]].pid] = edges[k][1]
          BY <1>1, <4>1, LookupFacts DEF VerticesInv
        <5> QED BY <1>14, <3>3, <5>1
      <4>3. k \in OutEdges(c)
        BY <4>2 DEF OutEdges
      <4> QED BY <1>6, <1>12, <4>3
    <3> QED BY <1>8, <2>7, <3>1, <3>2, <3>3
  <2> QED BY <1>8, <2>2, <2>5, <2>6, <2>7
<1> QED BY <1>15, <1>16 DEF Inv

LEMMA ReturnInv ==
    ASSUME Inv, Return
    PROVE  Inv'
<1>1. /\ phase = "query" /\ descents # <<>> /\ Last(descents).left = {} /\ scan = "idle"
      /\ descents' = Front(descents) /\ query' = query /\ result' = result
      /\ phase' = IF Len(descents) = 1 THEN "answered" ELSE "query"
      /\ UNCHANGED <<scanVars, buildVars>>
      /\ procMap' = procMap /\ graph' = graph /\ edges' = edges /\ m_pidToIdMap' = m_pidToIdMap
  BY DEF Return, Inv, TreeInv, ShapeInv, scanVars, readVars, buildVars
<1>2. PICK n : n = Len(descents)
  OBVIOUS
<1>3. descents \in Seq(DescentRecords)
  BY <1>1, LookupFacts
<1>4. /\ n \in Nat \ {0} /\ DOMAIN descents = 1..n /\ descents[n].left = {}
      /\ descents' \in Seq(DescentRecords) /\ Len(descents') = n - 1
  BY <1>1, <1>2, <1>3, StackIs
<1>5. \A i \in 1..(n - 1) : descents'[i] = descents[i]
  BY <1>1, <1>2, <1>3, StackIs
<1>6. DOMAIN descents' = 1..(n - 1)
  <2>1. DOMAIN descents' = 1..Len(descents')
    BY <1>4
  <2> QED BY <1>4, <2>1
<1>7. phase' = "answered" => descents' = <<>>
  BY <1>1, <1>2, <1>4
<1>8. ScanInv' /\ TreeInv'
  <2>1. Len(descents') <= StackSize /\ result' \subseteq Pids
    BY <1>1, <1>2, <1>4, StackAssumption DEF Inv, TreeInv, ShapeInv
  <2> QED BY <1>1, <1>4, <1>7, <2>1, LookupLeaves
<1>9. QueryInv'
  <2>1. query \in DOMAIN m_pidToIdMap
    BY <1>1 DEF Inv, QueryInv
  <2> SUFFICES ASSUME m_pidToIdMap[query] # 0
               PROVE  /\ result \subseteq DescendantsIn(procMap, query)
                      /\ \A i \in 1..(n - 1) :
                             /\ descents[i].vertex # 0 /\ Met(descents[i].vertex)
                             /\ descents[i].left \subseteq OutEdges(descents[i].vertex)
                      /\ \A e \in DOMAIN edges :
                             Met(edges[e][1]) =>
                                 \/ graph[edges[e][2]].pid \in result
                                 \/ \E i \in 1..(n - 1) : e \in descents[i].left
    BY <1>1, <1>5, <1>6, <2>1 DEF QueryInv, Met, OutEdges
  <2>2. /\ result \subseteq DescendantsIn(procMap, query)
        /\ \A i \in 1..n :
               /\ descents[i].vertex # 0 /\ Met(descents[i].vertex)
               /\ descents[i].left \subseteq OutEdges(descents[i].vertex)
        /\ \A e \in DOMAIN edges :
               Met(edges[e][1]) => \/ graph[edges[e][2]].pid \in result
                                   \/ \E i \in 1..n : e \in descents[i].left
    BY <1>1, <1>4, <2>1 DEF Inv, QueryInv
  <2>3. \A e : \A i \in 1..n : e \in descents[i].left => i \in 1..(n - 1)
    BY <1>4
  <2>4. \A i \in 1..(n - 1) : i \in 1..n
    BY <1>4
  <2> QED BY <2>2, <2>3, <2>4
<1> QED BY <1>8, <1>9 DEF Inv

LEMMA StackOverflowInv ==
    ASSUME Inv, StackOverflow
    PROVE  Inv'
<1>1. /\ phase = "query" /\ phase' = "crashed" /\ scan = "idle"
      /\ UNCHANGED <<scanVars, buildVars, queryVars>>
  BY DEF StackOverflow, Inv, TreeInv, ShapeInv
<1>2. ScanInv' /\ TreeInv'
  <2>1. /\ descents' \in Seq(DescentRecords) /\ Len(descents') <= StackSize /\ result' \subseteq Pids
    BY <1>1 DEF Inv, TreeInv, ShapeInv, queryVars
  <2> QED BY <1>1, <2>1, LookupLeaves
<1>3. QueryInv'
  BY <1>1 DEF QueryInv
<1> QED BY <1>2, <1>3 DEF Inv

-----------------------------------------------------------------------------
(* The theorems                                                            *)

LEMMA InitInv ==
    ASSUME Init
    PROVE  Inv
<1>1. /\ DOMAIN system = {} /\ DOMAIN procMap = {} /\ DOMAIN born = {}
      /\ Vertices = {} /\ DOMAIN edges = {} /\ DOMAIN m_pidToIdMap = {} /\ DOMAIN calls = {}
  BY DEF Init, ScanInit, Vertices
<1>2. ScanInv
  <2>1. -1 \in -1..Cardinality(Pids)
    BY SystemsAssumption, FS_CardinalityType
  <2>2. ScanTypeOK
    BY <1>1, <2>1 DEF Init, ScanInit, ScanTypeOK
  <2> QED BY <1>1, <2>2 DEF Init, ScanInit, ScanInv, SystemInv, RootInv, BirthInv, StableInv
<1>3. ShapeInv
  <2>1. IsFiniteSet({}) /\ Cardinality({}) = 0 /\ {} = 0..(0 - 1)
    BY FS_EmptySet
  <2>2. Len(descents) <= StackSize
    BY StackAssumption DEF Init
  <2> QED BY <1>1, <2>1, <2>2 DEF Init, ScanInit, ShapeInv
<1>4. GraphInv /\ BuildInv /\ CompleteInv
  BY <1>1 DEF Init, GraphInv, VerticesInv, IdsInv, EdgesInv, BuildInv, CompleteInv
<1>5. QueryInv
  BY DEF Init, QueryInv
<1> QED BY <1>2, <1>3, <1>4, <1>5 DEF Inv, TreeInv

LEMMA StepInv ==
    ASSUME Inv, [Next]_vars
    PROVE  Inv'
<1>1. CASE Build
  BY <1>1, NextProcessInv, AddKnownProcessInv, AddNewProcessInv, AddMissingProcessInv,
     FindParentInv, AddEdgeInv DEF Build
<1>2. CASE Query
  BY <1>2, DescendInv, ReturnInv, StackOverflowInv DEF Query
<1>3. CASE UNCHANGED vars
  <2>1. ScanInv'
    BY <1>3, ScanInvUnchanged DEF Inv, vars, scanVars, readVars
  <2>2. ShapeInv'
    BY <1>3 DEF Inv, TreeInv, ShapeInv, vars, scanVars, readVars, treeVars, buildVars, queryVars,
       CallRecords, DescentRecords, Vertices
  <2>3. GraphInv' /\ CompleteInv'
    BY <1>3 DEF Inv, TreeInv, GraphInv, VerticesInv, IdsInv, EdgesInv, CompleteInv, Connected,
       Ppid, Vertices, vars, scanVars, readVars, treeVars, buildVars
  <2>4. BuildInv'
    BY <1>3 DEF Inv, TreeInv, BuildInv, Expected, Connecting, FirstComes, CallInv, Connected,
       Ppid, Vertices, Top, vars, scanVars, readVars, treeVars, buildVars
  <2>5. QueryInv'
    BY <1>3 DEF Inv, QueryInv, Met, OutEdges, vars, scanVars, readVars, treeVars, buildVars,
       queryVars
  <2> QED BY <2>1, <2>2, <2>3, <2>4, <2>5 DEF Inv, TreeInv
<1> QED BY <1>1, <1>2, <1>3, ScanStepInv, ClearInv, ReadCrashesInv, FetchDescendantsInv DEF Next

LEMMA InvHolds == Spec => []Inv
<1>1. Init => Inv
  BY InitInv
<1>2. Inv /\ [Next]_vars => Inv'
  BY StepInv
<1> QED BY <1>1, <1>2, PTL DEF Spec

\* Each call of addConnectProcesses that waits is about a process of its own, so
\* the recursion is no deeper than there are processes, and one that is missing.
LEMMA CallsBounded ==
    ASSUME Inv
    PROVE  Len(calls) <= Cardinality(Pids) + 1
<1> DEFINE S == Pids \cup {0}
           n == Len(calls)
           f == [i \in 1..n |-> calls[i].pid]
<1>1. n \in Nat /\ DOMAIN calls = 1..n /\ calls \in Seq(CallRecords)
  BY DEF Inv, TreeInv, ShapeInv
<1>2. \A i \in 1..n : calls[i].pid \in S
  <2>1. \A i \in 1..n : calls[i] \in CallRecords
    BY <1>1
  <2> QED BY <2>1 DEF CallRecords
<1>3. f \in [1..n -> S] /\ \A i, j \in 1..n : f[i] = f[j] => i = j
  BY <1>1, <1>2 DEF Inv, TreeInv, ShapeInv
<1>4. IsFiniteSet(S) /\ Cardinality(S) <= Cardinality(Pids) + 1 /\ Cardinality(Pids) \in Nat
      /\ Cardinality(S) \in Nat
  <2>1. IsFiniteSet(Pids)
    BY SystemsAssumption
  <2>2. IsFiniteSet(S) /\ (0 \in Pids => S = Pids)
        /\ (0 \notin Pids => Cardinality(S) = Cardinality(Pids) + 1)
    BY <2>1, FS_AddElement
  <2>3. Cardinality(Pids) \in Nat /\ Cardinality(S) \in Nat
    BY <2>1, <2>2, FS_CardinalityType
  <2>4. S = Pids \/ Cardinality(S) = Cardinality(Pids) + 1
    BY <2>2
  <2> HIDE DEF S
  <2>5. Cardinality(S) <= Cardinality(Pids) + 1
    BY <2>3, <2>4
  <2> QED BY <2>2, <2>3, <2>5
<1>5. IsFiniteSet(1..n) /\ Cardinality(1..n) = n
  BY <1>1, FS_Interval
<1>6. Cardinality(1..n) <= Cardinality(S)
  <2> HIDE DEF f, S, n
  <2>1. f \in Injection(1..n, S)
    BY <1>3 DEF Injection, IsInjective
  <2> QED BY <1>4, <2>1, FS_Injection
<1> QED BY <1>1, <1>4, <1>5, <1>6

\* The types, for every set of systems: in particular the vertices are numbered
\* without gaps, pids are mapped to vertices or to the 0 of a missing parent, and the
\* recursion that adds the parents first is at most one call deeper than there are pids.
THEOREM TypeCorrect == Spec => []TypeOK
<1>1. Inv => TypeOK
  <2> SUFFICES ASSUME Inv
               PROVE  TypeOK
    OBVIOUS
  <2>1. ToSet(edges) \subseteq Vertices \X Vertices
    <3>1. edges \in Seq(Vertices \X Vertices)
      BY DEF Inv, TreeInv, ShapeInv
    <3> QED BY <3>1 DEF ToSet
  <2> QED BY <2>1, CallsBounded DEF Inv, ScanInv, TreeInv, ShapeInv, TypeOK
<1> QED BY <1>1, InvHolds, PTL

\* The graph that addConnectProcesses builds is the process map of the scan:
\* every process once, under its pid, below its parent.
THEOREM TreeIsScanTheorem == Spec => []TreeIsScan
<1>1. Inv => TreeIsScan
  <2> SUFFICES ASSUME Inv, phase = "ready", scan = "idle"
               PROVE  /\ {graph[v].pid : v \in Vertices} = DOMAIN procMap
                      /\ Cardinality(Vertices) = Cardinality(DOMAIN procMap)
                      /\ \A p \in DOMAIN procMap : graph[m_pidToIdMap[p]].pid = p
                      /\ \A p \in DOMAIN procMap :
                             procMap[p] \in DOMAIN procMap =>
                                 \/ p = 0
                                 \/ <<m_pidToIdMap[procMap[p]], m_pidToIdMap[p]>> \in ToSet(edges)
    BY DEF TreeIsScan
  <2>1. \A p \in DOMAIN procMap : /\ p \in DOMAIN m_pidToIdMap /\ m_pidToIdMap[p] \in Vertices
                                  /\ graph[m_pidToIdMap[p]].pid = p
    BY LookupFacts DEF IdsInv
  <2>2. \A v \in Vertices : /\ graph[v].pid \in DOMAIN procMap
                            /\ m_pidToIdMap[graph[v].pid] = v
    BY LookupFacts DEF VerticesInv
  <2>3. Cardinality(Vertices) = Cardinality(DOMAIN procMap)
    <3> DEFINE f == [v \in Vertices |-> graph[v].pid]
               S == DOMAIN procMap
    <3>1. f \in [Vertices -> S] /\ \A v, w \in Vertices : f[v] = f[w] => v = w
      BY <2>2
    <3>2. \A p \in S : \E v \in Vertices : f[v] = p
      BY <2>1
    <3>3. IsFiniteSet(Vertices) /\ IsFiniteSet(S)
      BY FiniteMaps DEF Inv, ScanInv, TreeInv, ShapeInv
    <3> HIDE DEF f, S
    <3>4. f \in Bijection(Vertices, S)
      BY <3>1, <3>2 DEF Bijection, Injection, Surjection, IsInjective
    <3>5. ExistsBijection(Vertices, S)
      BY <3>4 DEF ExistsBijection
    <3> QED BY <3>3, <3>5, FS_Bijection DEF S
  <2>4. ASSUME NEW p \in DOMAIN procMap, procMap[p] \in DOMAIN procMap, p # 0
        PROVE  <<m_pidToIdMap[procMap[p]], m_pidToIdMap[p]>> \in ToSet(edges)
    <3> DEFINE v == m_pidToIdMap[p]
    <3>1. v \in Vertices /\ graph[v].pid = p /\ Ppid(v) = procMap[p]
      BY <2>1, LookupFacts DEF VerticesInv
    <3>2. Connected(v)
      BY <3>1, LookupFacts
    <3>3. PICK i \in DOMAIN edges : edges[i] = <<m_pidToIdMap[Ppid(v)], v>>
      BY <2>4, <3>1, <3>2 DEF Connected
    <3> QED BY <3>1, <3>3 DEF ToSet
  <2> QED BY <2>1, <2>2, <2>3, <2>4
<1> QED BY <1>1, InvHolds, PTL

\* The children of the process asked for and of all that is found are found.
LEMMA FoundAll ==
    ASSUME Inv, AnsweredAboutOther
    PROVE  DescendantsIn(procMap, query) \subseteq result
<1>1. scan = "idle" /\ phase = "answered" /\ descents = <<>>
  BY DEF AnsweredAboutOther, Inv, TreeInv, ShapeInv
<1>2. ASSUME NEW q \in DOMAIN procMap
      PROVE  LET v == m_pidToIdMap[q]
             IN  /\ v \in Vertices /\ graph[v].pid = q
                 /\ q # 0 => /\ procMap[q] \in DOMAIN m_pidToIdMap
                             /\ \E i \in DOMAIN edges : edges[i] = <<m_pidToIdMap[procMap[q]], v>>
  <2> DEFINE v == m_pidToIdMap[q]
  <2>1. v \in Vertices /\ graph[v].pid = q
    BY <1>1, LookupFacts DEF IdsInv
  <2>2. Ppid(v) = procMap[q]
    BY <1>1, <2>1, LookupFacts DEF VerticesInv
  <2>3. Connected(v)
    BY <1>1, <2>1, LookupFacts
  <2> QED BY <2>1, <2>2, <2>3 DEF Connected
<1>3. 0 \in DOMAIN procMap => procMap[0] = 0
  BY DEF Inv, ScanInv, SystemInv
<1>4. CASE query \notin DOMAIN m_pidToIdMap
  <2>1. ASSUME NEW q \in DOMAIN procMap
        PROVE  procMap[q] # query
    <3>1. q = 0 => procMap[q] \in DOMAIN m_pidToIdMap
      BY <1>1, <1>3, LookupFacts
    <3> QED BY <1>2, <1>4, <3>1
  <2>2. Below(procMap, query, {}) \subseteq {}
    BY <2>1 DEF Below
  <2>3. DescendantsIn(procMap, query) \subseteq {}
    BY <1>1, <2>2, LookupFacts, DescendantsLeast
  <2> QED BY <2>3
<1>5. CASE query \in DOMAIN m_pidToIdMap
  <2>1. /\ m_pidToIdMap[query] # 0 /\ result \subseteq DescendantsIn(procMap, query)
        /\ \A e \in DOMAIN edges : Met(edges[e][1]) => graph[edges[e][2]].pid \in result
    BY <1>1, <1>5 DEF AnsweredAboutOther, Inv, QueryInv
  <2>2. query \in DOMAIN procMap
    BY <1>1, <1>5, <2>1, LookupFacts DEF IdsInv
  <2>3. result \subseteq DOMAIN procMap
    BY <1>1, <2>1, LookupFacts, DescendantsClosed
  <2>4. query # 0
    <3> SUFFICES ASSUME query = 0
                 PROVE  FALSE
      OBVIOUS
    <3>1. 0 \in Vertices
      BY <1>2, <2>2, VerticesAre
    <3>2. graph[0].pid = Min(DOMAIN procMap) /\ graph[0].pid \in DOMAIN procMap
          /\ m_pidToIdMap[graph[0].pid] = 0
      BY <1>1, <3>1, LookupFacts DEF VerticesInv
    <3>3. DOMAIN procMap \subseteq Nat
      BY FiniteMaps DEF Inv, ScanInv, ScanTypeOK
    <3>4. Min(DOMAIN procMap) \in Nat /\ Min(DOMAIN procMap) <= 0
      BY <2>2, <3>3, MinIsIn
    <3> QED BY <2>1, <3>2, <3>4
  <2>5. ASSUME NEW q \in DOMAIN procMap, procMap[q] \in result \cup {query}
        PROVE  q \in result
    <3>1. CASE q = 0
      BY <1>3, <2>4, <2>5, <3>1
    <3>2. CASE q # 0
      <4>1. PICK i \in DOMAIN edges : edges[i] = <<m_pidToIdMap[procMap[q]], m_pidToIdMap[q]>>
        BY <1>2, <3>2
      <4>2. procMap[q] \in DOMAIN procMap
        BY <2>2, <2>3, <2>5
      <4>3. graph[m_pidToIdMap[procMap[q]]].pid = procMap[q]
        BY <1>2, <4>2
      <4>4. Met(edges[i][1]) /\ graph[edges[i][2]].pid = q
        BY <1>2, <2>5, <4>1, <4>3 DEF Met
      <4> QED BY <2>1, <4>1, <4>4
    <3> QED BY <3>1, <3>2
  <2>6. Below(procMap, query, result) \subseteq result
    BY <2>5 DEF Below
  <2> QED BY <1>1, <2>6, LookupFacts, DescendantsLeast
<1> QED BY <1>4, <1>5

LEMMA FoundRight ==
    ASSUME Inv, AnsweredAboutOther
    PROVE  result \subseteq DescendantsIn(procMap, query)
BY DEF AnsweredAboutOther, Inv, QueryInv

\* fetchDescendants returns what is below the process in the map, no less and no
\* more, whatever the pids and in whatever order the graph came about.
THEOREM DescendantsExactTheorem == Spec => []DescendantsExact
<1>1. Inv => DescendantsExact
  BY FoundAll, FoundRight DEF DescendantsExact
<1> QED BY <1>1, InvHolds, PTL

\* What it returns has been started, at some number of generations, by the
\* process asked for, although the scan saw each process at another moment.
THEOREM DescendantsByBirthTheorem == Spec => []DescendantsByBirth
<1>1. Inv => DescendantsByBirth
  <2> SUFFICES ASSUME Inv, AnsweredAboutOther, ~reused
               PROVE  result \subseteq DescendantsIn(born, query)
    BY DEF DescendantsByBirth
  <2> DEFINE X == DescendantsIn(born, query)
  <2>1. scan = "idle" /\ phase = "answered" /\ IsFiniteSet(DOMAIN procMap) /\ IsFiniteSet(DOMAIN born)
    BY FiniteMaps DEF AnsweredAboutOther, Inv, ScanInv
  <2>2. result \subseteq DescendantsIn(procMap, query)
    BY FoundRight
  <2>3. CASE host = "Linux" /\ query = 0
    <3>1. 0 \notin DOMAIN procMap
      BY <2>3 DEF Inv, ScanInv, SystemInv
    <3>2. 0 \notin DOMAIN m_pidToIdMap
      BY <2>1, <2>3, <3>1, LookupFacts DEF IdsInv, AnsweredAboutOther
    <3> QED BY <2>1, <2>3, <3>2 DEF Inv, QueryInv
  <2>4. CASE ~(host = "Linux" /\ query = 0)
    <3>1. X \subseteq DOMAIN born
      BY <2>1, DescendantsClosed
    <3>2. ASSUME NEW q \in DOMAIN procMap, procMap[q] \in X \cup {query}
          PROVE  q \in X
      <4>1. q \in DescendantsIn(born, procMap[q]) \/ (procMap[q] = 0 /\ host = "Linux")
        BY DEF Inv, ScanInv, BirthInv
      <4>2. ~(procMap[q] = 0 /\ host = "Linux")
        BY <2>4, <3>1, <3>2 DEF Inv, ScanInv, SystemInv
      <4>3. CASE procMap[q] = query
        BY <4>1, <4>2, <4>3
      <4>4. CASE procMap[q] \in X
        BY <2>1, <4>1, <4>2, <4>4, DescendantsTransitive
      <4> QED BY <3>2, <4>3, <4>4
    <3> HIDE DEF X
    <3>3. Below(procMap, query, X) \subseteq X
      BY <3>2 DEF Below
    <3>4. DescendantsIn(procMap, query) \subseteq X
      BY <2>1, <3>3, DescendantsLeast
    <3> QED BY <2>2, <3>4 DEF X
  <2> QED BY <2>3, <2>4
<1> QED BY <1>1, InvHolds, PTL

\* ... and all that stood still are among it.
THEOREM StandingFoundTheorem == Spec => []StandingFound
<1>1. Inv => StandingFound
  <2> SUFFICES ASSUME Inv, AnsweredAboutOther
               PROVE  DescendantsIn(Standing, query) \subseteq result
    BY DEF StandingFound
  <2>1. DescendantsIn(procMap, query) \subseteq result
    BY FoundAll
  <2>2. ASSUME NEW p \in DOMAIN Standing
        PROVE  /\ p \in DOMAIN procMap /\ p \in DOMAIN system
               /\ Standing[p] = procMap[p]
    <3>1. p \in stable /\ p \notin Unreadable /\ born[p] = system[p] /\ Standing[p] = system[p]
      BY DEF Standing
    <3>2. p \in DOMAIN procMap
      BY <3>1 DEF AnsweredAboutOther, Inv, ScanInv, StableInv
    <3> QED BY <3>1, <3>2 DEF Inv, ScanInv, StableInv, ScanTypeOK
  <2>3. IsFiniteSet(DOMAIN Standing) /\ IsFiniteSet(DOMAIN procMap)
    <3>1. IsFiniteSet(DOMAIN procMap)
      BY FiniteMaps DEF Inv, ScanInv
    <3>2. DOMAIN Standing \subseteq DOMAIN procMap
      BY <2>2
    <3> QED BY <3>1, <3>2, FS_Subset
  <2>4. Refines(Standing, procMap)
    <3>1. \A p \in DOMAIN Standing : p \in DescendantsIn(procMap, procMap[p])
      BY <2>2, <2>3, ChildDescends
    <3> QED BY <2>2, <3>1 DEF Refines
  <2>5. DescendantsIn(Standing, query) \subseteq DescendantsIn(procMap, query)
    BY <2>3, <2>4, DescendantsMonotone
  <2> QED BY <2>1, <2>5
<1> QED BY <1>1, InvHolds, PTL
=============================================================================
