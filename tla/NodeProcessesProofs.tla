------------------------ MODULE NodeProcessesProofs ------------------------
(***************************************************************************)
(* Proofs about NodeTree and NodeProcesses, for every input file, every    *)
(* build and any number of failing calls.  What the loop test leaves       *)
(* (Linked, Tested), that no cycle is below a node which findRoot is       *)
(* through with (Counted), how the processes are stacked, with the files   *)
(* that are there already (ProcsTyped, Exact), what was read of the file   *)
(* at each line (Parsed, KeptAll), and at the end that findRoot's counts   *)
(* lead to WhoWon (RootCounted).                                           *)
(***************************************************************************)
EXTENDS NodeProcesses, FoldLemmas, SequenceTheorems, TLAPS

InputLine == Seq(Tokens) \ {<<>>}

KidsTyped == nodes \in Seq(Tokens) /\ children \in [DOMAIN nodes -> Seq(DOMAIN nodes)]

\* No node is the child of two, or twice of one.
SingleFather(kids) ==
  \A f, g \in DOMAIN kids : \A j \in DOMAIN kids[f], k \in DOMAIN kids[g] :
    kids[f][j] = kids[g][k] => f = g /\ j = k
OneFather == SingleFather(children)

TreeTyped ==
  /\ file \in InputFiles /\ build \in Builds
  /\ phase \in {"parse", "malformed", "loop", "count", "crashed", "lost", "exec", "done"}
  /\ at \in 0 .. Len(file) /\ linecounter \in 0 .. at /\ slot \in Nat
  /\ nodes \in Seq(Tokens) /\ visited \in Seq(Tokens)
  /\ children \in [DOMAIN nodes -> Seq(DOMAIN nodes)]

\* Every name that a link leads to was visited; each link has a visit of its own.
Linked ==
  /\ linecounter < 2 => slot = 0 /\ nodes = <<>>
  /\ \A f \in DOMAIN nodes : \A c \in Kids(f) : nodes[c] \in Range(visited)
  /\ ~FindDAGLoop(visited) => OneFather

\* Past the loop test the whole file has been read, and the test has found nothing.
Tested ==
  /\ phase \notin {"parse", "malformed"} => at = Len(file) /\ linecounter >= 2
  /\ phase \notin {"parse", "malformed"} => (FindDAGLoop(visited) <=> phase = "loop")

Acyclic(v) == \A u \in Within(v) : ~OnCycle(u)

CountTyped ==
  num_descendant \in [DOMAIN nodes -> Nat] /\ status \in [DOMAIN nodes -> BOOLEAN]

\* What findRoot has found: no cycle below a node it is through with, and no root without
\* a child.
Counted ==
  /\ turn \in 1 .. Len(nodes) + 1 /\ most \in Nat /\ root \in 0 .. turn - 1
  /\ DOMAIN num_descendant = DOMAIN status
  /\ phase = "parse" => turn = 1 /\ root = 0
  /\ phase \notin {"parse", "malformed"} =>
       /\ CountTyped
       /\ \A v \in DOMAIN nodes : children[v] = <<>> => num_descendant[v] = 0
  /\ \A v \in 1 .. turn - 1 : Acyclic(v)
  /\ root # 0 => children[root] # <<>>
  /\ phase \in {"exec", "done"} => root # 0

\* The processes and their files: every call is of a node below the root, and no leaf's
\* votes are in a file twice, or in one that the leaf is not below.
CallRecord == [node : Within(root), i : Nat \ {0}]
ProcessRecord ==
  [calls : Seq(CallRecord) \ {<<>>}, leaf : {NoLeaf} \cup Leaves(root)]

OutTyped(files) ==
  /\ files \in [DOMAIN files -> [DOMAIN nodes -> {0, 1}]]
  /\ DOMAIN files \subseteq Within(root)
  /\ \A v \in DOMAIN files : \A u \in DOMAIN nodes : files[v][u] = 1 => u \in Leaves(v)

ProcsTyped ==
  /\ procs \in Seq(ProcessRecord)
  /\ failures \in 0 .. MaxFailures
  /\ procs # <<>> <=> phase = "exec"
  /\ phase \notin {"exec", "done"} => failures = 0 /\ DOMAIN out = {}
  /\ OutTyped(out)

\* The innermost call of a process, and the child that it waits for or turns to next.
Top(p) == Last(p.calls)
ChildOf(p) == children[Top(p).node][Top(p).i]

\* As long as nothing fails a process has been through with the children before its place,
\* and the process behind it runs for the one at its place.
InLoop(p, files) ==
  /\ children[Top(p).node] # <<>>
  /\ Top(p).i <= NumChildren(Top(p).node) + 1
  /\ \A j \in 1 .. Top(p).i - 1 : children[Top(p).node][j] \in files

WaitsFor(p, q) ==
  /\ p.leaf = NoLeaf
  /\ Top(p).i <= NumChildren(Top(p).node)
  /\ IF q.leaf = NoLeaf THEN Top(q).node = ChildOf(p) ELSE q.leaf = ChildOf(p)

StackedOn(stack, files) ==
  /\ stack # <<>> => stack[1].leaf = NoLeaf /\ Top(stack[1]).node = root
  /\ \A k \in 1 .. Len(stack) : stack[k].leaf = NoLeaf => InLoop(stack[k], files)
  /\ \A k \in 1 .. Len(stack) - 1 : WaitsFor(stack[k], stack[k + 1])

\* The file of v has the votes of all leaves, and every node below v has its file.
Complete(v, files) ==
  /\ Within(v) \subseteq DOMAIN files
  /\ \A u \in Leaves(v) : files[v][u] = 1

Exact ==
  failures = 0 =>
    /\ StackedOn(procs, DOMAIN out)
    /\ \A v \in DOMAIN out : Complete(v, out)
    /\ phase = "done" => root \in DOMAIN out

NodeInv == TreeTyped /\ Linked /\ Tested /\ Counted /\ ProcsTyped /\ Exact

-----------------------------------------------------------------------------
(***************************************************************************)
(* The nodes that links lead to.                                           *)
(***************************************************************************)
Closed(S, v) == v \in S /\ \A u \in S : Kids(u) \subseteq S

LEMMA WithinMember ==
  ASSUME NEW v, NEW u
  PROVE  u \in Within(v) <=>
           u \in DOMAIN nodes /\ \A S \in SUBSET DOMAIN nodes : Closed(S, v) => u \in S
  BY DEF Within, Closed

LEMMA KidsInside ==
  ASSUME KidsTyped, NEW v \in DOMAIN nodes
  PROVE  Kids(v) \in SUBSET DOMAIN nodes
  <1>1. children[v] \in Seq(DOMAIN nodes)
    BY DEF KidsTyped
  <1>2. \A k \in DOMAIN children[v] : children[v][k] \in DOMAIN nodes
    BY <1>1
  <1> QED BY <1>2 DEF Kids

LEMMA WithinFacts ==
  ASSUME KidsTyped, NEW v \in DOMAIN nodes
  PROVE  /\ v \in Within(v) /\ Within(v) \in SUBSET DOMAIN nodes
         /\ \A u \in Within(v) : Kids(u) \subseteq Within(v)
  <1>1. v \in Within(v) /\ Within(v) \in SUBSET DOMAIN nodes
    BY WithinMember DEF Closed
  <1>2. ASSUME NEW u \in Within(v), NEW c \in Kids(u) PROVE c \in Within(v)
    <2>1. u \in DOMAIN nodes /\ c \in DOMAIN nodes
      BY <1>1, <1>2, KidsInside
    <2>2. ASSUME NEW S \in SUBSET DOMAIN nodes, Closed(S, v) PROVE c \in S
      <3>1. u \in S
        BY <1>2, <2>2, WithinMember
      <3> QED BY <1>2, <2>2, <3>1 DEF Closed
    <2> QED BY <2>1, <2>2, WithinMember
  <1> QED BY <1>1, <1>2

LEMMA WithinLeast ==
  ASSUME NEW v, NEW S \in SUBSET DOMAIN nodes, Closed(S, v)
  PROVE  Within(v) \subseteq S
  BY WithinMember

LEMMA WithinTransitive ==
  ASSUME KidsTyped, NEW v \in DOMAIN nodes, NEW u \in Within(v)
  PROVE  Within(u) \subseteq Within(v)
  BY WithinFacts, WithinLeast DEF Closed

\* But for the node itself each has a father within.
LEMMA WithinUp ==
  ASSUME KidsTyped, NEW v \in DOMAIN nodes, NEW u \in Within(v), u # v
  PROVE  \E p \in Within(v) : u \in Kids(p)
  <1> DEFINE S == {v} \cup {w \in Within(v) : \E p \in Within(v) : w \in Kids(p)}
  <1>1. S \in SUBSET DOMAIN nodes /\ S \subseteq Within(v)
    BY WithinFacts
  <1>2. Closed(S, v)
    BY <1>1, WithinFacts DEF Closed
  <1>3. u \in S
    <2> HIDE DEF S
    <2> QED BY <1>1, <1>2, WithinLeast
  <1> QED BY <1>3

LEMMA WithinKids ==
  ASSUME KidsTyped, NEW v \in DOMAIN nodes
  PROVE  Within(v) = {v} \cup Below(v)
  <1> DEFINE S == {v} \cup Below(v)
  <1>1. \A c \in Kids(v) : c \in DOMAIN nodes /\ c \in Within(c) /\ Within(c) \subseteq Within(v)
    BY KidsInside, WithinFacts, WithinTransitive
  <1>2. S \subseteq Within(v) /\ Within(v) \in SUBSET DOMAIN nodes
    BY <1>1, WithinFacts DEF Below
  <1>3. ASSUME NEW u \in S PROVE Kids(u) \subseteq S
    <2>1. CASE u = v
      BY <1>1, <2>1 DEF Below
    <2>2. CASE u # v
      <3>1. PICK c \in Kids(v) : u \in Within(c)
        BY <2>2 DEF Below
      <3>2. Kids(u) \subseteq Within(c)
        BY <1>1, <3>1, WithinFacts
      <3> QED BY <3>1, <3>2 DEF Below
    <2> QED BY <2>1, <2>2
  <1>4. Closed(S, v)
    BY <1>3 DEF Closed
  <1> HIDE DEF S
  <1>5. Within(v) \subseteq S
    BY <1>2, <1>4, WithinLeast
  <1>6. Within(v) = S
    BY <1>2, <1>5
  <1> QED BY <1>6 DEF S

LEMMA AcyclicBelow ==
  ASSUME KidsTyped, NEW v \in DOMAIN nodes, Acyclic(v), NEW u \in Within(v)
  PROVE  /\ Acyclic(u)
         /\ \A c \in Kids(u) : u \notin Within(c) /\ c # u
  <1>1. u \in DOMAIN nodes /\ Within(u) \subseteq Within(v)
    BY WithinFacts, WithinTransitive
  <1>2. Acyclic(u)
    BY <1>1 DEF Acyclic
  <1>3. ~OnCycle(u)
    BY DEF Acyclic
  <1>4. ASSUME NEW c \in Kids(u) PROVE u \notin Within(c) /\ c # u
    <2>1. u \notin Within(c)
      BY <1>3 DEF OnCycle, Below
    <2> QED BY <1>1, <2>1, WithinFacts
  <1> QED BY <1>2, <1>4

\* Of any nodes below one without a cycle there is one with none of its children among them.
LEMMA Lowest ==
  ASSUME KidsTyped, NEW v \in DOMAIN nodes, Acyclic(v), NEW R \in SUBSET Within(v), R # {}
  PROVE  \E u \in R : \A c \in Kids(u) : c \notin R
  <1> DEFINE Size(u) == Cardinality(Within(u))
             T == {Size(u) : u \in R}
  <1>1. IsFiniteSet(DOMAIN nodes)
    <2>1. DOMAIN nodes = 1 .. Len(nodes) /\ Len(nodes) \in Nat
      BY DEF KidsTyped
    <2> QED BY <2>1, FS_Interval
  <1>2. \A u \in R : u \in DOMAIN nodes /\ IsFiniteSet(Within(u)) /\ Size(u) \in Nat
    BY <1>1, WithinFacts, FS_Subset, FS_CardinalityType
  <1>3. PICK n \in T : \A m \in T : n <= m
    <2>1. T \in SUBSET Nat /\ T # {}
      BY <1>2
    <2> HIDE DEF T
    <2> QED BY <2>1, LeastNumber
  <1>4. PICK u \in R : n = Size(u)
    BY <1>3
  <1>5. ASSUME NEW c \in Kids(u), c \in R PROVE FALSE
    <2>1. c \in Within(u) /\ Within(c) \subseteq Within(u)
      BY <1>2, <1>5, WithinFacts, WithinTransitive
    <2>2. u \in Within(u) /\ u \notin Within(c)
      BY <1>2, <1>5, WithinFacts, AcyclicBelow
    <2>3. Size(c) < Size(u)
      <3>1. Cardinality(Within(c)) <= Cardinality(Within(u))
            /\ (Cardinality(Within(c)) = Cardinality(Within(u)) => Within(c) = Within(u))
        BY <1>2, <2>1, FS_Subset
      <3> QED BY <1>2, <1>5, <2>2, <3>1
    <2>4. Size(c) \in T /\ Size(c) \in Nat /\ Size(u) \in Nat
      BY <1>2, <1>5
    <2> HIDE DEF Size, T
    <2> QED BY <1>3, <1>4, <2>3, <2>4
  <1> QED BY <1>5

\* No node is below two children of a node.
LEMMA KidsApart ==
  ASSUME KidsTyped, OneFather, NEW v \in DOMAIN nodes, Acyclic(v),
         NEW c \in Kids(v), NEW d \in Kids(v), c # d
  PROVE  Within(c) \cap Within(d) = {}
  <1> DEFINE S == Within(c) \ Within(d)
  <1>1. /\ c \in DOMAIN nodes /\ d \in DOMAIN nodes
        /\ Within(c) \in SUBSET DOMAIN nodes /\ Within(d) \in SUBSET DOMAIN nodes
    BY KidsInside, WithinFacts
  <1>2. ASSUME NEW p \in DOMAIN nodes, NEW q \in DOMAIN nodes, NEW w \in Kids(p), w \in Kids(q)
        PROVE  p = q
    <2>1. DOMAIN children = DOMAIN nodes
      BY DEF KidsTyped
    <2> QED BY <1>2, <2>1 DEF OneFather, SingleFather, Kids
  <1>3. v \notin Within(c) /\ v \notin Within(d)
    BY AcyclicBelow, WithinFacts
  <1>4. c \notin Within(d)
    <2>1. ASSUME c \in Within(d) PROVE FALSE
      <3>1. PICK p \in Within(d) : c \in Kids(p)
        BY <1>1, <2>1, WithinUp
      <3> QED BY <1>1, <1>2, <1>3, <3>1
    <2> QED BY <2>1
  <1>5. ASSUME NEW u \in S, NEW w \in Kids(u) PROVE w \in S
    <2>1. w \in Within(c)
      BY <1>1, <1>5, WithinFacts
    <2>2. ASSUME w \in Within(d) PROVE FALSE
      <3>1. CASE w = d
        BY <1>1, <1>2, <1>3, <1>5, <3>1
      <3>2. CASE w # d
        <4>1. PICK p \in Within(d) : w \in Kids(p)
          BY <1>1, <2>2, <3>2, WithinUp
        <4>2. p = u
          BY <1>1, <1>2, <1>5, <4>1
        <4> QED BY <1>5, <4>1, <4>2
      <3> QED BY <3>1, <3>2
    <2> QED BY <2>1, <2>2
  <1>6. S \in SUBSET DOMAIN nodes /\ Closed(S, c)
    BY <1>1, <1>4, <1>5, WithinFacts DEF Closed
  <1>7. Within(c) \subseteq S
    <2> HIDE DEF S
    <2> QED BY <1>6, WithinLeast
  <1> QED BY <1>7
-----------------------------------------------------------------------------
(***************************************************************************)
(* The counts.  Without a cycle the recursion of NumOfDescendant has a     *)
(* solution: a set of nodes that links do not leave, and that has one,     *)
(* grows until it is everything below.                                     *)
(***************************************************************************)
AddUp(f, b, s) == FoldLeft(LAMBDA n, c : n + f[c], b, s)

\* The sum after each child.
LEMMA AddUpStages ==
  ASSUME NEW Dom, NEW list \in Seq(Dom), NEW count, NEW start \in Nat,
         \A k \in DOMAIN list : count[list[k]] \in Nat
  PROVE  \E h : /\ h[0] = start
                /\ \A k \in 1 .. Len(list) : h[k] = h[k - 1] + count[list[k]]
                /\ AddUp(count, start, list) = h[Len(list)]
  <1> DEFINE n == Len(list)
             D == 1 .. n
             V == Nat
             base == start
             g == [p \in D \X V |-> p[2] + count[list[p[1]]]]
             Iter(f) == [s \in SUBSET D |-> IF s = {} THEN base
                                           ELSE f[s \ {Max(s)}] + count[list[Max(s)]]]
             chosen == CHOOSE f : f = Iter(f)
             h == [k \in 0 .. n |-> chosen[1 .. k]]
  <1>1. n \in Nat /\ DOMAIN list = D /\ base \in V
    OBVIOUS
  <1>2. g \in [D \X V -> V]
    <2>1. ASSUME NEW p \in D \X V PROVE p[2] + count[list[p[1]]] \in V
      BY <1>1, <2>1
    <2> HIDE DEF D, V
    <2> QED BY <2>1
  <1>3. PICK f \in [SUBSET D -> V] : SeqSolves(f, n, base, g)
    <2> HIDE DEF g, V, base, n
    <2> QED BY <1>1, <1>2, SeqRecursion
  <1>4. ASSUME NEW s \in SUBSET D
        PROVE  f[s] = IF s = {} THEN base ELSE f[s \ {Max(s)}] + count[list[Max(s)]]
    <2> HIDE DEF V, base, n
    <2>1. CASE s = {}
      BY <1>3, <2>1 DEF SeqSolves
    <2>2. CASE s # {}
      <3>1. Max(s) \in D
        BY <1>1, <2>2, MaxInside
      <3>2. <<Max(s), f[s \ {Max(s)}]>> \in D \X V
        BY <1>3, <3>1
      <3>3. g[<<Max(s), f[s \ {Max(s)}]>>] = f[s \ {Max(s)}] + count[list[Max(s)]]
        BY <3>2
      <3> HIDE DEF g
      <3> QED BY <1>3, <2>2, <3>3 DEF SeqSolves
    <2> QED BY <2>1, <2>2
  <1>5. f = Iter(f)
    <2> HIDE DEF D, g, V, base
    <2> QED BY <1>3, <1>4
  <1>6. chosen = Iter(chosen)
    <2> HIDE DEF Iter
    <2> QED BY <1>5
  <1>7. AddUp(count, start, list) = chosen[D]
    BY <1>1 DEF AddUp, FoldLeft, MapThenFoldSet
  <1>8. h[0] = base
    <2>1. 1 .. 0 = {} /\ {} \in SUBSET D
      OBVIOUS
    <2>2. chosen[{}] = base
      BY <1>6, <2>1
    <2> HIDE DEF chosen, base, n
    <2> QED BY <1>1, <2>1, <2>2
  <1>9. ASSUME NEW k \in D PROVE h[k] = h[k - 1] + count[list[k]]
    <2>1. 1 .. k \in SUBSET D /\ 1 .. k # {} /\ k - 1 \in 0 .. n /\ k \in 0 .. n
      <3> HIDE DEF V, base, n
      <3>1. n \in Nat /\ k \in Nat /\ 1 <= k /\ k <= n
        BY <1>1
      <3>2. k \in 1 .. k /\ k - 1 \in 0 .. n /\ k \in 0 .. n
        BY <3>1
      <3>3. \A x \in 1 .. k : x \in D
        BY <3>1
      <3> QED BY <3>2, <3>3
    <2>2. Max(1 .. k) = k /\ (1 .. k) \ {Max(1 .. k)} = 1 .. k - 1
      BY <1>1, MaxOfInterval
    <2>3. chosen[1 .. k] = chosen[(1 .. k) \ {Max(1 .. k)}] + count[list[Max(1 .. k)]]
      <3> HIDE DEF chosen, base
      <3> QED BY <1>6, <2>1
    <2> HIDE DEF chosen, n
    <2> QED BY <2>1, <2>2, <2>3
  <1>10. AddUp(count, start, list) = h[n]
    <2> HIDE DEF chosen, n
    <2> QED BY <1>1, <1>7
  <1> HIDE DEF h
  <1> QED BY <1>8, <1>9, <1>10

LEMMA AddUpRight ==
  ASSUME NEW Dom, NEW list \in Seq(Dom), NEW count, NEW start \in Nat,
         \A k \in DOMAIN list : count[list[k]] \in Nat
  PROVE  /\ AddUp(count, start, list) \in Nat
         /\ list = <<>> => AddUp(count, start, list) = start
  <1>1. PICK h : /\ h[0] = start
                 /\ \A k \in 1 .. Len(list) : h[k] = h[k - 1] + count[list[k]]
                 /\ AddUp(count, start, list) = h[Len(list)]
    BY AddUpStages
  <1> DEFINE n == Len(list)
             Held == {k \in 0 .. n : h[k] \in Nat}
  <1>2. n \in Nat /\ DOMAIN list = 1 .. n
    OBVIOUS
  <1>3. 0 \in Held
    BY <1>1, <1>2
  <1>4. ASSUME NEW k \in 1 .. n, k - 1 \in Held PROVE k \in Held
    BY <1>1, <1>2, <1>4
  <1>5. 0 .. n \subseteq Held
    <2> HIDE DEF Held, n
    <2> QED BY <1>2, <1>3, <1>4, UpTo
  <1>6. n \in 0 .. n
    BY <1>2
  <1>7. h[n] \in Nat
    BY <1>5, <1>6
  <1> QED BY <1>1, <1>7

\* Only the children's counts matter.
LEMMA AddUpSame ==
  ASSUME NEW Dom, NEW list \in Seq(Dom), NEW count, NEW other, NEW start \in Nat,
         \A k \in DOMAIN list : count[list[k]] \in Nat /\ count[list[k]] = other[list[k]]
  PROVE  AddUp(count, start, list) = AddUp(other, start, list)
  <1>1. PICK h : /\ h[0] = start
                 /\ \A k \in 1 .. Len(list) : h[k] = h[k - 1] + count[list[k]]
                 /\ AddUp(count, start, list) = h[Len(list)]
    BY AddUpStages
  <1>2. PICK i : /\ i[0] = start
                 /\ \A k \in 1 .. Len(list) : i[k] = i[k - 1] + other[list[k]]
                 /\ AddUp(other, start, list) = i[Len(list)]
    <2>1. \A k \in DOMAIN list : other[list[k]] \in Nat
      OBVIOUS
    <2> QED BY <2>1, AddUpStages
  <1> DEFINE n == Len(list)
             Held == {k \in 0 .. n : h[k] = i[k]}
  <1>3. n \in Nat /\ DOMAIN list = 1 .. n
    OBVIOUS
  <1>4. 0 \in Held
    BY <1>1, <1>2, <1>3
  <1>5. ASSUME NEW k \in 1 .. n, k - 1 \in Held PROVE k \in Held
    <2>1. count[list[k]] = other[list[k]] /\ k \in 0 .. n
      BY <1>3
    <2> QED BY <1>1, <1>2, <1>5, <2>1
  <1>6. 0 .. n \subseteq Held
    <2> HIDE DEF Held, n
    <2> QED BY <1>3, <1>4, <1>5, UpTo
  <1>7. n \in 0 .. n
    BY <1>3
  <1>8. h[n] = i[n]
    BY <1>6, <1>7
  <1> QED BY <1>1, <1>2, <1>8

\* What NumOfDescendant(v) counts for u if the nodes below have these counts.
Sum(count, v, u) ==
  IF u = v \/ ~status[u] THEN AddUp(count, num_descendant[u], children[u]) ELSE num_descendant[u]

LEMMA SumRight ==
  ASSUME KidsTyped, CountTyped, NEW v, NEW u \in DOMAIN nodes, NEW count, NEW other,
         \A c \in Kids(u) : count[c] \in Nat /\ count[c] = other[c]
  PROVE  /\ Sum(count, v, u) \in Nat
         /\ Sum(count, v, u) = Sum(other, v, u)
         /\ children[u] = <<>> => Sum(count, v, u) = num_descendant[u]
  <1>1. children[u] \in Seq(DOMAIN nodes) /\ num_descendant[u] \in Nat
    BY DEF KidsTyped, CountTyped
  <1>2. \A k \in DOMAIN children[u] : children[u][k] \in Kids(u)
    BY DEF Kids
  <1>3. \A k \in DOMAIN children[u] :
          count[children[u][k]] \in Nat /\ count[children[u][k]] = other[children[u][k]]
    BY <1>2
  <1>4. /\ AddUp(count, num_descendant[u], children[u]) \in Nat
        /\ children[u] = <<>> => AddUp(count, num_descendant[u], children[u]) = num_descendant[u]
    BY <1>1, <1>3, AddUpRight
  <1>5. AddUp(count, num_descendant[u], children[u]) = AddUp(other, num_descendant[u], children[u])
    BY <1>1, <1>3, AddUpSame
  <1> QED BY <1>1, <1>4, <1>5 DEF Sum

Solution(f, S, v) == f = [u \in S |-> Sum(f, v, u)]

LEMMA CountExists ==
  ASSUME KidsTyped, CountTyped, NEW v \in DOMAIN nodes, Acyclic(v)
  PROVE  \E f : Solution(f, Within(v), v)
  <1> DEFINE W == Within(v)
             Solved(S) == /\ \A u \in S : Kids(u) \subseteq S
                          /\ \E f \in [S -> Nat] : Solution(f, S, v)
             Size(S) == Cardinality(W \ S)
             T == {Size(S) : S \in {X \in SUBSET W : Solved(X)}}
  <1>1. W \in SUBSET DOMAIN nodes /\ \A u \in W : Kids(u) \subseteq W
    BY WithinFacts
  <1>2. IsFiniteSet(W)
    <2>1. DOMAIN nodes = 1 .. Len(nodes) /\ Len(nodes) \in Nat
      BY DEF KidsTyped
    <2>2. IsFiniteSet(DOMAIN nodes)
      BY <2>1, FS_Interval
    <2> QED BY <1>1, <2>2, FS_Subset
  <1>3. \A S \in SUBSET W : IsFiniteSet(W \ S) /\ Size(S) \in Nat
    BY <1>2, FS_Subset, FS_CardinalityType
  <1>4. Solved({})
    <2> DEFINE f == [u \in {} |-> 0]
    <2>1. f \in [{} -> Nat] /\ f = [u \in {} |-> Sum(f, v, u)]
      OBVIOUS
    <2> QED BY <2>1 DEF Solution
  <1>5. PICK n \in T : \A m \in T : n <= m
    <2>1. T \in SUBSET Nat /\ T # {}
      BY <1>3, <1>4
    <2> HIDE DEF T
    <2> QED BY <2>1, LeastNumber
  <1>6. PICK S \in SUBSET W : Solved(S) /\ n = Size(S)
    BY <1>5
  <1> HIDE DEF W
  <1>7. PICK f \in [S -> Nat] : Solution(f, S, v)
    BY <1>6
  <1>8. ASSUME S # W PROVE FALSE
    <2> DEFINE R == W \ S
    <2>1. R # {} /\ R \in SUBSET Within(v)
      BY <1>6, <1>8 DEF W
    <2>2. PICK u \in R : \A c \in Kids(u) : c \notin R
      <3> HIDE DEF R
      <3> QED BY <2>1, Lowest
    <2>3. u \in W /\ u \notin S /\ Kids(u) \subseteq S /\ u \in DOMAIN nodes
      BY <1>1, <2>2
    <2> DEFINE Q == S \cup {u}
               g == [x \in Q |-> IF x = u THEN Sum(f, v, u) ELSE f[x]]
    <2>4. ASSUME NEW x \in S PROVE f[x] = Sum(f, v, x) /\ f[x] \in Nat
      BY <1>7 DEF Solution
    <2>5. \A x \in S : g[x] = f[x]
      BY <2>3
    <2>6. ASSUME NEW x \in Q PROVE Sum(f, v, x) \in Nat /\ Sum(f, v, x) = Sum(g, v, x)
      <3>1. Kids(x) \subseteq S /\ x \in DOMAIN nodes
        BY <1>1, <1>6, <2>3
      <3>2. \A c \in Kids(x) : f[c] \in Nat /\ f[c] = g[c]
        BY <2>4, <2>5, <3>1
      <3> HIDE DEF g
      <3> QED BY <3>1, <3>2, SumRight
    <2>7. ASSUME NEW x \in Q PROVE g[x] = Sum(f, v, x)
      BY <2>3, <2>4
    <2>8. g = [x \in Q |-> Sum(g, v, x)] /\ g \in [Q -> Nat]
      <3>1. DOMAIN g = Q /\ g = [x \in Q |-> g[x]]
        OBVIOUS
      <3>2. \A x \in Q : g[x] = Sum(g, v, x) /\ g[x] \in Nat
        BY <2>6, <2>7
      <3> HIDE DEF g, Q
      <3> QED BY <3>1, <3>2
    <2>9. Q \in SUBSET W /\ Solved(Q)
      <3>1. \A x \in Q : Kids(x) \subseteq Q
        BY <1>6, <2>3
      <3> HIDE DEF g
      <3> QED BY <2>3, <2>8, <3>1 DEF Solution
    <2>10. Size(Q) = Size(S) - 1
      <3>1. W \ Q = (W \ S) \ {u} /\ u \in W \ S
        BY <2>3
      <3>2. IsFiniteSet(W \ S)
        BY <1>3
      <3>3. Cardinality((W \ S) \ {u}) = Cardinality(W \ S) - 1
        BY <3>1, <3>2, FS_RemoveElement
      <3> QED BY <3>1, <3>3
    <2>11. Size(Q) \in T /\ Size(S) \in Nat
      BY <1>3, <2>9
    <2> HIDE DEF Size, T
    <2> QED BY <1>5, <1>6, <2>10, <2>11
  <1> QED BY <1>7, <1>8 DEF W

\* NumOfDescendant finds a solution, and leaves the nodes elsewhere alone.
Counting(count, v) ==
  /\ \A u \in Within(v) : count[u] \in Nat /\ count[u] = Sum(count, v, u)
  /\ NumOfDescendant(v) =
       [u \in DOMAIN nodes |-> IF u \in Within(v) THEN count[u] ELSE num_descendant[u]]

LEMMA NumOfDescendantSolves ==
  ASSUME KidsTyped, CountTyped, NEW v \in DOMAIN nodes, Acyclic(v)
  PROVE  \E count : Counting(count, v)
  <1> DEFINE W == Within(v)
             Body(f) == [u \in W |-> IF u = v \/ ~status[u]
                           THEN FoldLeft(LAMBDA n, c : n + f[c], num_descendant[u], children[u])
                           ELSE num_descendant[u]]
             Count == CHOOSE f : f = Body(f)
  <1>1. NumOfDescendant(v) =
          [u \in DOMAIN nodes |-> IF u \in W THEN Count[u] ELSE num_descendant[u]]
    BY DEF NumOfDescendant
  <1>2. \A f : Body(f) = [u \in W |-> Sum(f, v, u)]
    BY DEF Sum, AddUp
  <1>3. Count = Body(Count)
    <2>1. PICK f : f = [u \in W |-> Sum(f, v, u)]
      BY CountExists DEF Solution
    <2>2. f = Body(f)
      BY <1>2, <2>1
    <2> HIDE DEF Body
    <2> QED BY <2>2
  <1>4. \A u \in W : Count[u] = Sum(Count, v, u)
    <2>1. Count = [u \in W |-> Sum(Count, v, u)]
      BY <1>2, <1>3
    <2> HIDE DEF Count
    <2> QED BY <2>1
  <1> HIDE DEF Count
  <1>5. W \in SUBSET DOMAIN nodes /\ \A u \in W : Kids(u) \subseteq W
    BY WithinFacts
  <1>6. \A u \in W : Count[u] \in Nat
    <2> DEFINE R == {u \in W : Count[u] \notin Nat}
    <2>1. ASSUME R # {} PROVE FALSE
      <3>1. R \in SUBSET Within(v)
        OBVIOUS
      <3>2. PICK u \in R : \A c \in Kids(u) : c \notin R
        <4> HIDE DEF R
        <4> QED BY <2>1, <3>1, Lowest
      <3>3. \A c \in Kids(u) : Count[c] \in Nat
        BY <1>5, <3>2
      <3>4. Sum(Count, v, u) \in Nat
        BY <1>5, <3>3, SumRight
      <3> QED BY <1>4, <3>2, <3>4
    <2> QED BY <2>1
  <1> QED BY <1>1, <1>4, <1>6 DEF Counting

\* findRoot's counts for a node and everything below it.
LEMMA NumOfDescendantRight ==
  ASSUME KidsTyped, CountTyped, NEW v \in DOMAIN nodes, Acyclic(v)
  PROVE  /\ NumOfDescendant(v) \in [DOMAIN nodes -> Nat]
         /\ \A u \in DOMAIN nodes :
              children[u] = <<>> => NumOfDescendant(v)[u] = num_descendant[u]
  <1>1. PICK count : Counting(count, v)
    BY NumOfDescendantSolves
  <1>2. /\ \A u \in Within(v) : count[u] \in Nat /\ count[u] = Sum(count, v, u)
        /\ NumOfDescendant(v) =
             [u \in DOMAIN nodes |-> IF u \in Within(v) THEN count[u] ELSE num_descendant[u]]
    BY <1>1 DEF Counting
  <1>3. Within(v) \in SUBSET DOMAIN nodes /\ \A u \in Within(v) : Kids(u) \subseteq Within(v)
    BY WithinFacts
  <1>4. ASSUME NEW u \in Within(v), children[u] = <<>> PROVE count[u] = num_descendant[u]
    <2>1. \A c \in Kids(u) : count[c] \in Nat
      BY <1>2, <1>3
    <2> QED BY <1>2, <1>3, <1>4, <2>1, SumRight
  <1> QED BY <1>2, <1>4 DEF CountTyped
-----------------------------------------------------------------------------
(***************************************************************************)
(* The links of a line.                                                    *)
(***************************************************************************)
LEMMA FindRight ==
  ASSUME KidsTyped, NEW name, NEW n \in Nat
  PROVE  Find(name, n) = 0 \/ (Find(name, n) \in DOMAIN nodes /\ nodes[Find(name, n)] = name)
  <1> DEFINE found == {i \in DOMAIN nodes : i <= n /\ nodes[i] = name}
  <1>1. Find(name, n) = IF found = {} THEN 0 ELSE Min(found)
    BY DEF Find
  <1>2. found \in SUBSET Nat
    <2>1. DOMAIN nodes = 1 .. Len(nodes) /\ Len(nodes) \in Nat
      BY DEF KidsTyped
    <2> QED BY <2>1
  <1>3. CASE found # {}
    <2>1. Min(found) \in found
      <3> HIDE DEF found
      <3> QED BY <1>2, <1>3, MinInside
    <2> QED BY <1>1, <1>3, <2>1
  <1> HIDE DEF found
  <1> QED BY <1>1, <1>3

KidLists == [DOMAIN nodes -> Seq(DOMAIN nodes)]

LEMMA AppendLink ==
  ASSUME NEW kids \in KidLists, NEW f \in DOMAIN nodes, NEW c \in DOMAIN nodes,
         NEW linked, linked = [kids EXCEPT ![f] = Append(@, c)]
  PROVE  /\ linked \in KidLists
         /\ \A g \in DOMAIN nodes : \A j \in DOMAIN linked[g] :
              \/ j \in DOMAIN kids[g] /\ linked[g][j] = kids[g][j]
              \/ g = f /\ j = Len(kids[f]) + 1 /\ linked[g][j] = c
         /\ SingleFather(kids) /\ (\A g \in DOMAIN nodes : \A j \in DOMAIN kids[g] : kids[g][j] # c)
              => SingleFather(linked)
  <1>1. /\ \A g \in DOMAIN nodes : kids[g] \in Seq(DOMAIN nodes)
        /\ DOMAIN kids = DOMAIN nodes /\ DOMAIN linked = DOMAIN nodes
        /\ \A g \in DOMAIN nodes : linked[g] = IF g = f THEN Append(kids[f], c) ELSE kids[g]
    BY DEF KidLists
  <1>2. Append(kids[f], c) \in Seq(DOMAIN nodes)
    BY <1>1
  <1>3. linked \in KidLists
    BY <1>1, <1>2 DEF KidLists
  <1>4. ASSUME NEW g \in DOMAIN nodes, NEW j \in DOMAIN linked[g]
        PROVE  \/ j \in DOMAIN kids[g] /\ linked[g][j] = kids[g][j]
               \/ g = f /\ j = Len(kids[f]) + 1 /\ linked[g][j] = c
    <2>1. CASE g = f
      <3>1. kids[f] \in Seq(DOMAIN nodes) /\ linked[g] = Append(kids[f], c)
        BY <1>1, <2>1
      <3> QED BY <1>4, <2>1, <3>1
    <2>2. CASE g # f
      BY <1>1, <1>4, <2>2
    <2> QED BY <2>1, <2>2
  <1>5. ASSUME SingleFather(kids), \A g \in DOMAIN nodes : \A j \in DOMAIN kids[g] : kids[g][j] # c
        PROVE  SingleFather(linked)
    <2>1. ASSUME NEW g \in DOMAIN nodes, NEW h \in DOMAIN nodes, NEW j \in DOMAIN linked[g],
                 NEW k \in DOMAIN linked[h], linked[g][j] = linked[h][k]
          PROVE  g = h /\ j = k
      <3>1. \/ j \in DOMAIN kids[g] /\ linked[g][j] = kids[g][j]
            \/ g = f /\ j = Len(kids[f]) + 1 /\ linked[g][j] = c
        BY <1>4
      <3>2. \/ k \in DOMAIN kids[h] /\ linked[h][k] = kids[h][k]
            \/ h = f /\ k = Len(kids[f]) + 1 /\ linked[h][k] = c
        BY <1>4
      <3>3. j \in DOMAIN kids[g] /\ k \in DOMAIN kids[h] /\ kids[g][j] = kids[h][k] =>
              g = h /\ j = k
        BY <1>1, <1>5 DEF SingleFather
      <3> QED BY <1>5, <2>1, <3>1, <3>2, <3>3
    <2> QED BY <1>1, <2>1 DEF SingleFather
  <1> QED BY <1>3, <1>4, <1>5

Links(kids, father, names, n) ==
  FoldLeft(LAMBDA linked, name : CreatTree(linked, father, name, n), kids, names)

\* The links after each name.
LinkStages(h, kids, father, names, limit) ==
  /\ h[0] = kids
  /\ \A k \in 1 .. Len(names) : h[k] = CreatTree(h[k - 1], father, names[k], limit)
  /\ Links(kids, father, names, limit) = h[Len(names)]

LEMMA LinksStages ==
  ASSUME KidsTyped, NEW kids \in KidLists, NEW father, NEW names \in Seq(Tokens), NEW limit \in Nat
  PROVE  \E h : LinkStages(h, kids, father, names, limit)
  <1> DEFINE n == Len(names)
             D == 1 .. n
             V == KidLists
             base == kids
             g == [p \in D \X V |-> CreatTree(p[2], father, names[p[1]], limit)]
             Iter(f) == [s \in SUBSET D |-> IF s = {} THEN base
                                           ELSE CreatTree(f[s \ {Max(s)}], father, names[Max(s)], limit)]
             chosen == CHOOSE f : f = Iter(f)
             h == [k \in 0 .. n |-> chosen[1 .. k]]
  <1>1. n \in Nat /\ DOMAIN names = D /\ base \in V
    OBVIOUS
  <1>2. g \in [D \X V -> V]
    <2>1. ASSUME NEW p \in D \X V PROVE CreatTree(p[2], father, names[p[1]], limit) \in V
      <3>1. p[2] \in KidLists
        BY <2>1
      <3> DEFINE x == Find(father, limit)
                 y == Find(names[p[1]], limit)
      <3>2. CASE x # 0 /\ y # 0
        <4>1. x \in DOMAIN nodes /\ y \in DOMAIN nodes
          BY <3>2, FindRight
        <4> HIDE DEF x, y
        <4>2. [p[2] EXCEPT ![x] = Append(@, y)] \in KidLists
          BY <3>1, <4>1, AppendLink
        <4> QED BY <3>2, <4>2 DEF CreatTree, x, y
      <3>3. CASE x = 0 \/ y = 0
        BY <3>1, <3>3 DEF CreatTree
      <3> QED BY <3>2, <3>3
    <2> HIDE DEF D, V
    <2> QED BY <2>1
  <1>3. PICK f \in [SUBSET D -> V] : SeqSolves(f, n, base, g)
    <2> HIDE DEF g, V, base, n
    <2> QED BY <1>1, <1>2, SeqRecursion
  <1>4. ASSUME NEW s \in SUBSET D
        PROVE  f[s] = IF s = {} THEN base ELSE CreatTree(f[s \ {Max(s)}], father, names[Max(s)], limit)
    <2> HIDE DEF V, base, n
    <2>1. CASE s = {}
      BY <1>3, <2>1 DEF SeqSolves
    <2>2. CASE s # {}
      <3>1. Max(s) \in D
        BY <1>1, <2>2, MaxInside
      <3>2. <<Max(s), f[s \ {Max(s)}]>> \in D \X V
        BY <1>3, <3>1
      <3>3. g[<<Max(s), f[s \ {Max(s)}]>>] = CreatTree(f[s \ {Max(s)}], father, names[Max(s)], limit)
        BY <3>2
      <3> HIDE DEF g
      <3> QED BY <1>3, <2>2, <3>3 DEF SeqSolves
    <2> QED BY <2>1, <2>2
  <1>5. f = Iter(f)
    <2> HIDE DEF D, g, V, base
    <2> QED BY <1>3, <1>4
  <1>6. chosen = Iter(chosen)
    <2> HIDE DEF Iter
    <2> QED BY <1>5
  <1>7. Links(kids, father, names, limit) = chosen[D]
    BY <1>1 DEF Links, FoldLeft, MapThenFoldSet
  <1>8. h[0] = base
    <2>1. 1 .. 0 = {} /\ {} \in SUBSET D
      OBVIOUS
    <2>2. chosen[{}] = base
      BY <1>6, <2>1
    <2> HIDE DEF chosen, base, n
    <2> QED BY <1>1, <2>1, <2>2
  <1>9. ASSUME NEW k \in D PROVE h[k] = CreatTree(h[k - 1], father, names[k], limit)
    <2>1. 1 .. k \in SUBSET D /\ 1 .. k # {} /\ k - 1 \in 0 .. n /\ k \in 0 .. n
      <3> HIDE DEF V, base, n
      <3>1. n \in Nat /\ k \in Nat /\ 1 <= k /\ k <= n
        BY <1>1
      <3>2. k \in 1 .. k /\ k - 1 \in 0 .. n /\ k \in 0 .. n
        BY <3>1
      <3>3. \A x \in 1 .. k : x \in D
        BY <3>1
      <3> QED BY <3>2, <3>3
    <2>2. Max(1 .. k) = k /\ (1 .. k) \ {Max(1 .. k)} = 1 .. k - 1
      BY <1>1, MaxOfInterval
    <2>3. chosen[1 .. k] = CreatTree(chosen[(1 .. k) \ {Max(1 .. k)}], father, names[Max(1 .. k)], limit)
      <3> HIDE DEF chosen, base
      <3> QED BY <1>6, <2>1
    <2> HIDE DEF chosen, n
    <2> QED BY <2>1, <2>2, <2>3
  <1>10. Links(kids, father, names, limit) = h[n]
    <2> HIDE DEF chosen, n
    <2> QED BY <1>1, <1>7
  <1> HIDE DEF h
  <1> QED BY <1>8, <1>9, <1>10 DEF LinkStages

\* No name is new and listed twice.
Fresh(kids, names) ==
  /\ SingleFather(kids)
  /\ \A i, k \in DOMAIN names : names[i] = names[k] => i = k
  /\ \A f \in DOMAIN nodes : \A j \in DOMAIN kids[f] : \A i \in DOMAIN names :
       nodes[kids[f][j]] # names[i]

LEMMA LinksRight ==
  ASSUME KidsTyped, NEW kids \in KidLists, NEW father, NEW names \in Seq(Tokens), NEW limit \in Nat
  PROVE  /\ Links(kids, father, names, limit) \in KidLists
         /\ \A f \in DOMAIN nodes : \A j \in DOMAIN Links(kids, father, names, limit)[f] :
              \/ \E k \in DOMAIN kids[f] : Links(kids, father, names, limit)[f][j] = kids[f][k]
              \/ /\ nodes[f] = father
                 /\ \E i \in DOMAIN names :
                      nodes[Links(kids, father, names, limit)[f][j]] = names[i]
         /\ Fresh(kids, names) => SingleFather(Links(kids, father, names, limit))
  <1>0. PICK h : LinkStages(h, kids, father, names, limit)
    BY LinksStages
  <1>1. /\ h[0] = kids
        /\ \A k \in 1 .. Len(names) : h[k] = CreatTree(h[k - 1], father, names[k], limit)
        /\ Links(kids, father, names, limit) = h[Len(names)]
    BY <1>0 DEF LinkStages
  <1> DEFINE n == Len(names)
             From(x, k) ==
               \A f \in DOMAIN nodes : \A j \in DOMAIN x[f] :
                 \/ \E i \in DOMAIN kids[f] : x[f][j] = kids[f][i]
                 \/ nodes[f] = father /\ \E i \in 1 .. k : nodes[x[f][j]] = names[i]
             Good(x, k) == /\ x \in KidLists /\ From(x, k)
                           /\ Fresh(kids, names) => SingleFather(x)
             Held == {k \in 0 .. n : Good(h[k], k)}
  <1>2. n \in Nat /\ DOMAIN names = 1 .. n
    OBVIOUS
  <1>3. 0 \in Held
    BY <1>1, <1>2 DEF Fresh
  <1>4. ASSUME NEW k \in 1 .. n, k - 1 \in Held PROVE k \in Held
    <2> DEFINE old == h[k - 1]
               x == Find(father, limit)
               y == Find(names[k], limit)
    <2>1. Good(old, k - 1) /\ k \in 0 .. n /\ k \in 1 .. k /\ \A i \in 1 .. k - 1 : i \in 1 .. k
      BY <1>2, <1>4
    <2>2. h[k] = IF x = 0 \/ y = 0 THEN old ELSE [old EXCEPT ![x] = Append(@, y)]
      BY <1>1 DEF CreatTree
    <2>3. (x # 0 => x \in DOMAIN nodes /\ nodes[x] = father)
            /\ (y # 0 => y \in DOMAIN nodes /\ nodes[y] = names[k])
      BY FindRight
    <2> HIDE DEF old, x, y
    <2>4. CASE x = 0 \/ y = 0
      <3>1. h[k] = old
        BY <2>2, <2>4
      <3>2. From(old, k)
        BY <2>1
      <3> HIDE DEF From
      <3> QED BY <2>1, <3>1, <3>2
    <2>5. CASE ~(x = 0 \/ y = 0)
      <3>1. x \in DOMAIN nodes /\ y \in DOMAIN nodes /\ old \in KidLists
        BY <2>1, <2>3, <2>5
      <3>2. h[k] = [old EXCEPT ![x] = Append(@, y)]
        BY <2>2, <2>5
      <3>3. /\ h[k] \in KidLists
            /\ \A g \in DOMAIN nodes : \A j \in DOMAIN h[k][g] :
                 \/ j \in DOMAIN old[g] /\ h[k][g][j] = old[g][j]
                 \/ g = x /\ j = Len(old[x]) + 1 /\ h[k][g][j] = y
            /\ SingleFather(old) /\ (\A g \in DOMAIN nodes : \A j \in DOMAIN old[g] : old[g][j] # y)
                 => SingleFather(h[k])
        BY <3>1, <3>2, AppendLink
      <3>4. From(h[k], k)
        <4>1. ASSUME NEW g \in DOMAIN nodes, NEW j \in DOMAIN h[k][g]
              PROVE  \/ \E i \in DOMAIN kids[g] : h[k][g][j] = kids[g][i]
                     \/ nodes[g] = father /\ \E i \in 1 .. k : nodes[h[k][g][j]] = names[i]
          <5>1. CASE j \in DOMAIN old[g] /\ h[k][g][j] = old[g][j]
            BY <2>1, <5>1
          <5>2. CASE g = x /\ j = Len(old[x]) + 1 /\ h[k][g][j] = y
            BY <2>1, <2>3, <2>5, <5>2
          <5> QED BY <3>3, <4>1, <5>1, <5>2
        <4> QED BY <4>1
      <3>5. ASSUME Fresh(kids, names) PROVE SingleFather(h[k])
        <4>1. ASSUME NEW g \in DOMAIN nodes, NEW j \in DOMAIN old[g], old[g][j] = y PROVE FALSE
          <5>1. nodes[old[g][j]] = names[k] /\ k \in DOMAIN names
            BY <1>2, <2>3, <2>5, <4>1
          <5>2. CASE \E i \in DOMAIN kids[g] : old[g][j] = kids[g][i]
            BY <3>5, <5>1, <5>2 DEF Fresh
          <5>3. CASE \E i \in 1 .. k - 1 : nodes[old[g][j]] = names[i]
            <6>1. PICK i \in 1 .. k - 1 : nodes[old[g][j]] = names[i]
              BY <5>3
            <6>2. i \in DOMAIN names /\ i # k
              BY <1>2, <6>1
            <6> QED BY <3>5, <5>1, <6>1, <6>2 DEF Fresh
          <5> QED BY <2>1, <4>1, <5>2, <5>3
        <4> QED BY <2>1, <3>3, <3>5, <4>1
      <3> HIDE DEF From
      <3> QED BY <2>1, <3>3, <3>4, <3>5
    <2> QED BY <2>4, <2>5
  <1>5. 0 .. n \subseteq Held
    <2> HIDE DEF Held, n
    <2> QED BY <1>2, <1>3, <1>4, UpTo
  <1>6. n \in 0 .. n
    BY <1>2
  <1>7. Good(h[n], n)
    <2> HIDE DEF Good, n
    <2> QED BY <1>5, <1>6
  <1> QED BY <1>1, <1>2, <1>7
LEMMA ChildNamesRight ==
  ASSUME NEW line \in InputLine
  PROVE  /\ line \in Seq(Tokens) /\ line[1] \in Tokens /\ Len(line) \in Nat \ {0}
         /\ ChildNames(line) \in Seq(Tokens)
         /\ Len(ChildNames(line)) = IF Len(line) > 2 THEN Len(line) - 2 ELSE 0
         /\ \A i \in 1 .. Len(line) - 2 : ChildNames(line)[i] = line[i + 2]
  <1>1. line \in Seq(Tokens) /\ Len(line) \in Nat \ {0} /\ DOMAIN line = 1 .. Len(line)
    BY DEF InputLine
  <1>2. 1 \in DOMAIN line /\ line[1] \in Tokens
    BY <1>1
  <1>3. CASE Len(line) > 2
    <2>1. 3 \in 1 .. Len(line) + 1 /\ Len(line) \in 3 - 1 .. Len(line)
      BY <1>1, <1>3
    <2>2. /\ SubSeq(line, 3, Len(line)) \in Seq(Tokens)
          /\ Len(SubSeq(line, 3, Len(line))) = Len(line) - 2
          /\ \A i \in 1 .. Len(line) - 2 : SubSeq(line, 3, Len(line))[i] = line[i + 2]
      BY <1>1, <2>1
    <2> QED BY <1>1, <1>2, <1>3, <2>2 DEF ChildNames
  <1>4. CASE ~(Len(line) > 2)
    <2>1. SubSeq(line, 3, Len(line)) = <<>> /\ 1 .. Len(line) - 2 = {}
      BY <1>1, <1>4
    <2> QED BY <1>1, <1>2, <1>4, <2>1 DEF ChildNames
  <1> QED BY <1>3, <1>4

\* The next line, where there is one.
LEMMA LineRight ==
  ASSUME TreeTyped, at < Len(file)
  PROVE  /\ Line \in InputLine /\ at + 1 \in 0 .. Len(file)
         /\ Leftover(Line) \in Nat
  <1>1. file \in Seq(InputLine) /\ at \in 0 .. Len(file) /\ Len(file) \in Nat
    BY NodeTreeAssumption DEF TreeTyped, InputLine
  <1>2. at + 1 \in DOMAIN file /\ at + 1 \in 0 .. Len(file)
    BY <1>1
  <1>3. Line \in InputLine
    BY <1>1, <1>2 DEF Line
  <1>4. Len(Line) \in Nat
    BY <1>3, ChildNamesRight
  <1>5. Leftover(Line) \in Nat
    BY <1>4, NodeTreeAssumption DEF Leftover, TreeTyped
  <1> QED BY <1>2, <1>3, <1>5

\* Two equal names further on are two equal names.
LEMMA LoopGrows ==
  ASSUME NEW names \in Seq(Tokens), NEW more \in Seq(Tokens), ~FindDAGLoop(names \o more)
  PROVE  /\ ~FindDAGLoop(names)
         /\ \A i, k \in DOMAIN more : more[i] = more[k] => i = k
         /\ \A i \in DOMAIN more : more[i] \notin Range(names)
  <1>1. /\ DOMAIN names = 1 .. Len(names) /\ Len(names) \in Nat
        /\ DOMAIN more = 1 .. Len(more) /\ Len(more) \in Nat
        /\ DOMAIN (names \o more) = 1 .. Len(names) + Len(more)
        /\ \A i \in 1 .. Len(names) : (names \o more)[i] = names[i]
        /\ \A i \in 1 .. Len(more) : (names \o more)[Len(names) + i] = more[i]
    OBVIOUS
  <1>2. \A i, k \in DOMAIN (names \o more) : (names \o more)[i] = (names \o more)[k] => i = k
    BY DEF FindDAGLoop
  <1>3. ~FindDAGLoop(names)
    <2>1. ASSUME NEW i \in DOMAIN names, NEW k \in DOMAIN names, i # k, names[i] = names[k]
          PROVE  FALSE
      <3>1. i \in DOMAIN (names \o more) /\ k \in DOMAIN (names \o more)
        BY <1>1
      <3> QED BY <1>1, <1>2, <2>1, <3>1
    <2> QED BY <2>1 DEF FindDAGLoop
  <1>4. ASSUME NEW i \in DOMAIN more, NEW k \in DOMAIN more, more[i] = more[k] PROVE i = k
    <2>1. Len(names) + i \in DOMAIN (names \o more) /\ Len(names) + k \in DOMAIN (names \o more)
      BY <1>1
    <2>2. Len(names) + i = Len(names) + k
      BY <1>1, <1>2, <1>4, <2>1
    <2> QED BY <1>1, <2>2
  <1>5. ASSUME NEW i \in DOMAIN more, NEW k \in DOMAIN names, more[i] = names[k] PROVE FALSE
    <2>1. Len(names) + i \in DOMAIN (names \o more) /\ k \in DOMAIN (names \o more)
      BY <1>1
    <2>2. Len(names) + i = k
      BY <1>1, <1>2, <1>5, <2>1
    <2> QED BY <1>1, <2>2
  <1> QED BY <1>3, <1>4, <1>5 DEF Range

LEMMA RangeGrows ==
  ASSUME NEW names \in Seq(Tokens), NEW more \in Seq(Tokens)
  PROVE  Range(names \o more) = Range(names) \cup Range(more)
  <1> DEFINE all == names \o more
  <1>1. /\ DOMAIN names = 1 .. Len(names) /\ Len(names) \in Nat
        /\ DOMAIN more = 1 .. Len(more) /\ Len(more) \in Nat
        /\ DOMAIN all = 1 .. Len(names) + Len(more)
        /\ \A i \in 1 .. Len(names) : all[i] = names[i]
        /\ \A i \in 1 .. Len(more) : all[Len(names) + i] = more[i]
    OBVIOUS
  <1> HIDE DEF all
  <1>2. ASSUME NEW i \in DOMAIN all PROVE all[i] \in Range(names) \cup Range(more)
    <2>1. CASE i <= Len(names)
      BY <1>1, <1>2, <2>1 DEF Range
    <2>2. CASE ~(i <= Len(names))
      <3>1. i - Len(names) \in 1 .. Len(more) /\ i = Len(names) + (i - Len(names))
        BY <1>1, <1>2, <2>2
      <3>2. all[i] = more[i - Len(names)]
        BY <1>1, <3>1
      <3> QED BY <1>1, <3>1, <3>2 DEF Range
    <2> QED BY <2>1, <2>2
  <1>3. ASSUME NEW i \in DOMAIN names PROVE names[i] \in Range(all)
    <2>1. i \in DOMAIN all /\ all[i] = names[i]
      BY <1>1, <1>3
    <2> QED BY <2>1 DEF Range
  <1>4. ASSUME NEW i \in DOMAIN more PROVE more[i] \in Range(all)
    <2>1. Len(names) + i \in DOMAIN all /\ all[Len(names) + i] = more[i]
      BY <1>1, <1>4
    <2> QED BY <2>1 DEF Range
  <1>5. Range(all) = Range(names) \cup Range(more)
    BY <1>2, <1>3, <1>4 DEF Range
  <1> QED BY <1>5 DEF all

\* What a line of children does to the links.
LEMMA LinkLineRight ==
  ASSUME TreeTyped, Linked, LinkLine
  PROVE  /\ children' \in KidLists
         /\ visited' = visited \o ChildNames(Line)
         /\ visited' \in Seq(Tokens)
         /\ slot' \in Nat
         /\ \A f \in DOMAIN nodes : \A j \in DOMAIN children'[f] :
              \/ \E k \in DOMAIN children[f] : children'[f][j] = children[f][k]
              \/ /\ nodes[f] = Line[1]
                 /\ \E i \in DOMAIN ChildNames(Line) :
                      nodes[children'[f][j]] = ChildNames(Line)[i]
         /\ ~FindDAGLoop(visited') => SingleFather(children')
  <1> DEFINE names == ChildNames(Line)
             limit == Leftover(Line)
             linked == Links(children, Line[1], names, limit)
  <1>1. visited' = visited \o names /\ slot' = limit /\ at < Len(file)
    BY DEF LinkLine, ParseInputLine, GetLine
  <1>2. children' = linked
    BY DEF LinkLine, Links
  <1>3. names \in Seq(Tokens) /\ limit \in Nat
    BY <1>1, LineRight, ChildNamesRight
  <1>4. visited \in Seq(Tokens) /\ KidsTyped /\ children \in KidLists
    BY DEF TreeTyped, KidsTyped, KidLists
  <1> HIDE DEF names, limit
  <1>5. /\ linked \in KidLists
        /\ \A f \in DOMAIN nodes : \A j \in DOMAIN linked[f] :
             \/ \E k \in DOMAIN children[f] : linked[f][j] = children[f][k]
             \/ /\ nodes[f] = Line[1]
                /\ \E i \in DOMAIN names : nodes[linked[f][j]] = names[i]
        /\ Fresh(children, names) => SingleFather(linked)
    BY <1>3, <1>4, LinksRight
  <1> HIDE DEF linked
  <1>6. visited' \in Seq(Tokens)
    BY <1>1, <1>3, <1>4
  <1>7. ASSUME ~FindDAGLoop(visited \o names) PROVE Fresh(children, names)
    <2>2. /\ ~FindDAGLoop(visited)
          /\ \A i, k \in DOMAIN names : names[i] = names[k] => i = k
          /\ \A i \in DOMAIN names : names[i] \notin Range(visited)
      BY <1>3, <1>4, <1>7, LoopGrows
    <2>3. SingleFather(children)
      BY <2>2 DEF Linked, OneFather
    <2>4. \A f \in DOMAIN nodes : \A j \in DOMAIN children[f] : nodes[children[f][j]] \in Range(visited)
      BY DEF Linked, Kids
    <2> QED BY <2>2, <2>3, <2>4 DEF Fresh
  <1>8. ASSUME ~FindDAGLoop(visited') PROVE SingleFather(children')
    <2>1. ~FindDAGLoop(visited \o names)
      BY <1>1, <1>8
    <2>2. SingleFather(linked)
      BY <1>5, <1>7, <2>1
    <2> QED BY <1>2, <2>2
  <1>9. children' \in KidLists
    BY <1>2, <1>5
  <1>10. ASSUME NEW f \in DOMAIN nodes, NEW j \in DOMAIN children'[f]
         PROVE  \/ \E k \in DOMAIN children[f] : children'[f][j] = children[f][k]
                \/ /\ nodes[f] = Line[1]
                   /\ \E i \in DOMAIN names : nodes[children'[f][j]] = names[i]
    BY <1>2, <1>5, <1>10
  <1> QED BY <1>1, <1>3, <1>6, <1>8, <1>9, <1>10 DEF names
-----------------------------------------------------------------------------
(***************************************************************************)
(* Steps.  Once the file has been read no link changes.                    *)
(***************************************************************************)
Later ==
  /\ UNCHANGED parseVars
  /\ \/ phase = "count" /\ phase' \in {"count", "crashed", "lost", "exec"}
     \/ phase = "exec" /\ phase' \in {"exec", "done"}

LEMMA ExecSteps ==
  ASSUME ExecNodes
  PROVE  phase = "exec" /\ phase' \in {"exec", "done"} /\ UNCHANGED <<parseVars, countVars>>
  <1>1. Executing
    BY DEF ExecNodes, ForkLeaf, ForkInner, ForkFails, ExecLeaf, ExecLeafFails, ExecNode,
           ExecNodeFails, Looping, LoopDone
  <1>2. phase' = phase \/ phase' \in {"exec", "done"}
    BY DEF ExecNodes, ForkLeaf, ForkInner, ForkFails, ExecLeaf, ExecLeafFails, ExecNode,
           ExecNodeFails, Continue
  <1> QED BY <1>1, <1>2 DEF Executing

LEMMA LaterSteps ==
  ASSUME Next
  PROVE  (ReadInput /\ UNCHANGED procVars) \/ Later
  <1>1. CASE ReadInput /\ UNCHANGED procVars
    BY <1>1
  <1>2. CASE FindRoot
    BY <1>2 DEF FindRoot, CountNode, CountCycle, Turn, Later
  <1>3. CASE Start
    BY <1>3 DEF Start, RootKnown, Later
  <1>4. CASE ExecNodes
    BY <1>4, ExecSteps DEF Later
  <1> QED BY <1>1, <1>2, <1>3, <1>4 DEF Next

LEMMA TypedStep ==
  ASSUME TreeTyped, Linked, Next
  PROVE  TreeTyped'
  <1>1. CASE SkipComment
    <2>1. at < Len(file) /\ at' = at + 1
      BY <1>1 DEF SkipComment, GetLine
    <2>2. UNCHANGED <<file, build, phase, linecounter, slot, nodes, children, visited>>
      BY <1>1 DEF SkipComment
    <2>3. at' \in 0 .. Len(file) /\ linecounter \in 0 .. at'
      BY <2>1, LineRight DEF TreeTyped
    <2> QED BY <2>2, <2>3 DEF TreeTyped
  <1>2. CASE CandidateLine \/ NodeLine \/ LinkLine
    <2>1. /\ at < Len(file) /\ at' = at + 1 /\ linecounter' = linecounter + 1
          /\ UNCHANGED <<file, build>>
      BY <1>2 DEF CandidateLine, NodeLine, LinkLine, ParseInputLine, GetLine
    <2>2. at' \in 0 .. Len(file) /\ linecounter' \in 0 .. at'
      BY <2>1, LineRight DEF TreeTyped
    <2>3. phase' \in {"parse", "malformed"}
      BY <1>2 DEF CandidateLine, NodeLine, LinkLine, ParseInputLine, GetLine
    <2>4. CASE CandidateLine
      <3>1. slot' = slot /\ UNCHANGED <<nodes, children, visited>>
        BY <2>4 DEF CandidateLine, ParseInputLine
      <3> QED BY <2>1, <2>2, <2>3, <3>1 DEF TreeTyped
    <2>5. CASE NodeLine
      <3>1. /\ slot' = Len(Line) /\ nodes' = Line /\ visited' = visited
            /\ children' = [i \in DOMAIN Line |-> <<>>]
        BY <2>5 DEF NodeLine, ParseInputLine
      <3>2. Line \in Seq(Tokens) /\ Len(Line) \in Nat
        BY <2>1, LineRight, ChildNamesRight
      <3>3. children' \in [DOMAIN nodes' -> Seq(DOMAIN nodes')]
        BY <3>1
      <3> QED BY <2>1, <2>2, <2>3, <3>1, <3>2, <3>3 DEF TreeTyped
    <2>6. CASE LinkLine
      <3>1. children' \in KidLists /\ visited' \in Seq(Tokens) /\ slot' \in Nat
        BY <2>6, LinkLineRight
      <3>2. nodes' = nodes
        BY <2>6 DEF LinkLine
      <3> QED BY <2>1, <2>2, <2>3, <3>1, <3>2 DEF TreeTyped, KidLists
    <2> QED BY <1>2, <2>4, <2>5, <2>6
  <1>3. CASE EndOfInput
    <2>1. UNCHANGED parseVars /\ phase' \in {"malformed", "loop", "count"}
      BY <1>3 DEF EndOfInput
    <2> QED BY <2>1 DEF TreeTyped, parseVars
  <1>4. CASE Later
    BY <1>4 DEF Later, TreeTyped, parseVars
  <1> QED BY <1>1, <1>2, <1>3, <1>4, LaterSteps DEF ReadInput

LEMMA LinkedStep ==
  ASSUME TreeTyped, Linked, Next
  PROVE  Linked'
  <1>1. CASE SkipComment \/ EndOfInput \/ Later
    <2>1. UNCHANGED <<linecounter, slot, nodes, children, visited>>
      BY <1>1 DEF SkipComment, EndOfInput, Later, parseVars
    <2> QED BY <2>1 DEF Linked, Kids, FindDAGLoop, OneFather
  <1>2. CASE CandidateLine
    <2>1. linecounter = 0 /\ slot' = slot /\ UNCHANGED <<nodes, children, visited>>
      BY <1>2 DEF CandidateLine, ParseInputLine
    <2> QED BY <2>1 DEF Linked, Kids, FindDAGLoop, OneFather
  <1>3. CASE NodeLine
    <2>1. /\ linecounter' = 2 /\ nodes' = Line /\ children' = [i \in DOMAIN Line |-> <<>>]
      BY <1>3 DEF NodeLine, ParseInputLine
    <2>2. \A f \in DOMAIN nodes' : Kids(f)' = {}
      BY <2>1 DEF Kids
    <2>3. OneFather'
      BY <2>1 DEF OneFather, SingleFather
    <2> QED BY <2>1, <2>2, <2>3 DEF Linked
  <1>4. CASE LinkLine
    <2>1. nodes' = nodes /\ linecounter > 1 /\ linecounter' = linecounter + 1 /\ at < Len(file)
      BY <1>4 DEF LinkLine, ParseInputLine, GetLine
    <2>2. /\ visited' = visited \o ChildNames(Line)
          /\ \A f \in DOMAIN nodes : \A j \in DOMAIN children'[f] :
               \/ \E k \in DOMAIN children[f] : children'[f][j] = children[f][k]
               \/ \E i \in DOMAIN ChildNames(Line) :
                    nodes[children'[f][j]] = ChildNames(Line)[i]
          /\ ~FindDAGLoop(visited') => SingleFather(children')
      BY <1>4, LinkLineRight
    <2>3. Range(visited') = Range(visited) \cup Range(ChildNames(Line))
      <3>1. ChildNames(Line) \in Seq(Tokens) /\ visited \in Seq(Tokens)
        BY <2>1, LineRight, ChildNamesRight DEF TreeTyped
      <3> QED BY <2>2, <3>1, RangeGrows
    <2>4. ASSUME NEW f \in DOMAIN nodes, NEW j \in DOMAIN children'[f]
          PROVE  nodes[children'[f][j]] \in Range(visited')
      <3>1. CASE \E k \in DOMAIN children[f] : children'[f][j] = children[f][k]
        BY <2>3, <3>1 DEF Linked, Kids
      <3>2. CASE \E i \in DOMAIN ChildNames(Line) : nodes[children'[f][j]] = ChildNames(Line)[i]
        BY <2>3, <3>2 DEF Range
      <3> QED BY <2>2, <2>4, <3>1, <3>2
    <2>5. \A f \in DOMAIN nodes' : \A c \in Kids(f)' : nodes'[c] \in Range(visited')
      BY <2>1, <2>4 DEF Kids
    <2>6. linecounter \in Nat /\ ~(linecounter' < 2)
      BY <2>1 DEF TreeTyped
    <2>7. ~FindDAGLoop(visited)' => OneFather'
      BY <2>2 DEF FindDAGLoop, OneFather
    <2> QED BY <2>5, <2>6, <2>7 DEF Linked
  <1> QED BY <1>1, <1>2, <1>3, <1>4, LaterSteps DEF ReadInput

LEMMA TestedStep ==
  ASSUME TreeTyped, Linked, Tested, Next
  PROVE  Tested'
  <1>1. CASE SkipComment \/ CandidateLine \/ NodeLine \/ LinkLine
    <2>1. phase' \in {"parse", "malformed"}
      BY <1>1 DEF SkipComment, CandidateLine, NodeLine, LinkLine, ParseInputLine, GetLine
    <2> QED BY <2>1 DEF Tested
  <1>2. CASE EndOfInput
    <2>1. /\ at = Len(file) /\ UNCHANGED parseVars
          /\ phase' = IF slot < 2 THEN "malformed"
                      ELSE IF FindDAGLoop(visited) THEN "loop" ELSE "count"
      BY <1>2 DEF EndOfInput
    <2>2. slot >= 2 => linecounter >= 2
      BY DEF Linked, TreeTyped
    <2>3. slot \in Nat
      BY DEF TreeTyped
    <2> QED BY <2>1, <2>2, <2>3 DEF Tested, parseVars, FindDAGLoop
  <1>3. CASE Later
    BY <1>3 DEF Later, Tested, parseVars, FindDAGLoop
  <1> QED BY <1>1, <1>2, <1>3, LaterSteps DEF ReadInput
LEMMA MaxOfTwo ==
  ASSUME NEW a \in Nat, NEW b \in Nat
  PROVE  Max({a, b}) = IF b > a THEN b ELSE a
  <1>1. Max({a, b}) = CHOOSE x \in {a, b} : \A y \in {a, b} : x >= y
    BY DEF Max
  <1>2. CASE b > a
    BY <1>1, <1>2
  <1>3. CASE ~(b > a)
    BY <1>1, <1>3
  <1> QED BY <1>2, <1>3

LEMMA TurnRight ==
  ASSUME TreeTyped, Counted, Turn
  PROVE  turn \in DOMAIN nodes
  <1>1. DOMAIN nodes = 1 .. Len(nodes) /\ Len(nodes) \in Nat /\ slot \in Nat
    BY DEF TreeTyped
  <1>2. Min({slot, Len(nodes)}) <= Len(nodes)
    <2>1. {slot, Len(nodes)} \in SUBSET Nat /\ {slot, Len(nodes)} # {}
      BY <1>1
    <2> QED BY <2>1, MinInside
  <1>3. Min({slot, Len(nodes)}) \in Nat
    <2>1. {slot, Len(nodes)} \in SUBSET Nat /\ {slot, Len(nodes)} # {}
      BY <1>1
    <2>2. Min({slot, Len(nodes)}) \in {slot, Len(nodes)}
      BY <2>1, MinInside
    <2> QED BY <1>1, <2>2
  <1> QED BY <1>1, <1>2, <1>3 DEF Turn, Counted

LEMMA CountNodeStep ==
  ASSUME TreeTyped, Counted, CountNode
  PROVE  Counted'
  <1> DEFINE counts == NumOfDescendant(turn)
  <1>1. /\ Turn /\ num_descendant' = counts
        /\ status' = [v \in DOMAIN nodes |-> status[v] \/ v \in Within(turn)]
        /\ most' = Max({most, num_descendant'[turn]})
        /\ root' = IF most' > most THEN turn ELSE root
        /\ turn' = turn + 1
        /\ UNCHANGED <<parseVars, phase>>
    BY DEF CountNode
  <1>2. turn \in DOMAIN nodes /\ phase = "count" /\ phase' = "count"
    BY <1>1, TurnRight DEF Turn
  <1>3. Acyclic(turn)
    BY DEF CountNode, Endless, Acyclic
  <1>4. KidsTyped /\ CountTyped /\ \A v \in DOMAIN nodes : children[v] = <<>> => num_descendant[v] = 0
    BY <1>2 DEF TreeTyped, KidsTyped, Counted
  <1>5. /\ counts \in [DOMAIN nodes -> Nat]
        /\ \A u \in DOMAIN nodes : children[u] = <<>> => counts[u] = num_descendant[u]
    BY <1>2, <1>3, <1>4, NumOfDescendantRight
  <1> HIDE DEF counts
  <1>6. \A u \in DOMAIN nodes : children[u] = <<>> => num_descendant'[u] = 0
    BY <1>1, <1>4, <1>5
  <1>7. most \in Nat /\ num_descendant'[turn] \in Nat
    BY <1>1, <1>2, <1>5 DEF Counted
  <1>8. most' = (IF num_descendant'[turn] > most THEN num_descendant'[turn] ELSE most)
    BY <1>1, <1>7, MaxOfTwo
  <1>9. most' \in Nat /\ (root' = turn \/ root' = root)
    BY <1>1, <1>7, <1>8
  <1>10. root' # 0 => children[root'] # <<>>
    <2>1. CASE most' > most
      <3>1. root' = turn /\ num_descendant'[turn] # 0
        BY <1>1, <1>7, <1>8, <2>1
      <3> QED BY <1>2, <1>6, <3>1
    <2>2. CASE ~(most' > most)
      BY <1>1, <2>2 DEF Counted
    <2> QED BY <2>1, <2>2
  <1>11. CountTyped'
    <2>1. status' \in [DOMAIN nodes -> BOOLEAN]
      BY <1>1, <1>4 DEF CountTyped
    <2>2. nodes' = nodes
      BY <1>1 DEF parseVars
    <2> QED BY <1>1, <1>5, <2>1, <2>2 DEF CountTyped
  <1>12. UNCHANGED <<nodes, children>>
    BY <1>1 DEF parseVars
  <1>13. /\ DOMAIN nodes = 1 .. Len(nodes) /\ Len(nodes) \in Nat
         /\ turn' \in 1 .. Len(nodes) + 1 /\ root' \in 0 .. turn' - 1
    <2>1. DOMAIN nodes = 1 .. Len(nodes) /\ Len(nodes) \in Nat
      BY DEF TreeTyped
    <2>2. turn \in 1 .. Len(nodes) /\ root \in 0 .. turn - 1
      BY <1>2, <2>1 DEF Counted
    <2> QED BY <1>1, <1>9, <2>1, <2>2
  <1>14. \A v \in 1 .. turn' - 1 : Acyclic(v)'
    <2>1. \A v \in 1 .. turn' - 1 : Acyclic(v)
      <3>1. \A v \in 1 .. turn' - 1 : v = turn \/ v \in 1 .. turn - 1
        BY <1>1, <1>13
      <3> QED BY <1>3, <3>1 DEF Counted
    <2>2. \A v : Acyclic(v)' <=> Acyclic(v)
      BY <1>12 DEF Acyclic, OnCycle, Below, Within, Kids
    <2> QED BY <2>1, <2>2
  <1>15. DOMAIN num_descendant' = DOMAIN status'
    BY <1>11 DEF CountTyped
  <1> QED BY <1>2, <1>6, <1>9, <1>10, <1>11, <1>12, <1>13, <1>14, <1>15 DEF Counted

LEMMA CountedStep ==
  ASSUME TreeTyped, Linked, Counted, Next
  PROVE  Counted'
  <1>1. CASE SkipComment \/ CandidateLine \/ NodeLine \/ LinkLine
    <2>1. phase' \in {"parse", "malformed"} /\ phase = "parse" /\ UNCHANGED countVars
      BY <1>1 DEF SkipComment, CandidateLine, NodeLine, LinkLine, ParseInputLine, GetLine
    <2>2. turn = 1 /\ root = 0 /\ turn' = 1 /\ root' = 0 /\ most' = most
          /\ num_descendant' = num_descendant /\ status' = status
      BY <2>1 DEF Counted, countVars
    <2>3. Len(nodes') \in Nat
      BY TypedStep DEF TreeTyped
    <2>4. turn' \in 1 .. Len(nodes') + 1 /\ root' \in 0 .. turn' - 1 /\ 1 .. turn' - 1 = {}
      BY <2>2, <2>3
    <2> QED BY <2>1, <2>2, <2>4 DEF Counted
  <1>2. CASE EndOfInput
    <2>1. /\ phase = "parse" /\ phase' \in {"malformed", "loop", "count"} /\ UNCHANGED parseVars
          /\ num_descendant' = [v \in DOMAIN nodes |-> IF v <= slot THEN Len(children[v]) ELSE 0]
          /\ status' = [v \in DOMAIN nodes |-> FALSE]
          /\ UNCHANGED <<turn, most, root>>
      BY <1>2 DEF EndOfInput
    <2>2. \A v \in DOMAIN nodes : children[v] \in Seq(DOMAIN nodes)
      BY DEF TreeTyped
    <2>3. num_descendant' \in [DOMAIN nodes -> Nat]
      BY <2>1, <2>2
    <2>4. \A v \in DOMAIN nodes : children[v] = <<>> => num_descendant'[v] = 0
      BY <2>1
    <2>5. nodes' = nodes /\ children' = children
      BY <2>1 DEF parseVars
    <2>6. CountTyped' /\ DOMAIN num_descendant' = DOMAIN status'
      BY <2>1, <2>3, <2>5 DEF CountTyped
    <2>7. turn' = 1 /\ root' = 0 /\ 1 .. turn' - 1 = {}
      BY <2>1 DEF Counted
    <2>8. most' \in Nat /\ turn' \in 1 .. Len(nodes') + 1 /\ root' \in 0 .. turn' - 1
      BY <2>1, <2>5, <2>7 DEF Counted
    <2> QED BY <2>1, <2>4, <2>5, <2>6, <2>7, <2>8 DEF Counted
  <1>3. CASE CountNode
    BY <1>3, CountNodeStep
  <1>4. CASE CountCycle \/ Start \/ ExecNodes
    <2>1. UNCHANGED <<parseVars, countVars>> /\ phase \in {"count", "exec"}
          /\ phase' \in {"crashed", "lost", "exec", "done"}
          /\ (phase' = "exec" => phase = "exec" \/ root # 0)
          /\ (phase' = "done" => phase = "exec")
      BY <1>4, ExecSteps DEF CountCycle, Turn, Start, RootKnown
    <2>2. UNCHANGED <<nodes, children, num_descendant, status, turn, most, root>>
      BY <2>1 DEF parseVars, countVars
    <2>3. \A v : Acyclic(v)' <=> Acyclic(v)
      BY <2>2 DEF Acyclic, OnCycle, Below, Within, Kids
    <2>4. CountTyped' <=> CountTyped
      BY <2>2 DEF CountTyped
    <2> QED BY <2>1, <2>2, <2>3, <2>4 DEF Counted
  <1> QED BY <1>1, <1>2, <1>3, <1>4 DEF Next, ReadInput, FindRoot
-----------------------------------------------------------------------------
(***************************************************************************)
(* What a node's program adds up.                                          *)
(***************************************************************************)
LEMMA LeavesRight ==
  ASSUME KidsTyped, NEW v \in DOMAIN nodes
  PROVE  /\ Leaves(v) \in SUBSET DOMAIN nodes
         /\ \A c \in Kids(v) : Leaves(c) \subseteq Leaves(v)
         /\ \A u \in Leaves(v) : children[v] # <<>> => \E c \in Kids(v) : u \in Leaves(c)
         /\ children[v] = <<>> => Within(v) = {v} /\ Leaves(v) = {v}
  <1>1. Within(v) = {v} \cup Below(v) /\ Within(v) \in SUBSET DOMAIN nodes
    BY WithinKids, WithinFacts
  <1>2. \A u \in DOMAIN nodes : children[u] \in Seq(DOMAIN nodes)
    BY DEF KidsTyped
  <1>3. \A u \in DOMAIN nodes : IsLeaf(u) <=> children[u] = <<>>
    BY <1>2 DEF IsLeaf, NumChildren
  <1>4. children[v] = <<>> => Kids(v) = {}
    BY DEF Kids
  <1> QED BY <1>1, <1>3, <1>4 DEF Leaves, Below

NatVotes == [DOMAIN nodes -> Nat]
Added(sum, c) == IF c \in DOMAIN out THEN Plus(sum, out[c]) ELSE sum
SumStages(h, list) ==
  /\ h[0] = NoVotes
  /\ \A k \in 1 .. Len(list) : h[k] = Added(h[k - 1], list[k])
SumOfFiles(list) == FoldLeft(LAMBDA sum, c : Added(sum, c), NoVotes, list)

\* The sum after each file.
LEMMA SumOfFilesStages ==
  ASSUME NEW Dom, NEW list \in Seq(Dom), OutTyped(out)
  PROVE  \E h : SumStages(h, list) /\ SumOfFiles(list) = h[Len(list)]
  <1> DEFINE n == Len(list)
             D == 1 .. n
             V == NatVotes
             base == NoVotes
             g == [p \in D \X V |-> Added(p[2], list[p[1]])]
             Iter(f) == [s \in SUBSET D |-> IF s = {} THEN base
                                           ELSE Added(f[s \ {Max(s)}], list[Max(s)])]
             chosen == CHOOSE f : f = Iter(f)
             h == [k \in 0 .. n |-> chosen[1 .. k]]
  <1>1. n \in Nat /\ DOMAIN list = D /\ base \in V
    BY DEF NoVotes, NatVotes
  <1>2. g \in [D \X V -> V]
    <2>1. ASSUME NEW p \in D \X V PROVE Added(p[2], list[p[1]]) \in V
      <3>1. p[2] \in NatVotes
        BY <2>1
      <3>2. ASSUME list[p[1]] \in DOMAIN out PROVE Plus(p[2], out[list[p[1]]]) \in NatVotes
        <4>1. out[list[p[1]]] \in NatVotes
          BY <3>2 DEF OutTyped, NatVotes
        <4> QED BY <3>1, <4>1 DEF Plus, NatVotes
      <3> QED BY <3>1, <3>2 DEF Added
    <2> HIDE DEF D, V
    <2> QED BY <2>1
  <1>3. PICK f \in [SUBSET D -> V] : SeqSolves(f, n, base, g)
    <2> HIDE DEF g, V, base, n
    <2> QED BY <1>1, <1>2, SeqRecursion
  <1>4. ASSUME NEW s \in SUBSET D
        PROVE  f[s] = IF s = {} THEN base ELSE Added(f[s \ {Max(s)}], list[Max(s)])
    <2> HIDE DEF V, base, n
    <2>1. CASE s = {}
      BY <1>3, <2>1 DEF SeqSolves
    <2>2. CASE s # {}
      <3>1. Max(s) \in D
        BY <1>1, <2>2, MaxInside
      <3>2. <<Max(s), f[s \ {Max(s)}]>> \in D \X V
        BY <1>3, <3>1
      <3>3. g[<<Max(s), f[s \ {Max(s)}]>>] = Added(f[s \ {Max(s)}], list[Max(s)])
        BY <3>2
      <3> HIDE DEF g
      <3> QED BY <1>3, <2>2, <3>3 DEF SeqSolves
    <2> QED BY <2>1, <2>2
  <1>5. f = Iter(f)
    <2> HIDE DEF D, g, V, base
    <2> QED BY <1>3, <1>4
  <1>6. chosen = Iter(chosen)
    <2> HIDE DEF Iter
    <2> QED BY <1>5
  <1>7. SumOfFiles(list) = chosen[D]
    BY <1>1 DEF SumOfFiles, FoldLeft, MapThenFoldSet
  <1>8. h[0] = base
    <2>1. 1 .. 0 = {} /\ {} \in SUBSET D
      OBVIOUS
    <2>2. chosen[{}] = base
      BY <1>6, <2>1
    <2> HIDE DEF chosen, base, n
    <2> QED BY <1>1, <2>1, <2>2
  <1>9. ASSUME NEW k \in D PROVE h[k] = Added(h[k - 1], list[k])
    <2>1. 1 .. k \in SUBSET D /\ 1 .. k # {} /\ k - 1 \in 0 .. n /\ k \in 0 .. n
      <3> HIDE DEF V, base, n
      <3>1. n \in Nat /\ k \in Nat /\ 1 <= k /\ k <= n
        BY <1>1
      <3>2. k \in 1 .. k /\ k - 1 \in 0 .. n /\ k \in 0 .. n
        BY <3>1
      <3>3. \A x \in 1 .. k : x \in D
        BY <3>1
      <3> QED BY <3>2, <3>3
    <2>2. Max(1 .. k) = k /\ (1 .. k) \ {Max(1 .. k)} = 1 .. k - 1
      BY <1>1, MaxOfInterval
    <2>3. chosen[1 .. k] = Added(chosen[(1 .. k) \ {Max(1 .. k)}], list[Max(1 .. k)])
      <3> HIDE DEF chosen, base
      <3> QED BY <1>6, <2>1
    <2> HIDE DEF chosen, n
    <2> QED BY <2>1, <2>2, <2>3
  <1>10. SumOfFiles(list) = h[n]
    <2> HIDE DEF chosen, n
    <2> QED BY <1>1, <1>7
  <1> HIDE DEF h
  <1> QED BY <1>8, <1>9, <1>10 DEF SumStages

\* A sum has each leaf's votes once at most, and, if the files of all children are there and
\* complete, the votes of all leaves.
LEMMA SumOfChildrenRight ==
  ASSUME KidsTyped, OneFather, OutTyped(out), NEW v \in DOMAIN nodes, Acyclic(v)
  PROVE  /\ SumOfChildren(v) \in [DOMAIN nodes -> {0, 1}]
         /\ \A u \in DOMAIN nodes : SumOfChildren(v)[u] = 1 => u \in Leaves(v)
         /\ (\A c \in Kids(v) : c \in DOMAIN out /\ Complete(c, out)) /\ children[v] # <<>> =>
              \A u \in Leaves(v) : SumOfChildren(v)[u] = 1
  <1> DEFINE list == children[v]
             n == Len(list)
             All == \A c \in Kids(v) : c \in DOMAIN out /\ Complete(c, out)
             From(x, k) == \A u \in DOMAIN nodes : x[u] = 1 => \E j \in 1 .. k : u \in Leaves(list[j])
             Full(x, k) == \A j \in 1 .. k : \A u \in Leaves(list[j]) : x[u] = 1
             Good(x, k) == /\ x \in [DOMAIN nodes -> {0, 1}] /\ From(x, k) /\ (All => Full(x, k))
  <1>1. list \in Seq(DOMAIN nodes) /\ n \in Nat /\ DOMAIN list = 1 .. n
    BY DEF KidsTyped
  <1>2. SumOfChildren(v) = SumOfFiles(list)
    BY DEF SumOfChildren, SumOfFiles, Added
  <1>3. PICK h : SumStages(h, list) /\ SumOfFiles(list) = h[n]
    BY <1>1, SumOfFilesStages
  <1>4. \A k \in 1 .. n : list[k] \in Kids(v) /\ list[k] \in DOMAIN nodes
    BY <1>1 DEF Kids
  <1>5. \A j, k \in 1 .. n : list[j] = list[k] => j = k
    <2>1. v \in DOMAIN children
      BY DEF KidsTyped
    <2> QED BY <1>1, <2>1 DEF OneFather, SingleFather
  <1>6. \A c \in Kids(v) : Leaves(c) \in SUBSET DOMAIN nodes
    BY KidsInside, LeavesRight
  <1> HIDE DEF list
  <1> DEFINE Held == {k \in 0 .. n : Good(h[k], k)}
  <1>7. 0 \in Held
    <2>1. h[0] = NoVotes
      BY <1>3 DEF SumStages
    <2> HIDE DEF n
    <2> QED BY <1>1, <2>1 DEF NoVotes
  <1>8. ASSUME NEW k \in 1 .. n, k - 1 \in Held PROVE k \in Held
    <2> DEFINE c == list[k]
               old == h[k - 1]
    <2>1. Good(old, k - 1) /\ k \in 0 .. n /\ k \in 1 .. k
          /\ (\A j \in 1 .. k - 1 : j \in 1 .. k /\ j \in 1 .. n /\ j # k)
          /\ (\A j \in 1 .. k : j = k \/ j \in 1 .. k - 1)
      <3> HIDE DEF Good, n
      <3> QED BY <1>1, <1>8
    <2>2. h[k] = Added(old, c)
      BY <1>3 DEF SumStages
    <2>3. c \in Kids(v) /\ c \in DOMAIN nodes
      BY <1>4
    <2>4. \A j \in 1 .. k - 1 : list[j] \in Kids(v) /\ list[j] # c
      BY <1>4, <1>5, <2>1
    <2> HIDE DEF c, old, n
    <2>5. CASE c \in DOMAIN out
      <3>1. h[k] = [u \in DOMAIN nodes |-> old[u] + out[c][u]]
        BY <2>2, <2>5 DEF Added, Plus
      <3>2. /\ out[c] \in [DOMAIN nodes -> {0, 1}]
            /\ \A u \in DOMAIN nodes : out[c][u] = 1 => u \in Leaves(c)
        BY <2>5 DEF OutTyped
      <3>3. ASSUME NEW u \in DOMAIN nodes PROVE ~(old[u] = 1 /\ out[c][u] = 1)
        <4>1. ASSUME old[u] = 1, out[c][u] = 1 PROVE FALSE
          <5>1. PICK j \in 1 .. k - 1 : u \in Leaves(list[j])
            BY <2>1, <4>1
          <5>2. u \in Within(list[j]) /\ u \in Within(c)
            BY <3>2, <4>1, <5>1 DEF Leaves
          <5> QED BY <2>3, <2>4, <5>2, KidsApart
        <4> QED BY <4>1
      <3>4. h[k] \in [DOMAIN nodes -> {0, 1}]
        <4>1. \A u \in DOMAIN nodes : old[u] \in {0, 1} /\ out[c][u] \in {0, 1}
          BY <2>1, <3>2
        <4>2. \A u \in DOMAIN nodes : old[u] + out[c][u] \in {0, 1}
          BY <3>3, <4>1
        <4> QED BY <3>1, <4>2
      <3>5. \A u \in DOMAIN nodes : h[k][u] = 1 <=> old[u] = 1 \/ out[c][u] = 1
        <4>1. \A u \in DOMAIN nodes : old[u] \in {0, 1} /\ out[c][u] \in {0, 1}
          BY <2>1, <3>2
        <4> QED BY <3>1, <3>3, <4>1
      <3>6. From(h[k], k)
        <4>1. ASSUME NEW u \in DOMAIN nodes, h[k][u] = 1 PROVE \E j \in 1 .. k : u \in Leaves(list[j])
          <5>1. CASE old[u] = 1
            BY <2>1, <5>1
          <5>2. CASE out[c][u] = 1
            BY <2>1, <3>2, <5>2 DEF c
          <5> QED BY <3>5, <4>1, <5>1, <5>2
        <4> QED BY <4>1
      <3>7. ASSUME All PROVE Full(h[k], k)
        <4>1. ASSUME NEW j \in 1 .. k, NEW u \in Leaves(list[j]) PROVE h[k][u] = 1
          <5>1. CASE j = k
            <6>1. u \in Leaves(c) /\ u \in DOMAIN nodes /\ out[c][u] = 1
              BY <1>6, <2>3, <3>7, <4>1, <5>1 DEF c, Complete
            <6> QED BY <3>5, <6>1
          <5>2. CASE j \in 1 .. k - 1
            <6>1. u \in DOMAIN nodes /\ old[u] = 1
              BY <1>6, <2>1, <2>4, <3>7, <4>1, <5>2
            <6> QED BY <3>5, <6>1
          <5> QED BY <2>1, <5>1, <5>2
        <4> QED BY <4>1
      <3> HIDE DEF From, Full, All
      <3> QED BY <2>1, <3>4, <3>6, <3>7
    <2>6. CASE c \notin DOMAIN out
      <3>1. h[k] = old /\ ~All
        BY <2>2, <2>3, <2>6 DEF Added
      <3>2. From(old, k)
        BY <2>1
      <3> HIDE DEF From, Full, All
      <3> QED BY <2>1, <3>1, <3>2
    <2> QED BY <2>5, <2>6
  <1>9. 0 .. n \subseteq Held
    <2> HIDE DEF Held, n
    <2> QED BY <1>1, <1>7, <1>8, UpTo
  <1>10. Good(h[n], n)
    <2>1. n \in 0 .. n
      BY <1>1
    <2> HIDE DEF Good, n
    <2> QED BY <1>9, <2>1
  <1> DEFINE sum == h[n]
  <1>11. sum = SumOfChildren(v)
    BY <1>2, <1>3
  <1>12. Good(sum, n)
    BY <1>10
  <1> HIDE DEF sum
  <1>13. \A u \in DOMAIN nodes : sum[u] = 1 => u \in Leaves(v)
    BY <1>4, <1>12, LeavesRight
  <1>14. ASSUME All, children[v] # <<>>, NEW u \in Leaves(v) PROVE sum[u] = 1
    <2>1. PICK c \in Kids(v) : u \in Leaves(c)
      BY <1>14, LeavesRight
    <2>2. PICK k \in 1 .. n : c = list[k]
      BY <1>1 DEF Kids, list
    <2> QED BY <1>12, <1>14, <2>1, <2>2
  <1> QED BY <1>11, <1>12, <1>13, <1>14
-----------------------------------------------------------------------------
(***************************************************************************)
(* Stacks of processes.                                                    *)
(***************************************************************************)
Stacks == Seq(ProcessRecord)

LEMMA CallsRight ==
  ASSUME NEW calls \in Seq(CallRecord) \ {<<>>}
  PROVE  /\ Last(calls) \in CallRecord
         /\ Advanced(calls) \in Seq(CallRecord) \ {<<>>}
         /\ Last(Advanced(calls)) = Call(Last(calls).node, Last(calls).i + 1)
         /\ \A c \in CallRecord : /\ Append(calls, c) \in Seq(CallRecord) \ {<<>>}
                                  /\ Last(Append(calls, c)) = c
         /\ Len(calls) # 1 => Front(calls) \in Seq(CallRecord) \ {<<>>}
  <1> DEFINE n == Len(calls)
  <1>1. /\ calls \in Seq(CallRecord) /\ n \in Nat \ {0} /\ DOMAIN calls = 1 .. n
        /\ calls[n] \in CallRecord
    OBVIOUS
  <1>2. Last(calls) = calls[n]
    BY DEF Last
  <1> DEFINE next == Call(calls[n].node, calls[n].i + 1)
             more == [calls EXCEPT ![n] = next]
  <1>3. Advanced(calls) = more
    BY DEF Advanced
  <1>4. next \in CallRecord
    BY <1>1 DEF CallRecord, Call
  <1> HIDE DEF n, next
  <1>5. more \in Seq(CallRecord) /\ Len(more) = n /\ more[n] = next
    BY <1>1, <1>4, ExceptSeq
  <1>6. more # <<>> /\ Last(more) = next
    BY <1>1, <1>5 DEF Last
  <1>7. ASSUME NEW c \in CallRecord
        PROVE  Append(calls, c) \in Seq(CallRecord) \ {<<>>} /\ Last(Append(calls, c)) = c
    <2>1. /\ Append(calls, c) \in Seq(CallRecord) /\ Len(Append(calls, c)) = n + 1
          /\ Append(calls, c)[n + 1] = c
      BY <1>1 DEF n
    <2>2. Append(calls, c) # <<>>
      BY <1>1, <2>1
    <2> QED BY <2>1, <2>2 DEF Last
  <1>8. ASSUME n # 1 PROVE Front(calls) \in Seq(CallRecord) \ {<<>>}
    <2>1. n - 1 \in Nat \ {0} /\ 1 \in 1 .. n + 1 /\ n - 1 \in 0 .. n
      BY <1>1, <1>8
    <2>2. SubSeq(calls, 1, n - 1) \in Seq(CallRecord) /\ Len(SubSeq(calls, 1, n - 1)) = n - 1
      BY <1>1, <2>1 DEF n
    <2>3. SubSeq(calls, 1, n - 1) # <<>>
      BY <2>1, <2>2
    <2> QED BY <2>2, <2>3 DEF Front, n
  <1> QED BY <1>1, <1>2, <1>3, <1>4, <1>5, <1>6, <1>7, <1>8 DEF next, n

LEMMA ProcessRight ==
  ASSUME NEW p \in ProcessRecord
  PROVE  /\ p.calls \in Seq(CallRecord) \ {<<>>} /\ Top(p) \in CallRecord
         /\ Top(p).node \in Within(root) /\ Top(p).i \in Nat \ {0}
         /\ p.leaf = NoLeaf \/ p.leaf \in Leaves(root)
  <1>1. p.calls \in Seq(CallRecord) \ {<<>>} /\ (p.leaf = NoLeaf \/ p.leaf \in Leaves(root))
    BY DEF ProcessRecord
  <1>2. Top(p) \in CallRecord
    BY <1>1, CallsRight DEF Top
  <1> QED BY <1>1, <1>2 DEF CallRecord

LEMMA ProcessFields ==
  ASSUME NEW calls, NEW leaf
  PROVE  /\ Process(calls, leaf).calls = calls /\ Process(calls, leaf).leaf = leaf
         /\ calls \in Seq(CallRecord) \ {<<>>} /\ (leaf = NoLeaf \/ leaf \in Leaves(root)) =>
              Process(calls, leaf) \in ProcessRecord
  BY DEF Process, ProcessRecord

LEMMA StackMember ==
  ASSUME NEW stack \in Stacks
  PROVE  \A k \in 1 .. Len(stack) : stack[k] \in ProcessRecord
  BY DEF Stacks

LEMMA FrontOfStack ==
  ASSUME NEW stack \in Stacks, stack # <<>>
  PROVE  /\ Len(stack) \in Nat \ {0} /\ DOMAIN stack = 1 .. Len(stack)
         /\ Last(stack) = stack[Len(stack)] /\ Last(stack) \in ProcessRecord
         /\ Front(stack) \in Stacks /\ Len(Front(stack)) = Len(stack) - 1
         /\ \A k \in 1 .. Len(stack) - 1 : Front(stack)[k] = stack[k]
         /\ Front(stack) = <<>> <=> Len(stack) = 1
  <1> DEFINE n == Len(stack)
  <1>1. n \in Nat \ {0} /\ DOMAIN stack = 1 .. n /\ stack[n] \in ProcessRecord
    BY DEF Stacks
  <1>2. Last(stack) = stack[n]
    BY DEF Last
  <1>3. 1 \in 1 .. n + 1 /\ n - 1 \in 0 .. n
    BY <1>1
  <1>4. /\ SubSeq(stack, 1, n - 1) \in Stacks /\ Len(SubSeq(stack, 1, n - 1)) = n - 1
        /\ \A k \in 1 .. n - 1 : SubSeq(stack, 1, n - 1)[k] = stack[k]
    BY <1>1, <1>3 DEF Stacks
  <1>5. SubSeq(stack, 1, n - 1) = <<>> <=> n = 1
    <2> DEFINE s == SubSeq(stack, 1, n - 1)
    <2>1. s \in Stacks /\ Len(s) = n - 1
      BY <1>4
    <2> HIDE DEF s, n
    <2>2. s = <<>> <=> Len(s) = 0
      BY <2>1, EmptySeq DEF Stacks
    <2>3. s = <<>> <=> n = 1
      BY <1>1, <2>1, <2>2
    <2> QED BY <2>3 DEF s
  <1> QED BY <1>1, <1>2, <1>4, <1>5 DEF Front

\* The process that a process returns to from wait.
Resumed(p) == Process(Advanced(p.calls), NoLeaf)

LEMMA ResumedRight ==
  ASSUME NEW p \in ProcessRecord
  PROVE  /\ Resumed(p) \in ProcessRecord /\ Resumed(p).leaf = NoLeaf
         /\ Top(Resumed(p)).node = Top(p).node /\ Top(Resumed(p)).i = Top(p).i + 1
  <1>1. /\ Advanced(p.calls) \in Seq(CallRecord) \ {<<>>}
        /\ Last(Advanced(p.calls)) = Call(Last(p.calls).node, Last(p.calls).i + 1)
    BY ProcessRight, CallsRight
  <1>2. /\ Resumed(p).calls = Advanced(p.calls) /\ Resumed(p).leaf = NoLeaf
        /\ Resumed(p) \in ProcessRecord
    BY <1>1, ProcessFields DEF Resumed
  <1>3. Top(Resumed(p)) = Call(Top(p).node, Top(p).i + 1)
    BY <1>1, <1>2 DEF Top
  <1> QED BY <1>2, <1>3 DEF Call

LEMMA EndedRight ==
  ASSUME NEW stack \in Stacks
  PROVE  /\ Ended(stack) \in Stacks /\ Len(Ended(stack)) = Len(stack) /\ Len(stack) \in Nat
         /\ Ended(stack) = <<>> <=> stack = <<>>
         /\ \A k \in 1 .. Len(stack) :
              Ended(stack)[k] = IF k = Len(stack) THEN Resumed(stack[k]) ELSE stack[k]
  <1> DEFINE n == Len(stack)
  <1>1. CASE stack = <<>>
    BY <1>1 DEF Ended
  <1>2. CASE stack # <<>>
    <2>1. n \in Nat \ {0} /\ stack[n] \in ProcessRecord /\ DOMAIN stack = 1 .. n
      BY <1>2, FrontOfStack
    <2>2. Ended(stack) = [stack EXCEPT ![n] = Resumed(stack[n])]
      BY <1>2 DEF Ended, Resumed
    <2>3. Resumed(stack[n]) \in ProcessRecord
      BY <2>1, ResumedRight
    <2> DEFINE more == [stack EXCEPT ![n] = Resumed(stack[n])]
    <2>4. /\ more \in Stacks /\ Len(more) = n
          /\ \A k \in 1 .. n : more[k] = IF k = n THEN Resumed(stack[k]) ELSE stack[k]
      <3> DEFINE q == Resumed(stack[n])
      <3>1. \A k \in 1 .. n : more[k] = IF k = n THEN q ELSE stack[k]
        BY <2>1
      <3> HIDE DEF q, n
      <3>2. more \in Stacks /\ Len(more) = n
        BY <2>1, <2>3, ExceptSeq DEF Stacks, q, n
      <3> QED BY <3>1, <3>2 DEF q
    <2> HIDE DEF more
    <2>5. more # <<>>
      BY <2>1, <2>4
    <2> QED BY <1>2, <2>1, <2>2, <2>4, <2>5 DEF more
  <1> QED BY <1>1, <1>2

LEMMA StackPush ==
  ASSUME NEW stack \in Stacks, stack # <<>>, NEW files, StackedOn(stack, files),
         NEW q \in ProcessRecord, WaitsFor(Last(stack), q),
         q.leaf = NoLeaf => InLoop(q, files)
  PROVE  StackedOn(Append(stack, q), files)
  <1> DEFINE n == Len(stack)
             more == Append(stack, q)
  <1>1. n \in Nat \ {0} /\ Last(stack) = stack[n]
    BY FrontOfStack
  <1>2. Len(more) = n + 1 /\ more[n + 1] = q /\ \A k \in 1 .. n : more[k] = stack[k]
    BY DEF Stacks
  <1> HIDE DEF n, more
  <1>3. more[1] = stack[1]
    BY <1>1, <1>2
  <1>4. ASSUME NEW k \in 1 .. n + 1, more[k].leaf = NoLeaf PROVE InLoop(more[k], files)
    <2>1. CASE k = n + 1
      BY <1>2, <1>4, <2>1
    <2>2. CASE k # n + 1
      <3>1. k \in 1 .. n
        BY <1>1, <2>2
      <3> QED BY <1>2, <1>4, <3>1 DEF StackedOn, n
    <2> QED BY <2>1, <2>2
  <1>5. ASSUME NEW k \in 1 .. n PROVE WaitsFor(more[k], more[k + 1])
    <2>1. CASE k = n
      BY <1>1, <1>2, <2>1
    <2>2. CASE k # n
      <3>1. k \in 1 .. n - 1 /\ k + 1 \in 1 .. n
        BY <1>1, <2>2
      <3> QED BY <1>2, <3>1 DEF StackedOn, n
    <2> QED BY <2>1, <2>2
  <1>6. StackedOn(more, files)
    <2>1. stack # <<>> /\ stack[1].leaf = NoLeaf /\ Top(stack[1]).node = root
      BY DEF StackedOn
    <2>2. Len(more) - 1 = n
      BY <1>1, <1>2
    <2> QED BY <1>2, <1>3, <1>4, <1>5, <2>1, <2>2 DEF StackedOn
  <1> QED BY <1>6 DEF more

LEMMA StackPop ==
  ASSUME KidsTyped, NEW stack \in Stacks, stack # <<>>, NEW files, StackedOn(stack, files),
         NEW more, files \subseteq more,
         \A k \in 1 .. Len(stack) - 1 : k + 1 = Len(stack) => ChildOf(stack[k]) \in more
  PROVE  StackedOn(Ended(Front(stack)), more)
  <1> DEFINE m == Len(stack) - 1
             below == Front(stack)
             left == Ended(below)
  <1>1. /\ m \in Nat /\ below \in Stacks /\ Len(below) = m
        /\ \A k \in 1 .. m : below[k] = stack[k] /\ stack[k] \in ProcessRecord
    <2>1. DOMAIN stack = 1 .. Len(stack) /\ Len(stack) \in Nat \ {0}
      BY FrontOfStack
    <2>2. \A k \in 1 .. Len(stack) : stack[k] \in ProcessRecord
      BY StackMember
    <2>3. below \in Stacks /\ Len(below) = m /\ \A k \in 1 .. m : below[k] = stack[k]
      BY FrontOfStack
    <2>4. m \in Nat /\ \A k \in 1 .. m : k \in 1 .. Len(stack)
      <3>1. ASSUME NEW n \in Nat \ {0} PROVE n - 1 \in Nat /\ \A k \in 1 .. n - 1 : k \in 1 .. n
        OBVIOUS
      <3> QED BY <2>1, <3>1
    <2> QED BY <2>2, <2>3, <2>4
  <1>2. /\ Len(left) = m
        /\ \A k \in 1 .. m : left[k] = IF k = m THEN Resumed(below[k]) ELSE below[k]
    BY <1>1, EndedRight
  <1> HIDE DEF left, below
  <1>3. \A k \in 1 .. m : left[k] = IF k = m THEN Resumed(stack[k]) ELSE stack[k]
    BY <1>1, <1>2
  <1>4. \A k \in 1 .. m : /\ Resumed(stack[k]).leaf = NoLeaf
                          /\ Top(Resumed(stack[k])).node = Top(stack[k]).node
                          /\ Top(Resumed(stack[k])).i = Top(stack[k]).i + 1
                          /\ Top(stack[k]).i \in Nat \ {0}
    BY <1>1, ResumedRight, ProcessRight
  <1>5. /\ stack[1].leaf = NoLeaf /\ Top(stack[1]).node = root
        /\ \A k \in 1 .. m : WaitsFor(stack[k], stack[k + 1])
        /\ \A k \in 1 .. m : InLoop(stack[k], files)
    <2>1. /\ stack[1].leaf = NoLeaf /\ Top(stack[1]).node = root
          /\ \A k \in 1 .. m : WaitsFor(stack[k], stack[k + 1])
          /\ \A k \in 1 .. Len(stack) : stack[k].leaf = NoLeaf => InLoop(stack[k], files)
      BY DEF StackedOn
    <2>2. \A k \in 1 .. m : k \in 1 .. Len(stack) /\ stack[k].leaf = NoLeaf
      BY <1>1, <2>1 DEF WaitsFor
    <2> QED BY <2>1, <2>2
  <1>6. ASSUME m # 0 PROVE left[1].leaf = NoLeaf /\ Top(left[1]).node = root
    <2>1. 1 \in 1 .. m
      BY <1>1, <1>6
    <2> QED BY <1>3, <1>4, <1>5, <2>1
  <1>7. ASSUME NEW k \in 1 .. m PROVE InLoop(left[k], more)
    <2>1. CASE k # m
      BY <1>3, <1>5, <2>1 DEF InLoop
    <2>2. CASE k = m
      <3> DEFINE v == Top(stack[k]).node
                 i == Top(stack[k]).i
      <3>1. left[k] = Resumed(stack[k])
        BY <1>3, <2>2
      <3>2. Top(left[k]).node = v /\ Top(left[k]).i = i + 1 /\ i \in Nat \ {0}
        BY <1>4, <3>1
      <3>3. children[v] # <<>> /\ i <= NumChildren(v) /\ \A j \in 1 .. i - 1 : children[v][j] \in files
        BY <1>5 DEF InLoop, WaitsFor
      <3>4. children[v][i] \in more
        <4>1. k + 1 = Len(stack)
          BY <1>1, <2>2
        <4>2. ChildOf(stack[k]) \in more
          BY <4>1
        <4> QED BY <4>2 DEF ChildOf
      <3>5. NumChildren(v) \in Nat
        <4>1. v \in DOMAIN nodes
          <5>1. stack[k] \in ProcessRecord
            BY <1>1
          <5> QED BY <5>1, ProcessRight, WithinMember
        <4>2. children[v] \in Seq(DOMAIN nodes)
          BY <4>1 DEF KidsTyped
        <4> QED BY <4>2 DEF NumChildren
      <3> HIDE DEF v, i
      <3>6. \A j \in 1 .. (i + 1) - 1 : j = i \/ j \in 1 .. i - 1
        BY <3>2
      <3> QED BY <3>2, <3>3, <3>4, <3>5, <3>6 DEF InLoop
    <2> QED BY <2>1, <2>2
  <1>8. ASSUME NEW k \in 1 .. m - 1 PROVE WaitsFor(left[k], left[k + 1])
    <2>1. k \in 1 .. m /\ k + 1 \in 1 .. m /\ k # m
      BY <1>1
    <2>2. left[k] = stack[k] /\ WaitsFor(stack[k], stack[k + 1])
      BY <1>3, <1>5, <2>1
    <2>3. stack[k + 1].leaf = NoLeaf
      BY <1>5, <2>1 DEF WaitsFor
    <2>4. left[k + 1].leaf = NoLeaf /\ Top(left[k + 1]).node = Top(stack[k + 1]).node
      BY <1>3, <1>4, <2>1, <2>3
    <2> QED BY <2>2, <2>3, <2>4 DEF WaitsFor
  <1>9. left # <<>> => m # 0
    BY <1>1, <1>2, EndedRight
  <1>10. StackedOn(left, more)
    BY <1>2, <1>6, <1>7, <1>8, <1>9 DEF StackedOn
  <1> QED BY <1>10 DEF left, below
-----------------------------------------------------------------------------
(***************************************************************************)
(* The steps of execNodes.                                                 *)
(***************************************************************************)
Ready ==
  /\ KidsTyped /\ OneFather
  /\ root \in DOMAIN nodes /\ Acyclic(root) /\ children[root] # <<>>

LEMMA ReadyRight ==
  ASSUME TreeTyped, Linked, Tested, Counted, phase \in {"exec", "done"}
  PROVE  Ready
  <1>1. KidsTyped
    BY DEF TreeTyped, KidsTyped
  <1>2. OneFather
    BY DEF Tested, Linked
  <1>3. root # 0 /\ children[root] # <<>>
    BY DEF Counted
  <1>4. root \in DOMAIN nodes /\ root \in 1 .. turn - 1
    <2>1. DOMAIN nodes = 1 .. Len(nodes) /\ Len(nodes) \in Nat
      BY DEF TreeTyped
    <2> QED BY <1>3, <2>1 DEF Counted
  <1> QED BY <1>1, <1>2, <1>3, <1>4 DEF Ready, Counted

LEMMA RootedRight ==
  ASSUME Ready, NEW v \in Within(root)
  PROVE  /\ v \in DOMAIN nodes /\ Acyclic(v) /\ Within(v) \subseteq Within(root)
         /\ Leaves(v) \subseteq Leaves(root)
         /\ Kids(v) \subseteq Within(root)
         /\ children[v] \in Seq(DOMAIN nodes) /\ NumChildren(v) \in Nat
         /\ IsLeaf(v) <=> children[v] = <<>>
         /\ \A i \in 1 .. NumChildren(v) : children[v][i] \in Kids(v)
  <1>1. v \in DOMAIN nodes /\ Acyclic(v) /\ Within(v) \subseteq Within(root)
        /\ Kids(v) \subseteq Within(root)
    BY WithinFacts, WithinTransitive, AcyclicBelow DEF Ready
  <1>2. Leaves(v) \subseteq Leaves(root)
    BY <1>1 DEF Leaves
  <1>3. children[v] \in Seq(DOMAIN nodes)
    BY <1>1 DEF Ready, KidsTyped
  <1>4. NumChildren(v) \in Nat /\ (IsLeaf(v) <=> children[v] = <<>>)
        /\ DOMAIN children[v] = 1 .. NumChildren(v)
    BY <1>3, EmptySeq DEF NumChildren, IsLeaf
  <1> QED BY <1>1, <1>2, <1>3, <1>4 DEF Kids

LEMMA RunningRight ==
  ASSUME Ready, ProcsTyped, phase = "exec"
  PROVE  /\ procs \in Stacks /\ procs # <<>> /\ Running \in ProcessRecord
         /\ Running = procs[Len(procs)] /\ Len(procs) \in Nat \ {0}
         /\ Current = Top(Running) /\ Current.node \in Within(root) /\ Current.i \in Nat \ {0}
         /\ Looping => NextChild \in Kids(Current.node) /\ NextChild \in Within(root)
                         /\ (IsLeaf(NextChild) => NextChild \in Leaves(root))
  <1>1. procs \in Stacks /\ procs # <<>>
    BY DEF ProcsTyped, Stacks
  <1>2. /\ Running \in ProcessRecord /\ Running = procs[Len(procs)] /\ Len(procs) \in Nat \ {0}
    BY <1>1, FrontOfStack DEF Running
  <1>3. Current = Top(Running) /\ Current.node \in Within(root) /\ Current.i \in Nat \ {0}
    BY <1>2, ProcessRight DEF Current, Top
  <1>4. ASSUME Looping PROVE NextChild \in Kids(Current.node) /\ NextChild \in Within(root)
    <2>1. Current.i \in 1 .. NumChildren(Current.node)
      BY <1>3, <1>4, RootedRight DEF Looping
    <2> QED BY <1>3, <2>1, RootedRight DEF NextChild
  <1>5. NextChild \in Within(root) /\ IsLeaf(NextChild) => NextChild \in Leaves(root)
    BY DEF Leaves
  <1> QED BY <1>1, <1>2, <1>3, <1>4, <1>5

\* Nothing that the processes are about changes while they run.
LEMMA SameTree ==
  ASSUME UNCHANGED <<nodes, children, root>>
  PROVE  /\ \A v : Within(v)' = Within(v) /\ Leaves(v)' = Leaves(v)
         /\ ProcessRecord' = ProcessRecord /\ Stacks' = Stacks
         /\ \A files : OutTyped(files)' <=> OutTyped(files)
         /\ \A stack, files : StackedOn(stack, files)' <=> StackedOn(stack, files)
         /\ \A v, files : Complete(v, files)' <=> Complete(v, files)
  <1>1. \A v : Within(v)' = Within(v)
    BY DEF Within, Kids
  <1>2. \A v : Leaves(v)' = Leaves(v)
    BY <1>1 DEF Leaves, IsLeaf, NumChildren
  <1>3. CallRecord' = CallRecord
    BY <1>1 DEF CallRecord
  <1>4. ProcessRecord' = ProcessRecord
    BY <1>2, <1>3 DEF ProcessRecord
  <1>5. \A files : OutTyped(files)' <=> OutTyped(files)
    BY <1>1, <1>2 DEF OutTyped
  <1>6. \A stack, files : StackedOn(stack, files)' <=> StackedOn(stack, files)
    BY DEF StackedOn, InLoop, WaitsFor, ChildOf, Top, NumChildren
  <1>7. \A v, files : Complete(v, files)' <=> Complete(v, files)
    BY <1>1, <1>2 DEF Complete
  <1> QED BY <1>1, <1>2, <1>4, <1>5, <1>6, <1>7 DEF Stacks

\* The files after one more was written.
LEMMA WrittenRight ==
  ASSUME Ready, OutTyped(out), NEW v \in Within(root), NEW votes \in [DOMAIN nodes -> {0, 1}],
         \A u \in DOMAIN nodes : votes[u] = 1 => u \in Leaves(v)
  PROVE  /\ OutTyped(Written(v, votes))
         /\ DOMAIN Written(v, votes) = DOMAIN out \cup {v}
         /\ (\A w \in DOMAIN out : Complete(w, out)) =>
              \A w \in DOMAIN out \ {v} : Complete(w, Written(v, votes))
         /\ (\A u \in Leaves(v) : votes[u] = 1) /\ Within(v) \subseteq DOMAIN out \cup {v} =>
              Complete(v, Written(v, votes))
  <1> DEFINE files == Written(v, votes)
  <1>1. /\ DOMAIN files = DOMAIN out \cup {v}
        /\ \A u \in DOMAIN out \cup {v} : files[u] = IF u = v THEN votes ELSE out[u]
        /\ files = [u \in DOMAIN files |-> files[u]]
    BY DEF Written
  <1> HIDE DEF files
  <1>2. OutTyped(files)
    <2>1. \A w \in DOMAIN files :
            /\ files[w] \in [DOMAIN nodes -> {0, 1}] /\ w \in Within(root)
            /\ \A u \in DOMAIN nodes : files[w][u] = 1 => u \in Leaves(w)
      BY <1>1 DEF OutTyped
    <2>2. files \in [DOMAIN files -> [DOMAIN nodes -> {0, 1}]]
      BY <1>1, <2>1
    <2> QED BY <2>1, <2>2 DEF OutTyped
  <1>3. \A w \in DOMAIN out \ {v} : Complete(w, out) => Complete(w, files)
    BY <1>1 DEF Complete
  <1>4. (\A u \in Leaves(v) : votes[u] = 1) /\ Within(v) \subseteq DOMAIN out \cup {v} =>
          Complete(v, files)
    BY <1>1 DEF Complete
  <1> QED BY <1>1, <1>2, <1>3, <1>4 DEF files

LEMMA LeafVotesRight ==
  ASSUME Ready, NEW v \in Leaves(root)
  PROVE  /\ v \in Within(root) /\ Within(v) = {v} /\ Leaves(v) = {v}
         /\ LeafVotes(v) \in [DOMAIN nodes -> {0, 1}]
         /\ \A u \in DOMAIN nodes : LeafVotes(v)[u] = 1 <=> u = v
  <1>1. v \in Within(root) /\ IsLeaf(v)
    BY DEF Leaves
  <1>2. v \in DOMAIN nodes /\ children[v] = <<>>
    BY <1>1, RootedRight
  <1>3. Within(v) = {v} /\ Leaves(v) = {v}
    BY <1>2, LeavesRight DEF Ready
  <1> QED BY <1>1, <1>2, <1>3 DEF LeafVotes, NoVotes

\* What the action of a process does to the stack and to the files.
ProcsLeft(stack) ==
  /\ procs' = Ended(stack)
  /\ phase' = IF stack = <<>> THEN "done" ELSE "exec"

LEMMA ProcsTypedExec ==
  ASSUME Ready, ProcsTyped, ExecNodes
  PROVE  ProcsTyped'
  <1>1. phase = "exec" /\ phase' \in {"exec", "done"} /\ UNCHANGED <<nodes, children, root>>
    BY ExecSteps DEF parseVars, countVars
  <1>2. /\ procs \in Stacks /\ procs # <<>> /\ Running \in ProcessRecord
        /\ Running.calls \in Seq(CallRecord) \ {<<>>}
        /\ Front(procs) \in Stacks
    BY <1>1, RunningRight, ProcessRight, FrontOfStack
  <1>3. failures' \in 0 .. MaxFailures
    <2>1. failures \in 0 .. MaxFailures /\ MaxFailures \in Nat
      BY FailuresAssumption DEF ProcsTyped
    <2>2. failures' = failures \/ (failures < MaxFailures /\ failures' = failures + 1)
      BY DEF ExecNodes, ForkLeaf, ForkInner, ForkFails, ExecLeaf, ExecLeafFails, ExecNode,
             ExecNodeFails, MayFail
    <2> QED BY <2>1, <2>2
  <1>4. OutTyped(out')
    <2>1. CASE out' = out
      BY <2>1 DEF ProcsTyped
    <2>2. CASE ExecLeaf
      <3>1. Running.leaf \in Leaves(root) /\ out' = Written(Running.leaf, LeafVotes(Running.leaf))
        BY <1>2, <2>2, ProcessRight DEF ExecLeaf
      <3>2. OutTyped(Written(Running.leaf, LeafVotes(Running.leaf)))
        BY <3>1, LeafVotesRight, WrittenRight DEF ProcsTyped
      <3> QED BY <3>1, <3>2
    <2>3. CASE ExecNode
      <3>1. out' = Written(Current.node, SumOfChildren(Current.node))
        BY <2>3 DEF ExecNode
      <3>2. Current.node \in Within(root)
        BY <1>1, RunningRight
      <3>3. Current.node \in DOMAIN nodes /\ Acyclic(Current.node)
        BY <3>2, RootedRight
      <3>4. OutTyped(Written(Current.node, SumOfChildren(Current.node)))
        BY <3>2, <3>3, SumOfChildrenRight, WrittenRight DEF ProcsTyped, Ready
      <3> QED BY <3>1, <3>4
    <2> QED BY <2>1, <2>2, <2>3 DEF ExecNodes, ForkLeaf, ForkInner, ForkFails, ExecLeafFails,
               ExecNodeFails
  <1>5. procs' \in Stacks /\ (procs' # <<>> <=> phase' = "exec")
    <2>1. CASE ForkLeaf
      <3>1. procs' = Append(procs, Process(Running.calls, NextChild)) /\ NextChild \in Leaves(root)
            /\ phase' = phase
        BY <1>1, <2>1, RunningRight DEF ForkLeaf
      <3>2. Process(Running.calls, NextChild) \in ProcessRecord
        BY <1>2, <3>1, ProcessFields
      <3>3. Append(procs, Process(Running.calls, NextChild)) # <<>>
        BY <1>2, <3>2 DEF Stacks
      <3> QED BY <1>1, <1>2, <3>1, <3>2, <3>3 DEF Stacks
    <2>2. CASE ForkInner
      <3> DEFINE c == Call(NextChild, 1)
                 q == Process(Append(Running.calls, c), NoLeaf)
      <3>1. procs' = Append(procs, q) /\ NextChild \in Within(root) /\ phase' = phase
        BY <1>1, <2>2, RunningRight DEF ForkInner
      <3>2. c \in CallRecord
        BY <3>1 DEF CallRecord, Call
      <3>3. q \in ProcessRecord
        BY <1>2, <3>2, CallsRight, ProcessFields
      <3> HIDE DEF q
      <3>4. Append(procs, q) # <<>>
        BY <1>2, <3>3 DEF Stacks
      <3> QED BY <1>1, <1>2, <3>1, <3>3, <3>4 DEF Stacks
    <2>3. ASSUME NEW stack \in Stacks, ProcsLeft(stack)
          PROVE  procs' \in Stacks /\ (procs' # <<>> <=> phase' = "exec")
      BY <2>3, EndedRight DEF ProcsLeft
    <2>4. CASE ForkFails \/ ExecLeaf \/ ExecNode
      <3>1. ProcsLeft(Front(procs))
        BY <2>4 DEF ForkFails, ExecLeaf, ExecNode, Continue, ProcsLeft
      <3> QED BY <1>2, <2>3, <3>1
    <2>5. ASSUME NEW calls \in Seq(CallRecord) \ {<<>>}, phase' = phase,
                 procs' = [procs EXCEPT ![Len(procs)] = Process(calls, NoLeaf)]
          PROVE  procs' \in Stacks /\ (procs' # <<>> <=> phase' = "exec")
      <3>1. Process(calls, NoLeaf) \in ProcessRecord
        BY ProcessFields
      <3>2. Len(procs) \in 1 .. Len(procs) /\ Len(procs) \in Nat
        BY <1>2, FrontOfStack
      <3>3. [procs EXCEPT ![Len(procs)] = Process(calls, NoLeaf)] \in Seq(ProcessRecord)
            /\ Len([procs EXCEPT ![Len(procs)] = Process(calls, NoLeaf)]) = Len(procs)
        BY <1>2, <3>1, <3>2, ExceptSeq DEF Stacks
      <3>4. procs' \in Stacks /\ Len(procs') = Len(procs)
        BY <2>5, <3>3 DEF Stacks
      <3>5. procs' # <<>>
        BY <1>2, <3>2, <3>4, EmptySeq, FrontOfStack
      <3> QED BY <1>1, <2>5, <3>4, <3>5
    <2>6. CASE ExecLeafFails
      <3>1. phase' = phase
            /\ procs' = [procs EXCEPT ![Len(procs)] = Process(Advanced(Running.calls), NoLeaf)]
        BY <1>1, <2>6, RunningRight DEF ExecLeafFails
      <3>2. Advanced(Running.calls) \in Seq(CallRecord) \ {<<>>}
        BY <1>2, CallsRight
      <3> QED BY <2>5, <3>1, <3>2
    <2>7. CASE ExecNodeFails
      <3>1. CASE Len(Running.calls) = 1
        <4>1. ProcsLeft(Front(procs))
          BY <2>7, <3>1 DEF ExecNodeFails, Continue, ProcsLeft
        <4> QED BY <1>2, <2>3, <4>1
      <3>2. CASE Len(Running.calls) # 1
        <4>1. phase' = phase
              /\ procs' = [procs EXCEPT ![Len(procs)] =
                             Process(Advanced(Front(Running.calls)), NoLeaf)]
          BY <1>1, <2>7, <3>2, RunningRight DEF ExecNodeFails
        <4>2. Front(Running.calls) \in Seq(CallRecord) \ {<<>>}
          BY <1>2, <3>2, CallsRight
        <4>3. Advanced(Front(Running.calls)) \in Seq(CallRecord) \ {<<>>}
          BY <4>2, CallsRight
        <4> QED BY <2>5, <4>1, <4>3
      <3> QED BY <3>1, <3>2
    <2> QED BY <2>1, <2>2, <2>4, <2>6, <2>7 DEF ExecNodes
  <1>6. Stacks' = Stacks /\ OutTyped(out)'
    BY <1>1, <1>4, SameTree DEF OutTyped
  <1> QED BY <1>1, <1>3, <1>5, <1>6 DEF ProcsTyped, Stacks
LEMMA ExactNext ==
  ASSUME UNCHANGED <<nodes, children, root>>,
         StackedOn(procs', DOMAIN out'),
         \A v \in DOMAIN out' : Complete(v, out'),
         phase' = "done" => root \in DOMAIN out'
  PROVE  Exact'
  <1>1. StackedOn(procs, DOMAIN out)'
    BY DEF StackedOn, InLoop, WaitsFor, ChildOf, Top, NumChildren
  <1>2. \A v \in DOMAIN out' : Complete(v, out)'
    BY SameTree DEF Complete
  <1> QED BY <1>1, <1>2 DEF Exact

\* As long as nothing fails the stack stays as it should be, and every file that is written
\* is complete.
LEMMA ExactExec ==
  ASSUME Ready, ProcsTyped, Exact, ExecNodes
  PROVE  Exact'
  <1>1. phase = "exec" /\ phase' \in {"exec", "done"} /\ UNCHANGED <<nodes, children, root>>
    BY ExecSteps DEF parseVars, countVars
  <1>2. CASE failures' # 0
    BY <1>2 DEF Exact
  <1>3. CASE failures' = 0
    <2>1. failures \in Nat
      BY FailuresAssumption DEF ProcsTyped
    <2>2. ~MayFail
      BY <1>3, <2>1 DEF MayFail
    <2>3. (ForkLeaf \/ ForkInner \/ ExecLeaf \/ ExecNode) /\ failures = 0
      BY <1>3, <2>2 DEF ExecNodes, ForkLeaf, ForkInner, ForkFails, ExecLeaf, ExecLeafFails,
             ExecNode, ExecNodeFails
    <2>4. StackedOn(procs, DOMAIN out) /\ \A v \in DOMAIN out : Complete(v, out)
      BY <2>3 DEF Exact
    <2>5. /\ procs \in Stacks /\ procs # <<>> /\ Running \in ProcessRecord
          /\ Running = procs[Len(procs)] /\ Len(procs) \in Nat \ {0} /\ Running = Last(procs)
          /\ Current = Top(Running) /\ Current.node \in Within(root) /\ Current.i \in Nat \ {0}
          /\ Running.calls \in Seq(CallRecord) \ {<<>>}
      BY <1>1, RunningRight, ProcessRight DEF Running
    <2>6. \A k \in 1 .. Len(procs) - 1 : k + 1 = Len(procs) => WaitsFor(procs[k], Running)
      BY <2>4, <2>5 DEF StackedOn
    <2>7. CASE ForkLeaf
      <3> DEFINE q == Process(Running.calls, NextChild)
      <3>1. /\ procs' = Append(procs, q) /\ UNCHANGED <<phase, out>> /\ Looping
            /\ NextChild \in Leaves(root)
        BY <1>1, <2>7, RunningRight DEF ForkLeaf
      <3>2. q \in ProcessRecord /\ q.leaf = NextChild
        BY <2>5, <3>1, ProcessFields
      <3>3. NextChild # NoLeaf
        <4>1. NextChild \in DOMAIN nodes
          BY <3>1, RootedRight DEF Leaves
        <4> QED BY <4>1 DEF Ready, KidsTyped, NoLeaf
      <3>4. WaitsFor(Running, q)
        BY <2>5, <3>1, <3>2, <3>3 DEF WaitsFor, Looping, NextChild, ChildOf
      <3> HIDE DEF q
      <3>5. StackedOn(Append(procs, q), DOMAIN out)
        BY <2>4, <2>5, <3>2, <3>3, <3>4, StackPush
      <3>6. StackedOn(procs', DOMAIN out')
        BY <3>1, <3>5
      <3> QED BY <1>1, <2>4, <3>1, <3>6, ExactNext
    <2>8. CASE ForkInner
      <3> DEFINE c == Call(NextChild, 1)
                 q == Process(Append(Running.calls, c), NoLeaf)
      <3>1. /\ procs' = Append(procs, q) /\ UNCHANGED <<phase, out>> /\ Looping
            /\ NextChild \in Within(root) /\ ~IsLeaf(NextChild)
        BY <1>1, <2>8, RunningRight DEF ForkInner
      <3>2. c \in CallRecord /\ c.node = NextChild /\ c.i = 1
        BY <3>1 DEF CallRecord, Call
      <3>3. q \in ProcessRecord /\ q.leaf = NoLeaf /\ Top(q) = c
        <4> DEFINE calls == Append(Running.calls, c)
        <4>1. calls \in Seq(CallRecord) \ {<<>>} /\ Last(calls) = c
          BY <2>5, <3>2, CallsRight
        <4> HIDE DEF calls
        <4>2. /\ Process(calls, NoLeaf).calls = calls /\ Process(calls, NoLeaf).leaf = NoLeaf
              /\ Process(calls, NoLeaf) \in ProcessRecord
          BY <4>1, ProcessFields
        <4> QED BY <4>1, <4>2 DEF Top, calls
      <3>4. WaitsFor(Running, q)
        BY <2>5, <3>1, <3>2, <3>3 DEF WaitsFor, Looping, NextChild, ChildOf
      <3>5. InLoop(q, DOMAIN out)
        <4>1. children[NextChild] # <<>> /\ NumChildren(NextChild) \in Nat
          BY <3>1, RootedRight
        <4> QED BY <3>2, <3>3, <4>1 DEF InLoop
      <3> HIDE DEF q
      <3>6. StackedOn(Append(procs, q), DOMAIN out)
        BY <2>4, <2>5, <3>3, <3>4, <3>5, StackPush
      <3>7. StackedOn(procs', DOMAIN out')
        BY <3>1, <3>6
      <3> QED BY <1>1, <2>4, <3>1, <3>7, ExactNext
    <2>9. CASE ExecLeaf
      <3> DEFINE v == Running.leaf
                 files == Written(v, LeafVotes(v))
      <3>1. v # NoLeaf /\ out' = files /\ procs' = Ended(Front(procs))
            /\ phase' = IF Front(procs) = <<>> THEN "done" ELSE "exec"
        BY <2>9 DEF ExecLeaf, Continue
      <3>2. v \in Leaves(root)
        BY <2>5, <3>1, ProcessRight
      <3>3. v \in Within(root) /\ Within(v) = {v} /\ Leaves(v) = {v}
            /\ LeafVotes(v) \in [DOMAIN nodes -> {0, 1}]
            /\ \A u \in DOMAIN nodes : LeafVotes(v)[u] = 1 <=> u = v
        BY <3>2, LeafVotesRight
      <3>4. /\ DOMAIN files = DOMAIN out \cup {v}
            /\ \A w \in DOMAIN out \ {v} : Complete(w, files)
            /\ Complete(v, files)
        <4>1. v \in DOMAIN nodes
          BY <3>3, RootedRight
        <4> QED BY <2>4, <3>3, <4>1, WrittenRight DEF ProcsTyped
      <3>5. \A k \in 1 .. Len(procs) - 1 : k + 1 = Len(procs) => ChildOf(procs[k]) = v
        BY <2>6, <3>1 DEF WaitsFor
      <3>6. Front(procs) # <<>>
        <4>1. procs[1].leaf = NoLeaf
          BY <2>4, <2>5 DEF StackedOn
        <4>2. Len(procs) # 1
          BY <2>5, <3>1, <4>1
        <4> QED BY <2>5, <4>2, FrontOfStack
      <3> HIDE DEF v, files
      <3>7. StackedOn(Ended(Front(procs)), DOMAIN files)
        <4>1. DOMAIN out \subseteq DOMAIN files
          BY <3>4
        <4>2. \A k \in 1 .. Len(procs) - 1 : k + 1 = Len(procs) => ChildOf(procs[k]) \in DOMAIN files
          BY <3>4, <3>5
        <4> QED BY <2>4, <2>5, <4>1, <4>2, StackPop DEF Ready
      <3>8. StackedOn(procs', DOMAIN out') /\ \A w \in DOMAIN out' : Complete(w, out')
        BY <3>1, <3>4, <3>7
      <3> QED BY <1>1, <3>1, <3>6, <3>8, ExactNext
    <2>10. CASE ExecNode
      <3> DEFINE v == Current.node
                 files == Written(v, SumOfChildren(v))
      <3>1. Running.leaf = NoLeaf /\ Current.i > NumChildren(v)
            /\ out' = files /\ procs' = Ended(Front(procs))
            /\ phase' = IF Front(procs) = <<>> THEN "done" ELSE "exec"
        BY <2>10 DEF ExecNode, LoopDone, Continue
      <3>2. v \in Within(root) /\ v \in DOMAIN nodes /\ Acyclic(v)
            /\ NumChildren(v) \in Nat
        BY <2>5, RootedRight
      <3>3. children[v] # <<>> /\ \A j \in 1 .. NumChildren(v) : children[v][j] \in DOMAIN out
        <4>1. InLoop(Running, DOMAIN out)
          <5>1. Len(procs) \in 1 .. Len(procs) /\ procs[Len(procs)].leaf = NoLeaf
            BY <2>5, <3>1
          <5>2. InLoop(procs[Len(procs)], DOMAIN out)
            BY <2>4, <5>1 DEF StackedOn
          <5> QED BY <2>5, <5>2
        <4>2. \A j \in 1 .. NumChildren(v) : j \in 1 .. Current.i - 1
          BY <2>5, <3>1, <3>2
        <4> QED BY <2>5, <4>1, <4>2 DEF InLoop
      <3>4. \A c \in Kids(v) : c \in DOMAIN out /\ Complete(c, out)
        <4>1. DOMAIN children[v] = 1 .. NumChildren(v)
          <5>1. children[v] \in Seq(DOMAIN nodes)
            BY <3>2, RootedRight
          <5> QED BY <5>1 DEF NumChildren
        <4> QED BY <2>4, <3>3, <4>1 DEF Kids
      <3>5. /\ SumOfChildren(v) \in [DOMAIN nodes -> {0, 1}]
            /\ \A u \in DOMAIN nodes : SumOfChildren(v)[u] = 1 => u \in Leaves(v)
            /\ \A u \in Leaves(v) : SumOfChildren(v)[u] = 1
        BY <3>2, <3>3, <3>4, SumOfChildrenRight DEF Ready, ProcsTyped
      <3>6. Within(v) \subseteq DOMAIN out \cup {v}
        BY <3>2, <3>4, WithinKids DEF Ready, Complete, Below
      <3>7. /\ DOMAIN files = DOMAIN out \cup {v}
            /\ \A w \in DOMAIN out \ {v} : Complete(w, files)
            /\ Complete(v, files)
        BY <2>4, <3>2, <3>5, <3>6, WrittenRight DEF ProcsTyped
      <3>8. \A k \in 1 .. Len(procs) - 1 : k + 1 = Len(procs) => ChildOf(procs[k]) = v
        BY <2>5, <2>6, <3>1 DEF WaitsFor
      <3>9. Front(procs) = <<>> => v = root
        <4>1. Front(procs) = <<>> => Len(procs) = 1
          BY <2>5, FrontOfStack
        <4>2. Top(procs[1]).node = root
          BY <2>4, <2>5 DEF StackedOn
        <4> QED BY <2>5, <4>1, <4>2
      <3> HIDE DEF v, files
      <3>10. StackedOn(Ended(Front(procs)), DOMAIN files)
        <4>1. DOMAIN out \subseteq DOMAIN files
          BY <3>7
        <4>2. \A k \in 1 .. Len(procs) - 1 : k + 1 = Len(procs) => ChildOf(procs[k]) \in DOMAIN files
          BY <3>7, <3>8
        <4> QED BY <2>4, <2>5, <4>1, <4>2, StackPop DEF Ready
      <3>11. StackedOn(procs', DOMAIN out') /\ \A w \in DOMAIN out' : Complete(w, out')
        BY <3>1, <3>7, <3>10
      <3>12. phase' = "done" => root \in DOMAIN out'
        BY <3>1, <3>7, <3>9
      <3> QED BY <1>1, <3>11, <3>12, ExactNext
    <2> QED BY <2>3, <2>7, <2>8, <2>9, <2>10
  <1> QED BY <1>2, <1>3

\* main's call of execNodes for the root.
LEMMA StartStep ==
  ASSUME TreeTyped, Linked, Tested, Counted, ProcsTyped, Start
  PROVE  ProcsTyped' /\ Exact'
  <1>1. /\ phase = "count" /\ phase' = (IF root = 0 THEN "lost" ELSE "exec")
        /\ procs' = IF root = 0 THEN <<>> ELSE <<Process(<<Call(root, 1)>>, NoLeaf)>>
        /\ UNCHANGED <<out, failures, nodes, children, root>>
    BY DEF Start, RootKnown, parseVars, countVars
  <1>2. failures = 0 /\ DOMAIN out = {} /\ failures \in 0 .. MaxFailures /\ OutTyped(out)
    BY <1>1 DEF ProcsTyped
  <1>3. OutTyped(out)' /\ Stacks' = Stacks
    BY <1>1, <1>2, SameTree DEF OutTyped
  <1>4. CASE root = 0
    <2>1. procs' = <<>> /\ phase' = "lost"
      BY <1>1, <1>4
    <2>2. ProcsTyped'
      BY <1>1, <1>2, <1>3, <2>1 DEF ProcsTyped
    <2>3. StackedOn(<<>>, DOMAIN out)
      BY DEF StackedOn
    <2>4. StackedOn(procs', DOMAIN out') /\ \A v \in DOMAIN out' : Complete(v, out')
      BY <1>1, <1>2, <2>1, <2>3
    <2>5. phase' # "done"
      BY <2>1
    <2> QED BY <1>1, <2>2, <2>4, <2>5, ExactNext
  <1>5. CASE root # 0
    <2> DEFINE c == Call(root, 1)
               calls == <<c>>
               p == Process(calls, NoLeaf)
               stack == <<p>>
    <2>1. procs' = stack /\ phase' = "exec"
      BY <1>1, <1>5
    <2>2. root \in DOMAIN nodes /\ children[root] # <<>> /\ KidsTyped
      <3>1. DOMAIN nodes = 1 .. Len(nodes) /\ Len(nodes) \in Nat
        BY DEF TreeTyped
      <3> QED BY <1>5, <3>1 DEF Counted, TreeTyped, KidsTyped
    <2>3. c \in CallRecord /\ c.node = root /\ c.i = 1
      BY <2>2, WithinFacts DEF CallRecord, Call
    <2>4. calls \in Seq(CallRecord) \ {<<>>} /\ Last(calls) = c
      BY <2>3 DEF Last
    <2>5. p \in ProcessRecord /\ p.leaf = NoLeaf /\ Top(p) = c
      BY <2>4, ProcessFields DEF Top
    <2>6. InLoop(p, {})
      <3>1. children[root] \in Seq(DOMAIN nodes)
        BY <2>2 DEF KidsTyped
      <3>2. NumChildren(root) \in Nat
        BY <3>1 DEF NumChildren
      <3> HIDE DEF p, c
      <3> QED BY <2>2, <2>3, <2>5, <3>2 DEF InLoop
    <2> HIDE DEF p, c
    <2>7. stack \in Stacks /\ stack # <<>> /\ Len(stack) = 1 /\ stack[1] = p
      BY <2>5 DEF Stacks
    <2>8. StackedOn(stack, {})
      BY <2>3, <2>5, <2>6, <2>7 DEF StackedOn
    <2> HIDE DEF stack
    <2>9. ProcsTyped'
      BY <1>1, <1>2, <1>3, <2>1, <2>7 DEF ProcsTyped, Stacks
    <2>10. StackedOn(procs', DOMAIN out') /\ \A v \in DOMAIN out' : Complete(v, out')
      BY <1>1, <1>2, <2>1, <2>8
    <2>11. phase' # "done"
      BY <2>1
    <2> QED BY <1>1, <2>9, <2>10, <2>11, ExactNext
  <1> QED BY <1>4, <1>5

\* While the file is read and the root is looked for there are no processes yet.
LEMMA BeforeStart ==
  ASSUME ProcsTyped, UNCHANGED procVars, phase \in {"parse", "count"},
         phase' \notin {"exec", "done"}
  PROVE  ProcsTyped' /\ Exact'
  <1>1. procs = <<>> /\ DOMAIN out = {} /\ failures = 0 /\ failures \in 0 .. MaxFailures
    BY DEF ProcsTyped
  <1>2. procs' = <<>> /\ out' = out /\ failures' = 0 /\ DOMAIN out' = {}
    BY <1>1 DEF procVars
  <1>3. out \in [{} -> [DOMAIN nodes -> {0, 1}]]
    BY <1>1 DEF ProcsTyped, OutTyped
  <1>4. out' \in [DOMAIN out' -> [DOMAIN nodes' -> {0, 1}]]
    BY <1>1, <1>2, <1>3
  <1>5. OutTyped(out)'
    BY <1>2, <1>4 DEF OutTyped
  <1>6. ProcsTyped'
    BY <1>1, <1>2, <1>5 DEF ProcsTyped
  <1>7. StackedOn(procs, DOMAIN out)'
    BY <1>2 DEF StackedOn
  <1>8. Exact'
    BY <1>2, <1>7 DEF Exact
  <1> QED BY <1>6, <1>8
-----------------------------------------------------------------------------
(***************************************************************************)
(* The invariant.                                                          *)
(***************************************************************************)
LEMMA NodeInit == Init => NodeInv
  <1> SUFFICES ASSUME Init PROVE NodeInv
    OBVIOUS
  <1>1. /\ file \in InputFiles /\ build \in Builds /\ phase = "parse"
        /\ at = 0 /\ linecounter = 0 /\ slot = 0 /\ nodes = <<>> /\ children = <<>>
        /\ visited = <<WhoWon>> /\ num_descendant = <<>> /\ status = <<>>
        /\ turn = 1 /\ most = 0 /\ root = 0
        /\ procs = <<>> /\ out = [v \in {} |-> 0] /\ failures = 0
    BY DEF Init, TreeInit
  <1>2. Len(file) \in Nat
    BY <1>1, NodeTreeAssumption
  <1>3. TreeTyped
    <2>1. visited \in Seq(Tokens)
      BY <1>1, NodeTreeAssumption
    <2>2. DOMAIN nodes = {} /\ DOMAIN children = {} /\ children = [i \in {} |-> <<>>]
      BY <1>1
    <2>3. children \in [DOMAIN nodes -> Seq(DOMAIN nodes)]
      BY <2>2
    <2> QED BY <1>1, <1>2, <2>1, <2>3 DEF TreeTyped
  <1>4. DOMAIN nodes = {} /\ DOMAIN children = {}
    BY <1>1
  <1>5. Linked
    BY <1>1, <1>4 DEF Linked, OneFather, SingleFather
  <1>6. Tested
    BY <1>1 DEF Tested
  <1>7. Counted
    <2>1. 1 .. turn - 1 = {} /\ Len(nodes) = 0
      BY <1>1
    <2> QED BY <1>1, <2>1 DEF Counted
  <1>8. DOMAIN out = {} /\ out \in [DOMAIN out -> [DOMAIN nodes -> {0, 1}]]
    BY <1>1
  <1>9. ProcsTyped
    BY <1>1, <1>8, FailuresAssumption DEF ProcsTyped, OutTyped
  <1>10. Exact
    BY <1>1, <1>8 DEF Exact, StackedOn
  <1> QED BY <1>3, <1>5, <1>6, <1>7, <1>9, <1>10 DEF NodeInv

LEMMA NodeStep == NodeInv /\ [Next]_vars => NodeInv'
  <1> SUFFICES ASSUME NodeInv, [Next]_vars PROVE NodeInv'
    OBVIOUS
  <1>1. TreeTyped /\ Linked /\ Tested /\ Counted /\ ProcsTyped /\ Exact
    BY DEF NodeInv
  <1>2. CASE Next
    <2>1. TreeTyped' /\ Linked' /\ Tested' /\ Counted'
      BY <1>1, <1>2, TypedStep, LinkedStep, TestedStep, CountedStep
    <2>2. CASE (ReadInput \/ FindRoot) /\ UNCHANGED procVars
      <3>1. phase \in {"parse", "count"} /\ phase' \notin {"exec", "done"}
        BY <2>2 DEF ReadInput, FindRoot, SkipComment, CandidateLine, NodeLine, LinkLine,
               ParseInputLine, GetLine, EndOfInput, CountNode, CountCycle, Turn
      <3> QED BY <1>1, <2>1, <2>2, <3>1, BeforeStart DEF NodeInv
    <2>3. CASE Start
      BY <1>1, <2>1, <2>3, StartStep DEF NodeInv
    <2>4. CASE ExecNodes
      <3>1. Ready
        BY <1>1, <2>4, ExecSteps, ReadyRight
      <3> QED BY <1>1, <2>1, <2>4, <3>1, ProcsTypedExec, ExactExec DEF NodeInv
    <2> QED BY <1>2, <2>2, <2>3, <2>4 DEF Next
  <1>3. CASE UNCHANGED vars
    <2>1. /\ UNCHANGED <<file, build, phase, at, linecounter, slot, nodes, children, visited>>
          /\ UNCHANGED <<num_descendant, status, turn, most, root>>
          /\ UNCHANGED <<procs, out, failures>>
      BY <1>3 DEF vars, treeVars, parseVars, countVars, procVars
    <2>2. TreeTyped'
      BY <1>1, <2>1 DEF TreeTyped
    <2>3. Linked' /\ Tested'
      BY <1>1, <2>1 DEF Linked, Tested, Kids, FindDAGLoop, OneFather
    <2>4. Counted'
      <3>1. \A v : Acyclic(v)' <=> Acyclic(v)
        BY <2>1 DEF Acyclic, OnCycle, Below, Within, Kids
      <3>2. CountTyped' <=> CountTyped
        BY <2>1 DEF CountTyped
      <3> QED BY <1>1, <2>1, <3>1, <3>2 DEF Counted
    <2>5. ProcsTyped'
      <3>1. Stacks' = Stacks /\ OutTyped(out)'
        BY <1>1, <2>1, SameTree DEF OutTyped, ProcsTyped
      <3> QED BY <1>1, <2>1, <3>1 DEF ProcsTyped, Stacks
    <2>6. Exact'
      <3>1. CASE failures = 0
        <4>1. /\ StackedOn(procs', DOMAIN out')
              /\ \A v \in DOMAIN out' : Complete(v, out')
              /\ phase' = "done" => root \in DOMAIN out'
          BY <1>1, <2>1, <3>1 DEF Exact
        <4> QED BY <2>1, <4>1, ExactNext
      <3>2. CASE failures # 0
        BY <2>1, <3>2 DEF Exact
      <3> QED BY <3>1, <3>2
    <2> QED BY <2>2, <2>3, <2>4, <2>5, <2>6 DEF NodeInv
  <1> QED BY <1>2, <1>3

(***************************************************************************)
(* The inductive invariant: past the loop test no node has two fathers,    *)
(* past findRoot there is no cycle below the root, and as long as nothing  *)
(* fails each process of the stack runs for the child at the place of the  *)
(* one before it, whose earlier children have their files.                 *)
(***************************************************************************)
THEOREM NodeInvariance == Spec => []NodeInv
  BY NodeInit, NodeStep, PTL DEF Spec

LEMMA NodeTypingFollows == NodeInv => TypeOK
  <1> SUFFICES ASSUME NodeInv PROVE TypeOK
    OBVIOUS
  <1>1. TreeTyped /\ Counted /\ ProcsTyped
    BY DEF NodeInv
  <1>2. DOMAIN nodes = 1 .. Len(nodes) /\ Len(nodes) \in Nat
    BY <1>1 DEF TreeTyped
  <1>3. root \in 0 .. Len(nodes) /\ turn \in 1 .. Len(nodes) + 1 /\ most \in Nat
        /\ DOMAIN num_descendant = DOMAIN status
    BY <1>1, <1>2 DEF Counted
  <1>4. \A v \in Within(root) : v \in DOMAIN nodes
    BY WithinMember
  <1>5. ASSUME NEW k \in DOMAIN procs
        PROVE  /\ procs[k].calls # <<>>
               /\ \A c \in Range(procs[k].calls) : c.node \in DOMAIN nodes /\ c.i \in Nat
               /\ procs[k].leaf \in 0 .. Len(nodes)
    <2>1. procs[k] \in ProcessRecord
      BY <1>1 DEF ProcsTyped
    <2>2. procs[k].calls \in Seq(CallRecord) \ {<<>>}
          /\ (procs[k].leaf = NoLeaf \/ procs[k].leaf \in Leaves(root))
      BY <2>1, ProcessRight
    <2>3. ASSUME NEW c \in Range(procs[k].calls) PROVE c.node \in DOMAIN nodes /\ c.i \in Nat
      <3> DEFINE calls == procs[k].calls
      <3>1. PICK j \in DOMAIN calls : c = calls[j]
        BY <2>3 DEF Range
      <3>2. calls \in Seq(CallRecord)
        BY <2>2
      <3> HIDE DEF calls
      <3>3. c \in CallRecord
        BY <3>1, <3>2
      <3> QED BY <1>4, <3>3 DEF CallRecord
    <2>4. procs[k].leaf \in 0 .. Len(nodes)
      BY <1>2, <1>4, <2>2 DEF NoLeaf, Leaves
    <2> QED BY <2>2, <2>3, <2>4
  <1>6. DOMAIN out \subseteq DOMAIN nodes /\ failures \in 0 .. MaxFailures
    BY <1>1, <1>4 DEF ProcsTyped, OutTyped
  <1> QED BY <1>1, <1>3, <1>5, <1>6 DEF TypeOK, TreeTyped

(***************************************************************************)
(* Every variable has its type: no link leads out of the nodes, and        *)
(* findRoot's counts are numbers, since the recursion ends wherever it is  *)
(* begun.                                                                  *)
(***************************************************************************)
THEOREM NodeTyping == Spec => []TypeOK
  BY NodeInvariance, NodeTypingFollows, PTL

(***************************************************************************)
(* However often fork and execvp fail, and whatever the processes that go  *)
(* on repeat, no leaf's votes are in a file twice.                         *)
(***************************************************************************)
THEOREM NothingTwice == Spec => []NoVoteTwice
  <1>1. NodeInv => NoVoteTwice
    <2> SUFFICES ASSUME NodeInv, NEW v \in DOMAIN out, NEW u \in DOMAIN nodes PROVE out[v][u] <= 1
      BY DEF NoVoteTwice
    <2>1. out[v][u] \in {0, 1}
      BY DEF NodeInv, ProcsTyped, OutTyped
    <2> QED BY <2>1
  <1> QED BY NodeInvariance, <1>1, PTL

(***************************************************************************)
(* If no call fails a file has each leaf's votes once from the moment it   *)
(* is written, and in the end every node below the root has its file.      *)
(***************************************************************************)
THEOREM OutputsComplete == Spec => []OutputsExact
  <1>1. NodeInv => OutputsExact
    <2> SUFFICES ASSUME NodeInv, failures = 0
                 PROVE  /\ \A v \in DOMAIN out : \A u \in DOMAIN nodes :
                             out[v][u] = (IF u \in Leaves(v) THEN 1 ELSE 0)
                        /\ phase = "done" => DOMAIN out = Within(root)
      BY DEF OutputsExact
    <2>1. /\ \A v \in DOMAIN out : Complete(v, out)
          /\ phase = "done" => root \in DOMAIN out
      BY DEF NodeInv, Exact
    <2>2. \A v \in DOMAIN out : \A u \in DOMAIN nodes :
            out[v][u] \in {0, 1} /\ (out[v][u] = 1 => u \in Leaves(v))
      BY DEF NodeInv, ProcsTyped, OutTyped
    <2>3. ASSUME phase = "done" PROVE DOMAIN out = Within(root)
      BY <2>1, <2>3 DEF NodeInv, ProcsTyped, OutTyped, Complete
    <2> QED BY <2>1, <2>2, <2>3 DEF Complete
  <1> QED BY NodeInvariance, <1>1, PTL
-----------------------------------------------------------------------------
(***************************************************************************)
(* What the lines say of the links, for the loop test.                     *)
(***************************************************************************)
\* data[k]: the lines that are no comments among the first k.
DataStages(lines, data) ==
  /\ data[0] = <<>>
  /\ \A k \in 1 .. Len(lines) :
       data[k] = IF lines[k][1] = Comment THEN data[k - 1] ELSE Append(data[k - 1], lines[k])
  /\ DataOf(lines) = data[Len(lines)]
StagesOf(lines) == CHOOSE data : DataStages(lines, data)

\* The lines that are no comments of those read so far.
Seen == StagesOf(file)[at]

\* Where children are mentioned in them.
Places(data) == UNION {{i} \X (3 .. Len(data[i])) : i \in 3 .. Len(data)}
Named(data, m) == data[m[1]][m[2]]
NamesIn(data) == {WhoWon} \cup {Named(data, m) : m \in Places(data)}

\* Two mentions of one name, or one of WhoWon.
Twice(data) ==
  \/ \E m, n \in Places(data) : m # n /\ Named(data, m) = Named(data, n)
  \/ \E m \in Places(data) : Named(data, m) = WhoWon

\* Each link is one that a line mentions, and the loop test is about the mentions.
Parsed ==
  /\ Seen \in Seq(InputLine) /\ Len(Seen) = linecounter
  /\ linecounter >= 2 => nodes = Seen[2]
  /\ Range(visited) = NamesIn(Seen)
  /\ FindDAGLoop(visited) <=> Twice(Seen)
  /\ \A f \in DOMAIN nodes : \A j \in DOMAIN children[f] :
       \E m \in Places(Seen) :
         Named(Seen, m) = nodes[children[f][j]] /\ Seen[m[1]][1] = nodes[f]

\* The lines kept after each line.
LEMMA DataOfStages ==
  ASSUME NEW lines \in Seq(InputLine)
  PROVE  \E h : DataStages(lines, h)
  <1> DEFINE n == Len(lines)
             D == 1 .. n
             V == Seq(InputLine)
             base == <<>>
             g == [p \in D \X V |-> (IF lines[p[1]][1] = Comment THEN p[2] ELSE Append(p[2], lines[p[1]]))]
             Iter(f) == [s \in SUBSET D |-> IF s = {} THEN base
                                           ELSE (IF lines[Max(s)][1] = Comment THEN f[s \ {Max(s)}] ELSE Append(f[s \ {Max(s)}], lines[Max(s)]))]
             chosen == CHOOSE f : f = Iter(f)
             h == [k \in 0 .. n |-> chosen[1 .. k]]
  <1>1. n \in Nat /\ DOMAIN lines = D /\ base \in V
    OBVIOUS
  <1>2. g \in [D \X V -> V]
    <2>1. ASSUME NEW p \in D \X V PROVE (IF lines[p[1]][1] = Comment THEN p[2] ELSE Append(p[2], lines[p[1]])) \in V
      <3>1. p[2] \in Seq(InputLine) /\ lines[p[1]] \in InputLine
        BY <1>1, <2>1
      <3>2. Append(p[2], lines[p[1]]) \in Seq(InputLine)
        BY <3>1
      <3> QED BY <3>1, <3>2
    <2> HIDE DEF D, V
    <2> QED BY <2>1
  <1>3. PICK f \in [SUBSET D -> V] : SeqSolves(f, n, base, g)
    <2> HIDE DEF g, V, base, n
    <2> QED BY <1>1, <1>2, SeqRecursion
  <1>4. ASSUME NEW s \in SUBSET D
        PROVE  f[s] = IF s = {} THEN base ELSE (IF lines[Max(s)][1] = Comment THEN f[s \ {Max(s)}] ELSE Append(f[s \ {Max(s)}], lines[Max(s)]))
    <2> HIDE DEF V, base, n
    <2>1. CASE s = {}
      BY <1>3, <2>1 DEF SeqSolves
    <2>2. CASE s # {}
      <3>1. Max(s) \in D
        BY <1>1, <2>2, MaxInside
      <3>2. <<Max(s), f[s \ {Max(s)}]>> \in D \X V
        BY <1>3, <3>1
      <3>3. g[<<Max(s), f[s \ {Max(s)}]>>] = (IF lines[Max(s)][1] = Comment THEN f[s \ {Max(s)}] ELSE Append(f[s \ {Max(s)}], lines[Max(s)]))
        BY <3>2
      <3> HIDE DEF g
      <3> QED BY <1>3, <2>2, <3>3 DEF SeqSolves
    <2> QED BY <2>1, <2>2
  <1>5. f = Iter(f)
    <2> HIDE DEF D, g, V, base
    <2> QED BY <1>3, <1>4
  <1>6. chosen = Iter(chosen)
    <2> HIDE DEF Iter
    <2> QED BY <1>5
  <1>7. DataOf(lines) = chosen[D]
    BY <1>1 DEF DataOf, FoldLeft, MapThenFoldSet
  <1>8. h[0] = base
    <2>1. 1 .. 0 = {} /\ {} \in SUBSET D
      OBVIOUS
    <2>2. chosen[{}] = base
      BY <1>6, <2>1
    <2> HIDE DEF chosen, base, n
    <2> QED BY <1>1, <2>1, <2>2
  <1>9. ASSUME NEW k \in D PROVE h[k] = (IF lines[k][1] = Comment THEN h[k - 1] ELSE Append(h[k - 1], lines[k]))
    <2>1. 1 .. k \in SUBSET D /\ 1 .. k # {} /\ k - 1 \in 0 .. n /\ k \in 0 .. n
      <3> HIDE DEF V, base, n
      <3>1. n \in Nat /\ k \in Nat /\ 1 <= k /\ k <= n
        BY <1>1
      <3>2. k \in 1 .. k /\ k - 1 \in 0 .. n /\ k \in 0 .. n
        BY <3>1
      <3>3. \A x \in 1 .. k : x \in D
        BY <3>1
      <3> QED BY <3>2, <3>3
    <2>2. Max(1 .. k) = k /\ (1 .. k) \ {Max(1 .. k)} = 1 .. k - 1
      BY <1>1, MaxOfInterval
    <2>3. chosen[1 .. k] = (IF lines[Max(1 .. k)][1] = Comment THEN chosen[(1 .. k) \ {Max(1 .. k)}] ELSE Append(chosen[(1 .. k) \ {Max(1 .. k)}], lines[Max(1 .. k)]))
      <3> HIDE DEF chosen, base
      <3> QED BY <1>6, <2>1
    <2> HIDE DEF chosen, n
    <2> QED BY <2>1, <2>2, <2>3
  <1>10. DataOf(lines) = h[n]
    <2> HIDE DEF chosen, n
    <2> QED BY <1>1, <1>7
  <1> HIDE DEF h
  <1> QED BY <1>8, <1>9, <1>10 DEF DataStages

LEMMA StagesRight ==
  ASSUME NEW lines \in Seq(InputLine)
  PROVE  DataStages(lines, StagesOf(lines))
  BY DataOfStages DEF StagesOf

LEMMA PlacesMember ==
  ASSUME NEW data, NEW m
  PROVE  m \in Places(data) <=>
           \E i \in 3 .. Len(data) : \E k \in 3 .. Len(data[i]) : m = <<i, k>>
  BY DEF Places

Grown(data, line, more) == more = Append(data, line)

\* One more line adds its places, if it is one that lists children.
LEMMA PlacesGrow ==
  ASSUME NEW data \in Seq(InputLine), NEW line \in InputLine, NEW more, Grown(data, line, more)
  PROVE  /\ more \in Seq(InputLine) /\ Len(more) = Len(data) + 1
         /\ more[Len(data) + 1] = line
         /\ Len(data) < 2 => Places(data) = {} /\ Places(more) = {}
         /\ Len(data) >= 2 =>
              /\ Places(more) = Places(data) \cup ({Len(data) + 1} \X (3 .. Len(line)))
              /\ \A m \in Places(data) :
                   Named(more, m) = Named(data, m) /\ more[m[1]] = data[m[1]] /\ m[1] # Len(data) + 1
              /\ more[2] = data[2]
  <1> DEFINE n == Len(data)
  <1>1. /\ n \in Nat /\ more \in Seq(InputLine) /\ Len(more) = n + 1
        /\ \A i \in 1 .. n : more[i] = data[i]
        /\ more[n + 1] = line
    BY DEF Grown
  <1> HIDE DEF n
  <1>2. ASSUME n < 2 PROVE Places(data) = {} /\ Places(more) = {}
    <2>1. 3 .. Len(data) = {} /\ 3 .. Len(more) = {}
      BY <1>1, <1>2 DEF n
    <2> QED BY <2>1 DEF Places
  <1>3. ASSUME n >= 2
        PROVE  /\ Places(more) = Places(data) \cup ({n + 1} \X (3 .. Len(line)))
               /\ \A m \in Places(data) :
                    Named(more, m) = Named(data, m) /\ more[m[1]] = data[m[1]] /\ m[1] # n + 1
               /\ more[2] = data[2]
    <2>1. /\ 3 .. Len(more) = (3 .. n) \cup {n + 1}
          /\ \A i \in 3 .. n : more[i] = data[i] /\ i # n + 1
      BY <1>1, <1>3
    <2>2. ASSUME NEW m \in Places(data)
          PROVE  /\ m \in Places(more) /\ Named(more, m) = Named(data, m)
                 /\ more[m[1]] = data[m[1]] /\ m[1] # n + 1
      <3>1. PICK i \in 3 .. n : \E k \in 3 .. Len(data[i]) : m = <<i, k>>
        BY PlacesMember DEF n
      <3>2. more[i] = data[i] /\ i \in 3 .. Len(more) /\ i # n + 1
        BY <2>1
      <3>3. m \in Places(more)
        BY <3>1, <3>2, PlacesMember
      <3> QED BY <3>1, <3>2, <3>3 DEF Named
    <2>3. ASSUME NEW k \in 3 .. Len(line) PROVE <<n + 1, k>> \in Places(more)
      BY <1>1, <2>1, PlacesMember
    <2>4. ASSUME NEW m \in Places(more), m \notin Places(data)
          PROVE  m \in {n + 1} \X (3 .. Len(line))
      <3>1. PICK i \in 3 .. Len(more) : \E k \in 3 .. Len(more[i]) : m = <<i, k>>
        BY PlacesMember
      <3>2. CASE i \in 3 .. n
        <4>1. more[i] = data[i]
          BY <2>1, <3>2
        <4>2. m \in Places(data)
          BY <3>1, <3>2, <4>1, PlacesMember DEF n
        <4> QED BY <2>4, <4>2
      <3>3. CASE i = n + 1
        BY <1>1, <3>1, <3>3
      <3> QED BY <2>1, <3>2, <3>3
    <2>5. Places(more) = Places(data) \cup ({n + 1} \X (3 .. Len(line)))
      BY <2>2, <2>3, <2>4
    <2>6. 2 \in 1 .. n
      BY <1>1, <1>3
    <2> QED BY <1>1, <2>2, <2>5, <2>6
  <1> QED BY <1>1, <1>2, <1>3 DEF n

\* The loop test after more names.
LEMMA LoopExact ==
  ASSUME NEW names \in Seq(Tokens), NEW more \in Seq(Tokens)
  PROVE  FindDAGLoop(names \o more) <=>
           \/ FindDAGLoop(names)
           \/ \E i, k \in DOMAIN more : i # k /\ more[i] = more[k]
           \/ \E i \in DOMAIN more : more[i] \in Range(names)
  <1> DEFINE all == names \o more
             n == Len(names)
  <1>1. /\ DOMAIN names = 1 .. n /\ n \in Nat
        /\ DOMAIN more = 1 .. Len(more) /\ Len(more) \in Nat
        /\ DOMAIN all = 1 .. n + Len(more)
        /\ \A i \in 1 .. n : all[i] = names[i]
        /\ \A i \in 1 .. Len(more) : all[n + i] = more[i]
    OBVIOUS
  <1> HIDE DEF all, n
  <1>2. ASSUME FindDAGLoop(all)
        PROVE  \/ FindDAGLoop(names)
               \/ \E i, k \in DOMAIN more : i # k /\ more[i] = more[k]
               \/ \E i \in DOMAIN more : more[i] \in Range(names)
    <2>1. PICK i \in DOMAIN all, k \in DOMAIN all : i # k /\ all[i] = all[k]
      BY <1>2 DEF FindDAGLoop
    <2>2. ASSUME NEW j \in DOMAIN all, ~(j \in DOMAIN names)
          PROVE  j - n \in DOMAIN more /\ all[j] = more[j - n]
      <3>1. j - n \in 1 .. Len(more) /\ j = n + (j - n)
        BY <1>1, <2>2
      <3> QED BY <1>1, <3>1
    <2>3. \A j \in DOMAIN names : all[j] = names[j]
      BY <1>1
    <2>4. CASE i \in DOMAIN names /\ k \in DOMAIN names
      BY <2>1, <2>3, <2>4 DEF FindDAGLoop
    <2>5. CASE i \in DOMAIN names /\ k \notin DOMAIN names
      BY <2>1, <2>2, <2>3, <2>5 DEF Range
    <2>6. CASE i \notin DOMAIN names /\ k \in DOMAIN names
      BY <2>1, <2>2, <2>3, <2>6 DEF Range
    <2>7. CASE i \notin DOMAIN names /\ k \notin DOMAIN names
      <3>1. i - n # k - n
        BY <1>1, <2>1
      <3> QED BY <2>1, <2>2, <2>7, <3>1
    <2> QED BY <2>4, <2>5, <2>6, <2>7
  <1>3. ASSUME ~FindDAGLoop(all)
        PROVE  /\ ~FindDAGLoop(names)
               /\ \A i, k \in DOMAIN more : more[i] = more[k] => i = k
               /\ \A i \in DOMAIN more : more[i] \notin Range(names)
    BY <1>3, LoopGrows DEF all
  <1> QED BY <1>2, <1>3 DEF all

\* Mentions after one more line of children.
LEMMA TwiceExact ==
  ASSUME NEW data \in Seq(InputLine), NEW line \in InputLine, Len(data) >= 2
  PROVE  /\ NamesIn(Append(data, line)) = NamesIn(data) \cup Range(ChildNames(line))
         /\ Twice(Append(data, line)) <=>
              \/ Twice(data)
              \/ \E i, k \in DOMAIN ChildNames(line) :
                   i # k /\ ChildNames(line)[i] = ChildNames(line)[k]
              \/ \E i \in DOMAIN ChildNames(line) : ChildNames(line)[i] \in NamesIn(data)
         /\ \A i \in DOMAIN ChildNames(line) : \E m \in Places(Append(data, line)) :
              /\ Named(Append(data, line), m) = ChildNames(line)[i]
              /\ Append(data, line)[m[1]] = line
  <1> DEFINE n == Len(data)
             more == Append(data, line)
             names == ChildNames(line)
             New == {n + 1} \X (3 .. Len(line))
  <1>1. /\ Places(more) = Places(data) \cup New
        /\ \A m \in Places(data) : Named(more, m) = Named(data, m) /\ m[1] # n + 1
        /\ more[n + 1] = line
    <2>1. Grown(data, line, more)
      BY DEF Grown
    <2> HIDE DEF more
    <2> QED BY <2>1, PlacesGrow
  <1>2. /\ Len(line) \in Nat \ {0} /\ DOMAIN names = 1 .. Len(line) - 2
        /\ \A i \in DOMAIN names : names[i] = line[i + 2]
    <2>1. /\ names \in Seq(Tokens) /\ Len(line) \in Nat \ {0}
          /\ Len(names) = IF Len(line) > 2 THEN Len(line) - 2 ELSE 0
          /\ \A i \in 1 .. Len(line) - 2 : names[i] = line[i + 2]
      BY ChildNamesRight
    <2> HIDE DEF names
    <2>2. DOMAIN names = 1 .. Len(names)
      BY <2>1
    <2> QED BY <2>1, <2>2
  <1> HIDE DEF n, more, names
  <1>3. ASSUME NEW i \in DOMAIN names
        PROVE  <<n + 1, i + 2>> \in New /\ Named(more, <<n + 1, i + 2>>) = names[i]
    BY <1>1, <1>2 DEF Named
  <1>4. ASSUME NEW m \in New
        PROVE  /\ m[1] = n + 1 /\ m[2] - 2 \in DOMAIN names /\ m = <<n + 1, m[2]>>
               /\ Named(more, m) = names[m[2] - 2]
    <2>1. m[1] = n + 1 /\ m[2] \in 3 .. Len(line) /\ m = <<n + 1, m[2]>>
      OBVIOUS
    <2>2. m[2] - 2 \in DOMAIN names /\ (m[2] - 2) + 2 = m[2]
      BY <1>2, <2>1
    <2> QED BY <1>1, <1>2, <2>1, <2>2 DEF Named
  <1> HIDE DEF New
  <1>5. NamesIn(more) = NamesIn(data) \cup Range(names)
    <2>1. ASSUME NEW m \in Places(more) PROVE Named(more, m) \in NamesIn(data) \cup Range(names)
      BY <1>1, <1>4 DEF NamesIn, Range
    <2>2. ASSUME NEW m \in Places(data) PROVE Named(data, m) \in NamesIn(more)
      BY <1>1 DEF NamesIn
    <2>3. ASSUME NEW i \in DOMAIN names PROVE names[i] \in NamesIn(more)
      BY <1>1, <1>3 DEF NamesIn
    <2> QED BY <2>1, <2>2, <2>3 DEF NamesIn, Range
  <1>6. ASSUME Twice(more)
        PROVE  \/ Twice(data)
               \/ \E i, k \in DOMAIN names : i # k /\ names[i] = names[k]
               \/ \E i \in DOMAIN names : names[i] \in NamesIn(data)
    <2>1. CASE \E m \in Places(more) : Named(more, m) = WhoWon
      BY <1>1, <1>4, <2>1 DEF Twice, NamesIn
    <2>2. CASE \E m, o \in Places(more) : m # o /\ Named(more, m) = Named(more, o)
      <3>1. PICK m \in Places(more), o \in Places(more) : m # o /\ Named(more, m) = Named(more, o)
        BY <2>2
      <3>2. CASE m \in Places(data) /\ o \in Places(data)
        BY <1>1, <3>1, <3>2 DEF Twice
      <3>3. CASE m \in Places(data) /\ o \in New
        BY <1>1, <1>4, <3>1, <3>3 DEF NamesIn
      <3>4. CASE m \in New /\ o \in Places(data)
        BY <1>1, <1>4, <3>1, <3>4 DEF NamesIn
      <3>5. CASE m \in New /\ o \in New
        <4>1. m[2] # o[2] /\ m[2] \in Int /\ o[2] \in Int
          BY <1>4, <3>1, <3>5 DEF New
        <4>2. m[2] - 2 # o[2] - 2
          BY <4>1
        <4> QED BY <1>4, <3>1, <3>5, <4>2
      <3> QED BY <1>1, <3>2, <3>3, <3>4, <3>5
    <2> QED BY <1>6, <2>1, <2>2 DEF Twice
  <1>7. ASSUME Twice(data) PROVE Twice(more)
    BY <1>1, <1>7 DEF Twice
  <1>8. ASSUME NEW i \in DOMAIN names, NEW k \in DOMAIN names, i # k, names[i] = names[k]
        PROVE  Twice(more)
    <2> DEFINE x == <<n + 1, i + 2>>
               y == <<n + 1, k + 2>>
    <2>1. x # y
      BY <1>2, <1>8
    <2>2. x \in New /\ y \in New /\ Named(more, x) = names[i] /\ Named(more, y) = names[k]
      BY <1>3
    <2> HIDE DEF x, y
    <2> QED BY <1>1, <1>8, <2>1, <2>2 DEF Twice
  <1>9. ASSUME NEW i \in DOMAIN names, names[i] \in NamesIn(data) PROVE Twice(more)
    <2> DEFINE x == <<n + 1, i + 2>>
    <2>1. x \in New /\ Named(more, x) = names[i] /\ x[1] = n + 1
      BY <1>3
    <2> HIDE DEF x
    <2>2. CASE names[i] = WhoWon
      BY <1>1, <2>1, <2>2 DEF Twice
    <2>3. CASE \E m \in Places(data) : names[i] = Named(data, m)
      BY <1>1, <2>1, <2>3 DEF Twice
    <2> QED BY <1>9, <2>2, <2>3 DEF NamesIn
  <1>10. ASSUME NEW i \in DOMAIN names
         PROVE  \E m \in Places(more) : Named(more, m) = names[i] /\ more[m[1]] = line
    BY <1>1, <1>3, <1>4
  <1> QED BY <1>5, <1>6, <1>7, <1>8, <1>9, <1>10 DEF more, names
-----------------------------------------------------------------------------
(***************************************************************************)
(* Reading keeps Parsed.                                                   *)
(***************************************************************************)
LEMMA SeenNext ==
  ASSUME TreeTyped, at < Len(file), at' = at + 1, file' = file
  PROVE  Seen' = IF Line[1] = Comment THEN Seen ELSE Append(Seen, Line)
  <1>1. file \in Seq(InputLine) /\ at \in 0 .. Len(file) /\ Len(file) \in Nat
    BY NodeTreeAssumption DEF TreeTyped, InputLine
  <1>2. at + 1 \in 1 .. Len(file) /\ (at + 1) - 1 = at
    BY <1>1
  <1>3. DataStages(file, StagesOf(file))
    BY <1>1, StagesRight
  <1>4. StagesOf(file)[at + 1] =
          IF file[at + 1][1] = Comment THEN StagesOf(file)[at]
          ELSE Append(StagesOf(file)[at], file[at + 1])
    BY <1>2, <1>3 DEF DataStages
  <1>5. Seen' = StagesOf(file)[at + 1]
    BY DEF Seen
  <1> QED BY <1>4, <1>5 DEF Seen, Line

LEMMA ParsedSame ==
  ASSUME Parsed, Seen' = Seen, UNCHANGED <<linecounter, nodes, children, visited>>
  PROVE  Parsed'
  BY DEF Parsed

LEMMA ParsedLinkLine ==
  ASSUME TreeTyped, Linked, Parsed, LinkLine
  PROVE  Parsed'
  <1> DEFINE names == ChildNames(Line)
             more == Append(Seen, Line)
  <1>1. /\ at < Len(file) /\ at' = at + 1 /\ file' = file /\ Line[1] # Comment
        /\ linecounter > 1 /\ linecounter' = linecounter + 1 /\ nodes' = nodes
    BY DEF LinkLine, ParseInputLine, GetLine
  <1>2. Seen' = more
    BY <1>1, SeenNext
  <1>3. Line \in InputLine /\ names \in Seq(Tokens) /\ visited \in Seq(Tokens) /\ linecounter \in Nat
    BY <1>1, LineRight, ChildNamesRight DEF TreeTyped
  <1>4. /\ Seen \in Seq(InputLine) /\ Len(Seen) = linecounter /\ Len(Seen) >= 2
        /\ nodes = Seen[2] /\ Range(visited) = NamesIn(Seen)
        /\ FindDAGLoop(visited) <=> Twice(Seen)
    BY <1>1, <1>3 DEF Parsed
  <1>5. /\ more \in Seq(InputLine) /\ Len(more) = linecounter + 1 /\ more[2] = Seen[2]
        /\ \A m \in Places(Seen) :
             m \in Places(more) /\ Named(more, m) = Named(Seen, m) /\ more[m[1]] = Seen[m[1]]
    <2>1. Grown(Seen, Line, more)
      BY DEF Grown
    <2> HIDE DEF more
    <2>2. /\ more \in Seq(InputLine) /\ Len(more) = Len(Seen) + 1 /\ more[2] = Seen[2]
          /\ Places(more) = Places(Seen) \cup ({Len(Seen) + 1} \X (3 .. Len(Line)))
          /\ \A m \in Places(Seen) : Named(more, m) = Named(Seen, m) /\ more[m[1]] = Seen[m[1]]
      BY <1>3, <1>4, <2>1, PlacesGrow
    <2> QED BY <1>4, <2>2
  <1>6. /\ NamesIn(more) = NamesIn(Seen) \cup Range(names)
        /\ Twice(more) <=>
             \/ Twice(Seen)
             \/ \E i, k \in DOMAIN names : i # k /\ names[i] = names[k]
             \/ \E i \in DOMAIN names : names[i] \in NamesIn(Seen)
        /\ \A i \in DOMAIN names : \E m \in Places(more) :
             Named(more, m) = names[i] /\ more[m[1]] = Line
    BY <1>3, <1>4, TwiceExact
  <1>7. /\ visited' = visited \o names
        /\ \A f \in DOMAIN nodes : \A j \in DOMAIN children'[f] :
             \/ \E k \in DOMAIN children[f] : children'[f][j] = children[f][k]
             \/ nodes[f] = Line[1] /\ \E i \in DOMAIN names : nodes[children'[f][j]] = names[i]
    BY LinkLineRight
  <1> HIDE DEF names, more
  <1>8. Range(visited') = NamesIn(more)
    BY <1>3, <1>4, <1>6, <1>7, RangeGrows
  <1>9. FindDAGLoop(visited \o names) <=> Twice(more)
    BY <1>3, <1>4, <1>6, LoopExact
  <1>10. ASSUME NEW f \in DOMAIN nodes, NEW j \in DOMAIN children'[f]
         PROVE  \E m \in Places(more) :
                  Named(more, m) = nodes[children'[f][j]] /\ more[m[1]][1] = nodes[f]
    <2>1. CASE \E k \in DOMAIN children[f] : children'[f][j] = children[f][k]
      <3>1. \E m \in Places(Seen) :
              Named(Seen, m) = nodes[children'[f][j]] /\ Seen[m[1]][1] = nodes[f]
        BY <2>1 DEF Parsed
      <3> QED BY <1>5, <3>1
    <2>2. CASE nodes[f] = Line[1] /\ \E i \in DOMAIN names : nodes[children'[f][j]] = names[i]
      BY <1>6, <2>2
    <2> QED BY <1>7, <1>10, <2>1, <2>2
  <1>11. FindDAGLoop(visited') <=> Twice(more)
    BY <1>7, <1>9
  <1> QED BY <1>1, <1>2, <1>4, <1>5, <1>8, <1>10, <1>11 DEF Parsed

LEMMA ParsedStep ==
  ASSUME TreeTyped, Linked, Parsed, Next
  PROVE  Parsed'
  <1>1. CASE SkipComment
    <2>1. /\ at < Len(file) /\ at' = at + 1 /\ file' = file /\ Line[1] = Comment
          /\ UNCHANGED <<linecounter, nodes, children, visited>>
      BY <1>1 DEF SkipComment, GetLine
    <2> QED BY <2>1, SeenNext, ParsedSame
  <1>2. CASE CandidateLine \/ NodeLine
    <2>1. /\ at < Len(file) /\ at' = at + 1 /\ file' = file /\ Line[1] # Comment
          /\ linecounter \in {0, 1} /\ linecounter' = linecounter + 1 /\ visited' = visited
      BY <1>2 DEF CandidateLine, NodeLine, ParseInputLine, GetLine
    <2>2. Line \in InputLine /\ Seen' = Append(Seen, Line)
      BY <2>1, LineRight, SeenNext
    <2>3. Seen \in Seq(InputLine) /\ Len(Seen) = linecounter /\ Len(Seen) < 2
      BY <2>1 DEF Parsed
    <2>4. /\ Seen' \in Seq(InputLine) /\ Len(Seen') = linecounter'
          /\ Places(Seen) = {} /\ Places(Seen') = {} /\ Seen'[Len(Seen) + 1] = Line
      <3>1. Grown(Seen, Line, Seen')
        BY <2>2 DEF Grown
      <3> QED BY <2>1, <2>2, <2>3, <3>1, PlacesGrow
    <2>5. Range(visited) = NamesIn(Seen) /\ (FindDAGLoop(visited) <=> Twice(Seen))
      BY DEF Parsed
    <2>6. Range(visited') = NamesIn(Seen')
      BY <2>1, <2>4, <2>5 DEF NamesIn
    <2>7. FindDAGLoop(visited') <=> Twice(Seen')
      BY <2>1, <2>4, <2>5 DEF Twice
    <2>8. /\ linecounter' >= 2 => nodes' = Seen'[2]
          /\ \A f \in DOMAIN nodes' : DOMAIN children'[f] = {}
      <3>1. CASE CandidateLine
        <4>1. linecounter = 0 /\ UNCHANGED <<nodes, children>>
          BY <3>1 DEF CandidateLine, ParseInputLine
        <4>2. DOMAIN nodes = {}
          BY <4>1 DEF Linked
        <4> QED BY <2>1, <4>1, <4>2
      <3>2. CASE NodeLine
        <4>1. linecounter = 1 /\ nodes' = Line /\ children' = [i \in DOMAIN Line |-> <<>>]
          BY <3>2 DEF NodeLine, ParseInputLine
        <4>2. Seen'[2] = Line
          BY <2>3, <2>4, <4>1
        <4> QED BY <4>1, <4>2
      <3> QED BY <1>2, <3>1, <3>2
    <2> QED BY <2>4, <2>6, <2>7, <2>8 DEF Parsed
  <1>3. CASE LinkLine
    BY <1>3, ParsedLinkLine
  <1>4. CASE EndOfInput \/ Later
    <2>1. UNCHANGED <<file, at, linecounter, nodes, children, visited>>
      BY <1>4 DEF EndOfInput, Later, parseVars
    <2>2. Seen' = Seen
      BY <2>1 DEF Seen
    <2> QED BY <2>1, <2>2, ParsedSame
  <1> QED BY <1>1, <1>2, <1>3, <1>4, LaterSteps DEF ReadInput

\* Only a cycle makes findRoot crash.
Crashed == phase = "crashed" => \E v \in DOMAIN nodes : OnCycle(v)

LEMMA CrashedStep ==
  ASSUME Crashed, Next
  PROVE  Crashed'
  <1>1. CASE CountCycle
    <2>1. PICK v \in Within(turn) : OnCycle(v)
      BY <1>1 DEF CountCycle, Endless
    <2>2. v \in DOMAIN nodes
      BY WithinMember
    <2>3. UNCHANGED <<nodes, children>>
      BY <1>1 DEF CountCycle, parseVars
    <2>4. OnCycle(v)' <=> OnCycle(v)
      BY <2>3 DEF OnCycle, Below, Within, Kids
    <2> QED BY <2>1, <2>2, <2>3, <2>4 DEF Crashed
  <1>2. CASE ReadInput \/ CountNode \/ Start \/ ExecNodes
    <2>1. phase' # "crashed"
      BY <1>2, ExecSteps DEF ReadInput, SkipComment, CandidateLine, NodeLine, LinkLine,
         ParseInputLine, GetLine, EndOfInput, CountNode, Turn, Start, RootKnown
    <2> QED BY <2>1 DEF Crashed
  <1> QED BY <1>1, <1>2 DEF Next, FindRoot

ParsedInv == NodeInv /\ Parsed /\ Crashed

LEMMA ParsedInit == Init => ParsedInv
  <1> SUFFICES ASSUME Init PROVE ParsedInv
    OBVIOUS
  <1>1. /\ phase = "parse" /\ at = 0 /\ linecounter = 0 /\ nodes = <<>> /\ visited = <<WhoWon>>
    BY DEF Init, TreeInit
  <1>2. NodeInv /\ TreeTyped
    BY NodeInit DEF NodeInv
  <1>3. Seen = <<>>
    <2>1. file \in Seq(InputLine)
      BY <1>2, NodeTreeAssumption DEF TreeTyped, InputLine
    <2> QED BY <1>1, <2>1, StagesRight DEF Seen, DataStages
  <1>4. Len(Seen) = 0 /\ Seen \in Seq(InputLine) /\ Places(Seen) = {}
    <2>1. Len(Seen) = 0 /\ Seen \in Seq(InputLine) /\ 3 .. 0 = {}
      BY <1>3
    <2> QED BY <2>1 DEF Places
  <1>5. Range(visited) = NamesIn(Seen)
    BY <1>1, <1>4 DEF Range, NamesIn
  <1>6. ~FindDAGLoop(visited) /\ ~Twice(Seen)
    <2>1. \A i, k \in DOMAIN visited : i = k
      BY <1>1
    <2> QED BY <1>4, <2>1 DEF FindDAGLoop, Twice
  <1>7. DOMAIN nodes = {}
    BY <1>1
  <1>8. Parsed
    BY <1>1, <1>4, <1>5, <1>6, <1>7 DEF Parsed
  <1> QED BY <1>1, <1>2, <1>8 DEF ParsedInv, Crashed

LEMMA ParsedNext == ParsedInv /\ [Next]_vars => ParsedInv'
  <1> SUFFICES ASSUME ParsedInv, [Next]_vars PROVE ParsedInv'
    OBVIOUS
  <1>1. NodeInv /\ TreeTyped /\ Linked /\ Parsed /\ Crashed
    BY DEF ParsedInv, NodeInv
  <1>2. NodeInv'
    BY <1>1, NodeStep
  <1>3. CASE Next
    BY <1>1, <1>2, <1>3, ParsedStep, CrashedStep DEF ParsedInv
  <1>4. CASE UNCHANGED vars
    <2>1. UNCHANGED <<file, at, linecounter, nodes, children, visited, phase>>
      BY <1>4 DEF vars, treeVars, parseVars
    <2>2. Seen' = Seen
      BY <2>1 DEF Seen
    <2>3. \A v : OnCycle(v)' <=> OnCycle(v)
      BY <2>1 DEF OnCycle, Below, Within, Kids
    <2>4. Crashed'
      BY <1>1, <2>1, <2>3 DEF Crashed
    <2> QED BY <1>1, <1>2, <2>1, <2>2, <2>4, ParsedSame DEF ParsedInv
  <1> QED BY <1>3, <1>4
-----------------------------------------------------------------------------
(***************************************************************************)
(* The loop test on a file whose regions hang together.                    *)
(***************************************************************************)
LEMMA MentionsFinite ==
  ASSUME DataLines \in Seq(InputLine)
  PROVE  IsFiniteSet(Mentions)
  <1> DEFINE I == 3 .. Len(DataLines)
             Row(i) == {i} \X (3 .. Len(DataLines[i]))
             f == [i \in I |-> Row(i)]
             T == {f[i] : i \in I}
  <1>1. ASSUME NEW i \in I PROVE IsFiniteSet(Row(i))
    <2>1. i \in DOMAIN DataLines
      OBVIOUS
    <2>2. DataLines[i] \in InputLine
      BY <2>1
    <2>3. Len(DataLines[i]) \in Int
      BY <2>2 DEF InputLine
    <2>4. IsFiniteSet(3 .. Len(DataLines[i]))
      <3> HIDE DEF I, Row
      <3> QED BY <2>3, FS_Interval
    <2>5. IsFiniteSet({i})
      BY FS_Singleton
    <2> QED BY <2>4, <2>5, FS_Product
  <1>2. IsFiniteSet(I)
    <2>1. Len(DataLines) \in Int
      OBVIOUS
    <2> QED BY <2>1, FS_Interval
  <1> HIDE DEF Row, I
  <1>3. f \in Surjection(I, T)
    BY DEF Surjection
  <1>4. \A S \in T : IsFiniteSet(S)
    BY <1>1
  <1>5. IsFiniteSet(T)
    <2> HIDE DEF f, T
    <2> QED BY <1>2, <1>3, FS_Surjection
  <1>6. IsFiniteSet(UNION T)
    <2> HIDE DEF f, T
    <2> QED BY <1>4, <1>5, FS_UNION
  <1>7. Mentions = UNION T
    BY DEF Mentions, Row, I
  <1> QED BY <1>6, <1>7

LEMMA MentionsPlaces ==
  /\ Mentions = Places(DataLines)
  /\ \A m : Child(m) = Named(DataLines, m)
  BY DEF Mentions, Places, Child, Named

\* Attached leaves no region out: each but WhoWon is mentioned.
LEMMA EachMentioned ==
  ASSUME Attached, NEW r \in Listed, r # WhoWon
  PROVE  \E m \in Mentions : Child(m) = r
  <1> SUFFICES ASSUME \A m \in Mentions : Child(m) # r PROVE FALSE
    OBVIOUS
  <1> DEFINE S == Listed \ {r}
  <1>1. S \in SUBSET Listed /\ WhoWon \in S
    BY DEF Attached
  <1>2. \A m \in Mentions : Father(m) \in S => Child(m) \in S
    BY DEF Attached
  <1>3. S = Listed
    <2> HIDE DEF S
    <2> QED BY <1>1, <1>2 DEF Attached
  <1> QED BY <1>3

LEMMA TreeExact ==
  ASSUME Attached, DataLines \in Seq(InputLine)
  PROVE  IsTree <=> ~Twice(DataLines)
  <1> DEFINE Of(r) == {m \in Mentions : Child(m) = r}
  <1>1. ASSUME NEW r PROVE IsFiniteSet(Of(r))
    <2>1. Of(r) \in SUBSET Mentions
      OBVIOUS
    <2> QED BY <2>1, MentionsFinite, FS_Subset
  <1>2. ASSUME IsTree PROVE ~Twice(DataLines)
    <2>1. ASSUME NEW r \in Listed
          PROVE  Cardinality(Of(r)) = (IF r = WhoWon THEN 0 ELSE 1)
      BY <1>2 DEF IsTree
    <2>2. ASSUME NEW m \in Mentions, NEW n \in Mentions, m # n, Child(m) = Child(n) PROVE FALSE
      <3>1. Child(m) \in Listed /\ m \in Of(Child(m)) /\ n \in Of(Child(m))
        BY <2>2 DEF Attached
      <3> HIDE DEF Of
      <3>2. Cardinality(Of(Child(m))) # 0
        BY <1>1, <3>1, FS_EmptySet
      <3>3. Cardinality(Of(Child(m))) # 1
        BY <1>1, <2>2, <3>1, FS_Singleton
      <3> QED BY <2>1, <3>1, <3>2, <3>3
    <2>3. ASSUME NEW m \in Mentions, Child(m) = WhoWon PROVE FALSE
      <3>1. WhoWon \in Listed /\ m \in Of(WhoWon)
        BY <2>3 DEF Attached
      <3> HIDE DEF Of
      <3>2. Cardinality(Of(WhoWon)) # 0
        BY <1>1, <3>1, FS_EmptySet
      <3> QED BY <2>1, <3>1, <3>2
    <2> QED BY <2>2, <2>3, MentionsPlaces DEF Twice
  <1>3. ASSUME ~Twice(DataLines) PROVE IsTree
    <2>1. /\ \A m, n \in Mentions : Child(m) = Child(n) => m = n
          /\ \A m \in Mentions : Child(m) # WhoWon
      BY <1>3, MentionsPlaces DEF Twice
    <2>2. ASSUME NEW r \in Listed
          PROVE  Cardinality(Of(r)) = (IF r = WhoWon THEN 0 ELSE 1)
      <3>1. CASE r = WhoWon
        <4>1. Of(r) = {}
          BY <2>1, <3>1
        <4> HIDE DEF Of
        <4> QED BY <3>1, <4>1, FS_EmptySet
      <3>2. CASE r # WhoWon
        <4>1. PICK m \in Mentions : Child(m) = r
          BY <3>2, EachMentioned
        <4>2. Of(r) = {m}
          BY <2>1, <4>1
        <4> HIDE DEF Of
        <4> QED BY <3>2, <4>2, FS_Singleton
      <3> QED BY <3>1, <3>2
    <2> QED BY <2>2 DEF IsTree
  <1> QED BY <1>2, <1>3

\* A node on a cycle and the others on its cycles: each is a child of another.
LEMMA CycleClosed ==
  ASSUME KidsTyped, NEW v \in DOMAIN nodes, OnCycle(v),
         NEW u \in Within(v), v \in Within(u)
  PROVE  \E f \in Within(v) : v \in Within(f) /\ u \in Kids(f)
  <1>1. \A w \in DOMAIN nodes : /\ w \in Within(w) /\ Within(w) \in SUBSET DOMAIN nodes
                                /\ \A x \in Within(w) : Kids(x) \subseteq Within(w)
    BY WithinFacts
  <1>2. CASE u # v
    <2>1. PICK f \in Within(v) : u \in Kids(f)
      BY <1>2, WithinUp
    <2>2. f \in DOMAIN nodes /\ u \in Within(f)
      BY <1>1, <2>1
    <2>3. v \in Within(f)
      BY <2>2, WithinTransitive
    <2> QED BY <2>1, <2>3
  <1>3. CASE u = v
    <2>1. PICK c \in Kids(v) : v \in Within(c)
      BY DEF OnCycle, Below
    <2>2. c \in Within(v) /\ c \in DOMAIN nodes
      BY <1>1, <2>1
    <2>3. CASE c = v
      BY <1>1, <1>3, <2>1, <2>3
    <2>4. CASE c # v
      <3>1. PICK f \in Within(c) : v \in Kids(f)
        BY <2>1, <2>2, <2>4, WithinUp
      <3>2. f \in Within(v) /\ f \in DOMAIN nodes
        BY <1>1, <2>2, <3>1, WithinTransitive
      <3>3. v \in Within(f)
        BY <1>1, <3>1, <3>2
      <3> QED BY <1>3, <3>1, <3>2, <3>3
    <2> QED BY <2>3, <2>4
  <1> QED BY <1>2, <1>3

\* A cycle cannot be reached from WhoWon by names with one mention each.
LEMMA NoCycle ==
  ASSUME KidsTyped, Attached, ~Twice(DataLines), nodes = DataLines[2],
         \A f \in DOMAIN nodes : \A j \in DOMAIN children[f] : \E m \in Places(DataLines) :
           Named(DataLines, m) = nodes[children[f][j]] /\ DataLines[m[1]][1] = nodes[f],
         NEW v \in DOMAIN nodes, OnCycle(v)
  PROVE  FALSE
  <1> DEFINE C == {u \in Within(v) : v \in Within(u)}
             S == Listed \ {nodes[u] : u \in C}
  <1>1. v \in C /\ C \subseteq DOMAIN nodes
    BY WithinFacts
  <1>2. ASSUME NEW u \in C
        PROVE  \E f \in C : \E m \in Mentions : Child(m) = nodes[u] /\ Father(m) = nodes[f]
    <2>1. PICK f \in Within(v) : v \in Within(f) /\ u \in Kids(f)
      BY CycleClosed
    <2>2. PICK j \in DOMAIN children[f] : u = children[f][j]
      BY <2>1 DEF Kids
    <2>3. f \in C /\ f \in DOMAIN nodes
      BY <1>1, <2>1
    <2> QED BY <2>2, <2>3, MentionsPlaces DEF Father
  <1>3. /\ \A m, n \in Mentions : Child(m) = Child(n) => m = n
        /\ \A m \in Mentions : Child(m) # WhoWon
    BY MentionsPlaces DEF Twice
  <1> HIDE DEF C
  <1>4. ASSUME NEW m \in Mentions, Father(m) \in S PROVE Child(m) \in S
    <2>1. ASSUME NEW u \in C, Child(m) = nodes[u] PROVE FALSE
      <3>1. PICK f \in C : \E n \in Mentions : Child(n) = nodes[u] /\ Father(n) = nodes[f]
        BY <1>2
      <3>2. Father(m) = nodes[f]
        BY <1>3, <2>1, <3>1
      <3> QED BY <1>4, <3>2
    <2> QED BY <2>1 DEF Attached
  <1>5. WhoWon \in S
    BY <1>2, <1>3 DEF Attached
  <1>6. S = Listed
    <2>1. S \in SUBSET Listed
      OBVIOUS
    <2> HIDE DEF S
    <2> QED BY <1>4, <1>5, <2>1 DEF Attached
  <1>7. nodes[v] \in Listed
    BY DEF Listed, Range
  <1> QED BY <1>1, <1>6, <1>7

LEMMA LoopTestFollows == ParsedInv => LoopTestExact
  <1> SUFFICES ASSUME ParsedInv, phase \in {"loop", "count", "crashed"}, Attached
               PROVE  (IsTree <=> phase # "loop") /\ phase # "crashed"
    BY DEF LoopTestExact
  <1>1. TreeTyped /\ Tested /\ Parsed /\ Crashed
    BY DEF ParsedInv, NodeInv
  <1>2. at = Len(file) /\ linecounter >= 2 /\ (FindDAGLoop(visited) <=> phase = "loop")
    BY <1>1 DEF Tested
  <1>3. Seen = DataLines
    <2>1. file \in Seq(InputLine)
      BY <1>1, NodeTreeAssumption DEF TreeTyped, InputLine
    <2> QED BY <1>2, <2>1, StagesRight DEF Seen, DataLines, DataStages
  <1>4. /\ DataLines \in Seq(InputLine) /\ nodes = DataLines[2]
        /\ FindDAGLoop(visited) <=> Twice(DataLines)
        /\ \A f \in DOMAIN nodes : \A j \in DOMAIN children[f] : \E m \in Places(DataLines) :
             Named(DataLines, m) = nodes[children[f][j]] /\ DataLines[m[1]][1] = nodes[f]
    BY <1>1, <1>2, <1>3 DEF Parsed
  <1>5. IsTree <=> phase # "loop"
    BY <1>2, <1>4, TreeExact
  <1>6. phase # "crashed"
    <2> SUFFICES ASSUME phase = "crashed" PROVE FALSE
      OBVIOUS
    <2>1. PICK v \in DOMAIN nodes : OnCycle(v)
      BY <1>1 DEF Crashed
    <2>2. KidsTyped /\ ~Twice(DataLines)
      BY <1>1, <1>2, <1>4 DEF TreeTyped, KidsTyped
    <2> QED BY <1>4, <2>1, <2>2, NoCycle
  <1> QED BY <1>5, <1>6

(***************************************************************************)
(* Among the files whose regions all hang together with WhoWon the loop    *)
(* test refuses just those that are no trees, and findRoot comes to an     *)
(* end: a cycle that WhoWon leads to has a name with two mentions.         *)
(***************************************************************************)
THEOREM LoopTest == Spec => []LoopTestExact
  <1>1. Spec => []ParsedInv
    BY ParsedInit, ParsedNext, PTL DEF Spec
  <1> QED BY <1>1, LoopTestFollows, PTL
-----------------------------------------------------------------------------
(***************************************************************************)
(* What findRoot counts where it counts each node once: for each the sum   *)
(* over its children of their counts and 1 each.                           *)
(***************************************************************************)
Weights(f) ==
  f \in [DOMAIN nodes -> Nat] /\ \A u \in DOMAIN nodes : f[u] = AddUp(f, Len(children[u]), children[u])

\* A sum is not below what it starts from, nor any of the counts above what is left.
LEMMA AddUpMore ==
  ASSUME NEW Dom, NEW list \in Seq(Dom), NEW count, NEW start \in Nat,
         \A k \in DOMAIN list : count[list[k]] \in Nat
  PROVE  /\ \A k \in DOMAIN list : start + count[list[k]] <= AddUp(count, start, list)
         /\ (\A k \in DOMAIN list : count[list[k]] = 0) => AddUp(count, start, list) = start
  <1>1. PICK h : /\ h[0] = start
                 /\ \A k \in 1 .. Len(list) : h[k] = h[k - 1] + count[list[k]]
                 /\ AddUp(count, start, list) = h[Len(list)]
    BY AddUpStages
  <1> DEFINE n == Len(list)
             Good(k) == /\ h[k] \in Nat /\ start <= h[k]
                        /\ \A i \in 1 .. k : start + count[list[i]] <= h[k]
                        /\ (\A i \in DOMAIN list : count[list[i]] = 0) => h[k] = start
             Held == {k \in 0 .. n : Good(k)}
  <1>2. n \in Nat /\ DOMAIN list = 1 .. n
    OBVIOUS
  <1>3. 0 \in Held
    <2>1. 1 .. 0 = {} /\ 0 \in 0 .. n
      BY <1>2
    <2> QED BY <1>1, <2>1
  <1>4. ASSUME NEW k \in 1 .. n, k - 1 \in Held PROVE k \in Held
    <2> DEFINE x == count[list[k]]
               a == h[k - 1]
               b == h[k]
    <2>1. Good(k - 1) /\ k \in 0 .. n
      BY <1>2, <1>4
    <2>2. x \in Nat /\ b = a + x /\ a \in Nat /\ start <= a
      BY <1>1, <1>2, <2>1
    <2>3. b \in Nat /\ start <= b /\ start + x <= b /\ a <= b
      <3> HIDE DEF x, a, b
      <3> QED BY <2>2
    <2>4. ASSUME NEW i \in 1 .. k PROVE start + count[list[i]] <= b
      <3>1. CASE i = k
        BY <2>3, <3>1
      <3>2. CASE i # k
        <4>1. i \in 1 .. k - 1 /\ i \in DOMAIN list
          BY <1>2, <3>2
        <4>2. start + count[list[i]] <= a /\ count[list[i]] \in Nat
          BY <2>1, <4>1
        <4> HIDE DEF a, b
        <4> QED BY <2>2, <2>3, <4>2
      <3> QED BY <3>1, <3>2
    <2>5. ASSUME \A i \in DOMAIN list : count[list[i]] = 0 PROVE b = start
      <3>1. x = 0 /\ a = start
        BY <1>2, <2>1, <2>5
      <3> HIDE DEF x, a, b
      <3> QED BY <2>2, <3>1
    <2> QED BY <2>1, <2>3, <2>4, <2>5
  <1>5. 0 .. n \subseteq Held
    <2> HIDE DEF Held, n
    <2> QED BY <1>2, <1>3, <1>4, UpTo
  <1>6. n \in 0 .. n
    BY <1>2
  <1>7. Good(n)
    <2> HIDE DEF Good, n
    <2> QED BY <1>5, <1>6
  <1> QED BY <1>1, <1>2, <1>7

\* A node weighs more than its children, and a leaf nothing.
LEMMA WeightsUp ==
  ASSUME KidsTyped, NEW f, Weights(f), NEW u \in DOMAIN nodes
  PROVE  /\ f[u] \in Nat
         /\ \A c \in Kids(u) : f[c] < f[u]
         /\ Kids(u) = {} => f[u] = 0
  <1> DEFINE list == children[u]
  <1>1. /\ list \in Seq(DOMAIN nodes) /\ Len(list) \in Nat /\ DOMAIN list = 1 .. Len(list)
        /\ f[u] = AddUp(f, Len(list), list) /\ f[u] \in Nat
    BY DEF KidsTyped, Weights
  <1>2. \A k \in DOMAIN list : f[list[k]] \in Nat /\ list[k] \in DOMAIN nodes
    <2>1. \A k \in DOMAIN list : list[k] \in DOMAIN nodes
      BY <1>1
    <2> QED BY <2>1 DEF Weights
  <1>3. /\ \A k \in DOMAIN list : Len(list) + f[list[k]] <= f[u]
        /\ (\A k \in DOMAIN list : f[list[k]] = 0) => f[u] = Len(list)
    <2> HIDE DEF list
    <2> QED BY <1>1, <1>2, AddUpMore
  <1>4. ASSUME NEW c \in Kids(u) PROVE f[c] < f[u]
    <2>1. PICK k \in DOMAIN list : c = list[k]
      BY DEF Kids
    <2>2. Len(list) + f[c] <= f[u] /\ Len(list) >= 1 /\ f[c] \in Nat
      BY <1>1, <1>2, <1>3, <2>1
    <2> QED BY <1>1, <2>2
  <1>5. ASSUME Kids(u) = {} PROVE f[u] = 0
    <2>1. DOMAIN list = {}
      BY <1>5 DEF Kids
    <2> QED BY <1>1, <1>3, <2>1
  <1> QED BY <1>1, <1>4, <1>5

\* All that lies below a node weighs less.
LEMMA WeightsBelow ==
  ASSUME KidsTyped, NEW f, Weights(f), NEW w \in DOMAIN nodes, NEW v \in Within(w), v # w
  PROVE  f[v] < f[w]
  <1> DEFINE S == {u \in DOMAIN nodes : u = w \/ f[u] < f[w]}
  <1>1. ASSUME NEW u \in S PROVE Kids(u) \subseteq S
    <2>1. Kids(u) \subseteq DOMAIN nodes /\ f[u] \in Nat /\ f[w] \in Nat
      BY KidsInside, WeightsUp
    <2>2. \A c \in Kids(u) : f[c] < f[u] /\ f[c] \in Nat
      BY <2>1, WeightsUp
    <2> QED BY <2>1, <2>2
  <1>2. S \in SUBSET DOMAIN nodes /\ Closed(S, w)
    BY <1>1 DEF Closed
  <1>3. v \in S
    <2> HIDE DEF S
    <2> QED BY <1>2, WithinLeast
  <1> QED BY <1>3

\* Before the first turn there are weights: what the first call would find from the root.
LEMMA WeightsExist ==
  ASSUME KidsTyped, NEW w \in DOMAIN nodes, Acyclic(w), Within(w) = DOMAIN nodes,
         num_descendant = [v \in DOMAIN nodes |-> Len(children[v])],
         status = [v \in DOMAIN nodes |-> FALSE]
  PROVE  \E f : Weights(f)
  <1>1. CountTyped
    <2>1. \A v \in DOMAIN nodes : Len(children[v]) \in Nat
      BY DEF KidsTyped
    <2> QED BY <2>1 DEF CountTyped
  <1>2. PICK f : Counting(f, w)
    BY <1>1, NumOfDescendantSolves
  <1> DEFINE g == [u \in DOMAIN nodes |-> f[u]]
  <1>3. \A u \in DOMAIN nodes : f[u] \in Nat /\ f[u] = AddUp(f, Len(children[u]), children[u])
    BY <1>2 DEF Counting, Sum
  <1>4. ASSUME NEW u \in DOMAIN nodes PROVE g[u] = AddUp(g, Len(children[u]), children[u])
    <2>1. children[u] \in Seq(DOMAIN nodes) /\ Len(children[u]) \in Nat
      BY DEF KidsTyped
    <2>2. \A k \in DOMAIN children[u] : children[u][k] \in DOMAIN nodes
      BY <2>1
    <2>3. \A k \in DOMAIN children[u] : f[children[u][k]] \in Nat /\ f[children[u][k]] = g[children[u][k]]
      BY <1>3, <2>2
    <2>4. g[u] = f[u]
      OBVIOUS
    <2> HIDE DEF g
    <2>5. AddUp(f, Len(children[u]), children[u]) = AddUp(g, Len(children[u]), children[u])
      BY <2>1, <2>3, AddUpSame
    <2> QED BY <1>3, <2>4, <2>5
  <1>5. g \in [DOMAIN nodes -> Nat]
    BY <1>3
  <1> HIDE DEF g
  <1> QED BY <1>4, <1>5 DEF Weights
\* A tree that findRoot copes with, from its root w: of three levels, or with children first.
Shape(w) ==
  /\ w \in DOMAIN nodes /\ nodes[w] = WhoWon
  /\ Within(w) = DOMAIN nodes /\ Acyclic(w) /\ Kids(w) # {}
  /\ \A v \in DOMAIN nodes : w \notin Kids(v)
  /\ \/ \A v \in DOMAIN nodes \ {w} : \A k \in Kids(v) : Kids(k) = {}
     \/ \A v \in DOMAIN nodes : \A k \in Kids(v) : k < v

\* The counts made are the weights, and the root so far has the most.
Honest(f) ==
  /\ CountTyped
  /\ \A v \in DOMAIN nodes : num_descendant[v] = (IF status[v] THEN f[v] ELSE Len(children[v]))
  /\ \A v \in DOMAIN nodes : status[v] => \E u \in 1 .. turn - 1 : v \in Within(u)
  /\ most \in Nat /\ \A u \in 1 .. turn - 1 : f[u] <= most
  /\ IF root = 0 THEN most = 0 ELSE root \in 1 .. turn - 1 /\ most = f[root]

\* A node whose count was made before its turn has no children but leaves.
LEMMA CountedBefore ==
  ASSUME TreeTyped, Counted, NEW w, Shape(w), NEW f, Honest(f),
         NEW v \in DOMAIN nodes, v = turn, status[v]
  PROVE  \A k \in Kids(v) : Kids(k) = {}
  <1>1. DOMAIN nodes = 1 .. Len(nodes) /\ Len(nodes) \in Nat /\ KidsTyped
    BY DEF TreeTyped, KidsTyped
  <1>2. PICK u \in 1 .. turn - 1 : v \in Within(u)
    BY DEF Honest
  <1>3. u \in DOMAIN nodes /\ u < v
    BY <1>1, <1>2
  <1>4. CASE \A x \in DOMAIN nodes : \A k \in Kids(x) : k < x
    <2> DEFINE S == {x \in DOMAIN nodes : x <= u}
    <2>1. ASSUME NEW x \in S PROVE Kids(x) \subseteq S
      <3>1. Kids(x) \subseteq DOMAIN nodes
        BY <1>1, KidsInside
      <3> QED BY <1>1, <1>3, <1>4, <3>1
    <2>2. S \in SUBSET DOMAIN nodes /\ Closed(S, u)
      BY <1>1, <1>3, <2>1 DEF Closed
    <2>3. v \in S
      <3> HIDE DEF S
      <3> QED BY <1>2, <2>2, WithinLeast
    <2> QED BY <1>1, <1>3, <2>3
  <1>5. CASE \A x \in DOMAIN nodes \ {w} : \A k \in Kids(x) : Kids(k) = {}
    <2>1. v # w
      <3> SUFFICES ASSUME v = w PROVE FALSE
        OBVIOUS
      <3>1. u # v
        BY <1>1, <1>3
      <3>2. PICK p \in Within(u) : v \in Kids(p)
        BY <1>1, <1>2, <1>3, <3>1, WithinUp
      <3>3. p \in DOMAIN nodes
        BY <1>1, <1>3, WithinFacts
      <3> QED BY <3>2, <3>3 DEF Shape
    <2> QED BY <1>5, <2>1
  <1> QED BY <1>4, <1>5 DEF Shape

\* On its turn a node, and what is below it, is counted right.
LEMMA CountsAreWeights ==
  ASSUME TreeTyped, Counted, NEW w, Shape(w), NEW f, Weights(f), Honest(f),
         NEW v \in DOMAIN nodes, v = turn, Acyclic(v), NEW count, Counting(count, v)
  PROVE  \A u \in Within(v) : count[u] = f[u]
  <1>1. KidsTyped /\ CountTyped
    BY DEF TreeTyped, KidsTyped, Honest
  <1>2. Within(v) \in SUBSET DOMAIN nodes /\ \A u \in Within(v) : Kids(u) \subseteq Within(v)
    BY <1>1, WithinFacts
  <1>3. ASSUME NEW u \in Within(v), \A c \in Kids(u) : count[c] = f[c] PROVE count[u] = f[u]
    <2> DEFINE list == children[u]
    <2>1. u \in DOMAIN nodes /\ list \in Seq(DOMAIN nodes) /\ Len(list) \in Nat
      BY <1>1, <1>2 DEF KidsTyped
    <2>2. \A c \in Kids(u) : count[c] \in Nat /\ count[c] = f[c]
      BY <1>2, <1>3 DEF Counting
    <2>3. count[u] = Sum(count, v, u)
      BY DEF Counting
    <2>4. Sum(count, v, u) = Sum(f, v, u)
      BY <1>1, <2>1, <2>2, SumRight
    <2>5. CASE ~status[u]
      <3>1. num_descendant[u] = Len(list)
        BY <2>1, <2>5 DEF Honest
      <3>2. Sum(f, v, u) = AddUp(f, Len(list), list)
        BY <2>5, <3>1 DEF Sum
      <3> QED BY <2>1, <2>3, <2>4, <3>2 DEF Weights
    <2>6. CASE status[u] /\ u # v
      BY <2>1, <2>3, <2>4, <2>6 DEF Sum, Honest
    <2>7. CASE status[u] /\ u = v
      <3>1. num_descendant[u] = f[u] /\ f[u] \in Nat
        BY <1>1, <2>1, <2>7, WeightsUp DEF Honest
      <3>2. Sum(f, v, u) = AddUp(f, f[u], list)
        BY <2>7, <3>1 DEF Sum
      <3>3. \A k \in DOMAIN list : f[list[k]] = 0
        <4>1. \A k \in DOMAIN list : list[k] \in Kids(u) /\ list[k] \in DOMAIN nodes
          BY <2>1 DEF Kids
        <4>2. \A c \in Kids(u) : Kids(c) = {}
          BY <2>7, CountedBefore
        <4> QED BY <1>1, <4>1, <4>2, WeightsUp
      <3>4. AddUp(f, f[u], list) = f[u]
        <4> HIDE DEF list
        <4>1. \A k \in DOMAIN list : f[list[k]] \in Nat
          BY <3>3
        <4> QED BY <2>1, <3>1, <3>3, <4>1, AddUpMore
      <3> QED BY <2>3, <2>4, <3>2, <3>4
    <2> QED BY <2>5, <2>6, <2>7
  <1> DEFINE R == {u \in Within(v) : count[u] # f[u]}
  <1>4. ASSUME R # {} PROVE FALSE
    <2>1. R \in SUBSET Within(v)
      OBVIOUS
    <2>2. PICK u \in R : \A c \in Kids(u) : c \notin R
      <3> HIDE DEF R
      <3> QED BY <1>1, <1>4, <2>1, Lowest
    <2>3. \A c \in Kids(u) : count[c] = f[c]
      BY <1>2, <2>2
    <2> QED BY <1>3, <2>2, <2>3
  <1> QED BY <1>4

LEMMA CountKeepsHonest ==
  ASSUME TreeTyped, Counted, CountNode, NEW w, Shape(w), NEW f, Weights(f), Honest(f)
  PROVE  Honest(f)'
  <1>1. /\ Turn /\ num_descendant' = NumOfDescendant(turn)
        /\ status' = [v \in DOMAIN nodes |-> status[v] \/ v \in Within(turn)]
        /\ most' = Max({most, num_descendant'[turn]})
        /\ root' = IF most' > most THEN turn ELSE root
        /\ turn' = turn + 1
        /\ UNCHANGED <<nodes, children>>
    BY DEF CountNode, parseVars
  <1>2. turn \in DOMAIN nodes
    BY <1>1, TurnRight
  <1>3. PICK t \in DOMAIN nodes : t = turn
    BY <1>2
  <1>4. Acyclic(t)
    BY <1>3 DEF CountNode, Endless, Acyclic
  <1>5. KidsTyped /\ CountTyped
    BY DEF TreeTyped, KidsTyped, Honest
  <1>6. PICK count : Counting(count, t)
    BY <1>4, <1>5, NumOfDescendantSolves
  <1>7. \A u \in Within(t) : count[u] = f[u]
    BY <1>3, <1>4, <1>6, CountsAreWeights
  <1>8. \A v \in DOMAIN nodes :
          num_descendant'[v] = IF v \in Within(t) THEN f[v] ELSE num_descendant[v]
    BY <1>1, <1>3, <1>6, <1>7 DEF Counting
  <1>9. t \in Within(t) /\ Within(t) \in SUBSET DOMAIN nodes /\ f[t] \in Nat
    BY <1>5, WithinFacts, WeightsUp
  <1>10. \A v \in DOMAIN nodes :
           /\ num_descendant'[v] = (IF status'[v] THEN f[v] ELSE Len(children'[v]))
           /\ status'[v] <=> status[v] \/ v \in Within(t)
    BY <1>1, <1>3, <1>8 DEF Honest
  <1>11. /\ DOMAIN nodes = 1 .. Len(nodes) /\ Len(nodes) \in Nat /\ turn \in Nat
         /\ \A u \in 1 .. turn' - 1 : u = t \/ u \in 1 .. turn - 1
         /\ t \in 1 .. turn' - 1 /\ \A u \in 1 .. turn - 1 : u \in 1 .. turn' - 1 /\ u \in DOMAIN nodes
    <2>1. DOMAIN nodes = 1 .. Len(nodes) /\ Len(nodes) \in Nat
      BY DEF TreeTyped
    <2> QED BY <1>1, <1>3, <2>1
  <1>12. \A u : Within(u)' = Within(u)
    BY <1>1 DEF Within, Kids
  <1>13. ASSUME NEW v \in DOMAIN nodes, status'[v] PROVE \E u \in 1 .. turn' - 1 : v \in Within(u)
    BY <1>10, <1>11, <1>13 DEF Honest
  <1>14. num_descendant'[turn] = f[t] /\ most \in Nat
    BY <1>3, <1>8, <1>9 DEF Honest
  <1>15. most' = (IF f[t] > most THEN f[t] ELSE most)
    BY <1>1, <1>9, <1>14, MaxOfTwo
  <1>16. most' \in Nat /\ most <= most' /\ f[t] <= most'
    BY <1>9, <1>14, <1>15
  <1>17. ASSUME NEW u \in 1 .. turn' - 1 PROVE f[u] <= most'
    <2>1. CASE u = t
      BY <1>16, <2>1
    <2>2. CASE u \in 1 .. turn - 1
      <3>1. f[u] <= most /\ f[u] \in Nat
        BY <1>11, <2>2 DEF Honest, Weights
      <3> QED BY <1>14, <1>16, <3>1
    <2> QED BY <1>11, <2>1, <2>2
  <1>18. IF root' = 0 THEN most' = 0 ELSE root' \in 1 .. turn' - 1 /\ most' = f[root']
    <2>1. CASE f[t] > most
      <3>1. most' = f[t] /\ most' > most
        BY <1>15, <2>1
      <3>2. root' = t
        BY <1>1, <1>3, <3>1
      <3> QED BY <1>11, <3>1, <3>2
    <2>2. CASE ~(f[t] > most)
      <3>1. most' = most
        BY <1>15, <2>2
      <3>2. root' = root
        BY <1>1, <1>14, <3>1
      <3> QED BY <1>11, <3>1, <3>2 DEF Honest
    <2> QED BY <2>1, <2>2
  <1>19. CountTyped'
    <2>1. num_descendant' = [v \in DOMAIN nodes |-> num_descendant'[v]]
      BY <1>1, <1>3, <1>6 DEF Counting
    <2>2. \A v \in DOMAIN nodes : num_descendant'[v] \in Nat
      BY <1>5, <1>8, WeightsUp DEF CountTyped
    <2>3. status' \in [DOMAIN nodes -> BOOLEAN]
      BY <1>1, <1>5 DEF CountTyped
    <2> QED BY <1>1, <2>1, <2>2, <2>3 DEF CountTyped
  <1> QED BY <1>1, <1>10, <1>12, <1>13, <1>16, <1>17, <1>18, <1>19 DEF Honest
-----------------------------------------------------------------------------
(***************************************************************************)
(* Where the number of nodes is kept, every link of the file is made.      *)
(***************************************************************************)
In(kids, f, c) == \E j \in DOMAIN kids[f] : kids[f][j] = c

\* A name that a node has is found.
LEMMA FindFinds ==
  ASSUME KidsTyped, NEW name \in Range(nodes)
  PROVE  Find(name, Len(nodes)) \in DOMAIN nodes /\ nodes[Find(name, Len(nodes))] = name
  <1> DEFINE found == {i \in DOMAIN nodes : i <= Len(nodes) /\ nodes[i] = name}
  <1>1. DOMAIN nodes = 1 .. Len(nodes) /\ Len(nodes) \in Nat
    BY DEF KidsTyped
  <1>2. found # {} /\ found \in SUBSET Nat
    BY <1>1 DEF Range
  <1>3. Min(found) \in found
    <2> HIDE DEF found
    <2> QED BY <1>2, MinInside
  <1>4. Find(name, Len(nodes)) = Min(found)
    BY <1>2 DEF Find
  <1> HIDE DEF found
  <1>5. Min(found) \in DOMAIN nodes /\ nodes[Min(found)] = name
    BY <1>3 DEF found
  <1> QED BY <1>4, <1>5

\* One more link, and all that there were.
OneMore(kids, f, c, linked) == linked = [kids EXCEPT ![f] = Append(@, c)]

LEMMA LinkAdded ==
  ASSUME NEW kids \in KidLists, NEW f \in DOMAIN nodes, NEW c \in DOMAIN nodes,
         NEW linked, OneMore(kids, f, c, linked)
  PROVE  /\ linked \in KidLists
         /\ In(linked, f, c)
         /\ \A g \in DOMAIN nodes : \A x : In(kids, g, x) => In(linked, g, x)
  <1>1. /\ \A g \in DOMAIN nodes : kids[g] \in Seq(DOMAIN nodes)
        /\ \A g \in DOMAIN nodes : linked[g] = IF g = f THEN Append(kids[f], c) ELSE kids[g]
        /\ linked = [g \in DOMAIN nodes |-> linked[g]]
    BY DEF KidLists, OneMore
  <1>2. linked \in KidLists
    <2>1. Append(kids[f], c) \in Seq(DOMAIN nodes)
      BY <1>1
    <2>2. \A g \in DOMAIN nodes : linked[g] \in Seq(DOMAIN nodes)
      BY <1>1, <2>1
    <2> QED BY <1>1, <2>2 DEF KidLists
  <1>3. /\ Len(kids[f]) + 1 \in DOMAIN linked[f] /\ linked[f][Len(kids[f]) + 1] = c
        /\ \A j \in DOMAIN kids[f] : j \in DOMAIN linked[f] /\ linked[f][j] = kids[f][j]
    <2>1. kids[f] \in Seq(DOMAIN nodes) /\ linked[f] = Append(kids[f], c)
      BY <1>1
    <2> QED BY <2>1
  <1>4. ASSUME NEW g \in DOMAIN nodes, NEW x, In(kids, g, x) PROVE In(linked, g, x)
    <2>1. CASE g = f
      BY <1>3, <1>4, <2>1 DEF In
    <2>2. CASE g # f
      BY <1>1, <1>4, <2>2 DEF In
    <2> QED BY <2>1, <2>2
  <1> QED BY <1>2, <1>3, <1>4 DEF In

LEMMA LinksMade ==
  ASSUME KidsTyped, NEW kids \in KidLists, NEW father, NEW names \in Seq(Tokens), NEW limit \in Nat
  PROVE  /\ \A g \in DOMAIN nodes : \A x : In(kids, g, x) => In(Links(kids, father, names, limit), g, x)
         /\ \A i \in DOMAIN names :
              Find(father, limit) # 0 /\ Find(names[i], limit) # 0 =>
                In(Links(kids, father, names, limit), Find(father, limit), Find(names[i], limit))
  <1>1. PICK h : LinkStages(h, kids, father, names, limit)
    BY LinksStages
  <1>2. /\ h[0] = kids
        /\ \A k \in 1 .. Len(names) : h[k] = CreatTree(h[k - 1], father, names[k], limit)
        /\ Links(kids, father, names, limit) = h[Len(names)]
    BY <1>1 DEF LinkStages
  <1> DEFINE n == Len(names)
             x == Find(father, limit)
             y(i) == Find(names[i], limit)
             Good(z, k) == /\ z \in KidLists
                           /\ \A g \in DOMAIN nodes : \A c : In(kids, g, c) => In(z, g, c)
                           /\ \A i \in 1 .. k : x # 0 /\ y(i) # 0 => In(z, x, y(i))
             Held == {k \in 0 .. n : Good(h[k], k)}
  <1>3. n \in Nat /\ DOMAIN names = 1 .. n
    OBVIOUS
  <1>4. 0 \in Held
    <2>1. 1 .. 0 = {} /\ 0 \in 0 .. n
      BY <1>3
    <2> QED BY <1>2, <2>1
  <1>5. x = 0 \/ x \in DOMAIN nodes
    BY FindRight
  <1>6. \A i : y(i) = 0 \/ y(i) \in DOMAIN nodes
    BY FindRight
  <1>7. ASSUME NEW k \in 1 .. n, k - 1 \in Held PROVE k \in Held
    <2> DEFINE old == h[k - 1]
               new == h[k]
               last == y(k)
    <2>1. Good(old, k - 1) /\ k \in 0 .. n /\ \A i \in 1 .. k : i = k \/ i \in 1 .. k - 1
      BY <1>3, <1>7
    <2>2. new = IF x = 0 \/ last = 0 THEN old ELSE [old EXCEPT ![x] = Append(@, last)]
      BY <1>2 DEF CreatTree
    <2>3. last = 0 \/ last \in DOMAIN nodes
      BY <1>6
    <2>4. CASE x = 0 \/ last = 0
      <3>1. new = old
        BY <2>2, <2>4
      <3>2. Good(new, k)
        <4> HIDE DEF x, old, new
        <4> QED BY <2>1, <2>4, <3>1
      <3> QED BY <2>1, <3>2
    <2>5. CASE x # 0 /\ last # 0
      <3>1. x \in DOMAIN nodes /\ last \in DOMAIN nodes /\ old \in KidLists
            /\ OneMore(old, x, last, new)
        BY <1>5, <2>1, <2>2, <2>3, <2>5 DEF OneMore
      <3>2. /\ new \in KidLists /\ In(new, x, last)
            /\ \A g \in DOMAIN nodes : \A c : In(old, g, c) => In(new, g, c)
        <4> HIDE DEF x, old, new, last
        <4> QED BY <3>1, LinkAdded
      <3>3. Good(new, k)
        <4>1. \A g \in DOMAIN nodes : \A c : In(kids, g, c) => In(new, g, c)
          BY <2>1, <3>2
        <4>2. ASSUME NEW i \in 1 .. k, y(i) # 0 PROVE In(new, x, y(i))
          <5>1. CASE i = k
            BY <3>2, <5>1
          <5>2. CASE i \in 1 .. k - 1
            <6>1. In(old, x, y(i))
              BY <2>1, <2>5, <4>2, <5>2
            <6> HIDE DEF x, y, old, new
            <6> QED BY <3>1, <3>2, <6>1
          <5> QED BY <2>1, <5>1, <5>2
        <4> QED BY <3>2, <4>1, <4>2
      <3> QED BY <2>1, <3>3
    <2> QED BY <2>4, <2>5
  <1>8. 0 .. n \subseteq Held
    <2> HIDE DEF Held, n
    <2> QED BY <1>3, <1>4, <1>7, UpTo
  <1>9. n \in 0 .. n
    BY <1>3
  <1>10. Good(h[n], n)
    <2> HIDE DEF Good, n
    <2> QED BY <1>8, <1>9
  <1> QED BY <1>2, <1>3, <1>10

\* Each mention of two listed names is a link, and findRoot will look at all nodes.
KeptAll ==
  /\ build = "kept" /\ linecounter >= 2 => slot = Len(nodes)
  /\ build = "kept" => \A m \in Places(Seen) :
       Seen[m[1]][1] \in Range(nodes) /\ Named(Seen, m) \in Range(nodes) =>
         \E f, c \in DOMAIN nodes :
           nodes[f] = Seen[m[1]][1] /\ nodes[c] = Named(Seen, m) /\ c \in Kids(f)
  /\ phase \notin {"parse", "malformed"} => slot >= 2
LEMMA KeptLinkLine ==
  ASSUME TreeTyped, Linked, Parsed, KeptAll, LinkLine
  PROVE  KeptAll'
  <1> DEFINE names == ChildNames(Line)
             more == Append(Seen, Line)
             limit == Leftover(Line)
             linked == Links(children, Line[1], names, limit)
  <1>1. /\ at < Len(file) /\ at' = at + 1 /\ file' = file /\ Line[1] # Comment
        /\ linecounter > 1 /\ linecounter' = linecounter + 1 /\ nodes' = nodes
        /\ build' = build /\ slot' = limit /\ phase' = phase /\ phase = "parse"
    BY DEF LinkLine, ParseInputLine, GetLine
  <1>2. Seen' = more
    BY <1>1, SeenNext
  <1>3. /\ Line \in InputLine /\ names \in Seq(Tokens) /\ linecounter \in Nat /\ limit \in Nat
        /\ DOMAIN names = 1 .. Len(names) /\ Len(Line) \in Nat
        /\ Len(names) = IF Len(Line) > 2 THEN Len(Line) - 2 ELSE 0
        /\ \A i \in 1 .. Len(Line) - 2 : names[i] = Line[i + 2]
    BY <1>1, LineRight, ChildNamesRight DEF TreeTyped
  <1>4. Seen \in Seq(InputLine) /\ Len(Seen) = linecounter /\ Len(Seen) >= 2
    BY <1>1, <1>3 DEF Parsed
  <1>5. /\ Places(more) = Places(Seen) \cup ({Len(Seen) + 1} \X (3 .. Len(Line)))
        /\ \A m \in Places(Seen) : Named(more, m) = Named(Seen, m) /\ more[m[1]] = Seen[m[1]]
        /\ more[Len(Seen) + 1] = Line
    <2>1. Grown(Seen, Line, more)
      BY DEF Grown
    <2> HIDE DEF more
    <2> QED BY <1>3, <1>4, <2>1, PlacesGrow
  <1>6. children' = linked /\ KidsTyped /\ children \in KidLists
    BY DEF LinkLine, Links, TreeTyped, KidsTyped, KidLists
  <1>7. /\ \A g \in DOMAIN nodes : \A x : In(children, g, x) => In(linked, g, x)
        /\ \A i \in DOMAIN names :
             Find(Line[1], limit) # 0 /\ Find(names[i], limit) # 0 =>
               In(linked, Find(Line[1], limit), Find(names[i], limit))
    <2> HIDE DEF names, limit
    <2> QED BY <1>3, <1>6, LinksMade
  <1> HIDE DEF linked, more, names
  <1>8. ASSUME build = "kept" PROVE limit = Len(nodes)
    <2>1. limit = slot
      BY <1>8 DEF Leftover
    <2> QED BY <1>1, <1>3, <1>8, <2>1 DEF KeptAll
  <1>9. ASSUME build = "kept", NEW m \in Places(more), more[m[1]][1] \in Range(nodes),
               Named(more, m) \in Range(nodes)
        PROVE  \E f, c \in DOMAIN nodes :
                 nodes[f] = more[m[1]][1] /\ nodes[c] = Named(more, m) /\ In(linked, f, c)
    <2>1. CASE m \in Places(Seen)
      <3>1. PICK f, c \in DOMAIN nodes :
              nodes[f] = Seen[m[1]][1] /\ nodes[c] = Named(Seen, m) /\ c \in Kids(f)
        BY <1>5, <1>9, <2>1 DEF KeptAll
      <3>2. In(children, f, c)
        BY <3>1 DEF In, Kids
      <3> QED BY <1>5, <1>7, <2>1, <3>1, <3>2
    <2>2. CASE m \in {Len(Seen) + 1} \X (3 .. Len(Line))
      <3>1. PICK k \in 3 .. Len(Line) : m = <<Len(Seen) + 1, k>>
        BY <2>2
      <3>2. k - 2 \in DOMAIN names /\ names[k - 2] = Line[k]
        BY <1>3, <3>1
      <3>3. more[m[1]] = Line /\ Named(more, m) = names[k - 2]
        BY <1>5, <3>1, <3>2 DEF Named
      <3> DEFINE f == Find(Line[1], limit)
                 c == Find(names[k - 2], limit)
      <3>4. f \in DOMAIN nodes /\ nodes[f] = Line[1]
        BY <1>6, <1>8, <1>9, <3>3, FindFinds
      <3>5. c \in DOMAIN nodes /\ nodes[c] = names[k - 2]
        BY <1>6, <1>8, <1>9, <3>3, FindFinds
      <3>6. f # 0 /\ c # 0
        <4>1. 0 \notin DOMAIN nodes
          BY DEF TreeTyped
        <4> QED BY <3>4, <3>5, <4>1
      <3>7. In(linked, f, c)
        BY <1>7, <3>2, <3>6
      <3> HIDE DEF f, c
      <3> QED BY <3>3, <3>4, <3>5, <3>7
    <2> QED BY <1>5, <1>9, <2>1, <2>2
  <1>10. ASSUME build' = "kept", NEW m \in Places(Seen)', Seen'[m[1]][1] \in Range(nodes'),
                Named(Seen', m) \in Range(nodes')
         PROVE  \E f, c \in DOMAIN nodes' :
                  nodes'[f] = Seen'[m[1]][1] /\ nodes'[c] = Named(Seen', m) /\ c \in Kids(f)'
    <2>1. m \in Places(more)
      BY <1>2, <1>10 DEF Places
    <2>2. PICK f, c \in DOMAIN nodes :
            nodes[f] = more[m[1]][1] /\ nodes[c] = Named(more, m) /\ In(linked, f, c)
      BY <1>1, <1>2, <1>9, <1>10, <2>1
    <2>3. c \in Kids(f)'
      BY <1>6, <2>2 DEF In, Kids
    <2> QED BY <1>1, <1>2, <2>2, <2>3
  <1>11. build' = "kept" => slot' = Len(nodes')
    BY <1>1, <1>8
  <1> QED BY <1>1, <1>10, <1>11 DEF KeptAll, Named, Places

LEMMA KeptStep ==
  ASSUME TreeTyped, Linked, Parsed, KeptAll, Next
  PROVE  KeptAll'
  <1>1. ASSUME UNCHANGED <<build, linecounter, slot, nodes, children>>, Seen' = Seen,
               phase' \notin {"parse", "malformed"} => slot >= 2
        PROVE  KeptAll'
    BY <1>1 DEF KeptAll, Kids, Places, Named
  <1>2. CASE SkipComment
    <2>1. /\ at < Len(file) /\ at' = at + 1 /\ file' = file /\ Line[1] = Comment
          /\ UNCHANGED <<build, linecounter, slot, nodes, children, phase>> /\ phase = "parse"
      BY <1>2 DEF SkipComment, GetLine
    <2> QED BY <1>1, <2>1, SeenNext
  <1>3. CASE CandidateLine \/ NodeLine
    <2>1. /\ at < Len(file) /\ at' = at + 1 /\ file' = file /\ Line[1] # Comment
          /\ linecounter \in {0, 1} /\ linecounter' = linecounter + 1
          /\ phase' \in {"parse", "malformed"}
          /\ linecounter = 1 => slot' = Len(nodes')
      BY <1>3 DEF CandidateLine, NodeLine, ParseInputLine, GetLine
    <2>2. Line \in InputLine /\ Seen' = Append(Seen, Line)
      BY <2>1, LineRight, SeenNext
    <2>3. Seen \in Seq(InputLine) /\ Len(Seen) < 2
      BY <2>1 DEF Parsed
    <2>4. Places(Seen') = {}
      <3>1. Grown(Seen, Line, Seen')
        BY <2>2 DEF Grown
      <3> QED BY <2>2, <2>3, <3>1, PlacesGrow
    <2>5. Places(Seen)' = {}
      BY <2>4 DEF Places
    <2> QED BY <2>1, <2>5 DEF KeptAll
  <1>4. CASE LinkLine
    BY <1>4, KeptLinkLine
  <1>5. CASE EndOfInput \/ Later
    <2>1. UNCHANGED <<file, build, at, linecounter, slot, nodes, children>>
      BY <1>5 DEF EndOfInput, Later, parseVars
    <2>2. Seen' = Seen
      BY <2>1 DEF Seen
    <2>3. phase' \notin {"parse", "malformed"} => slot >= 2
      <3>1. CASE EndOfInput
        <4>1. phase' \notin {"parse", "malformed"} => ~(slot < 2)
          BY <3>1 DEF EndOfInput
        <4> QED BY <4>1 DEF TreeTyped
      <3>2. CASE Later
        BY <3>2 DEF Later, KeptAll
      <3> QED BY <1>5, <3>1, <3>2
    <2> QED BY <1>1, <2>1, <2>2, <2>3
  <1> QED BY <1>2, <1>3, <1>4, <1>5, LaterSteps DEF ReadInput
-----------------------------------------------------------------------------
(***************************************************************************)
(* A tree as the file describes it is a tree of the nodes.                 *)
(***************************************************************************)
\* The links are the mentions, of names that hang together.
FileLinks ==
  /\ KidsTyped /\ nodes = DataLines[2] /\ Attached /\ ~Twice(DataLines) /\ Len(nodes) >= 2
  /\ \A f \in DOMAIN nodes : \A c \in Kids(f) :
       \E m \in Mentions : Father(m) = nodes[f] /\ Child(m) = nodes[c]
  /\ \A m \in Mentions : \E f, c \in DOMAIN nodes :
       nodes[f] = Father(m) /\ nodes[c] = Child(m) /\ c \in Kids(f)
  /\ \A v \in DOMAIN nodes : ~OnCycle(v)

LEMMA LinksOfFile ==
  ASSUME ParsedInv, KeptAll, phase \notin {"parse", "malformed"}, build = "kept", IsTree
  PROVE  FileLinks /\ slot = Len(nodes)
  <1>1. TreeTyped /\ Tested /\ Parsed /\ Attached
    BY DEF ParsedInv, NodeInv, IsTree
  <1>2. at = Len(file) /\ linecounter >= 2
    BY <1>1 DEF Tested
  <1>3. Seen = DataLines
    <2>1. file \in Seq(InputLine)
      BY <1>1, NodeTreeAssumption DEF TreeTyped, InputLine
    <2> QED BY <1>2, <2>1, StagesRight DEF Seen, DataLines, DataStages
  <1>4. /\ DataLines \in Seq(InputLine) /\ nodes = DataLines[2]
        /\ \A f \in DOMAIN nodes : \A j \in DOMAIN children[f] : \E m \in Places(DataLines) :
             Named(DataLines, m) = nodes[children[f][j]] /\ DataLines[m[1]][1] = nodes[f]
    BY <1>1, <1>2, <1>3 DEF Parsed
  <1>5. KidsTyped /\ ~Twice(DataLines)
    BY <1>1, <1>4, TreeExact DEF TreeTyped, KidsTyped
  <1>6. slot = Len(nodes) /\ Len(nodes) >= 2
    BY <1>2 DEF KeptAll
  <1>7. ASSUME NEW f \in DOMAIN nodes, NEW c \in Kids(f)
        PROVE  \E m \in Mentions : Father(m) = nodes[f] /\ Child(m) = nodes[c]
    <2>1. PICK j \in DOMAIN children[f] : c = children[f][j]
      BY DEF Kids
    <2> QED BY <1>4, <2>1, MentionsPlaces DEF Father
  <1>8. ASSUME NEW m \in Mentions
        PROVE  \E f, c \in DOMAIN nodes :
                 nodes[f] = Father(m) /\ nodes[c] = Child(m) /\ c \in Kids(f)
    <2>1. Father(m) \in Range(nodes) /\ Child(m) \in Range(nodes)
      BY <1>1, <1>4 DEF Attached, Listed
    <2>2. m \in Places(Seen) /\ Seen[m[1]][1] = Father(m) /\ Named(Seen, m) = Child(m)
      BY <1>3, MentionsPlaces DEF Father
    <2> QED BY <2>1, <2>2 DEF KeptAll
  <1>9. ASSUME NEW v \in DOMAIN nodes, OnCycle(v) PROVE FALSE
    BY <1>1, <1>4, <1>5, <1>9, NoCycle
  <1> QED BY <1>1, <1>4, <1>5, <1>6, <1>7, <1>8, <1>9 DEF FileLinks

\* All nodes lie below the one that is named WhoWon.
LEMMA AllBelowWhoWon ==
  ASSUME FileLinks, NEW w \in DOMAIN nodes, nodes[w] = WhoWon,
         NEW T \in SUBSET DOMAIN nodes, Closed(T, w)
  PROVE  T = DOMAIN nodes
  <1> DEFINE S == {nodes[v] : v \in T}
  <1>1. /\ nodes = DataLines[2] /\ Attached /\ Listed = Range(nodes)
        /\ \A v, u \in DOMAIN nodes : nodes[v] = nodes[u] => v = u
    BY DEF FileLinks, Attached, Listed, IsInjective
  <1>2. S \in SUBSET Listed /\ WhoWon \in S
    BY <1>1 DEF Closed, Range
  <1>3. ASSUME NEW m \in Mentions, Father(m) \in S PROVE Child(m) \in S
    <2>1. PICK f, c \in DOMAIN nodes : nodes[f] = Father(m) /\ nodes[c] = Child(m) /\ c \in Kids(f)
      BY DEF FileLinks
    <2>2. PICK v \in T : nodes[v] = Father(m)
      BY <1>3
    <2>3. f \in T
      BY <1>1, <2>1, <2>2
    <2>4. c \in T
      BY <2>1, <2>3 DEF Closed
    <2> QED BY <2>1, <2>4
  <1>4. S = Listed
    <2> HIDE DEF S
    <2> QED BY <1>1, <1>2, <1>3 DEF Attached
  <1>5. ASSUME NEW v \in DOMAIN nodes PROVE v \in T
    <2>1. nodes[v] \in S
      <3> HIDE DEF S
      <3> QED BY <1>1, <1>4 DEF Range
    <2>2. PICK u \in T : nodes[u] = nodes[v]
      BY <2>1
    <2> QED BY <1>1, <2>2
  <1> QED BY <1>5

LEMMA ShapeRight ==
  ASSUME FileLinks, Shallow \/ ChildrenFirst
  PROVE  \E w : Shape(w)
  <1>1. /\ nodes = DataLines[2] /\ Attached /\ Listed = Range(nodes) /\ KidsTyped
        /\ \A v, u \in DOMAIN nodes : nodes[v] = nodes[u] => v = u
        /\ DOMAIN nodes = 1 .. Len(nodes) /\ Len(nodes) \in Nat /\ Len(nodes) >= 2
    BY DEF FileLinks, Attached, Listed, IsInjective, KidsTyped
  <1>2. PICK w \in DOMAIN nodes : nodes[w] = WhoWon
    BY <1>1 DEF Attached, Range
  <1>3. /\ \A m, n \in Mentions : Child(m) = Child(n) => m = n
        /\ \A m \in Mentions : Child(m) # WhoWon
    BY MentionsPlaces DEF FileLinks, Twice
  <1>4. \A f \in DOMAIN nodes : \A c \in Kids(f) :
          \E m \in Mentions : Father(m) = nodes[f] /\ Child(m) = nodes[c]
    BY DEF FileLinks
  <1>5. Within(w) = DOMAIN nodes
    <2>1. Within(w) \in SUBSET DOMAIN nodes /\ Closed(Within(w), w)
      BY <1>1, WithinFacts DEF Closed
    <2> QED BY <1>2, <2>1, AllBelowWhoWon
  <1>6. Acyclic(w)
    BY <1>5 DEF Acyclic, FileLinks
  <1>7. Kids(w) # {}
    <2> SUFFICES ASSUME Kids(w) = {} PROVE FALSE
      OBVIOUS
    <2>1. {w} \in SUBSET DOMAIN nodes /\ Closed({w}, w)
      BY DEF Closed
    <2>2. {w} = DOMAIN nodes
      BY <1>2, <2>1, AllBelowWhoWon
    <2>3. 1 \in DOMAIN nodes /\ 2 \in DOMAIN nodes
      BY <1>1
    <2> QED BY <2>2, <2>3
  <1>8. \A v \in DOMAIN nodes : w \notin Kids(v)
    BY <1>2, <1>3, <1>4
  <1>9. ASSUME Shallow, NEW v \in DOMAIN nodes \ {w}, NEW k \in Kids(v), NEW g \in Kids(k)
        PROVE  FALSE
    <2>1. k \in DOMAIN nodes /\ g \in DOMAIN nodes
      BY <1>1, KidsInside
    <2>2. g # w /\ k # w
      BY <1>8, <2>1
    <2>3. nodes[g] \in Listed \ {WhoWon}
      BY <1>1, <1>2, <2>1, <2>2 DEF Range
    <2>4. PICK m \in Mentions :
            /\ Child(m) = nodes[g]
            /\ Father(m) = WhoWon \/ \E n \in Mentions : Child(n) = Father(m) /\ Father(n) = WhoWon
      BY <1>9, <2>3 DEF Shallow
    <2>5. Father(m) = nodes[k]
      BY <1>3, <1>4, <2>1, <2>4
    <2>6. nodes[k] # WhoWon
      BY <1>1, <1>2, <2>1, <2>2
    <2>7. PICK n \in Mentions : Child(n) = nodes[k] /\ Father(n) = WhoWon
      BY <2>4, <2>5, <2>6
    <2>8. nodes[v] = WhoWon
      BY <1>3, <1>4, <2>7
    <2> QED BY <1>1, <1>2, <2>8
  <1>10. ASSUME ChildrenFirst, NEW v \in DOMAIN nodes, NEW k \in Kids(v) PROVE k < v
    <2>1. k \in DOMAIN nodes
      BY <1>1, KidsInside
    <2>2. PICK m \in Mentions : Father(m) = nodes[v] /\ Child(m) = nodes[k]
      BY <1>4
    <2> QED BY <1>1, <1>10, <2>1, <2>2 DEF ChildrenFirst
  <1>11. \/ \A v \in DOMAIN nodes \ {w} : \A k \in Kids(v) : Kids(k) = {}
         \/ \A v \in DOMAIN nodes : \A k \in Kids(v) : k < v
    BY <1>9, <1>10
  <1> QED BY <1>2, <1>5, <1>6, <1>7, <1>8, <1>11 DEF Shape
-----------------------------------------------------------------------------
(***************************************************************************)
(* findRoot on such a tree.                                                *)
(***************************************************************************)
TreeAtHand ==
  /\ phase \notin {"parse", "malformed", "loop"}
  /\ build = "kept" /\ IsTree /\ (Shallow \/ ChildrenFirst)

\* Before the first turn nothing is counted, and later what is counted is right.
Uncounted ==
  /\ num_descendant = [v \in DOMAIN nodes |-> Len(children[v])]
  /\ status = [v \in DOMAIN nodes |-> FALSE]
  /\ most = 0 /\ root = 0

RootCounted ==
  /\ phase = "parse" => most = 0
  /\ TreeAtHand =>
       /\ IF turn = 1 THEN Uncounted ELSE \E f : Weights(f) /\ Honest(f)
       /\ RootChosen => turn = Len(nodes) + 1

RootInv == ParsedInv /\ KeptAll /\ RootCounted

\* A step that leaves the lines and the counts alone, with the phase it leads to.
LEMMA RootCountedSame ==
  ASSUME RootCounted, UNCHANGED parseVars, UNCHANGED countVars, phase' # "parse" \/ phase = "parse",
         TreeAtHand' => TreeAtHand,
         TreeAtHand /\ RootChosen' => turn = Len(nodes) + 1
  PROVE  RootCounted'
  <1>1. UNCHANGED <<nodes, children, num_descendant, status, turn, most, root>>
    BY DEF parseVars, countVars
  <1>2. Uncounted => Uncounted'
    BY <1>1 DEF Uncounted
  <1>3. ASSUME NEW f, Weights(f), Honest(f) PROVE Weights(f)' /\ Honest(f)'
    <2>1. Weights(f)'
      BY <1>1, <1>3 DEF Weights
    <2>2. Honest(f)'
      <3>1. \A u : Within(u)' = Within(u)
        BY <1>1 DEF Within, Kids
      <3>2. CountTyped'
        BY <1>1, <1>3 DEF Honest, CountTyped
      <3> QED BY <1>1, <1>3, <3>1, <3>2 DEF Honest
    <2> QED BY <2>1, <2>2
  <1>4. ASSUME TreeAtHand' PROVE IF turn' = 1 THEN Uncounted' ELSE \E f : Weights(f)' /\ Honest(f)'
    <2>1. IF turn = 1 THEN Uncounted ELSE \E f : Weights(f) /\ Honest(f)
      BY <1>4 DEF RootCounted
    <2> QED BY <1>1, <1>2, <1>3, <2>1
  <1>5. TreeAtHand' /\ RootChosen' => turn' = Len(nodes') + 1
    BY <1>1
  <1>6. phase' = "parse" => most' = 0
    BY <1>1 DEF RootCounted
  <1> QED BY <1>4, <1>5, <1>6 DEF RootCounted

\* What a file describes stays.
LEMMA TreeStays ==
  ASSUME UNCHANGED <<file, build>>
  PROVE  (IsTree' <=> IsTree) /\ (Shallow' <=> Shallow) /\ (ChildrenFirst' <=> ChildrenFirst)
  <1>1. DataLines' = DataLines
    BY DEF DataLines
  <1>2. Listed' = Listed /\ Mentions' = Mentions
    BY <1>1 DEF Listed, Mentions
  <1>3. \A m : Father(m)' = Father(m) /\ Child(m)' = Child(m)
    BY <1>1 DEF Father, Child
  <1>4. Attached' <=> Attached
    BY <1>1, <1>2, <1>3 DEF Attached
  <1>5. IsTree' <=> IsTree
    BY <1>2, <1>3, <1>4 DEF IsTree
  <1>6. Shallow' <=> Shallow
    BY <1>2, <1>3 DEF Shallow
  <1>7. ChildrenFirst' <=> ChildrenFirst
    BY <1>1, <1>2, <1>3 DEF ChildrenFirst
  <1> QED BY <1>5, <1>6, <1>7

LEMMA CountNodeRoot ==
  ASSUME RootInv, CountNode
  PROVE  RootCounted'
  <1>1. TreeTyped /\ Counted /\ ParsedInv /\ KeptAll
    BY DEF RootInv, ParsedInv, NodeInv
  <1>2. /\ phase = "count" /\ phase' = "count" /\ turn' = turn + 1
        /\ UNCHANGED <<file, build, nodes, children>> /\ turn \in 1 .. Len(nodes) + 1
        /\ Len(nodes) \in Nat
    BY <1>1 DEF CountNode, Turn, parseVars, Counted, TreeTyped
  <1>3. ASSUME TreeAtHand PROVE \E f : Weights(f)' /\ Honest(f)'
    <2>1. FileLinks /\ KidsTyped
      BY <1>1, <1>3, LinksOfFile DEF TreeAtHand, FileLinks
    <2>2. PICK w : Shape(w)
      BY <1>3, <2>1, ShapeRight DEF TreeAtHand
    <2>3. PICK f : Weights(f) /\ Honest(f)
      <3>1. CASE turn = 1
        <4>1. Uncounted
          BY <1>3, <3>1 DEF RootInv, RootCounted
        <4>2. PICK f : Weights(f)
          BY <2>1, <2>2, <4>1, WeightsExist DEF Shape, Uncounted
        <4>3. CountTyped
          <5>1. \A v \in DOMAIN nodes : Len(children[v]) \in Nat
            BY <2>1 DEF KidsTyped
          <5> QED BY <4>1, <5>1 DEF Uncounted, CountTyped
        <4>4. 1 .. turn - 1 = {}
          BY <3>1
        <4>5. Honest(f)
          BY <4>1, <4>3, <4>4 DEF Uncounted, Honest
        <4> QED BY <4>2, <4>5
      <3>2. CASE turn # 1
        BY <1>3, <3>2 DEF RootInv, RootCounted
      <3> QED BY <3>1, <3>2
    <2>4. Honest(f)'
      BY <1>1, <2>2, <2>3, CountKeepsHonest
    <2>5. Weights(f)'
      BY <1>2, <2>3 DEF Weights
    <2> QED BY <2>4, <2>5
  <1>4. TreeAtHand' => TreeAtHand
    BY <1>2, TreeStays DEF TreeAtHand
  <1>5. turn' # 1
    BY <1>2
  <1> QED BY <1>2, <1>3, <1>4, <1>5 DEF RootCounted, RootChosen

LEMMA RootCountedStep ==
  ASSUME RootInv, Next
  PROVE  RootCounted'
  <1>1. TreeTyped /\ Counted /\ ParsedInv /\ KeptAll /\ RootCounted
    BY DEF RootInv, ParsedInv, NodeInv
  <1>2. CASE SkipComment \/ CandidateLine \/ NodeLine \/ LinkLine
    <2>1. phase' \in {"parse", "malformed"} /\ phase = "parse" /\ most' = most
      BY <1>2 DEF SkipComment, CandidateLine, NodeLine, LinkLine, ParseInputLine, GetLine, countVars
    <2> QED BY <1>1, <2>1 DEF RootCounted, TreeAtHand
  <1>3. CASE EndOfInput
    <2>1. /\ phase = "parse" /\ phase' \in {"malformed", "loop", "count"}
          /\ UNCHANGED <<file, build, nodes, children>> /\ UNCHANGED parseVars
          /\ num_descendant' = [v \in DOMAIN nodes |-> IF v <= slot THEN Len(children[v]) ELSE 0]
          /\ status' = [v \in DOMAIN nodes |-> FALSE]
          /\ UNCHANGED <<turn, most, root>>
      BY <1>3 DEF EndOfInput, parseVars
    <2>2. turn' = 1 /\ root' = 0 /\ most' = 0
      BY <1>1, <2>1 DEF Counted, RootCounted
    <2>3. ASSUME TreeAtHand' PROVE Uncounted'
      <3>1. slot' = Len(nodes')
        <4>1. KeptAll' /\ ParsedInv'
          BY <1>1, ParsedNext, KeptStep DEF ParsedInv, NodeInv
        <4>2. Tested'
          BY <4>1 DEF ParsedInv, NodeInv
        <4> QED BY <2>3, <4>1, <4>2 DEF KeptAll, Tested, TreeAtHand
      <3>2. slot = Len(nodes) /\ DOMAIN nodes = 1 .. Len(nodes) /\ Len(nodes) \in Nat
        BY <1>1, <2>1, <3>1 DEF parseVars, TreeTyped
      <3>3. \A v \in DOMAIN nodes : v <= slot
        BY <3>2
      <3>4. num_descendant' = [v \in DOMAIN nodes |-> Len(children[v])]
        BY <2>1, <3>3
      <3> QED BY <2>1, <2>2, <3>4 DEF Uncounted
    <2>4. ~RootChosen' /\ phase' # "parse"
      BY <2>1 DEF RootChosen
    <2> QED BY <2>2, <2>3, <2>4 DEF RootCounted
  <1>4. CASE CountNode
    BY <1>4, CountNodeRoot
  <1>5. CASE CountCycle \/ Start \/ ExecNodes
    <2>1. /\ UNCHANGED parseVars /\ UNCHANGED countVars /\ phase \in {"count", "exec"}
          /\ phase' \in {"crashed", "lost", "exec", "done"}
          /\ phase = "exec" \/ phase' = "crashed" \/ ~Turn
      BY <1>5, ExecSteps DEF CountCycle, Turn, Start, RootKnown
    <2>2. TreeAtHand' => TreeAtHand
      BY <2>1, TreeStays DEF TreeAtHand, parseVars
    <2>3. ASSUME TreeAtHand, RootChosen' PROVE turn = Len(nodes) + 1
      <3>1. CASE phase = "exec"
        BY <1>1, <2>3, <3>1 DEF RootCounted, RootChosen
      <3>2. CASE phase = "count"
        <4>1. ~(turn <= Min({slot, Len(nodes)}))
          BY <2>1, <2>3, <3>2 DEF RootChosen, Turn
        <4>2. slot = Len(nodes) /\ Len(nodes) \in Nat /\ turn \in 1 .. Len(nodes) + 1
          BY <1>1, <2>3, LinksOfFile DEF TreeAtHand, TreeTyped, Counted
        <4>3. Min({slot, Len(nodes)}) = Len(nodes)
          <5>1. {slot, Len(nodes)} \in SUBSET Nat /\ {slot, Len(nodes)} # {}
            BY <4>2
          <5> QED BY <4>2, <5>1, MinInside
        <4> QED BY <4>1, <4>2, <4>3
      <3> QED BY <2>1, <3>1, <3>2
    <2> QED BY <1>1, <2>1, <2>2, <2>3, RootCountedSame
  <1> QED BY <1>2, <1>3, <1>4, <1>5 DEF Next, ReadInput, FindRoot

LEMMA RootInit == Init => RootInv
  <1> SUFFICES ASSUME Init PROVE RootInv
    OBVIOUS
  <1>1. phase = "parse" /\ linecounter = 0 /\ most = 0
    BY DEF Init, TreeInit
  <1>2. ParsedInv
    BY ParsedInit
  <1>3. Places(Seen) = {}
    <2>1. Len(Seen) = 0
      BY <1>1, <1>2 DEF ParsedInv, Parsed
    <2> QED BY <2>1 DEF Places
  <1> QED BY <1>1, <1>2, <1>3 DEF RootInv, KeptAll, RootCounted, TreeAtHand

LEMMA RootNext == RootInv /\ [Next]_vars => RootInv'
  <1> SUFFICES ASSUME RootInv, [Next]_vars PROVE RootInv'
    OBVIOUS
  <1>1. ParsedInv /\ TreeTyped /\ Linked /\ Parsed /\ KeptAll /\ RootCounted
    BY DEF RootInv, ParsedInv, NodeInv
  <1>2. ParsedInv'
    BY <1>1, ParsedNext
  <1>3. CASE Next
    BY <1>1, <1>2, <1>3, KeptStep, RootCountedStep DEF RootInv
  <1>4. CASE UNCHANGED vars
    <2>1. /\ UNCHANGED <<file, build, at, linecounter, slot, nodes, children, phase>>
          /\ UNCHANGED parseVars /\ UNCHANGED countVars
      BY <1>4 DEF vars, treeVars, parseVars
    <2>2. KeptAll'
      <3>1. Seen' = Seen
        BY <2>1 DEF Seen
      <3> QED BY <1>1, <2>1, <3>1 DEF KeptAll, Kids, Places, Named
    <2>3. TreeAtHand' => TreeAtHand
      BY <2>1, TreeStays DEF TreeAtHand
    <2>4. TreeAtHand /\ RootChosen' => turn = Len(nodes) + 1
      BY <1>1, <2>1 DEF RootCounted, RootChosen
    <2> QED BY <1>1, <1>2, <2>1, <2>2, <2>3, <2>4, RootCountedSame DEF RootInv
  <1> QED BY <1>3, <1>4

LEMMA RootFollows == RootInv => RootRight
  <1> SUFFICES ASSUME RootInv, RootChosen, build = "kept", IsTree, Shallow \/ ChildrenFirst
               PROVE  root # 0 /\ nodes[root] = WhoWon
    BY DEF RootRight
  <1>1. ParsedInv /\ KeptAll /\ RootCounted /\ TreeTyped
    BY DEF RootInv, ParsedInv, NodeInv
  <1>2. TreeAtHand /\ phase \notin {"parse", "malformed"}
    BY DEF TreeAtHand, RootChosen
  <1>3. FileLinks /\ KidsTyped
    BY <1>1, <1>2, LinksOfFile DEF FileLinks
  <1>4. PICK w : Shape(w)
    BY <1>3, ShapeRight
  <1>5. /\ turn = Len(nodes) + 1 /\ DOMAIN nodes = 1 .. Len(nodes) /\ Len(nodes) \in Nat
        /\ Len(nodes) >= 2
    BY <1>1, <1>2, <1>3 DEF RootCounted, TreeTyped, FileLinks
  <1>6. PICK f : Weights(f) /\ Honest(f)
    BY <1>1, <1>2, <1>5 DEF RootCounted
  <1>7. w \in DOMAIN nodes /\ nodes[w] = WhoWon /\ Within(w) = DOMAIN nodes
    BY <1>4 DEF Shape
  <1>8. 1 .. turn - 1 = DOMAIN nodes
    BY <1>5
  <1>9. f[w] <= most /\ f[w] \in Nat /\ most \in Nat
    BY <1>3, <1>6, <1>7, <1>8, WeightsUp DEF Honest
  <1>10. f[w] > 0
    <2>1. PICK c \in Kids(w) : c \in DOMAIN nodes
      BY <1>3, <1>4, <1>7, KidsInside DEF Shape
    <2>2. f[c] \in Nat /\ f[c] < f[w]
      BY <1>3, <1>6, <1>7, <2>1, WeightsUp
    <2> QED BY <1>9, <2>2
  <1>11. root # 0 /\ root \in DOMAIN nodes /\ most = f[root]
    <2>1. most # 0
      BY <1>9, <1>10
    <2>2. IF root = 0 THEN most = 0 ELSE root \in 1 .. turn - 1 /\ most = f[root]
      BY <1>6 DEF Honest
    <2>3. root # 0
      BY <2>1, <2>2
    <2> QED BY <1>8, <2>2, <2>3
  <1>12. root = w
    <2> SUFFICES ASSUME root # w PROVE FALSE
      OBVIOUS
    <2>1. f[root] < f[w] /\ f[root] \in Nat
      BY <1>3, <1>6, <1>7, <1>11, WeightsBelow, WeightsUp
    <2> QED BY <1>9, <1>11, <2>1
  <1> QED BY <1>7, <1>11, <1>12

(***************************************************************************)
(* In a build that keeps the number of nodes findRoot returns the node     *)
(* that is named WhoWon, for every tree of three levels in any order and   *)
(* every tree of any height whose file lists children first: the counts it *)
(* has made before a node's turn are added to a second time only where     *)
(* there is nothing to add.                                                *)
(***************************************************************************)
THEOREM RootIsWhoWon == Spec => []RootRight
  <1>1. Spec => []RootInv
    BY RootInit, RootNext, PTL DEF Spec
  <1> QED BY <1>1, RootFollows, PTL
=============================================================================
