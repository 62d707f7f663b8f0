------------------------------ MODULE NodeTree ------------------------------
(***************************************************************************)
(* The first half of "CSCI4061_asn1/Programming Assignment 1/votecounter.c": *)
(* the input file is read into an array of nodes (parseInput), refused if  *)
(* the loop test finds something (findDAG_Loop), and the root is looked    *)
(* for by counting descendants (findRoot).  NodeProcesses runs the nodes.  *)
(*                                                                         *)
(* A file is a sequence of lines and a line a sequence of tokens, as       *)
(* makeargv splits it.  Nodes are counted from 1, and 0 is the -1 that     *)
(* findRoot returns when it finds nothing.                                 *)
(***************************************************************************)
EXTENDS Integers, Sequences, SequencesExt, Functions, FiniteSetsExt

CONSTANTS Tokens,      \* what a line may consist of
          Numbers,     \* the tokens that start with a digit
          Comment,     \* the token that starts a comment line
          WhoWon,      \* the name put into visited[0]
          InputFiles,  \* the files that the program may be started with
          Builds       \* what a build leaves in parseInputLine's numofnodes

ASSUME NodeTreeAssumption ==
  /\ {Comment, WhoWon} \subseteq Tokens /\ Numbers \subseteq Tokens
  /\ InputFiles \subseteq Seq(Seq(Tokens) \ {<<>>})
  /\ Builds \subseteq {"kept", "zero", "tokens"}

VARIABLES file,        \* the input file
          build,       \* the build of the program that reads it
          phase,       \* how far main is, or how it ended
          at,          \* the lines read, comments included
          linecounter, \* the lines read, comments left out
          slot,        \* what the last parseInputLine returned: *numofnodes
          nodes,       \* the names of the nodes
          children,    \* children[i]: the indices of i's children
          visited,     \* every name that was seen as a child, after WhoWon
          num_descendant, \* num_descendant[i], status[i]: node i's count, and
          status,         \* whether it has been made
          turn,        \* findRoot's i
          most,        \* its max_num_of_descendent
          root         \* its num_of_parent, later num_of_root

parseVars == <<file, build, at, linecounter, slot, nodes, children, visited>>
countVars == <<num_descendant, status, turn, most, root>>
treeVars == <<parseVars, phase, countVars>>

-----------------------------------------------------------------------------
(***************************************************************************)
(* parseInputLine does not assign its numofnodes on the lines behind the   *)
(* second, yet uses and returns it.  Builds differ in what it holds then:  *)
(* the number of nodes of the earlier call (the binary in the repository), *)
(* 0, or the number of tokens of the line.                                 *)
(***************************************************************************)
Leftover(line) ==
  CASE build = "kept" -> slot
    [] build = "zero" -> 0
    [] build = "tokens" -> Len(line)

\* The first of the first n nodes that has the name, or 0.
Find(name, n) ==
  LET found == {i \in DOMAIN nodes : i <= n /\ nodes[i] = name}
  IN  IF found = {} THEN 0 ELSE Min(found)

\* Mutant of CreatTree: does not look whether the child was found.
CreatTreeUnchecked(kids, father, child, n) ==
  LET f == Find(father, n)
  IN  IF f = 0 THEN kids ELSE [kids EXCEPT ![f] = Append(@, Find(child, n))]

\* A link is made only if both names are among the first n nodes.
CreatTree(kids, father, child, n) ==
  LET f == Find(father, n)
      c == Find(child, n)
  IN  IF f = 0 \/ c = 0 THEN kids ELSE [kids EXCEPT ![f] = Append(@, c)]

\* The names of a line that lists children: all from the third token on.
ChildNames(line) == SubSeq(line, 3, Len(line))

\* Mutant of FindDAGLoop: compares with the next name only.
NextNameOnly(names) == \E i \in 1 .. Len(names) - 1 : names[i] = names[i + 1]

\* Mutant of FindDAGLoop: compares with the root only.
WhoWonOnly(names) == \E i \in 2 .. Len(names) : names[i] = names[1]

\* A name that occurs twice among the children, or WhoWon as a child.
FindDAGLoop(names) == \E i, k \in DOMAIN names : i # k /\ names[i] = names[k]

-----------------------------------------------------------------------------
\* The nodes that links lead to from v, v included: the least set that they do not leave.

Kids(v) == {children[v][k] : k \in DOMAIN children[v]}

Within(v) ==
  LET Closed == {S \in SUBSET DOMAIN nodes : v \in S /\ \A u \in S : Kids(u) \subseteq S}
  IN  {u \in DOMAIN nodes : \A S \in Closed : u \in S}

Below(v) == UNION {Within(c) : c \in Kids(v)}

OnCycle(v) == v \in Below(v)

(***************************************************************************)
(* NumOfDescendant(v): the counts after the call.  v's count, and that of  *)
(* every node below that has no status yet, grows by its children's counts *)
(* as these are then.  Without a cycle a node's status is set before       *)
(* anybody asks for its count a second time.                               *)
(***************************************************************************)
NumOfDescendant(v) ==
  LET Count[u \in Within(v)] ==
        IF u = v \/ ~status[u]
        THEN FoldLeft(LAMBDA n, c : n + Count[c], num_descendant[u], children[u])
        ELSE num_descendant[u]
  IN  [u \in DOMAIN nodes |-> IF u \in Within(v) THEN Count[u] ELSE num_descendant[u]]

-----------------------------------------------------------------------------
TreeInit ==
  /\ file \in InputFiles
  /\ build \in Builds
  /\ phase = "parse"
  /\ at = 0 /\ linecounter = 0 /\ slot = 0
  /\ nodes = <<>> /\ children = <<>>
  /\ visited = <<WhoWon>>
  /\ num_descendant = <<>> /\ status = <<>>
  /\ turn = 1 /\ most = 0 /\ root = 0

\* parseInput's loop: getline has another line.
Line == file[at + 1]
GetLine == phase = "parse" /\ at < Len(file) /\ at' = at + 1

SkipComment ==
  /\ GetLine
  /\ Line[1] = Comment
  /\ UNCHANGED <<file, build, phase, linecounter, slot, nodes, children, visited, countVars>>

\* parseInputLine is called for the k-th line that is no comment, and returns n.
ParseInputLine(k, n) ==
  /\ GetLine
  /\ Line[1] # Comment
  /\ linecounter = k
  /\ linecounter' = k + 1
  /\ slot' = n
  /\ UNCHANGED <<file, build, countVars>>

\* The candidates, behind their number.
CandidateLine ==
  /\ ParseInputLine(0, slot)
  /\ phase' = IF Line[1] \in Numbers THEN "parse" ELSE "malformed"
  /\ UNCHANGED <<nodes, children, visited>>

\* makeNodes and changeNodeName: the second line names all nodes.
NodeLine ==
  /\ ParseInputLine(1, Len(Line))
  /\ nodes' = Line
  /\ children' = [i \in DOMAIN Line |-> <<>>]
  /\ UNCHANGED <<phase, visited>>

\* Every other line: the children of the node that it starts with.
LinkLine ==
  /\ linecounter > 1
  /\ ParseInputLine(linecounter, Leftover(Line))
  /\ visited' = visited \o ChildNames(Line)
  /\ children' = FoldLeft(LAMBDA kids, name :
                             CreatTree(kids, Line[1], name, Leftover(Line)),
                           children, ChildNames(Line))
  /\ UNCHANGED <<phase, nodes>>

\* Mutant of EndOfInput: the counts start from 0.
EndOfInputZero ==
  /\ phase = "parse"
  /\ at = Len(file)
  /\ phase' = IF slot < 2 THEN "malformed"
              ELSE IF FindDAGLoop(visited) THEN "loop" ELSE "count"
  /\ num_descendant' = [v \in DOMAIN nodes |-> 0]
  /\ status' = [v \in DOMAIN nodes |-> FALSE]
  /\ UNCHANGED <<parseVars, turn, most, root>>

\* The end of parseInput: the file is refused, or the count of each of the first slot nodes
\* starts with the number of its children.
EndOfInput ==
  /\ phase = "parse"
  /\ at = Len(file)
  /\ phase' = IF slot < 2 THEN "malformed"
              ELSE IF FindDAGLoop(visited) THEN "loop" ELSE "count"
  /\ num_descendant' = [v \in DOMAIN nodes |-> IF v <= slot THEN Len(children[v]) ELSE 0]
  /\ status' = [v \in DOMAIN nodes |-> FALSE]
  /\ UNCHANGED <<parseVars, turn, most, root>>

\* findRoot looks at the first slot nodes; behind the listed ones it finds no children.
Turn == phase = "count" /\ turn <= Min({slot, Len(nodes)})

\* NumOfDescendant would never return from this node.
Endless == \E v \in Within(turn) : OnCycle(v)

\* findRoot's loop: a node with more than any before it is the root so far.
CountNode ==
  /\ Turn
  /\ ~Endless
  /\ num_descendant' = NumOfDescendant(turn)
  /\ status' = [v \in DOMAIN nodes |-> status[v] \/ v \in Within(turn)]
  /\ most' = Max({most, num_descendant'[turn]})
  /\ root' = IF most' > most THEN turn ELSE root
  /\ turn' = turn + 1
  /\ UNCHANGED <<parseVars, phase>>

\* A cycle that the loop test missed: the recursion is endless and the program crashes.
CountCycle ==
  /\ Turn
  /\ Endless
  /\ phase' = "crashed"
  /\ UNCHANGED <<parseVars, countVars>>

\* findRoot is through.  If nothing was found main goes on with node -1: what it reads
\* there is undefined, and "lost" stands for all that follows.
RootKnown ==
  /\ phase = "count" /\ ~Turn
  /\ phase' = IF root = 0 THEN "lost" ELSE "exec"
  /\ UNCHANGED <<parseVars, countVars>>

ReadInput == SkipComment \/ CandidateLine \/ NodeLine \/ LinkLine \/ EndOfInput
FindRoot == CountNode \/ CountCycle

-----------------------------------------------------------------------------
(***************************************************************************)
(* What an input file describes, from its lines alone.                     *)
(***************************************************************************)
DataOf(lines) ==
  FoldLeft(LAMBDA data, line : IF line[1] = Comment THEN data ELSE Append(data, line), <<>>, lines)
DataLines == DataOf(file)

Listed == Range(DataLines[2])

\* Where children are mentioned: <<i, k>> is the k-th token of the i-th line.
Mentions == UNION {{i} \X (3 .. Len(DataLines[i])) : i \in 3 .. Len(DataLines)}
Father(m) == DataLines[m[1]][1]
Child(m) == DataLines[m[1]][m[2]]

\* Each listed region can be reached from WhoWon, and no other is mentioned.
Attached ==
  /\ IsInjective(DataLines[2])
  /\ \A m \in Mentions : {Father(m), Child(m)} \subseteq Listed
  /\ WhoWon \in Listed
  /\ \A S \in SUBSET Listed :
       WhoWon \in S /\ (\A m \in Mentions : Father(m) \in S => Child(m) \in S) => S = Listed

\* The file is a tree with root WhoWon: each other region is mentioned as a child once.
IsTree ==
  /\ Attached
  /\ \A r \in Listed :
       Cardinality({m \in Mentions : Child(m) = r}) = (IF r = WhoWon THEN 0 ELSE 1)

\* Three levels at most.
Shallow ==
  \A r \in Listed \ {WhoWon} : \E m \in Mentions :
    /\ Child(m) = r
    /\ Father(m) = WhoWon \/ \E n \in Mentions : Child(n) = Father(m) /\ Father(n) = WhoWon

\* Every region is listed behind the regions below it.
ChildrenFirst ==
  \A m \in Mentions : \A f, c \in DOMAIN DataLines[2] :
    DataLines[2][f] = Father(m) /\ DataLines[2][c] = Child(m) => c < f

RootChosen == phase \in {"lost", "exec", "done"}

(***************************************************************************)
(* findDAG_Loop only compares names, and says "loop" of any region with    *)
(* two mentions.  For a file whose regions all hang together with WhoWon   *)
(* that is exact: it is refused if and only if it is no tree, and findRoot *)
(* always comes to an end.                                                 *)
(***************************************************************************)
LoopTestExact ==
  phase \in {"loop", "count", "crashed"} /\ Attached =>
    /\ IsTree <=> phase # "loop"
    /\ phase # "crashed"

(***************************************************************************)
(* findRoot adds to counts that are complete already when it comes to a    *)
(* node for the second time.  It still finds WhoWon in a tree of three     *)
(* levels, in any order of the nodes, and in a tree of any height if the   *)
(* file lists children first.                                              *)
(***************************************************************************)
RootRight ==
  RootChosen /\ build = "kept" /\ IsTree /\ (Shallow \/ ChildrenFirst) =>
    root # 0 /\ nodes[root] = WhoWon

(***************************************************************************)
(* findRoot, as its comment has it: "the node that have the most number of *)
(* descendants is the root node".                                          *)
(***************************************************************************)
RootFound ==
  RootChosen /\ build = "kept" /\ IsTree =>
    root # 0 /\ \A v \in DOMAIN nodes : Cardinality(Below(root)) >= Cardinality(Below(v))

=============================================================================
