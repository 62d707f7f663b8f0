---------------------------- MODULE NodeProcesses ----------------------------
(***************************************************************************)
(* The second half of asn1's votecounter.c: execNodes, which runs one      *)
(* program per node.  For every child it forks: the child process of a     *)
(* leaf becomes leafcounter, that of an inner node calls execNodes itself  *)
(* and becomes aggregate_votes, or find_winner for the node WhoWon, when   *)
(* it is through with its children.  The parent waits each time, so the    *)
(* processes form a stack and only the last one runs.                      *)
(*                                                                         *)
(* execvp and fork may fail.  A process whose execvp failed does not end:  *)
(* it goes on in the loop of the call it was in, beside its parent.        *)
(***************************************************************************)
EXTENDS NodeTree

CONSTANT MaxFailures  \* bound: how many calls of fork and execvp fail

ASSUME FailuresAssumption == MaxFailures \in Nat

VARIABLES procs,     \* the processes, the running one last: their calls of execNodes
          out,       \* out[v]: whose votes v's output file holds, if it exists
          failures   \* how many calls have failed so far

procVars == <<procs, out, failures>>
vars == <<treeVars, procVars>>

\* A call of execNodes: the node it was called for and the place in its loop.
Call(v, i) == [node |-> v, i |-> i]

\* A process: its nested calls, and the leaf it is about to become the counter of.
NoLeaf == 0
Process(calls, leaf) == [calls |-> calls, leaf |-> leaf]

Running == Last(procs)
Current == Last(Running.calls)
NumChildren(v) == Len(children[v])
IsLeaf(v) == NumChildren(v) = 0

\* The votes of nobody; each leaf's votes may be in a file several times.
NoVotes == [v \in DOMAIN nodes |-> 0]
Plus(a, b) == [v \in DOMAIN nodes |-> a[v] + b[v]]

\* What the programs write, as execNodes uses them: leafcounter the votes of its file,
\* the others the sum of the files named to them; a file that is not there adds nothing.
LeafVotes(v) == [NoVotes EXCEPT ![v] = 1]
SumOfChildren(v) ==
  FoldLeft(LAMBDA sum, c : IF c \in DOMAIN out THEN Plus(sum, out[c]) ELSE sum,
           NoVotes, children[v])
Written(v, votes) ==
  [u \in DOMAIN out \cup {v} |-> IF u = v THEN votes ELSE out[u]]

\* i++ in the innermost call.
Advanced(calls) ==
  [calls EXCEPT ![Len(calls)] = Call(@.node, @.i + 1)]

\* Mutant of Ended: the parent does not go on to its next child.
EndedInPlace(stack) ==
  IF stack = <<>> THEN stack
  ELSE [stack EXCEPT ![Len(stack)] = Process(@.calls, NoLeaf)]

\* The running process has ended, stack is left: its parent returns from wait.
Ended(stack) ==
  IF stack = <<>> THEN stack
  ELSE [stack EXCEPT ![Len(stack)] = Process(Advanced(@.calls), NoLeaf)]

-----------------------------------------------------------------------------
Init ==
  /\ TreeInit
  /\ procs = <<>>
  /\ out = [v \in {} |-> 0]
  /\ failures = 0

\* main calls execNodes for what findRoot has returned.
Start ==
  /\ RootKnown
  /\ procs' = IF root = 0 THEN <<>> ELSE <<Process(<<Call(root, 1)>>, NoLeaf)>>
  /\ UNCHANGED <<out, failures>>

\* execNodes runs in the last process.
Executing ==
  /\ phase = "exec"
  /\ UNCHANGED <<parseVars, countVars>>

Looping ==
  /\ Executing
  /\ Running.leaf = NoLeaf
  /\ Current.i <= NumChildren(Current.node)

NextChild == children[Current.node][Current.i]

MayFail ==
  /\ failures < MaxFailures
  /\ failures' = failures + 1

\* The last process is over: the program has ended when no process is left.
Continue(stack) ==
  /\ procs' = Ended(stack)
  /\ phase' = IF stack = <<>> THEN "done" ELSE "exec"

\* fork for a leaf: the child keeps its parent's calls.
ForkLeaf ==
  /\ Looping
  /\ IsLeaf(NextChild)
  /\ procs' = Append(procs, Process(Running.calls, NextChild))
  /\ UNCHANGED <<phase, out, failures>>

\* fork for an inner node: the child calls execNodes on top of its parent's calls.
ForkInner ==
  /\ Looping
  /\ ~IsLeaf(NextChild)
  /\ procs' = Append(procs, Process(Append(Running.calls, Call(NextChild, 1)), NoLeaf))
  /\ UNCHANGED <<phase, out, failures>>

\* fork fails: the process that wanted to fork exits.
ForkFails ==
  /\ Looping
  /\ MayFail
  /\ Continue(Front(procs))
  /\ UNCHANGED out

\* The child of a leaf becomes leafcounter, writes its file and ends.
ExecLeaf ==
  /\ Executing
  /\ Running.leaf # NoLeaf
  /\ out' = Written(Running.leaf, LeafVotes(Running.leaf))
  /\ Continue(Front(procs))
  /\ UNCHANGED failures

\* execvp of leafcounter fails: the child goes on with the next node of its loop.
ExecLeafFails ==
  /\ Executing
  /\ Running.leaf # NoLeaf
  /\ MayFail
  /\ procs' = [procs EXCEPT ![Len(procs)] = Process(Advanced(@.calls), NoLeaf)]
  /\ UNCHANGED <<phase, out>>

\* Mutant of LoopDone: one child too early.
LoopDoneEarly ==
  /\ Executing
  /\ Running.leaf = NoLeaf
  /\ Current.i >= NumChildren(Current.node)

LoopDone ==
  /\ Executing
  /\ Running.leaf = NoLeaf
  /\ Current.i > NumChildren(Current.node)

\* All children of the node were waited for: aggregate_votes, or find_winner.
ExecNode ==
  /\ LoopDone
  /\ out' = Written(Current.node, SumOfChildren(Current.node))
  /\ Continue(Front(procs))
  /\ UNCHANGED failures

\* execvp fails behind the loop: execNodes returns, into the loop of the call that it
\* was made from, or to main, which ends.
ExecNodeFails ==
  /\ LoopDone
  /\ MayFail
  /\ IF Len(Running.calls) = 1
     THEN Continue(Front(procs))
     ELSE /\ procs' = [procs EXCEPT ![Len(procs)] =
                         Process(Advanced(Front(@.calls)), NoLeaf)]
          /\ UNCHANGED phase
  /\ UNCHANGED out

ExecNodes ==
  \/ ForkLeaf \/ ForkInner \/ ForkFails
  \/ ExecLeaf \/ ExecLeafFails \/ ExecNode \/ ExecNodeFails

Next ==
  \/ (ReadInput \/ FindRoot) /\ UNCHANGED procVars
  \/ Start
  \/ ExecNodes

Spec == Init /\ [][Next]_vars /\ WF_vars(Next)

-----------------------------------------------------------------------------
\* Everything has its type: the links name nodes, every process is in a call of a node.
TypeOK ==
  /\ phase \in {"parse", "malformed", "loop", "count", "crashed", "lost", "exec", "done"}
  /\ at \in 0 .. Len(file) /\ linecounter \in 0 .. at /\ slot \in Nat
  /\ nodes \in Seq(Tokens) /\ visited \in Seq(Tokens)
  /\ children \in [DOMAIN nodes -> Seq(DOMAIN nodes)]
  /\ DOMAIN num_descendant = DOMAIN status
  /\ root \in 0 .. Len(nodes) /\ turn \in 1 .. Len(nodes) + 1 /\ most \in Nat
  /\ \A k \in DOMAIN procs :
       /\ procs[k].calls # <<>>
       /\ \A c \in Range(procs[k].calls) : c.node \in DOMAIN nodes /\ c.i \in Nat
       /\ procs[k].leaf \in 0 .. Len(nodes)
  /\ DOMAIN out \subseteq DOMAIN nodes
  /\ failures \in 0 .. MaxFailures

Leaves(v) == {u \in Within(v) : IsLeaf(u)}

(***************************************************************************)
(* As long as no fork and no execvp fails, an output file has the votes of *)
(* every leaf below its node, each once, from the moment it is written: no *)
(* program starts before the files that it reads are there.  In the end    *)
(* every node below the root has its file.                                 *)
(***************************************************************************)
OutputsExact ==
  failures = 0 =>
    /\ \A v \in DOMAIN out : \A u \in DOMAIN nodes :
         out[v][u] = (IF u \in Leaves(v) THEN 1 ELSE 0)
    /\ phase = "done" => DOMAIN out = Within(root)

(***************************************************************************)
(* A process that goes on after a failed execvp repeats what its parent    *)
(* does later.  Whatever is repeated, no leaf's votes are ever in a file   *)
(* twice.                                                                  *)
(***************************************************************************)
NoVoteTwice == \A v \in DOMAIN out : \A u \in DOMAIN nodes : out[v][u] <= 1

\* The program ends on every file and whatever fails, copies of processes included.
Ends == <>(phase \notin {"parse", "count", "exec"})

=============================================================================
