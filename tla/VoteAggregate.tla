---------------------------- MODULE VoteAggregate ----------------------------
(***************************************************************************)
(* The counting of CSCI4061_asn3/votecounter.c: each thread decrypts one   *)
(* leaf's file (readInput), counts its votes and walks from the leaf to    *)
(* the root (aggregate), adding its counts to the file of one directory    *)
(* after the other.  rwMutex is held for one directory at a time, so walks *)
(* overtake each other.  When all threads are joined main reads the        *)
(* winner from the root's file (findwinner).                               *)
(*                                                                         *)
(* All threads run from the start: VoteCounterPool, which says when they   *)
(* are created, only allows fewer interleavings.                           *)
(***************************************************************************)
EXTENDS Integers, Sequences, SequencesExt, FiniteSetsExt

CONSTANTS Dirs,        \* the directories made from the DAG file
          RootDir,     \* publicroot
          Above,       \* Above[d]: the directory that d is in
          Leaves,      \* the input files, one thread each
          Candidates,
          OneLetter,   \* the candidates whose names are a single character
          BallotFiles  \* the contents an input file may have: sequences of names

Nobody == "nobody"
None == "none"
Undeclared == "undeclared"

\* The directories that d lies in: the least set that holds the one above d and
\* those above its members.
DirsAbove ==
  [d \in Dirs \cup Leaves |->
     {e \in Dirs : \A S \in SUBSET Dirs :
        /\ d \in Dirs \ {RootDir} => Above[d] \in S
        /\ \A x \in S \ {RootDir} : Above[x] \in S
        => e \in S}]

\* Directories of a file system: none lies in itself.
ASSUME AggregateAssumption ==
  /\ IsFiniteSet(Dirs)
  /\ IsFiniteSet(Leaves)
  /\ RootDir \in Dirs \ Leaves
  /\ Above \in [Dirs \ {RootDir} -> Dirs \ Leaves]
  /\ \A d \in Dirs : d \notin DirsAbove[d]
  /\ OneLetter \subseteq Candidates
  /\ BallotFiles \subseteq Seq(Candidates)
  /\ Nobody \notin Leaves
  /\ None \notin Candidates /\ Undeclared \notin Candidates

VARIABLES ballots,   \* ballots[t]: the decrypted lines of leaf t
          out,       \* out[d]: the lines of d's output file, if there is one
          rwMutex,   \* the thread that holds it, or Nobody
          pc,        \* pc[t]: where the thread of leaf t is in its walk
          node,      \* node[t]: the argument filename of its current aggregate
          inc,       \* inc[t]: root_counter, the votes it carries upwards
          root_out,  \* root_out[t]: the parent's file as it is to be written
          winner     \* what findwinner wrote: a name, None, or Undeclared

walkVars == <<pc, node, inc, root_out>>
vars == <<ballots, out, rwMutex, walkVars, winner>>

-----------------------------------------------------------------------------
\* Lists of candidates and their counts, as linked lists and as lines of files.

Entry(c, n) == [name |-> c, count |-> n]

Names(list) == {list[k].name : k \in DOMAIN list}

\* Only lines of length 2, newline included, count as votes of a leaf.  Every entry of
\* the name is raised; a new name goes to the end.
CountVote(list, c) ==
  CASE c \notin OneLetter -> list
    [] c \in OneLetter \cap Names(list) ->
         [k \in DOMAIN list |->
            IF list[k].name = c THEN Entry(c, list[k].count + 1) ELSE list[k]]
    [] c \in OneLetter \ Names(list) -> Append(list, Entry(c, 1))

Tallied(lines) == FoldLeft(CountVote, <<>>, lines)

\* What the list has for a name: the count of its first entry.
Carried(list, c) ==
  IF c \in Names(list)
  THEN (list[CHOOSE k \in DOMAIN list : list[k].name = c]).count ELSE 0

\* Mutant of Updated: without the case of a line that the walk has no votes for, which
\* leaves the name that the line's node was created with.
UpdatedTemp(old, list) ==
  [k \in DOMAIN old |->
     Entry(IF old[k].name \in Names(list) THEN old[k].name ELSE "temp",
           old[k].count + Carried(list, old[k].name))]

\* A parent's file that exists: its lines, each with what the walk carries for it.
Updated(old, list) ==
  [k \in DOMAIN old |->
     Entry(old[k].name, old[k].count + Carried(list, old[k].name))]

\* Mutant of FirstMost: result_count stays 0.
LastPositive(lines) ==
  FoldLeft(LAMBDA best, e : IF e.count > 0 THEN e ELSE best, Entry(None, 0), lines).name

\* findwinner: the first line with more votes than any before it, and more than 0.
Better(best, e) == IF e.count > best.count THEN e ELSE best

FirstMost(lines) == FoldLeft(Better, Entry(None, 0), lines).name

-----------------------------------------------------------------------------
Init ==
  /\ ballots \in [Leaves -> BallotFiles]
  /\ out = [d \in {} |-> <<>>]
  /\ rwMutex = Nobody
  /\ pc = [t \in Leaves |-> "lock"]
  /\ node = [t \in Leaves |-> t]
  /\ inc = [t \in Leaves |-> <<>>]
  /\ root_out = [t \in Leaves |-> <<>>]
  /\ winner = Undeclared

\* Mutant of Lock: without the mutex.
LockNothing(t) ==
  /\ pc[t] = "lock"
  /\ node[t] \in Dirs \ {RootDir}
  /\ inc' = [inc EXCEPT ![t] = IF node[t] = t THEN Tallied(ballots[t]) ELSE @]
  /\ pc' = [pc EXCEPT ![t] = "read"]
  /\ UNCHANGED <<ballots, out, rwMutex, node, root_out, winner>>

\* aggregate up to the parent's file.  A leaf's file has one name per line; those
\* of the other directories have a count behind each name and add nothing.
Lock(t) ==
  /\ pc[t] = "lock"
  /\ node[t] \in Dirs \ {RootDir}
  /\ rwMutex = Nobody
  /\ rwMutex' = t
  /\ inc' = [inc EXCEPT ![t] = IF node[t] = t THEN Tallied(ballots[t]) ELSE @]
  /\ pc' = [pc EXCEPT ![t] = "read"]
  /\ UNCHANGED <<ballots, out, node, root_out, winner>>

\* The input file is no node of the DAG: it is ignored.
IgnoreFile(t) ==
  /\ pc[t] = "lock"
  /\ node[t] \notin Dirs
  /\ pc' = [pc EXCEPT ![t] = "exited"]
  /\ UNCHANGED <<ballots, out, rwMutex, node, inc, root_out, winner>>

\* Mutant of ReadParent: a file that exists is replaced, not updated.
ReadNothing(t) ==
  /\ pc[t] = "read"
  /\ root_out' = [root_out EXCEPT ![t] = inc[t]]
  /\ pc' = [pc EXCEPT ![t] = "write"]
  /\ UNCHANGED <<ballots, out, rwMutex, node, inc, winner>>

ReadParent(t) ==
  LET parent == Above[node[t]] IN
  /\ pc[t] = "read"
  /\ root_out' = [root_out EXCEPT ![t] = IF parent \in DOMAIN out
                                         THEN Updated(out[parent], inc[t])
                                         ELSE inc[t]]
  /\ pc' = [pc EXCEPT ![t] = "write"]
  /\ UNCHANGED <<ballots, out, rwMutex, node, inc, winner>>

WriteParent(t) ==
  LET parent == Above[node[t]] IN
  /\ pc[t] = "write"
  /\ out' = [d \in DOMAIN out \cup {parent} |-> IF d = parent THEN root_out[t] ELSE out[d]]
  /\ pc' = [pc EXCEPT ![t] = "unlock"]
  /\ UNCHANGED <<ballots, rwMutex, node, inc, root_out, winner>>

\* Mutant of Unlock: a walk that ends at the root keeps the mutex.
UnlockBelowRoot(t) ==
  LET parent == Above[node[t]] IN
  /\ pc[t] = "unlock"
  /\ rwMutex' = IF parent = RootDir THEN t ELSE Nobody
  /\ node' = [node EXCEPT ![t] = parent]
  /\ pc' = [pc EXCEPT ![t] = IF parent = RootDir THEN "exited" ELSE "lock"]
  /\ UNCHANGED <<ballots, out, inc, root_out, winner>>

\* The call of aggregate for the parent, which returns at once for the root.
Unlock(t) ==
  LET parent == Above[node[t]] IN
  /\ pc[t] = "unlock"
  /\ rwMutex' = Nobody
  /\ node' = [node EXCEPT ![t] = parent]
  /\ pc' = [pc EXCEPT ![t] = IF parent = RootDir THEN "exited" ELSE "lock"]
  /\ UNCHANGED <<ballots, out, inc, root_out, winner>>

\* After the joins.  With no leaf in the DAG there is no file and main exits.
FindWinner ==
  /\ winner = Undeclared
  /\ \A t \in Leaves : pc[t] = "exited"
  /\ RootDir \in DOMAIN out
  /\ winner' = FirstMost(out[RootDir])
  /\ UNCHANGED <<ballots, out, rwMutex, walkVars>>

Walk(t) ==
  Lock(t) \/ IgnoreFile(t) \/ ReadParent(t) \/ WriteParent(t) \/ Unlock(t)

Next == FindWinner \/ \E t \in Leaves : Walk(t)

Spec == Init /\ [][Next]_vars

\* Every thread runs on, and main after them.
FairSpec == Spec /\ WF_vars(FindWinner) /\ \A t \in Leaves : WF_vars(Walk(t))

-----------------------------------------------------------------------------
Lists == Seq([name : Candidates, count : Nat])

TypeOK ==
  /\ ballots \in [Leaves -> BallotFiles]
  /\ DOMAIN out \subseteq Dirs /\ out \in [DOMAIN out -> Lists]
  /\ rwMutex \in Leaves \cup {Nobody}
  /\ pc \in [Leaves -> {"lock", "read", "write", "unlock", "exited"}]
  /\ node \in [Leaves -> Dirs \cup Leaves]
  /\ inc \in [Leaves -> Lists] /\ root_out \in [Leaves -> Lists]
  /\ winner \in Candidates \cup {None, Undeclared}

Votes(t, c) == Cardinality({k \in DOMAIN ballots[t] : ballots[t][k] = c})

VotesFor(c) == [t \in Leaves |-> Votes(t, c)]

SumOfVotes(T, c) == SumFunctionOnSet(VotesFor(c), T)

\* The leaves whose votes were written to d's file.
Passed(d) ==
  {t \in Leaves : /\ d \in DirsAbove[t]
                  /\ \/ d \notin DirsAbove[node[t]]
                     \/ pc[t] = "unlock" /\ d = Above[node[t]]}

(***************************************************************************)
(* However the walks overtake each other between two locks, and whatever   *)
(* is read in one critical section and written in it: each name that a     *)
(* directory's file lists has exactly the votes of the leaves that have    *)
(* passed, and a name that all of them gave votes is listed (121-256).     *)
(***************************************************************************)
FilesExact ==
  /\ DOMAIN out = {d \in Dirs : Passed(d) # {}}
  /\ \A d \in DOMAIN out :
       /\ \A k \in DOMAIN out[d] :
            out[d][k].count = SumOfVotes(Passed(d), out[d][k].name)
       /\ \A c \in OneLetter :
            (\A t \in Passed(d) : Votes(t, c) > 0) => c \in Names(out[d])

\* Every file that is there keeps its lines, and their counts do not fall.
Grows ==
  \A d \in DOMAIN out :
    /\ d \in DOMAIN out'
    /\ DOMAIN out'[d] = DOMAIN out[d]
    /\ \A k \in DOMAIN out[d] : /\ out'[d][k].name = out[d][k].name
                               /\ out'[d][k].count >= out[d][k].count

(***************************************************************************)
(* A file, once written, keeps its names in their places and no count in   *)
(* it ever falls, although the walks rewrite it from what they read before *)
(* (182-235).                                                              *)
(***************************************************************************)
FilesGrow == [][Grows]_vars

\* The leaves of the DAG.
Counted == Leaves \cap Dirs

\* The condition under which no name is lost: all leaves name the same candidates, as
\* in every test case of the repository.
SameNames ==
  \A t, u \in Counted, c \in OneLetter : Votes(t, c) > 0 => Votes(u, c) > 0

(***************************************************************************)
(* When all leaves name the same candidates, the winner has the most votes *)
(* of all leaves, in every schedule, and is nobody only if nobody has any  *)
(* (findwinner 803-847 after the joins).                                   *)
(***************************************************************************)
WinnerRight ==
  winner # Undeclared /\ SameNames =>
    \A c \in OneLetter : SumOfVotes(Counted, c) <=
        (IF winner = None THEN 0 ELSE SumOfVotes(Counted, winner))

(***************************************************************************)
(* Every walk reaches the root and a winner is declared: the mutex is free *)
(* again after every directory, the last one of a walk included.           *)
(***************************************************************************)
WinnerDeclared == <>(winner # Undeclared)

(***************************************************************************)
(* A claim of the assignment that the code does not keep: the second       *)
(* thread adds its candidate F to Region_1.txt, "C:2 D:4 E:1 F:1"          *)
(* (PA3-Updated.pdf, page 8), so that in the end the root's file has every *)
(* vote.                                                                   *)
(***************************************************************************)
TotalsComplete ==
  winner # Undeclared =>
    \A c \in OneLetter : SumOfVotes(Counted, c) = Carried(out[RootDir], c)
=============================================================================
