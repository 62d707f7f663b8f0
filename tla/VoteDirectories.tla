--------------------------- MODULE VoteDirectories ---------------------------
(***************************************************************************)
(* The three programs of CSCI4061_asn2, which count the votes of a tree of *)
(* directories.  Vote_Counter starts Aggregate_Votes for the directory it  *)
(* is given; that starts one program per subdirectory, itself or, for a    *)
(* directory without subdirectories, Leaf_Counter, waits for each, and     *)
(* adds the numbers in the file that it finds there afterwards to its own. *)
(* Nobody looks at an exit status: all that a process tells its parent is  *)
(* what is in <dir>/<dir>.txt, be it from this run or from an earlier one. *)
(*                                                                         *)
(* Symbolic links are not followed.  One that leads to a directory above   *)
(* is reported in Who_Won.txt, in a line of its own.                       *)
(*                                                                         *)
(* Processes are killed wherever they are; one killed while it waits       *)
(* leaves its child running, an orphan.  Runs do not overlap: Vote_Counter *)
(* is not started again before the orphans of the run before have ended.   *)
(* The properties below that look at a second run rest on that.            *)
(***************************************************************************)
EXTENDS Integers, Sequences, SequencesExt, FiniteSetsExt

CONSTANTS Dirs, WhoWon,  \* the directories, and the one at the top
          Above,         \* Above[d]: the directory that d is in
          Names,         \* what a line of a votes.txt may be: numbers, as sort orders them
          VoteFiles,     \* the contents a votes.txt may have: sequences of names
          FirstVotes,    \* the contents of all of them before the first run
          LinkSets,      \* links[d]: where the symbolic links in d lead to
          Tops,          \* the directories that Vote_Counter may be started for
          MaxRuns,       \* bound: how often it is started
          MaxKills       \* bound: how many processes are killed

\* The name that a blank line is taken for.
Blank == 0

Subdirs(d) == {c \in Dirs \ {WhoWon} : Above[c] = d}
IsLeaf(d) == Subdirs(d) = {}
Leaves == {d \in Dirs : IsLeaf(d)}

\* The components of a directory's path, from Who_Won on: the least set that holds the
\* directory and what its members are in.
Path ==
  [d \in Dirs |->
     {e \in Dirs : \A S \in SUBSET Dirs :
        d \in S /\ (\A x \in S \ {WhoWon} : Above[x] \in S) => e \in S}]

\* Directories of a file system: none lies in itself.
ASSUME DirectoryAssumption ==
  /\ IsFiniteSet(Dirs) /\ WhoWon \in Dirs
  /\ Above \in [Dirs \ {WhoWon} -> Dirs]
  /\ \A d \in Dirs \ {WhoWon} : d \notin Path[Above[d]]
  /\ Names \subseteq Nat /\ VoteFiles \subseteq Seq(Names)
  /\ \A links \in LinkSets : \A d \in Dirs : links[d] \subseteq Path[d]
  /\ \A v \in FirstVotes : v \in [DOMAIN v -> VoteFiles] /\ DOMAIN v \subseteq Leaves
  /\ Tops \subseteq Dirs
  /\ MaxRuns \in Nat /\ MaxKills \in Nat

VARIABLES votes,   \* votes[d]: the lines of d/votes.txt, if there is one
          links,
          files,   \* the output files: the lines of each file that exists
          main,    \* Vote_Counter: idle, waiting, or how it ended
          top,     \* its argument
          winner,  \* its winner
          pc,      \* pc[d]: the program started for d, or how it ended
          todo,    \* todo[d]: the entries of d that readdir has still to return
          linked,  \* linked[d]: a link of d has been reported
          list,    \* list[d]: the names and counts that the process has gathered
          sub,     \* sub[d]: the subdirectory whose process it waits for
          runs, kills

dirVars == <<pc, todo, linked, list, sub>>
mainVars == <<main, top, winner, runs>>
vars == <<votes, links, files, mainVars, dirVars, kills>>

-----------------------------------------------------------------------------
\* Files: <<d, n>> is the file n.txt in directory d.

Result(d) == <<d, d>>
WhoWonFile(d) == <<d, WhoWon>>

Cycle(d, t) == [kind |-> "cycle", from |-> d, to |-> t]
Counts(l) == [kind |-> "counts", list |-> l]
Winner(n) == [kind |-> "winner", name |-> n]

Exists(f) == f \in DOMAIN files
Lines(f) == IF Exists(f) THEN files[f] ELSE <<>>
With(f, lines) == [g \in DOMAIN files \cup {f} |-> IF g = f THEN lines ELSE files[g]]
Without(f) == [g \in DOMAIN files \ {f} |-> files[g]]

-----------------------------------------------------------------------------
\* Lists of names and counts, and the lines made of them.

Entry(n, k) == [name |-> n, count |-> k]
NamesIn(l) == {l[k].name : k \in DOMAIN l}
VotesFor(l, n) ==
  SumFunctionOnSet([k \in DOMAIN l |-> IF l[k].name = n THEN l[k].count ELSE 0], DOMAIN l)

\* Mutant of Add: a new entry starts with 0.
AddFromZero(l, n, k) ==
  IF n \in NamesIn(l)
  THEN LET first == Min({i \in DOMAIN l : l[i].name = n})
       IN  [l EXCEPT ![first] = Entry(n, @.count + k)]
  ELSE Append(l, Entry(n, 0))

\* k votes for a name: for its first entry, or in a new one at the end.
Add(l, n, k) ==
  IF n \in NamesIn(l)
  THEN LET first == Min({i \in DOMAIN l : l[i].name = n})
       IN  [l EXCEPT ![first] = Entry(n, @.count + k)]
  ELSE Append(l, Entry(n, k))

\* sort: the k-th line is the least one that k lines are not greater than.
Sorted(lines) ==
  [k \in DOMAIN lines |->
     Min({n \in Range(lines) : Cardinality({j \in DOMAIN lines : lines[j] <= n}) >= k})]

\* Leaf_Counter counts the sorted lines.  No line is skipped: the test for a blank one
\* is of the size of a pointer.
Tally(lines) == FoldLeft(LAMBDA l, n : Add(l, n, 1), <<>>, Sorted(lines))

\* Aggregate_Votes adds a line of a subdirectory's file.
Merge(l, line) == FoldLeft(LAMBDA m, e : Add(m, e.name, e.count), l, line)

\* The entries that a line splits into.  A winner's line is an entry of the word "Winner",
\* which is no name, with the number that its name stands for, 0.
WinnerWord == -1
Fields(line) ==
  CASE line.kind = "counts" -> line.list
    [] line.kind = "winner" -> <<Entry(WinnerWord, 0)>>
    [] line.kind = "cycle" -> <<>>

\* A name without a number or a number without a name stands alone, and is no entry for
\* Aggregate_Votes; so is the text of a line without numbers.
Unreadable(line) ==
  \/ Fields(line) = <<>>
  \/ line.kind = "counts" /\ Blank \in NamesIn(line.list)

\* Mutant of FirstMost: max stays 0.
LastPositive(l) ==
  FoldLeft(LAMBDA best, e : IF e.count > 0 THEN e ELSE best, Entry(Blank, 0), l).name

\* parse_top: the first name with more votes than any before it; Blank if there is none.
FirstMost(l) ==
  FoldLeft(LAMBDA best, e : IF e.count > best.count THEN e ELSE best, Entry(Blank, 0), l).name

\* All entries of a file; lines about cycles have none.
Entries(lines) == FoldLeft(LAMBDA all, line : all \o Fields(line), <<>>, lines)

\* Vote_Counter takes the number of each entry without looking whether there is one.
Crashing(lines) == \E line \in Range(lines) :
  \/ line.kind = "counts" /\ Blank \in NamesIn(line.list)
  \/ line = Winner(Blank)

-----------------------------------------------------------------------------
\* No directory has a process, or what one has left in these variables.
NoProcess(p, entries, reported, gathered, child) ==
  /\ p = [d \in Dirs |-> "none"]
  /\ entries = [d \in Dirs |-> {}]
  /\ reported = [d \in Dirs |-> FALSE]
  /\ gathered = [d \in Dirs |-> <<>>]
  /\ child = [d \in Dirs |-> d]

Init ==
  /\ votes \in FirstVotes
  /\ links \in LinkSets
  /\ files = [f \in {} |-> <<>>]
  /\ main = "idle" /\ top = WhoWon /\ winner = Blank /\ runs = 0
  /\ NoProcess(pc, todo, linked, list, sub)
  /\ kills = 0

\* main and run_aggr: fork, exec of Aggregate_Votes, wait.
StartMain(t) ==
  /\ main = "idle" /\ runs < MaxRuns
  /\ main' = "waiting" /\ top' = t /\ winner' = Blank /\ runs' = runs + 1
  /\ pc' = [pc EXCEPT ![t] = "start"]
  /\ UNCHANGED <<votes, links, files, todo, linked, list, sub, kills>>

-----------------------------------------------------------------------------
\* The programs of the directories.

Entered(d) == {[kind |-> "link", name |-> t] : t \in links[d]}
                \cup {[kind |-> "dir", name |-> c] : c \in Subdirs(d)}

Exit(d, how) == pc' = [pc EXCEPT ![d] = how]

\* The variables of a new process for d.
Begin(d) ==
  /\ pc[d] = "start"
  /\ pc' = [pc EXCEPT ![d] = "scan"]
  /\ todo' = [todo EXCEPT ![d] = Entered(d)]
  /\ linked' = [linked EXCEPT ![d] = FALSE]
  /\ list' = [list EXCEPT ![d] = <<>>]
  /\ UNCHANGED <<votes, links, mainVars, sub, kills>>

\* Mutant of StartAggregate: the file of an earlier run is not removed.
StartAggregateAgain(d) ==
  /\ ~IsLeaf(d)
  /\ Begin(d)
  /\ UNCHANGED files

\* Aggregate_Votes removes the file of an earlier run before it reads its directory.
StartAggregate(d) ==
  /\ ~IsLeaf(d)
  /\ Begin(d)
  /\ files' = Without(Result(d))

\* Aggregate_Votes executes Leaf_Counter, which first looks for links: find_loop.
StartLeaf(d) ==
  /\ IsLeaf(d)
  /\ Begin(d)
  /\ UNCHANGED files

\* readdir returns an entry of this kind.
ReadEntry(d, kind, e) ==
  /\ pc[d] = "scan"
  /\ e \in todo[d]
  /\ e.kind = kind
  /\ todo' = [todo EXCEPT ![d] = @ \ {e}]

\* Mutant of ReportLink: the message is written to the directory's own file.
ReportLinkHere(d) ==
  /\ \E e \in todo[d] :
       /\ ReadEntry(d, "link", e)
       /\ IF linked[d]
          THEN Exit(d, "failed") /\ UNCHANGED <<files, linked>>
          ELSE /\ files' = With(Result(d), Append(Lines(Result(d)), Cycle(d, e.name)))
               /\ linked' = [linked EXCEPT ![d] = TRUE]
               /\ UNCHANGED pc
  /\ UNCHANGED <<votes, links, mainVars, list, sub, kills>>

\* A link: its message is appended to the file of Who_Won.  The path of that file is
\* added to what is left of it from an earlier link in the same directory; there is no
\* such file then, and the process exits.
ReportLink(d) ==
  /\ \E e \in todo[d] :
       /\ ReadEntry(d, "link", e)
       /\ IF linked[d]
          THEN Exit(d, "failed") /\ UNCHANGED <<files, linked>>
          ELSE /\ files' = With(Result(WhoWon), Append(Lines(Result(WhoWon)), Cycle(d, e.name)))
               /\ linked' = [linked EXCEPT ![d] = TRUE]
               /\ UNCHANGED pc
  /\ UNCHANGED <<votes, links, mainVars, list, sub, kills>>

\* A subdirectory: fork, exec of the program for it, and wait.
ForkSub(d) ==
  /\ \E e \in todo[d] :
       /\ ReadEntry(d, "dir", e)
       /\ sub' = [sub EXCEPT ![d] = e.name]
       /\ pc' = [pc EXCEPT ![d] = "wait", ![e.name] = "start"]
  /\ UNCHANGED <<votes, links, files, mainVars, linked, list, kills>>

\* How a program may have ended: well, with an exit of its own or a signal, or with a
\* signal before it did anything.
Ended == {"ok", "failed", "killed"}

\* The first line of c's file is all that its parent reads.
Readable(c) ==
  /\ Exists(Result(c))
  /\ Lines(Result(c)) # <<>> => ~Unreadable(Head(Lines(Result(c))))
Merged(l, c) ==
  IF Lines(Result(c)) = <<>> THEN l ELSE Merge(l, Fields(Head(Lines(Result(c)))))

\* Mutant of MergeSub: does not wait for the process.
MergeSubEarly(d) ==
  /\ pc[d] = "wait"
  /\ files' = With(Result(d), Lines(Result(d)))
  /\ IF Readable(sub[d])
     THEN /\ list' = [list EXCEPT ![d] = Merged(@, sub[d])]
          /\ Exit(d, "scan")
     ELSE Exit(d, "failed") /\ UNCHANGED list
  /\ UNCHANGED <<votes, links, mainVars, todo, linked, sub, kills>>

\* Mutant of MergeSub: waits until the process has ended well.
MergeSubOfSuccess(d) ==
  /\ pc[d] = "wait"
  /\ pc[sub[d]] = "ok"
  /\ files' = With(Result(d), Lines(Result(d)))
  /\ IF Readable(sub[d])
     THEN /\ list' = [list EXCEPT ![d] = Merged(@, sub[d])]
          /\ Exit(d, "scan")
     ELSE Exit(d, "failed") /\ UNCHANGED list
  /\ UNCHANGED <<votes, links, mainVars, todo, linked, sub, kills>>

\* The parent returns from wait, creates its own file if it is not there, and reads the
\* first line of the subdirectory's file.  An empty file adds nothing; one that is not
\* there or cannot be read ends the process.
MergeSub(d) ==
  /\ pc[d] = "wait"
  /\ pc[sub[d]] \in Ended
  /\ files' = With(Result(d), Lines(Result(d)))
  /\ IF Readable(sub[d])
     THEN /\ list' = [list EXCEPT ![d] = Merged(@, sub[d])]
          /\ Exit(d, "scan")
     ELSE Exit(d, "failed") /\ UNCHANGED list
  /\ UNCHANGED <<votes, links, mainVars, todo, linked, sub, kills>>

\* All entries were read: the line with the counts is appended.  Without any name the
\* list's first node is a null pointer, and the process crashes.
WriteCounts(d) ==
  /\ ~IsLeaf(d)
  /\ pc[d] = "scan" /\ todo[d] = {}
  /\ IF list[d] = <<>>
     THEN Exit(d, "failed") /\ UNCHANGED files
     ELSE /\ files' = With(Result(d), Append(Lines(Result(d)), Counts(list[d])))
          /\ Exit(d, "ok")
  /\ UNCHANGED <<votes, links, mainVars, todo, linked, list, sub, kills>>

\* file_opener: no votes.txt, no leaf; else it is sorted and counted, and print_results
\* opens the output file, which empties it.
CountVotes(d) ==
  /\ IsLeaf(d)
  /\ pc[d] = "scan" /\ todo[d] = {}
  /\ IF d \notin DOMAIN votes
     THEN Exit(d, "failed") /\ UNCHANGED <<files, list>>
     ELSE /\ list' = [list EXCEPT ![d] = Tally(votes[d])]
          /\ files' = With(Result(d), <<>>)
          /\ Exit(d, "print")
  /\ UNCHANGED <<votes, links, mainVars, todo, linked, sub, kills>>

\* fclose in print_results writes the line.
PrintResults(d) ==
  /\ pc[d] = "print"
  /\ files' = With(Result(d), Append(Lines(Result(d)), Counts(list[d])))
  /\ Exit(d, "ok")
  /\ UNCHANGED <<votes, links, mainVars, todo, linked, list, sub, kills>>

\* A process is killed, whatever it is at.  If it waits for another, that one runs on,
\* and so do those below, beside all that is started afterwards.
Kill(d) ==
  /\ pc[d] \notin Ended \cup {"none"}
  /\ kills < MaxKills
  /\ kills' = kills + 1
  /\ Exit(d, IF pc[d] = "start" THEN "killed" ELSE "failed")
  /\ UNCHANGED <<votes, links, files, mainVars, todo, linked, list, sub>>

-----------------------------------------------------------------------------
\* read_file of Vote_Counter copies what it reads to the directory's Who_Won.txt, unless
\* that is the file it reads.
Copied(lines) == IF top = WhoWon THEN files ELSE With(WhoWonFile(top), lines)

\* The winner is appended to the copy and to the file read: one file or two.
Announced(n) ==
  LET copied == Copied(Lines(Result(top)))
  IN  [f \in DOMAIN copied |->
         IF f \in {Result(top), WhoWonFile(top)} THEN Append(copied[f], Winner(n)) ELSE copied[f]]

\* The rest of main.  Without a file to read it exits; an entry without a count is a
\* null pointer for atoi, and it crashes with the copy still empty.
FinishMain ==
  /\ main = "waiting"
  /\ pc[top] \in Ended
  /\ \/ /\ ~Exists(Result(top))
        /\ main' = "failed"
        /\ UNCHANGED <<files, winner>>
     \/ /\ Exists(Result(top))
        /\ Crashing(files[Result(top)])
        /\ main' = "failed"
        /\ files' = Copied(<<>>)
        /\ UNCHANGED winner
     \/ /\ Exists(Result(top))
        /\ ~Crashing(files[Result(top)])
        /\ main' = "done"
        /\ winner' = FirstMost(Entries(files[Result(top)]))
        /\ files' = Announced(winner')
  /\ UNCHANGED <<votes, links, top, runs, dirVars, kills>>

\* Before the next run a votes.txt may be written or removed.
Vote(d) ==
  \/ \E lines \in VoteFiles :
       votes' = [e \in DOMAIN votes \cup {d} |-> IF e = d THEN lines ELSE votes[e]]
  \/ votes' = [e \in DOMAIN votes \ {d} |-> votes[e]]

\* Vote_Counter may be started again.  An assumption on how it is used: nobody does
\* before the last process has ended.  What is left of a run after a process was killed
\* that waited would empty and write files of the next one beside its processes.
EndMain ==
  /\ main \in {"done", "failed"}
  /\ runs < MaxRuns
  /\ \A d \in Dirs : pc[d] \in Ended \cup {"none"}
  /\ main' = "idle"
  /\ NoProcess(pc', todo', linked', list', sub')
  /\ UNCHANGED votes \/ \E d \in Leaves : Vote(d)
  /\ UNCHANGED <<links, files, top, winner, runs, kills>>

Program(d) ==
  \/ StartAggregate(d) \/ StartLeaf(d) \/ ReportLink(d) \/ ForkSub(d) \/ MergeSub(d)
  \/ WriteCounts(d) \/ CountVotes(d) \/ PrintResults(d)

Next ==
  \/ \E t \in Tops : StartMain(t)
  \/ \E d \in Dirs : Program(d) \/ Kill(d)
  \/ FinishMain \/ EndMain

Spec ==
  /\ Init /\ [][Next]_vars
  /\ \A d \in Dirs : WF_vars(Program(d))
  /\ WF_vars(FinishMain)

-----------------------------------------------------------------------------
\* Everything has its type: every file consists of lines that some program writes.
TypeOK ==
  /\ DOMAIN votes \subseteq Leaves /\ links \in LinkSets
  /\ DOMAIN files \subseteq Dirs \X Dirs
  /\ \A f \in DOMAIN files : \A k \in DOMAIN files[f] :
       /\ files[f][k].kind \in {"cycle", "counts", "winner"}
       /\ files[f][k].kind = "counts" =>
            \A e \in Range(files[f][k].list) :
              \/ (e.name \in Names /\ e.count > 0)
              \/ e = Entry(WinnerWord, 0)
  /\ main \in {"idle", "waiting", "done", "failed"} /\ top \in Dirs
  /\ winner \in Names \cup {Blank}
  /\ pc \in [Dirs -> {"none", "start", "scan", "wait", "print"} \cup Ended]
  /\ sub \in [Dirs -> Dirs]
  /\ runs \in 0 .. MaxRuns /\ kills \in 0 .. MaxKills

\* What a directory's file says about a name, and what its votes.txt says.
Value(d, n) == VotesFor(Entries(Lines(Result(d))), n)
Ballots(d, n) ==
  IF d \in DOMAIN votes THEN Cardinality({k \in DOMAIN votes[d] : votes[d][k] = n}) ELSE 0

\* What holds for a name over several directories.
InFiles(S, n) == SumFunctionOnSet([c \in S |-> Value(c, n)], S)
InBallots(S, n) == SumFunctionOnSet([d \in S |-> Ballots(d, n)], S)

(***************************************************************************)
(* The file of a process that ended well agrees, for the rest of the run,  *)
(* with what it was made from: a leaf's with its votes.txt, another's with *)
(* the files of all its subdirectories.  That holds whatever processes     *)
(* failed or were killed, while orphans of this run go on writing, and in  *)
(* whatever order readdir returned the entries.  Of earlier runs any files *)
(* may be left, but no process (EndMain): an orphan of one would empty the *)
(* file of a leaf that this run is through with.                           *)
(***************************************************************************)
SumsAgree ==
  main # "idle" =>
    \A d \in Dirs : pc[d] = "ok" =>
      \A n \in Names :
        Value(d, n) = IF IsLeaf(d) THEN Ballots(d, n) ELSE InFiles(Subdirs(d), n)

Inside(t) == {d \in Dirs : t \in Path[d]}
AllWell == \A d \in Inside(top) : pc[d] = "ok"

(***************************************************************************)
(* If no process of this run failed, the winner has the most votes of the  *)
(* directories that were counted, after failed runs too; it is no blank    *)
(* line unless all vote files are empty.  No process of a run before is    *)
(* left (EndMain).                                                         *)
(***************************************************************************)
WinnerOfBallots ==
  main = "done" /\ AllWell =>
    LET Total(n) == InBallots(Leaves \cap Inside(top), n)
    IN  \A n \in Names :
          /\ Total(n) <= Total(winner)
          /\ Total(n) > 0 => winner \in Names \ {Blank}

(***************************************************************************)
(* If no process of a run from the top failed, Who_Won.txt consists of one *)
(* line for each symbolic link of the tree, a line with the counts, and    *)
(* the winner, and nothing of an earlier run, of which no process is left  *)
(* (EndMain): one could still report its links.                            *)
(***************************************************************************)
CyclesReported ==
  main = "done" /\ AllWell /\ top = WhoWon /\ ~IsLeaf(WhoWon) =>
    LET lines == files[Result(WhoWon)]
        reports == {Cycle(d, t) : d \in Dirs, t \in Dirs}
    IN  /\ \A r \in reports :
             Cardinality({k \in DOMAIN lines : lines[k] = r}) = (IF r.to \in links[r.from] THEN 1 ELSE 0)
        /\ lines[Len(lines)] = Winner(winner)
        /\ {k \in DOMAIN lines : lines[k].kind = "counts"} = {Len(lines) - 1}

(***************************************************************************)
(* An Aggregate_Votes that fails on its way, or is killed on it, leaves no *)
(* counts behind, not even of the subdirectories that it was through with, *)
(* nor old ones; none is written later, as no process of an earlier run is *)
(* left (EndMain).                                                         *)
(***************************************************************************)
FailedSaysNothing ==
  \A d \in Dirs \ Leaves : pc[d] = "failed" => \A n \in Names : Value(d, n) = 0

(***************************************************************************)
(* Every run of Vote_Counter ends: no process waits for one that does not  *)
(* end, and no link is followed.  Orphans need not have ended by then.     *)
(***************************************************************************)
RunEnds == main = "waiting" ~> main # "waiting"

=============================================================================
