# Verification of the 4061-OS programs

The repository holds the programs of an operating-systems course: four
assignments (`CSCI4061_asn1` to `asn4`) and ten recitation exercises. This
directory holds TLA+ models of the parts whose correctness depends on order,
concurrency or long sequences of calls, the TLC runs that check them and the
proofs that hold for every instance.

The largest and most interesting program is assignment 4: an election server
(`server.c`) and its clients (`client.c`). It is modelled first and completely
as far as its own logic goes. Second is assignment 3, the threaded vote counter;
then assignment 2, which counts with a process per directory, and assignment 1,
which runs a program per node of a dependency tree.

## Inventory

| Part | State | Operations | Interacts with |
|---|---|---|---|
| asn4 server, regions and polls (`server.c`) | list of regions, `children`, flags `open`, `closed` | `Open_Polls`, `Close_Polls`, `Add_Region` | called by `dispatchCode`; flags read by the vote handlers |
| asn4 server, votes (`server.c`) | per region a list of candidate counts (`root_counter`) and `hasdata` | `Add_Votes`, `Remove_Votes`, `Count_Votes`, `Return_Winner`, `aggregate` | reads the tree and the flags |
| asn4 server, sessions (`server.c`) | listening socket, one accepted connection, one thread per connection, `mutex` | `main`'s accept and join, `runThread` | clients over TCP; handlers under the mutex |
| asn4 client (`client.c`) | command file, socket | `dispatchLine`, one function per command, `getResponse` | one request, one reply |
| asn4 DAG loader (`createDAG`) | builds the list | one pass over the file | start-up only |
| asn3 votecounter (`votecounter.c`) | file queue, `cur_threads`, condition variable, output files, `rwMutex` | `decryptAll`, `runThread`, `readInput`, `aggregate`, `findwinner` | a thread per input file, all writing the same parent files |
| asn2 (`Vote_Counter.c`, `Aggregate_Votes.c`, `Leaf_Counter.c`) | directories, one output file each, the list of counts of each process | scan a directory, count a leaf, add a subdirectory's file, report links, declare the winner | fork, exec and wait, nested; a child answers only through its file |
| asn1 (`votecounter.c`) | node array, list of names seen as children | `parseInput`, `findDAG_Loop`, `findRoot`, `execNodes` | fork and wait, one child at a time; results in the files of three programs given as binaries |
| rec8 to rec13 | matrices, accounts, queue, forks, sockets | small threaded programs | mutexes, condition variables |
| rec4 to rec7 | files, pipes | I/O exercises | none |

What is hard to test here:

* **Sequences of requests** in asn4. Polls have a life cycle; sums are cached on
  first use and never invalidated; `Return_Winner` adds to a sum that is already
  there; regions appear while the election runs; the recursion goes by name.
* **Sessions** in asn4. A client waits for a reply to every line of its file, a
  server joins each thread before it accepts again, a client may be killed
  between any two steps.
* **Threads** in asn3. A counter changed under a mutex on one side and without it
  on the other, a signal that can be lost, a lock released between two levels of
  a walk that other walks cross.
* **Processes and files** in asn2. Nobody looks at an exit status: a parent reads
  whatever file is there after `wait`, complete, empty, missing or of an earlier run.
* **Processes that should be gone** in asn1. A child whose `execvp` fails goes on in
  its copy of the parent's loop. Before that, two algorithms whose limits are not
  obvious: a loop test that compares names and a root search that adds to counts
  twice.
  In asn2 a process killed while it waits leaves its child running, and that one
  goes on writing files that others read.
* **Locks** in rec9 and rec11.

`PROJECT.json` lists these hazards line by line, with the properties that cover
each, and those that nothing covers yet.

## What is modelled

### PollTree: regions and polls (`server.c` 355-391, 467-517, 655-691)

A region is its position in the server's list. `Lookup` is the list walk: the
first region of a name. `OpenPolls`, `ClosePolls` and `AddRegion` are one action
per request, early returns included; `OpenReply` and the like give the reply
code. The recursion into children is `Swept`: the least set that holds the
region named in the request and is closed under "the first region with the name
of a child, if it passes the handler's guard". This is the code's depth-first
recursion because each flag is set before the children are visited: nothing is
visited twice and order does not matter. `Callees` goes by name, as the code does.

`PollLifecycle` is the abstract specification: a phase per region that goes
unopened, open, closed, several regions of one phase at a time, never ahead of a
region declared below. `PollTree` implements it (`LifecycleSpec`) under the
mapping `Phase`.

### VoteServer: votes, sums and winner (`server.c` 158-353, 393-466, 519-653, 694-841)

Extends PollTree with a list of entries per region. A handler runs under the
mutex, so a request is one action: `OP CP AR AV RV CV RW UC`, named by their
request codes. `LeafCounter` is the client's part (`client.c` 113-164): it counts the ballots
of a vote file, and what it sends has each name once. `Walked` takes one
candidate after the other into a list: in `AddTokens` it never goes back (a candidate
listed before the place the walk has reached gets a second entry), in `Merge` it goes
back to the head for each entry. `Gathered` merges the lists of the children in order;
`Aggregated` is the sum `aggregate` stores at each region and `Entered` the set of
regions the recursion enters, children without data only: stored sums are taken as
they are. `Subtract` leaves out that the
subtracting loop of `Remove_Votes` tests each token again (629-635): after the first loop
the answer is known. `Leader` is the first strict maximum. `hasdata` is
"the list is not empty". `cast`, `declared` and `early` are history variables and
guard nothing, except that `AV` stops at `MaxVotes`.

### VoteSessions: clients, connections, threads (`client.c` 339-368, 457-499, 502-573; `server.c` 843-872, 1048-1142)

Clients run through command files. `DispatchLine` sends or, for a line that is no
command, sends nothing; either way the client then waits in `GetResponse`. The
server's `Accept` and `Join` are `main`; `Read`, `Lock`, `DispatchCode`, `Unlock`
and `EndOfFile` are `runThread`. A message is one step, whole: the stream is
reliable and ordered and a request is acted on when its terminator arrives. `Die`
is a client killed at any point; its connection is reset at once if a reply was
unread, or else at the next reply, which is the worst case TCP allows.

`SerialSessions` is the abstract specification: arrivals queue up, one session is
served at a time, commands are executed only for that session.

### VoteCounterPool: queue, threads, condition variable (asn3 `votecounter.c` 297-344, 469-588)

`main` fills the queue in `readdir`'s order (`Listings`, any order) and sorts it:
`SortPass` and `SortQueue` are the code's double loop over all places. Then it
starts one thread per file: `LoadForMore`, `StoreMore`, `TestLimit`, `Wait`, `Create`
are lines 575 to 581. `cur_threads++` is a load and a store because the threads'
`cur_threads--` (`LoadForLess`, `StoreLess`) takes no lock; for the same reason
`cq->mutex` excludes nobody and is no variable. `Signal` wakes `main` if it is in
`pthread_cond_wait` at that moment, and is lost otherwise; `WakeUp` is a spurious
wake-up. `raced` and `missed` are history: an update was overwritten, a signal fell
between test and wait. `CountFile` stands for `readInput` and `aggregate`.

`FilesOnce` is the abstract specification: files start in order of priority, each
is counted once, the winner comes after all. `VoteCounterPool` implements it.

### VoteAggregate: walks, files, winner (asn3 `votecounter.c` 66-293, 803-847)

One thread per input file, all running from the start, so every interleaving that
the pool allows is among those checked. `Lock` is `aggregate` up to the parent's
file, the counting of the leaf's lines included; `ReadParent` and `WriteParent` make
the parent's new file; `Unlock` goes on with the parent directory. `out` holds the
files that exist. `Updated` builds the new contents from the old lines, as the code
does. A line counts as a vote only if it is one character long (`OneLetter`).
`IgnoreFile` is an input file that is not in the DAG.

### NodeTree: input file, loop test, root (asn1 `votecounter.c` 50-242, 352-384)

The input file is one of the constant `InputFiles`, a sequence of lines of tokens; an
action reads one line: `SkipComment`, `CandidateLine`, `NodeLine`, `LinkLine`, and
`EndOfInput` refuses the file or goes on. `CountNode` is one round of `findRoot`;
`NumOfDescendant` gives the counts after a call, as a recursive function over the
nodes, which is the code's recursion because without a cycle a node's `status` is
set before its count is asked for again. `CountCycle` is the recursion without end.
`parseInputLine` uses `numofnodes` without having set it on every line of links:
`Leftover` has the three values that builds leave there (`Builds`: the earlier
call's, as in the repository's binary, 0, or the line's number of tokens).
Counts start with the number of children, for the first `slot` nodes only. `Attached`
and `IsTree` say what a file describes from its lines alone, and the properties compare
the arrays with them: `Attached` asks that every mentioned name is listed, on both sides
of the colon, and that `Who_Won` leads to all of them. Without the former, a line of an
unlisted father that mentions a name twice makes the loop test refuse a file whose
listed regions are a tree.

### NodeProcesses: a program per node (asn1 `votecounter.c` 246-346)

The processes form a stack, since a parent waits for its child, and a process is its
stack of calls of `execNodes`. `ForkLeaf` and `ForkInner` push a process;
`ExecLeaf` and `ExecNode` become another program, which writes a file and ends;
`ForkFails` is an exit; `ExecLeafFails` and `ExecNodeFails` are a failed `execvp`,
after which the process goes on in its loop or in the caller's. `out` counts whose
votes each output file holds. The three programs are known only as binaries and
modelled by that: a counter writes its leaf's votes, the others the sum of the
files that are there.

### VoteDirectories: a process per directory (asn2, all three programs)

`pc[d]` is the process started for directory `d`. `StartAggregate` removes the file
of an earlier run, `StartLeaf` does not; `ReportLink` appends to Who_Won's file and
fails at a directory's second link, where the code's path is wrong; `ForkSub` starts
the program for a subdirectory, and `MergeSub` is the return from `wait`: own file
created, first line of the child's file added. `CountVotes` empties the leaf's file
and `PrintResults` fills it. `FinishMain` is the rest of `Vote_Counter`. `Fields`,
`Unreadable` and `Crashing` say what `makeargv` makes of each kind of line, a
winner's and one with a blank name included. `Kill` ends a process wherever
it is, before its program starts, while it reads, while it prints, and while it waits for
a child (`Aggregate_Votes.c` 217), where it spends nearly all its time. The child of a
process killed there is an orphan: it runs on to its end, with all that is below it,
while the parents above take what is left for an answer, start the next subdirectories
and declare a winner.

Runs do not overlap: `EndMain`, after which votes may change and `Vote_Counter` may be
started again, waits until no process is left. That is an assumption on how the program
is used, and nothing in the code enforces it: `Vote_Counter` does not know of orphans and
returns while they run. Without it an orphan of the first run may empty a leaf's file
(`Leaf_Counter.c` 77) or remove or extend an aggregator's after the second run's process
for that directory ended well, or report a link behind the counts, and then neither
`SumsAgree` nor the other properties over two runs hold. `Path` is the least set that holds
a directory and what its members lie in, `Sorted` what `sort` makes of a votes.txt,
position by position; both are stated without recursion so that they can be proved about.

## Runs

| Run | Shows | Bounds |
|---|---|---|
| `poll_tree` | `PollTypeOK`, `SubtreeAhead`, `OneSubtree`, `LifecycleSpec` | root, two regions, a leaf on the third level (TestCase01 cut to one county), two added regions with a new or a taken name, under any parent |
| `vote_server` | the invariants and action properties below | root, region, county and one region added anywhere; two candidates; files with two ballots for one or one for each; two votes per candidate and leaf; root counts up to 6 |
| `vote_sessions` | the session properties, safety and liveness | three clients with one or two commands, one may be killed |
| `vote_counter_pool` | limit, waiting, `FilesOnceSpec` | four files in every listing order, three priorities and none, two threads at a time |
| `vote_aggregate` | `FilesExact`, `FilesGrow`, `WinnerRight`, `WinnerDeclared` | the assignment's example tree: three leaves on two levels, and an input file outside; four ballot files per leaf |
| `count_stale` | `CountsAlwaysCorrect` fails | as `vote_server` |
| `sessions_hang` | `WellFormedServed` fails with a blank line | two clients |
| `pool_hang` | `WinnerDeclared` fails | three files, one thread at a time |
| `totals_incomplete` | `TotalsComplete` fails | as `vote_aggregate` |
| `node_processes` | the properties of asn1 below | every tree of five regions in three listings, every set of up to four links between four regions, seven odd files; all three builds; up to two failing calls |
| `root_wrong` | `RootFound` fails | the trees of five regions |
| `vote_directories` | the properties of asn2 below | leaves on two levels, the blank line and two names, two runs from any of three directories, one process killed wherever it is, its orphans running on until the next run, links in two leaves or two in one directory |

Why the bounds are enough. Three levels and one added region give the recursion,
the caching and the parent/child disagreements a second level below the first; an
added region may become a second leaf, a third level, or a child of a leaf with
votes, and may take a used name in `poll_tree`. Two votes per candidate and leaf
make, remove and restore a lead, tie, and leave fewer votes than a file takes away.
`MaxCount` 6 lets `Return_Winner` repeat. `vote_server` uses a
VIEW without `reply`: no action reads it.

Properties of `vote_server`: votes in leaves are exact (`LeavesExact`); if no sum
was stored while votes below it could still change, stored sums are right, the
root's up to a common factor (`StoredSumsRight`), the announced winner leads now
and later (`WinnerStands`) and does not change (`WinnerStable`); an error reply
means nothing changed (`ErrorsChangeNothing`); the leaf's flags alone keep votes
out below a closed region (`NoVotesUnderClosed`). The condition `~early` is what
`count_stale` shows to be necessary.

Properties of `vote_sessions`: replies in step with requests (`RepliesInStep`),
each command executed once (`ExecutedOnce`), no send on a reset connection
(`NoBrokenPipe`), threads one at a time (`OneHandler`), the abstract sessions
(`SerialSpec`), and every client with a well-formed file gets through
(`WellFormedServed`).

The bounds of asn3. With four files and a limit of two the counter goes up and down
past the limit several times, and main and two threads can overlap in their updates.
The example tree has a directory with two children and two walks meeting again at
the root, which is all the sharing there is; the ballot files give a leaf one
candidate, two in either order, and no valid vote.

Properties of `vote_counter_pool`: the limit holds unless an update was lost
(`LimitUnlessRaced`); `main` waits in vain only after a lost update or signal
(`StuckOnlyAfterRace`); the files are taken and counted as `FilesOnce` says
(`FilesOnceSpec`), which also shows that the unusual double loop sorts.

Properties of `vote_aggregate`: at every moment each line of each file has exactly
the votes of the leaves that have passed, and a name that all of them gave votes
is there (`FilesExact`); no line disappears or falls (`FilesGrow`); the winner is
right when all leaves name the same candidates (`WinnerRight`), the case of every
test in the repository; every walk ends and a winner is declared
(`WinnerDeclared`).

Properties of `node_processes`: for files whose regions all hang together with
`Who_Won` the loop test refuses exactly those that are no tree, and the search for
the root ends (`LoopTestExact`; a cycle on its own elsewhere may be missed, and then
it does not end); the root is found in trees of three levels and in trees listed
children first (`RootRight`), which `root_wrong` shows to be the limit; without
failing calls an output file is exact from the moment it is written
(`OutputsExact`); whatever fails, no vote is in a file twice (`NoVoteTwice`), and the
program ends (`Ends`). Five regions allow four levels, two inner nodes side by side,
and every place of the root in the listing that matters; two failures let a process
copy fail again.

Properties of `vote_directories`, all of them for runs that do not overlap with orphans
of an earlier one: a file written by a process that ended well agrees with its sources
for the rest of the run, orphans of that run included (`SumsAgree`); if nothing failed, the
winner leads (`WinnerOfBallots`) and `Who_Won.txt` has a line for every link, one
line of counts and the winner (`CyclesReported`); an aggregator that fails leaves
no numbers (`FailedSaysNothing`); every run ends (`RunEnds`). The condition that
nothing failed is needed for the winner: a failed aggregator leaves an empty file,
its parent takes that for no votes, and the subtree is missing without a word; a leaf
killed before it starts leaves the file of the earlier run, which is counted again.
Two runs are what such leftovers need; the two levels put an aggregator below
another.

Fairness. `VoteSessions` states weak fairness for each client's program
text, for each thread and for `main`, the operating system's scheduling of
runnable processes and reliable delivery by TCP. A blocked step is disabled, so
weak fairness does not force it. `Die` has none. Only one thread ever contends for
the mutex, so weak fairness of `Lock` is enough. `VoteCounterPool` and
`VoteAggregate` state weak fairness for `main` and for each thread, the scheduling of
runnable threads; `WakeUp` has none, since no wake-up without a signal is promised.
Walks contend for `rwMutex`, but each takes it a bounded number of times, so it is
free for good for the last one and weak fairness is enough there too.
`VoteDirectories` states it for each directory's process and for `Vote_Counter`;
nothing is promised of `Kill` or of further runs. `NodeProcesses` has one running
process at a time, the last of the stack, and states it for the whole of `Next`: a
failing call is itself a step of that process and bounded, so nothing is forced
that the program would not do.

Deadlock is checked in `poll_tree` and in the `VoteServer` runs. It is not checked
in `VoteSessions`: after the last client is done the server waits in `accept`. Nor is
it in the asn1, asn2 and asn3 runs, where the program ends; that it does is what `Ends`,
`RunEnds` and `WinnerDeclared` say, and where it may not, `StuckOnlyAfterRace` says why.

## Proofs

`PollTreeProofs` proves, for every DAG file, every set of names and every bound:

* `PollInvariance`: `PollSpec => []PollInv`. `SubtreeAhead` alone is not inductive.
  That opening a region takes its children along needs: the flags and arrays have
  their types (`PollTypeOK`), no region is both open and closed (`OnePhase`, or
  opening a region could leave a child that refuses), and the regions of the
  file keep their names and parents (`DagStays`, or the recursion by name could miss a
  child; it also makes the lookup of a file's name find the file's region,
  whatever was added behind it). `PollInv` is their conjunction.
* `SweepFacts` states what the least set of the recursion contains; `DagCallee`
  that a child in the file is a callee of its parent. `OpenKeepsInv`,
  `CloseKeepsInv`, `AddKeepsInv` are the three actions.
* `PollTyping` and `PollsReachSubtree` follow.
* `PollsFollowLifecycle`: `PollSpec => LifecycleSpec`, the refinement, from the
  invariant and `StepAdvances`.
* `RequestsStayInSubtree`: `PollSpec => OneSubtree`. The regions below the start are
  a set the recursion cannot leave (`SweptBelow`) when names are distinct and
  parents come before their children (`ParentsBefore`). `Ancestry` and `Swept` are
  least sets and not recursive functions so that this needs no induction.

The only assumption is `DagAssumption`: the file's names are distinct, which the
assignment promises, and each region was created after the one above it, which
the loader guarantees.

`VoteServerProofs` carries this over to the whole server, for every set of candidates
and of vote files:

* `ServerKeepsPolls`: `Spec => PollSpec`, so `VoteServer` implements `PollTree` with the
  polls as they are; `ServerReachesSubtree` is `SubtreeAhead` for the server.
* `VotesStopAtClosing`: `Spec => NoVotesUnderClosed`. The handlers look at the
  leaf only (`VotesChangeInOpen`); that nothing above is closed then is the poll
  invariant along `Ancestry` (`NoneClosedAbove`).
* `ErrorsLeaveState`: `Spec => ErrorsChangeNothing`, action by action. An opening or
  closing that changes something is answered with success because a name leads to
  one region only (`OneMatch`).
* `LeavesCountExactly`: `Spec => []LeavesExact`, and `ServerTyping`. The list operations
  come first: whatever place `AddTokens`'s walk has reached, a token adds its number to
  the votes of its candidate, in an entry found ahead or a new one (`WalkedRight`);
  `Remove_Votes` takes the number from the FIRST entry of a name, and since it
  checks every name before it subtracts, no entry goes below zero (`SubtractRight`);
  the client sends each candidate once with its ballots (`LeafCounterRight`);
  `Merge` keeps names distinct (`MergeRight`). The invariant `ServerInv` joins
  `VotesTypeOK`, the shape of the tree (`TreeShape`: children are listed behind their parent),
  `Blank` (a place not in use holds nothing) and `LeavesExact`. A step either changes one leaf
  (`LeafKeepsInv`), stores sums (`SumKeepsInv`), or leaves lists alone (`QuietKeepsInv`).
* `StoredSumsStayRight`: `Spec => []StoredSumsRight`. The invariant is `SumsInv`: as long as
  no sum was stored early, below a region that is no leaf and has data all leaves are closed,
  it took no votes itself and lists each name once, and what it stored is what was cast
  below, a whole number of times for the root. `AggregatedSums` is the code's recursion, by
  induction over the regions from the last one: the votes below a region are its own and
  those below its children, which are disjoint (`TrueCountSteps`, `ChildrenApart`).
  `OnceMoreCounted` is the root's case: another `Return_Winner` adds the same sums again.
* `WinnerLeads` and `WinnerAsBefore`: `WinnerStands` and `WinnerStable`. The announced winner
  is the `Champion` of the root's list. It leads because that list is a multiple of the true
  counts (`ChampionLeads`), and stays the same, ties included, because another aggregation
  adds to the entries in place or behind them and changes no order (`ChampionStays`). Both
  have the hypothesis `InitSize > 1`: where the file has one region the root is itself a
  leaf, `Add_Votes` may have entered a name twice, and `Return_Winner` compares entries.

Its assumptions are `VoteAssumption`: candidates are distinct from the two
sentinels, vote files hold ballots for candidates and at least one, the bounds are numbers.

`VoteSessionsProofs` proves, for any clients, command files and killed clients:

* `SessionInvariance`: `Spec => []SessionInv`. `RepliesInStep` is not inductive: that a
  reply fits its line needs that the request did, and so on back to the line the
  client sent, so `InStep` says where the one message of a client is in each of its
  states. `ResetLate` says a connection is reset only when no request is left on it,
  and `Queued` that the backlog holds each client once, before it has a thread.
* `HandlersOneAtATime`, `RepliesFollowRequests` and `NeverSendsOnReset` follow.
* `SessionsAreSerial`: `Spec => SerialSpec`. `Connect`, `Accept`, `DispatchCode` and
  `Join` are the four abstract steps, the others stutter; that a command runs for the
  client being served is `OneHandler`.

* `CommandsExecutedOnce`: `Spec => []ExecutedOnce`, and `SessionTyping`. `CountInv` says, for
  each state of a client and its thread, how many of the commands up to the client's line
  have been executed; each line adds to the set of those before it (`DoneNext`).

Its assumption is `SessionAssumption`: `Nobody` is no client, killed clients are clients, and
the lines of a command file are known commands or something else.

`VoteCounterPoolProofs` proves, for every number of files, every priority and every
`num_threads`:

* `PoolInvariance`: `Spec => []PoolInv`. `LimitUnlessRaced` is not inductive: that
  `Create` keeps it needs that the counter is exact while no update was lost, the
  thread about to be created included (`Exact`), that it was within the limit when
  `main` left its loop (`Room`), and that the threads from the `i`-th on do not run
  yet (`NotYet`). `Full` says why `main` blocks. The threads at work are counted with
  the library's facts about adding to and removing from a finite set.
* `PoolKeepsLimit` and `PoolWaitsForReason` follow: the only ways to break the limit
  or to hang are the two races on `cur_threads` and the signal (`pool_hang` shows the latter).

* `SortQueueSorts`: the double loop sorts, and keeps every file. The inner loop
  visits every place, so it exchanges in both directions. After the pass for
  place `x` the places up to `x` are ascending (`SortPassRight`): the part
  before `x` lets the entry at `x` sink into its place, the part behind brings
  the largest entry seen up to `x`.
* `PoolFilesOnce`: `Spec => FilesOnceSpec`, and `PoolTyping`. `FilesInv` says that the first
  `currentGrab` files of the queue are out, each with one thread (`HandedOut`), a file is
  counted by the thread that has it (`CountedOnce`), the queue is in order once threads are
  there (`InOrder`), and all have ended when the winner is declared (`Joined`).

Its assumption is `PoolAssumption`: finitely many files and at least one, priorities
that are at most that of a file without one, at least one thread allowed.

`VoteAggregateProofs` proves, for every tree of directories, every set of leaves and ballot
files and every interleaving of the walks:

* `AggregateInvariance`: `Spec => []AggregateInv`. `WalksInv` is about the walks: one at a time
  is between lock and unlock (`Exclusive`), each is at a directory on its way (`OnTheWay`) with
  the counts of its leaf (`Carries`). `FilesExact` alone is not inductive, because a file is
  rewritten from what was read two steps before; `Fresh` says that what was read is still what
  the file holds. `WriteParentKeepsFiles` is the step that matters.
* `AggregateCountsExactly`, `AggregateTyping` and `AggregateFilesGrow` follow (`UpdatedKeeps`
  for the latter), and `AggregateFindsWinner`: `findwinner` takes a line no other one is above
  (`MostRight`), and where all leaves name the same candidates no candidate is without a line.

Its assumption is `AggregateAssumption`: finite sets, a tree (every directory but the root has
one above it, none is above itself, leaves have nothing below), sentinels that are no
candidates.

`VoteDirectoriesProofs` proves, for every tree of directories, every set of names, vote files
and links, any number of killed processes and of runs, each begun when no process of the
one before is left (the guard of `EndMain`):

* `DirectoriesInvariance`: `Spec => []DirectoriesInv`. `SumsAgree` is far from inductive, since
  a parent believes whatever file it finds. Three things are needed. `Nested`: a directory's
  process runs only while the one above waits for it, or after that one was killed, in
  which case nobody reads what it writes: a parent that is scanning, or waits for another
  child, or ended well, is through with children that have all ended. So nobody else writes
  what is being read, and an ended process stays as it ended for the rest of the run. `Says`: what a file
  holds at each place of its program; while `Aggregate_Votes` scans, its own file says
  nothing and its list is the sum of the files it is `Through` with. `FirstSaysAll`: the parent
  reads one line of the file, and that line says all the file says, except in Who_Won's file,
  where the reports about links come first and which no parent reads. Steps that add lines
  about links or winners keep all this because such lines hold no votes (`CycleKeeps`,
  `WinnerLine`).
* `DirectoriesAgree` (`SumsAgree`), `FailuresSayNothing` (`FailedSaysNothing`) and
  `DirectoriesTyping` follow. The leaf's case is `TallyRight`: sorting keeps how often each line
  occurs (`SortedRight`), and counting the sorted lines gives each name its number.
* `DirectoriesFindWinner`: `WinnerOfBallots`. The leaves inside a directory are those inside its
  subdirectories, which have nothing in common (`LeavesInside`, `SubdirsApart`), so where all went
  well the list at the top holds all ballots (`BallotsUp`, `BallotsCounted`, by induction up the
  tree); `FirstMost` takes the largest entry, and each name has one (`Distinct`).
* `LinksToldOnce`: `CyclesReported`. Many processes append to the file of `Who_Won`, which is
  empty when the first of them begins (`NothingBegun`) and, as long as none failed or was
  killed (`NoneGone`), is written to by the one at the top last (`TopWaits`). `Reported` says
  for each place of that one what the file consists of, counted with `Times`: one message for
  each link that some process has come across (`Told`). It says so only under `NoneGone`,
  which no step restores within a run (`NoneBefore`): an orphan may append a message behind
  the counts, and a process that a second link ends has not told of that one.

Its assumption is `DirectoryAssumption`: finitely many directories, none of which lies in
itself, links that lead to directories above, vote files in leaves.

`FoldLemmas` holds what several of these need about the folds of the community
modules. The provers cannot instantiate an induction theorem that takes a predicate, so
induction is stated for sets, of numbers (`UpTo`) and of finite sets (`SubsetByElement`), both
from the minimal element of a well-founded relation; a recursive function is shown to have
a solution before it is unfolded (`SeqRecursion`, `SubsetRecursion`). On these rest the facts
about `SumFunctionOnSet` (`SumAny`: any element may be taken out; `SumUnion`, `SumFamily`,
`SumSame`) and about `Min` and `Max`. Each fold of a model has a lemma named `...Stages` that
unfolds it, one element at a time; the rest is induction by `UpTo`.

`NodeProcessesProofs` proves, for every input file, every build and any number of failing
calls:

* `NodeInvariance`: `Spec => []NodeInv`. That no vote is in a file twice needs a way back
  to the loop test, which knows only names. `Linked`: a link has a visit of its own, the name
  that its line mentioned, so while the test finds nothing no node is the child of two, or
  twice of one (`OneFather`); `Tested`: past the test the whole file was read. `Counted`: no
  cycle is below a node that `findRoot` is through with (`Acyclic`), the later root among
  them, since `CountNode` is taken only where the recursion ends. So the nodes below two
  children of a node have nothing in common (`KidsApart`), and a sum over the children holds
  each leaf once at most (`SumOfChildrenRight`), whatever files are missing and whoever
  wrote them. `ProcsTyped` has every call inside `Within(root)`.
* `NothingTwice` is `NoVoteTwice`, from these, and `NodeTyping` is `TypeOK`.
* `OutputsComplete` (`OutputsExact`): as long as nothing failed, `StackedOn` says which
  child each process waits for (`WaitsFor`) and that the children its innermost loop is past
  have their files (`InLoop`); every file that exists is `Complete`, with all leaves below its
  node and all files below it (`Exact`). A node's program starts when its loop is past the
  last child, hence over complete files (`RunningRight`).
* `LoopTest` (`LoopTestExact`): `Parsed` says after every line that the names seen are those
  mentioned in the lines so far (`Seen`), that the test finds something just if a name has two
  mentions or `Who_Won` has one (`Twice`), and that each link is one that a line mentions. For
  an `Attached` file that is the same as being no tree (`TreeExact`). A cycle that the test
  missed would be a set of regions each of which has its only mention inside the set
  (`CycleClosed`), so that `Who_Won` does not lead there (`NoCycle`).
* `RootIsWhoWon` (`RootRight`): where the build keeps the number of nodes every mention is a
  link as well (`KeptAll`), so a tree in the file is a tree of the nodes (`LinksOfFile`,
  `ShapeRight`). `Weights(f)`: each node weighs what its children weigh and 1 for each, so what
  lies below a node weighs less (`WeightsBelow`). `Honest(f)`: every count made is the weight,
  and `root` so far has the most. A node that is counted before its turn has its
  children's counts added once more; in these two shapes it has only leaves below
  (`CountedBefore`), and nothing is added (`CountKeepsHonest`). Last, all lies below the node
  `Who_Won`, which has a child, so it weighs most.

`Within` is the least set that links do not leave, not a recursive function, so what
holds below a node is shown by naming such a set (`WithinLeast`); that the recursive
`NumOfDescendant` has a solution rests on `Acyclic` (`CountExists`, `Lowest`). The assumptions
are `NodeTreeAssumption` (the types of the constants) and `FailuresAssumption`
(`MaxFailures` is a number).

Model-checked only: all liveness (`WellFormedServed`, `WinnerDeclared`, `Ends`, `RunEnds`),
since fairness and `ENABLED` are beyond this prover.

## What the code does not keep

Five runs show disagreements with what the repository says (`PROJECT.json`,
findings). In asn4: stale counts after an early `Count_Votes`, and a client with a
blank line in its file, such as `TestCase_EC/input.req`, that never finishes and
keeps all others out. In asn3: a signal that falls between test and wait leaves
`main` waiting for ever; a candidate that the first walk through a directory did not
bring is never added to its file, where the assignment's own example adds one. In
asn1: on a tree of four levels the wrong node may be taken for the root.

Two more follow from the same causes and are the reason for a condition in a
property. A sum stored early also decides the winner, hence `~early` in
`WinnerStands`; an update of `cur_threads` can be lost, and then more threads run
than `num_threads` allows, hence `raced` in `LimitUnlessRaced`.

## Not modelled, and plan

Left out: message text and padding; vote files without a ballot; partial
writes; the number of connections (`pthread_t test[100]`); start-up on malformed
files; 32-bit overflow of counts, which needs more `Return_Winner` calls than a
session makes. Names and parents are as a well-formed DAG file leaves them.

In asn3: `log.txt`, the places of the thread array, decryption as text conversion,
option checks. Names longer than one letter are in the model and do not count, as
in the code.

In asn1: blank lines in the input file, the sizes `MAX_NODES` and `children[10]`,
what happens behind node -1 if no root is found (`lost`). In asn2: failing calls of
fork, exec and `sort`, links that lead nowhere above, which make the code write an
indeterminate text, a kill of `Vote_Counter` itself, and a run that begins while orphans of
an earlier one still run (see `EndMain` above).

Next, in this order:

1. `DagLoader` (`createDAG` of asn4 line by line, with its line counter and exits).
2. `Bank` (rec9) and `Dining` (rec11), with proofs of conservation of money and of mutual
   exclusion of neighbours for any number of threads. A philosopher only tries the second
   fork (`pthread_mutex_trylock`) and puts the first one down, so no deadlock is at stake there.
