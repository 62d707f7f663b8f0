--------------------------- MODULE VoteCounterPool ---------------------------
(***************************************************************************)
(* The threads of CSCI4061_asn3/votecounter.c: main queues the input       *)
(* files by priority, starts one thread per file, keeps the number of      *)
(* running threads down with a counter and a condition variable, joins all *)
(* threads and declares the winner.  What a thread counts is the subject   *)
(* of VoteAggregate.                                                       *)
(*                                                                         *)
(* The counter cur_threads is raised by main, lowered by the threads, and  *)
(* only main holds cq->mutex when it touches it: the mutex excludes        *)
(* nobody and is no variable here.  ++ and -- are a load and a store, as   *)
(* the build makes them, and what another thread stores in between is      *)
(* lost.                                                                   *)
(***************************************************************************)
EXTENDS Integers, Sequences, SequencesExt

CONSTANTS Files,       \* the files of the input directory
          Priority,    \* Priority[f]: the number behind _p_ in its name, or NoPriority
          NoPriority,  \* 2147483647, larger than any number given
          NumThreads   \* num_threads: the threads that may run at a time

NoFile == "no file"

ASSUME PoolAssumption ==
  /\ Files # {} /\ NoFile \notin Files
  /\ IsFiniteSet(Files)
  /\ Priority \in [Files -> Int]
  /\ NoPriority \in Int
  /\ \A f \in Files : Priority[f] <= NoPriority
  /\ NumThreads \in Nat \ {0}

VARIABLES queue,    \* DSQ: the files in the order they are handed out
          grab,     \* currentGrab: how many were handed out
          cur,      \* cq->cur_threads
          main,     \* where decryptAll is
          i,        \* its loop counter, from 1
          seen,     \* the value of cur_threads that main has loaded
          thread,   \* thread[t]: where the t-th thread is
          file,     \* file[t]: the file it was handed
          loaded,   \* the value of cur_threads that it has loaded
          counted,  \* history: how often each file was counted
          raced,    \* history: an update of cur_threads was lost
          missed    \* history: a signal came after main's test, before its wait

threadVars == <<thread, file, loaded>>
mainVars   == <<main, i, seen>>
history    == <<counted, raced, missed>>
vars == <<queue, grab, cur, mainVars, threadVars, history>>

Size == Cardinality(Files)

Thread == 1..Size

\* The orders in which readdir can list the files.
Listings == {q \in [Thread -> Files] : \A x, y \in Thread : q[x] = q[y] => x = y}

-----------------------------------------------------------------------------
Swap(q, x, y) == [q EXCEPT ![x] = q[y], ![y] = q[x]]

\* The inner loop of sortQueue goes over ALL entries y, those before x too.
Exchange(q, x, y) == IF Priority[q[x]] < Priority[q[y]] THEN Swap(q, x, y) ELSE q

SortPass(q, x) == FoldLeftDomain(LAMBDA acc, y : Exchange(acc, x, y), q, q)

SortQueue(q) == FoldLeftDomain(SortPass, q, q)

-----------------------------------------------------------------------------
Init ==
  /\ queue \in Listings
  /\ grab = 0
  /\ cur = 0
  /\ main = "fill"
  /\ i = 1
  /\ seen = 0
  /\ thread = [t \in Thread |-> "none"]
  /\ file = [t \in Thread |-> NoFile]
  /\ loaded = [t \in Thread |-> 0]
  /\ counted = [f \in Files |-> 0]
  /\ raced = FALSE
  /\ missed = FALSE

\* addToQueue for every file of the directory, then sortQueue.
FillQueue ==
  /\ main = "fill"
  /\ queue' = SortQueue(queue)
  /\ main' = "load"
  /\ UNCHANGED <<grab, cur, i, seen, threadVars, history>>

-----------------------------------------------------------------------------
\* The loop of main that starts the threads.

LoadForMore ==
  /\ main = "load"
  /\ i <= Size
  /\ seen' = cur
  /\ main' = "store"
  /\ UNCHANGED <<queue, grab, cur, i, threadVars, history>>

StoreMore ==
  /\ main = "store"
  /\ cur' = seen + 1
  /\ raced' = (raced \/ cur # seen)
  /\ main' = "test"
  /\ UNCHANGED <<queue, grab, i, seen, threadVars, counted, missed>>

\* Mutant of TestLimit: the test lets one thread too many through.
TestLimitOff ==
  /\ main = "test"
  /\ main' = IF cur > NumThreads + 1 THEN "block" ELSE "create"
  /\ UNCHANGED <<queue, grab, cur, i, seen, threadVars, history>>

TestLimit ==
  /\ main = "test"
  /\ main' = IF cur > NumThreads THEN "block" ELSE "create"
  /\ UNCHANGED <<queue, grab, cur, i, seen, threadVars, history>>

\* A signal that comes before this step finds nobody waiting.
Wait ==
  /\ main = "block"
  /\ main' = "wait"
  /\ UNCHANGED <<queue, grab, cur, i, seen, threadVars, history>>

\* pthread_cond_wait may return without a signal; the loop tests again.
WakeUp ==
  /\ main = "wait"
  /\ main' = "test"
  /\ UNCHANGED <<queue, grab, cur, i, seen, threadVars, history>>

Create ==
  /\ main = "create"
  /\ thread' = [thread EXCEPT ![i] = "grab"]
  /\ i' = i + 1
  /\ main' = "load"
  /\ UNCHANGED <<queue, grab, cur, seen, file, loaded, history>>

\* The loop is done: from now on i counts the threads joined.
StartJoining ==
  /\ main = "load"
  /\ i > Size
  /\ i' = 1
  /\ main' = "join"
  /\ UNCHANGED <<queue, grab, cur, seen, threadVars, history>>

\* Mutant of Join: main does not wait for the thread.
JoinNobody ==
  /\ main = "join"
  /\ i <= Size
  /\ i' = i + 1
  /\ UNCHANGED <<queue, grab, cur, main, seen, threadVars, history>>

Join ==
  /\ main = "join"
  /\ i <= Size
  /\ thread[i] = "exited"
  /\ i' = i + 1
  /\ UNCHANGED <<queue, grab, cur, main, seen, threadVars, history>>

\* decryptAll returns and main calls findwinner.
FindWinner ==
  /\ main = "join"
  /\ i > Size
  /\ main' = "done"
  /\ UNCHANGED <<queue, grab, cur, i, seen, threadVars, history>>

-----------------------------------------------------------------------------
\* A thread.

\* Mutant of GetNameFromQueue: currentGrab is not raised.
GetFirstName(t) ==
  /\ thread[t] = "grab"
  /\ file' = [file EXCEPT ![t] = queue[grab + 1]]
  /\ thread' = [thread EXCEPT ![t] = "count"]
  /\ UNCHANGED <<queue, grab, cur, mainVars, loaded, history>>

\* Under queueMutex.
GetNameFromQueue(t) ==
  /\ thread[t] = "grab"
  /\ file' = [file EXCEPT ![t] = queue[grab + 1]]
  /\ grab' = grab + 1
  /\ thread' = [thread EXCEPT ![t] = "count"]
  /\ UNCHANGED <<queue, cur, mainVars, loaded, history>>

\* readInput and aggregate.
CountFile(t) ==
  /\ thread[t] = "count"
  /\ counted' = [counted EXCEPT ![file[t]] = @ + 1]
  /\ thread' = [thread EXCEPT ![t] = "load"]
  /\ UNCHANGED <<queue, grab, cur, mainVars, file, loaded, raced, missed>>

LoadForLess(t) ==
  /\ thread[t] = "load"
  /\ loaded' = [loaded EXCEPT ![t] = cur]
  /\ thread' = [thread EXCEPT ![t] = "store"]
  /\ UNCHANGED <<queue, grab, cur, mainVars, file, history>>

\* Mutant of StoreLess: no signal follows.
StoreLessSilently(t) ==
  /\ thread[t] = "store"
  /\ cur' = loaded[t] - 1
  /\ raced' = (raced \/ cur # loaded[t])
  /\ thread' = [thread EXCEPT ![t] = "exited"]
  /\ UNCHANGED <<queue, grab, mainVars, file, loaded, counted, missed>>

StoreLess(t) ==
  /\ thread[t] = "store"
  /\ cur' = loaded[t] - 1
  /\ raced' = (raced \/ cur # loaded[t])
  /\ thread' = [thread EXCEPT ![t] = "signal"]
  /\ UNCHANGED <<queue, grab, mainVars, file, loaded, counted, missed>>

\* Without the mutex: main may be anywhere.
Signal(t) ==
  /\ thread[t] = "signal"
  /\ main' = IF main = "wait" THEN "test" ELSE main
  /\ missed' = (missed \/ main = "block")
  /\ thread' = [thread EXCEPT ![t] = "exited"]
  /\ UNCHANGED <<queue, grab, cur, i, seen, file, loaded, counted, raced>>

-----------------------------------------------------------------------------
MainStep ==
  \/ FillQueue \/ LoadForMore \/ StoreMore \/ TestLimit \/ Wait \/ Create
  \/ StartJoining \/ Join \/ FindWinner

ThreadStep(t) ==
  \/ GetNameFromQueue(t) \/ CountFile(t) \/ LoadForLess(t) \/ StoreLess(t)
  \/ Signal(t)

Next == MainStep \/ WakeUp \/ \E t \in Thread : ThreadStep(t)

Spec == Init /\ [][Next]_vars

\* main and every thread run; no wait is promised to end without a signal.
FairSpec == Spec /\ WF_vars(MainStep) /\ \A t \in Thread : WF_vars(ThreadStep(t))

-----------------------------------------------------------------------------
TypeOK ==
  /\ queue \in Listings
  /\ grab \in 0..Size
  /\ cur \in Int
  /\ main \in {"fill", "load", "store", "test", "block", "wait", "create", "join",
               "done"}
  /\ i \in 1..(Size + 1)
  /\ seen \in Int
  /\ thread \in [Thread ->
                  {"none", "grab", "count", "load", "store", "signal", "exited"}]
  /\ file \in [Thread -> Files \cup {NoFile}]
  /\ loaded \in [Thread -> Int]
  /\ counted \in [Files -> 0..1]
  /\ raced \in BOOLEAN
  /\ missed \in BOOLEAN

\* The threads that work, as cur_threads is meant to count them.
Working == {t \in Thread : thread[t] \in {"grab", "count", "load", "store"}}

(***************************************************************************)
(* No more than num_threads threads work at a time as long as no update of *)
(* cur_threads was lost: the waiting itself is right, spurious wake-ups    *)
(* and late signals included (575-577, 340).                               *)
(***************************************************************************)
LimitUnlessRaced == ~raced => Cardinality(Working) <= NumThreads

(***************************************************************************)
(* main is left waiting with no thread to wake it only if an update of     *)
(* cur_threads was lost or a signal came between its test and its wait,    *)
(* where the mutex that the threads do not take would have kept it out.    *)
(***************************************************************************)
StuckOnlyAfterRace ==
  main = "wait" /\ Working = {} /\ (\A t \in Thread : thread[t] # "signal")
    => raced \/ missed

(***************************************************************************)
(* The files are counted as FilesOnce says, although threads take them in  *)
(* an order of their own: each once, none before one of higher priority is *)
(* handed out, and all before the winner is declared (joins, 585-587).     *)
(***************************************************************************)
Once == INSTANCE FilesOnce WITH
  Before   <- [f \in Files |-> {g \in Files : Priority[g] < Priority[f]}],
  started  <- {file[t] : t \in Thread} \ {NoFile},
  counted  <- {f \in Files : counted[f] > 0},
  declared <- main = "done"

FilesOnceSpec == Once!Spec

(***************************************************************************)
(* A claim of the assignment that the code does not keep.                  *)
(***************************************************************************)
\* "Wait for all threads to finish before declare the winner and exiting the
\* program" (PA3-Updated.pdf, page 3): in the end it does both.
WinnerDeclared == <>(main = "done")
=============================================================================
