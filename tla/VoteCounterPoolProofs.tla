------------------------ MODULE VoteCounterPoolProofs ------------------------
(***************************************************************************)
(* Proofs about VoteCounterPool, for every number of files and threads and *)
(* every priority.  While no update of cur_threads was lost the counter    *)
(* says exactly how many threads work, the one that main is about to       *)
(* create included (Exact).  From that follows the limit, and, while no    *)
(* signal was missed either, that main waits for a reason (Full).          *)
(***************************************************************************)
EXTENDS VoteCounterPool, FoldLemmas

\* The types of what the counter depends on.
CounterTyped ==
  /\ cur \in Int
  /\ seen \in Int
  /\ main \in {"fill", "load", "store", "test", "block", "wait", "create", "join",
               "done"}
  /\ thread \in [Thread ->
                  {"none", "grab", "count", "load", "store", "signal", "exited"}]
  /\ loaded \in [Thread -> Int]
  /\ raced \in BOOLEAN
  /\ missed \in BOOLEAN

Starting == {"fill", "load", "store", "test", "block", "wait", "create"}

\* main has raised the counter for a thread that it has not created yet.
Coming == IF main \in {"test", "block", "wait", "create"} THEN 1 ELSE 0

\* The threads from the i-th on are not created while main starts threads.
NotYet ==
  main \in Starting =>
    i \in Nat /\ i > 0 /\ \A t \in Thread : t >= i => thread[t] = "none"

AnotherFile == main \in {"store", "test", "block", "wait", "create"} => i <= Size

Exact == ~raced => cur = Cardinality(Working) + Coming

Room == ~raced /\ main = "create" => cur <= NumThreads

\* A thread that will signal is on its way, or the limit is still reached.
Full ==
  ~raced /\ ~missed /\ main \in {"block", "wait"} =>
    cur > NumThreads \/ \E t \in Thread : thread[t] = "signal"

PoolInv ==
  /\ CounterTyped
  /\ NotYet
  /\ AnotherFile
  /\ Exact
  /\ Room
  /\ Full
  /\ LimitUnlessRaced

-----------------------------------------------------------------------------
LEMMA SizeIsNat == Size \in Nat
  BY PoolAssumption, FS_CardinalityType DEF Size

\* The threads at work are finitely many.
LEMMA WorkingFinite == IsFiniteSet(Working) /\ Cardinality(Working) \in Nat
  <1>1. IsFiniteSet(1..Size)
    BY SizeIsNat, FS_Interval
  <1>2. Working \subseteq 1..Size
    BY DEF Working, Thread
  <1>3. IsFiniteSet(Working)
    BY <1>1, <1>2, FS_Subset
  <1> QED BY <1>3, FS_CardinalityType

\* The invariant holds at the start: nobody works and nobody is counted.
LEMMA PoolStart == ASSUME Init PROVE PoolInv
  <1>1. Working = {}
    BY DEF Init, Working
  <1>2. Cardinality(Working) = 0
    BY <1>1, FS_EmptySet
  <1>3. CounterTyped /\ NotYet /\ AnotherFile
    <2>1. CounterTyped
      <3>1. raced \in BOOLEAN /\ missed \in BOOLEAN
        BY DEF Init
      <3>2. cur \in Int /\ seen \in Int /\ main = "fill"
        BY DEF Init
      <3>3. thread = [t \in Thread |-> "none"] /\ loaded = [t \in Thread |-> 0]
        BY DEF Init
      <3> QED BY <3>1, <3>2, <3>3 DEF CounterTyped
    <2>2. NotYet
      BY DEF Init, NotYet
    <2>3. AnotherFile
      BY DEF Init, AnotherFile
    <2> QED BY <2>1, <2>2, <2>3
  <1>4. Exact /\ Room /\ Full /\ LimitUnlessRaced
    BY <1>2, PoolAssumption DEF Init, Exact, Coming, Room, Full, LimitUnlessRaced
  <1> QED BY <1>3, <1>4 DEF PoolInv

-----------------------------------------------------------------------------
\* The actions of main.  Only Create changes what the threads do.
LEMMA MainKeepsInv ==
  ASSUME PoolInv, MainStep \/ WakeUp
  PROVE  PoolInv'
  <1> USE SizeIsNat, WorkingFinite, PoolAssumption
  <1> USE DEF PoolInv, CounterTyped, NotYet, AnotherFile, Starting, Exact, Coming, Room,
              Full, LimitUnlessRaced
  <1>a. ASSUME thread' = thread PROVE Working' = Working
    BY <1>a DEF Working
  <1>1. CASE FillQueue
    BY <1>1, <1>a DEF FillQueue, threadVars, history
  <1>2. CASE LoadForMore
    BY <1>2, <1>a DEF LoadForMore, threadVars, history
  <1>3. CASE StoreMore
    <2>1. ~raced' => ~raced /\ cur' = cur + 1
      BY <1>3 DEF StoreMore
    <2>2. Exact' /\ Room' /\ LimitUnlessRaced'
      BY <1>3, <1>a, <2>1 DEF StoreMore, threadVars
    <2>3. CounterTyped' /\ NotYet' /\ AnotherFile' /\ Full'
      BY <1>3 DEF StoreMore, threadVars
    <2> QED BY <2>2, <2>3
  <1>4. CASE TestLimit
    BY <1>4, <1>a DEF TestLimit, threadVars, history
  <1>5. CASE Wait
    BY <1>5, <1>a DEF Wait, threadVars, history
  <1>6. CASE WakeUp
    BY <1>6, <1>a DEF WakeUp, threadVars, history
  <1>7. CASE Create
    <2>1. i \in Thread /\ thread[i] = "none" /\ i \notin Working
      BY <1>7 DEF Create, Thread, Working
    <2>2. Working' = Working \cup {i}
      BY <1>7, <2>1 DEF Create, Working
    <2>3. Cardinality(Working') = Cardinality(Working) + 1
      BY <2>1, <2>2, FS_AddElement
    <2>4. CounterTyped' /\ AnotherFile'
      BY <1>7 DEF Create, history
    <2>5. NotYet'
      BY <1>7, <2>1 DEF Create, Thread
    <2>6. Exact' /\ Room' /\ Full' /\ LimitUnlessRaced'
      BY <1>7, <2>3 DEF Create, history
    <2> QED BY <2>4, <2>5, <2>6
  <1>8. CASE StartJoining
    BY <1>8, <1>a DEF StartJoining, threadVars, history
  <1>9. CASE Join
    BY <1>9, <1>a DEF Join, threadVars, history
  <1>10. CASE FindWinner
    BY <1>10, <1>a DEF FindWinner, threadVars, history
  <1> QED BY <1>1, <1>2, <1>3, <1>4, <1>5, <1>6, <1>7, <1>8, <1>9, <1>10 DEF MainStep

\* The actions of a thread.  It stops being counted in StoreLess.
LEMMA ThreadKeepsInv ==
  ASSUME PoolInv, NEW t \in Thread, ThreadStep(t)
  PROVE  PoolInv'
  <1> USE SizeIsNat, WorkingFinite, PoolAssumption
  <1> USE DEF PoolInv, CounterTyped, NotYet, AnotherFile, Starting, Exact, Coming, Room,
              Full, LimitUnlessRaced
  <1>1. CASE GetNameFromQueue(t)
    <2>1. Working' = Working
      BY <1>1 DEF GetNameFromQueue, Working
    <2> QED BY <1>1, <2>1 DEF GetNameFromQueue, mainVars, history
  <1>2. CASE CountFile(t)
    <2>1. Working' = Working
      BY <1>2 DEF CountFile, Working
    <2> QED BY <1>2, <2>1 DEF CountFile, mainVars
  <1>3. CASE LoadForLess(t)
    <2>1. Working' = Working
      BY <1>3 DEF LoadForLess, Working
    <2> QED BY <1>3, <2>1 DEF LoadForLess, mainVars, history
  <1>4. CASE StoreLess(t)
    <2>1. t \in Working
      BY <1>4 DEF StoreLess, Working
    <2>2. Working' = Working \ {t}
      BY <1>4 DEF StoreLess, Working
    <2>3. Cardinality(Working') = Cardinality(Working) - 1
      BY <2>1, <2>2, FS_RemoveElement
    <2>4. CounterTyped' /\ NotYet' /\ AnotherFile'
      BY <1>4 DEF StoreLess, mainVars
    <2>5. thread'[t] = "signal"
      BY <1>4 DEF StoreLess
    <2>6. ~raced' => ~raced /\ cur' = cur - 1
      BY <1>4 DEF StoreLess
    <2>7. Full'
      BY <1>4, <2>5
    <2>8. Exact' /\ Room' /\ LimitUnlessRaced'
      BY <1>4, <2>3, <2>6 DEF StoreLess, mainVars
    <2> QED BY <2>4, <2>7, <2>8
  <1>5. CASE Signal(t)
    <2>1. Working' = Working
      BY <1>5 DEF Signal, Working
    <2>2. CounterTyped' /\ NotYet' /\ AnotherFile'
      BY <1>5 DEF Signal
    <2>3. Exact' /\ Room' /\ LimitUnlessRaced'
      BY <1>5, <2>1 DEF Signal
    <2>4. Full'
      BY <1>5 DEF Signal
    <2> QED BY <2>2, <2>3, <2>4
  <1> QED BY <1>1, <1>2, <1>3, <1>4, <1>5 DEF ThreadStep

-----------------------------------------------------------------------------
\* The invariant holds in every state: in particular the counter is exact as long as
\* no update of it was lost.
THEOREM PoolInvariance == Spec => []PoolInv
  <1>1. Init => PoolInv
    BY PoolStart
  <1>2. PoolInv /\ [Next]_vars => PoolInv'
    <2> SUFFICES ASSUME PoolInv, [Next]_vars PROVE PoolInv'
      OBVIOUS
    <2>1. CASE MainStep \/ WakeUp
      BY <2>1, MainKeepsInv
    <2>2. CASE \E t \in Thread : ThreadStep(t)
      BY <2>2, ThreadKeepsInv
    <2>3. CASE UNCHANGED vars
      <3>1. Working' = Working
        BY <2>3 DEF vars, threadVars, Working
      <3> QED BY <2>3, <3>1 DEF vars, threadVars, mainVars, history, PoolInv, CounterTyped,
                 NotYet, AnotherFile, Exact, Coming, Room, Full, LimitUnlessRaced
    <2> QED BY <2>1, <2>2, <2>3 DEF Next
  <1> QED BY <1>1, <1>2, PTL DEF Spec

\* The limit on the threads at work holds until an update of cur_threads is lost,
\* whatever num_threads is (votecounter.c 570-588, 340).
THEOREM PoolKeepsLimit == Spec => []LimitUnlessRaced
  <1>1. PoolInv => LimitUnlessRaced
    BY DEF PoolInv
  <1> QED BY <1>1, PoolInvariance, PTL

\* main is never left waiting alone unless an update or a signal was lost
\* (votecounter.c 576-577, 340-342).
THEOREM PoolWaitsForReason == Spec => []StuckOnlyAfterRace
  <1>1. PoolInv => StuckOnlyAfterRace
    <2> SUFFICES ASSUME PoolInv, main = "wait", Working = {}, ~raced, ~missed,
                        \A t \in Thread : thread[t] # "signal"
                 PROVE  FALSE
      BY DEF StuckOnlyAfterRace, PoolInv, CounterTyped
    <2>1. cur = 1
      BY FS_EmptySet DEF PoolInv, Exact, Coming
    <2>2. cur > NumThreads
      BY DEF PoolInv, Full
    <2> QED BY <2>1, <2>2, PoolAssumption
  <1> QED BY <1>1, PoolInvariance, PTL
-----------------------------------------------------------------------------
\* A queue in the order in which its files are to be handed out.
Ascending(q) == \A x, y \in Thread : x <= y => Priority[q[x]] <= Priority[q[y]]

Holding == {t \in Thread : file[t] # NoFile}

Started == {file[t] : t \in Holding}

\* The first grab files of the queue have been handed out, each to one thread.
HandedOut ==
  /\ \A t \in Thread : file[t] = NoFile <=> thread[t] \in {"none", "grab"}
  /\ \A t, u \in Holding : file[t] = file[u] => t = u
  /\ grab = Cardinality(Holding)
  /\ Started = {queue[j] : j \in 1 .. grab}

\* A file was counted by the thread that has it.
CountedOnce ==
  \A f \in Files :
    counted[f] = IF \E t \in Thread :
                      file[t] = f /\ thread[t] \in {"load", "store", "signal", "exited"}
                 THEN 1 ELSE 0

\* The queue is filled before any thread is there, and in order from then on.
InOrder ==
  IF main = "fill" THEN \A t \in Thread : thread[t] = "none" ELSE Ascending(queue)

\* main has joined the threads before the i-th.
Joined ==
  /\ main = "join" => \A t \in Thread : t < i => thread[t] = "exited"
  /\ main = "done" => \A t \in Thread : thread[t] = "exited"

FilesInv ==
  /\ TypeOK
  /\ HandedOut
  /\ CountedOnce
  /\ InOrder
  /\ Joined
-----------------------------------------------------------------------------
(***************************************************************************)
(* sortQueue.                                                              *)
(***************************************************************************)
\* The listings that one pass goes through, one entry after the other.
LEMMA PassStages ==
  ASSUME NEW q \in Listings, NEW x \in Thread
  PROVE  \E h : /\ h[0] = q
                /\ \A k \in 1 .. Size : h[k] = Exchange(h[k - 1], x, k)
                /\ SortPass(q, x) = h[Size]
  <1> DEFINE D == 1 .. Size
             V == [D -> Files]
             g == [p \in D \X V |-> Exchange(p[2], x, p[1])]
             Iter(f) == [s \in SUBSET D |-> IF s = {} THEN q
                                           ELSE Exchange(f[s \ {Max(s)}], x, Max(s))]
             chosen == CHOOSE f : f = Iter(f)
             h == [k \in 0 .. Size |-> chosen[1 .. k]]
  <1>1. Size \in Nat /\ DOMAIN q = D /\ q \in V /\ x \in D
    BY SizeIsNat DEF Listings, Thread
  <1>2. g \in [D \X V -> V]
    <2>1. ASSUME NEW p \in D \X V PROVE Exchange(p[2], x, p[1]) \in V
      <3>1. p[1] \in D /\ p[2] \in V
        OBVIOUS
      <3> HIDE DEF D
      <3> QED BY <1>1, <3>1 DEF Exchange, Swap
    <2> HIDE DEF D, V
    <2> QED BY <2>1
  <1>3. PICK f \in [SUBSET D -> V] : SeqSolves(f, Size, q, g)
    <2> HIDE DEF g, V
    <2> QED BY <1>1, <1>2, SeqRecursion
  <1>4. ASSUME NEW s \in SUBSET D
        PROVE  f[s] = IF s = {} THEN q ELSE Exchange(f[s \ {Max(s)}], x, Max(s))
    <2> HIDE DEF V
    <2>1. CASE s = {}
      BY <1>3, <2>1 DEF SeqSolves
    <2>2. CASE s # {}
      <3>1. Max(s) \in D
        BY <1>1, <2>2, MaxInside
      <3>2. <<Max(s), f[s \ {Max(s)}]>> \in D \X V
        BY <1>3, <3>1
      <3>3. g[<<Max(s), f[s \ {Max(s)}]>>] = Exchange(f[s \ {Max(s)}], x, Max(s))
        BY <3>2
      <3> HIDE DEF g
      <3> QED BY <1>3, <2>2, <3>3 DEF SeqSolves
    <2> QED BY <2>1, <2>2
  <1>5. f = Iter(f)
    <2> HIDE DEF D, g, V
    <2> QED BY <1>3, <1>4
  <1>6. chosen = Iter(chosen)
    <2> HIDE DEF Iter
    <2> QED BY <1>5
  <1>7. SortPass(q, x) = chosen[D]
    <2> DEFINE id == [i2 \in DOMAIN q |-> i2]
    <2>1. SortPass(q, x) =
            (CHOOSE f2 : f2 = [s \in SUBSET DOMAIN id |->
                IF s = {} THEN q
                ELSE Exchange(f2[s \ {Max(s)}], x, id[Max(s)])])[DOMAIN id]
      BY DEF SortPass, FoldLeftDomain, FoldLeft, MapThenFoldSet
    <2>2. DOMAIN id = D
      BY <1>1
    <2>3. ASSUME NEW f2
          PROVE  [s \in SUBSET DOMAIN id |->
                    IF s = {} THEN q ELSE Exchange(f2[s \ {Max(s)}], x, id[Max(s)])]
                   = Iter(f2)
      <3>1. ASSUME NEW s \in SUBSET D, s # {} PROVE id[Max(s)] = Max(s)
        <4>1. Max(s) \in D
          BY <1>1, <3>1, MaxInside
        <4> QED BY <1>1, <4>1
      <3> HIDE DEF id, D
      <3> QED BY <2>2, <3>1
    <2> HIDE DEF Iter, id
    <2> QED BY <2>1, <2>2, <2>3
  <1>8. h[0] = q
    <2>1. 1 .. 0 = {} /\ {} \in SUBSET D
      OBVIOUS
    <2>2. chosen[{}] = q
      BY <1>6, <2>1
    <2> QED BY <1>1, <2>1, <2>2
  <1>9. ASSUME NEW k \in 1 .. Size PROVE h[k] = Exchange(h[k - 1], x, k)
    <2>1. 1 .. k \in SUBSET D /\ 1 .. k # {} /\ k - 1 \in 0 .. Size /\ k \in 0 .. Size
      BY <1>1
    <2>2. Max(1 .. k) = k /\ (1 .. k) \ {Max(1 .. k)} = 1 .. k - 1
      BY <1>1, MaxOfInterval
    <2>3. chosen[1 .. k] = Exchange(chosen[(1 .. k) \ {Max(1 .. k)}], x, Max(1 .. k))
      <3> HIDE DEF chosen
      <3> QED BY <1>6, <2>1
    <2> HIDE DEF chosen
    <2> QED BY <2>1, <2>2, <2>3
  <1>10. SortPass(q, x) = h[Size]
    <2> HIDE DEF chosen
    <2> QED BY <1>1, <1>7
  <1> HIDE DEF h
  <1> QED BY <1>8, <1>9, <1>10

\* A queue whose entries before the x-th are in order.
OrderedBefore(q, x) == \A y, z \in Thread : y <= z /\ z < x => Priority[q[y]] <= Priority[q[z]]

\* The entries that a pass has gone over are not above the x-th.
PassedOver(q, x, k) == \A y \in Thread : y <= k => Priority[q[y]] <= Priority[q[x]]

LEMMA ExchangeRight ==
  ASSUME NEW q \in Listings, NEW x \in Thread, NEW y \in Thread,
         OrderedBefore(q, x), PassedOver(q, x, y - 1)
  PROVE  /\ Exchange(q, x, y) \in Listings
         /\ OrderedBefore(Exchange(q, x, y), x)
         /\ PassedOver(Exchange(q, x, y), x, y)
  <1>1. /\ q \in [Thread -> Files]
        /\ \A a \in Thread : a \in Int /\ Priority[q[a]] \in Int
        /\ \A a, b \in Thread : q[a] = q[b] => a = b
    BY PoolAssumption DEF Listings, Thread
  <1>2. CASE ~ (Priority[q[x]] < Priority[q[y]])
    <2>1. Exchange(q, x, y) = q
      BY <1>2 DEF Exchange
    <2>2. PassedOver(q, x, y)
      <3> SUFFICES ASSUME NEW a \in Thread, a <= y PROVE Priority[q[a]] <= Priority[q[x]]
        BY DEF PassedOver
      <3>1. a = y \/ a <= y - 1
        BY <1>1
      <3> QED BY <1>1, <1>2, <3>1 DEF PassedOver
    <2> QED BY <2>1, <2>2
  <1>3. CASE Priority[q[x]] < Priority[q[y]]
    <2> DEFINE r == Exchange(q, x, y)
    <2>1. x # y
      BY <1>1, <1>3
    <2>2. /\ r \in [Thread -> Files]
          /\ \A a \in Thread : r[a] = IF a = x THEN q[y] ELSE IF a = y THEN q[x] ELSE q[a]
      BY <1>1, <1>3 DEF Exchange, Swap
    <2> HIDE DEF r
    <2>3. r \in Listings
      BY <1>1, <2>1, <2>2 DEF Listings
    <2>4. PassedOver(r, x, y)
      <3> SUFFICES ASSUME NEW a \in Thread, a <= y PROVE Priority[r[a]] <= Priority[r[x]]
        BY DEF PassedOver
      <3>1. a = y \/ a <= y - 1
        BY <1>1
      <3>2. a <= y - 1 => Priority[q[a]] <= Priority[q[x]]
        BY DEF PassedOver
      <3> QED BY <1>1, <1>3, <2>1, <2>2, <3>1, <3>2
    <2>5. OrderedBefore(r, x)
      <3> SUFFICES ASSUME NEW a \in Thread, NEW b \in Thread, a <= b, b < x
                   PROVE  Priority[r[a]] <= Priority[r[b]]
        BY DEF OrderedBefore
      <3>1. Priority[q[a]] <= Priority[q[b]] /\ a # x /\ b # x
        BY <1>1 DEF OrderedBefore
      <3>2. CASE a = y
        BY <1>1, <1>3, <2>2, <3>1, <3>2
      <3>3. CASE b = y /\ a # y
        <4>1. a <= y - 1
          BY <1>1, <3>3
        <4>2. Priority[q[a]] <= Priority[q[x]]
          BY <4>1 DEF PassedOver
        <4> QED BY <2>2, <3>1, <3>3, <4>2
      <3>4. CASE a # y /\ b # y
        BY <2>2, <3>1, <3>4
      <3> QED BY <3>2, <3>3, <3>4
    <2> QED BY <2>3, <2>4, <2>5 DEF r
  <1> QED BY <1>2, <1>3

\* One pass puts one more entry in its place.
LEMMA SortPassRight ==
  ASSUME NEW q \in Listings, NEW x \in Thread, OrderedBefore(q, x)
  PROVE  SortPass(q, x) \in Listings /\ OrderedBefore(SortPass(q, x), x + 1)
  <1>1. PICK h : /\ h[0] = q
                 /\ \A k \in 1 .. Size : h[k] = Exchange(h[k - 1], x, k)
                 /\ SortPass(q, x) = h[Size]
    BY PassStages
  <1> DEFINE Held == {k \in 0 .. Size : h[k] \in Listings /\ OrderedBefore(h[k], x)
                                        /\ PassedOver(h[k], x, k)}
  <1>2. Size \in Nat
    BY SizeIsNat
  <1>3. 0 \in Held
    <2>1. PassedOver(q, x, 0)
      BY DEF PassedOver, Thread
    <2> QED BY <1>1, <1>2, <2>1
  <1>4. ASSUME NEW k \in 1 .. Size, k - 1 \in Held PROVE k \in Held
    <2>1. k \in Thread /\ k \in 0 .. Size
      BY <1>2 DEF Thread
    <2> QED BY <1>1, <1>4, <2>1, ExchangeRight
  <1>5. 0 .. Size \subseteq Held
    <2> HIDE DEF Held
    <2> QED BY <1>2, <1>3, <1>4, UpTo
  <1>6. h[Size] \in Listings /\ OrderedBefore(h[Size], x) /\ PassedOver(h[Size], x, Size)
    BY <1>2, <1>5
  <1>7. OrderedBefore(h[Size], x + 1)
    <2> DEFINE r == h[Size]
    <2> SUFFICES ASSUME NEW a \in Thread, NEW b \in Thread, a <= b, b < x + 1
                 PROVE  Priority[r[a]] <= Priority[r[b]]
      BY DEF OrderedBefore
    <2>1. a \in Int /\ b \in Int /\ x \in Int /\ a <= Size
      BY <1>2 DEF Thread
    <2>2. b < x \/ b = x
      BY <2>1
    <2> HIDE DEF r
    <2> QED BY <1>6, <2>1, <2>2 DEF OrderedBefore, PassedOver, r
  <1> QED BY <1>1, <1>6, <1>7
\* Any pass, on any queue, leaves every file in it.
LEMMA SortPassKeeps ==
  ASSUME NEW q \in Listings, NEW x \in Thread
  PROVE  SortPass(q, x) \in Listings
  <1>1. PICK h : /\ h[0] = q
                 /\ \A k \in 1 .. Size : h[k] = Exchange(h[k - 1], x, k)
                 /\ SortPass(q, x) = h[Size]
    BY PassStages
  <1> DEFINE Held == {k \in 0 .. Size : h[k] \in Listings}
  <1>2. 0 \in Held
    BY <1>1, SizeIsNat
  <1>3. ASSUME NEW k \in 1 .. Size, k - 1 \in Held PROVE k \in Held
    <2>1. k \in Thread /\ k \in 0 .. Size /\ h[k] = Exchange(h[k - 1], x, k)
      BY <1>1, SizeIsNat DEF Thread
    <2>2. Exchange(h[k - 1], x, k) \in Listings
      <3> DEFINE r == h[k - 1]
      <3>1. r \in [Thread -> Files] /\ \A a, b \in Thread : r[a] = r[b] => a = b
        BY <1>3 DEF Listings
      <3> HIDE DEF r
      <3>2. Exchange(r, x, k) \in Listings
        BY <2>1, <3>1 DEF Exchange, Swap, Listings
      <3> QED BY <3>2 DEF r
    <2> QED BY <2>1, <2>2
  <1>4. 0 .. Size \subseteq Held
    <2> HIDE DEF Held
    <2> QED BY SizeIsNat, <1>2, <1>3, UpTo
  <1> QED BY <1>1, <1>4, SizeIsNat

\* The queues that the outer loop goes through.
LEMMA SortStages ==
  ASSUME NEW q \in Listings
  PROVE  \E h : /\ h[0] = q
                /\ \A k \in 1 .. Size : h[k] = SortPass(h[k - 1], k)
                /\ SortQueue(q) = h[Size]
  <1> DEFINE D == 1 .. Size
             g == [p \in D \X Listings |-> SortPass(p[2], p[1])]
             Iter(f) == [s \in SUBSET D |-> IF s = {} THEN q
                                           ELSE SortPass(f[s \ {Max(s)}], Max(s))]
             chosen == CHOOSE f : f = Iter(f)
             h == [k \in 0 .. Size |-> chosen[1 .. k]]
  <1>1. Size \in Nat /\ DOMAIN q = D /\ D = Thread
    BY SizeIsNat DEF Listings, Thread
  <1>2. g \in [D \X Listings -> Listings]
    <2>1. ASSUME NEW p \in D \X Listings PROVE SortPass(p[2], p[1]) \in Listings
      <3>1. p[1] \in D /\ p[2] \in Listings
        OBVIOUS
      <3> HIDE DEF D
      <3> QED BY <1>1, <3>1, SortPassKeeps
    <2> HIDE DEF D
    <2> QED BY <2>1
  <1>3. PICK f \in [SUBSET D -> Listings] : SeqSolves(f, Size, q, g)
    <2> HIDE DEF g
    <2> QED BY <1>1, <1>2, SeqRecursion
  <1>4. ASSUME NEW s \in SUBSET D
        PROVE  f[s] = IF s = {} THEN q ELSE SortPass(f[s \ {Max(s)}], Max(s))
    <2>1. CASE s = {}
      BY <1>3, <2>1 DEF SeqSolves
    <2>2. CASE s # {}
      <3>1. Max(s) \in D
        BY <1>1, <2>2, MaxInside
      <3>2. <<Max(s), f[s \ {Max(s)}]>> \in D \X Listings
        BY <1>3, <3>1
      <3>3. g[<<Max(s), f[s \ {Max(s)}]>>] = SortPass(f[s \ {Max(s)}], Max(s))
        BY <3>2
      <3> HIDE DEF g
      <3> QED BY <1>3, <2>2, <3>3 DEF SeqSolves
    <2> QED BY <2>1, <2>2
  <1>5. f = Iter(f)
    <2> HIDE DEF D, g
    <2> QED BY <1>3, <1>4
  <1>6. chosen = Iter(chosen)
    <2> HIDE DEF Iter
    <2> QED BY <1>5
  <1>7. SortQueue(q) = chosen[D]
    <2> DEFINE id == [i2 \in DOMAIN q |-> i2]
    <2>1. SortQueue(q) =
            (CHOOSE f2 : f2 = [s \in SUBSET DOMAIN id |->
                IF s = {} THEN q
                ELSE SortPass(f2[s \ {Max(s)}], id[Max(s)])])[DOMAIN id]
      BY DEF SortQueue, FoldLeftDomain, FoldLeft, MapThenFoldSet
    <2>2. DOMAIN id = D
      BY <1>1
    <2>3. ASSUME NEW f2
          PROVE  [s \in SUBSET DOMAIN id |->
                    IF s = {} THEN q ELSE SortPass(f2[s \ {Max(s)}], id[Max(s)])]
                   = Iter(f2)
      <3>1. ASSUME NEW s \in SUBSET D, s # {} PROVE id[Max(s)] = Max(s)
        <4>1. Max(s) \in D
          BY <1>1, <3>1, MaxInside
        <4> QED BY <1>1, <4>1
      <3> HIDE DEF id, D
      <3> QED BY <2>2, <3>1
    <2> HIDE DEF Iter, id
    <2> QED BY <2>1, <2>2, <2>3
  <1>8. h[0] = q
    <2>1. 1 .. 0 = {} /\ {} \in SUBSET D
      OBVIOUS
    <2>2. chosen[{}] = q
      BY <1>6, <2>1
    <2> QED BY <1>1, <2>1, <2>2
  <1>9. ASSUME NEW k \in 1 .. Size PROVE h[k] = SortPass(h[k - 1], k)
    <2>1. 1 .. k \in SUBSET D /\ 1 .. k # {} /\ k - 1 \in 0 .. Size /\ k \in 0 .. Size
      BY <1>1
    <2>2. Max(1 .. k) = k /\ (1 .. k) \ {Max(1 .. k)} = 1 .. k - 1
      BY <1>1, MaxOfInterval
    <2>3. chosen[1 .. k] = SortPass(chosen[(1 .. k) \ {Max(1 .. k)}], Max(1 .. k))
      <3> HIDE DEF chosen
      <3> QED BY <1>6, <2>1
    <2> HIDE DEF chosen
    <2> QED BY <2>1, <2>2, <2>3
  <1>10. SortQueue(q) = h[Size]
    <2> HIDE DEF chosen
    <2> QED BY <1>1, <1>7
  <1> HIDE DEF h
  <1> QED BY <1>8, <1>9, <1>10

\* sortQueue brings any queue in order and loses no file, although it exchanges entries
\* in both directions (votecounter.c 469-486).
THEOREM SortQueueSorts ==
  ASSUME NEW q \in Listings
  PROVE  SortQueue(q) \in Listings /\ Ascending(SortQueue(q))
  <1>1. PICK h : /\ h[0] = q
                 /\ \A k \in 1 .. Size : h[k] = SortPass(h[k - 1], k)
                 /\ SortQueue(q) = h[Size]
    BY SortStages
  <1> DEFINE Held == {k \in 0 .. Size : h[k] \in Listings /\ OrderedBefore(h[k], k + 1)}
  <1>2. 0 \in Held
    <2>1. OrderedBefore(q, 0 + 1)
      BY SizeIsNat DEF OrderedBefore, Thread
    <2> QED BY <1>1, <2>1, SizeIsNat
  <1>3. ASSUME NEW k \in 1 .. Size, k - 1 \in Held PROVE k \in Held
    <2>1. k \in Thread /\ k \in 0 .. Size /\ (k - 1) + 1 = k
      BY SizeIsNat DEF Thread
    <2> QED BY <1>1, <1>3, <2>1, SortPassRight
  <1>4. 0 .. Size \subseteq Held
    <2> HIDE DEF Held
    <2> QED BY SizeIsNat, <1>2, <1>3, UpTo
  <1>5. h[Size] \in Listings /\ OrderedBefore(h[Size], Size + 1)
    BY <1>4, SizeIsNat
  <1>6. Ascending(h[Size])
    BY <1>5, SizeIsNat DEF Ascending, OrderedBefore, Thread
  <1> QED BY <1>1, <1>5, <1>6

\* Every file has a place in a queue.
LEMMA QueueHasAll ==
  ASSUME NEW q \in Listings, NEW f \in Files
  PROVE  \E x \in Thread : q[x] = f
  <1>1. IsFiniteSet(Thread) /\ Cardinality(Thread) = Cardinality(Files) /\ IsFiniteSet(Files)
    BY SizeIsNat, FS_Interval, PoolAssumption DEF Thread, Size
  <1>2. q \in Injection(Thread, Files)
    BY DEF Listings, Injection, IsInjective
  <1>3. q \in Surjection(Thread, Files)
    BY <1>1, <1>2, FS_Injection
  <1> QED BY <1>3 DEF Surjection
-----------------------------------------------------------------------------
(***************************************************************************)
(* FilesInv in every state, and with it the refinement of FilesOnce.       *)
(***************************************************************************)
\* The threads that were handed a file are finitely many, at most one for each file.
LEMMA HoldingFinite ==
  ASSUME NEW S \in SUBSET Thread
  PROVE  IsFiniteSet(S) /\ Cardinality(S) \in 0 .. Size
  <1>1. IsFiniteSet(Thread) /\ Cardinality(Thread) = Size
    BY SizeIsNat, FS_Interval DEF Thread
  <1>2. IsFiniteSet(S) /\ Cardinality(S) <= Cardinality(Thread)
    BY <1>1, FS_Subset
  <1>3. Cardinality(S) \in Nat
    BY <1>2, FS_CardinalityType
  <1> QED BY <1>1, <1>2, <1>3, SizeIsNat

LEMMA FilesStart == ASSUME Init PROVE FilesInv
  <1>1. TypeOK
    <2>1. raced \in BOOLEAN /\ missed \in BOOLEAN
      BY DEF Init
    <2>2. thread \in [Thread -> {"none", "grab", "count", "load", "store", "signal", "exited"}]
      BY DEF Init
    <2>3. /\ file \in [Thread -> Files \cup {NoFile}] /\ loaded \in [Thread -> Int]
          /\ counted \in [Files -> 0 .. 1]
      BY DEF Init
    <2>4. /\ queue \in Listings /\ grab \in 0 .. Size /\ cur \in Int /\ main = "fill"
          /\ i \in 1 .. (Size + 1) /\ seen \in Int
      BY SizeIsNat DEF Init
    <2> QED BY <2>1, <2>2, <2>3, <2>4 DEF TypeOK
  <1>2. \A t \in Thread : file[t] = NoFile /\ thread[t] = "none"
    BY DEF Init
  <1>3. Holding = {} /\ Started = {}
    BY <1>2 DEF Holding, Started
  <1>4. grab = 0 /\ Cardinality(Holding) = 0
    BY <1>3, FS_EmptySet DEF Init
  <1>5. HandedOut
    <2>1. 1 .. grab = {}
      BY <1>4
    <2> QED BY <1>2, <1>3, <1>4, <2>1 DEF HandedOut
  <1>6. CountedOnce
    BY <1>2 DEF Init, CountedOnce
  <1>7. InOrder /\ Joined
    BY <1>2 DEF Init, InOrder, Joined
  <1> QED BY <1>1, <1>5, <1>6, <1>7 DEF FilesInv

\* What holds of file and thread in HandedOut and CountedOnce stays if both stay.
LEMMA FilesUntouched ==
  ASSUME HandedOut, CountedOnce,
         UNCHANGED <<file, thread, grab, queue, counted>>
  PROVE  HandedOut' /\ CountedOnce'
  <1>1. Holding' = Holding /\ Started' = Started
    BY DEF Holding, Started
  <1> QED BY <1>1 DEF HandedOut, CountedOnce

\* The steps of main.
LEMMA MainKeepsFiles ==
  ASSUME FilesInv, PoolInv, MainStep \/ WakeUp
  PROVE  FilesInv'
  <1> USE SizeIsNat
  <1> USE DEF FilesInv
  <1>0. /\ main \in Starting => i \in Nat /\ i > 0 /\ \A t \in Thread : t >= i => thread[t] = "none"
        /\ AnotherFile
    BY DEF PoolInv, NotYet
  <1>1. CASE FillQueue
    <2>1. queue' \in Listings /\ Ascending(queue')
      BY <1>1, SortQueueSorts DEF FillQueue, TypeOK
    <2>2. \A t \in Thread : thread[t] = "none" /\ file[t] = NoFile
      BY <1>1 DEF FillQueue, InOrder, HandedOut
    <2>3. Holding = {} /\ Holding' = {} /\ Started' = {}
      BY <1>1, <2>2 DEF FillQueue, Holding, Started, threadVars
    <2>4. grab' = 0
      BY <1>1, <2>3, FS_EmptySet DEF FillQueue, HandedOut
    <2>5. HandedOut'
      <3>1. 1 .. grab' = {}
        BY <2>4
      <3> QED BY <1>1, <2>2, <2>3, <2>4, <3>1, FS_EmptySet DEF FillQueue, HandedOut, threadVars
    <2>6. CountedOnce'
      BY <1>1 DEF FillQueue, CountedOnce, threadVars, history
    <2>7. TypeOK'
      BY <1>1, <2>1 DEF FillQueue, TypeOK, threadVars, history
    <2>8. InOrder' /\ Joined'
      BY <1>1, <2>1 DEF FillQueue, InOrder, Joined
    <2> QED BY <2>5, <2>6, <2>7, <2>8
  <1>2. CASE LoadForMore
    <2>1. HandedOut' /\ CountedOnce'
      BY <1>2, FilesUntouched DEF LoadForMore, threadVars, history
    <2>2. TypeOK'
      BY <1>2 DEF LoadForMore, TypeOK, threadVars, history
    <2>3. InOrder' /\ Joined'
      BY <1>2 DEF LoadForMore, InOrder, Joined, threadVars
    <2> QED BY <2>1, <2>2, <2>3
  <1>3. CASE StoreMore
    <2>1. HandedOut' /\ CountedOnce'
      BY <1>3, FilesUntouched DEF StoreMore, threadVars
    <2>2. raced' \in BOOLEAN
      BY <1>3 DEF StoreMore, TypeOK
    <2>3. TypeOK'
      BY <1>3, <2>2 DEF StoreMore, TypeOK, threadVars
    <2>4. InOrder' /\ Joined'
      BY <1>3 DEF StoreMore, InOrder, Joined, threadVars
    <2> QED BY <2>1, <2>3, <2>4
  <1>4. CASE TestLimit
    <2>1. HandedOut' /\ CountedOnce'
      BY <1>4, FilesUntouched DEF TestLimit, threadVars, history
    <2>2. main' \in {"block", "create"}
      BY <1>4 DEF TestLimit
    <2>3. TypeOK'
      BY <1>4, <2>2 DEF TestLimit, TypeOK, threadVars, history
    <2>4. InOrder' /\ Joined'
      BY <1>4, <2>2 DEF TestLimit, InOrder, Joined, threadVars
    <2> QED BY <2>1, <2>3, <2>4
  <1>5. CASE Wait \/ WakeUp
    <2>1. HandedOut' /\ CountedOnce'
      BY <1>5, FilesUntouched DEF Wait, WakeUp, threadVars, history
    <2>2. TypeOK'
      BY <1>5 DEF Wait, WakeUp, TypeOK, threadVars, history
    <2>3. InOrder' /\ Joined'
      BY <1>5 DEF Wait, WakeUp, InOrder, Joined, threadVars
    <2> QED BY <2>1, <2>2, <2>3
  <1>6. CASE Create
    <2>1. i \in Thread /\ thread[i] = "none"
      BY <1>0, <1>6 DEF Create, Thread, Starting, AnotherFile
    <2>2. thread' = [thread EXCEPT ![i] = "grab"] /\ file' = file /\ grab' = grab /\ queue' = queue
      BY <1>6 DEF Create
    <2>3. thread \in [Thread -> {"none", "grab", "count", "load", "store", "signal", "exited"}]
      BY DEF TypeOK
    <2>4. \A t \in Thread : thread'[t] = IF t = i THEN "grab" ELSE thread[t]
      BY <2>1, <2>2, <2>3
    <2>5. Holding' = Holding /\ Started' = Started
      BY <2>2 DEF Holding, Started
    <2>6. HandedOut'
      BY <2>1, <2>2, <2>4, <2>5 DEF HandedOut
    <2>7. CountedOnce'
      BY <1>6, <2>1, <2>2, <2>4 DEF CountedOnce, Create, history
    <2>8. TypeOK'
      <3>1. i \in 1 .. Size
        BY <2>1 DEF Thread
      <3>2. i' \in 1 .. (Size + 1)
        BY <1>6, <3>1 DEF Create
      <3>3. thread' \in [Thread -> {"none", "grab", "count", "load", "store", "signal", "exited"}]
        BY <2>1, <2>2, <2>3
      <3> QED BY <1>6, <3>2, <3>3 DEF Create, TypeOK, history
    <2>9. InOrder' /\ Joined'
      BY <1>6 DEF Create, InOrder, Joined
    <2> QED BY <2>6, <2>7, <2>8, <2>9
  <1>7. CASE StartJoining
    <2>1. HandedOut' /\ CountedOnce'
      BY <1>7, FilesUntouched DEF StartJoining, threadVars, history
    <2>2. TypeOK'
      BY <1>7 DEF StartJoining, TypeOK, threadVars, history
    <2>3. InOrder' /\ Joined'
      BY <1>7 DEF StartJoining, InOrder, Joined, threadVars, Thread
    <2> QED BY <2>1, <2>2, <2>3
  <1>8. CASE Join
    <2>1. HandedOut' /\ CountedOnce'
      BY <1>8, FilesUntouched DEF Join, threadVars, history
    <2>2. TypeOK'
      BY <1>8 DEF Join, TypeOK, threadVars, history
    <2>3. Joined'
      <3>1. \A t \in Thread : t < i + 1 => t < i \/ t = i
        BY DEF Thread, TypeOK
      <3> QED BY <1>8, <3>1 DEF Join, Joined, threadVars
    <2>4. InOrder'
      BY <1>8 DEF Join, InOrder, threadVars
    <2> QED BY <2>1, <2>2, <2>3, <2>4
  <1>9. CASE FindWinner
    <2>1. HandedOut' /\ CountedOnce'
      BY <1>9, FilesUntouched DEF FindWinner, threadVars, history
    <2>2. TypeOK'
      BY <1>9 DEF FindWinner, TypeOK, threadVars, history
    <2>3. Joined'
      <3>1. \A t \in Thread : t < i
        BY <1>9 DEF FindWinner, Thread, TypeOK
      <3> QED BY <1>9, <3>1 DEF FindWinner, Joined, threadVars
    <2>4. InOrder'
      BY <1>9 DEF FindWinner, InOrder, threadVars
    <2> QED BY <2>1, <2>2, <2>3, <2>4
  <1> QED BY <1>1, <1>2, <1>3, <1>4, <1>5, <1>6, <1>7, <1>8, <1>9 DEF MainStep
\* The thread that asks for a name gets the next one of the queue, which nobody has.
LEMMA NextFile ==
  ASSUME FilesInv, NEW t \in Thread, GetNameFromQueue(t)
  PROVE  /\ grab + 1 \in Thread
         /\ main # "fill"
         /\ queue[grab + 1] \in Files \ Started
         /\ file[t] = NoFile
         /\ file' = [file EXCEPT ![t] = queue[grab + 1]]
         /\ Holding' = Holding \cup {t}
         /\ Started' = Started \cup {queue[grab + 1]}
         /\ grab' = Cardinality(Holding')
         /\ Started' = {queue[j] : j \in 1 .. grab'}
  <1>1. /\ file \in [Thread -> Files \cup {NoFile}] /\ queue \in Listings /\ grab \in Nat
        /\ queue \in [Thread -> Files]
    BY SizeIsNat DEF FilesInv, TypeOK, Listings
  <1>2. /\ thread[t] = "grab" /\ file' = [file EXCEPT ![t] = queue[grab + 1]]
        /\ grab' = grab + 1 /\ queue' = queue
    BY DEF GetNameFromQueue
  <1>3. file[t] = NoFile /\ t \notin Holding
    BY <1>2 DEF FilesInv, HandedOut, Holding
  <1>4. Holding \in SUBSET Thread /\ Holding \cup {t} \in SUBSET Thread
    BY DEF Holding
  <1>5. Cardinality(Holding \cup {t}) = Cardinality(Holding) + 1
    BY <1>3, <1>4, HoldingFinite, FS_AddElement
  <1>6. grab + 1 = Cardinality(Holding \cup {t})
    BY <1>5 DEF FilesInv, HandedOut
  <1>7. grab + 1 \in Thread
    <2>1. Cardinality(Holding \cup {t}) \in 0 .. Size
      BY <1>4, HoldingFinite
    <2> QED BY <1>1, <1>6, <2>1, SizeIsNat DEF Thread
  <1>8. main # "fill"
    BY <1>2 DEF FilesInv, InOrder
  <1>9. queue[grab + 1] \in Files /\ queue[grab + 1] # NoFile
    BY <1>1, <1>7, PoolAssumption
  <1>10. queue[grab + 1] \notin Started
    <2> SUFFICES ASSUME NEW j \in 1 .. grab, queue[j] = queue[grab + 1] PROVE FALSE
      BY DEF FilesInv, HandedOut
    <2>1. j \in Thread /\ j # grab + 1
      BY <1>1, <1>7, SizeIsNat DEF Thread
    <2> QED BY <1>1, <1>7, <2>1 DEF Listings
  <1>11. \A u \in Thread : file'[u] = IF u = t THEN queue[grab + 1] ELSE file[u]
    BY <1>1, <1>2
  <1>12. Holding' = Holding \cup {t}
    BY <1>9, <1>11 DEF Holding
  <1>13. Started' = Started \cup {queue[grab + 1]}
    <2>1. Started' = {file'[u] : u \in Holding \cup {t}}
      BY <1>12 DEF Started
    <2> QED BY <1>3, <1>4, <1>11, <2>1 DEF Started
  <1>14. Started' = {queue[j] : j \in 1 .. grab'}
    <2>1. 1 .. grab' = (1 .. grab) \cup {grab + 1}
      BY <1>1, <1>2
    <2>2. Started = {queue[j] : j \in 1 .. grab}
      BY DEF FilesInv, HandedOut
    <2> QED BY <1>13, <2>1, <2>2
  <1> QED BY <1>2, <1>3, <1>6, <1>7, <1>8, <1>9, <1>10, <1>12, <1>13, <1>14

\* The thread that counts a file is the only one that has it.
LEMMA CountsItsFile ==
  ASSUME FilesInv, NEW t \in Thread, CountFile(t)
  PROVE  /\ file[t] \in Started
         /\ file[t] \in Files
         /\ counted[file[t]] = 0
         /\ counted' = [counted EXCEPT ![file[t]] = 1]
         /\ \A u \in Thread : file[u] = file[t] => u = t
  <1>1. thread[t] = "count" /\ counted' = [counted EXCEPT ![file[t]] = @ + 1]
    BY DEF CountFile
  <1>2. t \in Holding /\ file[t] \in Files
    BY <1>1 DEF FilesInv, HandedOut, Holding, TypeOK
  <1>3. \A u \in Thread : file[u] = file[t] => u = t
    BY <1>2 DEF FilesInv, HandedOut, Holding
  <1>4. counted[file[t]] = 0
    BY <1>1, <1>2, <1>3 DEF FilesInv, CountedOnce
  <1> QED BY <1>1, <1>2, <1>3, <1>4 DEF Started

\* A step of a thread that has its file and does not count it.
Moving(t) ==
  /\ thread[t] \in {"load", "store", "signal"}
  /\ \E p \in {"store", "signal", "exited"} : thread' = [thread EXCEPT ![t] = p]
  /\ UNCHANGED <<file, grab, queue, counted>>

LEMMA FilesCarried ==
  ASSUME FilesInv, NEW t \in Thread, Moving(t)
  PROVE  /\ HandedOut'
         /\ CountedOnce'
         /\ thread' \in [Thread -> {"none", "grab", "count", "load", "store", "signal", "exited"}]
         /\ main # "fill"
         /\ \A u \in Thread : thread[u] = "exited" => thread'[u] = "exited"
  <1>1. PICK p \in {"store", "signal", "exited"} : thread' = [thread EXCEPT ![t] = p]
    BY DEF Moving
  <1>2. thread \in [Thread -> {"none", "grab", "count", "load", "store", "signal", "exited"}]
    BY DEF FilesInv, TypeOK
  <1>3. \A u \in Thread : thread'[u] = IF u = t THEN p ELSE thread[u]
    BY <1>1, <1>2
  <1>4. Holding' = Holding /\ Started' = Started
    BY DEF Moving, Holding, Started
  <1>5. HandedOut'
    BY <1>3, <1>4 DEF Moving, FilesInv, HandedOut
  <1>6. CountedOnce'
    BY <1>3 DEF Moving, FilesInv, CountedOnce
  <1>7. main # "fill"
    BY DEF Moving, FilesInv, InOrder
  <1>8. \A u \in Thread : thread[u] = "exited" => thread'[u] = "exited"
    BY <1>3 DEF Moving
  <1>9. thread' \in [Thread -> {"none", "grab", "count", "load", "store", "signal", "exited"}]
    BY <1>1, <1>2
  <1> QED BY <1>5, <1>6, <1>7, <1>8, <1>9

\* The steps of a thread.
LEMMA ThreadKeepsFiles ==
  ASSUME FilesInv, NEW t \in Thread, ThreadStep(t)
  PROVE  FilesInv'
  <1> DEFINE Places == {"none", "grab", "count", "load", "store", "signal", "exited"}
  <1>0. thread \in [Thread -> Places] /\ HandedOut /\ CountedOnce /\ InOrder /\ Joined /\ TypeOK
    BY DEF FilesInv, TypeOK
  <1>1. CASE GetNameFromQueue(t)
    <2>1. /\ thread[t] = "grab" /\ thread' = [thread EXCEPT ![t] = "count"]
          /\ UNCHANGED <<queue, cur, mainVars, loaded, history>>
      BY <1>1 DEF GetNameFromQueue
    <2>2. \A u \in Thread : thread'[u] = IF u = t THEN "count" ELSE thread[u]
      BY <1>0, <2>1
    <2>3. /\ grab + 1 \in Thread /\ main # "fill" /\ queue[grab + 1] \in Files \ Started
          /\ file[t] = NoFile /\ file' = [file EXCEPT ![t] = queue[grab + 1]]
          /\ Holding' = Holding \cup {t} /\ grab' = Cardinality(Holding')
          /\ Started' = {queue[j] : j \in 1 .. grab'}
      BY <1>1, NextFile DEF FilesInv
    <2>4. /\ file' \in [Thread -> Files \cup {NoFile}]
          /\ \A u \in Thread : file'[u] = IF u = t THEN queue[grab + 1] ELSE file[u]
      BY <1>0, <2>3 DEF TypeOK
    <2>5. NoFile \notin Files
      BY PoolAssumption
    <2>6. HandedOut'
      <3>1. \A u \in Thread : file'[u] = NoFile <=> thread'[u] \in {"none", "grab"}
        BY <1>0, <2>2, <2>3, <2>4, <2>5 DEF HandedOut
      <3>2. ASSUME NEW u \in Holding', NEW v \in Holding', file'[u] = file'[v] PROVE u = v
        <4>1. u \in Thread /\ v \in Thread /\ (u # t => u \in Holding) /\ (v # t => v \in Holding)
          BY <2>3 DEF Holding
        <4>2. (u # t => file[u] \in Started) /\ (v # t => file[v] \in Started)
          BY <4>1 DEF Started
        <4>3. u = t <=> v = t
          BY <2>3, <2>4, <3>2, <4>1, <4>2
        <4> QED BY <1>0, <2>4, <3>2, <4>1, <4>3 DEF HandedOut
      <3>3. queue' = queue
        BY <2>1
      <3> QED BY <2>3, <3>1, <3>2, <3>3 DEF HandedOut
    <2>7. CountedOnce'
      <3>1. counted' = counted
        BY <2>1 DEF history
      <3>2. ASSUME NEW f \in Files, NEW u \in Thread
            PROVE  (file'[u] = f /\ thread'[u] \in {"load", "store", "signal", "exited"})
                   <=> (file[u] = f /\ thread[u] \in {"load", "store", "signal", "exited"})
        BY <2>1, <2>2, <2>4
      <3> QED BY <1>0, <3>1, <3>2 DEF CountedOnce
    <2>8. TypeOK'
      <3>1. thread' \in [Thread -> Places]
        BY <1>0, <2>1
      <3>2. grab' \in 0 .. Size
        BY <2>3, HoldingFinite DEF Holding
      <3> QED BY <1>0, <2>1, <2>4, <3>1, <3>2 DEF TypeOK, mainVars, history
    <2>9. InOrder' /\ Joined'
      <3>1. UNCHANGED <<queue, main, i>>
        BY <2>1 DEF mainVars
      <3>2. InOrder'
        BY <1>0, <2>3, <3>1 DEF InOrder
      <3>3. Joined'
        BY <1>0, <2>1, <2>2, <3>1 DEF Joined
      <3> QED BY <3>2, <3>3
    <2> QED BY <2>6, <2>7, <2>8, <2>9 DEF FilesInv
  <1>2. CASE CountFile(t)
    <2>1. /\ thread[t] = "count" /\ thread' = [thread EXCEPT ![t] = "load"]
          /\ UNCHANGED <<queue, grab, cur, mainVars, file, loaded, raced, missed>>
      BY <1>2 DEF CountFile
    <2>2. \A u \in Thread : thread'[u] = IF u = t THEN "load" ELSE thread[u]
      BY <1>0, <2>1
    <2>3. /\ file[t] \in Files /\ counted[file[t]] = 0
          /\ counted' = [counted EXCEPT ![file[t]] = 1]
          /\ \A u \in Thread : file[u] = file[t] => u = t
      BY <1>2, CountsItsFile
    <2>4. /\ counted' \in [Files -> 0 .. 1]
          /\ \A f \in Files : counted'[f] = IF f = file[t] THEN 1 ELSE counted[f]
      BY <1>0, <2>3 DEF TypeOK
    <2>5. Holding' = Holding /\ Started' = Started
      BY <2>1 DEF Holding, Started
    <2>6. HandedOut'
      BY <1>0, <2>1, <2>2, <2>5 DEF HandedOut
    <2>7. CountedOnce'
      <3> SUFFICES ASSUME NEW f \in Files
                   PROVE  counted'[f] = IF \E u \in Thread : file'[u] = f /\ thread'[u] \in
                                                {"load", "store", "signal", "exited"}
                                        THEN 1 ELSE 0
        BY DEF CountedOnce
      <3>1. CASE f = file[t]
        BY <2>1, <2>2, <2>4, <3>1
      <3>2. CASE f # file[t]
        <4>1. \A u \in Thread : file[u] = f => thread'[u] = thread[u]
          BY <2>2, <3>2
        <4> QED BY <1>0, <2>1, <2>4, <3>2, <4>1 DEF CountedOnce
      <3> QED BY <3>1, <3>2
    <2>8. TypeOK'
      <3>1. thread' \in [Thread -> Places]
        BY <1>0, <2>1
      <3> QED BY <1>0, <2>1, <2>4, <3>1 DEF TypeOK, mainVars
    <2>9. InOrder' /\ Joined'
      <3>1. UNCHANGED <<queue, main, i>>
        BY <2>1 DEF mainVars
      <3>2. InOrder'
        BY <1>0, <2>1, <3>1 DEF InOrder
      <3>3. Joined'
        BY <1>0, <2>1, <2>2, <3>1 DEF Joined
      <3> QED BY <3>2, <3>3
    <2> QED BY <2>6, <2>7, <2>8, <2>9 DEF FilesInv
  <1>3. ASSUME Moving(t), loaded' \in [Thread -> Int], cur' \in Int,
               raced' \in BOOLEAN, missed' \in BOOLEAN,
               main' = main \/ (main = "wait" /\ main' = "test"),
               UNCHANGED <<i, seen>>
        PROVE  FilesInv'
    <2>1. /\ HandedOut' /\ CountedOnce' /\ thread' \in [Thread -> Places] /\ main # "fill"
          /\ \A u \in Thread : thread[u] = "exited" => thread'[u] = "exited"
      BY <1>3, FilesCarried
    <2>2. TypeOK'
      BY <1>0, <1>3, <2>1 DEF TypeOK, Moving
    <2>3. InOrder'
      BY <1>0, <1>3, <2>1 DEF InOrder, Moving
    <2>4. Joined'
      BY <1>0, <1>3, <2>1 DEF Joined
    <2> QED BY <2>1, <2>2, <2>3, <2>4 DEF FilesInv
  <1>4. CASE LoadForLess(t)
    <2>1. Moving(t) /\ UNCHANGED <<main, i, seen, cur, raced, missed>>
      BY <1>4 DEF LoadForLess, Moving, mainVars, history
    <2>2. loaded' \in [Thread -> Int]
      BY <1>0, <1>4 DEF LoadForLess, TypeOK
    <2> QED BY <1>0, <1>3, <2>1, <2>2 DEF TypeOK
  <1>5. CASE StoreLess(t)
    <2>1. Moving(t) /\ UNCHANGED <<main, i, seen, loaded, missed>>
      BY <1>5 DEF StoreLess, Moving, mainVars
    <2>2. cur' \in Int
      BY <1>0, <1>5 DEF StoreLess, TypeOK
    <2>3. raced' \in BOOLEAN
      BY <1>0, <1>5 DEF StoreLess, TypeOK
    <2> QED BY <1>0, <1>3, <2>1, <2>2, <2>3 DEF TypeOK
  <1>6. CASE Signal(t)
    <2>1. Moving(t) /\ UNCHANGED <<i, seen, loaded, cur, raced>>
      BY <1>6 DEF Signal, Moving
    <2>2. missed' \in BOOLEAN
      BY <1>0, <1>6 DEF Signal, TypeOK
    <2>3. main' = main \/ (main = "wait" /\ main' = "test")
      BY <1>6 DEF Signal
    <2> QED BY <1>0, <1>3, <2>1, <2>2, <2>3 DEF TypeOK
  <1> QED BY <1>1, <1>2, <1>4, <1>5, <1>6 DEF ThreadStep

\* Every file is handed out at most once and counted by the thread that has it, in every
\* state (votecounter.c 297-344, 535-588).
THEOREM FilesInvariance == Spec => []FilesInv
  <1>1. Init => FilesInv
    BY FilesStart
  <1>2. FilesInv /\ PoolInv /\ [Next]_vars => FilesInv'
    <2> SUFFICES ASSUME FilesInv, PoolInv, [Next]_vars PROVE FilesInv'
      OBVIOUS
    <2>1. CASE MainStep \/ WakeUp
      BY <2>1, MainKeepsFiles
    <2>2. CASE \E t \in Thread : ThreadStep(t)
      BY <2>2, ThreadKeepsFiles
    <2>3. CASE UNCHANGED vars
      <3>1. HandedOut' /\ CountedOnce'
        BY <2>3, FilesUntouched DEF vars, threadVars, history, FilesInv
      <3>2. TypeOK' /\ InOrder' /\ Joined'
        BY <2>3 DEF vars, threadVars, mainVars, history, FilesInv, TypeOK, InOrder, Joined
      <3> QED BY <3>1, <3>2 DEF FilesInv
    <2> QED BY <2>1, <2>2, <2>3 DEF Next
  <1> QED BY <1>1, <1>2, PoolInvariance, PTL DEF Spec

\* Every variable keeps to its type: the queue to a listing of all files, currentGrab to
\* the length of the queue.
THEOREM PoolTyping == Spec => []TypeOK
  <1>1. FilesInv => TypeOK
    BY DEF FilesInv
  <1> QED BY <1>1, FilesInvariance, PTL
-----------------------------------------------------------------------------
\* What FilesOnce speaks of: the files handed out, those counted, and the end.
CountedFiles == {f \in Files : counted[f] > 0}

OnceVars == <<{file[t] : t \in Thread} \ {NoFile}, CountedFiles, main = "done">>

LEMMA StartedFiles ==
  /\ {file[t] : t \in Thread} \ {NoFile} = Started
  /\ ({file[t] : t \in Thread} \ {NoFile})' = Started'
  BY DEF Started, Holding

\* The thread that takes the next name starts the file that has to be started next:
\* every file of higher priority stands before it in the queue.
LEMMA TakingStarts ==
  ASSUME FilesInv, NEW t \in Thread, GetNameFromQueue(t), NEW f \in Files, f = queue[grab + 1]
  PROVE  Once!Start(f)
  <1>1. /\ grab + 1 \in Thread /\ main # "fill" /\ f \in Files \ Started
        /\ Started' = Started \cup {f}
    BY NextFile
  <1>2. ASSUME NEW g \in Files, Priority[g] < Priority[f] PROVE g \in Started
    <2>1. queue \in Listings
      BY DEF FilesInv, TypeOK
    <2>2. PICK x \in Thread : queue[x] = g
      BY <2>1, QueueHasAll
    <2>3. Priority[g] \in Int /\ Priority[f] \in Int
      BY <1>1, PoolAssumption
    <2>4. ~ (grab + 1 <= x)
      <3>1. grab + 1 <= x => Priority[f] <= Priority[g]
        BY <1>1, <2>2 DEF FilesInv, InOrder, Ascending
      <3> QED BY <1>2, <2>3, <3>1
    <2>5. grab \in Nat /\ x \in 1 .. grab
      BY <1>1, <2>4, SizeIsNat DEF Thread, FilesInv, TypeOK
    <2> QED BY <2>2, <2>5 DEF FilesInv, HandedOut
  <1>3. [h \in Files |-> {g \in Files : Priority[g] < Priority[h]}][f] \subseteq Started
    BY <1>1, <1>2
  <1>4. UNCHANGED <<counted, main>>
    BY DEF GetNameFromQueue, mainVars, history
  <1>5. UNCHANGED <<CountedFiles, main = "done">>
    BY <1>4 DEF CountedFiles
  <1> QED BY <1>1, <1>3, <1>5, StartedFiles DEF Once!Start, CountedFiles

LEMMA CountingCounts ==
  ASSUME FilesInv, NEW t \in Thread, CountFile(t), NEW f \in Files, f = file[t]
  PROVE  Once!Count(f)
  <1>1. /\ f \in Started /\ f \in Files /\ counted[f] = 0
        /\ counted' = [counted EXCEPT ![f] = 1] /\ counted \in [Files -> 0 .. 1]
    BY CountsItsFile DEF FilesInv, TypeOK
  <1>2. f \notin CountedFiles /\ CountedFiles' = CountedFiles \cup {f}
    BY <1>1 DEF CountedFiles
  <1>3. UNCHANGED <<file, main>>
    BY DEF CountFile, mainVars
  <1>4. UNCHANGED <<Started, main = "done">>
    BY <1>3 DEF Started, Holding
  <1> QED BY <1>1, <1>2, <1>4, StartedFiles DEF Once!Count, CountedFiles

\* When all threads have exited, each has counted a file of its own: that is all files.
LEMMA FinishingDeclares ==
  ASSUME FilesInv, PoolInv, FindWinner
  PROVE  Once!Declare
  <1>1. \A t \in Thread : thread[t] = "exited"
    BY SizeIsNat DEF FindWinner, FilesInv, Joined, Thread, TypeOK
  <1>2. Holding = Thread
    BY <1>1 DEF FilesInv, HandedOut, Holding
  <1>3. grab = Size
    BY <1>2, SizeIsNat, FS_Interval DEF FilesInv, HandedOut, Thread
  <1>4. \A f \in Files : f \in CountedFiles
    <2> SUFFICES ASSUME NEW f \in Files PROVE counted[f] > 0
      BY DEF CountedFiles
    <2>1. PICK x \in Thread : queue[x] = f
      BY QueueHasAll DEF FilesInv, TypeOK
    <2>2. f \in Started
      BY <1>3, <2>1 DEF FilesInv, HandedOut, Thread
    <2>3. PICK t \in Thread : file[t] = f
      BY <2>2 DEF Started, Holding
    <2> QED BY <1>1, <2>3 DEF FilesInv, CountedOnce
  <1>5. CountedFiles = Files
    BY <1>4 DEF CountedFiles
  <1>6. (main = "done") = FALSE /\ (main = "done")' = TRUE
    BY DEF FindWinner
  <1>7. UNCHANGED <<Started, CountedFiles>>
    BY DEF FindWinner, threadVars, history, Started, Holding, CountedFiles
  <1> QED BY <1>5, <1>6, <1>7, StartedFiles DEF Once!Declare, CountedFiles

\* The other steps change nothing that FilesOnce speaks of.
LEMMA OthersStutter ==
  ASSUME FilesInv,
         \/ FillQueue \/ LoadForMore \/ StoreMore \/ TestLimit \/ Wait \/ WakeUp \/ Create
         \/ StartJoining \/ Join \/ UNCHANGED vars
         \/ \E t \in Thread : LoadForLess(t) \/ StoreLess(t) \/ Signal(t)
  PROVE  UNCHANGED OnceVars
  <1>1. UNCHANGED <<file, counted>>
    BY DEF FillQueue, LoadForMore, StoreMore, TestLimit, Wait, WakeUp, Create, StartJoining,
           Join, LoadForLess, StoreLess, Signal, vars, threadVars, mainVars, history
  <1>2. main = "done" <=> main' = "done"
    BY DEF FillQueue, LoadForMore, StoreMore, TestLimit, Wait, WakeUp, Create, StartJoining,
           Join, LoadForLess, StoreLess, Signal, vars, threadVars, mainVars, history
  <1>3. (main = "done")' = (main = "done")
    BY <1>2
  <1> QED BY <1>1, <1>3 DEF OnceVars, CountedFiles

\* The threads, in whatever order they run, count the files as FilesOnce says: each once,
\* none started before one of higher priority, and all before the winner is declared
\* (votecounter.c 297-344, 469-486, 535-588).
THEOREM PoolFilesOnce == Spec => FilesOnceSpec
  <1>1. Init => Once!Init
    <2> SUFFICES ASSUME Init PROVE Once!Init
      OBVIOUS
    <2>1. {file[t] : t \in Thread} \ {NoFile} = {}
      BY DEF Init
    <2>2. {f \in Files : counted[f] > 0} = {}
      BY DEF Init
    <2>3. (main = "done") = FALSE
      BY DEF Init
    <2> QED BY <2>1, <2>2, <2>3 DEF Once!Init
  <1>2. FilesInv /\ PoolInv /\ [Next]_vars => [Once!Next]_OnceVars
    <2> SUFFICES ASSUME FilesInv, PoolInv, [Next]_vars PROVE Once!Next \/ UNCHANGED OnceVars
      BY DEF OnceVars
    <2>1. ASSUME NEW t \in Thread, GetNameFromQueue(t) PROVE Once!Next
      <3>1. PICK f \in Files : f = queue[grab + 1]
        BY <2>1, NextFile
      <3>2. Once!Start(f)
        BY <2>1, <3>1, TakingStarts
      <3> QED BY <3>1, <3>2 DEF Once!Next
    <2>2. ASSUME NEW t \in Thread, CountFile(t) PROVE Once!Next
      <3>1. PICK f \in Files : f = file[t]
        BY <2>2, CountsItsFile
      <3>2. Once!Count(f)
        BY <2>2, <3>1, CountingCounts
      <3> QED BY <3>1, <3>2 DEF Once!Next
    <2>3. CASE FindWinner
      BY <2>3, FinishingDeclares DEF Once!Next
    <2> QED BY <2>1, <2>2, <2>3, OthersStutter DEF Next, MainStep, ThreadStep
  <1> QED BY <1>1, <1>2, PoolInvariance, FilesInvariance, PTL
          DEF Spec, FilesOnceSpec, Once!Spec, OnceVars, CountedFiles
=============================================================================
