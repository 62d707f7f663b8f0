------------------------ MODULE VoteDirectoriesProofs ------------------------
(***************************************************************************)
(* Proofs about VoteDirectories, for every tree of directories, every set  *)
(* of names, vote files and links, and any number of runs and of killed    *)
(* processes, while runs do not overlap.  Where each process can be by     *)
(* where the one above is, below a killed one anywhere (Nested), what its  *)
(* file says then (Says), and that a parent, which reads one line of it,   *)
(* reads all (FirstSaysAll).  At the end, what Who_Won.txt says of the     *)
(* links.                                                                  *)
(***************************************************************************)
EXTENDS VoteDirectories, FoldLemmas, SequenceTheorems, TLAPS

\* An entry of a list: votes for a name, or what a winner's line is taken for.
Entity == [name : Names, count : Nat \ {0}] \cup {Entry(WinnerWord, 0)}
Lists == Seq(Entity)
Line == [kind : {"cycle"}, from : Dirs, to : Dirs] \cup [kind : {"counts"}, list : Lists]
          \cup [kind : {"winner"}, name : Names \cup {Blank}]
Distinct(l) == \A j, k \in DOMAIN l : l[j].name = l[k].name => j = k

FilesTyped ==
  files \in [DOMAIN files -> Seq(Line)] /\ DOMAIN files \subseteq Dirs \X Dirs

Typed ==
  /\ votes \in [DOMAIN votes -> VoteFiles] /\ DOMAIN votes \subseteq Leaves
  /\ links \in LinkSets
  /\ FilesTyped
  /\ main \in {"idle", "waiting", "done", "failed"} /\ top \in Dirs
  /\ winner \in Names \cup {Blank}
  /\ pc \in [Dirs -> {"none", "start", "scan", "wait", "print"} \cup Ended]
  /\ todo = [d \in Dirs |-> todo[d]] /\ \A d \in Dirs : todo[d] \subseteq Entered(d)
  /\ linked \in [Dirs -> BOOLEAN]
  /\ list \in [Dirs -> Lists] /\ \A d \in Dirs : Distinct(list[d])
  /\ sub \in [Dirs -> Dirs]
  /\ runs \in 0 .. MaxRuns /\ kills \in 0 .. MaxKills

\* readdir's entry for a subdirectory.
Item(c) == [kind |-> "dir", name |-> c]

\* A process runs below the directory that this run of Vote_Counter is for.
Started == \A d \in Dirs : pc[d] # "none" => main # "idle" /\ top \in Path[d]

\* Where a directory's process can be, by where the one of the directory above is: it
\* runs only while that one waits for it, or after that one was killed.
NestedIn(c, p) ==
  /\ pc[p] \in {"none", "start", "killed"} => pc[c] = "none"
  /\ pc[p] = "scan" \/ (pc[p] = "wait" /\ sub[p] # c) =>
       IF Item(c) \in todo[p] THEN pc[c] = "none" ELSE pc[c] \in Ended
  /\ pc[p] = "ok" => pc[c] \in Ended

Nested == \A c \in Dirs \ {WhoWon, top} : NestedIn(c, Above[c])

WaitsRight(d) ==
  pc[d] = "wait" =>
    /\ sub[d] \in Subdirs(d) /\ Item(sub[d]) \notin todo[d]
    /\ pc[sub[d]] # "none"

\* The subdirectories whose files the process for d has added to its list.
Through(d) ==
  {c \in Subdirs(d) : Item(c) \notin todo[d]} \ (IF pc[d] = "wait" THEN {sub[d]} ELSE {})

SumsTo(d, S) == \A n \in Names : VotesFor(list[d], n) = InFiles(S, n)

\* What a directory's file says, by where its process is.
Says(d) ==
  /\ pc[d] \in {"scan", "wait"} /\ ~IsLeaf(d) =>
       /\ Entries(Lines(Result(d))) = <<>>
       /\ d # WhoWon => Lines(Result(d)) = <<>>
       /\ SumsTo(d, Through(d))
  /\ pc[d] = "wait" => ~IsLeaf(d)
  /\ pc[d] = "print" =>
       /\ IsLeaf(d) /\ d \in DOMAIN votes /\ list[d] = Tally(votes[d])
       /\ Entries(Lines(Result(d))) = <<>>
       /\ d # WhoWon => Lines(Result(d)) = <<>>
  /\ pc[d] = "ok" =>
       /\ \A n \in Names : Value(d, n) = VotesFor(list[d], n)
       /\ main = "waiting" => /\ Entries(Lines(Result(d))) = list[d]
                              /\ Counts(list[d]) \in Range(Lines(Result(d)))
       /\ IF IsLeaf(d) THEN d \in DOMAIN votes /\ list[d] = Tally(votes[d])
                       ELSE SumsTo(d, Subdirs(d))
  /\ pc[d] = "failed" /\ ~IsLeaf(d) => \A n \in Names : Value(d, n) = 0

\* But for the one at the top a file's first line says all that the file says.
FirstSaysAll(d) ==
  \A n \in Names :
    Value(d, n) = IF Lines(Result(d)) = <<>> THEN 0
                  ELSE VotesFor(Fields(Head(Lines(Result(d)))), n)

\* Where the winner comes from.
Declared ==
  main = "done" =>
    /\ pc[top] \in Ended
    /\ pc[top] = "ok" => winner = FirstMost(list[top]) /\ Blank \notin NamesIn(list[top])

DirectoriesInv ==
  /\ Typed /\ Started /\ Nested
  /\ \A d \in Dirs : WaitsRight(d) /\ Says(d)
  /\ \A d \in Dirs \ {WhoWon} : FirstSaysAll(d)
  /\ Declared
-----------------------------------------------------------------------------
(***************************************************************************)
(* Paths.                                                                  *)
(***************************************************************************)
Upward(S, d) == d \in S /\ \A x \in S \ {WhoWon} : Above[x] \in S

LEMMA PathLeast ==
  ASSUME NEW d \in Dirs, NEW e
  PROVE  e \in Path[d] <=> e \in Dirs /\ \A S \in SUBSET Dirs : Upward(S, d) => e \in S
  BY DEF Path, Upward

LEMMA PathFacts ==
  ASSUME NEW d \in Dirs
  PROVE  /\ d \in Path[d] /\ Path[d] \in SUBSET Dirs
         /\ \A x \in Path[d] \ {WhoWon} : Above[x] \in Path[d]
  <1>1. d \in Path[d] /\ Path[d] \in SUBSET Dirs
    BY PathLeast DEF Upward
  <1>2. ASSUME NEW x \in Path[d] \ {WhoWon} PROVE Above[x] \in Path[d]
    <2>1. Above[x] \in Dirs
      BY <1>1, DirectoryAssumption
    <2>2. ASSUME NEW S \in SUBSET Dirs, Upward(S, d) PROVE Above[x] \in S
      <3>1. x \in S
        BY <2>2, PathLeast
      <3> QED BY <2>2, <3>1 DEF Upward
    <2> QED BY <2>1, <2>2, PathLeast
  <1> QED BY <1>1, <1>2

\* A path is the path of the directory above, and one component more.
LEMMA PathUp ==
  ASSUME NEW d \in Dirs \ {WhoWon}
  PROVE  /\ Above[d] \in Dirs
         /\ Path[d] = {d} \cup Path[Above[d]]
         /\ d \notin Path[Above[d]]
  <1> DEFINE p == Above[d]
             S == {d} \cup Path[p]
  <1>1. p \in Dirs /\ d \notin Path[p]
    BY DirectoryAssumption
  <1>2. p \in Path[d] /\ d \in Path[d]
    BY PathFacts
  <1>3. p = Above[d]
    OBVIOUS
  <1> HIDE DEF p
  <1>4. ASSUME NEW e \in Path[p] PROVE e \in Path[d]
    <2>1. ASSUME NEW W \in SUBSET Dirs, Upward(W, d) PROVE e \in W
      <3>1. Upward(W, p)
        BY <1>3, <2>1 DEF Upward
      <3> QED BY <1>1, <1>4, <3>1, PathLeast
    <2>2. e \in Dirs
      BY <1>1, <1>4, PathLeast
    <2> QED BY <2>1, <2>2, PathLeast
  <1>5. S \in SUBSET Dirs /\ Upward(S, d)
    BY <1>1, <1>3, PathFacts DEF Upward
  <1>6. Path[d] \subseteq S
    <2> HIDE DEF S
    <2> QED BY <1>5, PathLeast
  <1>7. Path[d] = {d} \cup Path[p]
    BY <1>2, <1>4, <1>6
  <1> QED BY <1>1, <1>3, <1>7

\* A subdirectory lies in what its directory lies in, and is none of that.
LEMMA SubdirFacts ==
  ASSUME NEW d \in Dirs, NEW c \in Subdirs(d)
  PROVE  /\ c \in Dirs \ {WhoWon} /\ Above[c] = d /\ c # d /\ ~IsLeaf(d)
         /\ \A t \in Path[d] : t \in Path[c] /\ t # c
  <1>1. c \in Dirs \ {WhoWon} /\ Above[c] = d
    BY DEF Subdirs
  <1>2. ~IsLeaf(d)
    BY DEF IsLeaf
  <1>3. Path[c] = {c} \cup Path[d] /\ c \notin Path[d] /\ d \in Path[d]
    BY <1>1, PathUp, PathFacts
  <1> QED BY <1>1, <1>2, <1>3

LEMMA SubdirsFinite ==
  ASSUME NEW d \in Dirs
  PROVE  IsFiniteSet(Subdirs(d)) /\ Subdirs(d) \in SUBSET Dirs
  BY DirectoryAssumption, FS_Subset DEF Subdirs
-----------------------------------------------------------------------------
(***************************************************************************)
(* Lists of entries and the votes they hold.                               *)
(***************************************************************************)
\* What an entry is worth to a name.
Worth(e, n) == IF e.name = n THEN e.count ELSE 0
Amounts(l, n) == [k \in DOMAIN l |-> Worth(l[k], n)]

LEMMA EntityFacts ==
  /\ \A e \in Entity : /\ e = Entry(e.name, e.count) /\ e.count \in Nat /\ e.name \in Int
                       /\ (e.name \in Names /\ e.count > 0) \/ e = Entry(WinnerWord, 0)
                       /\ \A n : Worth(e, n) \in Nat
  /\ \A n \in Names, k \in Nat \ {0} : Entry(n, k) \in Entity
  /\ Entry(WinnerWord, 0) \in Entity
  /\ \A n, k : Entry(n, k).name = n /\ Entry(n, k).count = k
  /\ WinnerWord \notin Names /\ WinnerWord # Blank
  BY DirectoryAssumption DEF Entity, Entry, Worth, WinnerWord, Blank

LEMMA ListFacts ==
  ASSUME NEW l \in Lists
  PROVE  /\ Len(l) \in Nat
         /\ DOMAIN l = 1 .. Len(l)
         /\ IsFiniteSet(DOMAIN l)
         /\ \A k \in DOMAIN l : l[k] \in Entity
         /\ \A n : Amounts(l, n) \in [DOMAIN l -> Nat]
         /\ \A n : Amounts(l, n) \in [DOMAIN l -> Int]
         /\ \A n : VotesFor(l, n) = SumFunctionOnSet(Amounts(l, n), DOMAIN l)
         /\ \A n : VotesFor(l, n) \in Nat
  <1>1. Len(l) \in Nat /\ DOMAIN l = 1 .. Len(l) /\ \A k \in DOMAIN l : l[k] \in Entity
    <2> DEFINE E == Entity
    <2>1. l \in Seq(E)
      BY DEF Lists
    <2> HIDE DEF E
    <2>2. Len(l) \in Nat /\ DOMAIN l = 1 .. Len(l) /\ \A k \in DOMAIN l : l[k] \in E
      BY <2>1
    <2> QED BY <2>2 DEF E
  <1>2. IsFiniteSet(DOMAIN l)
    BY <1>1, FS_Interval
  <1>3. \A n : VotesFor(l, n) = SumFunctionOnSet(Amounts(l, n), DOMAIN l)
    BY DEF VotesFor, Amounts, Worth
  <1>4. ASSUME NEW n
        PROVE  Amounts(l, n) \in [DOMAIN l -> Nat] /\ VotesFor(l, n) \in Nat
    <2>1. Amounts(l, n) \in [DOMAIN l -> Nat]
      BY <1>1, EntityFacts DEF Amounts
    <2>2. DOMAIN l \in SUBSET DOMAIN l
      OBVIOUS
    <2>3. SumFunctionOnSet(Amounts(l, n), DOMAIN l) \in Nat
      BY <1>2, <2>1, <2>2, SumNat
    <2> QED BY <1>3, <2>1, <2>3
  <1>5. \A f \in [DOMAIN l -> Nat] : f \in [DOMAIN l -> Int]
    OBVIOUS
  <1> QED BY <1>1, <1>2, <1>3, <1>4, <1>5

LEMMA VotesOfNone == <<>> \in Lists /\ \A n : VotesFor(<<>>, n) = 0
  <1>1. <<>> \in Lists /\ DOMAIN <<>> = {}
    BY DEF Lists
  <1>2. ASSUME NEW n PROVE VotesFor(<<>>, n) = 0
    <2>1. Amounts(<<>>, n) \in [DOMAIN <<>> -> Int] /\ IsFiniteSet(DOMAIN <<>>)
      BY <1>1, ListFacts
    <2>2. SumFunctionOnSet(Amounts(<<>>, n), {}) = 0
      BY <2>1, SumEmpty
    <2>3. VotesFor(<<>>, n) = SumFunctionOnSet(Amounts(<<>>, n), DOMAIN <<>>)
      BY <1>1, ListFacts
    <2> QED BY <1>1, <2>2, <2>3
  <1> QED BY <1>1, <1>2

LEMMA VotesAppended ==
  ASSUME NEW l \in Lists, NEW e \in Entity
  PROVE  /\ Append(l, e) \in Lists
         /\ \A n : VotesFor(Append(l, e), n) = VotesFor(l, n) + Worth(e, n)
  <1> DEFINE new == Append(l, e)
             m == Len(l)
             D == DOMAIN new
  <1>1. /\ new \in Lists /\ m \in Nat /\ Len(new) = m + 1
        /\ D = 1 .. (m + 1) /\ DOMAIN l = 1 .. m
        /\ new[m + 1] = e /\ \A k \in 1 .. m : new[k] = l[k]
    <2> DEFINE E == Entity
    <2>1. l \in Seq(E) /\ e \in E
      BY DEF Lists
    <2> HIDE DEF E
    <2>2. /\ new \in Seq(E) /\ m \in Nat /\ Len(new) = m + 1
          /\ D = 1 .. (m + 1) /\ DOMAIN l = 1 .. m
          /\ new[m + 1] = e /\ \A k \in 1 .. m : new[k] = l[k]
      BY <2>1
    <2> QED BY <2>2 DEF E, Lists
  <1> HIDE DEF new, m
  <1>2. ASSUME NEW n PROVE VotesFor(new, n) = VotesFor(l, n) + Worth(e, n)
    <2> DEFINE f == Amounts(new, n)
               h == Amounts(l, n)
               E == 1 .. m
    <2>1. /\ f \in [D -> Int] /\ IsFiniteSet(D) /\ VotesFor(new, n) = SumFunctionOnSet(f, D)
          /\ h \in [DOMAIN l -> Int] /\ IsFiniteSet(DOMAIN l)
          /\ VotesFor(l, n) = SumFunctionOnSet(h, DOMAIN l) /\ VotesFor(l, n) \in Nat
      BY <1>1, ListFacts
    <2>2. f[m + 1] = Worth(e, n) /\ \A k \in E : f[k] = h[k]
      BY <1>1 DEF Amounts
    <2>3. m + 1 \in D /\ D \in SUBSET D /\ D \ {m + 1} = E /\ E \in SUBSET D /\ E \in SUBSET DOMAIN l
      BY <1>1
    <2> HIDE DEF f, h, D, E
    <2>4. SumFunctionOnSet(f, D) = f[m + 1] + SumFunctionOnSet(f, D \ {m + 1})
      BY <2>1, <2>3, SumAny
    <2>5. SumFunctionOnSet(f, E) = SumFunctionOnSet(h, E)
      BY <2>1, <2>2, <2>3, SumSame
    <2>6. E = DOMAIN l
      BY <1>1 DEF E
    <2>7. Worth(e, n) \in Nat
      BY EntityFacts
    <2> QED BY <2>1, <2>2, <2>3, <2>4, <2>5, <2>6, <2>7
  <1> QED BY <1>1, <1>2 DEF new

\* One entry's count replaced.
LEMMA VotesReplaced ==
  ASSUME NEW l \in Lists, NEW k \in DOMAIN l, NEW e \in Entity, e.name = l[k].name
  PROVE  /\ [l EXCEPT ![k] = e] \in Lists
         /\ DOMAIN [l EXCEPT ![k] = e] = DOMAIN l
         /\ \A j \in DOMAIN l : [l EXCEPT ![k] = e][j].name = l[j].name
         /\ \A n : VotesFor([l EXCEPT ![k] = e], n) = VotesFor(l, n) + (Worth(e, n) - Worth(l[k], n))
  <1> DEFINE new == [l EXCEPT ![k] = e]
             D == DOMAIN l
  <1>1. new \in Lists
    BY ExceptSeq DEF Lists
  <1>2. DOMAIN new = D /\ \A j \in D : new[j] = IF j = k THEN e ELSE l[j]
    <2>1. l = [j \in D |-> l[j]]
      BY DEF Lists
    <2> QED BY <2>1
  <1>3. \A j \in D : new[j].name = l[j].name
    BY <1>2
  <1> HIDE DEF new
  <1>4. ASSUME NEW n PROVE VotesFor(new, n) = VotesFor(l, n) + (Worth(e, n) - Worth(l[k], n))
    <2> DEFINE f == Amounts(l, n)
               h == Amounts(new, n)
    <2>1. /\ f \in [D -> Int] /\ IsFiniteSet(D) /\ VotesFor(l, n) = SumFunctionOnSet(f, D)
          /\ h \in [D -> Int] /\ VotesFor(new, n) = SumFunctionOnSet(h, D)
      BY <1>1, <1>2, ListFacts
    <2>2. \A j \in D \ {k} : f[j] = h[j]
      BY <1>2 DEF Amounts
    <2>3. f[k] = Worth(l[k], n) /\ h[k] = Worth(e, n)
      BY <1>2 DEF Amounts
    <2>4. D \in SUBSET D
      OBVIOUS
    <2> HIDE DEF f, h, D
    <2>5. SumFunctionOnSet(h, D) = SumFunctionOnSet(f, D) + (h[k] - f[k])
      BY <2>1, <2>2, <2>4, SumChange DEF D
    <2> QED BY <2>1, <2>3, <2>5
  <1> QED BY <1>1, <1>2, <1>3, <1>4 DEF new

\* Adding an entry adds what it is worth, and enters no name twice.
LEMMA AddRight ==
  ASSUME NEW l \in Lists, NEW e \in Entity
  PROVE  /\ Add(l, e.name, e.count) \in Lists
         /\ Distinct(l) => Distinct(Add(l, e.name, e.count))
         /\ \A n : VotesFor(Add(l, e.name, e.count), n) = VotesFor(l, n) + Worth(e, n)
  <1> DEFINE same == {i \in DOMAIN l : l[i].name = e.name}
             m == Min(same)
             x == Entry(e.name, l[m].count + e.count)
  <1>0. e = Entry(e.name, e.count) /\ e.count \in Nat
    BY EntityFacts
  <1>1. CASE e.name \in NamesIn(l)
    <2>1. Add(l, e.name, e.count) = [l EXCEPT ![m] = x]
      BY <1>1 DEF Add
    <2>2. m \in same
      <3>1. same \in SUBSET Nat /\ same # {}
        BY <1>1, ListFacts DEF NamesIn
      <3> HIDE DEF same
      <3> QED BY <3>1, MinInside
    <2> HIDE DEF m
    <2>3. m \in DOMAIN l /\ l[m].name = e.name /\ l[m] \in Entity
      BY <2>2, ListFacts
    <2>4. x \in Entity /\ x.name = l[m].name
          /\ \A n : Worth(x, n) - Worth(l[m], n) = Worth(e, n)
      <3>1. /\ l[m].count \in Nat
            /\ (l[m].name \in Names /\ l[m].count > 0) \/ l[m] = Entry(WinnerWord, 0)
            /\ (e.name \in Names /\ e.count > 0) \/ e = Entry(WinnerWord, 0)
        BY <2>3, EntityFacts
      <3>2. x.name = e.name /\ x.count = l[m].count + e.count
        BY EntityFacts
      <3>3. x \in Entity
        <4>1. CASE e.name \in Names
          <5>1. l[m].count > 0 /\ e.count > 0
            <6>1. l[m] # Entry(WinnerWord, 0) /\ e # Entry(WinnerWord, 0)
              BY <2>3, <4>1, EntityFacts
            <6> QED BY <3>1, <6>1
          <5>2. l[m].count + e.count \in Nat \ {0}
            BY <1>0, <3>1, <5>1
          <5> QED BY <4>1, <5>2, EntityFacts
        <4>2. CASE e.name \notin Names
          <5>1. e.name = WinnerWord /\ e.count = 0 /\ l[m].count = 0
            BY <2>3, <3>1, <4>2, EntityFacts
          <5>2. x = Entry(WinnerWord, 0)
            BY <5>1
          <5> QED BY <5>2, EntityFacts
        <4> QED BY <4>1, <4>2
      <3> HIDE DEF x
      <3> QED BY <1>0, <2>3, <3>1, <3>2, <3>3 DEF Worth
    <2> HIDE DEF x
    <2>5. ASSUME Distinct(l) PROVE Distinct([l EXCEPT ![m] = x])
      <3>1. /\ DOMAIN [l EXCEPT ![m] = x] = DOMAIN l
            /\ \A j \in DOMAIN l : [l EXCEPT ![m] = x][j].name = l[j].name
        BY <2>3, <2>4, VotesReplaced
      <3> QED BY <2>5, <3>1 DEF Distinct
    <2>6. /\ [l EXCEPT ![m] = x] \in Lists
          /\ \A n : VotesFor([l EXCEPT ![m] = x], n) = VotesFor(l, n) + (Worth(x, n) - Worth(l[m], n))
      <3> DEFINE new == [l EXCEPT ![m] = x]
      <3>1. x \in Entity /\ x.name = l[m].name /\ m \in DOMAIN l
        BY <2>3, <2>4
      <3>2. new \in Lists
        BY <3>1, VotesReplaced
      <3>3. ASSUME NEW n PROVE VotesFor(new, n) = VotesFor(l, n) + (Worth(x, n) - Worth(l[m], n))
        BY <3>1, VotesReplaced
      <3> QED BY <3>2, <3>3
    <2>7. \A n : VotesFor([l EXCEPT ![m] = x], n) = VotesFor(l, n) + Worth(e, n)
      BY <2>4, <2>6
    <2> QED BY <2>1, <2>5, <2>6, <2>7
  <1>2. CASE e.name \notin NamesIn(l)
    <2>1. Add(l, e.name, e.count) = Append(l, e)
      BY <1>0, <1>2 DEF Add
    <2>2. ASSUME Distinct(l) PROVE Distinct(Append(l, e))
      <3> DEFINE E == Entity
                 new == Append(l, e)
                 k == Len(l)
      <3>1. l \in Seq(E) /\ e \in E
        BY DEF Lists
      <3> HIDE DEF E
      <3>2. /\ k \in Nat /\ DOMAIN l = 1 .. k /\ DOMAIN new = 1 .. k + 1
            /\ new[k + 1] = e /\ \A j \in 1 .. k : new[j] = l[j]
        BY <3>1
      <3>3. \A j \in 1 .. k : l[j].name # e.name
        BY <1>2, <3>2 DEF NamesIn
      <3>4. \A j \in 1 .. k + 1 : j \in 1 .. k \/ j = k + 1
        BY <3>2
      <3> HIDE DEF new, k
      <3>5. Distinct(new)
        BY <2>2, <3>2, <3>3, <3>4 DEF Distinct
      <3> QED BY <3>5 DEF new
    <2> QED BY <2>1, <2>2, VotesAppended
  <1> QED BY <1>1, <1>2
-----------------------------------------------------------------------------
(***************************************************************************)
(* Lines, and what the folds make of them.                                 *)
(***************************************************************************)
LEMMA LineFacts ==
  /\ \A x \in Line : Fields(x) \in Lists
  /\ \A d, t \in Dirs : Cycle(d, t) \in Line /\ Fields(Cycle(d, t)) = <<>>
  /\ \A l \in Lists : Counts(l) \in Line /\ Fields(Counts(l)) = l
  /\ \A n \in Names \cup {Blank} :
       Winner(n) \in Line /\ Fields(Winner(n)) = <<Entry(WinnerWord, 0)>>
  <1>1. ASSUME NEW x \in Line PROVE Fields(x) \in Lists
    <2>1. CASE x \in [kind : {"cycle"}, from : Dirs, to : Dirs]
      BY <2>1, VotesOfNone DEF Fields
    <2>2. CASE x \in [kind : {"counts"}, list : Lists]
      BY <2>2 DEF Fields
    <2>3. CASE x \in [kind : {"winner"}, name : Names \cup {Blank}]
      <3>1. <<Entry(WinnerWord, 0)>> \in Seq(Entity)
        BY EntityFacts
      <3> QED BY <2>3, <3>1 DEF Fields, Lists
    <2> QED BY <2>1, <2>2, <2>3 DEF Line
  <1>2. \A d, t \in Dirs : Cycle(d, t) \in Line /\ Fields(Cycle(d, t)) = <<>>
    BY DEF Cycle, Line, Fields
  <1>3. \A l \in Lists : Counts(l) \in Line /\ Fields(Counts(l)) = l
    BY DEF Counts, Line, Fields
  <1>4. \A n \in Names \cup {Blank} :
          Winner(n) \in Line /\ Fields(Winner(n)) = <<Entry(WinnerWord, 0)>>
    BY DEF Winner, Line, Fields
  <1> QED BY <1>1, <1>2, <1>3, <1>4

\* The list after each entry of the line.
LEMMA MergeStages ==
  ASSUME NEW l \in Lists, NEW line \in Lists
  PROVE  \E h : /\ h[0] = l
                /\ \A k \in 1 .. Len(line) : h[k] = Add(h[k - 1], line[k].name, line[k].count)
                /\ Merge(l, line) = h[Len(line)]
  <1> DEFINE n == Len(line)
             D == 1 .. n
             V == Lists
             base == l
             g == [p \in D \X V |-> Add(p[2], line[p[1]].name, line[p[1]].count)]
             Iter(f) == [s \in SUBSET D |-> IF s = {} THEN base
                                           ELSE Add(f[s \ {Max(s)}], line[Max(s)].name, line[Max(s)].count)]
             chosen == CHOOSE f : f = Iter(f)
             h == [k \in 0 .. n |-> chosen[1 .. k]]
  <1>1. n \in Nat /\ DOMAIN line = D /\ base \in V
    BY ListFacts
  <1>2. g \in [D \X V -> V]
    <2>1. ASSUME NEW p \in D \X V PROVE Add(p[2], line[p[1]].name, line[p[1]].count) \in V
      <3>1. p[2] \in Lists /\ line[p[1]] \in Entity
        BY <1>1, ListFacts
      <3> QED BY <3>1, AddRight
    <2> HIDE DEF D, V
    <2> QED BY <2>1
  <1>3. PICK f \in [SUBSET D -> V] : SeqSolves(f, n, base, g)
    <2> HIDE DEF g, V, base, n
    <2> QED BY <1>1, <1>2, SeqRecursion
  <1>4. ASSUME NEW s \in SUBSET D
        PROVE  f[s] = IF s = {} THEN base ELSE Add(f[s \ {Max(s)}], line[Max(s)].name, line[Max(s)].count)
    <2> HIDE DEF V, base, n
    <2>1. CASE s = {}
      BY <1>3, <2>1 DEF SeqSolves
    <2>2. CASE s # {}
      <3>1. Max(s) \in D
        BY <1>1, <2>2, MaxInside
      <3>2. <<Max(s), f[s \ {Max(s)}]>> \in D \X V
        BY <1>3, <3>1
      <3>3. g[<<Max(s), f[s \ {Max(s)}]>>] = Add(f[s \ {Max(s)}], line[Max(s)].name, line[Max(s)].count)
        BY <3>2
      <3> HIDE DEF g
      <3> QED BY <1>3, <2>2, <3>3 DEF SeqSolves
    <2> QED BY <2>1, <2>2
  <1>5. f = Iter(f)
    <2> HIDE DEF D, g, V, base
    <2> QED BY <1>3, <1>4
  <1>6. chosen = Iter(chosen)
    <2> HIDE DEF Iter
    <2> QED BY <1>5
  <1>7. Merge(l, line) = chosen[D]
    BY <1>1 DEF Merge, FoldLeft, MapThenFoldSet
  <1>8. h[0] = base
    <2>1. 1 .. 0 = {} /\ {} \in SUBSET D
      OBVIOUS
    <2>2. chosen[{}] = base
      BY <1>6, <2>1
    <2> HIDE DEF chosen, base, n
    <2> QED BY <1>1, <2>1, <2>2
  <1>9. ASSUME NEW k \in D PROVE h[k] = Add(h[k - 1], line[k].name, line[k].count)
    <2>1. 1 .. k \in SUBSET D /\ 1 .. k # {} /\ k - 1 \in 0 .. n /\ k \in 0 .. n
      BY <1>1
    <2>2. Max(1 .. k) = k /\ (1 .. k) \ {Max(1 .. k)} = 1 .. k - 1
      BY <1>1, MaxOfInterval
    <2>3. chosen[1 .. k] = Add(chosen[(1 .. k) \ {Max(1 .. k)}], line[Max(1 .. k)].name, line[Max(1 .. k)].count)
      <3> HIDE DEF chosen, base
      <3> QED BY <1>6, <2>1
    <2> HIDE DEF chosen, n
    <2> QED BY <2>1, <2>2, <2>3
  <1>10. Merge(l, line) = h[n]
    <2> HIDE DEF chosen, n
    <2> QED BY <1>1, <1>7
  <1> HIDE DEF h
  <1> QED BY <1>8, <1>9, <1>10

\* The votes in the first k entries of a list.
Prefix(l, k, n) == SumFunctionOnSet(Amounts(l, n), 1 .. k)

LEMMA PrefixFacts ==
  ASSUME NEW l \in Lists, NEW n
  PROVE  /\ Prefix(l, 0, n) = 0
         /\ Prefix(l, Len(l), n) = VotesFor(l, n)
         /\ \A k \in 1 .. Len(l) : /\ Prefix(l, k - 1, n) \in Nat
                                   /\ Prefix(l, k, n) = Prefix(l, k - 1, n) + Worth(l[k], n)
  <1> DEFINE f == Amounts(l, n)
             D == 1 .. Len(l)
  <1>1. /\ Len(l) \in Nat /\ DOMAIN l = D /\ IsFiniteSet(D)
        /\ f \in [D -> Int] /\ f \in [D -> Nat] /\ VotesFor(l, n) = SumFunctionOnSet(f, D)
        /\ \A k \in D : f[k] = Worth(l[k], n)
    BY ListFacts DEF Amounts
  <1>2. Prefix(l, 0, n) = 0
    <2>1. 1 .. 0 = {}
      OBVIOUS
    <2> HIDE DEF f, D
    <2>2. SumFunctionOnSet(f, {}) = 0
      BY <1>1, SumEmpty
    <2> QED BY <2>1, <2>2 DEF Prefix, f
  <1>3. ASSUME NEW k \in D
        PROVE  /\ Prefix(l, k - 1, n) \in Nat
               /\ Prefix(l, k, n) = Prefix(l, k - 1, n) + Worth(l[k], n)
    <2> DEFINE T == 1 .. k
               R == 1 .. k - 1
    <2>1. T \in SUBSET D /\ R \in SUBSET D /\ k \in T /\ T \ {k} = R
      BY <1>1
    <2>2. Prefix(l, k, n) = SumFunctionOnSet(f, T) /\ Prefix(l, k - 1, n) = SumFunctionOnSet(f, R)
      BY DEF Prefix
    <2> HIDE DEF f, D, T, R
    <2>3. SumFunctionOnSet(f, T) = f[k] + SumFunctionOnSet(f, T \ {k})
      BY <1>1, <2>1, SumAny
    <2>4. SumFunctionOnSet(f, R) \in Nat
      BY <1>1, <2>1, SumNat
    <2>5. f[k] \in Nat /\ f[k] = Worth(l[k], n)
      BY <1>1
    <2> QED BY <2>1, <2>2, <2>3, <2>4, <2>5
  <1> QED BY <1>1, <1>2, <1>3 DEF Prefix

\* A line of entries adds what they are worth.
LEMMA MergeRight ==
  ASSUME NEW l \in Lists, NEW line \in Lists
  PROVE  /\ Merge(l, line) \in Lists
         /\ Distinct(l) => Distinct(Merge(l, line))
         /\ \A n : VotesFor(Merge(l, line), n) = VotesFor(l, n) + VotesFor(line, n)
  <1>1. PICK h : /\ h[0] = l
                 /\ \A k \in 1 .. Len(line) : h[k] = Add(h[k - 1], line[k].name, line[k].count)
                 /\ Merge(l, line) = h[Len(line)]
    BY MergeStages
  <1> DEFINE m == Len(line)
             Good(x, k) == /\ x \in Lists
                           /\ Distinct(l) => Distinct(x)
                           /\ \A n : VotesFor(x, n) = VotesFor(l, n) + Prefix(line, k, n)
             Held == {k \in 0 .. m : Good(h[k], k)}
  <1>2. m \in Nat /\ \A k \in 1 .. m : line[k] \in Entity
    BY ListFacts
  <1>3. 0 \in Held
    <2>1. \A n : VotesFor(l, n) \in Nat /\ Prefix(line, 0, n) = 0
      BY ListFacts, PrefixFacts
    <2>2. Good(l, 0)
      BY <2>1
    <2> HIDE DEF Good
    <2> QED BY <1>1, <1>2, <2>2
  <1>4. ASSUME NEW k \in 1 .. m, k - 1 \in Held PROVE k \in Held
    <2>1. Good(h[k - 1], k - 1) /\ line[k] \in Entity /\ k \in 0 .. m
      BY <1>2, <1>4
    <2>2. h[k] = Add(h[k - 1], line[k].name, line[k].count)
      BY <1>1
    <2>3. /\ h[k] \in Lists
          /\ Distinct(h[k - 1]) => Distinct(h[k])
          /\ \A n : VotesFor(h[k], n) = VotesFor(h[k - 1], n) + Worth(line[k], n)
      BY <2>1, <2>2, AddRight
    <2>4. ASSUME NEW n PROVE VotesFor(h[k], n) = VotesFor(l, n) + Prefix(line, k, n)
      <3>1. /\ Prefix(line, k - 1, n) \in Nat /\ VotesFor(l, n) \in Nat
            /\ Prefix(line, k, n) = Prefix(line, k - 1, n) + Worth(line[k], n)
            /\ Worth(line[k], n) \in Nat
        BY <2>1, PrefixFacts, ListFacts, EntityFacts
      <3>2. VotesFor(h[k - 1], n) = VotesFor(l, n) + Prefix(line, k - 1, n)
        BY <2>1
      <3> QED BY <2>3, <3>1, <3>2
    <2> QED BY <2>1, <2>3, <2>4
  <1>5. 0 .. m \subseteq Held
    <2> HIDE DEF Held, m
    <2> QED BY <1>2, <1>3, <1>4, UpTo
  <1>6. Good(h[m], m)
    BY <1>2, <1>5
  <1> QED BY <1>1, <1>6, PrefixFacts

\* The entries of the first lines.
LEMMA EntriesStages ==
  ASSUME NEW lines \in Seq(Line)
  PROVE  \E h : /\ h[0] = <<>>
                /\ \A k \in 1 .. Len(lines) : h[k] = h[k - 1] \o Fields(lines[k])
                /\ Entries(lines) = h[Len(lines)]
  <1> DEFINE n == Len(lines)
             D == 1 .. n
             V == Lists
             base == <<>>
             g == [p \in D \X V |-> p[2] \o Fields(lines[p[1]])]
             Iter(f) == [s \in SUBSET D |-> IF s = {} THEN base
                                           ELSE f[s \ {Max(s)}] \o Fields(lines[Max(s)])]
             chosen == CHOOSE f : f = Iter(f)
             h == [k \in 0 .. n |-> chosen[1 .. k]]
  <1>1. n \in Nat /\ DOMAIN lines = D /\ base \in V
    BY VotesOfNone
  <1>2. g \in [D \X V -> V]
    <2>1. ASSUME NEW p \in D \X V PROVE p[2] \o Fields(lines[p[1]]) \in V
      <3>1. p[2] \in Lists /\ lines[p[1]] \in Line
        BY <1>1
      <3>2. Fields(lines[p[1]]) \in Lists
        BY <3>1, LineFacts
      <3> QED BY <3>1, <3>2, ConcatProperties DEF Lists
    <2> HIDE DEF D, V
    <2> QED BY <2>1
  <1>3. PICK f \in [SUBSET D -> V] : SeqSolves(f, n, base, g)
    <2> HIDE DEF g, V, base, n
    <2> QED BY <1>1, <1>2, SeqRecursion
  <1>4. ASSUME NEW s \in SUBSET D
        PROVE  f[s] = IF s = {} THEN base ELSE f[s \ {Max(s)}] \o Fields(lines[Max(s)])
    <2> HIDE DEF V, base, n
    <2>1. CASE s = {}
      BY <1>3, <2>1 DEF SeqSolves
    <2>2. CASE s # {}
      <3>1. Max(s) \in D
        BY <1>1, <2>2, MaxInside
      <3>2. <<Max(s), f[s \ {Max(s)}]>> \in D \X V
        BY <1>3, <3>1
      <3>3. g[<<Max(s), f[s \ {Max(s)}]>>] = f[s \ {Max(s)}] \o Fields(lines[Max(s)])
        BY <3>2
      <3> HIDE DEF g
      <3> QED BY <1>3, <2>2, <3>3 DEF SeqSolves
    <2> QED BY <2>1, <2>2
  <1>5. f = Iter(f)
    <2> HIDE DEF D, g, V, base
    <2> QED BY <1>3, <1>4
  <1>6. chosen = Iter(chosen)
    <2> HIDE DEF Iter
    <2> QED BY <1>5
  <1>7. Entries(lines) = chosen[D]
    BY <1>1 DEF Entries, FoldLeft, MapThenFoldSet
  <1>8. h[0] = base
    <2>1. 1 .. 0 = {} /\ {} \in SUBSET D
      OBVIOUS
    <2>2. chosen[{}] = base
      BY <1>6, <2>1
    <2> HIDE DEF chosen, base, n
    <2> QED BY <1>1, <2>1, <2>2
  <1>9. ASSUME NEW k \in D PROVE h[k] = h[k - 1] \o Fields(lines[k])
    <2>1. 1 .. k \in SUBSET D /\ 1 .. k # {} /\ k - 1 \in 0 .. n /\ k \in 0 .. n
      <3> HIDE DEF V, base, n
      <3>1. n \in Nat /\ k \in Nat /\ 1 <= k /\ k <= n
        BY <1>1
      <3>2. k \in 1 .. k /\ k - 1 \in 0 .. n /\ k \in 0 .. n
        BY <3>1
      <3>3. \A x \in 1 .. k : x \in D
        BY <3>1
      <3> QED BY <3>2, <3>3
    <2>2. Max(1 .. k) = k /\ (1 .. k) \ {Max(1 .. k)} = 1 .. k - 1
      BY <1>1, MaxOfInterval
    <2>3. chosen[1 .. k] = chosen[(1 .. k) \ {Max(1 .. k)}] \o Fields(lines[Max(1 .. k)])
      <3> HIDE DEF chosen, base
      <3> QED BY <1>6, <2>1
    <2> HIDE DEF chosen, n
    <2> QED BY <2>1, <2>2, <2>3
  <1>10. Entries(lines) = h[n]
    <2> HIDE DEF chosen, n
    <2> QED BY <1>1, <1>7
  <1> HIDE DEF h
  <1> QED BY <1>8, <1>9, <1>10

\* A line at the end of a file puts its entries at the end.
LEMMA EntriesRight ==
  /\ Entries(<<>>) = <<>>
  /\ \A lines \in Seq(Line) : Entries(lines) \in Lists
  /\ \A lines \in Seq(Line), x \in Line :
       Append(lines, x) \in Seq(Line) /\ Entries(Append(lines, x)) = Entries(lines) \o Fields(x)
  <1>1. Entries(<<>>) = <<>>
    <2>1. <<>> \in Seq(Line) /\ Len(<<>>) = 0
      OBVIOUS
    <2> QED BY <2>1, EntriesStages
  <1>2. ASSUME NEW lines \in Seq(Line), NEW h, h[0] = <<>>,
               \A k \in 1 .. Len(lines) : h[k] = h[k - 1] \o Fields(lines[k])
        PROVE  \A k \in 0 .. Len(lines) : h[k] \in Lists
    <2> DEFINE m == Len(lines)
               Held == {k \in 0 .. m : h[k] \in Lists}
    <2>1. m \in Nat /\ \A k \in 1 .. m : lines[k] \in Line
      OBVIOUS
    <2>2. 0 \in Held
      BY <1>2, <2>1, VotesOfNone
    <2>3. ASSUME NEW k \in 1 .. m, k - 1 \in Held PROVE k \in Held
      <3>1. h[k - 1] \in Lists /\ Fields(lines[k]) \in Lists /\ k \in 0 .. m
        BY <2>1, <2>3, LineFacts
      <3>2. h[k - 1] \o Fields(lines[k]) \in Lists
        BY <3>1, ConcatProperties DEF Lists
      <3> QED BY <1>2, <3>1, <3>2
    <2>4. 0 .. m \subseteq Held
      <3> HIDE DEF Held, m
      <3> QED BY <2>1, <2>2, <2>3, UpTo
    <2> QED BY <2>4
  <1>3. ASSUME NEW lines \in Seq(Line) PROVE Entries(lines) \in Lists
    <2>1. PICK h : /\ h[0] = <<>>
                   /\ \A k \in 1 .. Len(lines) : h[k] = h[k - 1] \o Fields(lines[k])
                   /\ Entries(lines) = h[Len(lines)]
      BY EntriesStages
    <2>2. Len(lines) \in 0 .. Len(lines)
      OBVIOUS
    <2> QED BY <1>2, <2>1, <2>2
  <1>4. ASSUME NEW lines \in Seq(Line), NEW x \in Line
        PROVE  /\ Append(lines, x) \in Seq(Line)
               /\ Entries(Append(lines, x)) = Entries(lines) \o Fields(x)
    <2> DEFINE new == Append(lines, x)
               m == Len(lines)
    <2>1. /\ new \in Seq(Line) /\ m \in Nat /\ Len(new) = m + 1 /\ new[m + 1] = x
          /\ \A k \in 1 .. m : new[k] = lines[k]
      OBVIOUS
    <2>2. PICK h : /\ h[0] = <<>>
                   /\ \A k \in 1 .. Len(lines) : h[k] = h[k - 1] \o Fields(lines[k])
                   /\ Entries(lines) = h[Len(lines)]
      BY EntriesStages
    <2> HIDE DEF new
    <2>3. PICK g : /\ g[0] = <<>>
                   /\ \A k \in 1 .. Len(new) : g[k] = g[k - 1] \o Fields(new[k])
                   /\ Entries(new) = g[Len(new)]
      BY <2>1, EntriesStages
    <2> DEFINE Held == {k \in 0 .. m : g[k] = h[k]}
    <2>4. 0 \in Held
      BY <2>1, <2>2, <2>3
    <2>5. ASSUME NEW k \in 1 .. m, k - 1 \in Held PROVE k \in Held
      <3>1. k \in 1 .. Len(new) /\ k \in 0 .. m /\ new[k] = lines[k] /\ g[k - 1] = h[k - 1]
        BY <2>1, <2>5
      <3> QED BY <2>2, <2>3, <3>1
    <2>6. 0 .. m \subseteq Held
      <3> HIDE DEF Held, m
      <3> QED BY <2>1, <2>4, <2>5, UpTo
    <2>7. g[m] = h[m] /\ m + 1 \in 1 .. Len(new) /\ (m + 1) - 1 = m
      BY <2>1, <2>6
    <2>8. Entries(new) = g[m] \o Fields(x)
      BY <2>1, <2>3, <2>7
    <2> QED BY <2>1, <2>2, <2>7, <2>8 DEF new
  <1> QED BY <1>1, <1>3, <1>4

\* What each kind of line adds.
LEMMA EntriesOfLines ==
  ASSUME NEW lines \in Seq(Line)
  PROVE  /\ \A d, t \in Dirs : Entries(Append(lines, Cycle(d, t))) = Entries(lines)
         /\ \A l \in Lists : Entries(lines) = <<>> => Entries(Append(lines, Counts(l))) = l
         /\ \A n \in Names \cup {Blank} :
              Entries(Append(lines, Winner(n))) = Append(Entries(lines), Entry(WinnerWord, 0))
  <1>1. Entries(lines) \in Seq(Entity)
    BY EntriesRight DEF Lists
  <1>2. ASSUME NEW d \in Dirs, NEW t \in Dirs
        PROVE  Entries(Append(lines, Cycle(d, t))) = Entries(lines)
    <2>1. Entries(Append(lines, Cycle(d, t))) = Entries(lines) \o <<>>
      <3> DEFINE x == Cycle(d, t)
      <3>1. x \in Line /\ Fields(x) = <<>>
        BY LineFacts
      <3> HIDE DEF x
      <3>2. Entries(Append(lines, x)) = Entries(lines) \o Fields(x)
        BY <3>1, EntriesRight
      <3> QED BY <3>1, <3>2 DEF x
    <2> QED BY <1>1, <2>1, ConcatEmptySeq
  <1>3. ASSUME NEW l \in Lists, Entries(lines) = <<>>
        PROVE  Entries(Append(lines, Counts(l))) = l
    <2>1. Entries(Append(lines, Counts(l))) = Entries(lines) \o l
      BY LineFacts, EntriesRight
    <2>2. l \in Seq(Entity)
      BY DEF Lists
    <2> QED BY <1>3, <2>1, <2>2, ConcatEmptySeq
  <1>4. ASSUME NEW n \in Names \cup {Blank}
        PROVE  Entries(Append(lines, Winner(n))) = Append(Entries(lines), Entry(WinnerWord, 0))
    <2>1. Entries(Append(lines, Winner(n))) = Entries(lines) \o <<Entry(WinnerWord, 0)>>
      BY LineFacts, EntriesRight
    <2>2. Entry(WinnerWord, 0) \in Entity
      BY EntityFacts
    <2> QED BY <1>1, <2>1, <2>2, AppendIsConcat
  <1> QED BY <1>2, <1>3, <1>4
-----------------------------------------------------------------------------
(***************************************************************************)
(* The counting of a votes.txt.                                            *)
(***************************************************************************)
\* Among finitely many places there is one with the largest value.
LEMMA LargestValue ==
  ASSUME NEW N \in Nat, NEW f \in [1 .. N -> Nat], NEW J \in SUBSET (1 .. N), J # {}
  PROVE  \E m \in J : \A j \in J : f[j] <= f[m]
  <1> DEFINE Has(I) == I # {} => \E m \in I : \A j \in I : f[j] <= f[m]
             Held == {k \in 0 .. N : \A I \in SUBSET (1 .. k) : Has(I)}
  <1>1. 0 \in Held
    <2>1. \A I \in SUBSET (1 .. 0) : I = {}
      OBVIOUS
    <2>2. Has({})
      OBVIOUS
    <2> HIDE DEF Has
    <2>3. \A I \in SUBSET (1 .. 0) : Has(I)
      BY <2>1, <2>2
    <2> QED BY <2>3
  <1>2. ASSUME NEW k \in 1 .. N, k - 1 \in Held PROVE k \in Held
    <2>1. ASSUME NEW I \in SUBSET (1 .. k) PROVE Has(I)
      <3> DEFINE K == I \ {k}
      <3>1. K \in SUBSET (1 .. k - 1) /\ \A j \in I : j \in 1 .. N /\ f[j] \in Nat
        OBVIOUS
      <3>2. Has(K)
        <4> HIDE DEF Has, K
        <4> QED BY <1>2, <3>1
      <3>3. CASE K = {}
        <4>1. \A j \in I : j = k
          BY <3>3
        <4>2. CASE I = {}
          BY <4>2
        <4>3. CASE I # {}
          <5>1. k \in I /\ f[k] \in Nat
            BY <3>1, <4>1, <4>3
          <5>2. f[k] <= f[k]
            BY <5>1
          <5>3. \A j \in I : f[j] <= f[k]
            BY <4>1, <5>2
          <5> QED BY <5>1, <5>3
        <4> QED BY <4>2, <4>3
      <3>4. CASE K # {}
        <4>1. PICK m \in K : \A j \in K : f[j] <= f[m]
          BY <3>2, <3>4
        <4>2. CASE k \in I /\ f[m] <= f[k]
          <5>1. \A j \in I : j = k \/ j \in K
            OBVIOUS
          <5>2. \A j \in I : f[j] <= f[k]
            BY <3>1, <4>1, <4>2, <5>1
          <5> QED BY <4>2, <5>2
        <4>3. CASE ~ (k \in I /\ f[m] <= f[k])
          <5>1. m \in I /\ \A j \in I : j = k \/ j \in K
            OBVIOUS
          <5>2. \A j \in I : f[j] <= f[m]
            BY <3>1, <4>1, <4>3, <5>1
          <5> QED BY <5>1, <5>2
        <4> QED BY <4>2, <4>3
      <3> QED BY <3>3, <3>4
    <2> HIDE DEF Has
    <2> QED BY <2>1
  <1>3. 0 .. N \subseteq Held
    <2> HIDE DEF Held
    <2> QED BY <1>1, <1>2, UpTo
  <1>4. Has(J)
    <2> HIDE DEF Has
    <2> QED BY <1>3
  <1> QED BY <1>4

\* Sorting keeps how often each line of the file is repeated.
LEMMA SortedRight ==
  ASSUME NEW lines \in Seq(Names)
  PROVE  /\ Sorted(lines) \in Seq(Names) /\ Len(Sorted(lines)) = Len(lines)
         /\ \A n \in Names : Cardinality(Occurrences(Sorted(lines), Len(lines), n))
                               = Cardinality(Occurrences(lines, Len(lines), n))
  <1> DEFINE N == Len(lines)
             D == 1 .. N
             R == Range(lines)
             upto(n) == {j \in D : lines[j] <= n}
             below(n) == {j \in D : lines[j] < n}
             C(n) == Cardinality(upto(n))
             B(n) == Cardinality(below(n))
             T(k) == {n \in R : C(n) >= k}
             s == Sorted(lines)
  <1>1. /\ N \in Nat /\ DOMAIN lines = D /\ IsFiniteSet(D) /\ Cardinality(D) = N
        /\ lines \in [D -> Nat] /\ R \in SUBSET Names /\ R \in SUBSET Nat
        /\ \A n \in R : \E j \in D : lines[j] = n
        /\ \A j \in D : lines[j] \in R
    <2>1. N \in Nat /\ DOMAIN lines = D /\ lines \in [D -> Names]
      OBVIOUS
    <2>2. IsFiniteSet(D) /\ Cardinality(D) = N
      <3> HIDE DEF N
      <3> QED BY <2>1, FS_Interval
    <2>3. Names \in SUBSET Nat
      BY DirectoryAssumption
    <2> QED BY <2>1, <2>2, <2>3 DEF Range
  <1>2. s = [k \in D |-> Min(T(k))]
    BY <1>1 DEF Sorted
  <1> HIDE DEF R, N
  <1>3. ASSUME NEW I \in SUBSET D PROVE IsFiniteSet(I) /\ Cardinality(I) \in Nat
    BY <1>1, FS_Subset, FS_CardinalityType
  <1>4. \A n : upto(n) \in SUBSET D /\ below(n) \in SUBSET D /\ C(n) \in Nat /\ B(n) \in Nat
    <2>1. \A n : upto(n) \in SUBSET D /\ below(n) \in SUBSET D
      OBVIOUS
    <2> HIDE DEF D, upto, below
    <2> QED BY <1>3, <2>1
  <1>5. ASSUME NEW k \in D PROVE T(k) \in SUBSET Nat /\ T(k) # {}
    <2>1. D \in SUBSET D /\ D # {}
      OBVIOUS
    <2>2. PICK m \in D : \A j \in D : lines[j] <= lines[m]
      <3>1. D \in SUBSET (1 .. N)
        OBVIOUS
      <3> QED BY <1>1, <2>1, <3>1, LargestValue
    <2>3. upto(lines[m]) = D
      BY <2>2
    <2>4. C(lines[m]) = N
      BY <1>1, <2>3
    <2>5. lines[m] \in R /\ N >= k
      BY <1>1
    <2> HIDE DEF C
    <2> QED BY <1>1, <2>4, <2>5
  <1>6. ASSUME NEW k \in D
        PROVE  s[k] \in R /\ C(s[k]) >= k /\ \A v \in R : C(v) >= k => s[k] <= v
    <2>1. s[k] = Min(T(k))
      BY <1>2
    <2> HIDE DEF s, C, D
    <2>2. Min(T(k)) \in T(k) /\ \A v \in T(k) : Min(T(k)) <= v
      <3> HIDE DEF T
      <3> QED BY <1>5, MinInside
    <2> QED BY <2>1, <2>2
  <1>7. s \in Seq(Names) /\ Len(s) = N /\ s \in [D -> Nat]
    <2>1. s \in [D -> Names]
      <3>1. \A k \in D : s[k] \in Names
        <4> HIDE DEF s
        <4> QED BY <1>1, <1>6
      <3> QED BY <1>2, <3>1
    <2>2. Names \in SUBSET Nat
      BY DirectoryAssumption
    <2> HIDE DEF s
    <2>3. s \in Seq(Names) /\ Len(s) = N
      BY <1>1, <2>1, SeqDef, LenProperties
    <2> QED BY <2>1, <2>2, <2>3
  <1>8. ASSUME NEW n \in Names, n \notin R
        PROVE  Occurrences(s, N, n) = {} /\ Occurrences(lines, N, n) = {}
    <2> HIDE DEF s
    <2> QED BY <1>1, <1>6, <1>8 DEF Occurrences
  <1>9. ASSUME NEW v \in R, NEW n \in R, v < n
        PROVE  C(v) <= B(n) /\ B(n) < C(n)
    <2>1. upto(v) \subseteq below(n) /\ below(n) \subseteq upto(n)
      BY <1>1, <1>9
    <2>2. PICK j \in D : lines[j] = n
      BY <1>1
    <2>3. j \in upto(n) /\ j \notin below(n)
      BY <1>1, <2>2
    <2>4. IsFiniteSet(upto(n)) /\ IsFiniteSet(below(n))
      <3> HIDE DEF upto, below, D
      <3> QED BY <1>3, <1>4
    <2> HIDE DEF upto, below
    <2>5. Cardinality(upto(v)) <= Cardinality(below(n))
      BY <2>1, <2>4, FS_Subset
    <2>6. Cardinality(below(n)) < Cardinality(upto(n))
      BY <2>1, <2>3, <2>4, FS_Subset, FS_CardinalityType
    <2> QED BY <2>5, <2>6
  <1>10. ASSUME NEW n \in R
         PROVE  B(n) = 0 \/ \E v \in R : v < n /\ C(v) = B(n)
    <2> SUFFICES ASSUME B(n) # 0 PROVE \E v \in R : v < n /\ C(v) = B(n)
      OBVIOUS
    <2>1. below(n) # {}
      BY FS_EmptySet
    <2>2. PICK m \in below(n) : \A j \in below(n) : lines[j] <= lines[m]
      <3>1. below(n) \in SUBSET (1 .. N)
        OBVIOUS
      <3> HIDE DEF below
      <3> QED BY <1>1, <2>1, <3>1, LargestValue
    <2>3. m \in D /\ lines[m] \in R /\ lines[m] < n
      BY <1>1
    <2>4. upto(lines[m]) = below(n)
      BY <1>1, <2>2, <2>3
    <2> QED BY <2>3, <2>4
  <1>11. ASSUME NEW n \in R
         PROVE  /\ Occurrences(s, N, n) = (B(n) + 1) .. C(n)
                /\ B(n) <= C(n)
                /\ C(n) <= N
    <2> DEFINE b == B(n)
               c == C(n)
    <2>1. b \in Nat /\ c \in Nat /\ b <= c /\ c <= N
      <3>1. below(n) \subseteq upto(n) /\ upto(n) \subseteq D
        BY <1>1
      <3>2. IsFiniteSet(upto(n))
        <4> HIDE DEF upto, D
        <4> QED BY <1>3, <1>4
      <3> HIDE DEF upto, below, D
      <3> QED BY <1>1, <1>4, <3>1, <3>2, FS_Subset
    <2>2. ASSUME NEW k \in D, s[k] = n PROVE k \in (b + 1) .. c
      <3>1. k <= c
        <4> HIDE DEF s, C
        <4> QED BY <1>6, <2>1, <2>2 DEF C
      <3>2. b < k
        <4>1. CASE b = 0
          BY <1>1, <4>1
        <4>2. CASE b # 0
          <5>1. PICK v \in R : v < n /\ C(v) = b
            BY <1>10, <4>2
          <5>2. ~ (C(v) >= k)
            <6> HIDE DEF s, C
            <6> QED BY <1>1, <1>6, <2>2, <5>1
          <5> HIDE DEF C, b
          <5> QED BY <1>1, <2>1, <5>1, <5>2
        <4> QED BY <4>1, <4>2
      <3> QED BY <1>1, <2>1, <3>1, <3>2
    <2>3. ASSUME NEW k \in (b + 1) .. c PROVE k \in D /\ s[k] = n
      <3>1. k \in D
        BY <1>1, <2>1
      <3>2. s[k] <= n
        <4>1. k <= c /\ c = C(n)
          BY <2>1
        <4> HIDE DEF s, C, c
        <4>2. C(n) >= k
          BY <2>1, <3>1, <4>1
        <4> QED BY <1>6, <3>1, <4>2
      <3>3. ~ (s[k] < n)
        <4> SUFFICES ASSUME s[k] < n PROVE FALSE
          OBVIOUS
        <4> HIDE DEF s, C, B
        <4>1. C(s[k]) <= B(n) /\ C(s[k]) >= k
          BY <1>6, <1>9, <3>1
        <4>2. C(s[k]) \in Nat
          BY <1>4 DEF C
        <4> QED BY <2>1, <4>1, <4>2
      <3>4. s[k] \in Nat /\ n \in Nat
        <4> HIDE DEF s
        <4> QED BY <1>1, <1>6, <3>1
      <3> HIDE DEF s
      <3> QED BY <3>1, <3>2, <3>3, <3>4
    <2>4. \A k : k \in Occurrences(s, N, n) <=> k \in D /\ s[k] = n
      BY DEF Occurrences
    <2> HIDE DEF s
    <2> QED BY <2>1, <2>2, <2>3, <2>4
  <1>12. ASSUME NEW n \in R
         PROVE  Cardinality(Occurrences(s, N, n)) = Cardinality(Occurrences(lines, N, n))
    <2> DEFINE occ == Occurrences(lines, N, n)
               b == B(n)
               c == C(n)
    <2>1. Occurrences(s, N, n) = (b + 1) .. c /\ b <= c /\ b \in Nat /\ c \in Nat
      BY <1>4, <1>11
    <2>2. upto(n) = below(n) \cup occ /\ below(n) \cap occ = {} /\ occ \in SUBSET D
      BY <1>1 DEF Occurrences
    <2>3. IsFiniteSet(below(n)) /\ IsFiniteSet(occ) /\ Cardinality(occ) \in Nat
      <3> HIDE DEF below, occ, D
      <3> QED BY <1>3, <1>4, <2>2
    <2>4. c = b + Cardinality(occ)
      <3>1. Cardinality(below(n) \cap occ) = 0
        BY <2>2, FS_EmptySet
      <3> HIDE DEF below, occ, upto
      <3>2. Cardinality(below(n) \cup occ)
              = Cardinality(below(n)) + Cardinality(occ) - Cardinality(below(n) \cap occ)
        BY <2>3, FS_Union
      <3>3. Cardinality(below(n)) \in Nat
        BY <2>3, FS_CardinalityType
      <3> QED BY <2>2, <2>3, <3>1, <3>2, <3>3
    <2> HIDE DEF b, c, occ
    <2>5. Cardinality((b + 1) .. c) = c - b
      <3>1. b + 1 \in Int /\ c \in Int
        BY <2>1
      <3>2. Cardinality((b + 1) .. c) = IF b + 1 > c THEN 0 ELSE c - (b + 1) + 1
        BY <3>1, FS_Interval
      <3> QED BY <2>1, <3>2
    <2>6. Cardinality(occ) = c - b
      BY <2>1, <2>3, <2>4
    <2> QED BY <2>1, <2>5, <2>6 DEF occ
  <1>13. ASSUME NEW n \in Names
         PROVE  Cardinality(Occurrences(s, N, n)) = Cardinality(Occurrences(lines, N, n))
    <2>1. CASE n \in R
      BY <1>12, <2>1
    <2>2. CASE n \notin R
      BY <1>8, <2>2
    <2> QED BY <2>1, <2>2
  <1> QED BY <1>7, <1>13 DEF N
\* The list after each line of the sorted file.
LEMMA TallyStages ==
  ASSUME NEW lines \in Seq(Names)
  PROVE  \E h : /\ h[0] = <<>>
                /\ \A k \in 1 .. Len(Sorted(lines)) : h[k] = Add(h[k - 1], Sorted(lines)[k], 1)
                /\ Tally(lines) = h[Len(Sorted(lines))]
  <1> DEFINE n == Len(Sorted(lines))
             D == 1 .. n
             V == Lists
             base == <<>>
             g == [p \in D \X V |-> Add(p[2], Sorted(lines)[p[1]], 1)]
             Iter(f) == [s \in SUBSET D |-> IF s = {} THEN base
                                           ELSE Add(f[s \ {Max(s)}], Sorted(lines)[Max(s)], 1)]
             chosen == CHOOSE f : f = Iter(f)
             h == [k \in 0 .. n |-> chosen[1 .. k]]
  <1>1. n \in Nat /\ DOMAIN Sorted(lines) = D /\ base \in V
    BY SortedRight, VotesOfNone
  <1>2. g \in [D \X V -> V]
    <2>1. ASSUME NEW p \in D \X V PROVE Add(p[2], Sorted(lines)[p[1]], 1) \in V
      <3>1. p[2] \in Lists /\ Sorted(lines)[p[1]] \in Names
        BY <1>1, SortedRight
      <3> DEFINE e == Entry(Sorted(lines)[p[1]], 1)
      <3>2. e \in Entity /\ e.name = Sorted(lines)[p[1]] /\ e.count = 1
        BY <3>1, EntityFacts
      <3> HIDE DEF e
      <3>3. Add(p[2], e.name, e.count) \in Lists
        BY <3>1, <3>2, AddRight
      <3> QED BY <3>2, <3>3
    <2> HIDE DEF D, V
    <2> QED BY <2>1
  <1>3. PICK f \in [SUBSET D -> V] : SeqSolves(f, n, base, g)
    <2> HIDE DEF g, V, base, n
    <2> QED BY <1>1, <1>2, SeqRecursion
  <1>4. ASSUME NEW s \in SUBSET D
        PROVE  f[s] = IF s = {} THEN base ELSE Add(f[s \ {Max(s)}], Sorted(lines)[Max(s)], 1)
    <2> HIDE DEF V, base, n
    <2>1. CASE s = {}
      BY <1>3, <2>1 DEF SeqSolves
    <2>2. CASE s # {}
      <3>1. Max(s) \in D
        BY <1>1, <2>2, MaxInside
      <3>2. <<Max(s), f[s \ {Max(s)}]>> \in D \X V
        BY <1>3, <3>1
      <3>3. g[<<Max(s), f[s \ {Max(s)}]>>] = Add(f[s \ {Max(s)}], Sorted(lines)[Max(s)], 1)
        BY <3>2
      <3> HIDE DEF g
      <3> QED BY <1>3, <2>2, <3>3 DEF SeqSolves
    <2> QED BY <2>1, <2>2
  <1>5. f = Iter(f)
    <2> HIDE DEF D, g, V, base
    <2> QED BY <1>3, <1>4
  <1>6. chosen = Iter(chosen)
    <2> HIDE DEF Iter
    <2> QED BY <1>5
  <1>7. Tally(lines) = chosen[D]
    BY <1>1 DEF Tally, FoldLeft, MapThenFoldSet
  <1>8. h[0] = base
    <2>1. 1 .. 0 = {} /\ {} \in SUBSET D
      OBVIOUS
    <2>2. chosen[{}] = base
      BY <1>6, <2>1
    <2> HIDE DEF chosen, base, n
    <2> QED BY <1>1, <2>1, <2>2
  <1>9. ASSUME NEW k \in D PROVE h[k] = Add(h[k - 1], Sorted(lines)[k], 1)
    <2>1. 1 .. k \in SUBSET D /\ 1 .. k # {} /\ k - 1 \in 0 .. n /\ k \in 0 .. n
      <3> HIDE DEF V, base, n
      <3>1. n \in Nat /\ k \in Nat /\ 1 <= k /\ k <= n
        BY <1>1
      <3>2. k \in 1 .. k /\ k - 1 \in 0 .. n /\ k \in 0 .. n
        BY <3>1
      <3>3. \A x \in 1 .. k : x \in D
        BY <3>1
      <3> QED BY <3>2, <3>3
    <2>2. Max(1 .. k) = k /\ (1 .. k) \ {Max(1 .. k)} = 1 .. k - 1
      BY <1>1, MaxOfInterval
    <2>3. chosen[1 .. k] = Add(chosen[(1 .. k) \ {Max(1 .. k)}], Sorted(lines)[Max(1 .. k)], 1)
      <3> HIDE DEF chosen, base
      <3> QED BY <1>6, <2>1
    <2> HIDE DEF chosen, n
    <2> QED BY <2>1, <2>2, <2>3
  <1>10. Tally(lines) = h[n]
    <2> HIDE DEF chosen, n
    <2> QED BY <1>1, <1>7
  <1> HIDE DEF h
  <1> QED BY <1>8, <1>9, <1>10

\* Each line counts once, and no name is entered twice.
LEMMA TallyRight ==
  ASSUME NEW lines \in Seq(Names)
  PROVE  /\ Tally(lines) \in Lists
         /\ Distinct(Tally(lines))
         /\ \A n \in Names :
              VotesFor(Tally(lines), n) = Cardinality({k \in DOMAIN lines : lines[k] = n})
  <1>1. PICK h : /\ h[0] = <<>>
                 /\ \A k \in 1 .. Len(Sorted(lines)) : h[k] = Add(h[k - 1], Sorted(lines)[k], 1)
                 /\ Tally(lines) = h[Len(Sorted(lines))]
    BY TallyStages
  <1> DEFINE s == Sorted(lines)
             m == Len(lines)
             Count(k, n) == Cardinality(Occurrences(s, k, n))
             Good(x, k) == /\ x \in Lists /\ Distinct(x)
                           /\ \A n \in Names : VotesFor(x, n) = Count(k, n)
             Held == {k \in 0 .. m : Good(h[k], k)}
  <1>2. m \in Nat /\ Len(s) = m /\ s \in Seq(Names)
    BY SortedRight
  <1>3. \A k \in 1 .. m : s[k] \in Names
    <2> HIDE DEF s
    <2> QED BY <1>2
  <1>4. /\ h[0] = <<>> /\ \A k \in 1 .. m : h[k] = Add(h[k - 1], s[k], 1)
        /\ Tally(lines) = h[m]
    BY <1>1, <1>2
  <1> HIDE DEF s, m
  <1>5. 0 \in Held
    <2>1. \A n : Occurrences(s, 0, n) = {}
      BY DEF Occurrences
    <2>2. \A n : Count(0, n) = 0
      BY <2>1, FS_EmptySet
    <2>3. <<>> \in Lists /\ (\A n : VotesFor(<<>>, n) = 0) /\ Distinct(<<>>)
      BY VotesOfNone DEF Distinct
    <2>4. 0 \in 0 .. m
      BY <1>2
    <2> HIDE DEF Count
    <2> QED BY <1>4, <2>2, <2>3, <2>4
  <1>6. ASSUME NEW k \in 1 .. m, k - 1 \in Held PROVE k \in Held
    <2> DEFINE e == Entry(s[k], 1)
    <2>1. Good(h[k - 1], k - 1) /\ k \in 0 .. m /\ k \in Nat \ {0}
      BY <1>2, <1>6
    <2>2. e \in Entity /\ e.name = s[k] /\ e.count = 1
      BY <1>3, EntityFacts
    <2>3. h[k] = Add(h[k - 1], e.name, e.count)
      BY <1>4, <2>2
    <2> HIDE DEF e
    <2>4. /\ h[k] \in Lists
          /\ Distinct(h[k - 1]) => Distinct(h[k])
          /\ \A n : VotesFor(h[k], n) = VotesFor(h[k - 1], n) + Worth(e, n)
      BY <2>1, <2>2, <2>3, AddRight
    <2>5. ASSUME NEW n \in Names PROVE VotesFor(h[k], n) = Count(k, n)
      <3>1. Count(k, n) = Count(k - 1, n) + IF s[k] = n THEN 1 ELSE 0
        BY <2>1, OnceMore
      <3>2. Worth(e, n) = IF s[k] = n THEN 1 ELSE 0
        BY <2>2 DEF Worth
      <3> HIDE DEF Count
      <3> QED BY <2>1, <2>4, <3>1, <3>2
    <2> HIDE DEF Count
    <2> QED BY <2>1, <2>4, <2>5
  <1>7. 0 .. m \subseteq Held
    <2> HIDE DEF Held
    <2> QED BY <1>2, <1>5, <1>6, UpTo
  <1>8. Good(h[m], m)
    <2> HIDE DEF Good
    <2> QED BY <1>2, <1>7
  <1>9. ASSUME NEW n \in Names
        PROVE  Count(m, n) = Cardinality({k \in DOMAIN lines : lines[k] = n})
    <2>1. Occurrences(lines, m, n) = {k \in DOMAIN lines : lines[k] = n}
      BY DEF Occurrences, m
    <2> QED BY <2>1, SortedRight DEF s, m
  <1> QED BY <1>4, <1>8, <1>9

\* The best entry of the first ones.
LEMMA MostStages ==
  ASSUME NEW l \in Lists
  PROVE  \E h : /\ h[0] = Entry(Blank, 0)
                /\ \A k \in 1 .. Len(l) : h[k] = (IF l[k].count > h[k - 1].count THEN l[k] ELSE h[k - 1])
                /\ FirstMost(l) = h[Len(l)].name
  <1> DEFINE n == Len(l)
             D == 1 .. n
             V == Entity \cup {Entry(Blank, 0)}
             base == Entry(Blank, 0)
             g == [p \in D \X V |-> (IF l[p[1]].count > p[2].count THEN l[p[1]] ELSE p[2])]
             Iter(f) == [s \in SUBSET D |-> IF s = {} THEN base
                                           ELSE (IF l[Max(s)].count > f[s \ {Max(s)}].count THEN l[Max(s)] ELSE f[s \ {Max(s)}])]
             chosen == CHOOSE f : f = Iter(f)
             h == [k \in 0 .. n |-> chosen[1 .. k]]
  <1>1. n \in Nat /\ DOMAIN l = D /\ base \in V
    BY ListFacts
  <1>2. g \in [D \X V -> V]
    <2>1. ASSUME NEW p \in D \X V PROVE (IF l[p[1]].count > p[2].count THEN l[p[1]] ELSE p[2]) \in V
      <3>1. p[2] \in Entity \cup {Entry(Blank, 0)} /\ l[p[1]] \in Entity
        BY <1>1, ListFacts
      <3> QED BY <3>1
    <2> HIDE DEF D, V
    <2> QED BY <2>1
  <1>3. PICK f \in [SUBSET D -> V] : SeqSolves(f, n, base, g)
    <2> HIDE DEF g, V, base, n
    <2> QED BY <1>1, <1>2, SeqRecursion
  <1>4. ASSUME NEW s \in SUBSET D
        PROVE  f[s] = IF s = {} THEN base ELSE (IF l[Max(s)].count > f[s \ {Max(s)}].count THEN l[Max(s)] ELSE f[s \ {Max(s)}])
    <2> HIDE DEF V, base, n
    <2>1. CASE s = {}
      BY <1>3, <2>1 DEF SeqSolves
    <2>2. CASE s # {}
      <3>1. Max(s) \in D
        BY <1>1, <2>2, MaxInside
      <3>2. <<Max(s), f[s \ {Max(s)}]>> \in D \X V
        BY <1>3, <3>1
      <3>3. g[<<Max(s), f[s \ {Max(s)}]>>] = (IF l[Max(s)].count > f[s \ {Max(s)}].count THEN l[Max(s)] ELSE f[s \ {Max(s)}])
        BY <3>2
      <3> HIDE DEF g
      <3> QED BY <1>3, <2>2, <3>3 DEF SeqSolves
    <2> QED BY <2>1, <2>2
  <1>5. f = Iter(f)
    <2> HIDE DEF D, g, V, base
    <2> QED BY <1>3, <1>4
  <1>6. chosen = Iter(chosen)
    <2> HIDE DEF Iter
    <2> QED BY <1>5
  <1>7. FirstMost(l) = chosen[D].name
    BY <1>1 DEF FirstMost, FoldLeft, MapThenFoldSet
  <1>8. h[0] = base
    <2>1. 1 .. 0 = {} /\ {} \in SUBSET D
      OBVIOUS
    <2>2. chosen[{}] = base
      BY <1>6, <2>1
    <2> HIDE DEF chosen, base, n
    <2> QED BY <1>1, <2>1, <2>2
  <1>9. ASSUME NEW k \in D PROVE h[k] = (IF l[k].count > h[k - 1].count THEN l[k] ELSE h[k - 1])
    <2>1. 1 .. k \in SUBSET D /\ 1 .. k # {} /\ k - 1 \in 0 .. n /\ k \in 0 .. n
      <3> HIDE DEF V, base, n
      <3>1. n \in Nat /\ k \in Nat /\ 1 <= k /\ k <= n
        BY <1>1
      <3>2. k \in 1 .. k /\ k - 1 \in 0 .. n /\ k \in 0 .. n
        BY <3>1
      <3>3. \A x \in 1 .. k : x \in D
        BY <3>1
      <3> QED BY <3>2, <3>3
    <2>2. Max(1 .. k) = k /\ (1 .. k) \ {Max(1 .. k)} = 1 .. k - 1
      BY <1>1, MaxOfInterval
    <2>3. chosen[1 .. k] = (IF l[Max(1 .. k)].count > chosen[(1 .. k) \ {Max(1 .. k)}].count THEN l[Max(1 .. k)] ELSE chosen[(1 .. k) \ {Max(1 .. k)}])
      <3> HIDE DEF chosen, base
      <3> QED BY <1>6, <2>1
    <2> HIDE DEF chosen, n
    <2> QED BY <2>1, <2>2, <2>3
  <1>10. FirstMost(l) = h[n].name
    <2> HIDE DEF chosen, n
    <2> QED BY <1>1, <1>7
  <1> HIDE DEF h
  <1> QED BY <1>8, <1>9, <1>10

\* The winner's entry has most votes, if any has some.
LEMMA FirstMostRight ==
  ASSUME NEW l \in Lists
  PROVE  /\ FirstMost(l) \in Names \cup {Blank}
         /\ \/ FirstMost(l) = Blank /\ \A k \in DOMAIN l : l[k].count = 0
            \/ \E m \in DOMAIN l : /\ l[m].name = FirstMost(l) /\ l[m].count > 0
                                   /\ \A k \in DOMAIN l : l[k].count <= l[m].count
  <1>1. PICK h : /\ h[0] = Entry(Blank, 0)
                 /\ \A k \in 1 .. Len(l) :
                      h[k] = (IF l[k].count > h[k - 1].count THEN l[k] ELSE h[k - 1])
                 /\ FirstMost(l) = h[Len(l)].name
    BY MostStages
  <1> DEFINE n == Len(l)
             None(x, k) == x = Entry(Blank, 0) /\ \A j \in 1 .. k : l[j].count = 0
             Best(x, k) == \E m \in 1 .. k : /\ x = l[m] /\ x.count > 0
                                             /\ \A j \in 1 .. k : l[j].count <= x.count
             Held == {k \in 0 .. n : None(h[k], k) \/ Best(h[k], k)}
  <1>2. n \in Nat /\ DOMAIN l = 1 .. n /\ \A k \in 1 .. n : l[k] \in Entity
    BY ListFacts
  <1>3. \A k \in 1 .. n : l[k].count \in Nat
    BY <1>2, EntityFacts
  <1>4. Entry(Blank, 0).count = 0 /\ Entry(Blank, 0).name = Blank
    BY EntityFacts
  <1>5. 0 \in Held
    BY <1>1, <1>2
  <1>6. ASSUME NEW k \in 1 .. n, k - 1 \in Held PROVE k \in Held
    <2>1. /\ k \in 0 .. n /\ k \in 1 .. k /\ \A j \in 1 .. k : j \in 1 .. n /\ (j = k \/ j \in 1 .. k - 1)
          /\ \A j \in 1 .. k - 1 : j \in 1 .. k
      BY <1>2
    <2>2. h[k] = (IF l[k].count > h[k - 1].count THEN l[k] ELSE h[k - 1])
      BY <1>1
    <2>3. CASE None(h[k - 1], k - 1)
      <3>1. h[k - 1].count = 0
        BY <1>4, <2>3
      <3>2. CASE l[k].count > 0
        <4>1. h[k] = l[k]
          BY <2>2, <3>1, <3>2
        <4>2. \A j \in 1 .. k : l[j].count <= l[k].count
          BY <1>3, <2>1, <2>3, <3>2
        <4>3. Best(h[k], k)
          BY <2>1, <3>2, <4>1, <4>2
        <4> QED BY <2>1, <4>3
      <3>3. CASE ~ (l[k].count > 0)
        <4>1. h[k] = h[k - 1] /\ l[k].count = 0
          BY <1>3, <2>1, <2>2, <3>1, <3>3
        <4>2. None(h[k], k)
          BY <2>1, <2>3, <4>1
        <4> QED BY <2>1, <4>2
      <3> QED BY <3>2, <3>3
    <2>4. CASE Best(h[k - 1], k - 1)
      <3>1. PICK m \in 1 .. k - 1 : /\ h[k - 1] = l[m] /\ l[m].count > 0
                                    /\ \A j \in 1 .. k - 1 : l[j].count <= l[m].count
        BY <2>4
      <3>2. m \in 1 .. k /\ m \in 1 .. n /\ l[m].count \in Nat /\ l[k].count \in Nat
        BY <1>3, <2>1, <3>1
      <3>3. CASE l[k].count > l[m].count
        <4>1. h[k] = l[k]
          BY <2>2, <3>1, <3>3
        <4>2. \A j \in 1 .. k : l[j].count <= l[k].count
          BY <1>3, <2>1, <3>1, <3>2, <3>3
        <4>3. l[k].count > 0
          BY <3>1, <3>2, <3>3
        <4>4. Best(h[k], k)
          BY <2>1, <4>1, <4>2, <4>3
        <4> QED BY <2>1, <4>4
      <3>4. CASE ~ (l[k].count > l[m].count)
        <4>1. h[k] = l[m]
          BY <2>2, <3>1, <3>4
        <4>2. \A j \in 1 .. k : l[j].count <= l[m].count
          BY <1>3, <2>1, <3>1, <3>2, <3>4
        <4>3. Best(h[k], k)
          BY <3>1, <3>2, <4>1, <4>2
        <4> QED BY <2>1, <4>3
      <3> QED BY <3>3, <3>4
    <2> HIDE DEF None, Best
    <2> QED BY <1>6, <2>3, <2>4
  <1>7. 0 .. n \subseteq Held
    <2> HIDE DEF Held, n
    <2> QED BY <1>2, <1>5, <1>6, UpTo
  <1>8. n \in 0 .. n
    BY <1>2
  <1>9. None(h[n], n) \/ Best(h[n], n)
    <2> HIDE DEF None, Best, n
    <2> QED BY <1>7, <1>8
  <1>10. CASE None(h[n], n)
    <2>1. FirstMost(l) = Blank /\ \A k \in DOMAIN l : l[k].count = 0
      BY <1>1, <1>2, <1>4, <1>10
    <2> QED BY <2>1
  <1>11. CASE Best(h[n], n)
    <2>1. PICK m \in 1 .. n : /\ h[n] = l[m] /\ l[m].count > 0
                              /\ \A j \in 1 .. n : l[j].count <= l[m].count
      BY <1>11
    <2>2. FirstMost(l) = l[m].name
      BY <1>1, <2>1
    <2>3. l[m].name \in Names
      <3>1. l[m] \in Entity
        BY <1>2
      <3>2. (l[m].name \in Names /\ l[m].count > 0) \/ l[m] = Entry(WinnerWord, 0)
        BY <3>1, EntityFacts
      <3>3. Entry(WinnerWord, 0).count = 0
        BY EntityFacts
      <3> QED BY <2>1, <3>2, <3>3
    <2> HIDE DEF n
    <2> QED BY <1>2, <2>1, <2>2, <2>3
  <1> QED BY <1>9, <1>10, <1>11

\* In a list without repetitions a name's votes are those of one entry.
LEMMA DistinctVotes ==
  ASSUME NEW l \in Lists, Distinct(l)
  PROVE  /\ \A k \in DOMAIN l : VotesFor(l, l[k].name) = l[k].count
         /\ \A n : (\A k \in DOMAIN l : l[k].name # n) => VotesFor(l, n) = 0
  <1> DEFINE D == DOMAIN l
  <1>1. /\ IsFiniteSet(D) /\ D \in SUBSET D
        /\ \A n : Amounts(l, n) \in [D -> Int]
        /\ \A n : VotesFor(l, n) = SumFunctionOnSet(Amounts(l, n), D)
        /\ \A k \in D : l[k] \in Entity
    BY ListFacts
  <1>2. \A n : \A k \in D : Amounts(l, n)[k] = IF l[k].name = n THEN l[k].count ELSE 0
    BY DEF Amounts, Worth
  <1>3. \A j, k \in D : l[j].name = l[k].name => j = k
    BY DEF Distinct
  <1> HIDE DEF D
  <1>4. ASSUME NEW k \in D PROVE VotesFor(l, l[k].name) = l[k].count
    <2> DEFINE n == l[k].name
               f == Amounts(l, n)
    <2>1. f \in [D -> Int] /\ f[k] = l[k].count /\ l[k].count \in Nat
      BY <1>1, <1>2, EntityFacts
    <2>2. \A j \in D \ {k} : f[j] = 0
      BY <1>2, <1>3
    <2>3. VotesFor(l, n) = SumFunctionOnSet(f, D)
      BY <1>1
    <2> HIDE DEF f
    <2>4. SumFunctionOnSet(f, D) = f[k] + SumFunctionOnSet(f, D \ {k})
      BY <1>1, <2>1, SumAny
    <2>5. SumFunctionOnSet(f, D \ {k}) = 0
      BY <1>1, <2>1, <2>2, SumZero
    <2> QED BY <2>1, <2>3, <2>4, <2>5
  <1>5. ASSUME NEW n, \A k \in D : l[k].name # n PROVE VotesFor(l, n) = 0
    <2> DEFINE f == Amounts(l, n)
    <2>1. f \in [D -> Int] /\ (\A k \in D : f[k] = 0) /\ VotesFor(l, n) = SumFunctionOnSet(f, D)
      BY <1>1, <1>2, <1>5
    <2> HIDE DEF f
    <2> QED BY <1>1, <2>1, SumZero
  <1> QED BY <1>4, <1>5 DEF D
-----------------------------------------------------------------------------
(***************************************************************************)
(* Files.                                                                  *)
(***************************************************************************)
LEMMA LinesTyped ==
  ASSUME FilesTyped, NEW f
  PROVE  /\ Lines(f) \in Seq(Line)
         /\ Entries(Lines(f)) \in Lists
         /\ \A n : VotesFor(Entries(Lines(f)), n) \in Nat
  <1>1. Lines(f) \in Seq(Line)
    <2>1. <<>> \in Seq(Line)
      OBVIOUS
    <2> QED BY <2>1 DEF FilesTyped, Lines, Exists
  <1> QED BY <1>1, EntriesRight, ListFacts

LEMMA ResultFacts ==
  /\ \A d \in Dirs : Result(d) \in Dirs \X Dirs /\ WhoWonFile(d) \in Dirs \X Dirs
  /\ \A d, e : Result(d) = Result(e) => d = e
  /\ \A d, e : Result(d) = WhoWonFile(e) => d = WhoWon /\ e = WhoWon
  /\ Result(WhoWon) = WhoWonFile(WhoWon)
  BY DirectoryAssumption DEF Result, WhoWonFile

\* A file written, and a file removed.
LEMMA WithRight ==
  ASSUME FilesTyped, NEW f \in Dirs \X Dirs, NEW lines \in Seq(Line), files' = With(f, lines)
  PROVE  /\ FilesTyped'
         /\ Lines(f)' = lines
         /\ \A g : g # f => Lines(g)' = Lines(g)
  <1> DEFINE L == Seq(Line)
  <1>1. files' = [g \in DOMAIN files \cup {f} |-> IF g = f THEN lines ELSE files[g]]
    BY DEF With
  <1>2. files \in [DOMAIN files -> L] /\ DOMAIN files \subseteq Dirs \X Dirs /\ lines \in L
    BY DEF FilesTyped
  <1> HIDE DEF L
  <1>3. DOMAIN files' = DOMAIN files \cup {f} /\ files' \in [DOMAIN files' -> L]
    BY <1>1, <1>2
  <1>4. FilesTyped'
    BY <1>2, <1>3 DEF FilesTyped, L
  <1> QED BY <1>1, <1>3, <1>4 DEF Lines, Exists

LEMMA WithoutRight ==
  ASSUME FilesTyped, NEW f, files' = Without(f)
  PROVE  /\ FilesTyped'
         /\ Lines(f)' = <<>>
         /\ \A g : g # f => Lines(g)' = Lines(g)
  <1> DEFINE L == Seq(Line)
  <1>1. files' = [g \in DOMAIN files \ {f} |-> files[g]]
    BY DEF Without
  <1>2. files \in [DOMAIN files -> L] /\ DOMAIN files \subseteq Dirs \X Dirs
    BY DEF FilesTyped
  <1> HIDE DEF L
  <1>3. DOMAIN files' = DOMAIN files \ {f} /\ files' \in [DOMAIN files' -> L]
    BY <1>1, <1>2
  <1>4. FilesTyped'
    BY <1>2, <1>3 DEF FilesTyped, L
  <1> QED BY <1>1, <1>3, <1>4 DEF Lines, Exists

\* An appended line follows those that were there.
LEMMA AppendedLines ==
  ASSUME NEW lines \in Seq(Line), NEW x \in Line
  PROVE  /\ Append(lines, x) \in Seq(Line)
         /\ Range(lines) \subseteq Range(Append(lines, x))
         /\ x \in Range(Append(lines, x))
         /\ Append(lines, x) # <<>>
         /\ lines = <<>> => Head(Append(lines, x)) = x
         /\ lines # <<>> => Head(Append(lines, x)) = Head(lines)
  <1> DEFINE m == Len(lines)
             new == Append(lines, x)
             L == Line
  <1>1. lines \in Seq(L) /\ x \in L
    OBVIOUS
  <1> HIDE DEF L
  <1>2. /\ new \in Seq(L) /\ m \in Nat /\ Len(new) = m + 1
        /\ DOMAIN new = 1 .. m + 1 /\ DOMAIN lines = 1 .. m
        /\ new[m + 1] = x /\ \A j \in 1 .. m : new[j] = lines[j]
    BY <1>1
  <1>3. m + 1 \in DOMAIN new /\ DOMAIN lines \subseteq DOMAIN new
    BY <1>2
  <1>4. Range(lines) \subseteq Range(new) /\ x \in Range(new)
    BY <1>2, <1>3 DEF Range
  <1>5. new # <<>> /\ Head(new) = new[1]
    BY <1>2
  <1>6. ASSUME lines = <<>> PROVE Head(new) = x
    BY <1>2, <1>5, <1>6
  <1>7. ASSUME lines # <<>> PROVE Head(new) = Head(lines)
    <2>1. m > 0 /\ Head(lines) = lines[1]
      BY <1>1, <1>2, <1>7
    <2> QED BY <1>2, <1>5, <2>1
  <1> QED BY <1>2, <1>4, <1>5, <1>6, <1>7 DEF L
-----------------------------------------------------------------------------
(***************************************************************************)
(* Sums over directories.                                                  *)
(***************************************************************************)
LEMMA FilesSum ==
  ASSUME FilesTyped, NEW S \in SUBSET Dirs, NEW n
  PROVE  /\ InFiles({}, n) = 0
         /\ InFiles(S, n) \in Nat
         /\ \A c \in Dirs \ S : InFiles(S \cup {c}, n) = InFiles(S, n) + Value(c, n)
  <1> DEFINE f(T) == [c \in T |-> Value(c, n)]
  <1>1. \A c : Value(c, n) \in Nat
    BY LinesTyped DEF Value
  <1>2. \A T : f(T) \in [T -> Nat] /\ f(T) \in [T -> Int]
    BY <1>1
  <1>3. IsFiniteSet(Dirs) /\ IsFiniteSet(S) /\ IsFiniteSet({}) /\ S \in SUBSET S
    BY DirectoryAssumption, FS_Subset, FS_EmptySet
  <1>4. \A T : InFiles(T, n) = SumFunctionOnSet(f(T), T)
    BY DEF InFiles
  <1> HIDE DEF f
  <1>5. InFiles({}, n) = 0
    BY <1>2, <1>3, <1>4, SumEmpty
  <1>6. InFiles(S, n) \in Nat
    BY <1>2, <1>3, <1>4, SumNat
  <1>7. ASSUME NEW c \in Dirs \ S
        PROVE  InFiles(S \cup {c}, n) = InFiles(S, n) + Value(c, n)
    <2> DEFINE T == S \cup {c}
    <2>1. IsFiniteSet(T) /\ c \in T /\ T \ {c} = S /\ T \in SUBSET T /\ S \in SUBSET T
      BY <1>3, <1>7, FS_Subset
    <2>2. f(T)[c] = Value(c, n) /\ \A x \in S : f(T)[x] = f(S)[x]
      BY DEF f
    <2> HIDE DEF T
    <2>3. SumFunctionOnSet(f(T), T) = f(T)[c] + SumFunctionOnSet(f(T), T \ {c})
      BY <1>2, <2>1, SumAny
    <2>4. SumFunctionOnSet(f(T), S) = SumFunctionOnSet(f(S), S)
      BY <1>2, <1>3, <2>1, <2>2, SumSame
    <2>5. InFiles(T, n) = SumFunctionOnSet(f(T), T) /\ InFiles(S, n) = SumFunctionOnSet(f(S), S)
      BY <1>4
    <2>6. InFiles(T, n) = Value(c, n) + SumFunctionOnSet(f(S), S)
      BY <2>1, <2>2, <2>3, <2>4, <2>5
    <2>7. Value(c, n) \in Nat
      BY <1>1
    <2>8. InFiles(T, n) = InFiles(S, n) + Value(c, n)
      BY <1>6, <2>5, <2>6, <2>7
    <2> QED BY <2>8 DEF T
  <1> QED BY <1>5, <1>6, <1>7

LEMMA SameSum ==
  ASSUME NEW S, NEW n, \A c \in S : Value(c, n)' = Value(c, n)
  PROVE  InFiles(S, n)' = InFiles(S, n)
  <1>1. [c \in S |-> Value(c, n)'] = [c \in S |-> Value(c, n)]
    OBVIOUS
  <1> QED BY <1>1 DEF InFiles
-----------------------------------------------------------------------------
(***************************************************************************)
(* What the invariant says of the directories around one.                  *)
(***************************************************************************)
\* The subdirectories of a directory with a process, none of which is the top.
LEMMA BelowStarted ==
  ASSUME DirectoriesInv, NEW d \in Dirs, pc[d] # "none", NEW c \in Subdirs(d)
  PROVE  /\ c \in Dirs \ {WhoWon, top} /\ Above[c] = d /\ c # d /\ ~IsLeaf(d)
         /\ top \in Path[c]
         /\ NestedIn(c, d)
  <1>1. top \in Path[d]
    BY DEF DirectoriesInv, Started
  <1>2. c \in Dirs \ {WhoWon} /\ Above[c] = d /\ c # d /\ ~IsLeaf(d) /\ top \in Path[c] /\ top # c
    BY <1>1, SubdirFacts
  <1> QED BY <1>2 DEF DirectoriesInv, Nested

\* Those that a process is through with have ended.
LEMMA ThroughEnded ==
  ASSUME DirectoriesInv, NEW d \in Dirs
  PROVE  /\ pc[d] \in {"scan", "wait"} => \A c \in Through(d) : c \in Subdirs(d) /\ pc[c] \in Ended
         /\ pc[d] = "ok" => \A c \in Subdirs(d) : pc[c] \in Ended
  <1>1. ASSUME pc[d] \in {"scan", "wait"}, NEW c \in Through(d)
        PROVE  c \in Subdirs(d) /\ pc[c] \in Ended
    <2>1. c \in Subdirs(d) /\ Item(c) \notin todo[d] /\ (pc[d] = "wait" => sub[d] # c)
      BY DEF Through
    <2>2. NestedIn(c, d)
      BY <1>1, <2>1, BelowStarted
    <2> QED BY <1>1, <2>1, <2>2 DEF NestedIn
  <1>2. ASSUME pc[d] = "ok", NEW c \in Subdirs(d) PROVE pc[c] \in Ended
    BY <1>2, BelowStarted DEF NestedIn
  <1> QED BY <1>1, <1>2

Running == {"start", "scan", "wait", "print"}

\* A running process is the one at the top, or the one that the directory above waits
\* for, or an orphan: the process of the directory above is gone.
LEMMA WaitedFor ==
  ASSUME DirectoriesInv, NEW d \in Dirs \ {WhoWon, top}, pc[d] \in Running
  PROVE  (pc[Above[d]] = "wait" /\ sub[Above[d]] = d) \/ pc[Above[d]] = "failed"
  <1> DEFINE p == Above[d]
  <1>1. p \in Dirs /\ d \in Subdirs(p)
    BY DirectoryAssumption DEF Subdirs
  <1>2. NestedIn(d, p)
    BY DEF DirectoriesInv, Nested
  <1>3. pc[p] \in {"none", "start", "scan", "wait", "print"} \cup Ended
    BY <1>1 DEF DirectoriesInv, Typed
  <1>4. pc[p] # "print"
    <2>1. ~IsLeaf(p)
      BY <1>1 DEF IsLeaf
    <2> QED BY <1>1, <2>1 DEF DirectoriesInv, Says
  <1> HIDE DEF p
  <1>5. (pc[p] = "wait" /\ sub[p] = d) \/ pc[p] = "failed"
    BY <1>2, <1>3, <1>4 DEF NestedIn, Running, Ended
  <1> QED BY <1>5 DEF p
-----------------------------------------------------------------------------
(***************************************************************************)
(* Steps that leave a directory's process alone.                           *)
(***************************************************************************)
SameLines(d) == Lines(Result(d))' = Lines(Result(d))

\* What a step must not change about the file of a directory: lines may be added only if
\* they say nothing of any name, and to the file of Who_Won or of an ended process.
Keeps(d) ==
  /\ \A n \in Names : Value(d, n)' = Value(d, n)
  /\ main' = "waiting" =>
       /\ Entries(Lines(Result(d)))' = Entries(Lines(Result(d)))
       /\ Range(Lines(Result(d))) \subseteq Range(Lines(Result(d))')
  /\ pc[d] \notin Ended =>
       /\ Entries(Lines(Result(d)))' = Entries(Lines(Result(d)))
       /\ d # WhoWon => SameLines(d)

SameProcess(d) ==
  pc'[d] = pc[d] /\ todo'[d] = todo[d] /\ list'[d] = list[d] /\ sub'[d] = sub[d]

LEMMA SameKeeps ==
  ASSUME NEW d, SameLines(d)
  PROVE  Keeps(d) /\ (FirstSaysAll(d) => FirstSaysAll(d)')
  <1>1. Lines(Result(d))' = Lines(Result(d))
    BY DEF SameLines
  <1>2. Entries(Lines(Result(d)))' = Entries(Lines(Result(d)))
    <2>1. Entries(Lines(Result(d))') = Entries(Lines(Result(d)))
      BY <1>1
    <2> QED BY <2>1
  <1>3. \A n : Value(d, n)' = Value(d, n)
    BY <1>2 DEF Value
  <1>4. FirstSaysAll(d) => FirstSaysAll(d)'
    BY <1>1, <1>3 DEF FirstSaysAll
  <1> QED BY <1>1, <1>2, <1>3, <1>4 DEF Keeps, SameLines

\* A message about a link says nothing of any name.
LEMMA CycleKeeps ==
  ASSUME FilesTyped, NEW d \in Dirs, NEW t \in Dirs,
         files' = With(Result(WhoWon), Append(Lines(Result(WhoWon)), Cycle(d, t)))
  PROVE  /\ FilesTyped'
         /\ \A e \in Dirs : Keeps(e)
         /\ \A e \in Dirs \ {WhoWon} : SameLines(e)
         /\ Entries(Lines(Result(WhoWon)))' = Entries(Lines(Result(WhoWon)))
  <1> DEFINE f == Result(WhoWon)
             old == Lines(f)
             new == Append(old, Cycle(d, t))
  <1>1. old \in Seq(Line) /\ Cycle(d, t) \in Line
    BY LinesTyped, LineFacts
  <1>2. new \in Seq(Line) /\ Range(old) \subseteq Range(new) /\ Entries(new) = Entries(old)
    <2>1. Entries(new) = Entries(old)
      <3> HIDE DEF old
      <3> QED BY <1>1, EntriesOfLines
    <2> HIDE DEF old
    <2> QED BY <1>1, <2>1, AppendedLines
  <1>3. f \in Dirs \X Dirs /\ files' = With(f, new)
    BY ResultFacts, DirectoryAssumption
  <1>4. FilesTyped' /\ Lines(f)' = new /\ \A g : g # f => Lines(g)' = Lines(g)
    <2> HIDE DEF f, new
    <2> QED BY <1>2, <1>3, WithRight
  <1>5. \A e \in Dirs \ {WhoWon} : SameLines(e)
    BY <1>4, ResultFacts DEF SameLines
  <1>6. Entries(Lines(f)') = Entries(Lines(f)) /\ Range(Lines(f)) \subseteq Range(Lines(f)')
    BY <1>2, <1>4
  <1>7. Entries(Lines(f))' = Entries(Lines(f))
    BY <1>6
  <1>8. Keeps(WhoWon)
    BY <1>6, <1>7 DEF Keeps, Value
  <1>9. \A e \in Dirs : Keeps(e)
    BY <1>5, <1>8, SameKeeps
  <1> QED BY <1>4, <1>5, <1>7, <1>9

\* What a directory's file says stays true while its process and those below it rest.
LEMMA SaysKept ==
  ASSUME DirectoriesInv, NEW d \in Dirs, SameProcess(d), UNCHANGED votes, Keeps(d),
         main' = "waiting" => main = "waiting",
         \A c \in Subdirs(d) : pc[c] \in Ended => Keeps(c)
  PROVE  Says(d)'
  <1>1. Says(d)
    BY DEF DirectoriesInv
  <1>2. pc'[d] = pc[d] /\ todo'[d] = todo[d] /\ list'[d] = list[d] /\ sub'[d] = sub[d]
    BY DEF SameProcess
  <1>3. Through(d)' = Through(d)
    BY <1>2 DEF Through
  <1>4. ASSUME NEW S \in SUBSET Subdirs(d), \A c \in S : pc[c] \in Ended, SumsTo(d, S)
        PROVE  SumsTo(d, S)'
    <2>1. ASSUME NEW n \in Names PROVE InFiles(S, n)' = InFiles(S, n)
      <3>1. \A c \in S : Value(c, n)' = Value(c, n)
        BY <1>4 DEF Keeps
      <3> QED BY <3>1, SameSum
    <2> QED BY <1>2, <1>4, <2>1 DEF SumsTo
  <1>5. ASSUME pc[d] \in {"scan", "wait"}, ~IsLeaf(d)
        PROVE  /\ Entries(Lines(Result(d)))' = <<>>
               /\ d # WhoWon => Lines(Result(d))' = <<>>
               /\ SumsTo(d, Through(d))'
    <2>1. /\ Entries(Lines(Result(d))) = <<>>
          /\ d # WhoWon => Lines(Result(d)) = <<>>
          /\ SumsTo(d, Through(d))
      BY <1>1, <1>5 DEF Says
    <2>2. pc[d] \notin Ended
      BY <1>5 DEF Ended
    <2>3. SumsTo(d, Through(d))'
      <3> DEFINE S == Through(d)
      <3>1. S \in SUBSET Subdirs(d) /\ \A c \in S : pc[c] \in Ended
        BY <1>5, ThroughEnded DEF Through
      <3>2. S' = S /\ SumsTo(d, S)
        BY <1>3, <2>1
      <3> HIDE DEF S
      <3>3. SumsTo(d, S)'
        <4>1. \A n \in Names : InFiles(S, n)' = InFiles(S, n)
          <5>1. ASSUME NEW n \in Names PROVE [c \in S |-> Value(c, n)]' = [c \in S |-> Value(c, n)]
            BY <3>1, <3>2 DEF Keeps
          <5> QED BY <3>2, <5>1 DEF InFiles
        <4> QED BY <1>2, <3>2, <4>1 DEF SumsTo
      <3> QED BY <3>3 DEF S
    <2> QED BY <2>1, <2>2, <2>3 DEF Keeps, SameLines
  <1>6. ASSUME pc[d] = "print"
        PROVE  /\ IsLeaf(d) /\ d \in DOMAIN votes' /\ list'[d] = Tally(votes'[d])
               /\ Entries(Lines(Result(d)))' = <<>>
               /\ d # WhoWon => Lines(Result(d))' = <<>>
    <2>1. /\ IsLeaf(d) /\ d \in DOMAIN votes /\ list[d] = Tally(votes[d])
          /\ Entries(Lines(Result(d))) = <<>>
          /\ d # WhoWon => Lines(Result(d)) = <<>>
      BY <1>1, <1>6 DEF Says
    <2>2. pc[d] \notin Ended
      BY <1>6 DEF Ended
    <2> QED BY <1>2, <2>1, <2>2 DEF Keeps, SameLines
  <1>7. ASSUME pc[d] = "ok"
        PROVE  /\ \A n \in Names : Value(d, n)' = VotesFor(list'[d], n)
               /\ main' = "waiting" => /\ Entries(Lines(Result(d)))' = list'[d]
                                       /\ Counts(list'[d]) \in Range(Lines(Result(d))')
               /\ IF IsLeaf(d) THEN d \in DOMAIN votes' /\ list'[d] = Tally(votes'[d])
                               ELSE SumsTo(d, Subdirs(d))'
    <2>1. /\ \A n \in Names : Value(d, n) = VotesFor(list[d], n)
          /\ main = "waiting" => /\ Entries(Lines(Result(d))) = list[d]
                                 /\ Counts(list[d]) \in Range(Lines(Result(d)))
          /\ IF IsLeaf(d) THEN d \in DOMAIN votes /\ list[d] = Tally(votes[d])
                          ELSE SumsTo(d, Subdirs(d))
      BY <1>1, <1>7 DEF Says
    <2>2. ~IsLeaf(d) => SumsTo(d, Subdirs(d))'
      BY <1>4, <1>7, <2>1, ThroughEnded
    <2>3. \A n \in Names : Value(d, n)' = VotesFor(list'[d], n)
      BY <1>2, <2>1 DEF Keeps
    <2>4. main' = "waiting" => /\ Entries(Lines(Result(d)))' = list'[d]
                               /\ Counts(list'[d]) \in Range(Lines(Result(d))')
      BY <1>2, <2>1 DEF Keeps
    <2> QED BY <1>2, <2>1, <2>2, <2>3, <2>4
  <1>8. ASSUME pc[d] = "failed", ~IsLeaf(d) PROVE \A n \in Names : Value(d, n)' = 0
    BY <1>1, <1>8 DEF Says, Keeps
  <1>9. pc[d] = "wait" => ~IsLeaf(d)
    BY <1>1 DEF Says
  <1> QED BY <1>2, <1>5, <1>6, <1>7, <1>8, <1>9 DEF Says

\* The other directories of a process's step.
RestKept(d) ==
  \A e \in Dirs \ {d} : SameProcess(e) /\ Keeps(e) /\ (e # WhoWon => SameLines(e))

LEMMA ProcessStep ==
  ASSUME DirectoriesInv, NEW d \in Dirs, pc[d] \in Running,
         Typed', UNCHANGED <<votes, main, top, winner>>,
         RestKept(d),
         pc'[d] # "none", WaitsRight(d)', Says(d)', d # WhoWon => FirstSaysAll(d)',
         \A c \in Subdirs(d) : NestedIn(c, d)'
  PROVE  DirectoriesInv'
  <1>1. Started'
    BY DEF DirectoriesInv, Started, RestKept, SameProcess, Running
  <1>2. ASSUME NEW c \in Dirs \ {WhoWon, top} PROVE NestedIn(c, Above[c])'
    <2> DEFINE p == Above[c]
    <2>1. p \in Dirs /\ c \in Subdirs(p)
      BY DirectoryAssumption DEF Subdirs
    <2>2. NestedIn(c, p)
      BY DEF DirectoriesInv, Nested
    <2>3. CASE p = d
      BY <2>1, <2>3
    <2>4. CASE p # d /\ c # d
      <3>1. SameProcess(p) /\ pc'[c] = pc[c]
        BY <2>1, <2>4 DEF RestKept, SameProcess
      <3> HIDE DEF p
      <3>2. NestedIn(c, p)'
        BY <2>2, <3>1 DEF NestedIn, SameProcess
      <3> QED BY <3>2 DEF p
    <2>5. CASE p # d /\ c = d
      <3>1. (pc[p] = "wait" /\ sub[p] = c) \/ pc[p] = "failed"
        BY <2>5, WaitedFor
      <3>2. SameProcess(p)
        BY <2>1, <2>5 DEF RestKept
      <3> HIDE DEF p
      <3>3. NestedIn(c, p)'
        BY <3>1, <3>2 DEF NestedIn, SameProcess
      <3> QED BY <3>3 DEF p
    <2> QED BY <2>3, <2>4, <2>5
  <1>3. Nested'
    BY <1>2 DEF Nested
  <1>4. ASSUME NEW e \in Dirs \ {d} PROVE WaitsRight(e)' /\ Says(e)'
    <2>1. SameProcess(e) /\ Keeps(e)
      BY DEF RestKept
    <2>2. WaitsRight(e)
      BY DEF DirectoriesInv
    <2>3. WaitsRight(e)'
      <3>1. ASSUME pc[e] = "wait" PROVE sub[e] \in Subdirs(e) /\ pc'[sub[e]] # "none"
        <4>1. sub[e] \in Subdirs(e) /\ pc[sub[e]] # "none"
          BY <2>2, <3>1 DEF WaitsRight
        <4>2. sub[e] \in Dirs
          BY <4>1 DEF Subdirs
        <4>3. CASE sub[e] = d
          BY <4>1, <4>3
        <4>4. CASE sub[e] # d
          BY <4>1, <4>2, <4>4 DEF RestKept, SameProcess
        <4> QED BY <4>1, <4>3, <4>4
      <3> QED BY <2>1, <2>2, <3>1 DEF WaitsRight, SameProcess
    <2>4. \A c \in Subdirs(e) : pc[c] \in Ended => Keeps(c)
      <3>1. pc[d] \notin Ended
        BY DEF Running, Ended
      <3> QED BY <3>1 DEF RestKept, Subdirs
    <2>5. Says(e)'
      BY <2>1, <2>4, SaysKept
    <2> QED BY <2>3, <2>5
  <1>5. ASSUME NEW e \in Dirs \ {WhoWon} PROVE FirstSaysAll(e)'
    <2>1. CASE e = d
      BY <2>1
    <2>2. CASE e # d
      <3>1. SameLines(e) /\ FirstSaysAll(e)
        BY <2>2 DEF RestKept, DirectoriesInv
      <3> QED BY <3>1, SameKeeps
    <2> QED BY <2>1, <2>2
  <1>6. Declared'
    <2> SUFFICES ASSUME main = "done"
                 PROVE  /\ pc'[top] \in Ended
                        /\ pc'[top] = "ok" => winner = FirstMost(list'[top]) /\ Blank \notin NamesIn(list'[top])
      BY DEF Declared
    <2>1. pc[top] \in Ended
          /\ (pc[top] = "ok" => winner = FirstMost(list[top]) /\ Blank \notin NamesIn(list[top]))
      BY DEF DirectoriesInv, Declared
    <2>2. top \in Dirs /\ top # d
      BY <2>1 DEF DirectoriesInv, Typed, Running, Ended
    <2>3. pc'[top] = pc[top] /\ list'[top] = list[top]
      BY <2>2 DEF RestKept, SameProcess
    <2> QED BY <2>1, <2>3
  <1> QED BY <1>1, <1>3, <1>4, <1>5, <1>6 DEF DirectoriesInv
-----------------------------------------------------------------------------
(***************************************************************************)
(* The steps of the programs of a directory.                               *)
(***************************************************************************)
\* No file has other lines than before.
LEMMA RestKeptSame ==
  ASSUME NEW d \in Dirs, \A e \in Dirs \ {d} : SameProcess(e) /\ SameLines(e)
  PROVE  RestKept(d)
  BY SameKeeps DEF RestKept

LEMMA SameFiles ==
  ASSUME UNCHANGED files
  PROVE  \A d : SameLines(d)
  BY DEF SameLines, Lines, Exists

LEMMA EnteredFacts ==
  ASSUME NEW d \in Dirs
  PROVE  /\ \A c : Item(c) \in Entered(d) <=> c \in Subdirs(d)
         /\ \A e \in Entered(d) : /\ e.kind = "dir" => e.name \in Subdirs(d) /\ e = Item(e.name)
                                  /\ e.kind = "link" => e.name \in links[d]
                                                        /\ \A c : e # Item(c)
  <1> DEFINE link(t) == [kind |-> "link", name |-> t]
  <1>1. \A t : link(t).kind = "link" /\ link(t).name = t
    OBVIOUS
  <1>2. \A c : Item(c).kind = "dir" /\ Item(c).name = c
    BY DEF Item
  <1>3. Entered(d) = {link(t) : t \in links[d]} \cup {Item(c) : c \in Subdirs(d)}
    BY DEF Entered, Item
  <1> HIDE DEF link
  <1>4. ASSUME NEW c PROVE Item(c) \in Entered(d) <=> c \in Subdirs(d)
    <2>1. \A t : Item(c) # link(t)
      BY <1>1, <1>2
    <2>2. \A x : Item(c) = Item(x) => x = c
      BY <1>2
    <2> QED BY <1>3, <2>1, <2>2
  <1>5. ASSUME NEW e \in Entered(d)
        PROVE  /\ e.kind = "dir" => e.name \in Subdirs(d) /\ e = Item(e.name)
               /\ e.kind = "link" => e.name \in links[d] /\ \A c : e # Item(c)
    <2>1. CASE \E t \in links[d] : e = link(t)
      BY <1>1, <1>2, <2>1
    <2>2. CASE \E c \in Subdirs(d) : e = Item(c)
      BY <1>2, <2>2
    <2> QED BY <1>3, <2>1, <2>2
  <1> QED BY <1>4, <1>5

\* A new process: nothing of the directories below has begun.
LEMMA BeginKeeps ==
  ASSUME DirectoriesInv, NEW d \in Dirs, Begin(d), FilesTyped',
         \A e \in Dirs \ {d} : SameLines(e),
         ~IsLeaf(d) => Lines(Result(d))' = <<>>,
         SameLines(d) \/ Lines(Result(d))' = <<>>
  PROVE  DirectoriesInv'
  <1>1. /\ pc[d] = "start" /\ pc' = [pc EXCEPT ![d] = "scan"]
        /\ todo' = [todo EXCEPT ![d] = Entered(d)]
        /\ linked' = [linked EXCEPT ![d] = FALSE]
        /\ list' = [list EXCEPT ![d] = <<>>]
        /\ UNCHANGED <<votes, links, main, top, winner, runs, sub, kills>>
    BY DEF Begin, mainVars
  <1>2. /\ pc \in [Dirs -> {"none", "start", "scan", "wait", "print"} \cup Ended]
        /\ todo = [e \in Dirs |-> todo[e]] /\ \A e \in Dirs : todo[e] \subseteq Entered(e)
        /\ linked \in [Dirs -> BOOLEAN]
        /\ list \in [Dirs -> Lists] /\ \A e \in Dirs : Distinct(list[e])
    BY DEF DirectoriesInv, Typed
  <1>3. \A e : Entered(e)' = Entered(e)
    BY <1>1 DEF Entered
  <1>4. Typed'
    <2>1. <<>> \in Lists /\ Distinct(<<>>)
      BY VotesOfNone DEF Distinct
    <2>2. list' \in [Dirs -> Lists] /\ \A e \in Dirs : Distinct(list'[e])
      BY <1>1, <1>2, <2>1
    <2>3. todo' = [e \in Dirs |-> todo'[e]] /\ \A e \in Dirs : todo'[e] \subseteq Entered(e)'
      BY <1>1, <1>2, <1>3
    <2>4. pc' \in [Dirs -> {"none", "start", "scan", "wait", "print"} \cup Ended]
      BY <1>1, <1>2
    <2>5. linked' \in [Dirs -> BOOLEAN]
      BY <1>1, <1>2
    <2> QED BY <1>1, <2>2, <2>3, <2>4, <2>5 DEF DirectoriesInv, Typed
  <1>5. RestKept(d)
    <2>1. \A e \in Dirs \ {d} : SameProcess(e)
      BY <1>1, <1>2 DEF SameProcess
    <2> QED BY <2>1, RestKeptSame
  <1>6. pc'[d] = "scan" /\ todo'[d] = Entered(d) /\ list'[d] = <<>>
    BY <1>1, <1>2
  <1>7. Says(d)'
    <2>1. CASE IsLeaf(d)
      BY <1>6, <2>1 DEF Says, Ended
    <2>2. CASE ~IsLeaf(d)
      <3>1. Lines(Result(d))' = <<>> /\ Entries(Lines(Result(d))') = <<>>
        BY <2>2, EntriesRight
      <3>2. Through(d)' = {}
        BY <1>6, EnteredFacts DEF Through
      <3>3. \A n \in Names : VotesFor(list'[d], n) = 0
        BY <1>6, VotesOfNone
      <3>4. ASSUME NEW n \in Names
            PROVE  SumFunctionOnSet([c \in Through(d)' |-> Value(c, n)'], Through(d)') = 0
        <4> DEFINE f == [c \in {} |-> Value(c, n)']
        <4>1. f \in [{} -> Int] /\ IsFiniteSet({})
          BY FS_EmptySet
        <4>2. f = [c \in Through(d)' |-> Value(c, n)']
          BY <3>2
        <4> HIDE DEF f
        <4> QED BY <3>2, <4>1, <4>2, SumEmpty
      <3>5. SumsTo(d, Through(d))'
        BY <3>3, <3>4 DEF SumsTo, InFiles
      <3> QED BY <1>6, <2>2, <3>1, <3>5 DEF Says
    <2> QED BY <2>1, <2>2
  <1>8. ASSUME d # WhoWon PROVE FirstSaysAll(d)'
    <2>1. CASE SameLines(d)
      BY <1>8, <2>1, SameKeeps DEF DirectoriesInv
    <2>2. CASE Lines(Result(d))' = <<>>
      <3>1. \A n : VotesFor(Entries(Lines(Result(d))'), n) = 0
        BY <2>2, EntriesRight, VotesOfNone
      <3> QED BY <2>2, <3>1 DEF FirstSaysAll, Value
    <2> QED BY <2>1, <2>2
  <1>9. ASSUME NEW c \in Subdirs(d) PROVE NestedIn(c, d)'
    <2>1. NestedIn(c, d) /\ c \in Dirs /\ c # d
      BY <1>1, BelowStarted
    <2>2. pc[c] = "none" /\ pc'[c] = pc[c]
      BY <1>1, <1>2, <2>1 DEF NestedIn
    <2>3. Item(c) \in todo'[d]
      BY <1>6, EnteredFacts
    <2> QED BY <1>6, <2>2, <2>3 DEF NestedIn
  <1>10. WaitsRight(d)' /\ pc'[d] # "none" /\ pc[d] \in Running
    BY <1>1, <1>6 DEF WaitsRight, Running
  <1> QED BY <1>1, <1>4, <1>5, <1>7, <1>8, <1>9, <1>10, ProcessStep

LEMMA StartAggregateKeeps ==
  ASSUME DirectoriesInv, NEW d \in Dirs, StartAggregate(d)
  PROVE  DirectoriesInv'
  <1>1. ~IsLeaf(d) /\ Begin(d) /\ files' = Without(Result(d)) /\ FilesTyped
    BY DEF StartAggregate, DirectoriesInv, Typed
  <1>2. FilesTyped' /\ Lines(Result(d))' = <<>> /\ \A g : g # Result(d) => Lines(g)' = Lines(g)
    BY <1>1, WithoutRight
  <1>3. \A e \in Dirs \ {d} : SameLines(e)
    BY <1>2, ResultFacts DEF SameLines
  <1> QED BY <1>1, <1>2, <1>3, BeginKeeps

LEMMA StartLeafKeeps ==
  ASSUME DirectoriesInv, NEW d \in Dirs, StartLeaf(d)
  PROVE  DirectoriesInv'
  <1>1. IsLeaf(d) /\ Begin(d) /\ UNCHANGED files /\ FilesTyped
    BY DEF StartLeaf, DirectoriesInv, Typed
  <1>2. FilesTyped' /\ \A e : SameLines(e)
    BY <1>1, SameFiles DEF FilesTyped
  <1> QED BY <1>1, <1>2, BeginKeeps
\* A message about a link, or the end of a process that cannot write a second one.
LEMMA ReportLinkKeeps ==
  ASSUME DirectoriesInv, NEW d \in Dirs, ReportLink(d)
  PROVE  DirectoriesInv'
  <1>1. PICK e \in todo[d] :
          /\ ReadEntry(d, "link", e)
          /\ IF linked[d]
             THEN Exit(d, "failed") /\ UNCHANGED <<files, linked>>
             ELSE /\ files' = With(Result(WhoWon), Append(Lines(Result(WhoWon)), Cycle(d, e.name)))
                  /\ linked' = [linked EXCEPT ![d] = TRUE]
                  /\ UNCHANGED pc
    BY DEF ReportLink
  <1>2. /\ pc[d] = "scan" /\ e.kind = "link" /\ todo' = [todo EXCEPT ![d] = @ \ {e}]
        /\ UNCHANGED <<votes, links, main, top, winner, runs, list, sub, kills>>
    BY <1>1 DEF ReportLink, ReadEntry, mainVars
  <1>3. /\ pc \in [Dirs -> {"none", "start", "scan", "wait", "print"} \cup Ended]
        /\ todo = [x \in Dirs |-> todo[x]] /\ \A x \in Dirs : todo[x] \subseteq Entered(x)
        /\ linked \in [Dirs -> BOOLEAN] /\ links \in LinkSets /\ FilesTyped
    BY DEF DirectoriesInv, Typed
  <1>4. e \in Entered(d) /\ e.name \in links[d] /\ \A c : e # Item(c)
    BY <1>2, <1>3, EnteredFacts
  <1>5. e.name \in Dirs
    BY <1>3, <1>4, DirectoryAssumption, PathFacts
  <1>6. /\ FilesTyped'
        /\ \A x \in Dirs : Keeps(x)
        /\ \A x \in Dirs \ {WhoWon} : SameLines(x)
        /\ Entries(Lines(Result(WhoWon)))' = Entries(Lines(Result(WhoWon)))
    <2>1. CASE linked[d]
      <3>1. UNCHANGED files
        BY <1>1, <2>1
      <3>2. \A x : SameLines(x)
        BY <3>1, SameFiles
      <3>3. Entries(Lines(Result(WhoWon))') = Entries(Lines(Result(WhoWon)))
        BY <3>2 DEF SameLines
      <3> QED BY <1>3, <3>1, <3>2, <3>3, SameKeeps DEF FilesTyped
    <2>2. CASE ~linked[d]
      BY <1>1, <1>3, <1>5, <2>2, CycleKeeps
    <2> QED BY <2>1, <2>2
  <1>7. pc' = pc \/ pc' = [pc EXCEPT ![d] = "failed"]
    BY <1>1 DEF Exit
  <1>8. pc'[d] \in {"scan", "failed"} /\ \A x \in Dirs \ {d} : pc'[x] = pc[x]
    BY <1>2, <1>3, <1>7
  <1>9. Typed'
    <2>1. pc' \in [Dirs -> {"none", "start", "scan", "wait", "print"} \cup Ended]
      BY <1>3, <1>7 DEF Ended
    <2>2. \A x : Entered(x)' = Entered(x)
      BY <1>2 DEF Entered
    <2>3. todo' = [x \in Dirs |-> todo'[x]] /\ \A x \in Dirs : todo'[x] \subseteq Entered(x)'
      BY <1>2, <1>3, <2>2
    <2>4. linked' \in [Dirs -> BOOLEAN]
      <3>1. CASE linked[d]
        BY <1>1, <1>3, <3>1
      <3>2. CASE ~linked[d]
        BY <1>1, <1>3, <3>2
      <3> QED BY <3>1, <3>2
    <2> QED BY <1>2, <1>6, <2>1, <2>3, <2>4 DEF DirectoriesInv, Typed
  <1>10. todo'[d] = todo[d] \ {e} /\ \A x \in Dirs \ {d} : SameProcess(x)
    BY <1>2, <1>3, <1>8 DEF SameProcess
  <1>11. RestKept(d)
    BY <1>6, <1>10 DEF RestKept
  <1>12. Says(d)'
    <2>1. CASE IsLeaf(d)
      BY <1>8, <2>1 DEF Says, Ended
    <2>2. CASE ~IsLeaf(d)
      <3>1. /\ Entries(Lines(Result(d))) = <<>>
            /\ d # WhoWon => Lines(Result(d)) = <<>>
            /\ SumsTo(d, Through(d))
        BY <1>2, <2>2 DEF DirectoriesInv, Says
      <3>2. Entries(Lines(Result(d)))' = <<>> /\ (d # WhoWon => Lines(Result(d))' = <<>>)
        <4>1. CASE d = WhoWon
          BY <1>6, <3>1, <4>1
        <4>2. CASE d # WhoWon
          <5>1. Lines(Result(d))' = <<>>
            BY <1>6, <3>1, <4>2 DEF SameLines
          <5>2. Entries(Lines(Result(d))') = <<>>
            BY <5>1, EntriesRight
          <5> QED BY <5>1, <5>2
        <4> QED BY <4>1, <4>2
      <3>3. CASE pc'[d] = "failed"
        <4>1. \A n \in Names : Value(d, n)' = 0
          BY <3>2, VotesOfNone DEF Value
        <4> QED BY <3>3, <4>1 DEF Says
      <3>4. CASE pc'[d] = "scan"
        <4>1. Through(d)' = Through(d)
          BY <1>2, <1>4, <1>10, <3>4 DEF Through
        <4>2. \A n \in Names : \A c \in Through(d) : Value(c, n)' = Value(c, n)
          BY <1>6, SubdirsFinite DEF Keeps, Through
        <4>3. ASSUME NEW n \in Names
              PROVE  [c \in Through(d)' |-> Value(c, n)'] = [c \in Through(d) |-> Value(c, n)]
          BY <4>1, <4>2
        <4>4. SumsTo(d, Through(d))'
          BY <1>2, <3>1, <4>1, <4>3 DEF SumsTo, InFiles
        <4> QED BY <3>2, <3>4, <4>4 DEF Says
      <3> QED BY <1>8, <3>3, <3>4
    <2> QED BY <2>1, <2>2
  <1>13. ASSUME d # WhoWon PROVE FirstSaysAll(d)'
    BY <1>6, <1>13, SameKeeps DEF DirectoriesInv
  <1>14. ASSUME NEW c \in Subdirs(d) PROVE NestedIn(c, d)'
    <2>1. NestedIn(c, d) /\ c \in Dirs /\ c # d
      BY <1>2, BelowStarted
    <2>2. pc'[c] = pc[c] /\ (Item(c) \in todo'[d] <=> Item(c) \in todo[d])
      BY <1>4, <1>8, <1>10, <2>1
    <2> QED BY <1>2, <1>8, <2>1, <2>2 DEF NestedIn
  <1>15. WaitsRight(d)' /\ pc'[d] # "none" /\ pc[d] \in Running
    BY <1>2, <1>8 DEF WaitsRight, Running
  <1> QED BY <1>2, <1>9, <1>11, <1>12, <1>13, <1>14, <1>15, ProcessStep

\* A process killed.
LEMMA KillKeeps ==
  ASSUME DirectoriesInv, NEW d \in Dirs, Kill(d)
  PROVE  DirectoriesInv'
  <1>1. /\ pc[d] \in Running /\ kills < MaxKills /\ kills' = kills + 1
        /\ pc' = [pc EXCEPT ![d] = IF pc[d] = "start" THEN "killed" ELSE "failed"]
        /\ UNCHANGED <<votes, links, files, main, top, winner, runs, todo, linked, list, sub>>
    BY DEF Kill, Exit, mainVars, DirectoriesInv, Typed, Running
  <1>2. pc \in [Dirs -> {"none", "start", "scan", "wait", "print"} \cup Ended] /\ kills \in 0 .. MaxKills
    BY DEF DirectoriesInv, Typed
  <1>3. \A x : SameLines(x)
    BY <1>1, SameFiles
  <1>4. /\ pc[d] = "start" => pc'[d] = "killed"
        /\ pc[d] # "start" => pc'[d] = "failed"
        /\ \A x \in Dirs \ {d} : pc'[x] = pc[x]
    BY <1>1, <1>2
  <1>5. Typed'
    <2>1. pc' \in [Dirs -> {"none", "start", "scan", "wait", "print"} \cup Ended]
      BY <1>1, <1>2 DEF Ended
    <2>2. kills' \in 0 .. MaxKills
      BY <1>1, <1>2, DirectoryAssumption
    <2>3. \A x : Entered(x)' = Entered(x)
      BY <1>1 DEF Entered
    <2> QED BY <1>1, <2>1, <2>2, <2>3 DEF DirectoriesInv, Typed, FilesTyped
  <1>6. RestKept(d)
    <2>1. \A x \in Dirs \ {d} : SameProcess(x)
      BY <1>1, <1>4 DEF SameProcess
    <2> QED BY <1>3, <2>1, RestKeptSame
  <1>7. Says(d)'
    <2>1. ASSUME pc[d] # "start", ~IsLeaf(d) PROVE \A n \in Names : Value(d, n)' = 0
      <3>1. Entries(Lines(Result(d))) = <<>>
        BY <1>1, <2>1 DEF DirectoriesInv, Says, Running
      <3>2. Entries(Lines(Result(d))') = <<>>
        BY <1>3, <3>1 DEF SameLines
      <3> QED BY <3>2, VotesOfNone DEF Value
    <2> QED BY <1>4, <2>1 DEF Says
  <1>8. ASSUME d # WhoWon PROVE FirstSaysAll(d)'
    BY <1>3, <1>8, SameKeeps DEF DirectoriesInv
  <1>9. ASSUME NEW c \in Subdirs(d) PROVE NestedIn(c, d)'
    <2>1. NestedIn(c, d) /\ c \in Dirs /\ c # d
      BY <1>1, BelowStarted DEF Running
    <2> QED BY <1>4, <2>1 DEF NestedIn
  <1>10. WaitsRight(d)' /\ pc'[d] # "none"
    BY <1>4 DEF WaitsRight
  <1> QED BY <1>1, <1>5, <1>6, <1>7, <1>8, <1>9, <1>10, ProcessStep
\* A program started for a subdirectory, where there was none.
LEMMA ForkSubKeeps ==
  ASSUME DirectoriesInv, NEW d \in Dirs, ForkSub(d)
  PROVE  DirectoriesInv'
  <1>1. PICK e \in todo[d] :
          /\ ReadEntry(d, "dir", e)
          /\ sub' = [sub EXCEPT ![d] = e.name]
          /\ pc' = [pc EXCEPT ![d] = "wait", ![e.name] = "start"]
    BY DEF ForkSub
  <1> DEFINE c == e.name
  <1>2. /\ pc[d] = "scan" /\ e.kind = "dir" /\ todo' = [todo EXCEPT ![d] = @ \ {e}]
        /\ sub' = [sub EXCEPT ![d] = c]
        /\ pc' = [pc EXCEPT ![d] = "wait", ![c] = "start"]
        /\ UNCHANGED <<votes, links, files, main, top, winner, runs, linked, list, kills>>
    BY <1>1 DEF ForkSub, ReadEntry, mainVars
  <1>3. /\ pc \in [Dirs -> {"none", "start", "scan", "wait", "print"} \cup Ended]
        /\ todo = [x \in Dirs |-> todo[x]] /\ \A x \in Dirs : todo[x] \subseteq Entered(x)
        /\ sub \in [Dirs -> Dirs] /\ top \in Dirs
    BY DEF DirectoriesInv, Typed
  <1>4. c \in Subdirs(d) /\ e = Item(c)
    BY <1>2, <1>3, EnteredFacts
  <1> HIDE DEF c
  <1>5. /\ c \in Dirs \ {WhoWon, top} /\ Above[c] = d /\ c # d /\ ~IsLeaf(d)
        /\ top \in Path[c] /\ pc[c] = "none"
    <2>1. NestedIn(c, d) /\ Item(c) \in todo[d]
      BY <1>2, <1>4, BelowStarted
    <2> QED BY <1>2, <1>4, <2>1, BelowStarted DEF NestedIn
  <1>6. /\ pc'[d] = "wait" /\ pc'[c] = "start" /\ \A x \in Dirs \ {d, c} : pc'[x] = pc[x]
        /\ todo'[d] = todo[d] \ {Item(c)} /\ \A x \in Dirs \ {d} : todo'[x] = todo[x]
        /\ sub'[d] = c /\ \A x \in Dirs \ {d} : sub'[x] = sub[x]
    BY <1>2, <1>3, <1>4, <1>5
  <1>7. \A x : SameLines(x)
    BY <1>2, SameFiles
  <1>8. \A x : Item(x) = Item(c) => x = c
    BY DEF Item
  <1>9. Typed'
    <2>1. pc' \in [Dirs -> {"none", "start", "scan", "wait", "print"} \cup Ended]
      BY <1>2, <1>3, <1>5
    <2>2. \A x : Entered(x)' = Entered(x)
      BY <1>2 DEF Entered
    <2>3. todo' = [x \in Dirs |-> todo'[x]] /\ \A x \in Dirs : todo'[x] \subseteq Entered(x)'
      BY <1>2, <1>3, <2>2
    <2>4. sub' \in [Dirs -> Dirs]
      BY <1>2, <1>3, <1>5
    <2> QED BY <1>2, <2>1, <2>3, <2>4 DEF DirectoriesInv, Typed, FilesTyped
  <1>10. Started'
    <2>1. main # "idle" /\ \A x \in Dirs : pc[x] # "none" => top \in Path[x]
      BY <1>2 DEF DirectoriesInv, Started
    <2>2. top' = top /\ main' = main /\ pc[d] # "none"
      BY <1>2
    <2> QED BY <1>5, <1>6, <2>1, <2>2 DEF Started
  <1>11. ASSUME NEW x \in Dirs \ {WhoWon, top} PROVE NestedIn(x, Above[x])'
    <2> DEFINE p == Above[x]
    <2>1. p \in Dirs /\ x \in Subdirs(p)
      BY DirectoryAssumption DEF Subdirs
    <2>2. NestedIn(x, p)
      BY DEF DirectoriesInv, Nested
    <2>3. p # x
      BY <2>1, SubdirFacts
    <2>4. Above[c] = d
      BY <1>5
    <2>5. x = c => p = d
      BY <2>4
    <2> HIDE DEF p
    <2>6. ASSUME p = d PROVE NestedIn(x, p)'
      <3>1. x # c => pc'[x] = pc[x] /\ (Item(x) \in todo'[d] <=> Item(x) \in todo[d])
        BY <1>6, <1>8, <2>3, <2>6
      <3> QED BY <1>2, <1>6, <2>2, <2>6, <3>1 DEF NestedIn
    <2>7. ASSUME p = c PROVE NestedIn(x, p)'
      <3>1. pc[x] = "none"
        BY <1>5, <2>2, <2>7 DEF NestedIn
      <3>2. pc'[x] = "none"
        BY <1>2, <1>6, <2>3, <2>7, <3>1
      <3> QED BY <1>6, <2>7, <3>2 DEF NestedIn
    <2>8. ASSUME p # d, p # c, x = d PROVE NestedIn(x, p)'
      <3>1. (pc[p] = "wait" /\ sub[p] = x) \/ pc[p] = "failed"
        BY <1>2, <2>8, WaitedFor DEF Running, p
      <3>2. (pc'[p] = "wait" /\ sub'[p] = x) \/ pc'[p] = "failed"
        BY <1>6, <2>1, <2>8, <3>1
      <3> QED BY <3>2 DEF NestedIn
    <2>9. ASSUME p # d, p # c, x # d PROVE NestedIn(x, p)'
      <3>1. pc'[p] = pc[p] /\ todo'[p] = todo[p] /\ sub'[p] = sub[p] /\ pc'[x] = pc[x]
        BY <1>6, <2>1, <2>5, <2>9
      <3> QED BY <2>2, <3>1 DEF NestedIn
    <2>10. NestedIn(x, p)'
      BY <2>6, <2>7, <2>8, <2>9
    <2> QED BY <2>10 DEF p
  <1>12. Nested'
    BY <1>2, <1>11 DEF Nested
  <1>13. ASSUME NEW x \in Dirs PROVE WaitsRight(x)'
    <2>1. \A y \in Dirs : pc[y] # "none" => pc'[y] # "none"
      BY <1>6
    <2>2. WaitsRight(x) /\ (sub[x] \in Subdirs(x) => sub[x] \in Dirs)
      BY DEF DirectoriesInv, Subdirs
    <2>3. CASE x = d
      BY <1>4, <1>6, <2>3 DEF WaitsRight
    <2>4. CASE x = c
      BY <1>6, <2>4 DEF WaitsRight
    <2>5. CASE x # d /\ x # c
      <3>1. pc'[x] = pc[x] /\ todo'[x] = todo[x] /\ sub'[x] = sub[x]
        BY <1>6, <2>5
      <3> QED BY <2>1, <2>2, <3>1 DEF WaitsRight
    <2> QED BY <2>3, <2>4, <2>5
  <1>14. ASSUME NEW x \in Dirs PROVE Says(x)'
    <2>1. CASE x = d
      <3>1. /\ Entries(Lines(Result(d))) = <<>>
            /\ d # WhoWon => Lines(Result(d)) = <<>>
            /\ SumsTo(d, Through(d))
        BY <1>2, <1>5 DEF DirectoriesInv, Says
      <3>2. Entries(Lines(Result(d))') = <<>> /\ (d # WhoWon => Lines(Result(d))' = <<>>)
        BY <1>7, <3>1 DEF SameLines
      <3>3. Through(d)' = Through(d)
        BY <1>2, <1>4, <1>6, <1>8 DEF Through
      <3>4. \A n \in Names : \A y : Value(y, n)' = Value(y, n)
        BY <1>7, SameKeeps DEF Keeps
      <3>5. ASSUME NEW n \in Names
            PROVE  [y \in Through(d)' |-> Value(y, n)'] = [y \in Through(d) |-> Value(y, n)]
        BY <3>3, <3>4
      <3>6. SumsTo(d, Through(d))'
        BY <1>2, <3>1, <3>3, <3>5 DEF SumsTo, InFiles
      <3> QED BY <1>5, <1>6, <2>1, <3>2, <3>6 DEF Says
    <2>2. CASE x = c
      BY <1>6, <2>2 DEF Says, Ended
    <2>3. CASE x # d /\ x # c
      <3>1. SameProcess(x)
        BY <1>2, <1>6, <2>3 DEF SameProcess
      <3>2. Keeps(x) /\ \A y : Keeps(y)
        BY <1>7, SameKeeps
      <3> QED BY <1>2, <3>1, <3>2, SaysKept
    <2> QED BY <2>1, <2>2, <2>3
  <1>15. ASSUME NEW x \in Dirs \ {WhoWon} PROVE FirstSaysAll(x)'
    BY <1>7, SameKeeps DEF DirectoriesInv
  <1>16. Declared'
    <2>1. main = "done" => pc[top] \in Ended
      BY DEF DirectoriesInv, Declared
    <2>2. main = "done" => pc'[top] = pc[top]
      BY <1>2, <1>3, <1>5, <1>6, <2>1 DEF Ended
    <2> QED BY <1>2, <2>1, <2>2 DEF DirectoriesInv, Declared
  <1> QED BY <1>9, <1>10, <1>12, <1>13, <1>14, <1>15, <1>16 DEF DirectoriesInv

\* What a parent reads is all that the subdirectory's file says.
LEMMA MergedRight ==
  ASSUME FilesTyped, NEW c, FirstSaysAll(c), NEW l \in Lists
  PROVE  /\ Merged(l, c) \in Lists
         /\ Distinct(l) => Distinct(Merged(l, c))
         /\ \A n \in Names : VotesFor(Merged(l, c), n) = VotesFor(l, n) + Value(c, n)
  <1> DEFINE lines == Lines(Result(c))
             line == Fields(Head(lines))
  <1>1. lines \in Seq(Line) /\ \A n : VotesFor(l, n) \in Nat
    BY LinesTyped, ListFacts
  <1>2. CASE lines = <<>>
    <2>1. Merged(l, c) = l
      BY <1>2 DEF Merged
    <2>2. \A n \in Names : Value(c, n) = 0
      BY <1>2 DEF FirstSaysAll
    <2> QED BY <1>1, <2>1, <2>2
  <1>3. CASE lines # <<>>
    <2>1. Merged(l, c) = Merge(l, line)
      BY <1>3 DEF Merged
    <2>2. \A n \in Names : Value(c, n) = VotesFor(line, n)
      BY <1>3 DEF FirstSaysAll
    <2>3. line \in Lists
      <3>1. Head(lines) \in Line
        <4> DEFINE L == Line
        <4>1. lines \in Seq(L)
          BY <1>1
        <4> HIDE DEF L, lines
        <4>2. Head(lines) \in L
          BY <1>3, <4>1
        <4> QED BY <4>2 DEF L
      <3> HIDE DEF lines
      <3> QED BY <3>1, LineFacts
    <2> HIDE DEF line
    <2> QED BY <2>1, <2>2, <2>3, MergeRight
  <1> QED BY <1>2, <1>3

\* The parent adds the file of the subdirectory it waited for, or fails.
LEMMA MergeSubKeeps ==
  ASSUME DirectoriesInv, NEW d \in Dirs, MergeSub(d)
  PROVE  DirectoriesInv'
  <1> DEFINE c == sub[d]
             m == Merged(list[d], c)
  <1>1. /\ pc[d] = "wait" /\ pc[c] \in Ended
        /\ files' = With(Result(d), Lines(Result(d)))
        /\ UNCHANGED <<votes, links, main, top, winner, runs, todo, linked, sub, kills>>
    BY DEF MergeSub, mainVars
  <1>2. \/ list' = [list EXCEPT ![d] = m] /\ pc' = [pc EXCEPT ![d] = "scan"]
        \/ list' = list /\ pc' = [pc EXCEPT ![d] = "failed"]
    BY DEF MergeSub, Exit
  <1>3. /\ pc \in [Dirs -> {"none", "start", "scan", "wait", "print"} \cup Ended]
        /\ FilesTyped
        /\ list \in [Dirs -> Lists] /\ \A x \in Dirs : Distinct(list[x])
    BY DEF DirectoriesInv, Typed
  <1>4. c \in Subdirs(d) /\ Item(c) \notin todo[d]
    BY <1>1 DEF DirectoriesInv, WaitsRight
  <1>5. c \in Dirs \ {WhoWon, top} /\ c # d /\ ~IsLeaf(d)
    BY <1>1, <1>4, BelowStarted
  <1>6. FilesTyped' /\ \A x \in Dirs : SameLines(x)
    <2> DEFINE f == Result(d)
               old == Lines(f)
    <2>1. f \in Dirs \X Dirs /\ old \in Seq(Line) /\ files' = With(f, old)
      BY <1>1, <1>3, ResultFacts, LinesTyped
    <2>2. FilesTyped' /\ Lines(f)' = old /\ \A g : g # f => Lines(g)' = Lines(g)
      <3> HIDE DEF f, old
      <3> QED BY <1>3, <2>1, WithRight
    <2> QED BY <2>2 DEF SameLines
  <1>7. /\ m \in Lists /\ Distinct(m)
        /\ \A n \in Names : VotesFor(m, n) = VotesFor(list[d], n) + Value(c, n)
    <2>1. FirstSaysAll(c) /\ list[d] \in Lists /\ Distinct(list[d])
      BY <1>3, <1>5 DEF DirectoriesInv
    <2> HIDE DEF c
    <2> QED BY <1>3, <2>1, MergedRight
  <1>8. /\ pc'[d] \in {"scan", "failed"} /\ \A x \in Dirs \ {d} : pc'[x] = pc[x]
        /\ pc'[d] = "scan" => list'[d] = m
        /\ \A x \in Dirs \ {d} : list'[x] = list[x]
    <2> HIDE DEF m
    <2> QED BY <1>2, <1>3
  <1> HIDE DEF m
  <1>9. Typed'
    <2>1. pc' \in [Dirs -> {"none", "start", "scan", "wait", "print"} \cup Ended]
      BY <1>2, <1>3 DEF Ended
    <2>2. \A x : Entered(x)' = Entered(x)
      BY <1>1 DEF Entered
    <2>3. list' \in [Dirs -> Lists] /\ \A x \in Dirs : Distinct(list'[x])
      BY <1>2, <1>3, <1>7
    <2> QED BY <1>1, <1>6, <2>1, <2>2, <2>3 DEF DirectoriesInv, Typed
  <1>10. RestKept(d)
    <2>1. \A x \in Dirs \ {d} : SameProcess(x)
      BY <1>1, <1>8 DEF SameProcess
    <2> QED BY <1>6, <2>1, RestKeptSame
  <1>11. Says(d)'
    <2>1. /\ Entries(Lines(Result(d))) = <<>>
          /\ d # WhoWon => Lines(Result(d)) = <<>>
          /\ SumsTo(d, Through(d))
      BY <1>1, <1>5 DEF DirectoriesInv, Says
    <2>2. Entries(Lines(Result(d))') = <<>> /\ (d # WhoWon => Lines(Result(d))' = <<>>)
      BY <1>6, <2>1 DEF SameLines
    <2>3. CASE pc'[d] = "failed"
      <3>1. \A n \in Names : Value(d, n)' = 0
        BY <2>2, VotesOfNone DEF Value
      <3> QED BY <2>3, <3>1 DEF Says
    <2>4. CASE pc'[d] = "scan"
      <3> DEFINE S == Through(d)
                 T == S \cup {c}
      <3>1. S \in SUBSET Dirs /\ c \in Dirs \ S /\ T \in SUBSET Dirs
        BY <1>1, <1>5, SubdirsFinite DEF Through
      <3>2. Through(d)' = T
        BY <1>1, <1>4, <2>4 DEF Through
      <3>3. \A n \in Names : \A x \in Dirs : Value(x, n)' = Value(x, n)
        BY <1>6, SameKeeps DEF Keeps
      <3>4. SumsTo(d, S)
        BY <2>1
      <3> HIDE DEF S, T
      <3>5. ASSUME NEW n \in Names PROVE InFiles(Through(d), n)' = InFiles(T, n)
        <4>1. [x \in Through(d)' |-> Value(x, n)'] = [x \in T |-> Value(x, n)]
          BY <3>1, <3>2, <3>3
        <4> QED BY <3>2, <4>1 DEF InFiles
      <3>6. ASSUME NEW n \in Names PROVE InFiles(T, n) = InFiles(S, n) + Value(c, n)
        BY <1>3, <3>1, FilesSum DEF T
      <3>7. SumsTo(d, Through(d))'
        BY <1>7, <1>8, <2>4, <3>4, <3>5, <3>6 DEF SumsTo
      <3> QED BY <2>2, <2>4, <3>7 DEF Says
    <2> QED BY <1>8, <2>3, <2>4
  <1>12. ASSUME d # WhoWon PROVE FirstSaysAll(d)'
    BY <1>6, <1>12, SameKeeps DEF DirectoriesInv
  <1>13. ASSUME NEW x \in Subdirs(d) PROVE NestedIn(x, d)'
    <2>1. NestedIn(x, d) /\ x \in Dirs /\ x # d
      BY <1>1, BelowStarted
    <2>2. pc'[x] = pc[x] /\ todo'[d] = todo[d]
      BY <1>1, <1>8, <2>1
    <2>3. CASE x = c
      BY <1>1, <1>4, <1>8, <2>2, <2>3 DEF NestedIn
    <2>4. CASE x # c
      BY <1>1, <1>8, <2>1, <2>2, <2>4 DEF NestedIn
    <2> QED BY <2>3, <2>4
  <1>14. WaitsRight(d)' /\ pc'[d] # "none" /\ pc[d] \in Running
    BY <1>1, <1>8 DEF WaitsRight, Running
  <1> QED BY <1>1, <1>9, <1>10, <1>11, <1>12, <1>13, <1>14, ProcessStep
\* A line with counts after none of this kind.
LEMMA CountsWritten ==
  ASSUME FilesTyped, NEW d \in Dirs, NEW l \in Lists,
         Entries(Lines(Result(d))) = <<>>, d # WhoWon => Lines(Result(d)) = <<>>,
         files' = With(Result(d), Append(Lines(Result(d)), Counts(l)))
  PROVE  /\ FilesTyped'
         /\ \A e \in Dirs \ {d} : SameLines(e)
         /\ Entries(Lines(Result(d)))' = l
         /\ Counts(l) \in Range(Lines(Result(d))')
         /\ \A n \in Names : Value(d, n)' = VotesFor(l, n)
         /\ d # WhoWon => FirstSaysAll(d)'
  <1> DEFINE f == Result(d)
             old == Lines(f)
             x == Counts(l)
             new == Append(old, x)
  <1>1. f \in Dirs \X Dirs /\ old \in Seq(Line) /\ x \in Line /\ Fields(x) = l
    BY ResultFacts, LinesTyped, LineFacts
  <1>2. Entries(new) = l
    <2>1. Entries(old) = <<>>
      OBVIOUS
    <2> HIDE DEF old
    <2> QED BY <1>1, <2>1, EntriesOfLines
  <1>3. /\ new \in Seq(Line) /\ x \in Range(new) /\ new # <<>>
        /\ d # WhoWon => Head(new) = x
    <2>1. d # WhoWon => old = <<>>
      OBVIOUS
    <2> HIDE DEF old, x
    <2> QED BY <1>1, <2>1, AppendedLines
  <1>4. files' = With(f, new)
    OBVIOUS
  <1> HIDE DEF new
  <1>5. FilesTyped' /\ Lines(f)' = new /\ \A g : g # f => Lines(g)' = Lines(g)
    <2> HIDE DEF f
    <2> QED BY <1>1, <1>3, <1>4, WithRight
  <1>6. \A e \in Dirs \ {d} : SameLines(e)
    BY <1>5, ResultFacts DEF SameLines
  <1>7. Entries(Lines(f)') = l
    BY <1>2, <1>5
  <1>8. \A n \in Names : Value(d, n)' = VotesFor(l, n)
    BY <1>7 DEF Value
  <1>9. ASSUME d # WhoWon PROVE FirstSaysAll(d)'
    <2>1. Lines(Result(d))' # <<>> /\ Fields(Head(Lines(Result(d))')) = l
      BY <1>1, <1>3, <1>5, <1>9
    <2> QED BY <1>8, <2>1 DEF FirstSaysAll
  <1> QED BY <1>3, <1>5, <1>6, <1>7, <1>8, <1>9

\* What changes when only the place of a process and its list change.
LEMMA StepTyped ==
  ASSUME DirectoriesInv, NEW d \in Dirs, NEW how \in {"ok", "failed", "print"}, NEW l \in Lists,
         Distinct(l), FilesTyped',
         pc' = [pc EXCEPT ![d] = how],
         list' = list \/ list' = [list EXCEPT ![d] = l],
         UNCHANGED <<votes, links, main, top, winner, runs, todo, linked, sub, kills>>,
         \A e \in Dirs \ {d} : SameLines(e)
  PROVE  /\ Typed' /\ RestKept(d) /\ pc'[d] = how
         /\ \A e \in Dirs \ {d} : pc'[e] = pc[e]
  <1>1. /\ pc \in [Dirs -> {"none", "start", "scan", "wait", "print"} \cup Ended]
        /\ list \in [Dirs -> Lists] /\ \A x \in Dirs : Distinct(list[x])
    BY DEF DirectoriesInv, Typed
  <1>2. pc' \in [Dirs -> {"none", "start", "scan", "wait", "print"} \cup Ended]
    BY <1>1 DEF Ended
  <1>3. list' \in [Dirs -> Lists] /\ \A x \in Dirs : Distinct(list'[x])
    BY <1>1
  <1>4. \A x : Entered(x)' = Entered(x)
    BY DEF Entered
  <1>5. Typed'
    BY <1>2, <1>3, <1>4 DEF DirectoriesInv, Typed
  <1>6. pc'[d] = how /\ \A e \in Dirs \ {d} : pc'[e] = pc[e] /\ list'[e] = list[e]
    BY <1>1
  <1>7. RestKept(d)
    <2>1. \A e \in Dirs \ {d} : SameProcess(e)
      BY <1>6 DEF SameProcess
    <2> QED BY <2>1, RestKeptSame
  <1> QED BY <1>5, <1>6, <1>7

LEMMA WriteCountsKeeps ==
  ASSUME DirectoriesInv, NEW d \in Dirs, WriteCounts(d)
  PROVE  DirectoriesInv'
  <1> DEFINE l == list[d]
  <1>1. /\ ~IsLeaf(d) /\ pc[d] = "scan" /\ todo[d] = {}
        /\ UNCHANGED <<votes, links, main, top, winner, runs, todo, linked, list, sub, kills>>
    BY DEF WriteCounts, mainVars
  <1>2. l \in Lists /\ Distinct(l) /\ FilesTyped
    BY DEF DirectoriesInv, Typed
  <1>3. /\ Entries(Lines(Result(d))) = <<>>
        /\ d # WhoWon => Lines(Result(d)) = <<>>
        /\ SumsTo(d, Through(d))
    BY <1>1 DEF DirectoriesInv, Says
  <1>4. Through(d) = Subdirs(d)
    BY <1>1 DEF Through
  <1>5. ASSUME NEW c \in Subdirs(d) PROVE c \in Dirs /\ c # d /\ pc[c] \in Ended
    BY <1>1, <1>4, BelowStarted, ThroughEnded
  <1>6. ASSUME NEW how \in {"ok", "failed"}, pc' = [pc EXCEPT ![d] = how], FilesTyped',
               \A e \in Dirs \ {d} : SameLines(e), Says(d)', d # WhoWon => FirstSaysAll(d)'
        PROVE  DirectoriesInv'
    <2>1. /\ Typed' /\ RestKept(d) /\ pc'[d] = how
          /\ \A e \in Dirs \ {d} : pc'[e] = pc[e]
      BY <1>1, <1>2, <1>6, StepTyped
    <2>2. ASSUME NEW c \in Subdirs(d) PROVE NestedIn(c, d)'
      BY <1>5, <2>1 DEF NestedIn, Ended
    <2>3. WaitsRight(d)' /\ pc'[d] # "none" /\ pc[d] \in Running
      BY <1>1, <2>1 DEF WaitsRight, Running
    <2> QED BY <1>1, <1>6, <2>1, <2>2, <2>3, ProcessStep
  <1>7. CASE l = <<>>
    <2>1. pc' = [pc EXCEPT ![d] = "failed"] /\ UNCHANGED files
      BY <1>7 DEF WriteCounts, Exit
    <2>2. FilesTyped' /\ \A x : SameLines(x)
      BY <1>2, <2>1, SameFiles DEF FilesTyped
    <2>3. pc'[d] = "failed"
      BY <2>1 DEF DirectoriesInv, Typed
    <2>4. Says(d)'
      <3>1. Entries(Lines(Result(d))') = <<>>
        BY <1>3, <2>2 DEF SameLines
      <3>2. \A n \in Names : Value(d, n)' = 0
        BY <3>1, VotesOfNone DEF Value
      <3> QED BY <2>3, <3>2 DEF Says
    <2>5. d # WhoWon => FirstSaysAll(d)'
      BY <2>2, SameKeeps DEF DirectoriesInv
    <2> QED BY <1>6, <2>1, <2>2, <2>4, <2>5
  <1>8. CASE l # <<>>
    <2>1. /\ pc' = [pc EXCEPT ![d] = "ok"]
          /\ files' = With(Result(d), Append(Lines(Result(d)), Counts(l)))
      BY <1>8 DEF WriteCounts, Exit
    <2>2. /\ FilesTyped'
          /\ \A e \in Dirs \ {d} : SameLines(e)
          /\ Entries(Lines(Result(d)))' = l
          /\ Counts(l) \in Range(Lines(Result(d))')
          /\ \A n \in Names : Value(d, n)' = VotesFor(l, n)
          /\ d # WhoWon => FirstSaysAll(d)'
      <3> HIDE DEF l
      <3> QED BY <1>2, <1>3, <2>1, CountsWritten
    <2>3. pc'[d] = "ok" /\ list'[d] = l
      BY <1>1, <2>1 DEF DirectoriesInv, Typed
    <2>4. SumsTo(d, Subdirs(d))'
      <3>1. ASSUME NEW n \in Names PROVE InFiles(Subdirs(d), n)' = InFiles(Subdirs(d), n)
        <4>1. \A c \in Subdirs(d) : Value(c, n)' = Value(c, n)
          BY <1>5, <2>2, SameKeeps DEF Keeps
        <4> QED BY <4>1, SameSum
      <3> QED BY <1>1, <1>3, <1>4, <3>1 DEF SumsTo
    <2>5. Says(d)'
      BY <1>1, <2>2, <2>3, <2>4 DEF Says
    <2> QED BY <1>6, <2>1, <2>2, <2>5
  <1> QED BY <1>7, <1>8

LEMMA CountVotesKeeps ==
  ASSUME DirectoriesInv, NEW d \in Dirs, CountVotes(d)
  PROVE  DirectoriesInv'
  <1>1. /\ IsLeaf(d) /\ pc[d] = "scan"
        /\ UNCHANGED <<votes, links, main, top, winner, runs, todo, linked, sub, kills>>
    BY DEF CountVotes, mainVars
  <1>2. FilesTyped /\ list \in [Dirs -> Lists] /\ votes \in [DOMAIN votes -> VoteFiles]
    BY DEF DirectoriesInv, Typed
  <1>3. Subdirs(d) = {}
    BY <1>1 DEF IsLeaf
  <1>4. ASSUME NEW how \in {"failed", "print"}, NEW l \in Lists, Distinct(l),
               pc' = [pc EXCEPT ![d] = how], list' = list \/ list' = [list EXCEPT ![d] = l],
               FilesTyped', \A e \in Dirs \ {d} : SameLines(e),
               Says(d)', d # WhoWon => FirstSaysAll(d)'
        PROVE  DirectoriesInv'
    <2>1. /\ Typed' /\ RestKept(d) /\ pc'[d] = how
          /\ \A e \in Dirs \ {d} : pc'[e] = pc[e]
      BY <1>1, <1>4, StepTyped
    <2>2. WaitsRight(d)' /\ pc'[d] # "none" /\ pc[d] \in Running
      BY <1>1, <2>1 DEF WaitsRight, Running
    <2> QED BY <1>1, <1>3, <1>4, <2>1, <2>2, ProcessStep
  <1>5. CASE d \notin DOMAIN votes
    <2>1. pc' = [pc EXCEPT ![d] = "failed"] /\ UNCHANGED <<files, list>>
      BY <1>5 DEF CountVotes, Exit
    <2>2. FilesTyped' /\ \A x : SameLines(x)
      BY <1>2, <2>1, SameFiles DEF FilesTyped
    <2>3. pc'[d] = "failed"
      BY <2>1 DEF DirectoriesInv, Typed
    <2>4. Says(d)'
      BY <1>1, <2>3 DEF Says
    <2>5. d # WhoWon => FirstSaysAll(d)'
      BY <2>2, SameKeeps DEF DirectoriesInv
    <2>6. <<>> \in Lists /\ Distinct(<<>>)
      BY VotesOfNone DEF Distinct
    <2> QED BY <1>4, <2>1, <2>2, <2>4, <2>5, <2>6
  <1>6. CASE d \in DOMAIN votes
    <2> DEFINE l == Tally(votes[d])
    <2>1. /\ pc' = [pc EXCEPT ![d] = "print"] /\ list' = [list EXCEPT ![d] = l]
          /\ files' = With(Result(d), <<>>)
      BY <1>6 DEF CountVotes, Exit
    <2>2. votes[d] \in Seq(Names)
      BY <1>2, <1>6, DirectoryAssumption
    <2>3. l \in Lists /\ Distinct(l)
      BY <2>2, TallyRight
    <2>4. FilesTyped' /\ Lines(Result(d))' = <<>> /\ \A e \in Dirs \ {d} : SameLines(e)
      <3> DEFINE f == Result(d)
      <3>1. f \in Dirs \X Dirs /\ <<>> \in Seq(Line) /\ files' = With(f, <<>>)
        BY <2>1, ResultFacts
      <3>2. FilesTyped' /\ Lines(f)' = <<>> /\ \A g : g # f => Lines(g)' = Lines(g)
        <4> HIDE DEF f
        <4> QED BY <1>2, <3>1, WithRight
      <3> QED BY <3>2, ResultFacts DEF SameLines
    <2>5. pc'[d] = "print" /\ list'[d] = l
      <3> HIDE DEF l
      <3> QED BY <1>2, <2>1 DEF DirectoriesInv, Typed
    <2>6. Entries(Lines(Result(d))') = <<>>
      BY <2>4, EntriesRight
    <2>7. Says(d)'
      BY <1>1, <1>6, <2>4, <2>5, <2>6 DEF Says, Ended
    <2>8. d # WhoWon => FirstSaysAll(d)'
      BY <2>4, <2>6, VotesOfNone DEF FirstSaysAll, Value
    <2> HIDE DEF l
    <2> QED BY <1>4, <2>1, <2>3, <2>4, <2>7, <2>8
  <1> QED BY <1>5, <1>6

LEMMA PrintResultsKeeps ==
  ASSUME DirectoriesInv, NEW d \in Dirs, PrintResults(d)
  PROVE  DirectoriesInv'
  <1> DEFINE l == list[d]
  <1>1. /\ pc[d] = "print" /\ pc' = [pc EXCEPT ![d] = "ok"]
        /\ files' = With(Result(d), Append(Lines(Result(d)), Counts(l)))
        /\ UNCHANGED <<votes, links, main, top, winner, runs, todo, linked, list, sub, kills>>
    BY DEF PrintResults, Exit, mainVars
  <1>2. l \in Lists /\ Distinct(l) /\ FilesTyped
    BY DEF DirectoriesInv, Typed
  <1>3. /\ IsLeaf(d) /\ d \in DOMAIN votes /\ l = Tally(votes[d])
        /\ Entries(Lines(Result(d))) = <<>>
        /\ d # WhoWon => Lines(Result(d)) = <<>>
    BY <1>1 DEF DirectoriesInv, Says
  <1>4. /\ FilesTyped'
        /\ \A e \in Dirs \ {d} : SameLines(e)
        /\ Entries(Lines(Result(d)))' = l
        /\ Counts(l) \in Range(Lines(Result(d))')
        /\ \A n \in Names : Value(d, n)' = VotesFor(l, n)
        /\ d # WhoWon => FirstSaysAll(d)'
    <2> HIDE DEF l
    <2> QED BY <1>1, <1>2, <1>3, CountsWritten
  <1>5. /\ Typed' /\ RestKept(d) /\ pc'[d] = "ok"
        /\ \A e \in Dirs \ {d} : pc'[e] = pc[e]
    <2> HIDE DEF l
    <2> QED BY <1>1, <1>2, <1>4, StepTyped
  <1>6. list'[d] = l
    BY <1>1
  <1>7. Says(d)'
    BY <1>1, <1>3, <1>4, <1>5, <1>6 DEF Says
  <1>8. Subdirs(d) = {}
    BY <1>3 DEF IsLeaf
  <1>9. WaitsRight(d)' /\ pc'[d] # "none" /\ pc[d] \in Running
    BY <1>1, <1>5 DEF WaitsRight, Running
  <1> QED BY <1>1, <1>4, <1>5, <1>7, <1>8, <1>9, ProcessStep
-----------------------------------------------------------------------------
(***************************************************************************)
(* The steps of Vote_Counter.                                              *)
(***************************************************************************)
LEMMA StartMainKeeps ==
  ASSUME DirectoriesInv, NEW t \in Tops, StartMain(t)
  PROVE  DirectoriesInv'
  <1>1. /\ main = "idle" /\ runs < MaxRuns
        /\ main' = "waiting" /\ top' = t /\ winner' = Blank /\ runs' = runs + 1
        /\ pc' = [pc EXCEPT ![t] = "start"]
        /\ UNCHANGED <<votes, links, files, todo, linked, list, sub, kills>>
    BY DEF StartMain
  <1>2. t \in Dirs
    BY DirectoryAssumption
  <1>3. /\ pc \in [Dirs -> {"none", "start", "scan", "wait", "print"} \cup Ended]
        /\ runs \in 0 .. MaxRuns
    BY DEF DirectoriesInv, Typed
  <1>4. \A d \in Dirs : pc[d] = "none"
    BY <1>1 DEF DirectoriesInv, Started
  <1>5. pc'[t] = "start" /\ \A d \in Dirs \ {t} : pc'[d] = "none"
    BY <1>1, <1>2, <1>3, <1>4
  <1>6. \A d : SameLines(d)
    BY <1>1, SameFiles
  <1>7. Typed'
    <2>1. pc' \in [Dirs -> {"none", "start", "scan", "wait", "print"} \cup Ended]
      BY <1>1, <1>3
    <2>2. runs' \in 0 .. MaxRuns
      BY <1>1, <1>3, DirectoryAssumption
    <2>3. \A x : Entered(x)' = Entered(x)
      BY <1>1 DEF Entered
    <2> QED BY <1>1, <1>2, <2>1, <2>2, <2>3 DEF DirectoriesInv, Typed, FilesTyped
  <1>8. Started'
    BY <1>1, <1>2, <1>5, PathFacts DEF Started
  <1>9. Nested'
    <2>1. ASSUME NEW c \in Dirs \ {WhoWon, t} PROVE NestedIn(c, Above[c])'
      <3>1. Above[c] \in Dirs /\ pc'[c] = "none" /\ pc'[Above[c]] \in {"none", "start"}
        BY <1>5, DirectoryAssumption
      <3> QED BY <3>1 DEF NestedIn
    <2> QED BY <1>1, <2>1 DEF Nested
  <1>10. ASSUME NEW d \in Dirs PROVE WaitsRight(d)' /\ Says(d)'
    <2>1. pc'[d] \in {"none", "start"}
      BY <1>5
    <2> QED BY <2>1 DEF WaitsRight, Says, Ended
  <1>11. ASSUME NEW d \in Dirs \ {WhoWon} PROVE FirstSaysAll(d)'
    BY <1>6, SameKeeps DEF DirectoriesInv
  <1>12. Declared'
    BY <1>1 DEF Declared
  <1> QED BY <1>7, <1>8, <1>9, <1>10, <1>11, <1>12 DEF DirectoriesInv

\* The next run: no process, and nothing that one has left but the files.
LEMMA EndMainKeeps ==
  ASSUME DirectoriesInv, EndMain
  PROVE  DirectoriesInv'
  <1>1. /\ main' = "idle" /\ NoProcess(pc', todo', linked', list', sub')
        /\ UNCHANGED <<links, files, top, winner, runs, kills>>
        /\ UNCHANGED votes \/ \E d \in Leaves : Vote(d)
    BY DEF EndMain
  <1>2. /\ pc' = [d \in Dirs |-> "none"] /\ todo' = [d \in Dirs |-> {}]
        /\ linked' = [d \in Dirs |-> FALSE] /\ list' = [d \in Dirs |-> <<>>]
        /\ sub' = [d \in Dirs |-> d]
    BY <1>1 DEF NoProcess
  <1>3. \A d : SameLines(d)
    BY <1>1, SameFiles
  <1>4. votes' \in [DOMAIN votes' -> VoteFiles] /\ DOMAIN votes' \subseteq Leaves
    <2>1. votes \in [DOMAIN votes -> VoteFiles] /\ DOMAIN votes \subseteq Leaves
      BY DEF DirectoriesInv, Typed
    <2>2. CASE UNCHANGED votes
      BY <2>1, <2>2
    <2>3. ASSUME NEW d \in Leaves, Vote(d)
          PROVE  votes' \in [DOMAIN votes' -> VoteFiles] /\ DOMAIN votes' \subseteq Leaves
      <3>1. ASSUME NEW lines \in VoteFiles,
                   votes' = [e \in DOMAIN votes \cup {d} |-> IF e = d THEN lines ELSE votes[e]]
            PROVE  votes' \in [DOMAIN votes' -> VoteFiles] /\ DOMAIN votes' \subseteq Leaves
        BY <2>1, <2>3, <3>1
      <3>2. ASSUME votes' = [e \in DOMAIN votes \ {d} |-> votes[e]]
            PROVE  votes' \in [DOMAIN votes' -> VoteFiles] /\ DOMAIN votes' \subseteq Leaves
        BY <2>1, <2>3, <3>2
      <3> QED BY <2>3, <3>1, <3>2 DEF Vote
    <2> QED BY <1>1, <2>2, <2>3
  <1>5. Typed'
    <2>1. <<>> \in Lists /\ Distinct(<<>>)
      BY VotesOfNone DEF Distinct
    <2>2. list' \in [Dirs -> Lists] /\ \A d \in Dirs : Distinct(list'[d])
      BY <1>2, <2>1
    <2>3. /\ pc' \in [Dirs -> {"none", "start", "scan", "wait", "print"} \cup Ended]
          /\ todo' = [d \in Dirs |-> todo'[d]] /\ \A d \in Dirs : todo'[d] \subseteq Entered(d)'
          /\ linked' \in [Dirs -> BOOLEAN] /\ sub' \in [Dirs -> Dirs]
      BY <1>2
    <2> QED BY <1>1, <1>4, <2>2, <2>3 DEF DirectoriesInv, Typed, FilesTyped
  <1>6. \A d \in Dirs : pc'[d] = "none"
    BY <1>2
  <1>7. Started'
    BY <1>6 DEF Started
  <1>8. Nested'
    <2>1. ASSUME NEW c \in Dirs \ {WhoWon} PROVE NestedIn(c, Above[c])'
      <3>1. Above[c] \in Dirs /\ pc'[c] = "none" /\ pc'[Above[c]] = "none"
        BY <1>6, DirectoryAssumption
      <3> QED BY <3>1 DEF NestedIn
    <2> QED BY <2>1 DEF Nested
  <1>9. ASSUME NEW d \in Dirs PROVE WaitsRight(d)' /\ Says(d)'
    BY <1>6 DEF WaitsRight, Says, Ended
  <1>10. ASSUME NEW d \in Dirs \ {WhoWon} PROVE FirstSaysAll(d)'
    BY <1>3, SameKeeps DEF DirectoriesInv
  <1>11. Declared'
    BY <1>1 DEF Declared
  <1> QED BY <1>5, <1>7, <1>8, <1>9, <1>10, <1>11 DEF DirectoriesInv

\* The winner's line says nothing of any name.
LEMMA WinnerLine ==
  ASSUME NEW lines \in Seq(Line), NEW w \in Names \cup {Blank}, NEW n \in Names
  PROVE  /\ Append(lines, Winner(w)) \in Seq(Line)
         /\ VotesFor(Entries(Append(lines, Winner(w))), n) = VotesFor(Entries(lines), n)
         /\ Append(lines, Winner(w)) # <<>>
         /\ lines = <<>> => VotesFor(Fields(Head(Append(lines, Winner(w)))), n) = 0
         /\ lines # <<>> => Head(Append(lines, Winner(w))) = Head(lines)
  <1> DEFINE x == Winner(w)
             e == Entry(WinnerWord, 0)
             new == Append(lines, x)
  <1>1. x \in Line /\ Fields(x) = <<e>> /\ e \in Entity /\ Worth(e, n) = 0
    <2>1. e.name = WinnerWord /\ WinnerWord # n
      BY EntityFacts
    <2> QED BY <2>1, LineFacts, EntityFacts DEF Worth
  <1>2. Entries(new) = Append(Entries(lines), e) /\ Entries(lines) \in Lists
    BY EntriesOfLines, EntriesRight
  <1>3. VotesFor(Entries(new), n) = VotesFor(Entries(lines), n)
    <2>1. VotesFor(Append(Entries(lines), e), n) = VotesFor(Entries(lines), n) + Worth(e, n)
      <3> HIDE DEF e
      <3> QED BY <1>1, <1>2, VotesAppended
    <2>2. VotesFor(Entries(lines), n) \in Nat
      BY <1>2, ListFacts
    <2> HIDE DEF e, new
    <2> QED BY <1>1, <1>2, <2>1, <2>2
  <1>4. /\ new \in Seq(Line) /\ new # <<>>
        /\ lines = <<>> => Head(new) = x
        /\ lines # <<>> => Head(new) = Head(lines)
    <2> HIDE DEF x
    <2> QED BY <1>1, AppendedLines
  <1>5. VotesFor(<<e>>, n) = 0
    <2>1. <<e>> = Append(<<>>, e) /\ <<>> \in Lists /\ VotesFor(<<>>, n) = 0
      BY VotesOfNone
    <2>2. VotesFor(Append(<<>>, e), n) = VotesFor(<<>>, n) + Worth(e, n)
      <3> HIDE DEF e
      <3> QED BY <1>1, <2>1, VotesAppended
    <2> HIDE DEF e
    <2> QED BY <1>1, <2>1, <2>2
  <1> HIDE DEF e
  <1> QED BY <1>1, <1>3, <1>4, <1>5

\* What read_file and the announcement do to the files.
LEMMA AnnouncedRight ==
  ASSUME FilesTyped, top \in Dirs, Exists(Result(top)), NEW w \in Names \cup {Blank},
         files' = Announced(w), UNCHANGED top
  PROVE  /\ FilesTyped'
         /\ Lines(Result(top))' = Append(Lines(Result(top)), Winner(w))
         /\ \A d \in Dirs \ {top} : SameLines(d)
  <1> DEFINE f == Result(top)
             g == WhoWonFile(top)
             x == Winner(w)
             copied == Copied(Lines(f))
             L == Seq(Line)
  <1>1. /\ f \in Dirs \X Dirs /\ g \in Dirs \X Dirs /\ Lines(f) \in L
        /\ \A y \in L : Append(y, x) \in L
        /\ \A d \in Dirs \ {top} : Result(d) # f /\ Result(d) # g
        /\ top = WhoWon => g = f
        /\ top # WhoWon => g # f
    <2>1. \A y \in L : Append(y, x) \in L
      BY LineFacts, AppendedLines
    <2>2. top = WhoWon => g = f
      BY ResultFacts
    <2>3. top # WhoWon => g # f
      BY ResultFacts
    <2>4. \A d \in Dirs \ {top} : Result(d) # f /\ Result(d) # g
      <3>1. ASSUME NEW d \in Dirs \ {top} PROVE Result(d) # f /\ Result(d) # g
        BY ResultFacts
      <3> QED BY <3>1
    <2> QED BY <2>1, <2>2, <2>3, <2>4, ResultFacts, LinesTyped
  <1>2. files \in [DOMAIN files -> L] /\ DOMAIN files \subseteq Dirs \X Dirs /\ f \in DOMAIN files
    BY DEF FilesTyped, Exists
  <1>3. files' = [y \in DOMAIN copied |-> IF y \in {f, g} THEN Append(copied[y], x) ELSE copied[y]]
    BY DEF Announced
  <1>4. copied = IF top = WhoWon THEN files
                 ELSE [y \in DOMAIN files \cup {g} |-> IF y = g THEN Lines(f) ELSE files[y]]
    BY DEF Copied, With
  <1>5. Lines(f) = files[f]
    BY <1>2 DEF Lines, Exists
  <1> HIDE DEF f, g, x, L, copied
  <1>6. /\ copied \in [DOMAIN copied -> L] /\ DOMAIN copied \subseteq Dirs \X Dirs
        /\ f \in DOMAIN copied /\ copied[f] = files[f]
        /\ \A y : y # g => (y \in DOMAIN copied <=> y \in DOMAIN files)
        /\ \A y \in DOMAIN files : y # g => copied[y] = files[y]
    <2>1. CASE top = WhoWon
      BY <1>1, <1>2, <1>4, <2>1
    <2>2. CASE top # WhoWon
      <3>1. copied = [y \in DOMAIN files \cup {g} |-> IF y = g THEN Lines(f) ELSE files[y]]
        BY <1>4, <2>2
      <3> QED BY <1>1, <1>2, <2>2, <3>1
    <2> QED BY <2>1, <2>2
  <1>7. DOMAIN files' = DOMAIN copied /\ files' \in [DOMAIN files' -> L]
    BY <1>1, <1>3, <1>6
  <1>8. FilesTyped'
    BY <1>6, <1>7 DEF FilesTyped, L
  <1>9. files'[f] = Append(files[f], x)
    BY <1>3, <1>6
  <1>10. Lines(f)' = Append(Lines(f), x)
    <2>1. f' = f
      BY DEF f, Result
    <2>2. f \in DOMAIN files'
      BY <1>6, <1>7
    <2> QED BY <1>5, <1>9, <2>1, <2>2 DEF Lines, Exists
  <1>11. ASSUME NEW d \in Dirs \ {top} PROVE SameLines(d)
    <2>1. Result(d) # f /\ Result(d) # g
      BY <1>1
    <2>2. Result(d) \in DOMAIN files => files'[Result(d)] = files[Result(d)]
      BY <1>3, <1>6, <2>1
    <2>3. Result(d) \in DOMAIN files' <=> Result(d) \in DOMAIN files
      BY <1>6, <1>7, <2>1
    <2> QED BY <2>2, <2>3 DEF SameLines, Lines, Exists
  <1> QED BY <1>8, <1>10, <1>11 DEF f, x

LEMMA TopSame ==
  ASSUME UNCHANGED top, NEW t \in Dirs, t = top
  PROVE  SameLines(t) <=> SameLines(top)
  <1>1. Result(top)' = Result(t) /\ Result(top) = Result(t)
    BY DEF Result
  <1>2. Lines(Result(top))' = Lines(Result(t))'
    BY <1>1 DEF Lines, Exists
  <1> QED BY <1>1, <1>2 DEF SameLines

LEMMA FinishMainKeeps ==
  ASSUME DirectoriesInv, FinishMain
  PROVE  DirectoriesInv'
  <1> DEFINE f == Result(top)
             w == FirstMost(Entries(files[f]))
  <1>1. /\ main = "waiting" /\ pc[top] \in Ended /\ main' \in {"done", "failed"}
        /\ UNCHANGED <<votes, links, top, runs, pc, todo, linked, list, sub, kills>>
    BY DEF FinishMain, dirVars
  <1>2. FilesTyped /\ top \in Dirs /\ winner \in Names \cup {Blank}
    BY DEF DirectoriesInv, Typed
  <1>3. \/ /\ UNCHANGED <<files, winner>> /\ main' = "failed"
        \/ /\ files' = Copied(<<>>) /\ UNCHANGED winner /\ main' = "failed"
        \/ /\ Exists(f) /\ ~Crashing(files[f])
           /\ main' = "done" /\ winner' = w /\ files' = Announced(w)
    BY DEF FinishMain
  <1>4. Exists(f) => Lines(f) = files[f]
    BY DEF Lines
  <1>5. Exists(f) => w \in Names \cup {Blank}
    <2>1. Exists(f) => Entries(files[f]) \in Lists
      BY <1>2, <1>4, LinesTyped
    <2> QED BY <2>1, FirstMostRight
  <1> HIDE DEF w
  <1>6. /\ FilesTyped'
        /\ \A d \in Dirs \ {top} : SameLines(d)
        /\ SameLines(top) \/ (Lines(f)' = Append(Lines(f), Winner(w)) /\ Exists(f))
    <2>1. CASE UNCHANGED files
      BY <1>2, <2>1, SameFiles DEF FilesTyped
    <2>2. CASE files' = Copied(<<>>)
      <3> DEFINE g == WhoWonFile(top)
      <3>1. CASE top = WhoWon
        <4>1. UNCHANGED files
          BY <2>2, <3>1 DEF Copied
        <4> QED BY <1>2, <4>1, SameFiles DEF FilesTyped
      <3>2. CASE top # WhoWon
        <4>1. files' = With(g, <<>>) /\ g \in Dirs \X Dirs /\ <<>> \in Seq(Line)
          BY <1>2, <2>2, <3>2, ResultFacts DEF Copied
        <4>2. \A d \in Dirs : Result(d) # g
          BY <3>2, ResultFacts
        <4> HIDE DEF g
        <4>3. FilesTyped' /\ \A y : y # g => Lines(y)' = Lines(y)
          BY <1>2, <4>1, WithRight
        <4>4. \A d \in Dirs : SameLines(d)
          BY <4>2, <4>3 DEF SameLines
        <4> QED BY <1>1, <1>2, <4>3, <4>4, TopSame
      <3> QED BY <3>1, <3>2
    <2>3. CASE Exists(f) /\ files' = Announced(w)
      <3>1. w \in Names \cup {Blank}
        BY <1>5, <2>3
      <3>2. /\ FilesTyped' /\ Lines(Result(top))' = Append(Lines(Result(top)), Winner(w))
            /\ \A d \in Dirs \ {top} : SameLines(d)
        BY <1>1, <1>2, <2>3, <3>1, AnnouncedRight
      <3> QED BY <2>3, <3>2
    <2> QED BY <1>3, <2>1, <2>2, <2>3
  <1>7. /\ \A n \in Names : Value(top, n)' = Value(top, n)
        /\ top # WhoWon => FirstSaysAll(top)'
    <2>1. CASE SameLines(top)
      <3> DEFINE Known(t) == /\ \A n \in Names : Value(t, n)' = Value(t, n)
                             /\ t # WhoWon => FirstSaysAll(t)'
      <3>1. ASSUME NEW t \in Dirs, t = top PROVE Known(t)
        <4>1. SameLines(t)
          BY <1>1, <2>1, <3>1 DEF SameLines, Lines, Exists, Result
        <4> QED BY <4>1, SameKeeps DEF Keeps, DirectoriesInv
      <3> QED BY <1>1, <1>2, <3>1
    <2>2. CASE Lines(f)' = Append(Lines(f), Winner(w)) /\ Exists(f)
      <3> DEFINE old == Lines(f)
                 new == Append(old, Winner(w))
      <3>1. old \in Seq(Line) /\ w \in Names \cup {Blank}
        BY <1>2, <1>5, <2>2, LinesTyped
      <3>2. ASSUME NEW n \in Names
            PROVE  /\ VotesFor(Entries(new), n) = VotesFor(Entries(old), n)
                   /\ new # <<>>
                   /\ old = <<>> => VotesFor(Fields(Head(new)), n) = 0
                   /\ old # <<>> => Head(new) = Head(old)
        <4> HIDE DEF old
        <4> QED BY <3>1, WinnerLine
      <3>3. Lines(f)' = new
        BY <2>2
      <3> HIDE DEF new
      <3>4. \A n \in Names : Value(top, n)' = Value(top, n)
        BY <1>1, <3>2, <3>3 DEF Value
      <3>5. ASSUME top # WhoWon PROVE FirstSaysAll(top)'
        <4>1. FirstSaysAll(top)
          BY <1>2, <3>5 DEF DirectoriesInv
        <4>2. Lines(Result(top))' = new
          BY <3>3
        <4> QED BY <1>1, <3>2, <3>4, <4>1, <4>2 DEF FirstSaysAll
      <3> QED BY <3>4, <3>5
    <2> QED BY <1>6, <2>1, <2>2
  <1>8. \A d \in Dirs : Keeps(d)
    <2>1. Keeps(top)
      BY <1>1, <1>7 DEF Keeps
    <2> QED BY <1>6, <2>1, SameKeeps
  <1>9. ASSUME NEW d \in Dirs \ {WhoWon} PROVE FirstSaysAll(d)'
    <2>1. CASE d = top
      BY <1>1, <1>7, <2>1
    <2>2. CASE d # top
      BY <1>6, <2>2, SameKeeps DEF DirectoriesInv
    <2> QED BY <2>1, <2>2
  <1>10. ASSUME NEW d \in Dirs PROVE WaitsRight(d)' /\ Says(d)'
    <2>1. SameProcess(d)
      BY <1>1 DEF SameProcess
    <2>2. Says(d)'
      BY <1>1, <1>8, <2>1, SubdirsFinite, SaysKept
    <2>3. WaitsRight(d)'
      BY <1>1 DEF DirectoriesInv, WaitsRight
    <2> QED BY <2>2, <2>3
  <1>11. Typed'
    <2>1. winner' \in Names \cup {Blank}
      BY <1>2, <1>3, <1>5
    <2>2. \A x : Entered(x)' = Entered(x)
      BY <1>1 DEF Entered
    <2>3. main' \in {"idle", "waiting", "done", "failed"}
      BY <1>1
    <2> QED BY <1>1, <1>6, <2>1, <2>2, <2>3 DEF DirectoriesInv, Typed
  <1>12. Started'
    BY <1>1 DEF DirectoriesInv, Started
  <1>13. Nested'
    <2>1. ASSUME NEW c \in Dirs \ {WhoWon, top} PROVE NestedIn(c, Above[c])'
      BY <1>1 DEF DirectoriesInv, Nested, NestedIn
    <2> QED BY <1>1, <2>1 DEF Nested
  <1>14. Declared'
    <2> SUFFICES ASSUME main' = "done", pc[top] = "ok"
                 PROVE  winner' = FirstMost(list[top]) /\ Blank \notin NamesIn(list[top])
      BY <1>1 DEF Declared
    <2>1. Exists(f) /\ ~Crashing(files[f]) /\ winner' = w
      BY <1>3
    <2>2. Entries(files[f]) = list[top] /\ Counts(list[top]) \in Range(files[f])
      BY <1>1, <1>2, <1>4, <2>1 DEF DirectoriesInv, Says
    <2>3. Blank \notin NamesIn(list[top])
      BY <2>1, <2>2 DEF Crashing, Counts
    <2> QED BY <2>1, <2>2, <2>3 DEF w
  <1> QED BY <1>9, <1>10, <1>11, <1>12, <1>13, <1>14 DEF DirectoriesInv
-----------------------------------------------------------------------------
(***************************************************************************)
(* The theorems.                                                           *)
(***************************************************************************)
LEMMA InitDirectories == Init => DirectoriesInv
  <1> SUFFICES ASSUME Init PROVE DirectoriesInv
    OBVIOUS
  <1>1. /\ votes \in FirstVotes /\ links \in LinkSets /\ files = [f \in {} |-> <<>>]
        /\ main = "idle" /\ top = WhoWon /\ winner = Blank /\ runs = 0 /\ kills = 0
        /\ pc = [d \in Dirs |-> "none"] /\ todo = [d \in Dirs |-> {}]
        /\ linked = [d \in Dirs |-> FALSE] /\ list = [d \in Dirs |-> <<>>]
        /\ sub = [d \in Dirs |-> d]
    BY DEF Init, NoProcess
  <1>2. Typed
    <2>1. <<>> \in Lists /\ Distinct(<<>>)
      BY VotesOfNone DEF Distinct
    <2>2. list \in [Dirs -> Lists] /\ \A d \in Dirs : Distinct(list[d])
      BY <1>1, <2>1
    <2>3. /\ pc \in [Dirs -> {"none", "start", "scan", "wait", "print"} \cup Ended]
          /\ todo = [d \in Dirs |-> todo[d]] /\ \A d \in Dirs : todo[d] \subseteq Entered(d)
          /\ linked \in [Dirs -> BOOLEAN] /\ sub \in [Dirs -> Dirs]
      BY <1>1
    <2>4. votes \in [DOMAIN votes -> VoteFiles] /\ DOMAIN votes \subseteq Leaves
      BY <1>1, DirectoryAssumption
    <2>5. FilesTyped
      BY <1>1 DEF FilesTyped
    <2>6. runs \in 0 .. MaxRuns /\ kills \in 0 .. MaxKills /\ top \in Dirs
      BY <1>1, DirectoryAssumption
    <2> QED BY <1>1, <2>2, <2>3, <2>4, <2>5, <2>6 DEF Typed
  <1>3. \A d \in Dirs : pc[d] = "none"
    BY <1>1
  <1>4. Started
    BY <1>3 DEF Started
  <1>5. Nested
    <2>1. ASSUME NEW c \in Dirs \ {WhoWon} PROVE NestedIn(c, Above[c])
      <3>1. Above[c] \in Dirs /\ pc[c] = "none" /\ pc[Above[c]] = "none"
        BY <1>3, DirectoryAssumption
      <3> QED BY <3>1 DEF NestedIn
    <2> QED BY <2>1 DEF Nested
  <1>6. ASSUME NEW d \in Dirs PROVE WaitsRight(d) /\ Says(d)
    BY <1>3 DEF WaitsRight, Says, Ended
  <1>7. ASSUME NEW d \in Dirs \ {WhoWon} PROVE FirstSaysAll(d)
    <2>1. Lines(Result(d)) = <<>>
      BY <1>1 DEF Lines, Exists
    <2>2. \A n \in Names : Value(d, n) = 0
      BY <2>1, EntriesRight, VotesOfNone DEF Value
    <2> QED BY <2>1, <2>2 DEF FirstSaysAll
  <1>8. Declared
    BY <1>1 DEF Declared
  <1> QED BY <1>2, <1>4, <1>5, <1>6, <1>7, <1>8 DEF DirectoriesInv

LEMMA NextKeepsDirectories == DirectoriesInv /\ [Next]_vars => DirectoriesInv'
  <1> SUFFICES ASSUME DirectoriesInv, [Next]_vars PROVE DirectoriesInv'
    OBVIOUS
  <1>1. ASSUME NEW t \in Tops, StartMain(t) PROVE DirectoriesInv'
    BY <1>1, StartMainKeeps
  <1>2. ASSUME NEW d \in Dirs, Program(d) PROVE DirectoriesInv'
    <2>1. CASE StartAggregate(d)
      BY <2>1, StartAggregateKeeps
    <2>2. CASE StartLeaf(d)
      BY <2>2, StartLeafKeeps
    <2>3. CASE ReportLink(d)
      BY <2>3, ReportLinkKeeps
    <2>4. CASE ForkSub(d)
      BY <2>4, ForkSubKeeps
    <2>5. CASE MergeSub(d)
      BY <2>5, MergeSubKeeps
    <2>6. CASE WriteCounts(d)
      BY <2>6, WriteCountsKeeps
    <2>7. CASE CountVotes(d)
      BY <2>7, CountVotesKeeps
    <2>8. CASE PrintResults(d)
      BY <2>8, PrintResultsKeeps
    <2> QED BY <1>2, <2>1, <2>2, <2>3, <2>4, <2>5, <2>6, <2>7, <2>8 DEF Program
  <1>3. ASSUME NEW d \in Dirs, Kill(d) PROVE DirectoriesInv'
    BY <1>3, KillKeeps
  <1>4. CASE FinishMain
    BY <1>4, FinishMainKeeps
  <1>5. CASE EndMain
    BY <1>5, EndMainKeeps
  <1>6. CASE UNCHANGED vars
    <2>1. UNCHANGED <<votes, links, files, main, top, winner, runs, pc, todo, linked, list, sub, kills>>
      BY <1>6 DEF vars, mainVars, dirVars
    <2>2. \A d : SameLines(d) /\ SameProcess(d) /\ Keeps(d)
      BY <2>1, SameFiles, SameKeeps DEF SameProcess
    <2>3. ASSUME NEW d \in Dirs PROVE WaitsRight(d)' /\ Says(d)'
      <3>1. Says(d)'
        BY <2>1, <2>2, SaysKept
      <3> QED BY <2>1, <3>1 DEF DirectoriesInv, WaitsRight
    <2>4. ASSUME NEW d \in Dirs \ {WhoWon} PROVE FirstSaysAll(d)'
      BY <2>2, SameKeeps DEF DirectoriesInv
    <2>5. Typed'
      BY <2>1 DEF DirectoriesInv, Typed, FilesTyped, Entered
    <2>6. Started' /\ Declared'
      BY <2>1 DEF DirectoriesInv, Started, Declared
    <2>7. Nested'
      <3>1. ASSUME NEW c \in Dirs \ {WhoWon, top} PROVE NestedIn(c, Above[c])'
        BY <2>1 DEF DirectoriesInv, Nested, NestedIn
      <3> QED BY <2>1, <3>1 DEF Nested
    <2> QED BY <2>3, <2>4, <2>5, <2>6, <2>7 DEF DirectoriesInv
  <1> QED BY <1>1, <1>2, <1>3, <1>4, <1>5, <1>6 DEF Next

(***************************************************************************)
(* In every reachable state a process runs only while the one above waits  *)
(* for it or after that one was killed, the file of each says what its     *)
(* place in its program promises, and a file's first line says all that a  *)
(* parent needs: whatever links and votes there are, however often         *)
(* Vote_Counter is started when no process is left of the run before       *)
(* (EndMain), and whichever processes are killed wherever they are.        *)
(***************************************************************************)
THEOREM DirectoriesInvariance == Spec => []DirectoriesInv
  BY InitDirectories, NextKeepsDirectories, PTL DEF Spec
-----------------------------------------------------------------------------
(***************************************************************************)
(* The directories inside one.                                             *)
(***************************************************************************)
LEMMA InsideFacts ==
  ASSUME NEW d \in Dirs
  PROVE  /\ d \in Inside(d) /\ Inside(d) \in SUBSET Dirs
         /\ IsFiniteSet(Inside(d)) /\ Cardinality(Inside(d)) \in Nat
  <1>1. d \in Inside(d) /\ Inside(d) \in SUBSET Dirs
    BY PathFacts DEF Inside
  <1>2. IsFiniteSet(Inside(d))
    BY <1>1, DirectoryAssumption, FS_Subset
  <1> QED BY <1>1, <1>2, FS_CardinalityType

\* What lies in a directory, but not the directory itself, lies in a subdirectory of it.
LEMMA WayThroughSubdir ==
  ASSUME NEW d \in Dirs, NEW e \in Inside(d), e # d
  PROVE  \E c \in Subdirs(d) : e \in Inside(c)
  <1> DEFINE S == Path[e] \ {d}
  <1>1. e \in Dirs /\ d \in Path[e]
    BY DEF Inside
  <1> SUFFICES ASSUME \A c \in Subdirs(d) : e \notin Inside(c) PROVE FALSE
    OBVIOUS
  <1>2. \A c \in Subdirs(d) : c \notin Path[e]
    BY <1>1 DEF Inside
  <1>3. ASSUME NEW x \in S \ {WhoWon} PROVE Above[x] \in S
    <2>1. x \in Dirs /\ Above[x] \in Path[e]
      BY <1>1, PathFacts
    <2>2. Above[x] # d
      BY <1>2, <2>1 DEF Subdirs
    <2> QED BY <2>1, <2>2
  <1>4. S \in SUBSET Dirs /\ Upward(S, e)
    BY <1>1, <1>3, PathFacts DEF Upward
  <1>5. d \in S
    <2> HIDE DEF S
    <2> QED BY <1>1, <1>4, PathLeast
  <1> QED BY <1>5

\* Nothing lies in two subdirectories of a directory.
LEMMA SubdirsApart ==
  ASSUME NEW d \in Dirs, NEW b \in Subdirs(d), NEW c \in Subdirs(d), b # c
  PROVE  Inside(b) \cap Inside(c) = {}
  <1> SUFFICES ASSUME NEW e \in Inside(b) \cap Inside(c) PROVE FALSE
    OBVIOUS
  <1> DEFINE S == {x \in Path[e] : b \in Path[x] /\ c \in Path[x]}
  <1>1. e \in Dirs /\ b \in Path[e] /\ c \in Path[e]
    BY DEF Inside
  <1>2. /\ b \in Dirs \ {WhoWon} /\ Path[b] = {b} \cup Path[d] /\ b \notin Path[d]
        /\ c \in Dirs \ {WhoWon} /\ Path[c] = {c} \cup Path[d] /\ c \notin Path[d]
    <2>1. \A s \in Subdirs(d) : s \in Dirs \ {WhoWon} /\ Above[s] = d
      BY DEF Subdirs
    <2>2. \A s \in Subdirs(d) : Path[s] = {s} \cup Path[d] /\ s \notin Path[d]
      BY <2>1, PathUp
    <2> QED BY <2>1, <2>2
  <1>3. b \notin Path[c] /\ c \notin Path[b]
    BY <1>2
  <1>4. ASSUME NEW x \in S \ {WhoWon} PROVE Above[x] \in S
    <2>1. x \in Dirs \ {WhoWon} /\ Above[x] \in Path[e]
      BY <1>1, PathFacts
    <2>2. Path[x] = {x} \cup Path[Above[x]]
      BY <2>1, PathUp
    <2>3. x # b /\ x # c
      BY <1>3
    <2> QED BY <2>1, <2>2, <2>3
  <1>5. S \in SUBSET Dirs /\ Upward(S, e)
    BY <1>1, <1>4, PathFacts DEF Upward
  <1>6. b \in S
    <2> HIDE DEF S
    <2> QED BY <1>1, <1>5, PathLeast
  <1> QED BY <1>3, <1>6

LEMMA InsideSubdir ==
  ASSUME NEW d \in Dirs, NEW c \in Subdirs(d)
  PROVE  /\ c \in Dirs /\ Inside(c) \subseteq Inside(d) \ {d}
         /\ Cardinality(Inside(c)) < Cardinality(Inside(d))
  <1>1. c \in Dirs \ {WhoWon} /\ Above[c] = d
    BY DEF Subdirs
  <1>2. c \notin Path[d]
    BY <1>1, PathUp
  <1>3. ASSUME NEW e \in Inside(c) PROVE e \in Inside(d) \ {d}
    <2>1. e \in Dirs /\ c \in Path[e]
      BY DEF Inside
    <2>2. d \in Path[e]
      BY <1>1, <2>1, PathFacts
    <2>3. e # d
      BY <1>2, <2>1
    <2> QED BY <2>1, <2>2, <2>3 DEF Inside
  <1>4. Inside(c) \subseteq Inside(d) \ {d} /\ d \in Inside(d)
    BY <1>3, InsideFacts
  <1>5. Inside(c) \subseteq Inside(d) /\ Inside(c) # Inside(d)
    BY <1>4
  <1>6. Cardinality(Inside(c)) < Cardinality(Inside(d))
    <2>1. /\ IsFiniteSet(Inside(d)) /\ Cardinality(Inside(d)) \in Nat
          /\ Cardinality(Inside(c)) \in Nat /\ Inside(c) \in SUBSET Inside(d)
      BY <1>1, <1>5, InsideFacts
    <2>2. /\ Cardinality(Inside(c)) <= Cardinality(Inside(d))
          /\ Cardinality(Inside(d)) = Cardinality(Inside(c)) => Inside(d) = Inside(c)
      BY <2>1, FS_Subset
    <2> QED BY <1>5, <2>1, <2>2
  <1> QED BY <1>1, <1>4, <1>6

\* The leaves inside a directory: itself, or those inside its subdirectories.
LEMMA LeavesInside ==
  ASSUME NEW d \in Dirs
  PROVE  /\ IsLeaf(d) => Leaves \cap Inside(d) = {d}
         /\ ~IsLeaf(d) => Leaves \cap Inside(d) = UNION {Leaves \cap Inside(c) : c \in Subdirs(d)}
  <1>1. ASSUME IsLeaf(d) PROVE Leaves \cap Inside(d) = {d}
    <2>1. \A e \in Inside(d) : e = d
      BY <1>1, WayThroughSubdir DEF IsLeaf
    <2> QED BY <1>1, <2>1, InsideFacts DEF Leaves
  <1>2. ASSUME ~IsLeaf(d)
        PROVE  Leaves \cap Inside(d) = UNION {Leaves \cap Inside(c) : c \in Subdirs(d)}
    <2>1. ASSUME NEW e \in Leaves \cap Inside(d) PROVE \E c \in Subdirs(d) : e \in Inside(c)
      <3>1. e # d
        BY <1>2 DEF Leaves
      <3> QED BY <3>1, WayThroughSubdir
    <2>2. \A c \in Subdirs(d) : Inside(c) \subseteq Inside(d)
      BY InsideSubdir
    <2> QED BY <2>1, <2>2
  <1> QED BY <1>1, <1>2
-----------------------------------------------------------------------------
(***************************************************************************)
(* What is counted is what the vote files hold.                            *)
(***************************************************************************)
LEMMA BallotsNumber ==
  ASSUME Typed, NEW d, NEW n
  PROVE  Ballots(d, n) \in Nat
  <1>1. CASE d \in DOMAIN votes
    <2>1. votes[d] \in Seq(Names)
      BY <1>1, DirectoryAssumption DEF Typed
    <2>2. DOMAIN votes[d] = 1 .. Len(votes[d]) /\ Len(votes[d]) \in Nat
      BY <2>1
    <2>3. IsFiniteSet(DOMAIN votes[d])
      BY <2>2, FS_Interval
    <2>4. Cardinality({k \in DOMAIN votes[d] : votes[d][k] = n}) \in Nat
      BY <2>3, FS_Subset, FS_CardinalityType
    <2> QED BY <1>1, <2>4 DEF Ballots
  <1>2. CASE d \notin DOMAIN votes
    BY <1>2 DEF Ballots
  <1> QED BY <1>1, <1>2

LEMMA BallotsSum ==
  ASSUME Typed, NEW S \in SUBSET Dirs, NEW n
  PROVE  /\ InBallots(S, n) \in Nat
         /\ InBallots(S, n) = SumFunctionOnSet([d \in Dirs |-> Ballots(d, n)], S)
         /\ \A d \in Dirs : S = {d} => InBallots(S, n) = Ballots(d, n)
  <1> DEFINE f == [d \in Dirs |-> Ballots(d, n)]
             g == [d \in S |-> Ballots(d, n)]
  <1>1. \A d : Ballots(d, n) \in Nat
    BY BallotsNumber
  <1>2. f \in [Dirs -> Int] /\ g \in [S -> Nat] /\ g \in [S -> Int] /\ \A d \in S : f[d] = g[d]
    BY <1>1
  <1>3. IsFiniteSet(Dirs) /\ IsFiniteSet(S) /\ S \in SUBSET S
    BY DirectoryAssumption, FS_Subset
  <1>4. InBallots(S, n) = SumFunctionOnSet(g, S)
    BY DEF InBallots
  <1>5. ASSUME NEW d \in Dirs, S = {d} PROVE SumFunctionOnSet(g, S) = Ballots(d, n)
    <2>1. g[d] = Ballots(d, n) /\ d \in S /\ S \ {d} = {}
      BY <1>5
    <2> HIDE DEF g
    <2>2. SumFunctionOnSet(g, S) = g[d] + SumFunctionOnSet(g, S \ {d})
      BY <1>2, <1>3, <2>1, SumAny
    <2>3. SumFunctionOnSet(g, {}) = 0
      BY <1>2, <1>3, SumEmpty
    <2> QED BY <1>1, <2>1, <2>2, <2>3
  <1> HIDE DEF f, g
  <1>6. SumFunctionOnSet(f, S) = SumFunctionOnSet(g, S)
    BY <1>2, <1>3, SumSame
  <1>7. SumFunctionOnSet(g, S) \in Nat
    BY <1>2, <1>3, SumNat
  <1> QED BY <1>4, <1>5, <1>6, <1>7 DEF f

\* A leaf that ended well has counted its votes.txt.
LEMMA LeafCounts ==
  ASSUME DirectoriesInv, NEW d \in Dirs, pc[d] = "ok", IsLeaf(d), NEW n \in Names
  PROVE  VotesFor(list[d], n) = Ballots(d, n)
  <1>1. d \in DOMAIN votes /\ list[d] = Tally(votes[d])
    BY DEF DirectoriesInv, Says
  <1>2. votes[d] \in Seq(Names)
    BY <1>1, DirectoryAssumption DEF DirectoriesInv, Typed
  <1> QED BY <1>1, <1>2, TallyRight DEF Ballots

\* Where all went well inside, the list holds the ballots of all leaves inside.
CountsBallots(d) ==
  (\A e \in Inside(d) : pc[e] = "ok") =>
    \A n \in Names : VotesFor(list[d], n) = InBallots(Leaves \cap Inside(d), n)

LEMMA BallotsUp ==
  ASSUME DirectoriesInv, NEW d \in Dirs, \A c \in Subdirs(d) : CountsBallots(c)
  PROVE  CountsBallots(d)
  <1> SUFFICES ASSUME \A e \in Inside(d) : pc[e] = "ok", NEW n \in Names
               PROVE  VotesFor(list[d], n) = InBallots(Leaves \cap Inside(d), n)
    BY DEF CountsBallots
  <1>1. pc[d] = "ok" /\ Typed
    BY InsideFacts DEF DirectoriesInv
  <1>2. CASE IsLeaf(d)
    <2>1. Leaves \cap Inside(d) = {d} /\ {d} \in SUBSET Dirs
      BY <1>2, LeavesInside
    <2>2. InBallots({d}, n) = Ballots(d, n)
      BY <1>1, <2>1, BallotsSum
    <2> QED BY <1>1, <1>2, <2>1, <2>2, LeafCounts
  <1>3. CASE ~IsLeaf(d)
    <2> DEFINE I == Subdirs(d)
               B == [c \in I |-> Leaves \cap Inside(c)]
               f == [e \in Dirs |-> Ballots(e, n)]
    <2>1. VotesFor(list[d], n) = InFiles(I, n)
      BY <1>1, <1>3 DEF DirectoriesInv, Says, SumsTo
    <2>2. ASSUME NEW c \in I PROVE Value(c, n) = SumFunctionOnSet(f, B[c])
      <3>1. c \in Dirs /\ Inside(c) \subseteq Inside(d)
        BY InsideSubdir
      <3>2. \A e \in Inside(c) : pc[e] = "ok"
        BY <3>1
      <3>3. pc[c] = "ok"
        BY <3>1, <3>2, InsideFacts
      <3>4. Value(c, n) = VotesFor(list[c], n)
        BY <3>1, <3>3 DEF DirectoriesInv, Says
      <3>5. VotesFor(list[c], n) = InBallots(Leaves \cap Inside(c), n)
        BY <3>2 DEF CountsBallots
      <3>6. Leaves \cap Inside(c) \in SUBSET Dirs
        BY <3>1, InsideFacts
      <3>7. InBallots(Leaves \cap Inside(c), n) = SumFunctionOnSet(f, Leaves \cap Inside(c))
        BY <1>1, <3>6, BallotsSum
      <3> QED BY <3>4, <3>5, <3>7
    <2>3. InFiles(I, n) = SumFunctionOnSet([c \in I |-> SumFunctionOnSet(f, B[c])], I)
      <3>1. [c \in I |-> Value(c, n)] = [c \in I |-> SumFunctionOnSet(f, B[c])]
        BY <2>2
      <3> QED BY <3>1 DEF InFiles
    <2>4. f \in [Dirs -> Int]
      BY <1>1, BallotsNumber
    <2>5. B \in [I -> SUBSET Dirs] /\ \A x, y \in I : x # y => B[x] \cap B[y] = {}
      <3>1. \A c \in I : c \in Dirs /\ Leaves \cap Inside(c) \in SUBSET Dirs
        BY InsideSubdir, InsideFacts
      <3>2. \A x, y \in I : x # y => Inside(x) \cap Inside(y) = {}
        BY SubdirsApart
      <3> QED BY <3>1, <3>2
    <2>6. UNION {B[c] : c \in I} = Leaves \cap Inside(d)
      BY <1>3, LeavesInside
    <2>7. IsFiniteSet(Dirs) /\ IsFiniteSet(I)
      BY DirectoryAssumption, SubdirsFinite
    <2>8. Leaves \cap Inside(d) \in SUBSET Dirs
      BY InsideFacts
    <2>9. InBallots(Leaves \cap Inside(d), n) = SumFunctionOnSet(f, Leaves \cap Inside(d))
      BY <1>1, <2>8, BallotsSum
    <2> HIDE DEF f, B, I
    <2>10. SumFunctionOnSet(f, UNION {B[c] : c \in I})
             = SumFunctionOnSet([c \in I |-> SumFunctionOnSet(f, B[c])], I)
      BY <2>4, <2>5, <2>7, SumFamily
    <2> QED BY <2>1, <2>3, <2>6, <2>9, <2>10
  <1> QED BY <1>2, <1>3

\* Up the tree: of the directories for which it is false one has the fewest inside.
LEMMA BallotsCounted ==
  ASSUME DirectoriesInv
  PROVE  \A d \in Dirs : CountsBallots(d)
  <1> DEFINE Wrong == {Cardinality(Inside(d)) : d \in {x \in Dirs : ~CountsBallots(x)}}
  <1> SUFFICES ASSUME NEW z \in Dirs, ~CountsBallots(z) PROVE FALSE
    OBVIOUS
  <1>1. Wrong \in SUBSET Nat /\ Wrong # {}
    BY InsideFacts
  <1>2. PICK k \in Wrong : \A j \in Wrong : k <= j
    BY <1>1, LeastNumber
  <1>3. PICK d \in Dirs : ~CountsBallots(d) /\ k = Cardinality(Inside(d))
    BY <1>2
  <1>4. ASSUME NEW c \in Subdirs(d) PROVE CountsBallots(c)
    <2>1. c \in Dirs /\ Cardinality(Inside(c)) < k /\ Cardinality(Inside(c)) \in Nat /\ k \in Nat
      BY <1>3, InsideSubdir, InsideFacts
    <2>2. Cardinality(Inside(c)) \notin Wrong
      BY <1>2, <2>1
    <2> QED BY <2>1, <2>2
  <1> QED BY <1>3, <1>4, BallotsUp
LEMMA TypingFollows == DirectoriesInv => TypeOK
  <1> SUFFICES ASSUME DirectoriesInv PROVE TypeOK
    OBVIOUS
  <1>1. ASSUME NEW f \in DOMAIN files, NEW k \in DOMAIN files[f]
        PROVE  /\ files[f][k].kind \in {"cycle", "counts", "winner"}
               /\ files[f][k].kind = "counts" =>
                    \A e \in Range(files[f][k].list) :
                      (e.name \in Names /\ e.count > 0) \/ e = Entry(WinnerWord, 0)
    <2> DEFINE x == files[f][k]
    <2>1. x \in Line
      <3> DEFINE L == Line
      <3>1. files[f] \in Seq(L)
        BY DEF DirectoriesInv, Typed, FilesTyped
      <3> HIDE DEF L
      <3>2. files[f][k] \in L
        BY <3>1
      <3> QED BY <3>2 DEF L
    <2> HIDE DEF x
    <2>2. /\ x.kind \in {"cycle", "counts", "winner"}
          /\ x.kind = "counts" => x.list \in Lists
      BY <2>1 DEF Line
    <2>3. ASSUME NEW l \in Lists, NEW e \in Range(l)
          PROVE  (e.name \in Names /\ e.count > 0) \/ e = Entry(WinnerWord, 0)
      <3>1. PICK j \in DOMAIN l : e = l[j]
        BY <2>3 DEF Range
      <3>2. e \in Entity
        BY <3>1, ListFacts
      <3> QED BY <3>2, EntityFacts
    <2> QED BY <2>2, <2>3 DEF x
  <1>2. /\ DOMAIN votes \subseteq Leaves /\ links \in LinkSets
        /\ DOMAIN files \subseteq Dirs \X Dirs
        /\ main \in {"idle", "waiting", "done", "failed"} /\ top \in Dirs
        /\ winner \in Names \cup {Blank}
        /\ pc \in [Dirs -> {"none", "start", "scan", "wait", "print"} \cup Ended]
        /\ sub \in [Dirs -> Dirs]
        /\ runs \in 0 .. MaxRuns /\ kills \in 0 .. MaxKills
    BY DEF DirectoriesInv, Typed, FilesTyped
  <1> QED BY <1>1, <1>2 DEF TypeOK

LEMMA SumsFollow == DirectoriesInv => SumsAgree
  <1> SUFFICES ASSUME DirectoriesInv, NEW d \in Dirs, pc[d] = "ok", NEW n \in Names
               PROVE  Value(d, n) = IF IsLeaf(d) THEN Ballots(d, n) ELSE InFiles(Subdirs(d), n)
    BY DEF SumsAgree
  <1>1. Value(d, n) = VotesFor(list[d], n)
    BY DEF DirectoriesInv, Says
  <1>2. IsLeaf(d) => VotesFor(list[d], n) = Ballots(d, n)
    BY LeafCounts
  <1>3. ~IsLeaf(d) => VotesFor(list[d], n) = InFiles(Subdirs(d), n)
    BY DEF DirectoriesInv, Says, SumsTo
  <1> QED BY <1>1, <1>2, <1>3

LEMMA WinnerFollows == DirectoriesInv => WinnerOfBallots
  <1> DEFINE Total(n) == InBallots(Leaves \cap Inside(top), n)
             l == list[top]
  <1> SUFFICES ASSUME DirectoriesInv, main = "done", AllWell, NEW n \in Names
               PROVE  /\ Total(n) <= Total(winner)
                      /\ Total(n) > 0 => winner \in Names \ {Blank}
    BY DEF WinnerOfBallots
  <1>1. /\ top \in Dirs /\ Typed /\ l \in Lists /\ Distinct(l)
        /\ CountsBallots(top) /\ pc[top] = "ok"
    <2>1. top \in Dirs /\ Typed /\ list[top] \in Lists /\ Distinct(list[top])
      BY DEF DirectoriesInv, Typed
    <2> QED BY <2>1, BallotsCounted, InsideFacts DEF AllWell
  <1>2. \A c \in Names : Total(c) = VotesFor(l, c)
    BY <1>1 DEF CountsBallots, AllWell
  <1>3. \A c : Total(c) \in Nat
    <2>1. Leaves \cap Inside(top) \in SUBSET Dirs
      BY <1>1, InsideFacts
    <2> QED BY <1>1, <2>1, BallotsSum
  <1>4. winner = FirstMost(l) /\ \A k \in DOMAIN l : l[k].name # Blank
    BY <1>1 DEF DirectoriesInv, Declared, NamesIn
  <1> HIDE DEF Total, l
  <1>5. /\ \A k \in DOMAIN l : VotesFor(l, l[k].name) = l[k].count
        /\ (\A k \in DOMAIN l : l[k].name # n) => VotesFor(l, n) = 0
        /\ \A k \in DOMAIN l : l[k].count \in Nat
    BY <1>1, DistinctVotes, ListFacts, EntityFacts
  <1>6. /\ winner \in Names \cup {Blank}
        /\ \/ \A k \in DOMAIN l : l[k].count = 0
           \/ \E m \in DOMAIN l : /\ l[m].name = winner /\ l[m].count > 0
                                  /\ \A k \in DOMAIN l : l[k].count <= l[m].count
    BY <1>1, <1>4, FirstMostRight
  <1>7. CASE \A k \in DOMAIN l : l[k].count = 0
    <2>1. Total(n) = 0
      BY <1>2, <1>5, <1>7
    <2> QED BY <1>3, <2>1
  <1>8. ASSUME NEW m \in DOMAIN l, l[m].name = winner, l[m].count > 0,
               \A k \in DOMAIN l : l[k].count <= l[m].count
        PROVE  Total(n) <= Total(winner) /\ winner \in Names \ {Blank}
    <2>1. winner \in Names \ {Blank}
      BY <1>4, <1>6, <1>8
    <2>2. Total(winner) = l[m].count
      BY <1>2, <1>5, <1>8, <2>1
    <2>3. VotesFor(l, n) <= l[m].count
      <3>1. CASE \E k \in DOMAIN l : l[k].name = n
        BY <1>5, <1>8, <3>1
      <3>2. CASE \A k \in DOMAIN l : l[k].name # n
        BY <1>5, <1>8, <3>2
      <3> QED BY <3>1, <3>2
    <2> QED BY <1>2, <2>1, <2>2, <2>3
  <1> QED BY <1>6, <1>7, <1>8

(***************************************************************************)
(* Every value has its type, in every file too: a line is one of the three *)
(* that the programs write, and has no entry without votes but a winner's. *)
(***************************************************************************)
THEOREM DirectoriesTyping == Spec => []TypeOK
  BY DirectoriesInvariance, TypingFollows, PTL

(***************************************************************************)
(* However processes fail, wherever they are killed, and while the orphans *)
(* of a killed one run on, the file of one that ended well says for each   *)
(* name what its votes.txt or the files of its subdirectories say.  Of     *)
(* earlier runs there may be files but no processes (EndMain).             *)
(***************************************************************************)
THEOREM DirectoriesAgree == Spec => []SumsAgree
  BY DirectoriesInvariance, SumsFollow, PTL

(***************************************************************************)
(* The winner of a run in which nothing failed has the most ballots of all *)
(* leaves inside the directory, in a tree of any shape, if no process of   *)
(* an earlier run is left (EndMain).                                       *)
(***************************************************************************)
THEOREM DirectoriesFindWinner == Spec => []WinnerOfBallots
  BY DirectoriesInvariance, WinnerFollows, PTL

(***************************************************************************)
(* The file of an Aggregate_Votes that failed or was killed on its way     *)
(* holds no votes, if no process of an earlier run is left (EndMain).      *)
(***************************************************************************)
THEOREM FailuresSayNothing == Spec => []FailedSaysNothing
  <1>1. DirectoriesInv => FailedSaysNothing
    BY DEF DirectoriesInv, Says, FailedSaysNothing, Leaves
  <1> QED BY DirectoriesInvariance, <1>1, PTL
-----------------------------------------------------------------------------
(***************************************************************************)
(* What Who_Won.txt says of the links.                                     *)
(***************************************************************************)
Times(lines, r) == Cardinality({k \in DOMAIN lines : lines[k] = r})

LEMMA TimesAppended ==
  ASSUME NEW lines \in Seq(Line), NEW x \in Line
  PROVE  /\ \A r : Times(lines, r) \in Nat
         /\ \A r : Times(Append(lines, x), r) = Times(lines, r) + (IF x = r THEN 1 ELSE 0)
         /\ \A r : Times(<<>>, r) = 0
  <1> DEFINE n == Len(lines)
             more == Append(lines, x)
             L == Line
             Of(r) == {k \in DOMAIN lines : lines[k] = r}
  <1>1. lines \in Seq(L) /\ x \in L
    OBVIOUS
  <1> HIDE DEF L
  <1>2. /\ n \in Nat /\ DOMAIN lines = 1 .. n /\ DOMAIN more = 1 .. n + 1
        /\ more[n + 1] = x /\ \A k \in 1 .. n : more[k] = lines[k]
    BY <1>1
  <1> HIDE DEF n, more
  <1>3. ASSUME NEW r
        PROVE  IsFiniteSet(Of(r)) /\ Cardinality(Of(r)) \in Nat /\ n + 1 \notin Of(r)
    <2>1. IsFiniteSet(1 .. n)
      BY <1>2, FS_Interval
    <2>2. Of(r) \in SUBSET (1 .. n)
      BY <1>2
    <2>3. IsFiniteSet(Of(r))
      BY <2>1, <2>2, FS_Subset
    <2>4. n + 1 \notin 1 .. n
      BY <1>2
    <2> QED BY <2>2, <2>3, <2>4, FS_CardinalityType
  <1>4. ASSUME NEW r
        PROVE  Cardinality({k \in DOMAIN more : more[k] = r}) =
                 Cardinality(Of(r)) + (IF x = r THEN 1 ELSE 0)
    <2>1. DOMAIN more = DOMAIN lines \cup {n + 1} /\ n + 1 \notin DOMAIN lines
      BY <1>2
    <2>2. {k \in DOMAIN more : more[k] = r} = IF x = r THEN Of(r) \cup {n + 1} ELSE Of(r)
      BY <1>2, <2>1
    <2> HIDE DEF Of
    <2>3. Cardinality(Of(r) \cup {n + 1}) = Cardinality(Of(r)) + 1
      BY <1>3, FS_AddElement
    <2>4. CASE x = r
      BY <2>2, <2>3, <2>4
    <2>5. CASE x # r
      <3>1. {k \in DOMAIN more : more[k] = r} = Of(r)
        BY <2>2, <2>5
      <3>2. Cardinality(Of(r)) + 0 = Cardinality(Of(r))
        BY <1>3
      <3> QED BY <2>5, <3>1, <3>2
    <2> QED BY <2>4, <2>5
  <1>5. ASSUME NEW r PROVE Times(<<>>, r) = 0
    <2>1. {k \in DOMAIN <<>> : <<>>[k] = r} = {}
      OBVIOUS
    <2> QED BY <2>1, FS_EmptySet DEF Times
  <1> QED BY <1>3, <1>4, <1>5 DEF Times, more

\* Every directory lies in Who_Won.
LEMMA AllInside == \A d \in Dirs : WhoWon \in Path[d]
  <1> DEFINE Astray == {Cardinality(Path[d]) : d \in {x \in Dirs : WhoWon \notin Path[x]}}
  <1> SUFFICES ASSUME NEW z \in Dirs, WhoWon \notin Path[z] PROVE FALSE
    OBVIOUS
  <1>1. ASSUME NEW d \in Dirs PROVE IsFiniteSet(Path[d]) /\ Cardinality(Path[d]) \in Nat
    <2>1. IsFiniteSet(Path[d])
      BY PathFacts, DirectoryAssumption, FS_Subset
    <2> QED BY <2>1, FS_CardinalityType
  <1>2. Astray \in SUBSET Nat /\ Astray # {}
    BY <1>1
  <1>3. PICK k \in Astray : \A j \in Astray : k <= j
    BY <1>2, LeastNumber
  <1>4. PICK d \in Dirs : WhoWon \notin Path[d] /\ k = Cardinality(Path[d])
    BY <1>3
  <1> DEFINE p == Above[d]
  <1>5. d \in Dirs \ {WhoWon}
    BY <1>4, PathFacts
  <1>6. p \in Dirs /\ Path[d] = {d} \cup Path[p] /\ d \notin Path[p]
    BY <1>5, PathUp
  <1> HIDE DEF p
  <1>7. Cardinality(Path[d]) = Cardinality(Path[p]) + 1
    <2>1. Path[d] = Path[p] \cup {d}
      BY <1>6
    <2> QED BY <1>1, <1>6, <2>1, FS_AddElement
  <1>8. Cardinality(Path[p]) \in Astray
    BY <1>4, <1>6
  <1> HIDE DEF Astray
  <1>9. k <= Cardinality(Path[p])
    BY <1>3, <1>8
  <1>10. Cardinality(Path[p]) \in Nat
    BY <1>1, <1>6
  <1> QED BY <1>4, <1>7, <1>9, <1>10

\* No process of the run has failed or was killed.
NoneGone == \A d \in Dirs : pc[d] \notin {"failed", "killed"}

\* While nothing is gone and the process of another directory runs, Who_Won's waits.
LEMMA TopWaits ==
  ASSUME DirectoriesInv, NoneGone, top = WhoWon, NEW d \in Dirs \ {WhoWon}, pc[d] \in Running
  PROVE  pc[WhoWon] = "wait"
  <1> DEFINE S == {d} \cup {x \in Dirs : pc[x] = "wait"}
  <1>1. ASSUME NEW x \in S \ {WhoWon} PROVE Above[x] \in S
    <2>1. x \in Dirs \ {WhoWon, top} /\ pc[x] \in Running
      BY <1>1 DEF Running
    <2>2. Above[x] \in Dirs
      BY <2>1, PathUp
    <2>3. pc[Above[x]] = "wait"
      BY <2>1, <2>2, WaitedFor DEF NoneGone
    <2> QED BY <2>2, <2>3
  <1>2. S \in SUBSET Dirs /\ Upward(S, d)
    BY <1>1 DEF Upward
  <1>3. WhoWon \in S
    <2> HIDE DEF S
    <2> QED BY <1>2, AllInside, PathLeast
  <1> QED BY <1>3

\* When it starts, no other process has been started.
LEMMA NothingBegun ==
  ASSUME DirectoriesInv, top = WhoWon, pc[WhoWon] = "start", NEW d \in Dirs \ {WhoWon}
  PROVE  pc[d] = "none"
  <1> SUFFICES ASSUME pc[d] # "none" PROVE FALSE
    OBVIOUS
  <1> DEFINE S == {d} \cup {x \in Dirs : pc[x] \notin {"none", "start", "killed"}}
  <1>1. ASSUME NEW x \in S \ {WhoWon} PROVE Above[x] \in S
    <2>1. x \in Dirs \ {WhoWon, top} /\ pc[x] # "none"
      BY <1>1
    <2>2. Above[x] \in Dirs
      BY <2>1, PathUp
    <2>3. NestedIn(x, Above[x])
      BY <2>1 DEF DirectoriesInv, Nested
    <2> QED BY <2>1, <2>2, <2>3 DEF NestedIn
  <1>2. S \in SUBSET Dirs /\ Upward(S, d)
    BY <1>1 DEF Upward
  <1>3. WhoWon \in S
    <2> HIDE DEF S
    <2> QED BY <1>2, AllInside, PathLeast
  <1> QED BY <1>3

\* readdir's entry for a link, and whether it has been reported.
LinkTo(t) == [kind |-> "link", name |-> t]
Told(d, t) == pc[d] \notin {"none", "start"} /\ t \in links[d] /\ LinkTo(t) \notin todo[d]

\* One message for each link that a process has come across.
Tells(lines) ==
  \A d, t \in Dirs : Times(lines, Cycle(d, t)) = (IF Told(d, t) THEN 1 ELSE 0)

Messages(lines) ==
  /\ lines \in Seq(Line) /\ \A k \in DOMAIN lines : lines[k].kind = "cycle"
  /\ Tells(lines)

Reports == Lines(Result(WhoWon))

\* The file of a process at the top: messages, then the counts, then the winner.  An
\* orphan of a killed process could still add messages behind the counts.
Reported ==
  top = WhoWon /\ ~IsLeaf(WhoWon) /\ NoneGone =>
    /\ main = "waiting" /\ pc[WhoWon] \in {"scan", "wait"} => Messages(Reports)
    /\ main = "waiting" /\ pc[WhoWon] = "ok" =>
         \E lines \in Seq(Line) :
           Messages(lines) /\ Reports = Append(lines, Counts(list[WhoWon]))
    /\ main = "done" /\ pc[WhoWon] = "ok" =>
         \E lines \in Seq(Line) : /\ Messages(lines)
           /\ Reports = Append(Append(lines, Counts(list[WhoWon])), Winner(winner))

ThroughAll == \A d \in Dirs : pc[d] \in {"print", "ok"} => todo[d] = {}

LEMMA ThroughAllStep ==
  ASSUME DirectoriesInv, ThroughAll, Next
  PROVE  ThroughAll'
  <1>1. /\ pc \in [Dirs -> {"none", "start", "scan", "wait", "print"} \cup Ended]
        /\ todo = [x \in Dirs |-> todo[x]]
    BY DEF DirectoriesInv, Typed
  <1>2. ASSUME NEW d \in Dirs, NEW to, pc' = [pc EXCEPT ![d] = to], to \notin {"print", "ok"},
               \A x \in Dirs \ {d} : todo'[x] = todo[x]
        PROVE  ThroughAll'
    BY <1>1, <1>2 DEF ThroughAll
  <1>3. ASSUME NEW d \in Dirs, NEW to, pc' = [pc EXCEPT ![d] = to], todo[d] = {}, UNCHANGED todo
        PROVE  ThroughAll'
    BY <1>1, <1>3 DEF ThroughAll
  <1>4. ASSUME NEW t \in Tops, StartMain(t) PROVE ThroughAll'
    <2>1. t \in Dirs
      BY DirectoryAssumption
    <2> QED BY <1>2, <1>4, <2>1 DEF StartMain
  <1>5. ASSUME NEW d \in Dirs, Program(d) PROVE ThroughAll'
    <2>1. CASE Begin(d)
      <3>1. pc' = [pc EXCEPT ![d] = "scan"] /\ todo' = [todo EXCEPT ![d] = Entered(d)]
        BY <2>1 DEF Begin
      <3> QED BY <1>1, <1>2, <3>1
    <2>2. CASE ReportLink(d)
      <3>1. PICK e \in todo[d] : /\ ReadEntry(d, "link", e)
                                 /\ pc' = [pc EXCEPT ![d] = "failed"] \/ pc' = pc
        BY <2>2 DEF ReportLink, Exit
      <3>2. pc[d] = "scan" /\ todo' = [todo EXCEPT ![d] = @ \ {e}]
        BY <3>1 DEF ReadEntry
      <3>3. \A x \in Dirs \ {d} : todo'[x] = todo[x]
        BY <1>1, <3>2
      <3>4. CASE pc' = pc
        BY <3>2, <3>3, <3>4 DEF ThroughAll
      <3> QED BY <1>2, <3>1, <3>3, <3>4
    <2>3. CASE ForkSub(d)
      <3>1. PICK e \in todo[d] : /\ ReadEntry(d, "dir", e)
                                 /\ pc' = [pc EXCEPT ![d] = "wait", ![e.name] = "start"]
        BY <2>3 DEF ForkSub
      <3>2. todo' = [todo EXCEPT ![d] = @ \ {e}]
        BY <3>1 DEF ReadEntry
      <3>3. \A x \in Dirs : pc'[x] \in {"print", "ok"} => pc'[x] = pc[x] /\ x # d
        BY <1>1, <3>1
      <3> QED BY <1>1, <3>2, <3>3 DEF ThroughAll
    <2>4. CASE MergeSub(d)
      <3>1. pc' = [pc EXCEPT ![d] = "scan"] \/ pc' = [pc EXCEPT ![d] = "failed"]
        BY <2>4 DEF MergeSub, Exit
      <3>2. UNCHANGED todo
        BY <2>4 DEF MergeSub
      <3> QED BY <1>2, <3>1, <3>2
    <2>5. CASE WriteCounts(d) \/ CountVotes(d)
      <3>1. todo[d] = {} /\ UNCHANGED todo
        BY <2>5 DEF WriteCounts, CountVotes
      <3>2. \E to : pc' = [pc EXCEPT ![d] = to]
        BY <2>5 DEF WriteCounts, CountVotes, Exit
      <3> QED BY <1>3, <3>1, <3>2
    <2>6. CASE PrintResults(d)
      <3>1. pc[d] = "print" /\ pc' = [pc EXCEPT ![d] = "ok"] /\ UNCHANGED todo
        BY <2>6 DEF PrintResults, Exit
      <3> QED BY <1>3, <3>1 DEF ThroughAll
    <2> QED BY <1>5, <2>1, <2>2, <2>3, <2>4, <2>5, <2>6 DEF Program, StartAggregate, StartLeaf
  <1>6. ASSUME NEW d \in Dirs, Kill(d) PROVE ThroughAll'
    <2>1. pc' = [pc EXCEPT ![d] = "killed"] \/ pc' = [pc EXCEPT ![d] = "failed"]
      BY <1>6 DEF Kill, Exit
    <2>2. UNCHANGED todo
      BY <1>6 DEF Kill
    <2> QED BY <1>2, <2>1, <2>2
  <1>7. CASE FinishMain
    BY <1>7 DEF FinishMain, dirVars, ThroughAll
  <1>8. CASE EndMain
    BY <1>8 DEF EndMain, NoProcess, ThroughAll
  <1> QED BY <1>4, <1>5, <1>6, <1>7, <1>8 DEF Next

\* A step that changes nothing about the messages that there must be for a directory.
Quiet(d) == \A t \in Dirs : Told(d, t)' <=> Told(d, t)

LEMMA TellsKept ==
  ASSUME NEW lines, Messages(lines), \A d \in Dirs : Quiet(d)
  PROVE  Messages(lines)'
  <1>1. ASSUME NEW d \in Dirs, NEW t \in Dirs
        PROVE  Times(lines, Cycle(d, t)) = (IF Told(d, t)' THEN 1 ELSE 0)
    <2>1. Told(d, t)' <=> Told(d, t)
      BY <1>1 DEF Quiet
    <2>2. Times(lines, Cycle(d, t)) = (IF Told(d, t) THEN 1 ELSE 0)
      BY <2>1 DEF Messages, Tells
    <2> QED BY <2>1, <2>2
  <1>2. Tells(lines)'
    BY <1>1 DEF Tells
  <1> QED BY <1>2 DEF Messages

LEMMA OthersQuiet ==
  ASSUME NEW d \in Dirs, Quiet(d), UNCHANGED links,
         \A x \in Dirs \ {d} : pc'[x] = pc[x] /\ todo'[x] = todo[x]
  PROVE  \A x \in Dirs : Quiet(x)
  <1>1. ASSUME NEW x \in Dirs \ {d} PROVE Quiet(x)
    <2>1. pc'[x] = pc[x] /\ todo'[x] = todo[x]
      OBVIOUS
    <2>2. \A t \in Dirs : Told(x, t)' <=> Told(x, t)
      BY <2>1 DEF Told
    <2> QED BY <2>2 DEF Quiet
  <1> QED BY <1>1

\* A run from the top, and the process of Who_Won reads its directory.
Scanning == top = WhoWon /\ ~IsLeaf(WhoWon) /\ main = "waiting" /\ pc[WhoWon] \in {"scan", "wait"}

LEMMA QuietStep ==
  ASSUME Scanning => Messages(Reports), SameLines(WhoWon), \A d \in Dirs : Quiet(d),
         UNCHANGED <<main, top>>, pc'[WhoWon] \in {"scan", "wait"} => pc[WhoWon] \in {"scan", "wait"},
         main \in {"waiting", "failed"}, pc'[WhoWon] # "ok"
  PROVE  Reported'
  <1>1. ASSUME Scanning' PROVE Messages(Reports)'
    <2>1. Scanning
      BY <1>1 DEF Scanning
    <2>2. PICK l : l = Reports
      OBVIOUS
    <2>3. Messages(l)
      BY <2>1, <2>2
    <2>4. Messages(l)'
      BY <2>3, TellsKept
    <2>5. Reports' = l
      BY <2>2 DEF SameLines, Reports
    <2> QED BY <2>4, <2>5 DEF Messages, Tells
  <1> QED BY <1>1 DEF Scanning, Reported

\* Vote_Counter has not ended well while a process runs.
LEMMA RunsBefore ==
  ASSUME DirectoriesInv, NoneGone, top = WhoWon, NEW d \in Dirs, pc[d] \in Running
  PROVE  main \in {"waiting", "failed"}
  <1>1. pc[WhoWon] \in Running
    BY TopWaits DEF Running
  <1>2. pc[WhoWon] \notin Ended
    BY <1>1 DEF Running, Ended
  <1>3. main \in {"idle", "waiting", "done", "failed"} /\ main # "idle"
    BY DEF DirectoriesInv, Typed, Started, Running
  <1> QED BY <1>2, <1>3 DEF DirectoriesInv, Declared

\* An entry that readdir has returned.
LEMMA EntryRead ==
  ASSUME DirectoriesInv, NEW d \in Dirs, NEW kind, NEW e \in todo[d], ReadEntry(d, kind, e)
  PROVE  /\ pc[d] = "scan" /\ \A x \in Dirs \ {d} : todo'[x] = todo[x]
         /\ todo'[d] = todo[d] \ {e} /\ e \in Entered(d)
         /\ kind = "link" => e.name \in links[d] /\ e.name \in Dirs /\ e = LinkTo(e.name)
         /\ kind = "dir" => e.name \in Subdirs(d) /\ \A t : e # LinkTo(t)
  <1>1. /\ pc[d] = "scan" /\ e.kind = kind /\ todo' = [todo EXCEPT ![d] = @ \ {e}]
    BY DEF ReadEntry
  <1>2. /\ todo = [x \in Dirs |-> todo[x]] /\ \A x \in Dirs : todo[x] \subseteq Entered(x)
        /\ links \in LinkSets
    BY DEF DirectoriesInv, Typed
  <1>3. e \in Entered(d)
    BY <1>2
  <1>4. links[d] \subseteq Dirs
    BY <1>2, DirectoryAssumption, PathFacts
  <1>5. \A t : LinkTo(t).kind = "link" /\ LinkTo(t).name = t
    BY DEF LinkTo
  <1>6. \A c : Item(c).kind = "dir"
    BY DEF Item
  <1>7. (\E t \in links[d] : e = LinkTo(t)) \/ (\E c \in Subdirs(d) : e = Item(c))
    BY <1>3 DEF Entered, LinkTo, Item
  <1>8. kind = "link" => e.name \in links[d] /\ e = LinkTo(e.name)
    BY <1>1, <1>5, <1>6, <1>7
  <1>9. kind = "dir" => e.name \in Subdirs(d) /\ \A t : e # LinkTo(t)
    BY <1>1, <1>3, <1>5, EnteredFacts
  <1> QED BY <1>1, <1>2, <1>3, <1>4, <1>8, <1>9

\* What is used of the invariants when a program takes a step.
LEMMA StepFacts ==
  ASSUME DirectoriesInv, Reported
  PROVE  /\ NoneGone /\ Scanning => Messages(Reports)
         /\ FilesTyped /\ Reports \in Seq(Line)
         /\ pc \in [Dirs -> {"none", "start", "scan", "wait", "print"} \cup Ended]
         /\ todo = [x \in Dirs |-> todo[x]] /\ list \in [Dirs -> Lists]
         /\ Result(WhoWon) \in Dirs \X Dirs /\ WhoWon \in Dirs
  BY LinesTyped, ResultFacts, DirectoryAssumption
     DEF DirectoriesInv, Typed, Scanning, Reported, Reports

\* Only the process of Who_Won is at another place than waiting, when one runs.
LEMMA TopPlace ==
  ASSUME DirectoriesInv, NoneGone, top = WhoWon, NEW d \in Dirs, pc[d] \in Running
  PROVE  d = WhoWon \/ pc[WhoWon] = "wait"
  BY TopWaits

LEMMA AggregateReported ==
  ASSUME DirectoriesInv, Reported, NoneGone, NoneGone', top = WhoWon, ~IsLeaf(WhoWon), StartAggregate(WhoWon)
  PROVE  Reported'
  <1>1. /\ pc[WhoWon] = "start" /\ pc' = [pc EXCEPT ![WhoWon] = "scan"]
        /\ todo' = [todo EXCEPT ![WhoWon] = Entered(WhoWon)]
        /\ files' = Without(Result(WhoWon)) /\ UNCHANGED <<links, main, top>>
    BY DEF StartAggregate, Begin, mainVars
  <1>2. Reports' = <<>>
    BY <1>1, StepFacts, WithoutRight DEF Reports
  <1>3. pc'[WhoWon] = "scan" /\ todo'[WhoWon] = Entered(WhoWon)
    BY <1>1, StepFacts
  <1>4. ASSUME NEW d \in Dirs, NEW t \in Dirs PROVE ~Told(d, t)'
    <2>1. CASE d = WhoWon
      <3>1. t \in links[WhoWon] => LinkTo(t) \in Entered(WhoWon)
        BY DEF LinkTo, Entered
      <3> QED BY <1>1, <1>3, <2>1, <3>1 DEF Told
    <2>2. CASE d # WhoWon
      <3>1. pc[d] = "none"
        BY <1>1, <2>2, NothingBegun
      <3>2. pc'[d] = "none"
        BY <1>1, <2>2, <3>1, StepFacts
      <3> QED BY <3>2 DEF Told
    <2> QED BY <2>1, <2>2
  <1>5. <<>> \in Seq(Line) /\ \A r : Times(<<>>, r) = 0
    <2>1. <<>> \in Seq(Line)
      OBVIOUS
    <2>2. \A r : {k \in DOMAIN <<>> : <<>>[k] = r} = {}
      OBVIOUS
    <2> QED BY <2>1, <2>2, FS_EmptySet DEF Times
  <1>6. Messages(<<>>)'
    BY <1>4, <1>5 DEF Messages, Tells
  <1>7. Messages(Reports)'
    BY <1>2, <1>6 DEF Messages, Tells
  <1> QED BY <1>3, <1>7 DEF Reported

LEMMA BeginReported ==
  ASSUME DirectoriesInv, Reported, NoneGone, NoneGone', top = WhoWon, NEW d \in Dirs \ {WhoWon},
         StartAggregate(d) \/ StartLeaf(d)
  PROVE  Reported'
  <1>1. /\ pc[d] = "start" /\ pc' = [pc EXCEPT ![d] = "scan"]
        /\ todo' = [todo EXCEPT ![d] = Entered(d)]
        /\ files' = files \/ files' = Without(Result(d))
        /\ UNCHANGED <<links, main, top>>
    BY DEF StartAggregate, StartLeaf, Begin, mainVars
  <1>2. SameLines(WhoWon)
    <2>1. Result(WhoWon) # Result(d)
      BY ResultFacts
    <2> QED BY <1>1, <2>1, StepFacts, SameFiles, WithoutRight DEF SameLines
  <1>3. /\ pc'[d] = "scan" /\ todo'[d] = Entered(d)
        /\ \A x \in Dirs \ {d} : pc'[x] = pc[x] /\ todo'[x] = todo[x]
    BY <1>1, StepFacts
  <1>4. Quiet(d)
    <2>1. \A t \in links[d] : LinkTo(t) \in Entered(d)
      BY DEF LinkTo, Entered
    <2> QED BY <1>1, <1>3, <2>1 DEF Quiet, Told
  <1>5. \A x \in Dirs : Quiet(x)
    BY <1>1, <1>3, <1>4, OthersQuiet
  <1>6. pc[d] \in Running
    BY <1>1 DEF Running
  <1>7. main \in {"waiting", "failed"} /\ pc[WhoWon] = "wait" /\ pc'[WhoWon] = "wait"
    BY <1>3, <1>6, RunsBefore, TopWaits, StepFacts
  <1> QED BY <1>1, <1>2, <1>5, <1>7, StepFacts, QuietStep

LEMMA LinkReported ==
  ASSUME DirectoriesInv, Reported, NoneGone, NoneGone', top = WhoWon, ~IsLeaf(WhoWon), NEW d \in Dirs, ReportLink(d)
  PROVE  Reported'
  <1>1. PICK e \in todo[d] :
          /\ ReadEntry(d, "link", e)
          /\ IF linked[d]
             THEN Exit(d, "failed") /\ UNCHANGED <<files, linked>>
             ELSE /\ files' = With(Result(WhoWon), Append(Lines(Result(WhoWon)), Cycle(d, e.name)))
                  /\ linked' = [linked EXCEPT ![d] = TRUE]
                  /\ UNCHANGED pc
    BY DEF ReportLink
  <1> DEFINE s == e.name
             x == Cycle(d, s)
  <1>2. /\ pc[d] = "scan" /\ \A y \in Dirs \ {d} : todo'[y] = todo[y]
        /\ todo'[d] = todo[d] \ {e} /\ s \in links[d] /\ s \in Dirs /\ e = LinkTo(s)
    BY <1>1, EntryRead
  <1>3. UNCHANGED <<links, main, top, list>>
    BY DEF ReportLink, mainVars
  <1>4. pc[d] \in Running
    BY <1>2 DEF Running
  <1>5. main \in {"waiting", "failed"} /\ pc[WhoWon] \in {"scan", "wait"}
    BY <1>2, <1>4, RunsBefore, TopPlace
  <1>6. CASE linked[d]
    <2>1. pc' = [pc EXCEPT ![d] = "failed"]
      BY <1>1, <1>6 DEF Exit
    <2>2. pc'[d] = "failed"
      BY <2>1, StepFacts
    <2> QED BY <2>2 DEF NoneGone
  <1>7. CASE ~linked[d]
    <2>1. UNCHANGED pc /\ files' = With(Result(WhoWon), Append(Reports, x))
      BY <1>1, <1>7 DEF Reports
    <2>2. x \in Line
      BY <1>2, LineFacts
    <2>3. Append(Reports, x) \in Seq(Line)
      BY <2>2, StepFacts, AppendedLines
    <2>4. Reports' = Append(Reports, x)
      <3> HIDE DEF x
      <3> QED BY <2>1, <2>3, StepFacts, WithRight DEF Reports
    <2>5. ASSUME Scanning' PROVE Messages(Reports)'
      <3>1. Messages(Reports)
        BY <1>3, <1>5, <2>5, StepFacts DEF Scanning
      <3>2. PICK l : l = Reports
        OBVIOUS
      <3>3. PICK m : m = Append(l, x)
        OBVIOUS
      <3>4. Messages(l) /\ l \in Seq(Line) /\ Reports' = m /\ m \in Seq(Line)
        BY <2>3, <2>4, <3>1, <3>2, <3>3 DEF Messages
      <3>5. \A r : Times(m, r) = Times(l, r) + (IF x = r THEN 1 ELSE 0)
        <4> HIDE DEF x
        <4> QED BY <2>2, <3>3, <3>4, TimesAppended
      <3>6. \A k \in DOMAIN m : m[k].kind = "cycle"
        <4>1. x.kind = "cycle"
          BY DEF Cycle
        <4>2. \A k \in DOMAIN l : l[k].kind = "cycle"
          BY <3>4 DEF Messages
        <4>3. \A k \in DOMAIN m : m[k] = x \/ (k \in DOMAIN l /\ m[k] = l[k])
          <5> HIDE DEF x
          <5> DEFINE L == Line
          <5>1. l \in Seq(L) /\ x \in L
            BY <2>2, <3>4
          <5> HIDE DEF L
          <5> QED BY <3>3, <5>1
        <4> QED BY <4>1, <4>2, <4>3
      <3>7. ASSUME NEW y \in Dirs, NEW t \in Dirs
            PROVE  Times(m, Cycle(y, t)) = (IF Told(y, t)' THEN 1 ELSE 0)
        <4>1. Times(l, Cycle(y, t)) = (IF Told(y, t) THEN 1 ELSE 0)
          BY <3>4 DEF Messages, Tells
        <4>2. Times(m, Cycle(y, t)) = Times(l, Cycle(y, t)) + (IF x = Cycle(y, t) THEN 1 ELSE 0)
          BY <3>5
        <4>3. x = Cycle(y, t) <=> (y = d /\ t = s)
          BY DEF Cycle
        <4>4. CASE y = d /\ t = s
          <5>1. ~Told(y, t) /\ Told(y, t)'
            BY <1>2, <1>3, <2>1, <4>4 DEF Told
          <5> QED BY <4>1, <4>2, <4>3, <4>4, <5>1
        <4>5. CASE ~(y = d /\ t = s)
          <5>1. LinkTo(t) \in todo'[y] <=> LinkTo(t) \in todo[y]
            <6>1. LinkTo(t) = LinkTo(s) => t = s
              BY DEF LinkTo
            <6> QED BY <1>2, <4>5, <6>1
          <5>2. Told(y, t)' <=> Told(y, t)
            BY <1>3, <2>1, <5>1 DEF Told
          <5>3. Times(m, Cycle(y, t)) = Times(l, Cycle(y, t)) + 0
            BY <4>2, <4>3, <4>5
          <5> QED BY <4>1, <5>2, <5>3
        <4> QED BY <4>4, <4>5
      <3>8. Messages(m)'
        BY <3>4, <3>6, <3>7 DEF Messages, Tells
      <3> QED BY <3>4, <3>8 DEF Messages, Tells
    <2>6. pc'[WhoWon] \in {"scan", "wait"} /\ main' \in {"waiting", "failed"}
      BY <1>3, <1>5, <2>1
    <2> QED BY <2>5, <2>6 DEF Scanning, Reported
  <1> QED BY <1>6, <1>7

LEMMA ForkReported ==
  ASSUME DirectoriesInv, Reported, NoneGone, NoneGone', top = WhoWon, NEW d \in Dirs, ForkSub(d)
  PROVE  Reported'
  <1>1. PICK e \in todo[d] : /\ ReadEntry(d, "dir", e)
                             /\ pc' = [pc EXCEPT ![d] = "wait", ![e.name] = "start"]
    BY DEF ForkSub
  <1> DEFINE c == e.name
  <1>2. /\ pc[d] = "scan" /\ \A y \in Dirs \ {d} : todo'[y] = todo[y]
        /\ todo'[d] = todo[d] \ {e} /\ c \in Subdirs(d) /\ \A t : e # LinkTo(t)
        /\ e \in Entered(d)
    BY <1>1, EntryRead
  <1>3. UNCHANGED <<links, files, main, top>>
    BY DEF ForkSub, mainVars
  <1>4. c \in Dirs \ {WhoWon} /\ c # d /\ NestedIn(c, d)
    BY <1>2, BelowStarted
  <1>5. pc[c] = "none"
    <2>1. e = Item(c)
      BY <1>1, <1>2, EnteredFacts DEF ReadEntry
    <2> QED BY <1>2, <1>4, <2>1 DEF NestedIn
  <1>6. /\ pc'[d] = "wait" /\ pc'[c] = "start"
        /\ \A y \in Dirs \ {c, d} : pc'[y] = pc[y]
    <2> HIDE DEF c
    <2>1. pc' = [pc EXCEPT ![d] = "wait", ![c] = "start"]
      BY <1>1 DEF c
    <2> QED BY <1>4, <2>1, StepFacts
  <1> HIDE DEF c
  <1>7. ASSUME NEW y \in Dirs PROVE Quiet(y)
    <2>1. CASE y = c
      BY <1>5, <1>6, <2>1 DEF Quiet, Told
    <2>2. CASE y = d
      <3>1. \A t : LinkTo(t) \in todo'[d] <=> LinkTo(t) \in todo[d]
        BY <1>2
      <3>2. \A t \in Dirs : Told(d, t)' <=> Told(d, t)
        BY <1>2, <1>3, <1>6, <3>1 DEF Told
      <3> QED BY <2>2, <3>2 DEF Quiet
    <2>3. CASE y # c /\ y # d
      <3>1. pc'[y] = pc[y] /\ todo'[y] = todo[y]
        BY <1>2, <1>6, <2>3
      <3>2. \A t \in Dirs : Told(y, t)' <=> Told(y, t)
        BY <1>3, <3>1 DEF Told
      <3> QED BY <3>2 DEF Quiet
    <2> QED BY <2>1, <2>2, <2>3
  <1>8. pc[d] \in Running
    BY <1>2 DEF Running
  <1>9. main \in {"waiting", "failed"} /\ pc[WhoWon] \in {"scan", "wait"}
    BY <1>2, <1>8, RunsBefore, TopPlace
  <1>10. pc'[WhoWon] # "ok"
    BY <1>4, <1>6, <1>9, StepFacts
  <1>11. SameLines(WhoWon)
    BY <1>3, SameFiles
  <1> QED BY <1>3, <1>7, <1>9, <1>10, <1>11, StepFacts, QuietStep

\* A program that writes nothing, or its own file, and reads no entry.
LEMMA OwnFileReported ==
  ASSUME DirectoriesInv, Reported, NoneGone, NoneGone', top = WhoWon, NEW d \in Dirs,
         pc[d] \in {"scan", "wait", "print"}, NEW to, pc' = [pc EXCEPT ![d] = to],
         to \in {"scan", "print", "failed", "ok"}, d = WhoWon => to \in {"scan", "failed"},
         pc[WhoWon] # "print", SameLines(WhoWon), UNCHANGED <<links, main, top, todo>>
  PROVE  Reported'
  <1>1. pc'[d] = to /\ \A y \in Dirs \ {d} : pc'[y] = pc[y]
    BY StepFacts
  <1>2. Quiet(d)
    <2>1. \A t \in Dirs : Told(d, t)' <=> Told(d, t)
      BY <1>1 DEF Told
    <2> QED BY <2>1 DEF Quiet
  <1>3. \A y \in Dirs : Quiet(y)
    BY <1>1, <1>2, OthersQuiet
  <1>4. pc[d] \in Running
    BY DEF Running
  <1>5. main \in {"waiting", "failed"} /\ pc[WhoWon] \in {"scan", "wait"}
    BY <1>4, RunsBefore, TopPlace
  <1>6. pc'[WhoWon] # "ok"
    BY <1>1, <1>5, StepFacts
  <1> QED BY <1>3, <1>5, <1>6, StepFacts, QuietStep

LEMMA MergeReported ==
  ASSUME DirectoriesInv, Reported, NoneGone, NoneGone', top = WhoWon, ~IsLeaf(WhoWon), NEW d \in Dirs, MergeSub(d)
  PROVE  Reported'
  <1>1. /\ pc[d] = "wait" /\ files' = With(Result(d), Lines(Result(d)))
        /\ pc' = [pc EXCEPT ![d] = "scan"] \/ pc' = [pc EXCEPT ![d] = "failed"]
        /\ UNCHANGED <<links, main, top, todo>>
    BY DEF MergeSub, Exit, mainVars
  <1>2. SameLines(WhoWon)
    <2> DEFINE f == Result(d)
               old == Lines(f)
    <2>1. f \in Dirs \X Dirs /\ old \in Seq(Line) /\ files' = With(f, old)
      BY <1>1, StepFacts, ResultFacts, LinesTyped
    <2>2. Lines(f)' = old /\ \A g : g # f => Lines(g)' = Lines(g)
      <3> HIDE DEF f, old
      <3> QED BY <2>1, StepFacts, WithRight
    <2> QED BY <2>2 DEF SameLines
  <1>3. pc[WhoWon] # "print"
    BY DirectoryAssumption DEF DirectoriesInv, Says
  <1> QED BY <1>1, <1>2, <1>3, OwnFileReported

LEMMA CountsReported ==
  ASSUME DirectoriesInv, Reported, NoneGone, NoneGone', top = WhoWon, ~IsLeaf(WhoWon), NEW d \in Dirs, WriteCounts(d)
  PROVE  Reported'
  <1> DEFINE x == Counts(list[d])
             new == Append(Lines(Result(d)), x)
  <1>1. /\ pc[d] = "scan" /\ UNCHANGED <<links, main, top, todo, list>>
        /\ \/ pc' = [pc EXCEPT ![d] = "failed"] /\ files' = files
           \/ pc' = [pc EXCEPT ![d] = "ok"] /\ files' = With(Result(d), new)
    BY DEF WriteCounts, Exit, mainVars
  <1>2. x \in Line /\ new \in Seq(Line) /\ Result(d) \in Dirs \X Dirs
    <2>1. x \in Line /\ Lines(Result(d)) \in Seq(Line)
      BY StepFacts, LineFacts, LinesTyped
    <2> HIDE DEF x
    <2> QED BY <2>1, ResultFacts, AppendedLines
  <1>3. pc[WhoWon] # "print"
    BY DirectoryAssumption DEF DirectoriesInv, Says
  <1>4. CASE pc' = [pc EXCEPT ![d] = "failed"] /\ files' = files
    <2>1. SameLines(WhoWon)
      BY <1>4, SameFiles
    <2> QED BY <1>1, <1>3, <1>4, <2>1, OwnFileReported
  <1>5. CASE /\ pc' = [pc EXCEPT ![d] = "ok"] /\ files' = With(Result(d), new) /\ d # WhoWon
    <2>1. SameLines(WhoWon)
      <3>1. Result(WhoWon) # Result(d)
        BY <1>5, ResultFacts
      <3> HIDE DEF new
      <3> QED BY <1>2, <1>5, <3>1, StepFacts, WithRight DEF SameLines
    <2> QED BY <1>1, <1>3, <1>5, <2>1, OwnFileReported
  <1>6. CASE /\ pc' = [pc EXCEPT ![d] = "ok"] /\ files' = With(Result(d), new) /\ d = WhoWon
    <2>1. Reports' = Append(Reports, x)
      <3>1. Lines(Result(d))' = new
        <4> HIDE DEF new
        <4> QED BY <1>2, <1>6, StepFacts, WithRight
      <3> QED BY <1>6, <3>1 DEF Reports
    <2>2. x' = x /\ pc'[d] = "ok" /\ \A y \in Dirs \ {d} : pc'[y] = pc[y]
      BY <1>1, <1>6, StepFacts DEF Counts
    <2>3. Quiet(d)
      BY <1>1, <2>2 DEF Quiet, Told
    <2>4. \A y \in Dirs : Quiet(y)
      BY <1>1, <2>2, <2>3, OthersQuiet
    <2>5. ASSUME main = "waiting"
          PROVE  \E l \in Seq(Line) : Messages(l)' /\ Reports' = Append(l, Counts(list[WhoWon]))'
      <3>1. Scanning
        BY <1>1, <1>6, <2>5 DEF Scanning
      <3>2. PICK l : l = Reports
        OBVIOUS
      <3>3. Messages(l) /\ l \in Seq(Line)
        BY <3>1, <3>2, StepFacts
      <3>4. Messages(l)'
        BY <2>4, <3>3, TellsKept
      <3> QED BY <1>6, <2>1, <2>2, <3>2, <3>3, <3>4
    <2>6. pc[WhoWon] \in Running
      BY <1>1, <1>6 DEF Running
    <2>7. main' \in {"waiting", "failed"} /\ pc'[WhoWon] = "ok" /\ main' = main
      BY <1>1, <1>6, <2>2, <2>6, RunsBefore, DirectoryAssumption
    <2> QED BY <2>5, <2>7 DEF Reported
  <1> QED BY <1>1, <1>4, <1>5, <1>6

LEMMA LeafReported ==
  ASSUME DirectoriesInv, Reported, NoneGone, NoneGone', top = WhoWon, ~IsLeaf(WhoWon), NEW d \in Dirs,
         CountVotes(d) \/ PrintResults(d)
  PROVE  Reported'
  <1> DEFINE x == Counts(list[d])
             new == Append(Lines(Result(d)), x)
  <1>1. /\ pc[d] \in {"scan", "print"} /\ UNCHANGED <<links, main, top, todo>>
        /\ \/ pc' = [pc EXCEPT ![d] = "failed"] /\ files' = files
           \/ pc' = [pc EXCEPT ![d] = "print"] /\ files' = With(Result(d), <<>>)
           \/ pc' = [pc EXCEPT ![d] = "ok"] /\ files' = With(Result(d), new)
    BY DEF CountVotes, PrintResults, Exit, mainVars
  <1>2. d # WhoWon
    <2>1. IsLeaf(d)
      BY DEF CountVotes, PrintResults, DirectoriesInv, Says
    <2> QED BY <2>1
  <1>3. new \in Seq(Line) /\ <<>> \in Seq(Line) /\ Result(d) \in Dirs \X Dirs
    <2>1. x \in Line /\ Lines(Result(d)) \in Seq(Line)
      BY StepFacts, LineFacts, LinesTyped
    <2> HIDE DEF x
    <2>2. <<>> \in Seq(Line)
      OBVIOUS
    <2> QED BY <2>1, <2>2, ResultFacts, AppendedLines
  <1>4. SameLines(WhoWon)
    <2>1. Result(WhoWon) # Result(d)
      BY <1>2, ResultFacts
    <2> HIDE DEF new
    <2> QED BY <1>1, <1>3, <2>1, StepFacts, SameFiles, WithRight DEF SameLines
  <1>5. pc[WhoWon] # "print"
    BY DirectoryAssumption DEF DirectoriesInv, Says
  <1> QED BY <1>1, <1>2, <1>4, <1>5, OwnFileReported

LEMMA FinishReported ==
  ASSUME DirectoriesInv, Reported, FinishMain
  PROVE  Reported'
  <1>1. /\ main = "waiting" /\ main' \in {"done", "failed"}
        /\ UNCHANGED <<links, top, pc, todo, list>>
    BY DEF FinishMain, dirVars
  <1>2. CASE main' = "failed" \/ top # WhoWon \/ IsLeaf(WhoWon) \/ pc[WhoWon] # "ok" \/ ~NoneGone
    BY <1>1, <1>2 DEF Reported, NoneGone
  <1>3. CASE main' = "done" /\ top = WhoWon /\ ~IsLeaf(WhoWon) /\ pc[WhoWon] = "ok" /\ NoneGone
    <2> DEFINE w == FirstMost(Entries(files[Result(top)]))
    <2>1. /\ Exists(Result(top)) /\ winner' = w /\ files' = Announced(winner')
      BY <1>3 DEF FinishMain
    <2>2. w \in Names \cup {Blank}
      <3>1. files[Result(top)] = Lines(Result(top))
        BY <2>1 DEF Lines
      <3>2. Entries(files[Result(top)]) \in Lists
        BY <3>1, StepFacts, LinesTyped
      <3> QED BY <3>2, FirstMostRight
    <2> HIDE DEF w
    <2>3. top \in Dirs /\ files' = Announced(w)
      BY <2>1 DEF DirectoriesInv, Typed
    <2>4. Lines(Result(top))' = Append(Lines(Result(top)), Winner(w))
      BY <1>1, <2>1, <2>2, <2>3, StepFacts, AnnouncedRight
    <2>5. Reports' = Append(Reports, Winner(w))
      <3>1. Result(top)' = Result(WhoWon) /\ Result(top) = Result(WhoWon)
        BY <1>1, <1>3 DEF Result
      <3>2. Lines(Result(top))' = Lines(Result(WhoWon))'
        BY <3>1 DEF Lines, Exists
      <3> QED BY <2>4, <3>1, <3>2 DEF Reports
    <2>6. PICK l \in Seq(Line) : Messages(l) /\ Reports = Append(l, Counts(list[WhoWon]))
      BY <1>1, <1>3 DEF Reported
    <2>7. \A y \in Dirs : Quiet(y)
      BY <1>1 DEF Quiet, Told
    <2>8. Messages(l)'
      BY <2>6, <2>7, TellsKept
    <2>9. Reports' = Append(Append(l, Counts(list[WhoWon])), Winner(winner))'
      BY <1>1, <2>1, <2>5, <2>6 DEF Counts, Winner
    <2> QED BY <1>1, <1>3, <2>8, <2>9 DEF Reported
  <1> QED BY <1>1, <1>2, <1>3

\* A step of a program after which no process is gone: none was before.
LEMMA NoneBefore ==
  ASSUME DirectoriesInv, NEW d \in Dirs, Program(d), NoneGone'
  PROVE  NoneGone
  <1>1. pc \in [Dirs -> {"none", "start", "scan", "wait", "print"} \cup Ended]
    BY DEF DirectoriesInv, Typed
  <1>2. ASSUME NEW to, pc' = [pc EXCEPT ![d] = to], pc[d] \in Running PROVE NoneGone
    BY <1>1, <1>2 DEF NoneGone, Running
  <1>3. CASE Begin(d)
    <2>1. pc[d] = "start" /\ pc' = [pc EXCEPT ![d] = "scan"]
      BY <1>3 DEF Begin
    <2> QED BY <1>2, <2>1 DEF Running
  <1>4. CASE ReportLink(d)
    <2>1. pc[d] = "scan" /\ (pc' = [pc EXCEPT ![d] = "failed"] \/ pc' = pc)
      BY <1>4 DEF ReportLink, ReadEntry, Exit
    <2> QED BY <1>2, <2>1 DEF Running, NoneGone
  <1>5. CASE ForkSub(d)
    <2>1. PICK e \in todo[d] : /\ ReadEntry(d, "dir", e)
                               /\ pc' = [pc EXCEPT ![d] = "wait", ![e.name] = "start"]
      BY <1>5 DEF ForkSub
    <2> DEFINE c == e.name
    <2>2. pc[d] = "scan" /\ c \in Subdirs(d) /\ e \in Entered(d) /\ e.kind = "dir"
      BY <2>1, EntryRead DEF ReadEntry
    <2>3. c \in Dirs \ {WhoWon} /\ c # d /\ NestedIn(c, d)
      BY <2>2, BelowStarted
    <2>4. e = Item(c)
      BY <2>2, EnteredFacts
    <2>5. pc[c] = "none"
      BY <2>2, <2>3, <2>4 DEF NestedIn
    <2>6. pc' = [pc EXCEPT ![d] = "wait", ![c] = "start"]
      BY <2>1
    <2> HIDE DEF c
    <2> QED BY <1>1, <2>2, <2>5, <2>6 DEF NoneGone
  <1>6. CASE MergeSub(d)
    <2>1. pc[d] = "wait" /\ \E to : pc' = [pc EXCEPT ![d] = to]
      BY <1>6 DEF MergeSub, Exit
    <2> QED BY <1>2, <2>1 DEF Running
  <1>7. CASE WriteCounts(d) \/ CountVotes(d) \/ PrintResults(d)
    <2>1. pc[d] \in {"scan", "print"} /\ \E to : pc' = [pc EXCEPT ![d] = to]
      BY <1>7 DEF WriteCounts, CountVotes, PrintResults, Exit
    <2> QED BY <1>2, <2>1 DEF Running
  <1> QED BY <1>3, <1>4, <1>5, <1>6, <1>7 DEF Program, StartAggregate, StartLeaf

LEMMA NextReported ==
  ASSUME DirectoriesInv, Reported, [Next]_vars
  PROVE  Reported'
  <1>1. ASSUME NEW t \in Tops, StartMain(t) PROVE Reported'
    <2>1. main = "idle" /\ main' = "waiting" /\ pc' = [pc EXCEPT ![t] = "start"]
      BY <1>1 DEF StartMain
    <2>2. pc[WhoWon] = "none"
      BY <2>1, StepFacts DEF DirectoriesInv, Started
    <2>3. pc'[WhoWon] \in {"none", "start"}
      BY <2>1, <2>2, StepFacts
    <2> QED BY <2>1, <2>3 DEF Reported
  <1>2. ASSUME NEW d \in Dirs, Program(d) PROVE Reported'
    <2> SUFFICES ASSUME NoneGone' PROVE Reported'
      BY DEF Reported
    <2> NoneGone
      BY <1>2, NoneBefore
    <2>1. CASE top # WhoWon \/ IsLeaf(WhoWon)
      <3>1. UNCHANGED top
        BY <1>2 DEF Program, StartAggregate, StartLeaf, Begin, ReportLink, ForkSub, MergeSub,
                    WriteCounts, CountVotes, PrintResults, mainVars
      <3> QED BY <2>1, <3>1 DEF Reported
    <2>2. CASE top = WhoWon /\ ~IsLeaf(WhoWon)
      <3>1. CASE StartAggregate(d)
        <4>1. CASE d = WhoWon
          BY <2>2, <3>1, <4>1, AggregateReported
        <4>2. CASE d # WhoWon
          <5>1. d \in Dirs \ {WhoWon}
            BY <1>2, <4>2
          <5> QED BY <2>2, <3>1, <5>1, BeginReported
        <4> QED BY <4>1, <4>2
      <3>2. CASE StartLeaf(d)
        <4>1. d \in Dirs \ {WhoWon}
          BY <1>2, <2>2, <3>2 DEF StartLeaf
        <4> QED BY <2>2, <3>2, <4>1, BeginReported
      <3>3. CASE ReportLink(d)
        BY <1>2, <2>2, <3>3, LinkReported
      <3>4. CASE ForkSub(d)
        BY <1>2, <2>2, <3>4, ForkReported
      <3>5. CASE MergeSub(d)
        BY <1>2, <2>2, <3>5, MergeReported
      <3>6. CASE WriteCounts(d)
        BY <1>2, <2>2, <3>6, CountsReported
      <3>7. CASE CountVotes(d) \/ PrintResults(d)
        BY <1>2, <2>2, <3>7, LeafReported
      <3> QED BY <1>2, <3>1, <3>2, <3>3, <3>4, <3>5, <3>6, <3>7 DEF Program
    <2> QED BY <2>1, <2>2
  <1>3. ASSUME NEW d \in Dirs, Kill(d) PROVE Reported'
    <2>1. pc' = [pc EXCEPT ![d] = "killed"] \/ pc' = [pc EXCEPT ![d] = "failed"]
      BY <1>3 DEF Kill, Exit
    <2>2. pc'[d] \in {"killed", "failed"}
      BY <2>1, StepFacts
    <2> QED BY <2>2 DEF NoneGone, Reported
  <1>4. CASE FinishMain
    BY <1>4, FinishReported
  <1>5. CASE EndMain
    BY <1>5 DEF EndMain, Reported
  <1>6. CASE UNCHANGED vars
    <2>1. UNCHANGED <<links, files, main, top, winner, pc, todo, list>>
      BY <1>6 DEF vars, mainVars, dirVars
    <2>2. Reports' = Reports
      BY <2>1 DEF Reports, Lines, Exists
    <2>3. \A y \in Dirs : Quiet(y)
      BY <2>1 DEF Quiet, Told
    <2>4. \A l : Messages(l) => Messages(l)'
      BY <2>3, TellsKept
    <2>5. PICK r : r = Reports
      OBVIOUS
    <2>6. Messages(Reports) => Messages(Reports)'
      <3>1. Messages(Reports) => Messages(r)
        BY <2>5
      <3>2. Messages(r)' => Messages(Reports)'
        BY <2>2, <2>5 DEF Messages, Tells
      <3> QED BY <2>4, <3>1, <3>2
    <2> QED BY <2>1, <2>2, <2>4, <2>6 DEF Reported, NoneGone, Counts, Winner
  <1> QED BY <1>1, <1>2, <1>3, <1>4, <1>5, <1>6 DEF Next

ReportsInv == DirectoriesInv /\ ThroughAll /\ Reported

LEMMA InitReports == Init => ReportsInv
  <1> SUFFICES ASSUME Init PROVE ReportsInv
    OBVIOUS
  <1>1. main = "idle" /\ pc = [d \in Dirs |-> "none"]
    BY DEF Init, NoProcess
  <1>2. ThroughAll /\ Reported
    BY <1>1 DEF ThroughAll, Reported
  <1> QED BY <1>2, InitDirectories DEF ReportsInv

LEMMA NextKeepsReports == ReportsInv /\ [Next]_vars => ReportsInv'
  <1> SUFFICES ASSUME ReportsInv, [Next]_vars PROVE ReportsInv'
    OBVIOUS
  <1>1. DirectoriesInv /\ ThroughAll /\ Reported
    BY DEF ReportsInv
  <1>2. ThroughAll'
    <2>1. CASE Next
      BY <1>1, <2>1, ThroughAllStep
    <2>2. CASE UNCHANGED vars
      BY <1>1, <2>2 DEF vars, dirVars, ThroughAll
    <2> QED BY <2>1, <2>2
  <1> QED BY <1>1, <1>2, NextKeepsDirectories, NextReported DEF ReportsInv

\* Messages, counts and a winner: where each of them is.
Whole(lines, l, c, w) == lines = Append(Append(l, Counts(c)), Winner(w))

LEMMA ThreeParts ==
  ASSUME NEW l \in Seq(Line), \A k \in DOMAIN l : l[k].kind = "cycle",
         NEW c \in Lists, NEW w \in Names \cup {Blank},
         NEW lines, Whole(lines, l, c, w)
  PROVE  /\ \A d, t \in Dirs : Times(lines, Cycle(d, t)) = Times(l, Cycle(d, t))
         /\ lines[Len(lines)] = Winner(w)
         /\ {k \in DOMAIN lines : lines[k].kind = "counts"} = {Len(lines) - 1}
         /\ lines # <<>>
  <1> DEFINE x == Counts(c)
             y == Winner(w)
             m == Append(l, x)
             L == Line
             n == Len(l)
  <1>1. x \in Line /\ y \in Line /\ x.kind = "counts" /\ y.kind = "winner"
    BY LineFacts DEF Counts, Winner
  <1>2. \A d, t \in Dirs : Cycle(d, t) # x /\ Cycle(d, t) # y
    <2>1. \A d, t \in Dirs : Cycle(d, t).kind = "cycle"
      BY DEF Cycle
    <2> HIDE DEF x, y
    <2> QED BY <1>1, <2>1
  <1>3. l \in Seq(L) /\ x \in L /\ y \in L /\ lines = Append(m, y)
    BY <1>1 DEF Whole
  <1> HIDE DEF x, y, L
  <1>4. m \in Seq(L) /\ Len(m) = n + 1 /\ n \in Nat /\ DOMAIN l = 1 .. n
        /\ m[n + 1] = x /\ \A k \in 1 .. n : m[k] = l[k]
    BY <1>3
  <1>5. ASSUME NEW d \in Dirs, NEW t \in Dirs PROVE Times(lines, Cycle(d, t)) = Times(l, Cycle(d, t))
    <2> DEFINE r == Cycle(d, t)
    <2>1. r # x /\ r # y
      BY <1>2
    <2> HIDE DEF r
    <2>2. Times(m, r) = Times(l, r) + 0 /\ Times(l, r) \in Nat
      BY <1>1, <2>1, TimesAppended
    <2> HIDE DEF m
    <2>3. m \in Seq(Line)
      BY <1>4 DEF L
    <2>4. Times(Append(m, y), r) = Times(m, r) + 0
      BY <1>1, <2>1, <2>3, TimesAppended
    <2>5. Times(Append(m, y), r) = Times(l, r)
      BY <2>2, <2>4
    <2> QED BY <1>3, <2>5 DEF r
  <1> HIDE DEF m
  <1>6. /\ Len(lines) = n + 2 /\ DOMAIN lines = 1 .. n + 2 /\ lines[n + 2] = y
        /\ lines[n + 1] = x /\ \A k \in 1 .. n : lines[k] = l[k]
    BY <1>3, <1>4
  <1>7. {k \in DOMAIN lines : lines[k].kind = "counts"} = {n + 1}
    BY <1>1, <1>4, <1>6
  <1>8. Len(lines) - 1 = n + 1 /\ lines # <<>>
    BY <1>4, <1>6
  <1> QED BY <1>5, <1>6, <1>7, <1>8 DEF y

LEMMA CyclesFollow == ReportsInv => CyclesReported
  <1> DEFINE lines == files[Result(WhoWon)]
  <1> SUFFICES ASSUME ReportsInv, main = "done", AllWell, top = WhoWon, ~IsLeaf(WhoWon)
               PROVE  /\ \A d, t \in Dirs :
                           Times(lines, Cycle(d, t)) = (IF t \in links[d] THEN 1 ELSE 0)
                      /\ lines[Len(lines)] = Winner(winner)
                      /\ {k \in DOMAIN lines : lines[k].kind = "counts"} = {Len(lines) - 1}
    BY DEF CyclesReported, Times, Cycle
  <1>1. DirectoriesInv /\ ThroughAll /\ Reported
    BY DEF ReportsInv
  <1>2. \A d \in Dirs : pc[d] = "ok"
    BY AllInside DEF AllWell, Inside
  <1>3. PICK l \in Seq(Line) : /\ Messages(l)
          /\ Reports = Append(Append(l, Counts(list[WhoWon])), Winner(winner))
    BY <1>1, <1>2, DirectoryAssumption DEF Reported, NoneGone
  <1>4. list[WhoWon] \in Lists /\ winner \in Names \cup {Blank}
    BY <1>1, DirectoryAssumption DEF DirectoriesInv, Typed
  <1>5. \A k \in DOMAIN l : l[k].kind = "cycle"
    BY <1>3 DEF Messages
  <1>6. /\ \A d, t \in Dirs : Times(Reports, Cycle(d, t)) = Times(l, Cycle(d, t))
        /\ Reports[Len(Reports)] = Winner(winner)
        /\ {k \in DOMAIN Reports : Reports[k].kind = "counts"} = {Len(Reports) - 1}
        /\ Reports # <<>>
    <2>1. PICK r, c, w : r = Reports /\ c = list[WhoWon] /\ w = winner
      OBVIOUS
    <2>2. Whole(r, l, c, w) /\ c \in Lists /\ w \in Names \cup {Blank}
      BY <1>3, <1>4, <2>1 DEF Whole
    <2>3. /\ \A d, t \in Dirs : Times(r, Cycle(d, t)) = Times(l, Cycle(d, t))
          /\ r[Len(r)] = Winner(w)
          /\ {k \in DOMAIN r : r[k].kind = "counts"} = {Len(r) - 1}
          /\ r # <<>>
      BY <1>5, <2>2, ThreeParts
    <2> QED BY <2>1, <2>3
  <1>7. Reports = lines
    BY <1>6 DEF Reports, Lines
  <1>8. ASSUME NEW d \in Dirs, NEW t \in Dirs
        PROVE  Times(l, Cycle(d, t)) = (IF t \in links[d] THEN 1 ELSE 0)
    <2>1. Told(d, t) <=> t \in links[d]
      BY <1>1, <1>2 DEF Told, ThroughAll
    <2> QED BY <1>3, <2>1 DEF Messages, Tells
  <1> QED BY <1>6, <1>7, <1>8

(***************************************************************************)
(* Whatever files earlier runs left, if no process of theirs is left       *)
(* (EndMain), and in whatever order readdir returns the entries: after a   *)
(* run from the top in which nothing failed, Who_Won.txt has each link of  *)
(* the tree once, then one line with the counts, then the winner.          *)
(***************************************************************************)
THEOREM LinksToldOnce == Spec => []CyclesReported
  BY InitReports, NextKeepsReports, CyclesFollow, PTL DEF Spec
=============================================================================
