------------------------- MODULE VoteAggregateProofs -------------------------
(***************************************************************************)
(* Proofs about VoteAggregate, for every directory tree, every set of      *)
(* input files and every content they may have.  The mutex makes each      *)
(* directory's update atomic (Exclusive, Fresh), a walk visits each        *)
(* directory above its leaf once (OnTheWay, no directory lies in itself),  *)
(* and what it adds to the lines it finds are the votes of its leaf        *)
(* (Carries).                                                              *)
(***************************************************************************)
EXTENDS VoteAggregate, FoldLemmas, SequenceTheorems

\* Who holds the mutex is in the middle of a directory, and nobody else is.
Exclusive ==
  \A t \in Leaves : pc[t] \in {"read", "write", "unlock"} <=> rwMutex = t

\* Where a walk is: at its leaf or at a directory that the leaf lies in.
OnTheWay ==
  \A t \in Leaves :
    /\ node[t] = t \/ node[t] \in DirsAbove[t]
    /\ pc[t] \in {"read", "write", "unlock"} => node[t] \in Dirs \ {RootDir}
    /\ pc[t] = "lock" /\ t \in Dirs => node[t] \in Dirs \ {RootDir}
    /\ pc[t] = "exited" => node[t] = IF t \in Dirs THEN RootDir ELSE t

\* What a walk carries once it has read its leaf's file.
Carries ==
  \A t \in Leaves :
    pc[t] \in {"read", "write", "unlock"} \/ node[t] # t => inc[t] = Tallied(ballots[t])

\* What a walk is about to write is still right when it writes it.
Fresh ==
  \A t \in Leaves :
    pc[t] = "write" =>
      root_out[t] = IF Above[node[t]] \in DOMAIN out
                    THEN Updated(out[Above[node[t]]], inc[t]) ELSE inc[t]

\* Only names of one letter come into a directory's file.
OneLetterOnly == \A d \in DOMAIN out : Names(out[d]) \subseteq OneLetter

WalksInv ==
  /\ TypeOK
  /\ Exclusive
  /\ OnTheWay
  /\ Carries
  /\ Fresh
  /\ OneLetterOnly

AggregateInv ==
  /\ WalksInv
  /\ FilesExact
  /\ WinnerRight

-----------------------------------------------------------------------------
(***************************************************************************)
(* The directory tree.                                                     *)
(***************************************************************************)
\* A set that holds what lies above d and above its own members.
Climbs(S, d) ==
  /\ d \in Dirs \ {RootDir} => Above[d] \in S
  /\ \A x \in S \ {RootDir} : Above[x] \in S

LEMMA AboveLeast ==
  ASSUME NEW d \in Dirs \cup Leaves, NEW e
  PROVE  e \in DirsAbove[d] <=> e \in Dirs /\ \A S \in SUBSET Dirs : Climbs(S, d) => e \in S
  BY DEF DirsAbove, Climbs

\* No input file is above anything, and nothing is above the root.
LEMMA AboveRange ==
  /\ \A d \in Dirs \cup Leaves : DirsAbove[d] \subseteq Dirs \ Leaves
  /\ \A d \in (Dirs \cup Leaves) \ (Dirs \ {RootDir}) : DirsAbove[d] = {}
  <1>1. ASSUME NEW d \in Dirs \cup Leaves, NEW e \in DirsAbove[d] PROVE e \in Dirs \ Leaves
    <2> DEFINE S == Dirs \ Leaves
    <2>1. S \in SUBSET Dirs /\ Climbs(S, d)
      BY AggregateAssumption DEF Climbs
    <2> HIDE DEF S
    <2>2. e \in S
      BY <1>1, <2>1, AboveLeast
    <2> QED BY <2>2 DEF S
  <1>2. ASSUME NEW d \in Dirs \cup Leaves, d \notin Dirs \ {RootDir}, NEW e \in DirsAbove[d]
        PROVE  FALSE
    <2>1. {} \in SUBSET Dirs /\ Climbs({}, d)
      BY <1>2 DEF Climbs
    <2> QED BY <1>2, <2>1, AboveLeast
  <1> QED BY <1>1, <1>2

\* What the least set contains.
LEMMA AboveInside ==
  ASSUME NEW d \in Dirs \ {RootDir}
  PROVE  /\ Above[d] \in Dirs \ Leaves
         /\ Above[d] \in DirsAbove[d]
         /\ \A e \in DirsAbove[d] \ {RootDir} : Above[e] \in DirsAbove[d]
  <1>1. Above[d] \in Dirs \ Leaves
    BY AggregateAssumption
  <1>2. Above[d] \in DirsAbove[d]
    BY <1>1, AboveLeast DEF Climbs
  <1>3. ASSUME NEW e \in DirsAbove[d] \ {RootDir} PROVE Above[e] \in DirsAbove[d]
    <2>1. e \in Dirs \ {RootDir} /\ Above[e] \in Dirs
      BY AggregateAssumption, AboveLeast
    <2>2. ASSUME NEW S \in SUBSET Dirs, Climbs(S, d) PROVE Above[e] \in S
      <3>1. e \in S
        BY <2>2, AboveLeast
      <3> QED BY <2>2, <3>1 DEF Climbs
    <2> QED BY <2>1, <2>2, AboveLeast
  <1> QED BY <1>1, <1>2, <1>3

\* A directory lies in the one above it and in those that one lies in, and in no other.
LEMMA UpOne ==
  ASSUME NEW d \in Dirs \ {RootDir}
  PROVE  DirsAbove[d] = {Above[d]} \cup DirsAbove[Above[d]]
  <1> DEFINE p == Above[d]
             S == {p} \cup DirsAbove[p]
  <1>1. p \in Dirs /\ p \in DirsAbove[d]
    BY AboveInside
  <1> HIDE DEF p
  <1>2. ASSUME NEW e \in DirsAbove[p] PROVE e \in DirsAbove[d]
    <2>1. ASSUME NEW W \in SUBSET Dirs, Climbs(W, d) PROVE e \in W
      <3>1. Climbs(W, p)
        BY <2>1 DEF Climbs, p
      <3> QED BY <1>1, <3>1, AboveLeast
    <2> QED BY <1>1, <2>1, AboveLeast
  <1>3. S \in SUBSET Dirs /\ Climbs(S, d)
    <2>1. S \in SUBSET Dirs
      BY <1>1, AboveLeast
    <2>2. ASSUME NEW x \in S \ {RootDir} PROVE Above[x] \in S
      <3>1. CASE p = RootDir
        BY <1>1, <3>1, AboveRange
      <3>2. CASE p # RootDir
        BY <1>1, <2>2, <3>2, AboveInside
      <3> QED BY <3>1, <3>2
    <2> QED BY <2>1, <2>2 DEF Climbs, p
  <1>4. DirsAbove[d] \subseteq S
    <2> HIDE DEF S
    <2> QED BY <1>3, AboveLeast
  <1> QED BY <1>1, <1>2, <1>4 DEF p

\* On its way a walk goes up in the directories that its leaf lies in.
LEMMA WayUp ==
  ASSUME NEW t \in Leaves, NEW n \in Dirs \ {RootDir}, n = t \/ n \in DirsAbove[t]
  PROVE  /\ Above[n] \in Dirs \ Leaves
         /\ Above[n] \in DirsAbove[t]
         /\ Above[n] \in DirsAbove[n]
         /\ Above[n] \notin DirsAbove[Above[n]]
         /\ DirsAbove[n] = {Above[n]} \cup DirsAbove[Above[n]]
  <1>1. t \in Dirs \ {RootDir}
    BY AboveRange, AggregateAssumption
  <1>2. Above[n] \in DirsAbove[t]
    BY <1>1, AboveInside
  <1>3. Above[n] \in Dirs /\ Above[n] \notin DirsAbove[Above[n]]
    BY AboveInside, AggregateAssumption
  <1> QED BY <1>2, <1>3, AboveInside, UpOne

-----------------------------------------------------------------------------
(***************************************************************************)
(* The counting of a leaf's lines.                                         *)
(***************************************************************************)
\* The lists that Tallied builds, one line after the other.
LEMMA TallyStages ==
  ASSUME NEW lines \in Seq(Candidates)
  PROVE  \E h : /\ h[0] = <<>>
                /\ \A k \in 1 .. Len(lines) : h[k] = CountVote(h[k - 1], lines[k])
                /\ Tallied(lines) = h[Len(lines)]
  <1> DEFINE n == Len(lines)
             D == 1 .. n
             g == [p \in D \X Lists |-> CountVote(p[2], lines[p[1]])]
             Iter(f) == [s \in SUBSET D |-> IF s = {} THEN <<>>
                                           ELSE CountVote(f[s \ {Max(s)}], lines[Max(s)])]
             chosen == CHOOSE f : f = Iter(f)
             h == [k \in 0 .. n |-> chosen[1 .. k]]
  <1>1. n \in Nat /\ DOMAIN lines = D /\ \A k \in D : lines[k] \in Candidates
    BY LenProperties, ElementOfSeq
  <1>2. ASSUME NEW list \in Lists, NEW c \in Candidates PROVE CountVote(list, c) \in Lists
    <2> DEFINE E == [name : Candidates, count : Nat]
    <2>1. list \in [1 .. Len(list) -> E] /\ Len(list) \in Nat /\ DOMAIN list = 1 .. Len(list)
      BY LenProperties DEF Lists
    <2>2. CASE c \notin OneLetter
      BY <2>2 DEF CountVote
    <2>3. CASE c \in OneLetter \cap Names(list)
      <3> DEFINE new == [k \in DOMAIN list |->
                          IF list[k].name = c THEN Entry(c, list[k].count + 1) ELSE list[k]]
      <3>1. \A k \in DOMAIN list : list[k] \in E
        BY <2>1
      <3>2. new \in [1 .. Len(list) -> E]
        BY <2>1, <3>1 DEF Entry
      <3>3. new \in Seq(E)
        BY <2>1, <3>2, SeqDef
      <3>4. CountVote(list, c) = new
        BY <2>3 DEF CountVote
      <3> QED BY <3>3, <3>4 DEF Lists
    <2>4. CASE c \in OneLetter \ Names(list)
      <3>1. CountVote(list, c) = Append(list, Entry(c, 1))
        BY <2>4 DEF CountVote
      <3>2. Entry(c, 1) \in E
        BY DEF Entry
      <3> QED BY <3>1, <3>2, AppendProperties DEF Lists
    <2> QED BY <2>2, <2>3, <2>4
  <1>3. g \in [D \X Lists -> Lists]
    <2>1. \A p \in D \X Lists : CountVote(p[2], lines[p[1]]) \in Lists
      BY <1>1, <1>2
    <2> QED BY <2>1
  <1>4. <<>> \in Lists
    BY DEF Lists
  <1>5. PICK f \in [SUBSET D -> Lists] : SeqSolves(f, n, <<>>, g)
    <2> HIDE DEF g, n
    <2> QED BY <1>1, <1>3, <1>4, SeqRecursion
  <1>6. ASSUME NEW s \in SUBSET D
        PROVE  f[s] = IF s = {} THEN <<>> ELSE CountVote(f[s \ {Max(s)}], lines[Max(s)])
    <2>1. CASE s = {}
      BY <1>5, <2>1 DEF SeqSolves
    <2>2. CASE s # {}
      <3>1. Max(s) \in D
        BY <1>1, <2>2, MaxInside
      <3>2. <<Max(s), f[s \ {Max(s)}]>> \in D \X Lists
        BY <1>5, <3>1
      <3>3. g[<<Max(s), f[s \ {Max(s)}]>>] = CountVote(f[s \ {Max(s)}], lines[Max(s)])
        BY <3>2
      <3> HIDE DEF g
      <3> QED BY <1>5, <2>2, <3>3 DEF SeqSolves
    <2> QED BY <2>1, <2>2
  <1>7. f = Iter(f)
    <2> HIDE DEF D, n, g
    <2> QED BY <1>5, <1>6
  <1>8. chosen = Iter(chosen)
    <2> HIDE DEF Iter
    <2> QED BY <1>7
  <1>9. Tallied(lines) = chosen[DOMAIN lines]
    <2>1. Tallied(lines) =
            (CHOOSE f2 : f2 = [s \in SUBSET DOMAIN lines |->
                IF s = {} THEN <<>>
                ELSE CountVote(f2[s \ {Max(s)}], lines[Max(s)])])[DOMAIN lines]
      BY DEF Tallied, FoldLeft, MapThenFoldSet
    <2> QED BY <1>1, <2>1
  <1>10. h[0] = <<>>
    <2>1. 1 .. 0 = {} /\ {} \in SUBSET D
      OBVIOUS
    <2>2. chosen[{}] = <<>>
      BY <1>8, <2>1
    <2> QED BY <1>1, <2>1, <2>2
  <1>11. ASSUME NEW k \in 1 .. n PROVE h[k] = CountVote(h[k - 1], lines[k])
    <2>1. 1 .. k \in SUBSET D /\ 1 .. k # {} /\ k - 1 \in 0 .. n /\ k \in 0 .. n
      BY <1>1
    <2>2. Max(1 .. k) = k /\ (1 .. k) \ {Max(1 .. k)} = 1 .. k - 1
      BY <1>1, MaxOfInterval
    <2>3. chosen[1 .. k] = CountVote(chosen[(1 .. k) \ {Max(1 .. k)}], lines[Max(1 .. k)])
      <3> HIDE DEF chosen
      <3> QED BY <1>8, <2>1
    <2> HIDE DEF chosen
    <2> QED BY <2>1, <2>2, <2>3
  <1>12. Tallied(lines) = h[n]
    <2> HIDE DEF chosen
    <2> QED BY <1>1, <1>9
  <1> HIDE DEF h
  <1> QED BY <1>10, <1>11, <1>12
\* A list that counts the first k lines: every entry has the votes for its name, and
\* every vote has an entry.
CountsFirst(list, lines, k) ==
  /\ list \in Lists
  /\ Names(list) \subseteq OneLetter
  /\ \A j \in DOMAIN list :
       list[j].count = Cardinality({i \in 1 .. k : lines[i] = list[j].name})
  /\ \A i \in 1 .. k : lines[i] \in OneLetter => lines[i] \in Names(list)

\* Counting one line keeps this.
LEMMA CountVoteRight ==
  ASSUME NEW lines, NEW k \in Nat \ {0}, lines[k] \in Candidates,
         NEW list, CountsFirst(list, lines, k - 1)
  PROVE  CountsFirst(CountVote(list, lines[k]), lines, k)
  <1> DEFINE c == lines[k]
             E == [name : Candidates, count : Nat]
             Upto(a, m) == {i \in 1 .. m : lines[i] = a}
             new == CountVote(list, c)
  <1>1. list \in [1 .. Len(list) -> E] /\ Len(list) \in Nat /\ DOMAIN list = 1 .. Len(list)
    BY LenProperties DEF Lists, CountsFirst
  <1>2. \A j \in DOMAIN list : /\ list[j] \in E
                               /\ list[j].name \in OneLetter
                               /\ list[j].count = Cardinality(Upto(list[j].name, k - 1))
    BY <1>1 DEF CountsFirst, Names
  <1>3. \A a : /\ Cardinality(Upto(a, k - 1)) \in Nat
               /\ Cardinality(Upto(a, k)) =
                    IF c = a THEN Cardinality(Upto(a, k - 1)) + 1
                    ELSE Cardinality(Upto(a, k - 1))
    <2> SUFFICES ASSUME NEW a
                 PROVE  /\ Cardinality(Upto(a, k - 1)) \in Nat
                        /\ Cardinality(Upto(a, k)) =
                             IF c = a THEN Cardinality(Upto(a, k - 1)) + 1
                             ELSE Cardinality(Upto(a, k - 1))
      OBVIOUS
    <2>1. Upto(a, k - 1) = Occurrences(lines, k - 1, a) /\ Upto(a, k) = Occurrences(lines, k, a)
      BY DEF Occurrences
    <2> HIDE DEF Upto
    <2> QED BY <2>1, OnceMore
  <1>4. \A i \in 1 .. k : i \in 1 .. k - 1 \/ i = k
    OBVIOUS
  <1>5. \A i \in 1 .. k - 1 : lines[i] \in OneLetter => lines[i] \in Names(list)
    BY DEF CountsFirst
  <1>6. SUFFICES /\ new \in Lists
                 /\ \A j \in DOMAIN new : /\ new[j].name \in OneLetter
                                          /\ new[j].count = Cardinality(Upto(new[j].name, k))
                 /\ Names(list) \subseteq Names(new)
                 /\ c \in OneLetter => c \in Names(new)
    BY <1>4, <1>5 DEF CountsFirst, Names
  <1>7. CASE c \notin OneLetter
    <2>1. new = list
      BY <1>7 DEF CountVote
    <2> HIDE DEF new, Upto
    <2> QED BY <1>2, <1>3, <1>7, <2>1 DEF CountsFirst
  <1>8. CASE c \in OneLetter /\ c \in Names(list)
    <2>1. new = [j \in DOMAIN list |->
                   IF list[j].name = c THEN Entry(c, list[j].count + 1) ELSE list[j]]
      BY <1>8 DEF CountVote
    <2>2. DOMAIN new = DOMAIN list
      BY <2>1
    <2>3. ASSUME NEW j \in DOMAIN list
          PROVE  /\ new[j] \in E
                 /\ new[j].name = list[j].name
                 /\ new[j].count = Cardinality(Upto(new[j].name, k))
      <3>1. new[j] = IF list[j].name = c THEN Entry(c, list[j].count + 1) ELSE list[j]
        BY <2>1
      <3> HIDE DEF new, Upto
      <3>2. new[j].name = list[j].name
        BY <3>1 DEF Entry
      <3>3. new[j].count = IF list[j].name = c THEN list[j].count + 1 ELSE list[j].count
        BY <3>1 DEF Entry
      <3>4. new[j] \in E
        BY <1>2, <3>1 DEF Entry
      <3> QED BY <1>2, <1>3, <3>2, <3>3, <3>4
    <2> HIDE DEF new, Upto
    <2>4. new \in [1 .. Len(list) -> E]
      BY <1>1, <2>1, <2>2, <2>3
    <2>5. new \in Lists
      <3> HIDE DEF E
      <3>1. new \in Seq(E)
        BY <1>1, <2>4, SeqDef
      <3> QED BY <3>1 DEF Lists, E
    <2>6. Names(new) = Names(list)
      BY <2>2, <2>3 DEF Names
    <2> QED BY <1>2, <1>8, <2>2, <2>3, <2>5, <2>6
  <1>9. CASE c \in OneLetter /\ c \notin Names(list)
    <2> DEFINE n == Len(list)
    <2>1. new = Append(list, Entry(c, 1))
      BY <1>9 DEF CountVote
    <2>2. Entry(c, 1) \in E
      BY DEF Entry
    <2>3. /\ new \in Lists
          /\ DOMAIN new = 1 .. n + 1
          /\ \A j \in 1 .. n : new[j] = list[j]
          /\ new[n + 1] = Entry(c, 1)
      <3>1. list \in Seq(E)
        BY DEF CountsFirst, Lists
      <3>2. new \in Seq(E) /\ Len(new) = n + 1
        BY <2>1, <2>2, <3>1, AppendProperties
      <3> QED BY <1>1, <2>1, <2>2, <3>1, <3>2, AppendProperties, LenProperties DEF Lists
    <2>4. Upto(c, k - 1) = {}
      <3>1. \A i \in 1 .. k - 1 : lines[i] # c
        BY <1>5, <1>9
      <3> QED BY <3>1
    <2> HIDE DEF new, Upto
    <2>5. Cardinality(Upto(c, k)) = 1
      <3>1. Cardinality(Upto(c, k - 1)) = 0
        BY <2>4, FS_EmptySet
      <3> QED BY <1>3, <3>1
    <2>6. ASSUME NEW j \in 1 .. n
          PROVE  /\ new[j].name \in OneLetter
                 /\ new[j].count = Cardinality(Upto(new[j].name, k))
      <3>1. list[j].name # c
        BY <1>1, <1>9 DEF Names
      <3> QED BY <1>1, <1>2, <1>3, <2>3, <3>1
    <2>7. new[n + 1].name = c /\ new[n + 1].count = 1
      BY <2>3 DEF Entry
    <2>8. \A j \in DOMAIN new : j \in 1 .. n \/ j = n + 1
      BY <1>1, <2>3
    <2>9. 1 .. n \subseteq DOMAIN new /\ n + 1 \in DOMAIN new
      BY <1>1, <2>3
    <2>10. Names(list) \subseteq Names(new)
      BY <1>1, <2>3, <2>9 DEF Names
    <2>11. c \in Names(new)
      BY <2>7, <2>9 DEF Names
    <2> HIDE DEF n
    <2> QED BY <1>9, <2>3, <2>5, <2>6, <2>7, <2>8, <2>10, <2>11
  <1> QED BY <1>7, <1>8, <1>9

\* A leaf's list has the votes of its file: what a walk carries for a name of one letter
\* is what its leaf gave it.
LEMMA TallyRight ==
  ASSUME NEW lines \in Seq(Candidates)
  PROVE  CountsFirst(Tallied(lines), lines, Len(lines))
  <1>1. PICK h : /\ h[0] = <<>>
                 /\ \A k \in 1 .. Len(lines) : h[k] = CountVote(h[k - 1], lines[k])
                 /\ Tallied(lines) = h[Len(lines)]
    BY TallyStages
  <1> DEFINE n == Len(lines)
             Held == {k \in 0 .. n : CountsFirst(h[k], lines, k)}
  <1>2. n \in Nat /\ \A k \in 1 .. n : lines[k] \in Candidates
    BY LenProperties, ElementOfSeq
  <1>3. 0 \in Held
    <2>1. DOMAIN <<>> = {} /\ <<>> \in Lists
      BY DEF Lists
    <2>2. CountsFirst(<<>>, lines, 0)
      BY <2>1 DEF CountsFirst, Names
    <2> QED BY <1>1, <1>2, <2>2
  <1>4. ASSUME NEW k \in 1 .. n, k - 1 \in Held PROVE k \in Held
    <2>1. CountsFirst(CountVote(h[k - 1], lines[k]), lines, k)
      BY <1>2, <1>4, CountVoteRight
    <2> QED BY <1>1, <1>2, <2>1
  <1>5. 0 .. n \subseteq Held
    <2> HIDE DEF Held, n
    <2> QED BY <1>2, <1>3, <1>4, UpTo
  <1> QED BY <1>1, <1>2, <1>5
\* What a walk carries for a name of one letter is the number of its leaf's lines with it.
LEMMA CarriedRight ==
  ASSUME NEW t \in Leaves, ballots[t] \in Seq(Candidates), NEW c \in OneLetter
  PROVE  /\ Carried(Tallied(ballots[t]), c) = Votes(t, c)
         /\ Votes(t, c) \in Nat
         /\ Votes(t, c) > 0 => c \in Names(Tallied(ballots[t]))
  <1> DEFINE lines == ballots[t]
             list == Tallied(lines)
             given == {k \in DOMAIN lines : lines[k] = c}
  <1>1. DOMAIN lines = 1 .. Len(lines) /\ Len(lines) \in Nat
    BY LenProperties
  <1>2. CountsFirst(list, lines, Len(lines))
    BY TallyRight
  <1>3. IsFiniteSet(given) /\ Cardinality(given) \in Nat
    <2>1. IsFiniteSet(1 .. Len(lines))
      BY <1>1, FS_Interval
    <2>2. given \subseteq 1 .. Len(lines)
      BY <1>1
    <2> QED BY <2>1, <2>2, FS_Subset, FS_CardinalityType
  <1> HIDE DEF list
  <1>4. CASE c \in Names(list)
    <2> DEFINE j == CHOOSE k \in DOMAIN list : list[k].name = c
    <2>1. j \in DOMAIN list /\ list[j].name = c
      BY <1>4 DEF Names
    <2>2. list[j].count = Cardinality({i \in 1 .. Len(lines) : lines[i] = c})
      BY <1>2, <2>1 DEF CountsFirst
    <2>3. Carried(list, c) = list[j].count
      BY <1>4 DEF Carried
    <2> QED BY <1>1, <1>3, <1>4, <2>2, <2>3 DEF Votes, list
  <1>5. CASE c \notin Names(list)
    <2>1. \A i \in 1 .. Len(lines) : lines[i] # c
      BY <1>2, <1>5 DEF CountsFirst
    <2>2. Cardinality(given) = 0
      <3>1. given = {}
        BY <1>1, <2>1
      <3> QED BY <3>1, FS_EmptySet
    <2>3. Carried(list, c) = 0
      BY <1>5 DEF Carried
    <2> QED BY <2>2, <2>3 DEF Votes, list
  <1> QED BY <1>4, <1>5

\* A list of lines, entry by entry.
LEMMA ListEntries ==
  ASSUME NEW list \in Lists
  PROVE  /\ Len(list) \in Nat /\ DOMAIN list = 1 .. Len(list)
         /\ \A k \in DOMAIN list : /\ list[k] \in [name : Candidates, count : Nat]
                                   /\ list[k].name \in Candidates
                                   /\ list[k].count \in Nat
  <1>1. list \in [1 .. Len(list) -> [name : Candidates, count : Nat]]
        /\ Len(list) \in Nat /\ DOMAIN list = 1 .. Len(list)
    BY LenProperties DEF Lists
  <1> QED BY <1>1

\* A file that is updated keeps its lines.
LEMMA UpdatedKeeps ==
  ASSUME NEW old \in Lists, NEW list,
         \A k \in DOMAIN old : Carried(list, old[k].name) \in Nat
  PROVE  /\ Updated(old, list) \in Lists
         /\ DOMAIN Updated(old, list) = DOMAIN old
         /\ Names(Updated(old, list)) = Names(old)
         /\ \A k \in DOMAIN old :
              /\ Updated(old, list)[k].name = old[k].name
              /\ Updated(old, list)[k].count = old[k].count + Carried(list, old[k].name)
  <1> DEFINE new == Updated(old, list)
             E == [name : Candidates, count : Nat]
  <1>1. DOMAIN new = DOMAIN old
    BY DEF Updated
  <1>2. ASSUME NEW k \in DOMAIN old
        PROVE  /\ new[k] \in E
               /\ new[k].name = old[k].name
               /\ new[k].count = old[k].count + Carried(list, old[k].name)
    <2>1. new[k] = Entry(old[k].name, old[k].count + Carried(list, old[k].name))
      BY DEF Updated
    <2>2. old[k].name \in Candidates /\ old[k].count \in Nat
      BY ListEntries
    <2> HIDE DEF new
    <2> QED BY <2>1, <2>2 DEF Entry
  <1>3. new \in Lists
    <2>1. Len(old) \in Nat /\ DOMAIN old = 1 .. Len(old)
      BY ListEntries
    <2>2. new \in [1 .. Len(old) -> E]
      <3>1. new = [k \in DOMAIN old |-> new[k]]
        BY DEF Updated
      <3> HIDE DEF new, E
      <3> QED BY <1>2, <2>1, <3>1
    <2> HIDE DEF new, E
    <2>3. new \in Seq(E)
      BY <2>1, <2>2, SeqDef
    <2> QED BY <2>3 DEF Lists, E
  <1>4. Names(new) = Names(old)
    <2> HIDE DEF new
    <2> QED BY <1>1, <1>2 DEF Names
  <1> QED BY <1>1, <1>2, <1>3, <1>4

\* The candidates that findwinner goes through.
LEMMA MostStages ==
  ASSUME NEW lines \in Lists
  PROVE  \E h : /\ h[0] = Entry(None, 0)
                /\ \A k \in 1 .. Len(lines) : h[k] = Better(h[k - 1], lines[k])
                /\ FirstMost(lines) = h[Len(lines)].name
  <1> DEFINE n == Len(lines)
             D == 1 .. n
             V == [name : Candidates \cup {None}, count : Nat]
             g == [p \in D \X V |-> Better(p[2], lines[p[1]])]
             Iter(f) == [s \in SUBSET D |-> IF s = {} THEN Entry(None, 0)
                                           ELSE Better(f[s \ {Max(s)}], lines[Max(s)])]
             chosen == CHOOSE f : f = Iter(f)
             h == [k \in 0 .. n |-> chosen[1 .. k]]
  <1>1. n \in Nat /\ DOMAIN lines = D /\ \A k \in D : lines[k] \in V
    <2>1. \A k \in D : lines[k] \in [name : Candidates, count : Nat]
      BY ListEntries
    <2> QED BY <2>1, ListEntries
  <1>2. g \in [D \X V -> V]
    <2>1. \A p \in D \X V : Better(p[2], lines[p[1]]) \in V
      <3> HIDE DEF V, n
      <3> QED BY <1>1 DEF Better
    <2> HIDE DEF V, n
    <2> QED BY <2>1
  <1>3. Entry(None, 0) \in V
    BY DEF Entry
  <1>4. PICK f \in [SUBSET D -> V] : SeqSolves(f, n, Entry(None, 0), g)
    <2> HIDE DEF g, n, V
    <2> QED BY <1>1, <1>2, <1>3, SeqRecursion
  <1>5. ASSUME NEW s \in SUBSET D
        PROVE  f[s] = IF s = {} THEN Entry(None, 0)
                      ELSE Better(f[s \ {Max(s)}], lines[Max(s)])
    <2> HIDE DEF V
    <2>1. CASE s = {}
      BY <1>4, <2>1 DEF SeqSolves
    <2>2. CASE s # {}
      <3>1. Max(s) \in D
        BY <1>1, <2>2, MaxInside
      <3>2. <<Max(s), f[s \ {Max(s)}]>> \in D \X V
        BY <1>4, <3>1
      <3>3. g[<<Max(s), f[s \ {Max(s)}]>>] = Better(f[s \ {Max(s)}], lines[Max(s)])
        BY <3>2
      <3> HIDE DEF g
      <3> QED BY <1>4, <2>2, <3>3 DEF SeqSolves
    <2> QED BY <2>1, <2>2
  <1>6. f = Iter(f)
    <2> HIDE DEF D, n, g, V
    <2> QED BY <1>4, <1>5
  <1>7. chosen = Iter(chosen)
    <2> HIDE DEF Iter
    <2> QED BY <1>6
  <1>8. FirstMost(lines) = chosen[D].name
    <2>1. FirstMost(lines) =
            (CHOOSE f2 : f2 = [s \in SUBSET DOMAIN lines |->
                IF s = {} THEN Entry(None, 0)
                ELSE Better(f2[s \ {Max(s)}], lines[Max(s)])])[DOMAIN lines].name
      BY DEF FirstMost, FoldLeft, MapThenFoldSet
    <2> QED BY <1>1, <2>1
  <1>9. h[0] = Entry(None, 0)
    <2>1. 1 .. 0 = {} /\ {} \in SUBSET D
      OBVIOUS
    <2>2. chosen[{}] = Entry(None, 0)
      BY <1>7, <2>1
    <2> QED BY <1>1, <2>1, <2>2
  <1>10. ASSUME NEW k \in 1 .. n PROVE h[k] = Better(h[k - 1], lines[k])
    <2>1. 1 .. k \in SUBSET D /\ 1 .. k # {} /\ k - 1 \in 0 .. n /\ k \in 0 .. n
      BY <1>1
    <2>2. Max(1 .. k) = k /\ (1 .. k) \ {Max(1 .. k)} = 1 .. k - 1
      BY <1>1, MaxOfInterval
    <2>3. chosen[1 .. k] = Better(chosen[(1 .. k) \ {Max(1 .. k)}], lines[Max(1 .. k)])
      <3> HIDE DEF chosen
      <3> QED BY <1>7, <2>1
    <2> HIDE DEF chosen
    <2> QED BY <2>1, <2>2, <2>3
  <1>11. FirstMost(lines) = h[n].name
    <2> HIDE DEF chosen
    <2> QED BY <1>1, <1>8
  <1> HIDE DEF h
  <1> QED BY <1>9, <1>10, <1>11

\* The name declared is of a line that no line exceeds; it is nobody's if all have none.
LEMMA MostRight ==
  ASSUME NEW lines \in Lists
  PROVE  \/ /\ FirstMost(lines) = None
            /\ \A k \in DOMAIN lines : lines[k].count = 0
         \/ \E m \in DOMAIN lines :
              /\ FirstMost(lines) = lines[m].name
              /\ \A k \in DOMAIN lines : lines[k].count <= lines[m].count
  <1>1. PICK h : /\ h[0] = Entry(None, 0)
                 /\ \A k \in 1 .. Len(lines) : h[k] = Better(h[k - 1], lines[k])
                 /\ FirstMost(lines) = h[Len(lines)].name
    BY MostStages
  <1> DEFINE n == Len(lines)
             Best(b, k) == /\ b = Entry(None, 0) \/ \E m \in 1 .. k : b = lines[m]
                           /\ \A m \in 1 .. k : lines[m].count <= b.count
             Held == {k \in 0 .. n : Best(h[k], k)}
  <1>2. n \in Nat /\ DOMAIN lines = 1 .. n /\ \A k \in 1 .. n : lines[k].count \in Nat
    BY ListEntries
  <1>3. 0 \in Held
    BY <1>1, <1>2
  <1>4. ASSUME NEW k \in 1 .. n, k - 1 \in Held PROVE k \in Held
    <2>1. Best(h[k - 1], k - 1) /\ h[k] = Better(h[k - 1], lines[k])
      BY <1>1, <1>4
    <2>2. h[k - 1].count \in Nat
      BY <1>2, <2>1 DEF Entry
    <2>3. \A m \in 1 .. k : m \in 1 .. k - 1 \/ m = k
      OBVIOUS
    <2>4. 1 .. k - 1 \subseteq 1 .. k /\ k \in 1 .. k /\ k \in 0 .. n /\ 1 .. k \subseteq 1 .. n
      BY <1>2
    <2>5. CASE lines[k].count > h[k - 1].count
      <3>1. h[k] = lines[k]
        BY <2>1, <2>5 DEF Better
      <3>2. \A m \in 1 .. k : lines[m].count <= lines[k].count
        BY <1>2, <2>1, <2>2, <2>3, <2>4, <2>5
      <3> QED BY <2>4, <3>1, <3>2
    <2>6. CASE ~ (lines[k].count > h[k - 1].count)
      <3>1. h[k] = h[k - 1]
        BY <2>1, <2>6 DEF Better
      <3>2. \A m \in 1 .. k : lines[m].count <= h[k].count
        BY <1>2, <2>1, <2>2, <2>3, <2>4, <2>6, <3>1
      <3> QED BY <2>1, <2>4, <3>1, <3>2
    <2> QED BY <2>5, <2>6
  <1>5. 0 .. n \subseteq Held
    <2> HIDE DEF Held, n
    <2> QED BY <1>2, <1>3, <1>4, UpTo
  <1>6. Best(h[n], n)
    BY <1>2, <1>5
  <1>7. CASE h[n] = Entry(None, 0)
    <2>1. h[n].name = None /\ h[n].count = 0
      BY <1>7 DEF Entry
    <2>2. \A k \in 1 .. n : lines[k].count <= 0
      BY <1>6, <2>1
    <2> QED BY <1>1, <1>2, <2>1, <2>2
  <1>8. CASE \E m \in 1 .. n : h[n] = lines[m]
    BY <1>1, <1>2, <1>6, <1>8
  <1> QED BY <1>6, <1>7, <1>8
-----------------------------------------------------------------------------
(***************************************************************************)
(* FilesExact and WinnerRight as facts about the values of the variables,  *)
(* so that a step that leaves these values alone leaves the facts alone.   *)
(***************************************************************************)
VotesIn(b, t, c) == Cardinality({k \in DOMAIN b[t] : b[t][k] = c})

Total(b, T, c) == SumFunctionOnSet([t \in Leaves |-> VotesIn(b, t, c)], T)

Exact(b, T, file) ==
  /\ \A k \in DOMAIN file : file[k].count = Total(b, T, file[k].name)
  /\ \A c \in OneLetter : (\A t \in T : VotesIn(b, t, c) > 0) => c \in Names(file)

Best(b, w) ==
  w # Undeclared
  /\ (\A t, u \in Counted, c \in OneLetter : VotesIn(b, t, c) > 0 => VotesIn(b, u, c) > 0)
    => \A c \in OneLetter :
         Total(b, Counted, c) <= (IF w = None THEN 0 ELSE Total(b, Counted, w))

LEMMA FactsOfValues ==
  /\ FilesExact <=>
       /\ DOMAIN out = {d \in Dirs : Passed(d) # {}}
       /\ \A d \in DOMAIN out : Exact(ballots, Passed(d), out[d])
  /\ FilesExact' <=>
       /\ DOMAIN out' = {d \in Dirs : Passed(d)' # {}}
       /\ \A d \in DOMAIN out' : Exact(ballots', Passed(d)', out'[d])
  /\ WinnerRight <=> Best(ballots, winner)
  /\ WinnerRight' <=> Best(ballots', winner')
  <1>1. FilesExact <=>
          /\ DOMAIN out = {d \in Dirs : Passed(d) # {}}
          /\ \A d \in DOMAIN out : Exact(ballots, Passed(d), out[d])
    BY DEF FilesExact, Exact, SumOfVotes, VotesFor, Votes, Total, VotesIn
  <1>2. FilesExact' <=>
          /\ DOMAIN out' = {d \in Dirs : Passed(d)' # {}}
          /\ \A d \in DOMAIN out' : Exact(ballots', Passed(d)', out'[d])
    BY DEF FilesExact, Exact, SumOfVotes, VotesFor, Votes, Total, VotesIn
  <1>3. WinnerRight <=> Best(ballots, winner)
    BY DEF WinnerRight, SameNames, Best, SumOfVotes, VotesFor, Votes, Total, VotesIn
  <1>4. WinnerRight' <=> Best(ballots', winner')
    BY DEF WinnerRight, SameNames, Best, SumOfVotes, VotesFor, Votes, Total, VotesIn
  <1> QED BY <1>1, <1>2, <1>3, <1>4

\* Who passed a directory follows from where the walks are.
LEMMA PassedKept ==
  ASSUME node' = node, \A t \in Leaves : pc'[t] = "unlock" <=> pc[t] = "unlock"
  PROVE  \A d : Passed(d)' = Passed(d)
  BY DEF Passed

\* A step that changes neither the files nor who passed a directory.
LEMMA FilesBystander ==
  ASSUME FilesExact, out' = out, ballots' = ballots, \A d \in Dirs : Passed(d)' = Passed(d)
  PROVE  FilesExact'
  <1>1. /\ DOMAIN out = {d \in Dirs : Passed(d) # {}}
        /\ \A d \in DOMAIN out : Exact(ballots, Passed(d), out[d])
    BY FactsOfValues
  <1>2. DOMAIN out' = {d \in Dirs : Passed(d)' # {}}
    BY <1>1
  <1>3. \A d \in DOMAIN out' : Exact(ballots', Passed(d)', out'[d])
    <2>1. \A d \in DOMAIN out : d \in Dirs
      BY <1>1
    <2> QED BY <1>1, <2>1
  <1> QED BY <1>2, <1>3, FactsOfValues

LEMMA WinnerBystander ==
  ASSUME WinnerRight, winner' = winner, ballots' = ballots
  PROVE  WinnerRight'
  BY FactsOfValues

\* One more leaf in a sum.
LEMMA TotalStep ==
  ASSUME TypeOK, NEW T \in SUBSET Leaves, NEW c \in OneLetter
  PROVE  /\ Total(ballots, T, c) \in Nat
         /\ T = {} => Total(ballots, T, c) = 0
         /\ \A t \in Leaves \ T :
              Total(ballots, T \cup {t}, c) = Total(ballots, T, c) + VotesIn(ballots, t, c)
         /\ \A t \in Leaves : VotesIn(ballots, t, c) \in Nat
         /\ (\A t \in T : VotesIn(ballots, t, c) = 0) => Total(ballots, T, c) = 0
  <1> DEFINE f == [t \in Leaves |-> VotesIn(ballots, t, c)]
  <1>1. IsFiniteSet(Leaves)
    BY AggregateAssumption
  <1>2. \A t \in Leaves : VotesIn(ballots, t, c) \in Nat
    <2> SUFFICES ASSUME NEW t \in Leaves PROVE VotesIn(ballots, t, c) \in Nat
      OBVIOUS
    <2>1. ballots[t] \in Seq(Candidates)
      BY AggregateAssumption DEF TypeOK
    <2>2. Votes(t, c) \in Nat
      BY <2>1, CarriedRight
    <2> QED BY <2>2 DEF Votes, VotesIn
  <1>3. f \in [Leaves -> Nat] /\ f \in [Leaves -> Int]
    BY <1>2
  <1>4. \A W : Total(ballots, W, c) = SumFunctionOnSet(f, W)
    BY DEF Total
  <1>5. \A t \in Leaves : f[t] = VotesIn(ballots, t, c)
    OBVIOUS
  <1> HIDE DEF f
  <1>6. SumFunctionOnSet(f, T) \in Nat
    BY <1>1, <1>3, SumNat
  <1>7. T = {} => SumFunctionOnSet(f, T) = 0
    BY <1>1, <1>3, SumEmpty
  <1>8. ASSUME NEW t \in Leaves \ T
        PROVE  SumFunctionOnSet(f, T \cup {t}) = SumFunctionOnSet(f, T) + f[t]
    <2>1. T \cup {t} \in SUBSET Leaves /\ t \in T \cup {t} /\ (T \cup {t}) \ {t} = T
      OBVIOUS
    <2>2. SumFunctionOnSet(f, T \cup {t}) = f[t] + SumFunctionOnSet(f, (T \cup {t}) \ {t})
      BY <1>1, <1>3, <2>1, SumAny
    <2>3. SumFunctionOnSet(f, T \cup {t}) = f[t] + SumFunctionOnSet(f, T)
      BY <2>1, <2>2
    <2>4. f[t] \in Nat
      BY <1>3
    <2> QED BY <1>6, <2>3, <2>4
  <1>9. (\A t \in T : f[t] = 0) => SumFunctionOnSet(f, T) = 0
    BY <1>1, <1>3, SumZero
  <1> QED BY <1>2, <1>4, <1>5, <1>6, <1>7, <1>8, <1>9
-----------------------------------------------------------------------------
(***************************************************************************)
(* The steps.                                                              *)
(***************************************************************************)
Walking == {"read", "write", "unlock"}

\* While a walk is at a directory no other one is at any.
LEMMA Alone ==
  ASSUME WalksInv, NEW t \in Leaves, pc[t] \in Walking
  PROVE  \A u \in Leaves \ {t} : pc[u] \notin Walking
  BY DEF WalksInv, Exclusive, Walking

LEMMA AggregateStart == ASSUME Init PROVE AggregateInv
  <1> USE DEF Init
  <1>1. TypeOK
    <2>1. <<>> \in Lists
      BY DEF Lists
    <2> QED BY <2>1 DEF TypeOK
  <1>2. Exclusive
    BY AggregateAssumption DEF Exclusive
  <1>3. OnTheWay
    BY AggregateAssumption DEF OnTheWay
  <1>4. Carries /\ Fresh /\ OneLetterOnly
    BY DEF Carries, Fresh, OneLetterOnly
  <1>5. FilesExact
    <2>1. \A d \in Dirs : Passed(d) = {}
      BY DEF Passed
    <2> QED BY <2>1 DEF FilesExact
  <1>6. WinnerRight
    BY DEF WinnerRight
  <1> QED BY <1>1, <1>2, <1>3, <1>4, <1>5, <1>6 DEF AggregateInv, WalksInv

LEMMA LockKeeps ==
  ASSUME AggregateInv, NEW t \in Leaves, Lock(t)
  PROVE  AggregateInv'
  <1> USE DEF AggregateInv, WalksInv
  <1>1. ballots[t] \in Seq(Candidates)
    BY AggregateAssumption DEF TypeOK
  <1>2. Tallied(ballots[t]) \in Lists
    BY <1>1, TallyRight DEF CountsFirst
  <1>3. /\ pc[t] = "lock" /\ node[t] \in Dirs \ {RootDir}
        /\ rwMutex = Nobody /\ rwMutex' = t
        /\ inc' = [inc EXCEPT ![t] = IF node[t] = t THEN Tallied(ballots[t]) ELSE @]
        /\ pc' = [pc EXCEPT ![t] = "read"]
        /\ UNCHANGED <<ballots, out, node, root_out, winner>>
    BY DEF Lock
  <1>4. /\ \A u \in Leaves : pc'[u] = IF u = t THEN "read" ELSE pc[u]
        /\ \A u \in Leaves \ {t} : inc'[u] = inc[u]
        /\ inc'[t] = IF node[t] = t THEN Tallied(ballots[t]) ELSE inc[t]
    BY <1>3 DEF TypeOK
  <1>5. TypeOK'
    <2>1. \A u \in Leaves : inc'[u] \in Lists
      BY <1>2, <1>4 DEF TypeOK
    <2>2. /\ pc' \in [Leaves -> {"lock", "read", "write", "unlock", "exited"}]
          /\ rwMutex' \in Leaves \cup {Nobody}
      BY <1>3 DEF TypeOK
    <2> QED BY <1>3, <2>1, <2>2 DEF TypeOK
  <1>6. Exclusive'
    BY <1>3, <1>4, AggregateAssumption DEF Exclusive
  <1>7. OnTheWay'
    BY <1>3, <1>4 DEF OnTheWay
  <1>8. Carries'
    BY <1>3, <1>4 DEF Carries
  <1>9. Fresh' /\ OneLetterOnly'
    <2>1. \A u \in Leaves : pc'[u] = "write" => pc[u] = "write" /\ inc'[u] = inc[u]
      BY <1>3, <1>4
    <2> QED BY <1>3, <2>1 DEF Fresh, OneLetterOnly
  <1>10. FilesExact'
    BY <1>3, <1>4, PassedKept, FilesBystander
  <1>11. WinnerRight'
    BY <1>3, WinnerBystander
  <1> QED BY <1>5, <1>6, <1>7, <1>8, <1>9, <1>10, <1>11

LEMMA IgnoreFileKeeps ==
  ASSUME AggregateInv, NEW t \in Leaves, IgnoreFile(t)
  PROVE  AggregateInv'
  <1> USE DEF AggregateInv, WalksInv
  <1>1. /\ pc[t] = "lock" /\ node[t] \notin Dirs
        /\ pc' = [pc EXCEPT ![t] = "exited"]
        /\ UNCHANGED <<ballots, out, rwMutex, node, inc, root_out, winner>>
    BY DEF IgnoreFile
  <1>2. \A u \in Leaves : pc'[u] = IF u = t THEN "exited" ELSE pc[u]
    BY <1>1 DEF TypeOK
  <1>3. TypeOK'
    BY <1>1 DEF TypeOK
  <1>4. Exclusive'
    BY <1>1, <1>2 DEF Exclusive
  <1>5. t \notin Dirs /\ node[t] = t
    BY <1>1, AboveRange DEF OnTheWay
  <1>6. OnTheWay'
    BY <1>1, <1>2, <1>5 DEF OnTheWay
  <1>7. Carries' /\ Fresh' /\ OneLetterOnly'
    BY <1>1, <1>2 DEF Carries, Fresh, OneLetterOnly
  <1>8. FilesExact'
    BY <1>1, <1>2, PassedKept, FilesBystander
  <1>9. WinnerRight'
    BY <1>1, WinnerBystander
  <1> QED BY <1>3, <1>4, <1>6, <1>7, <1>8, <1>9

\* The parent's file as the walk found it, and with what it carries.
LEMMA ToWrite ==
  ASSUME WalksInv, NEW t \in Leaves, pc[t] \in Walking
  PROVE  LET p == Above[node[t]]
             new == IF p \in DOMAIN out THEN Updated(out[p], inc[t]) ELSE inc[t] IN
         /\ inc[t] = Tallied(ballots[t])
         /\ inc[t] \in Lists /\ Names(inc[t]) \subseteq OneLetter
         /\ \A k \in DOMAIN inc[t] : inc[t][k].count = Votes(t, inc[t][k].name)
         /\ \A c \in OneLetter : /\ Carried(inc[t], c) = Votes(t, c)
                                 /\ Votes(t, c) \in Nat
                                 /\ Votes(t, c) > 0 => c \in Names(inc[t])
         /\ new \in Lists /\ Names(new) \subseteq OneLetter
         /\ p \in DOMAIN out =>
              /\ DOMAIN new = DOMAIN out[p]
              /\ Names(new) = Names(out[p])
              /\ \A k \in DOMAIN out[p] :
                   /\ new[k].name = out[p][k].name
                   /\ new[k].count = out[p][k].count + Votes(t, out[p][k].name)
  <1> DEFINE p == Above[node[t]]
             list == inc[t]
  <1>1. list = Tallied(ballots[t])
    BY DEF WalksInv, Carries, Walking
  <1>2. ballots[t] \in Seq(Candidates)
    BY AggregateAssumption DEF WalksInv, TypeOK
  <1>3. CountsFirst(list, ballots[t], Len(ballots[t]))
    BY <1>1, <1>2, TallyRight
  <1>4. \A c \in OneLetter : /\ Carried(list, c) = Votes(t, c)
                             /\ Votes(t, c) \in Nat
                             /\ Votes(t, c) > 0 => c \in Names(list)
    BY <1>1, <1>2, CarriedRight
  <1>5. ASSUME NEW k \in DOMAIN list PROVE list[k].count = Votes(t, list[k].name)
    <2>1. DOMAIN ballots[t] = 1 .. Len(ballots[t])
      BY <1>2, LenProperties
    <2> QED BY <1>3, <2>1 DEF CountsFirst, Votes
  <1>6. CASE p \notin DOMAIN out
    BY <1>1, <1>3, <1>4, <1>5, <1>6 DEF CountsFirst
  <1>7. CASE p \in DOMAIN out
    <2>1. out[p] \in Lists /\ Names(out[p]) \subseteq OneLetter
      BY <1>7 DEF WalksInv, TypeOK, OneLetterOnly
    <2>2. \A k \in DOMAIN out[p] : out[p][k].name \in OneLetter
      BY <2>1 DEF Names
    <2>3. /\ Updated(out[p], list) \in Lists
          /\ DOMAIN Updated(out[p], list) = DOMAIN out[p]
          /\ Names(Updated(out[p], list)) = Names(out[p])
          /\ \A k \in DOMAIN out[p] :
               /\ Updated(out[p], list)[k].name = out[p][k].name
               /\ Updated(out[p], list)[k].count
                    = out[p][k].count + Carried(list, out[p][k].name)
      <3>1. \A k \in DOMAIN out[p] : Carried(list, out[p][k].name) \in Nat
        BY <1>4, <2>2
      <3> HIDE DEF list, p
      <3> QED BY <2>1, <3>1, UpdatedKeeps
    <2> HIDE DEF list, p
    <2>4. /\ list = Tallied(ballots[t]) /\ list \in Lists /\ Names(list) \subseteq OneLetter
      BY <1>1, <1>3 DEF CountsFirst
    <2>5. \A k \in DOMAIN out[p] :
            Updated(out[p], list)[k].count = out[p][k].count + Votes(t, out[p][k].name)
      BY <1>4, <2>2, <2>3
    <2> QED BY <1>4, <1>5, <1>7, <2>1, <2>3, <2>4, <2>5 DEF list, p
  <1> QED BY <1>6, <1>7
LEMMA ReadParentKeeps ==
  ASSUME AggregateInv, NEW t \in Leaves, ReadParent(t)
  PROVE  AggregateInv'
  <1> USE DEF AggregateInv, WalksInv
  <1> DEFINE p == Above[node[t]]
             new == IF p \in DOMAIN out THEN Updated(out[p], inc[t]) ELSE inc[t]
  <1>1. /\ pc[t] = "read"
        /\ root_out' = [root_out EXCEPT ![t] = new]
        /\ pc' = [pc EXCEPT ![t] = "write"]
        /\ UNCHANGED <<ballots, out, rwMutex, node, inc, winner>>
    BY DEF ReadParent
  <1>2. new \in Lists
    BY <1>1, ToWrite DEF Walking
  <1>3. /\ \A u \in Leaves : pc'[u] = IF u = t THEN "write" ELSE pc[u]
        /\ \A u \in Leaves : root_out'[u] = IF u = t THEN new ELSE root_out[u]
    <2> HIDE DEF new
    <2> QED BY <1>1 DEF TypeOK
  <1>4. TypeOK'
    <2> HIDE DEF new
    <2> QED BY <1>1, <1>2 DEF TypeOK
  <1>5. Exclusive'
    BY <1>1, <1>3 DEF Exclusive
  <1>6. OnTheWay'
    BY <1>1, <1>3 DEF OnTheWay
  <1>7. Carries' /\ OneLetterOnly'
    BY <1>1, <1>3 DEF Carries, OneLetterOnly
  <1>8. Fresh'
    BY <1>1, <1>3 DEF Fresh
  <1>9. FilesExact'
    BY <1>1, <1>3, PassedKept, FilesBystander
  <1>10. WinnerRight'
    BY <1>1, WinnerBystander
  <1> QED BY <1>4, <1>5, <1>6, <1>7, <1>8, <1>9, <1>10

\* What a write leaves in the files.
LEMMA WriteEffect ==
  ASSUME WalksInv, NEW t \in Leaves, WriteParent(t), NEW p, p = Above[node[t]]
  PROVE  /\ p \in Dirs
         /\ DOMAIN out' = DOMAIN out \cup {p}
         /\ out'[p] = IF p \in DOMAIN out THEN Updated(out[p], inc[t]) ELSE inc[t]
         /\ \A d \in DOMAIN out \ {p} : out'[d] = out[d]
  <1>1. /\ pc[t] = "write"
        /\ out' = [d \in DOMAIN out \cup {p} |-> IF d = p THEN root_out[t] ELSE out[d]]
    BY DEF WriteParent
  <1>2. p \in Dirs
    BY <1>1, AboveInside DEF WalksInv, OnTheWay
  <1>3. root_out[t] = IF p \in DOMAIN out THEN Updated(out[p], inc[t]) ELSE inc[t]
    BY <1>1 DEF WalksInv, Fresh
  <1>4. /\ DOMAIN out' = DOMAIN out \cup {p}
        /\ out'[p] = root_out[t]
        /\ \A d \in DOMAIN out \ {p} : out'[d] = out[d]
    BY <1>1
  <1> QED BY <1>2, <1>3, <1>4

\* The leaf passes the directory it writes to, for the first time.
LEMMA WritePasses ==
  ASSUME WalksInv, NEW t \in Leaves, WriteParent(t), NEW p, p = Above[node[t]]
  PROVE  /\ t \notin Passed(p)
         /\ Passed(p)' = Passed(p) \cup {t}
         /\ \A d \in Dirs \ {p} : Passed(d)' = Passed(d)
  <1>1. /\ pc[t] = "write" /\ node' = node
        /\ \A u \in Leaves : pc'[u] = IF u = t THEN "unlock" ELSE pc[u]
    BY DEF WriteParent, WalksInv, TypeOK
  <1>2. p \in DirsAbove[t] /\ p \in DirsAbove[node[t]]
    <2>1. node[t] \in Dirs \ {RootDir} /\ (node[t] = t \/ node[t] \in DirsAbove[t])
      BY <1>1 DEF WalksInv, OnTheWay
    <2> QED BY <2>1, WayUp
  <1>3. t \notin Passed(p)
    BY <1>1, <1>2 DEF Passed
  <1>4. Passed(p)' = Passed(p) \cup {t}
    BY <1>1, <1>2 DEF Passed
  <1>5. ASSUME NEW d \in Dirs \ {p} PROVE Passed(d)' = Passed(d)
    BY <1>1, <1>5 DEF Passed
  <1> QED BY <1>3, <1>4, <1>5

LEMMA WriteParentKeepsFiles ==
  ASSUME AggregateInv, NEW t \in Leaves, WriteParent(t)
  PROVE  FilesExact'
  <1> PICK p : p = Above[node[t]]
    OBVIOUS
  <1> DEFINE T == Passed(p)
             b == ballots
  <1>1. WalksInv /\ TypeOK /\ ballots' = ballots /\ pc[t] \in Walking
    BY DEF AggregateInv, WalksInv, WriteParent, Walking
  <1>2. /\ DOMAIN out = {d \in Dirs : Passed(d) # {}}
        /\ \A d \in DOMAIN out : Exact(b, Passed(d), out[d])
    BY FactsOfValues DEF AggregateInv
  <1>3. /\ p \in Dirs
        /\ DOMAIN out' = DOMAIN out \cup {p}
        /\ out'[p] = IF p \in DOMAIN out THEN Updated(out[p], inc[t]) ELSE inc[t]
        /\ \A d \in DOMAIN out \ {p} : out'[d] = out[d]
    BY <1>1, WriteEffect
  <1>4. /\ t \notin T
        /\ Passed(p)' = T \cup {t}
        /\ \A d \in Dirs \ {p} : Passed(d)' = Passed(d)
    BY <1>1, WritePasses
  <1>5. DOMAIN out' = {d \in Dirs : Passed(d)' # {}}
    <2>1. \A d \in Dirs : d \in DOMAIN out' <=> Passed(d)' # {}
      BY <1>2, <1>3, <1>4
    <2>2. DOMAIN out' \subseteq Dirs
      BY <1>2, <1>3
    <2> QED BY <2>1, <2>2
  <1>6. \A d \in DOMAIN out' \ {p} : Exact(ballots', Passed(d)', out'[d])
    BY <1>1, <1>2, <1>3, <1>4
  <1>7. T \in SUBSET Leaves
    BY DEF Passed
  <1>8. \A a \in OneLetter : /\ Total(b, T, a) \in Nat
                             /\ T = {} => Total(b, T, a) = 0
                             /\ Total(b, T \cup {t}, a) = Total(b, T, a) + VotesIn(b, t, a)
                             /\ VotesIn(b, t, a) \in Nat
    BY <1>1, <1>4, <1>7, TotalStep
  <1>9. /\ Names(inc[t]) \subseteq OneLetter
        /\ \A k \in DOMAIN inc[t] : inc[t][k].count = VotesIn(b, t, inc[t][k].name)
        /\ \A a \in OneLetter : VotesIn(b, t, a) > 0 => a \in Names(inc[t])
        /\ p \in DOMAIN out =>
             /\ DOMAIN out'[p] = DOMAIN out[p]
             /\ Names(out'[p]) = Names(out[p]) /\ Names(out'[p]) \subseteq OneLetter
             /\ \A k \in DOMAIN out[p] :
                  /\ out'[p][k].name = out[p][k].name
                  /\ out'[p][k].count = out[p][k].count + VotesIn(b, t, out[p][k].name)
    BY <1>1, <1>3, ToWrite DEF Votes, VotesIn
  <1> HIDE DEF T, b
  <1>10. ASSUME p \notin DOMAIN out PROVE Exact(ballots', Passed(p)', out'[p])
    <2>1. T = {}
      BY <1>2, <1>3, <1>10 DEF T
    <2>2. out'[p] = inc[t]
      BY <1>3, <1>10
    <2>3. \A k \in DOMAIN inc[t] : inc[t][k].name \in OneLetter
      BY <1>9 DEF Names
    <2>4. \A k \in DOMAIN inc[t] : inc[t][k].count = Total(b, T \cup {t}, inc[t][k].name)
      <3>1. \A a \in OneLetter : Total(b, T \cup {t}, a) = VotesIn(b, t, a)
        BY <1>8, <2>1
      <3> QED BY <1>9, <2>3, <3>1
    <2>5. Exact(b, T \cup {t}, inc[t])
      BY <1>9, <2>4 DEF Exact
    <2>6. Exact(ballots', Passed(p)', out'[p])
      BY <1>1, <1>4, <2>2, <2>5 DEF b
    <2> QED BY <2>6
  <1>11. ASSUME p \in DOMAIN out PROVE Exact(ballots', Passed(p)', out'[p])
    <2>1. Exact(b, T, out[p]) /\ T # {}
      BY <1>2, <1>11 DEF T
    <2>2. \A k \in DOMAIN out[p] : out[p][k].name \in OneLetter
      BY <1>9, <1>11 DEF Names
    <2>3. \A k \in DOMAIN out[p] : out[p][k].count = Total(b, T, out[p][k].name)
      BY <2>1 DEF Exact
    <2>4. \A k \in DOMAIN out'[p] : out'[p][k].count = Total(b, T \cup {t}, out'[p][k].name)
      <3> SUFFICES ASSUME NEW k \in DOMAIN out[p]
                   PROVE  out'[p][k].count = Total(b, T \cup {t}, out'[p][k].name)
        BY <1>9, <1>11
      <3>1. PICK a \in OneLetter : a = out[p][k].name
        BY <2>2
      <3>2. out'[p][k].name = a /\ out'[p][k].count = out[p][k].count + VotesIn(b, t, a)
        BY <1>9, <1>11, <3>1
      <3>3. out[p][k].count = Total(b, T, a)
        BY <2>3, <3>1
      <3> QED BY <1>8, <3>2, <3>3
    <2>5. \A a \in OneLetter :
            (\A u \in T \cup {t} : VotesIn(b, u, a) > 0) => a \in Names(out'[p])
      BY <1>9, <1>11, <2>1 DEF Exact
    <2>6. Exact(b, T \cup {t}, out'[p])
      BY <2>4, <2>5 DEF Exact
    <2>7. Exact(ballots', Passed(p)', out'[p])
      BY <1>1, <1>4, <2>6 DEF b
    <2> QED BY <2>7
  <1>12. \A d \in DOMAIN out' : Exact(ballots', Passed(d)', out'[d])
    <2>1. Exact(ballots', Passed(p)', out'[p])
      BY <1>10, <1>11
    <2> QED BY <1>6, <2>1
  <1> QED BY <1>5, <1>12, FactsOfValues

LEMMA WriteParentKeeps ==
  ASSUME AggregateInv, NEW t \in Leaves, WriteParent(t)
  PROVE  AggregateInv'
  <1> USE DEF AggregateInv, WalksInv
  <1> PICK p : p = Above[node[t]]
    OBVIOUS
  <1>1. /\ pc[t] = "write"
        /\ pc' = [pc EXCEPT ![t] = "unlock"]
        /\ UNCHANGED <<ballots, rwMutex, node, inc, root_out, winner>>
    BY DEF WriteParent
  <1>2. \A u \in Leaves : pc'[u] = IF u = t THEN "unlock" ELSE pc[u]
    BY <1>1 DEF TypeOK
  <1>3. /\ p \in Dirs
        /\ DOMAIN out' = DOMAIN out \cup {p}
        /\ out'[p] = IF p \in DOMAIN out THEN Updated(out[p], inc[t]) ELSE inc[t]
        /\ \A d \in DOMAIN out \ {p} : out'[d] = out[d]
    BY WriteEffect
  <1>4. out'[p] \in Lists /\ Names(out'[p]) \subseteq OneLetter
    BY <1>1, <1>3, ToWrite DEF Walking
  <1>5. TypeOK'
    <2>1. out' \in [DOMAIN out' -> Lists]
      <3>1. \A d \in DOMAIN out' : out'[d] \in Lists
        BY <1>3, <1>4 DEF TypeOK
      <3>2. out' = [d \in DOMAIN out' |-> out'[d]]
        BY DEF WriteParent
      <3> QED BY <3>1, <3>2
    <2>2. DOMAIN out' \subseteq Dirs
      BY <1>3 DEF TypeOK
    <2> QED BY <1>1, <2>1, <2>2 DEF TypeOK
  <1>6. Exclusive' /\ OnTheWay' /\ Carries'
    BY <1>1, <1>2 DEF Exclusive, OnTheWay, Carries
  <1>7. Fresh'
    <2>1. \A u \in Leaves : pc'[u] # "write"
      BY <1>1, <1>2, Alone DEF Walking
    <2> QED BY <2>1 DEF Fresh
  <1>8. OneLetterOnly'
    BY <1>3, <1>4 DEF OneLetterOnly
  <1>9. FilesExact'
    BY WriteParentKeepsFiles
  <1>10. WinnerRight'
    BY <1>1, WinnerBystander
  <1> QED BY <1>5, <1>6, <1>7, <1>8, <1>9, <1>10

LEMMA UnlockKeeps ==
  ASSUME AggregateInv, NEW t \in Leaves, Unlock(t)
  PROVE  AggregateInv'
  <1> USE DEF AggregateInv, WalksInv
  <1> DEFINE p == Above[node[t]]
             next == IF p = RootDir THEN "exited" ELSE "lock"
  <1>1. /\ pc[t] = "unlock" /\ rwMutex' = Nobody
        /\ node' = [node EXCEPT ![t] = p]
        /\ pc' = [pc EXCEPT ![t] = next]
        /\ UNCHANGED <<ballots, out, inc, root_out, winner>>
    BY DEF Unlock
  <1>2. /\ node[t] \in Dirs \ {RootDir} /\ (node[t] = t \/ node[t] \in DirsAbove[t])
    BY <1>1 DEF OnTheWay
  <1>3. /\ p \in Dirs \ Leaves /\ p \in DirsAbove[t] /\ p \in DirsAbove[node[t]]
        /\ p \notin DirsAbove[p] /\ DirsAbove[node[t]] = {p} \cup DirsAbove[p]
    BY <1>2, WayUp
  <1>4. t \in Dirs
    BY <1>2, AboveRange
  <1>5. /\ \A u \in Leaves : pc'[u] = IF u = t THEN next ELSE pc[u]
        /\ \A u \in Leaves : node'[u] = IF u = t THEN p ELSE node[u]
    <2> HIDE DEF p, next
    <2> QED BY <1>1 DEF TypeOK
  <1>6. TypeOK'
    <2>1. next \in {"lock", "read", "write", "unlock", "exited"}
      OBVIOUS
    <2> HIDE DEF p, next
    <2> QED BY <1>1, <1>3, <2>1 DEF TypeOK
  <1>7. \A u \in Leaves \ {t} : pc[u] \notin Walking
    BY <1>1, Alone DEF Walking
  <1>8. Exclusive'
    <2>1. \A u \in Leaves : pc'[u] \notin Walking
      BY <1>5, <1>7 DEF Walking
    <2> QED BY <1>1, <2>1, AggregateAssumption DEF Exclusive, Walking
  <1>9. OnTheWay'
    <2> SUFFICES ASSUME NEW u \in Leaves
                 PROVE  /\ node'[u] = u \/ node'[u] \in DirsAbove[u]
                        /\ pc'[u] \in {"read", "write", "unlock"} => node'[u] \in Dirs \ {RootDir}
                        /\ pc'[u] = "lock" /\ u \in Dirs => node'[u] \in Dirs \ {RootDir}
                        /\ pc'[u] = "exited" => node'[u] = IF u \in Dirs THEN RootDir ELSE u
      BY DEF OnTheWay
    <2>1. CASE u = t
      BY <1>3, <1>4, <1>5, <2>1
    <2>2. CASE u # t
      BY <1>5, <2>2 DEF OnTheWay
    <2> QED BY <2>1, <2>2
  <1>10. Carries'
    BY <1>1, <1>5 DEF Carries
  <1>11. Fresh' /\ OneLetterOnly'
    <2>1. \A u \in Leaves : pc'[u] # "write"
      BY <1>5, <1>7 DEF Walking
    <2> QED BY <1>1, <2>1 DEF Fresh, OneLetterOnly
  <1>12. ASSUME NEW d \in Dirs PROVE Passed(d)' = Passed(d)
    <2> SUFFICES ASSUME NEW u \in Leaves PROVE u \in Passed(d)' <=> u \in Passed(d)
      BY DEF Passed
    <2>1. CASE u = t
      <3>1. u \in Passed(d)' <=> d \in DirsAbove[t] /\ d \notin DirsAbove[p]
        BY <1>5, <2>1 DEF Passed
      <3>2. u \in Passed(d) <=> d \in DirsAbove[t] /\ (d \notin DirsAbove[node[t]] \/ d = p)
        BY <1>1, <2>1 DEF Passed
      <3> HIDE DEF p
      <3> QED BY <1>3, <3>1, <3>2
    <2>2. CASE u # t
      BY <1>5, <2>2 DEF Passed
    <2> QED BY <2>1, <2>2
  <1>13. FilesExact'
    BY <1>1, <1>12, FilesBystander
  <1>14. WinnerRight'
    BY <1>1, WinnerBystander
  <1> QED BY <1>6, <1>8, <1>9, <1>10, <1>11, <1>13, <1>14

LEMMA FindWinnerKeeps ==
  ASSUME AggregateInv, FindWinner
  PROVE  AggregateInv'
  <1> USE DEF AggregateInv, WalksInv
  <1> DEFINE file == out[RootDir]
             b == ballots
             T == Passed(RootDir)
  <1>1. /\ \A t \in Leaves : pc[t] = "exited"
        /\ RootDir \in DOMAIN out
        /\ winner' = FirstMost(file)
        /\ UNCHANGED <<ballots, out, rwMutex, pc, node, inc, root_out>>
    BY DEF FindWinner, walkVars
  <1>2. file \in Lists /\ Names(file) \subseteq OneLetter
    BY <1>1 DEF TypeOK, OneLetterOnly
  <1>3. \A k \in DOMAIN file : file[k].name \in OneLetter
    BY <1>2 DEF Names
  <1>4. T = Counted
    <2>1. \A t \in Leaves : node[t] = IF t \in Dirs THEN RootDir ELSE t
      BY <1>1 DEF OnTheWay
    <2>2. ASSUME NEW t \in Counted PROVE t \in T
      <3>1. t \in Leaves /\ t \in Dirs \ {RootDir} /\ node[t] = RootDir
        BY <2>1, AggregateAssumption DEF Counted
      <3>2. RootDir \in DirsAbove[t]
        BY <3>1 DEF OnTheWay
      <3>3. RootDir \notin DirsAbove[RootDir]
        BY AggregateAssumption
      <3> QED BY <3>1, <3>2, <3>3 DEF Passed
    <2>3. ASSUME NEW t \in T PROVE t \in Counted
      BY AboveRange DEF Passed, Counted
    <2> QED BY <2>2, <2>3
  <1>5. Exact(b, Counted, file)
    BY <1>1, <1>4, FactsOfValues
  <1>6. T \in SUBSET Leaves
    BY DEF Passed
  <1>7. \A c \in OneLetter :
          /\ Total(b, Counted, c) \in Nat
          /\ \A t \in Leaves : VotesIn(b, t, c) \in Nat
          /\ (\A t \in Counted : VotesIn(b, t, c) = 0) => Total(b, Counted, c) = 0
    BY <1>4, <1>6, TotalStep
  <1>8. ASSUME \A t, u \in Counted, c \in OneLetter : VotesIn(b, t, c) > 0 => VotesIn(b, u, c) > 0,
               NEW c \in OneLetter, c \notin Names(file)
        PROVE  Total(b, Counted, c) = 0
    <2>1. PICK t \in Counted : ~ (VotesIn(b, t, c) > 0)
      BY <1>5, <1>8 DEF Exact
    <2>2. \A u \in Counted : u \in Leaves /\ ~ (VotesIn(b, u, c) > 0)
      BY <1>8, <2>1 DEF Counted
    <2>3. \A u \in Counted : VotesIn(b, u, c) = 0
      BY <1>7, <2>2
    <2> QED BY <1>7, <2>3
  <1>9. \A c \in Names(file) : \E k \in DOMAIN file : file[k].name = c
    BY DEF Names
  <1>10. /\ winner' = None \/ winner' \in Candidates
         /\ Best(b, winner')
    <2> HIDE DEF b, file
    <2>1. CASE /\ winner' = None
               /\ \A k \in DOMAIN file : file[k].count = 0
      <3>1. \A c \in OneLetter : c \in Names(file) => Total(b, Counted, c) = 0
        BY <1>5, <1>9, <2>1 DEF Exact
      <3> QED BY <1>8, <2>1, <3>1 DEF Best
    <2>2. ASSUME NEW m \in DOMAIN file,
                 winner' = file[m].name,
                 \A k \in DOMAIN file : file[k].count <= file[m].count
          PROVE  winner' \in Candidates /\ Best(b, winner')
      <3>1. winner' \in OneLetter /\ winner' \in Candidates /\ winner' # None
        BY <1>3, <2>2, AggregateAssumption
      <3>2. file[m].count = Total(b, Counted, winner')
        BY <1>5, <2>2 DEF Exact
      <3>3. \A c \in OneLetter : c \in Names(file) =>
              Total(b, Counted, c) <= Total(b, Counted, winner')
        BY <1>5, <1>9, <2>2, <3>2 DEF Exact
      <3> QED BY <1>7, <1>8, <3>1, <3>3 DEF Best
    <2> QED BY <1>1, <1>2, <2>1, <2>2, MostRight
  <1>11. WinnerRight'
    BY <1>1, <1>10, FactsOfValues
  <1>12. TypeOK'
    BY <1>1, <1>10 DEF TypeOK
  <1>13. Exclusive' /\ OnTheWay' /\ Carries' /\ Fresh' /\ OneLetterOnly'
    BY <1>1 DEF Exclusive, OnTheWay, Carries, Fresh, OneLetterOnly
  <1>14. FilesExact'
    BY <1>1, PassedKept, FilesBystander
  <1> QED BY <1>11, <1>12, <1>13, <1>14
-----------------------------------------------------------------------------
\* The invariant holds in every state.
THEOREM AggregateInvariance == Spec => []AggregateInv
  <1>1. Init => AggregateInv
    BY AggregateStart
  <1>2. AggregateInv /\ [Next]_vars => AggregateInv'
    <2> SUFFICES ASSUME AggregateInv, [Next]_vars PROVE AggregateInv'
      OBVIOUS
    <2>1. CASE FindWinner
      BY <2>1, FindWinnerKeeps
    <2>2. ASSUME NEW t \in Leaves, Walk(t) PROVE AggregateInv'
      BY <2>2, LockKeeps, IgnoreFileKeeps, ReadParentKeeps, WriteParentKeeps, UnlockKeeps
         DEF Walk
    <2>3. CASE UNCHANGED vars
      <3>1. /\ ballots' = ballots /\ out' = out /\ rwMutex' = rwMutex /\ pc' = pc
            /\ node' = node /\ inc' = inc /\ root_out' = root_out /\ winner' = winner
        BY <2>3 DEF vars, walkVars
      <3>2. TypeOK' /\ Exclusive' /\ OnTheWay' /\ Carries' /\ Fresh' /\ OneLetterOnly'
        BY <3>1 DEF AggregateInv, WalksInv, TypeOK, Exclusive, OnTheWay, Carries, Fresh,
                    OneLetterOnly
      <3>3. FilesExact'
        BY <3>1, PassedKept, FilesBystander DEF AggregateInv
      <3>4. WinnerRight'
        BY <3>1, WinnerBystander DEF AggregateInv
      <3> QED BY <3>2, <3>3, <3>4 DEF AggregateInv, WalksInv
    <2> QED BY <2>1, <2>2, <2>3 DEF Next
  <1> QED BY <1>1, <1>2, PTL DEF Spec

\* The types, among them that no file and no walk's list ever holds a name that is no
\* candidate's or a negative count.
THEOREM AggregateTyping == Spec => []TypeOK
  <1>1. AggregateInv => TypeOK
    BY DEF AggregateInv, WalksInv
  <1> QED BY <1>1, AggregateInvariance, PTL

\* However the walks overtake each other, every line of a directory's file has exactly
\* the votes of the leaves that have passed it (votecounter.c 121-256).
THEOREM AggregateCountsExactly == Spec => []FilesExact
  <1>1. AggregateInv => FilesExact
    BY DEF AggregateInv
  <1> QED BY <1>1, AggregateInvariance, PTL

\* When all leaves name the same candidates, the winner has the most votes
\* (votecounter.c 803-847).
THEOREM AggregateFindsWinner == Spec => []WinnerRight
  <1>1. AggregateInv => WinnerRight
    BY DEF AggregateInv
  <1> QED BY <1>1, AggregateInvariance, PTL

\* A rewritten file keeps its lines and no count in it falls (votecounter.c 182-235).
THEOREM AggregateFilesGrow == Spec => FilesGrow
  <1>1. ASSUME AggregateInv, [Next]_vars PROVE Grows
    <2>1. WalksInv /\ \A d \in DOMAIN out : out[d] \in Lists
      BY <1>1 DEF AggregateInv, WalksInv, TypeOK
    <2>2. \A d \in DOMAIN out : \A k \in DOMAIN out[d] :
            out[d][k].count \in Nat /\ out[d][k].name \in Names(out[d])
      BY <2>1, ListEntries DEF Names
    <2>3. ASSUME out' = out PROVE Grows
      BY <2>2, <2>3 DEF Grows
    <2>4. ASSUME NEW t \in Leaves, WriteParent(t) PROVE Grows
      <3>1. PICK p : p = Above[node[t]]
        OBVIOUS
      <3>2. /\ DOMAIN out' = DOMAIN out \cup {p}
            /\ out'[p] = IF p \in DOMAIN out THEN Updated(out[p], inc[t]) ELSE inc[t]
            /\ \A d \in DOMAIN out \ {p} : out'[d] = out[d]
        BY <2>1, <2>4, <3>1, WriteEffect
      <3>3. pc[t] \in Walking
        BY <2>4 DEF WriteParent, Walking
      <3>4. ASSUME p \in DOMAIN out
            PROVE  /\ DOMAIN out'[p] = DOMAIN out[p]
                   /\ \A k \in DOMAIN out[p] :
                        /\ out'[p][k].name = out[p][k].name
                        /\ out'[p][k].count >= out[p][k].count
        <4>1. /\ DOMAIN out'[p] = DOMAIN out[p]
              /\ \A k \in DOMAIN out[p] :
                   /\ out'[p][k].name = out[p][k].name
                   /\ out'[p][k].count = out[p][k].count + Votes(t, out[p][k].name)
          BY <2>1, <3>1, <3>2, <3>3, <3>4, ToWrite
        <4>2. \A c \in OneLetter : Votes(t, c) \in Nat
          BY <2>1, <3>3, ToWrite
        <4>3. Names(out[p]) \subseteq OneLetter
          BY <2>1, <3>4 DEF WalksInv, OneLetterOnly
        <4>4. \A k \in DOMAIN out[p] :
                Votes(t, out[p][k].name) \in Nat /\ out[p][k].count \in Nat
          BY <2>2, <3>4, <4>2, <4>3
        <4> QED BY <4>1, <4>4
      <3>5. ASSUME NEW d \in DOMAIN out, d # p
            PROVE  /\ DOMAIN out'[d] = DOMAIN out[d]
                   /\ \A k \in DOMAIN out[d] :
                        /\ out'[d][k].name = out[d][k].name
                        /\ out'[d][k].count >= out[d][k].count
        BY <2>2, <3>2, <3>5
      <3> QED BY <3>2, <3>4, <3>5 DEF Grows
    <2>5. out' = out \/ \E t \in Leaves : WriteParent(t)
      BY <1>1 DEF Next, Walk, FindWinner, Lock, IgnoreFile, ReadParent, Unlock, vars
    <2> QED BY <2>3, <2>4, <2>5
  <1>2. AggregateInv /\ [Next]_vars => [Grows]_vars
    BY <1>1
  <1> QED BY <1>2, AggregateInvariance, PTL DEF Spec, FilesGrow
=============================================================================
