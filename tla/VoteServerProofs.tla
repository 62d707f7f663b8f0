-------------------------- MODULE VoteServerProofs --------------------------
(***************************************************************************)
(* Proofs about VoteServer, for every DAG file, every set of candidates    *)
(* and vote files, and every bound.  The handlers of VoteServer keep the   *)
(* polls as PollTree says, so what PollTreeProofs proves of the polls      *)
(* holds of the whole server; from it follow what an error reply promises  *)
(* and when votes are taken.  Then come the operations on lists of counts, *)
(* each with what it does to the votes a list holds; the leaves' lists;    *)
(* the sums over the tree; and the winner.                                 *)
(***************************************************************************)
EXTENDS VoteServer, PollTreeProofs, FoldLemmas, SequenceTheorems

\* Every handler works on the polls as an action of PollTree, or not at all.
LEMMA StepsOfPolls == [Next]_vars => [PollNext]_pollVars
  <1>1. ASSUME NEW nm \in Names, OP(nm) \/ CP(nm) PROVE PollNext
    BY <1>1 DEF OP, CP, PollNext
  <1>2. ASSUME NEW pnm \in Names, NEW nm \in NewNames, AR(pnm, nm) PROVE PollNext
    BY <1>2 DEF AR, PollNext
  <1>3. ASSUME NEW nm \in Names, NEW file \in VoteFiles, AV(nm, file) \/ RV(nm, file)
        PROVE  UNCHANGED pollVars
    BY <1>3 DEF AV, RV, Refuse
  <1>4. ASSUME NEW nm \in Names, CV(nm) PROVE UNCHANGED pollVars
    BY <1>4 DEF CV
  <1>5. RW \/ UC => UNCHANGED pollVars
    BY DEF RW, UC
  <1>6. UNCHANGED vars => UNCHANGED pollVars
    BY DEF vars
  <1> QED BY <1>1, <1>2, <1>3, <1>4, <1>5, <1>6 DEF Next

(***************************************************************************)
(* The server with its votes implements PollTree: adding, removing and     *)
(* counting votes and announcing a winner leave regions and polls alone    *)
(* (server.c 158-353, 393-466, 519-653).                                   *)
(***************************************************************************)
THEOREM ServerKeepsPolls == Spec => PollSpec
  <1>1. Init => PollInit
    BY DEF Init
  <1> QED BY <1>1, StepsOfPolls, PTL DEF Spec, PollSpec

\* Whatever requests are mixed, no region of the DAG file falls behind the region
\* above it (server.c 380, 685).
THEOREM ServerReachesSubtree == Spec => []SubtreeAhead
  BY ServerKeepsPolls, PollsReachSubtree, PTL

-----------------------------------------------------------------------------
\* A name leads to one region only.
LEMMA OneMatch ==
  ASSUME NEW nm, NEW r, NEW q, Lookup(r, nm), Lookup(q, nm)
  PROVE  r = q
  <1>1. r \in Int /\ q \in Int /\ r <= q /\ q <= r
    BY DEF Lookup, Region
  <1> QED BY <1>1

\* Opening and closing that go through are answered with success.
LEMMA OpenedIsSuccess ==
  ASSUME NEW nm, NEW r \in Unopened, Lookup(r, nm) PROVE OpenReply(nm) = "SC"
  <1>1. Known(nm) /\ ~open[r] /\ ~closed[r]
    BY DEF Known, Unopened, Lookup
  <1>2. \A q \in Region : Lookup(q, nm) => q = r
    BY OneMatch
  <1> QED BY <1>1, <1>2 DEF OpenReply

LEMMA ClosedIsSuccess ==
  ASSUME NEW nm, NEW r \in Opened, Lookup(r, nm) PROVE CloseReply(nm) = "SC"
  <1>1. Known(nm) /\ open[r] /\ ~closed[r]
    BY DEF Known, Opened, Lookup
  <1>2. \A q \in Region : Lookup(q, nm) => q = r
    BY OneMatch
  <1>3. \A q \in Unopened : ~Lookup(q, nm)
    BY <1>1, <1>2 DEF Unopened
  <1> QED BY <1>1, <1>2, <1>3 DEF CloseReply

(***************************************************************************)
(* An error reply means that nothing has changed: no polls, no region, no  *)
(* vote and no stored sum, for every request and every tree (the early     *)
(* returns of the handlers, and Remove_Votes' check of all candidates      *)
(* before the first subtraction, 573-639).                                 *)
(***************************************************************************)
THEOREM ErrorsLeaveState == Spec => ErrorsChangeNothing
  <1> DEFINE same == UNCHANGED <<pollVars, counts, cast, declared>>
             Harmless == reply'.code # "SC" => same
  <1>1. ASSUME NEW nm \in Names, OP(nm) PROVE Harmless
    <2>1. CASE \E r \in Unopened : Lookup(r, nm)
      <3>1. OpenReply(nm) = "SC"
        BY <2>1, OpenedIsSuccess
      <3> QED BY <1>1, <3>1 DEF OP, Say
    <2>2. CASE \A r \in Unopened : ~Lookup(r, nm)
      BY <1>1, <2>2 DEF OP, OpenPolls, pollVars, treeVars
    <2> QED BY <2>1, <2>2
  <1>2. ASSUME NEW nm \in Names, CP(nm) PROVE Harmless
    <2>1. CASE \E r \in Opened : Lookup(r, nm)
      <3>1. CloseReply(nm) = "SC"
        BY <2>1, ClosedIsSuccess
      <3> QED BY <1>2, <3>1 DEF CP, Say
    <2>2. CASE \A r \in Opened : ~Lookup(r, nm)
      BY <1>2, <2>2 DEF CP, ClosePolls, pollVars, treeVars
    <2> QED BY <2>1, <2>2
  <1>3. ASSUME NEW pnm \in Names, NEW nm \in NewNames, AR(pnm, nm) PROVE Harmless
    <2>1. CASE Known(pnm)
      BY <1>3, <2>1 DEF AR, AddRegionReply, Say
    <2>2. CASE ~Known(pnm)
      <3>1. declared' = declared /\ counts' = counts /\ cast' = cast
        BY <1>3, <2>2 DEF AR
      <3>2. \A r \in Region : ~Lookup(r, pnm)
        BY <2>2 DEF Known, Lookup
      <3>3. UNCHANGED pollVars
        BY <1>3, <3>2 DEF AR, AddRegion, pollVars, treeVars
      <3> QED BY <3>1, <3>3
    <2> QED BY <2>1, <2>2
  <1>4. ASSUME NEW nm \in Names, NEW file \in VoteFiles, AV(nm, file) PROVE Harmless
    BY <1>4 DEF AV, Refuse, Say
  <1>5. ASSUME NEW nm \in Names, NEW file \in VoteFiles, RV(nm, file) PROVE Harmless
    BY <1>5 DEF RV, Refuse, Say
  <1>6. ASSUME NEW nm \in Names, CV(nm) PROVE Harmless
    BY <1>6 DEF CV, Say
  <1>7. ASSUME RW PROVE Harmless
    BY <1>7 DEF RW, Say
  <1>8. ASSUME UC PROVE Harmless
    BY <1>8 DEF UC
  <1>9. [Next]_vars => [Harmless]_vars
    BY <1>1, <1>2, <1>3, <1>4, <1>5, <1>6, <1>7, <1>8 DEF Next
  <1> QED BY <1>9, PTL DEF Spec, ErrorsChangeNothing

-----------------------------------------------------------------------------
\* The history of accepted votes has a place for every region.
CastForAll == DOMAIN cast = Slot

LEMMA CastStays == Spec => []CastForAll
  <1>1. Init => CastForAll
    BY DEF Init, CastForAll
  <1>2. ASSUME CastForAll, [Next]_vars PROVE CastForAll'
    BY <1>2 DEF CastForAll, Next, OP, CP, AR, AV, RV, Refuse, CV, RW, UC, vars, votes
  <1> QED BY <1>1, <1>2, PTL DEF Spec

\* Votes change in a region whose own polls are open, and in no other.
LEMMA VotesChangeInOpen ==
  ASSUME CastForAll, Next, NEW r \in Slot, cast'[r] # cast[r]
  PROVE  open[r] /\ ~closed[r]
  <1>1. ASSUME NEW nm \in Names, NEW file \in VoteFiles, AV(nm, file)
        PROVE  open[r] /\ ~closed[r]
    <2>1. PICK q \in Region : /\ Refusal(q) = "none"
                              /\ cast' = [cast EXCEPT ![q] =
                                   [c \in Candidates |-> @[c] + Ballots(file, c)]]
      BY <1>1 DEF AV, Refuse
    <2>2. q = r
      BY <2>1 DEF CastForAll
    <2> QED BY <2>1, <2>2 DEF Refusal
  <1>2. ASSUME NEW nm \in Names, NEW file \in VoteFiles, RV(nm, file)
        PROVE  open[r] /\ ~closed[r]
    <2>1. PICK q \in Region : /\ Refusal(q) = "none"
                              /\ cast' = [cast EXCEPT ![q] =
                                   [c \in Candidates |-> @[c] - Ballots(file, c)]]
      BY <1>2 DEF RV, Refuse
    <2>2. q = r
      BY <2>1 DEF CastForAll
    <2> QED BY <2>1, <2>2 DEF Refusal
  <1> QED BY <1>1, <1>2 DEF Next, OP, CP, AR, CV, RW, UC

\* While the polls of a region of the DAG file are not closed, those of the
\* regions above it are not either.
LEMMA NoneClosedAbove ==
  ASSUME PollInv, NEW r \in DagRegion, ~closed[r], NEW a \in Ancestry[r]
  PROVE  ~closed[a]
  <1> DEFINE unclosed == {x \in 1..r : ~closed[x]}
  <1>1. r \in Slot /\ r \in Int /\ r <= InitSize /\ 1 <= r
    BY DagAssumption DEF DagRegion, Slot
  <1>2. r \in unclosed /\ unclosed \in SUBSET (1..r)
    BY <1>1
  <1>3. ASSUME NEW x \in unclosed, parent[x] \in 1..r PROVE parent[x] \in unclosed
    <2>1. x \in DagRegion
      <3>1. x \in Int /\ 1 <= x /\ x <= r /\ InitSize \in Int
        BY DagAssumption DEF Slot
      <3> QED BY <1>1, <3>1 DEF DagRegion
    <2>2. parent[x] = InitParent[x] /\ InitParent[x] # 0
      BY <1>3, <2>1 DEF PollInv, DagStays
    <2>3. Rank(InitParent[x]) <= Rank(x)
      BY <2>1, <2>2 DEF PollInv, SubtreeAhead
    <2>4. Rank(x) \in {0, 1}
      BY DEF Rank
    <2>5. ~closed[InitParent[x]]
      BY <2>3, <2>4 DEF Rank
    <2> QED BY <1>3, <2>2, <2>5
  <1>4. a \in unclosed
    BY <1>1, <1>2, <1>3 DEF Ancestry
  <1> QED BY <1>4

(***************************************************************************)
(* Votes are accepted or removed in a region of the DAG file only while no *)
(* region on its way to the root is closed, although the handlers look at  *)
(* the leaf's own flags only (416, 546): closing a region always reached   *)
(* the leaves below it.                                                    *)
(***************************************************************************)
THEOREM VotesStopAtClosing == Spec => NoVotesUnderClosed
  <1> DEFINE Lawful == \A r \in DagRegion : cast'[r] # cast[r] =>
                          \A a \in Ancestry[r] : ~closed[a]
  <1>1. ASSUME PollInv, CastForAll, Next PROVE Lawful
    <2>1. DagRegion \subseteq Slot
      BY DagAssumption DEF DagRegion, Slot
    <2> QED BY <1>1, <2>1, VotesChangeInOpen, NoneClosedAbove
  <1>2. Spec => []PollInv
    BY ServerKeepsPolls, PollInvariance, PTL
  <1>3. PollInv /\ CastForAll /\ [Next]_vars => [Lawful]_vars
    BY <1>1
  <1> QED BY <1>2, <1>3, CastStays, PTL DEF Spec, NoVotesUnderClosed
-----------------------------------------------------------------------------
(***************************************************************************)
(* Lists of entries and the votes they hold.                               *)
(***************************************************************************)
\* What an entry is worth to a candidate.
Worth(e, c) == IF e.who = c THEN e.n ELSE 0

LEMMA ListFacts ==
  ASSUME NEW list \in Seq(Entry)
  PROVE  /\ Len(list) \in Nat
         /\ DOMAIN list = 1 .. Len(list)
         /\ IsFiniteSet(DOMAIN list)
         /\ \A k \in DOMAIN list : /\ list[k] \in Entry /\ list[k].who \in Candidates
                                   /\ list[k].n \in Nat
         /\ \A c : Amounts(list, c) \in [DOMAIN list -> Nat]
         /\ \A c : Amounts(list, c) \in [DOMAIN list -> Int]
         /\ \A c : VotesFor(list, c) \in Nat
  <1>1. Len(list) \in Nat /\ DOMAIN list = 1 .. Len(list)
    OBVIOUS
  <1>2. IsFiniteSet(DOMAIN list)
    BY <1>1, FS_Interval
  <1>3. \A k \in DOMAIN list : list[k] \in Entry
    OBVIOUS
  <1>4. \A e \in Entry : e.who \in Candidates /\ e.n \in Nat
    BY DEF Entry
  <1>5. ASSUME NEW c
        PROVE  Amounts(list, c) \in [DOMAIN list -> Nat] /\ VotesFor(list, c) \in Nat
    <2>1. Amounts(list, c) \in [DOMAIN list -> Nat]
      <3> HIDE DEF Entry
      <3> QED BY <1>3, <1>4 DEF Amounts
    <2>2. DOMAIN list \in SUBSET DOMAIN list
      OBVIOUS
    <2>3. SumFunctionOnSet(Amounts(list, c), DOMAIN list) \in Nat
      BY <1>2, <2>1, <2>2, SumNat
    <2> QED BY <2>1, <2>3 DEF VotesFor
  <1>6. \A f \in [DOMAIN list -> Nat] : f \in [DOMAIN list -> Int]
    OBVIOUS
  <1> QED BY <1>1, <1>2, <1>3, <1>4, <1>5, <1>6

LEMMA VotesOfNone == ASSUME NEW c PROVE VotesFor(<<>>, c) = 0
  <1>1. <<>> \in Seq(Entry) /\ DOMAIN <<>> = {}
    OBVIOUS
  <1>2. Amounts(<<>>, c) \in [DOMAIN <<>> -> Int] /\ IsFiniteSet(DOMAIN <<>>)
    BY <1>1, ListFacts
  <1>3. SumFunctionOnSet(Amounts(<<>>, c), {}) = 0
    BY <1>2, SumEmpty
  <1> QED BY <1>1, <1>3 DEF VotesFor

LEMMA VotesAppended ==
  ASSUME NEW list \in Seq(Entry), NEW e \in Entry, NEW c
  PROVE  /\ Append(list, e) \in Seq(Entry)
         /\ VotesFor(Append(list, e), c) = VotesFor(list, c) + Worth(e, c)
  <1> DEFINE new == Append(list, e)
             n == Len(list)
             D == DOMAIN new
  <1>1. /\ new \in Seq(Entry) /\ n \in Nat /\ Len(new) = n + 1
        /\ D = 1 .. (n + 1) /\ DOMAIN list = 1 .. n
        /\ new[n + 1] = e /\ \A k \in 1 .. n : new[k] = list[k]
    OBVIOUS
  <1> HIDE DEF new, n
  <1>2. /\ Amounts(new, c) \in [D -> Int] /\ IsFiniteSet(D)
        /\ Amounts(list, c) \in [DOMAIN list -> Int] /\ IsFiniteSet(DOMAIN list)
    BY <1>1, ListFacts
  <1>3. Amounts(new, c)[n + 1] = Worth(e, c)
    BY <1>1 DEF Amounts, Worth
  <1>4. \A k \in 1 .. n : Amounts(new, c)[k] = Amounts(list, c)[k]
    BY <1>1 DEF Amounts
  <1>5. SumFunctionOnSet(Amounts(new, c), D)
          = Amounts(new, c)[n + 1] + SumFunctionOnSet(Amounts(new, c), D \ {n + 1})
    <2>1. n + 1 \in D /\ D \in SUBSET D
      BY <1>1
    <2> QED BY <1>2, <2>1, SumAny
  <1>6. D \ {n + 1} = 1 .. n
    BY <1>1
  <1>7. SumFunctionOnSet(Amounts(new, c), 1 .. n) = SumFunctionOnSet(Amounts(list, c), 1 .. n)
    <2> DEFINE E == 1 .. n
               f == Amounts(new, c)
               h == Amounts(list, c)
    <2>1. E \in SUBSET D /\ E \in SUBSET DOMAIN list
      BY <1>1
    <2>2. /\ f \in [D -> Int] /\ IsFiniteSet(D) /\ h \in [DOMAIN list -> Int]
          /\ IsFiniteSet(DOMAIN list) /\ \A k \in E : f[k] = h[k]
      BY <1>2, <1>4
    <2> HIDE DEF E, D, f, h
    <2>3. SumFunctionOnSet(f, E) = SumFunctionOnSet(h, E)
      BY <2>1, <2>2, SumSame, SMTT(20)
    <2> QED BY <2>3 DEF E, f, h
  <1>8. SumFunctionOnSet(Amounts(new, c), D) = Worth(e, c) + SumFunctionOnSet(Amounts(list, c), 1 .. n)
    BY <1>3, <1>5, <1>6, <1>7
  <1>9. VotesFor(list, c) \in Nat /\ Worth(e, c) \in Nat
    BY ListFacts DEF Worth, Entry
  <1> QED BY <1>1, <1>8, <1>9 DEF VotesFor, new

\* One entry's count replaced.
LEMMA VotesReplaced ==
  ASSUME NEW list \in Seq(Entry), NEW k \in DOMAIN list, NEW m \in Nat
  PROVE  /\ [list EXCEPT ![k].n = m] \in Seq(Entry)
         /\ DOMAIN [list EXCEPT ![k].n = m] = DOMAIN list
         /\ \A j \in DOMAIN list :
              [list EXCEPT ![k].n = m][j] = IF j = k THEN [list[k] EXCEPT !.n = m] ELSE list[j]
         /\ \A j \in DOMAIN list : [list EXCEPT ![k].n = m][j].who = list[j].who
         /\ \A c : VotesFor([list EXCEPT ![k].n = m], c)
                     = VotesFor(list, c) + (IF list[k].who = c THEN m - list[k].n ELSE 0)
  <1> DEFINE e == [list[k] EXCEPT !.n = m]
             new == [list EXCEPT ![k].n = m]
             D == DOMAIN list
  <1>1. list[k] \in Entry
    OBVIOUS
  <1>2. e \in Entry /\ e.who = list[k].who /\ e.n = m
    BY <1>1 DEF Entry
  <1>3. new = [list EXCEPT ![k] = e]
    OBVIOUS
  <1> HIDE DEF e
  <1>4. new \in Seq(Entry) /\ Len(new) = Len(list)
    BY <1>2, <1>3, ExceptSeq
  <1>5. DOMAIN new = D /\ \A j \in D : new[j] = IF j = k THEN e ELSE list[j]
    BY <1>3
  <1>6. \A j \in D : new[j].who = list[j].who
    BY <1>2, <1>5
  <1> HIDE DEF new
  <1>7. ASSUME NEW c
        PROVE  VotesFor(new, c) = VotesFor(list, c) + (IF list[k].who = c THEN m - list[k].n ELSE 0)
    <2>1. /\ Amounts(new, c) \in [D -> Int] /\ IsFiniteSet(D)
          /\ Amounts(list, c) \in [D -> Int]
      BY <1>4, <1>5, ListFacts
    <2>2. \A j \in D \ {k} : Amounts(list, c)[j] = Amounts(new, c)[j]
      BY <1>5 DEF Amounts
    <2>3. D \in SUBSET D
      OBVIOUS
    <2>4. SumFunctionOnSet(Amounts(new, c), D)
            = SumFunctionOnSet(Amounts(list, c), D) + (Amounts(new, c)[k] - Amounts(list, c)[k])
      BY <2>1, <2>2, <2>3, SumChange
    <2>5. Amounts(new, c)[k] - Amounts(list, c)[k] = IF list[k].who = c THEN m - list[k].n ELSE 0
      BY <1>1, <1>2, <1>5 DEF Amounts, Entry
    <2> QED BY <1>5, <2>4, <2>5 DEF VotesFor
  <1> QED BY <1>4, <1>5, <1>6, <1>7 DEF e, new

\* The places where a walk can meet a name.
LEMMA AheadFacts ==
  ASSUME NEW list \in Seq(Entry), NEW at \in Nat, NEW who, Ahead(list, at, who) # {}
  PROVE  /\ Min(Ahead(list, at, who)) \in DOMAIN list
         /\ Min(Ahead(list, at, who)) \in Nat
         /\ list[Min(Ahead(list, at, who))].who = who
  <1>1. Ahead(list, at, who) \in SUBSET Nat /\ Ahead(list, at, who) \subseteq DOMAIN list
    BY DEF Ahead
  <1>2. Min(Ahead(list, at, who)) \in Ahead(list, at, who)
    BY <1>1, MinInside
  <1> QED BY <1>1, <1>2 DEF Ahead

\* A list that has each name once.
Distinct(list) == \A j, k \in DOMAIN list : list[j].who = list[k].who => j = k

Walk == [list : Seq(Entry), at : Nat]

\* A token of an addition adds its count to the votes of its name, wherever the walk is;
\* from the head of the list it makes no second entry.
LEMMA AddTokenRight ==
  ASSUME NEW w \in Walk, NEW t \in Entry
  PROVE  /\ AddToken(w, t) \in Walk
         /\ \A c : VotesFor(AddToken(w, t).list, c) = VotesFor(w.list, c) + Worth(t, c)
         /\ w.at = 0 /\ Distinct(w.list) => Distinct(AddToken(w, t).list)
         /\ AddToken(w, t).list # <<>>
  <1> DEFINE list == w.list
             hits == Ahead(list, w.at, t.who)
  <1>1. list \in Seq(Entry) /\ w.at \in Nat /\ t.who \in Candidates /\ t.n \in Nat
    BY DEF Walk, Entry
  <1>2. CASE hits # {}
    <2> DEFINE k == Min(hits)
    <2>1. k \in DOMAIN list /\ k \in Nat /\ list[k].who = t.who
      BY <1>1, <1>2, AheadFacts
    <2>2. list[k].n \in Nat /\ list[k].n + t.n \in Nat
      BY <1>1, <2>1, ListFacts
    <2>3. AddToken(w, t) = [list |-> [list EXCEPT ![k].n = list[k].n + t.n], at |-> k]
      BY <1>2, <2>1 DEF AddToken
    <2> HIDE DEF k
    <2> DEFINE new == [list EXCEPT ![k].n = list[k].n + t.n]
    <2>4. /\ new \in Seq(Entry) /\ DOMAIN new = DOMAIN list
          /\ \A j \in DOMAIN list : new[j].who = list[j].who
          /\ \A c : VotesFor(new, c)
                = VotesFor(list, c) + (IF list[k].who = c THEN (list[k].n + t.n) - list[k].n ELSE 0)
      <3> HIDE DEF list
      <3> QED BY <1>1, <2>1, <2>2, VotesReplaced
    <2>5. AddToken(w, t).list = new /\ AddToken(w, t) \in Walk
      <3>1. AddToken(w, t).list = new /\ AddToken(w, t) = [list |-> new, at |-> k]
        BY <2>3
      <3> HIDE DEF new
      <3> QED BY <2>1, <2>4, <3>1 DEF Walk
    <2>6. ASSUME NEW c PROVE VotesFor(new, c) = VotesFor(list, c) + Worth(t, c)
      <3>1. (IF list[k].who = c THEN (list[k].n + t.n) - list[k].n ELSE 0) = Worth(t, c)
        BY <1>1, <2>1, <2>2 DEF Worth
      <3> HIDE DEF new, list
      <3> QED BY <2>4, <3>1
    <2>7. Distinct(list) => Distinct(new)
      <3> HIDE DEF new, list
      <3> QED BY <2>4 DEF Distinct
    <2>8. new # <<>>
      <3> HIDE DEF new
      <3> QED BY <2>1, <2>4
    <2> HIDE DEF new
    <2> QED BY <2>5, <2>6, <2>7, <2>8
  <1>3. CASE hits = {}
    <2> DEFINE new == Append(list, t)
    <2>1. AddToken(w, t) = [list |-> new, at |-> Len(list) + 1]
      BY <1>3 DEF AddToken
    <2>2. new \in Seq(Entry) /\ \A c : VotesFor(new, c) = VotesFor(list, c) + Worth(t, c)
      <3> HIDE DEF list
      <3> QED BY <1>1, VotesAppended
    <2>3. AddToken(w, t) \in Walk /\ AddToken(w, t).list = new
      <3>1. Len(list) + 1 \in Nat
        BY <1>1
      <3> HIDE DEF new, list
      <3> QED BY <2>1, <2>2, <3>1 DEF Walk
    <2>4. ASSUME w.at = 0, Distinct(list) PROVE Distinct(new)
      <3>1. \A j \in DOMAIN list : list[j].who # t.who
        <4>1. DOMAIN list = 1 .. Len(list)
          BY <1>1
        <4> QED BY <1>3, <2>4, <4>1 DEF Ahead
      <3>2. /\ DOMAIN new = DOMAIN list \cup {Len(list) + 1} /\ new[Len(list) + 1] = t
            /\ \A j \in DOMAIN list : new[j] = list[j]
        BY <1>1
      <3> HIDE DEF new, list
      <3> QED BY <2>4, <3>1, <3>2 DEF Distinct
    <2>5. new # <<>>
      BY <1>1
    <2> HIDE DEF new
    <2> QED BY <2>2, <2>3, <2>4, <2>5
  <1> QED BY <1>2, <1>3
-----------------------------------------------------------------------------
(***************************************************************************)
(* Walked, AddTokens and Merge.                                            *)
(***************************************************************************)
WalkOn(w, t, back) == AddToken([w EXCEPT !.at = IF back THEN 0 ELSE @], t)

LEMMA WalkOnTyped ==
  ASSUME NEW w \in Walk, NEW t \in Entry, NEW back \in BOOLEAN
  PROVE  /\ WalkOn(w, t, back) \in Walk
         /\ \A c : VotesFor(WalkOn(w, t, back).list, c) = VotesFor(w.list, c) + Worth(t, c)
         /\ back /\ Distinct(w.list) => Distinct(WalkOn(w, t, back).list)
         /\ WalkOn(w, t, back).list # <<>>
  <1> DEFINE v == [w EXCEPT !.at = IF back THEN 0 ELSE @]
  <1>1. v \in Walk /\ v.list = w.list /\ (back => v.at = 0)
    BY DEF Walk
  <1> HIDE DEF v
  <1>2. WalkOn(w, t, back) = AddToken(v, t)
    BY DEF WalkOn, v
  <1> QED BY <1>1, <1>2, AddTokenRight

\* The walk after each of the tokens.
LEMMA WalkStages ==
  ASSUME NEW list \in Seq(Entry), NEW tokens \in Seq(Entry), NEW back \in BOOLEAN
  PROVE  \E h : /\ h[0] = [list |-> list, at |-> 0]
                /\ \A k \in 1 .. Len(tokens) : h[k] = WalkOn(h[k - 1], tokens[k], back)
                /\ Walked(list, tokens, back) = h[Len(tokens)].list
  <1> DEFINE n == Len(tokens)
             D == 1 .. n
             V == Walk
             base == [list |-> list, at |-> 0]
             g == [p \in D \X V |-> WalkOn(p[2], tokens[p[1]], back)]
             Iter(f) == [s \in SUBSET D |-> IF s = {} THEN base
                                           ELSE WalkOn(f[s \ {Max(s)}], tokens[Max(s)], back)]
             chosen == CHOOSE f : f = Iter(f)
             h == [k \in 0 .. n |-> chosen[1 .. k]]
  <1>1. n \in Nat /\ DOMAIN tokens = D /\ base \in V
    BY DEF Walk
  <1>2. g \in [D \X V -> V]
    <2>1. ASSUME NEW p \in D \X V PROVE WalkOn(p[2], tokens[p[1]], back) \in V
      <3>1. p[2] \in Walk /\ tokens[p[1]] \in Entry
        BY <1>1
      <3> QED BY <3>1, WalkOnTyped
    <2> HIDE DEF D, V
    <2> QED BY <2>1
  <1>3. PICK f \in [SUBSET D -> V] : SeqSolves(f, n, base, g)
    <2> HIDE DEF g, V, base, n
    <2> QED BY <1>1, <1>2, SeqRecursion
  <1>4. ASSUME NEW s \in SUBSET D
        PROVE  f[s] = IF s = {} THEN base ELSE WalkOn(f[s \ {Max(s)}], tokens[Max(s)], back)
    <2> HIDE DEF V, base, n
    <2>1. CASE s = {}
      BY <1>3, <2>1 DEF SeqSolves
    <2>2. CASE s # {}
      <3>1. Max(s) \in D
        BY <1>1, <2>2, MaxInside
      <3>2. <<Max(s), f[s \ {Max(s)}]>> \in D \X V
        BY <1>3, <3>1
      <3>3. g[<<Max(s), f[s \ {Max(s)}]>>] = WalkOn(f[s \ {Max(s)}], tokens[Max(s)], back)
        BY <3>2
      <3> HIDE DEF g
      <3> QED BY <1>3, <2>2, <3>3 DEF SeqSolves
    <2> QED BY <2>1, <2>2
  <1>5. f = Iter(f)
    <2> HIDE DEF D, g, V, base
    <2> QED BY <1>3, <1>4
  <1>6. chosen = Iter(chosen)
    <2> HIDE DEF Iter
    <2> QED BY <1>5
  <1>7. Walked(list, tokens, back) = chosen[D].list
    BY <1>1 DEF Walked, WalkOn, FoldLeft, MapThenFoldSet
  <1>8. h[0] = base
    <2>1. 1 .. 0 = {} /\ {} \in SUBSET D
      OBVIOUS
    <2>2. chosen[{}] = base
      BY <1>6, <2>1
    <2> HIDE DEF chosen, base, n
    <2> QED BY <1>1, <2>1, <2>2
  <1>9. ASSUME NEW k \in D PROVE h[k] = WalkOn(h[k - 1], tokens[k], back)
    <2>1. 1 .. k \in SUBSET D /\ 1 .. k # {} /\ k - 1 \in 0 .. n /\ k \in 0 .. n
      BY <1>1
    <2>2. Max(1 .. k) = k /\ (1 .. k) \ {Max(1 .. k)} = 1 .. k - 1
      BY <1>1, MaxOfInterval
    <2>3. chosen[1 .. k] = WalkOn(chosen[(1 .. k) \ {Max(1 .. k)}], tokens[Max(1 .. k)], back)
      <3> HIDE DEF chosen, base
      <3> QED BY <1>6, <2>1
    <2> HIDE DEF chosen, n
    <2> QED BY <2>1, <2>2, <2>3
  <1>10. Walked(list, tokens, back) = h[n].list
    <2> HIDE DEF chosen, n
    <2> QED BY <1>1, <1>7
  <1> HIDE DEF h
  <1> QED BY <1>8, <1>9, <1>10
\* The votes in the first k entries of a list.
Prefix(list, k, c) == SumFunctionOnSet(Amounts(list, c), 1 .. k)

LEMMA PrefixFacts ==
  ASSUME NEW list \in Seq(Entry), NEW c
  PROVE  /\ Prefix(list, 0, c) = 0
         /\ Prefix(list, Len(list), c) = VotesFor(list, c)
         /\ \A k \in 0 .. Len(list) : Prefix(list, k, c) \in Nat
         /\ \A k \in 1 .. Len(list) : Prefix(list, k, c) = Prefix(list, k - 1, c) + Worth(list[k], c)
  <1> DEFINE D == DOMAIN list
             f == Amounts(list, c)
  <1>1. D = 1 .. Len(list) /\ Len(list) \in Nat /\ IsFiniteSet(D) /\ f \in [D -> Int] /\ f \in [D -> Nat]
    BY ListFacts
  <1>2. Prefix(list, 0, c) = 0
    <2>1. 1 .. 0 = {}
      OBVIOUS
    <2>2. SumFunctionOnSet(f, {}) = 0
      <3> HIDE DEF f, D
      <3> QED BY <1>1, SumEmpty
    <2> QED BY <2>1, <2>2 DEF Prefix
  <1>3. Prefix(list, Len(list), c) = VotesFor(list, c)
    BY <1>1 DEF Prefix, VotesFor
  <1>4. ASSUME NEW k \in 0 .. Len(list) PROVE Prefix(list, k, c) \in Nat
    <2>1. 1 .. k \in SUBSET D
      BY <1>1
    <2>2. SumFunctionOnSet(f, 1 .. k) \in Nat
      <3> HIDE DEF f, D
      <3> QED BY <1>1, <2>1, SumNat
    <2> QED BY <2>2 DEF Prefix
  <1>5. AnyFirst(f, D)
    <2>1. f \in [D -> Int] /\ IsFiniteSet(D)
      BY <1>1
    <2> HIDE DEF f, D
    <2> QED BY <2>1, SumAnyFirst
  <1>6. ASSUME NEW k \in 1 .. Len(list)
        PROVE  Prefix(list, k, c) = Prefix(list, k - 1, c) + Worth(list[k], c)
    <2>1. 1 .. k \in SUBSET D /\ k \in 1 .. k /\ (1 .. k) \ {k} = 1 .. (k - 1)
      BY <1>1
    <2>2. SumFunctionOnSet(f, 1 .. k) = f[k] + SumFunctionOnSet(f, (1 .. k) \ {k})
      <3> DEFINE T == 1 .. k
      <3>1. T \in SUBSET D /\ k \in T
        BY <2>1
      <3> HIDE DEF f, D, T
      <3>2. SumFunctionOnSet(f, T) = f[k] + SumFunctionOnSet(f, T \ {k})
        BY <3>1, <1>5 DEF AnyFirst
      <3> QED BY <3>2 DEF T
    <2>3. f[k] = Worth(list[k], c) /\ f[k] \in Nat
      BY <1>1 DEF Amounts, Worth
    <2>4. Prefix(list, k, c) = f[k] + Prefix(list, k - 1, c)
      <3> HIDE DEF f
      <3> QED BY <2>1, <2>2 DEF Prefix, f
    <2>5. Prefix(list, k - 1, c) \in Nat
      BY <1>1, <1>4
    <2> HIDE DEF f
    <2> QED BY <2>3, <2>4, <2>5
  <1> QED BY <1>2, <1>3, <1>4, <1>6

\* What a walk leaves: the votes of the list and of the tokens together.
LEMMA WalkedRight ==
  ASSUME NEW list \in Seq(Entry), NEW tokens \in Seq(Entry), NEW back \in BOOLEAN
  PROVE  /\ Walked(list, tokens, back) \in Seq(Entry)
         /\ \A c : VotesFor(Walked(list, tokens, back), c) = VotesFor(list, c) + VotesFor(tokens, c)
         /\ back /\ Distinct(list) => Distinct(Walked(list, tokens, back))
         /\ tokens # <<>> => Walked(list, tokens, back) # <<>>
         /\ tokens = <<>> => Walked(list, tokens, back) = list
  <1> DEFINE n == Len(tokens)
  <1>1. PICK h : /\ h[0] = [list |-> list, at |-> 0]
                 /\ \A k \in 1 .. n : h[k] = WalkOn(h[k - 1], tokens[k], back)
                 /\ Walked(list, tokens, back) = h[n].list
    BY WalkStages
  <1>2. n \in Nat /\ \A k \in 1 .. n : tokens[k] \in Entry
    OBVIOUS
  <1>3. h[0] \in Walk /\ h[0].list = list
    BY <1>1 DEF Walk
  <1> DEFINE Kept(k, c) == /\ h[k] \in Walk
                           /\ VotesFor(h[k].list, c) = VotesFor(list, c) + Prefix(tokens, k, c)
                           /\ back /\ Distinct(list) => Distinct(h[k].list)
                           /\ k > 0 => h[k].list # <<>>
  <1> HIDE DEF n
  <1>4. ASSUME NEW c PROVE Kept(n, c)
    <2> DEFINE Held == {k \in 0 .. n : Kept(k, c)}
    <2>1. /\ VotesFor(list, c) \in Nat /\ Prefix(tokens, 0, c) = 0
          /\ \A k \in 0 .. n : Prefix(tokens, k, c) \in Nat
          /\ \A k \in 1 .. n : Prefix(tokens, k, c) = Prefix(tokens, k - 1, c) + Worth(tokens[k], c)
      BY ListFacts, PrefixFacts DEF n
    <2>2. 0 \in Held
      BY <1>2, <1>3, <2>1
    <2>3. ASSUME NEW k \in 1 .. n, k - 1 \in Held PROVE k \in Held
      <3>1. /\ k - 1 \in 0 .. n /\ k \in 0 .. n /\ h[k - 1] \in Walk
            /\ VotesFor(h[k - 1].list, c) = VotesFor(list, c) + Prefix(tokens, k - 1, c)
            /\ back /\ Distinct(list) => Distinct(h[k - 1].list)
        BY <1>2, <2>3
      <3>2. tokens[k] \in Entry /\ h[k] = WalkOn(h[k - 1], tokens[k], back)
        BY <1>1, <1>2 DEF n
      <3>3. /\ h[k] \in Walk /\ h[k].list # <<>>
            /\ VotesFor(h[k].list, c) = VotesFor(h[k - 1].list, c) + Worth(tokens[k], c)
            /\ back /\ Distinct(h[k - 1].list) => Distinct(h[k].list)
        <4> DEFINE w == h[k - 1]
                   t == tokens[k]
        <4>1. w \in Walk /\ t \in Entry /\ h[k] = WalkOn(w, t, back)
          BY <3>1, <3>2
        <4> HIDE DEF w, t
        <4>2. /\ WalkOn(w, t, back) \in Walk /\ WalkOn(w, t, back).list # <<>>
              /\ VotesFor(WalkOn(w, t, back).list, c) = VotesFor(w.list, c) + Worth(t, c)
              /\ back /\ Distinct(w.list) => Distinct(WalkOn(w, t, back).list)
          BY <4>1, WalkOnTyped
        <4> QED BY <4>1, <4>2 DEF w, t
      <3>4. Worth(tokens[k], c) \in Nat
        BY <3>2 DEF Worth, Entry
      <3>5. VotesFor(h[k].list, c) = VotesFor(list, c) + Prefix(tokens, k, c)
        BY <2>1, <3>1, <3>3, <3>4
      <3> QED BY <3>1, <3>3, <3>5
    <2>4. 0 .. n \subseteq Held
      <3> HIDE DEF Held
      <3> QED BY <1>2, <2>2, <2>3, UpTo
    <2>5. n \in 0 .. n
      BY <1>2
    <2> QED BY <2>4, <2>5
  <1>5. ASSUME NEW c PROVE VotesFor(h[n].list, c) = VotesFor(list, c) + VotesFor(tokens, c)
    <2>1. Prefix(tokens, n, c) = VotesFor(tokens, c)
      BY PrefixFacts DEF n
    <2> QED BY <1>4, <2>1
  <1>6. h[n] \in Walk /\ (back /\ Distinct(list) => Distinct(h[n].list)) /\ (n > 0 => h[n].list # <<>>)
    BY <1>4
  <1>7. (tokens # <<>> <=> n > 0) /\ (n = 0 => h[n].list = list)
    BY <1>3 DEF n
  <1>8. h[n].list \in Seq(Entry)
    BY <1>6 DEF Walk
  <1>9. (tokens # <<>> => n > 0) /\ (tokens = <<>> => n = 0)
    BY <1>7, <1>2
  <1> HIDE DEF Kept
  <1> QED BY <1>1, <1>5, <1>6, <1>7, <1>8, <1>9 DEF n
\* A merge makes no second entry for a name.
LEMMA MergeRight ==
  ASSUME NEW list \in Seq(Entry), NEW tokens \in Seq(Entry)
  PROVE  /\ Merge(list, tokens) \in Seq(Entry)
         /\ \A c : VotesFor(Merge(list, tokens), c) = VotesFor(list, c) + VotesFor(tokens, c)
         /\ Distinct(list) => Distinct(Merge(list, tokens))
         /\ tokens # <<>> => Merge(list, tokens) # <<>>
         /\ tokens = <<>> => Merge(list, tokens) = list
  <1>1. PICK back \in BOOLEAN : back = TRUE
    OBVIOUS
  <1>2. Merge(list, tokens) = Walked(list, tokens, back)
    BY <1>1 DEF Merge
  <1>3. back
    BY <1>1
  <1> DEFINE new == Walked(list, tokens, back)
  <1>4. /\ new \in Seq(Entry)
        /\ \A c : VotesFor(new, c) = VotesFor(list, c) + VotesFor(tokens, c)
        /\ Distinct(list) => Distinct(new)
        /\ tokens # <<>> => new # <<>>
        /\ tokens = <<>> => new = list
    BY <1>3, WalkedRight
  <1> HIDE DEF new
  <1> QED BY <1>2, <1>4 DEF new
-----------------------------------------------------------------------------
(***************************************************************************)
(* Subtract, which Remove_Votes calls when no token is lacking.            *)
(***************************************************************************)
\* A subtraction that were not covered would leave a negative count.
Signed == Seq([who : Candidates, n : Int])

LEMMA SubtractTokenTyped ==
  ASSUME NEW list \in Signed, NEW t \in Entry
  PROVE  SubtractToken(list, t) \in Signed
  <1> DEFINE m == Min(Ahead(list, 0, t.who))
             E == [who : Candidates, n : Int]
  <1>1. SubtractToken(list, t) = [list EXCEPT ![m].n = list[m].n - t.n]
    BY DEF SubtractToken
  <1> HIDE DEF m
  <1>2. CASE m \in DOMAIN list
    <2> DEFINE e == [list[m] EXCEPT !.n = list[m].n - t.n]
    <2>1. list[m] \in E /\ t.n \in Int
      <3>1. list \in Seq(E)
        BY DEF Signed
      <3>2. t.n \in Int
        BY DEF Entry
      <3> HIDE DEF E
      <3>3. list[m] \in E
        BY <1>2, <3>1
      <3> QED BY <3>2, <3>3
    <2>2. e \in E
      BY <2>1
    <2>3. SubtractToken(list, t) = [list EXCEPT ![m] = e]
      BY <1>1
    <2> HIDE DEF e, E
    <2>4. [list EXCEPT ![m] = e] \in Seq(E)
      <3>1. list \in Seq(E)
        BY DEF Signed, E
      <3> QED BY <1>2, <2>2, <3>1, ExceptSeq
    <2> QED BY <2>3, <2>4 DEF Signed, E
  <1>3. CASE m \notin DOMAIN list
    <2>1. [list EXCEPT ![m].n = list[m].n - t.n] = list
      <3>1. list = [k \in DOMAIN list |-> list[k]]
        BY DEF Signed
      <3> QED BY <1>3, <3>1
    <2> QED BY <1>1, <2>1
  <1> QED BY <1>2, <1>3


\* The list after each of the tokens.
LEMMA SubtractStages ==
  ASSUME NEW list \in Signed, NEW tokens \in Seq(Entry)
  PROVE  \E h : /\ h[0] = list
                /\ \A k \in 1 .. Len(tokens) : h[k] = SubtractToken(h[k - 1], tokens[k])
                /\ Subtract(list, tokens) = h[Len(tokens)]
  <1> DEFINE n == Len(tokens)
             D == 1 .. n
             V == Signed
             base == list
             g == [p \in D \X V |-> SubtractToken(p[2], tokens[p[1]])]
             Iter(f) == [s \in SUBSET D |-> IF s = {} THEN base
                                           ELSE SubtractToken(f[s \ {Max(s)}], tokens[Max(s)])]
             chosen == CHOOSE f : f = Iter(f)
             h == [k \in 0 .. n |-> chosen[1 .. k]]
  <1>1. n \in Nat /\ DOMAIN tokens = D /\ base \in V
    OBVIOUS
  <1>2. g \in [D \X V -> V]
    <2>1. ASSUME NEW p \in D \X V PROVE SubtractToken(p[2], tokens[p[1]]) \in V
      <3>1. p[2] \in Signed /\ tokens[p[1]] \in Entry
        BY <1>1
      <3> QED BY <3>1, SubtractTokenTyped
    <2> HIDE DEF D, V
    <2> QED BY <2>1
  <1>3. PICK f \in [SUBSET D -> V] : SeqSolves(f, n, base, g)
    <2> HIDE DEF g, V, base, n
    <2> QED BY <1>1, <1>2, SeqRecursion
  <1>4. ASSUME NEW s \in SUBSET D
        PROVE  f[s] = IF s = {} THEN base ELSE SubtractToken(f[s \ {Max(s)}], tokens[Max(s)])
    <2> HIDE DEF V, base, n
    <2>1. CASE s = {}
      BY <1>3, <2>1 DEF SeqSolves
    <2>2. CASE s # {}
      <3>1. Max(s) \in D
        BY <1>1, <2>2, MaxInside
      <3>2. <<Max(s), f[s \ {Max(s)}]>> \in D \X V
        BY <1>3, <3>1
      <3>3. g[<<Max(s), f[s \ {Max(s)}]>>] = SubtractToken(f[s \ {Max(s)}], tokens[Max(s)])
        BY <3>2
      <3> HIDE DEF g
      <3> QED BY <1>3, <2>2, <3>3 DEF SeqSolves
    <2> QED BY <2>1, <2>2
  <1>5. f = Iter(f)
    <2> HIDE DEF D, g, V, base
    <2> QED BY <1>3, <1>4
  <1>6. chosen = Iter(chosen)
    <2> HIDE DEF Iter
    <2> QED BY <1>5
  <1>7. Subtract(list, tokens) = chosen[D]
    BY <1>1 DEF Subtract, FoldLeft, MapThenFoldSet
  <1>8. h[0] = base
    <2>1. 1 .. 0 = {} /\ {} \in SUBSET D
      OBVIOUS
    <2>2. chosen[{}] = base
      BY <1>6, <2>1
    <2> HIDE DEF chosen, base, n
    <2> QED BY <1>1, <2>1, <2>2
  <1>9. ASSUME NEW k \in D PROVE h[k] = SubtractToken(h[k - 1], tokens[k])
    <2>1. 1 .. k \in SUBSET D /\ 1 .. k # {} /\ k - 1 \in 0 .. n /\ k \in 0 .. n
      BY <1>1, SMTT(20)
    <2>2. Max(1 .. k) = k /\ (1 .. k) \ {Max(1 .. k)} = 1 .. k - 1
      BY <1>1, MaxOfInterval
    <2>3. chosen[1 .. k] = SubtractToken(chosen[(1 .. k) \ {Max(1 .. k)}], tokens[Max(1 .. k)])
      <3> HIDE DEF chosen, base
      <3> QED BY <1>6, <2>1
    <2> HIDE DEF chosen, n
    <2> QED BY <2>1, <2>2, <2>3
  <1>10. Subtract(list, tokens) = h[n]
    <2> HIDE DEF chosen, n
    <2> QED BY <1>1, <1>7
  <1> HIDE DEF h
  <1> QED BY <1>8, <1>9, <1>10


\* Remove_Votes takes exactly the votes of the tokens, which have each name once.
LEMMA SubtractRight ==
  ASSUME NEW list \in Seq(Entry), NEW tokens \in Seq(Entry), Distinct(tokens),
         Lacking(list, tokens) = {}
  PROVE  /\ Subtract(list, tokens) \in Seq(Entry)
         /\ DOMAIN Subtract(list, tokens) = DOMAIN list
         /\ \A c : VotesFor(Subtract(list, tokens), c) = VotesFor(list, c) - VotesFor(tokens, c)
  <1> DEFINE n == Len(tokens)
  <1>1. PICK h : /\ h[0] = list
                 /\ \A k \in 1 .. n : h[k] = SubtractToken(h[k - 1], tokens[k])
                 /\ Subtract(list, tokens) = h[n]
    <2>1. list \in Signed
      <3> DEFINE E == [who : Candidates, n : Int]
      <3>1. Len(list) \in Nat /\ \A k \in 1 .. Len(list) : list[k] \in Entry
        OBVIOUS
      <3>2. \A e \in Entry : e \in E
        BY DEF Entry
      <3> HIDE DEF E, Entry
      <3>3. list \in [1 .. Len(list) -> E]
        BY <3>1, <3>2
      <3>4. list \in Seq(E)
        BY <3>1, <3>3, SeqDef
      <3> QED BY <3>4 DEF Signed, E
    <2> QED BY <2>1, SubtractStages
  <1>2. n \in Nat /\ \A k \in 1 .. n : tokens[k] \in Entry /\ tokens[k] \in ToSet(tokens)
    BY DEF ToSet
  <1>3. DOMAIN list = 1 .. Len(list) /\ Len(list) \in Nat /\ DOMAIN tokens = 1 .. n
    OBVIOUS
  <1> DEFINE Untouched(k, l) == \A i \in DOMAIN list :
                  (\A j \in 1 .. k : tokens[j].who # list[i].who) => l[i] = list[i]
             Kept(k, c) == /\ h[k] \in Seq(Entry)
                           /\ DOMAIN h[k] = DOMAIN list
                           /\ \A i \in DOMAIN list : h[k][i].who = list[i].who
                           /\ Untouched(k, h[k])
                           /\ VotesFor(h[k], c) = VotesFor(list, c) - Prefix(tokens, k, c)
  <1> HIDE DEF n
  <1>4. ASSUME NEW c PROVE Kept(n, c)
    <2> DEFINE Held == {k \in 0 .. n : Kept(k, c)}
    <2>1. /\ VotesFor(list, c) \in Nat /\ Prefix(tokens, 0, c) = 0
          /\ \A k \in 0 .. n : Prefix(tokens, k, c) \in Nat
          /\ \A k \in 1 .. n : Prefix(tokens, k, c) = Prefix(tokens, k - 1, c) + Worth(tokens[k], c)
      BY ListFacts, PrefixFacts DEF n
    <2>2. 0 \in Held
      <3>1. 0 \in 0 .. n
        BY <1>2
      <3> QED BY <1>1, <2>1, <3>1
    <2>3. ASSUME NEW k \in 1 .. n, k - 1 \in Held PROVE k \in Held
      <3> DEFINE l == h[k - 1]
                 t == tokens[k]
                 m == Min(Ahead(list, 0, t.who))
      <3>1. /\ k - 1 \in 0 .. n /\ k \in 0 .. n /\ l \in Seq(Entry) /\ DOMAIN l = DOMAIN list
            /\ \A i \in DOMAIN list : l[i].who = list[i].who
            /\ Untouched(k - 1, l)
            /\ VotesFor(l, c) = VotesFor(list, c) - Prefix(tokens, k - 1, c)
        BY <1>2, <2>3
      <3>2. t \in Entry /\ t \in ToSet(tokens) /\ h[k] = SubtractToken(l, t)
        BY <1>1, <1>2
      <3>3. Ahead(list, 0, t.who) # {} /\ ~ (list[m].n < t.n)
        BY <3>2 DEF Lacking
      <3> HIDE DEF l, Untouched
      <3>4. Ahead(l, 0, t.who) = Ahead(list, 0, t.who)
        <4>1. Len(l) = Len(list)
          BY <1>3, <3>1
        <4> QED BY <1>3, <3>1, <4>1 DEF Ahead
      <3>5. m \in DOMAIN list /\ list[m].who = t.who
        BY <3>3, AheadFacts
      <3>6. l[m] = list[m]
        <4>1. \A j \in 1 .. (k - 1) : tokens[j].who # list[m].who
          <5> SUFFICES ASSUME NEW j \in 1 .. (k - 1), tokens[j].who = t.who PROVE FALSE
            BY <3>5
          <5>1. j \in DOMAIN tokens /\ k \in DOMAIN tokens /\ j # k
            BY <1>2, <1>3
          <5> QED BY <5>1 DEF Distinct
        <4> QED BY <3>1, <3>5, <4>1 DEF Untouched
      <3> HIDE DEF m, t
      <3> DEFINE d == list[m].n - t.n
      <3>7. d \in Nat /\ list[m].n \in Nat /\ t.n \in Nat /\ l[m].n = list[m].n
        <4>1. list[m].n \in Nat /\ t.n \in Nat
          BY <3>2, <3>5, ListFacts DEF Entry
        <4> QED BY <3>3, <3>6, <4>1 DEF m
      <3>8. h[k] = [l EXCEPT ![m].n = d]
        <4>1. h[k] = [l EXCEPT ![m].n = l[m].n - t.n]
          BY <3>2, <3>4 DEF SubtractToken, m
        <4> QED BY <3>6, <4>1
      <3> HIDE DEF d
      <3> DEFINE new == [l EXCEPT ![m].n = d]
      <3>9. /\ new \in Seq(Entry) /\ DOMAIN new = DOMAIN l
            /\ \A i \in DOMAIN l : new[i] = IF i = m THEN [l[m] EXCEPT !.n = d] ELSE l[i]
            /\ \A i \in DOMAIN l : new[i].who = l[i].who
            /\ VotesFor(new, c) = VotesFor(l, c) + (IF l[m].who = c THEN d - l[m].n ELSE 0)
        <4>1. l \in Seq(Entry) /\ m \in DOMAIN l /\ d \in Nat
          BY <3>1, <3>5, <3>7
        <4> DEFINE fresh == [l EXCEPT ![m].n = d]
        <4>2. /\ fresh \in Seq(Entry) /\ DOMAIN fresh = DOMAIN l
              /\ \A i \in DOMAIN l : fresh[i] = IF i = m THEN [l[m] EXCEPT !.n = d] ELSE l[i]
              /\ \A i \in DOMAIN l : fresh[i].who = l[i].who
              /\ \A c2 : VotesFor(fresh, c2)
                          = VotesFor(l, c2) + (IF l[m].who = c2 THEN d - l[m].n ELSE 0)
          BY <4>1, VotesReplaced
        <4>3. fresh = new
          OBVIOUS
        <4> HIDE DEF fresh, new
        <4> QED BY <4>2, <4>3
      <3> HIDE DEF new
      <3>10. Untouched(k, new)
        <4> SUFFICES ASSUME NEW i \in DOMAIN list, \A j \in 1 .. k : tokens[j].who # list[i].who
                     PROVE  new[i] = list[i]
          BY DEF Untouched
        <4>1. k \in 1 .. k /\ 1 .. (k - 1) \subseteq 1 .. k
          BY <1>2
        <4>2. i # m
          BY <3>5, <4>1 DEF t
        <4>3. l[i] = list[i]
          BY <3>1, <4>1 DEF Untouched
        <4> QED BY <3>1, <3>9, <4>2, <4>3
      <3>11. VotesFor(new, c) = VotesFor(list, c) - Prefix(tokens, k, c)
        <4>1. (IF l[m].who = c THEN d - l[m].n ELSE 0) = 0 - Worth(t, c) /\ Worth(t, c) \in Nat
          BY <3>5, <3>6, <3>7 DEF Worth, d
        <4>2. Prefix(tokens, k, c) = Prefix(tokens, k - 1, c) + Worth(t, c)
          BY <2>1 DEF t
        <4>3. Prefix(tokens, k - 1, c) \in Nat
          BY <2>1, <3>1
        <4> QED BY <2>1, <3>1, <3>9, <4>1, <4>2, <4>3
      <3>12. Kept(k, c)
        BY <3>1, <3>8, <3>9, <3>10, <3>11 DEF new
      <3> QED BY <3>1, <3>12
    <2>4. 0 .. n \subseteq Held
      <3> HIDE DEF Held
      <3> QED BY <1>2, <2>2, <2>3, UpTo
    <2>5. n \in 0 .. n
      BY <1>2
    <2> QED BY <2>4, <2>5
  <1>5. ASSUME NEW c PROVE VotesFor(h[n], c) = VotesFor(list, c) - VotesFor(tokens, c)
    <2>1. Prefix(tokens, n, c) = VotesFor(tokens, c)
      BY PrefixFacts DEF n
    <2> QED BY <1>4, <2>1
  <1>6. h[n] \in Seq(Entry) /\ DOMAIN h[n] = DOMAIN list
    BY <1>4
  <1> HIDE DEF Kept
  <1> QED BY <1>1, <1>5, <1>6
-----------------------------------------------------------------------------
(***************************************************************************)
(* LeafCounter, the client's count of a vote file.                         *)
(***************************************************************************)
Counter == {list \in Seq(Entry) : Distinct(list)}

\* One ballot is counted for its name, in the name's only entry.
LEMMA CountVoteRight ==
  ASSUME NEW list \in Counter, NEW who \in Candidates
  PROVE  /\ CountVote(list, who) \in Counter
         /\ \A c : VotesFor(CountVote(list, who), c)
                     = VotesFor(list, c) + (IF who = c THEN 1 ELSE 0)
         /\ CountVote(list, who) # <<>>
  <1>1. /\ list \in Seq(Entry) /\ Distinct(list) /\ DOMAIN list = 1 .. Len(list)
        /\ \A k \in DOMAIN list : list[k] \in Entry
    BY ListFacts DEF Counter
  <1>2. CASE \E i \in DOMAIN list : list[i].who = who
    <2>1. PICK i \in DOMAIN list : list[i].who = who
      BY <1>2
    <2> DEFINE m == list[i].n + 1
               new == [list EXCEPT ![i].n = m]
    <2>2. list[i] \in Entry /\ list[i].n \in Nat /\ m \in Nat
      BY <1>1, ListFacts
    <2>3. CountVote(list, who) = new
      <3>1. CountVote(list, who)
              = [j \in DOMAIN list |-> IF list[j].who = who THEN [who |-> who, n |-> list[j].n + 1]
                                       ELSE list[j]]
        BY <1>2 DEF CountVote
      <3>2. \A j \in DOMAIN list : list[j].who = who <=> j = i
        BY <1>1, <2>1 DEF Distinct
      <3>3. [who |-> who, n |-> list[i].n + 1] = [list[i] EXCEPT !.n = m]
        BY <2>1, <2>2 DEF Entry
      <3>4. \A j \in DOMAIN list : new[j] = IF j = i THEN [list[i] EXCEPT !.n = m] ELSE list[j]
        BY <1>1
      <3>5. new = [j \in DOMAIN list |-> new[j]]
        BY <1>1
      <3> HIDE DEF new, m
      <3> QED BY <3>1, <3>2, <3>3, <3>4, <3>5 DEF m
    <2> HIDE DEF m, new
    <2>4. /\ new \in Seq(Entry) /\ DOMAIN new = DOMAIN list
          /\ \A j \in DOMAIN list : new[j].who = list[j].who
          /\ \A c : VotesFor(new, c)
                      = VotesFor(list, c) + (IF list[i].who = c THEN m - list[i].n ELSE 0)
      <3> DEFINE fresh == [list EXCEPT ![i].n = m]
      <3>1. /\ fresh \in Seq(Entry) /\ DOMAIN fresh = DOMAIN list
            /\ \A j \in DOMAIN list : fresh[j].who = list[j].who
            /\ \A c : VotesFor(fresh, c)
                        = VotesFor(list, c) + (IF list[i].who = c THEN m - list[i].n ELSE 0)
        <4>1. i \in DOMAIN list /\ m \in Nat /\ list \in Seq(Entry)
          BY <1>1, <2>2
        <4>2. /\ fresh \in Seq(Entry) /\ DOMAIN fresh = DOMAIN list
              /\ \A j \in DOMAIN list : fresh[j] = IF j = i THEN [list[i] EXCEPT !.n = m] ELSE list[j]
              /\ \A c : VotesFor(fresh, c)
                          = VotesFor(list, c) + (IF list[i].who = c THEN m - list[i].n ELSE 0)
          BY <4>1, VotesReplaced
        <4> HIDE DEF fresh
        <4>3. \A j \in DOMAIN list : fresh[j].who = list[j].who
          BY <2>2, <4>2 DEF Entry
        <4> QED BY <4>2, <4>3
      <3>2. fresh = new
        BY DEF new
      <3> HIDE DEF fresh
      <3> QED BY <3>1, <3>2
    <2>5. Distinct(new)
      BY <1>1, <2>4 DEF Distinct
    <2>6. m - list[i].n = 1
      BY <2>2 DEF m
    <2>7. new # <<>>
      BY <2>1, <2>4
    <2> QED BY <2>1, <2>3, <2>4, <2>5, <2>6, <2>7 DEF Counter
  <1>3. CASE \A i \in DOMAIN list : list[i].who # who
    <2> DEFINE e == [who |-> who, n |-> 1]
               new == Append(list, e)
    <2>1. CountVote(list, who) = new
      BY <1>3 DEF CountVote
    <2>2. e \in Entry /\ e.who = who /\ e.n = 1
      BY DEF Entry
    <2> HIDE DEF e
    <2>3. new \in Seq(Entry) /\ \A c : VotesFor(new, c) = VotesFor(list, c) + Worth(e, c)
      BY <1>1, <2>2, VotesAppended
    <2>4. /\ DOMAIN new = DOMAIN list \cup {Len(list) + 1} /\ new[Len(list) + 1] = e
          /\ \A j \in DOMAIN list : new[j] = list[j]
      BY <1>1
    <2>5. new # <<>>
      BY <1>1
    <2> HIDE DEF new
    <2>6. Distinct(new)
      BY <1>1, <1>3, <2>2, <2>4 DEF Distinct
    <2>7. \A c : Worth(e, c) = IF who = c THEN 1 ELSE 0
      BY <2>2 DEF Worth
    <2> QED BY <2>1, <2>3, <2>5, <2>6, <2>7 DEF Counter
  <1> QED BY <1>2, <1>3

\* The counter after each of the ballots.
LEMMA CounterStages ==
  ASSUME NEW file \in Seq(Candidates)
  PROVE  \E h : /\ h[0] = <<>>
                /\ \A k \in 1 .. Len(file) : h[k] = CountVote(h[k - 1], file[k])
                /\ LeafCounter(file) = h[Len(file)]
  <1> DEFINE n == Len(file)
             D == 1 .. n
             V == Counter
             base == <<>>
             g == [p \in D \X V |-> CountVote(p[2], file[p[1]])]
             Iter(f) == [s \in SUBSET D |-> IF s = {} THEN base
                                           ELSE CountVote(f[s \ {Max(s)}], file[Max(s)])]
             chosen == CHOOSE f : f = Iter(f)
             h == [k \in 0 .. n |-> chosen[1 .. k]]
  <1>1. n \in Nat /\ DOMAIN file = D /\ base \in V
    <2>1. <<>> \in Seq(Entry) /\ Distinct(<<>>)
      BY DEF Distinct
    <2> QED BY <2>1 DEF Counter
  <1>2. g \in [D \X V -> V]
    <2>1. ASSUME NEW p \in D \X V PROVE CountVote(p[2], file[p[1]]) \in V
      <3>1. p[2] \in Counter /\ file[p[1]] \in Candidates
        BY <1>1
      <3> QED BY <3>1, CountVoteRight
    <2> HIDE DEF D, V
    <2> QED BY <2>1
  <1>3. PICK f \in [SUBSET D -> V] : SeqSolves(f, n, base, g)
    <2> HIDE DEF g, V, base, n
    <2> QED BY <1>1, <1>2, SeqRecursion
  <1>4. ASSUME NEW s \in SUBSET D
        PROVE  f[s] = IF s = {} THEN base ELSE CountVote(f[s \ {Max(s)}], file[Max(s)])
    <2> HIDE DEF V, base, n
    <2>1. CASE s = {}
      BY <1>3, <2>1 DEF SeqSolves
    <2>2. CASE s # {}
      <3>1. Max(s) \in D
        BY <1>1, <2>2, MaxInside
      <3>2. <<Max(s), f[s \ {Max(s)}]>> \in D \X V
        BY <1>3, <3>1
      <3>3. g[<<Max(s), f[s \ {Max(s)}]>>] = CountVote(f[s \ {Max(s)}], file[Max(s)])
        BY <3>2
      <3> HIDE DEF g
      <3> QED BY <1>3, <2>2, <3>3 DEF SeqSolves
    <2> QED BY <2>1, <2>2
  <1>5. f = Iter(f)
    <2> HIDE DEF D, g, V, base
    <2> QED BY <1>3, <1>4
  <1>6. chosen = Iter(chosen)
    <2> HIDE DEF Iter
    <2> QED BY <1>5
  <1>7. LeafCounter(file) = chosen[D]
    BY <1>1 DEF LeafCounter, FoldLeft, MapThenFoldSet
  <1>8. h[0] = base
    <2>1. 1 .. 0 = {} /\ {} \in SUBSET D
      OBVIOUS
    <2>2. chosen[{}] = base
      BY <1>6, <2>1
    <2> HIDE DEF chosen, base, n
    <2> QED BY <1>1, <2>1, <2>2
  <1>9. ASSUME NEW k \in D PROVE h[k] = CountVote(h[k - 1], file[k])
    <2>1. 1 .. k \in SUBSET D /\ 1 .. k # {} /\ k - 1 \in 0 .. n /\ k \in 0 .. n
      BY <1>1
    <2>2. Max(1 .. k) = k /\ (1 .. k) \ {Max(1 .. k)} = 1 .. k - 1
      BY <1>1, MaxOfInterval
    <2>3. chosen[1 .. k] = CountVote(chosen[(1 .. k) \ {Max(1 .. k)}], file[Max(1 .. k)])
      <3> HIDE DEF chosen, base
      <3> QED BY <1>6, <2>1
    <2> HIDE DEF chosen, n
    <2> QED BY <2>1, <2>2, <2>3
  <1>10. LeafCounter(file) = h[n]
    <2> HIDE DEF chosen, n
    <2> QED BY <1>1, <1>7
  <1> HIDE DEF h
  <1> QED BY <1>8, <1>9, <1>10

\* The counter has each name once, with the number of its ballots.
LEMMA LeafCounterRight ==
  ASSUME NEW file \in Seq(Candidates), file # <<>>
  PROVE  /\ LeafCounter(file) \in Seq(Entry)
         /\ Distinct(LeafCounter(file))
         /\ LeafCounter(file) # <<>>
         /\ \A c : Ballots(file, c) \in Nat /\ VotesFor(LeafCounter(file), c) = Ballots(file, c)
  <1> DEFINE n == Len(file)
  <1>1. PICK h : /\ h[0] = <<>>
                 /\ \A k \in 1 .. n : h[k] = CountVote(h[k - 1], file[k])
                 /\ LeafCounter(file) = h[n]
    BY CounterStages
  <1>2. n \in Nat /\ n > 0 /\ DOMAIN file = 1 .. n /\ \A k \in 1 .. n : file[k] \in Candidates
    OBVIOUS
  <1> DEFINE Upto(c, k) == Cardinality(Occurrences(file, k, c))
             Kept(k, c) == /\ h[k] \in Counter
                           /\ k > 0 => h[k] # <<>>
                           /\ Upto(c, k) \in Nat
                           /\ VotesFor(h[k], c) = Upto(c, k)
  <1> HIDE DEF n
  <1>3. ASSUME NEW c PROVE Kept(n, c)
    <2> DEFINE Held == {k \in 0 .. n : Kept(k, c)}
    <2>1. 0 \in Held
      <3>1. <<>> \in Counter /\ VotesFor(<<>>, c) = 0
        BY VotesOfNone DEF Counter, Distinct
      <3>2. Occurrences(file, 0, c) = {}
        BY DEF Occurrences
      <3>3. Upto(c, 0) = 0
        BY <3>2, FS_EmptySet
      <3>4. 0 \in 0 .. n
        BY <1>2
      <3> HIDE DEF Upto
      <3> QED BY <1>1, <3>1, <3>3, <3>4
    <2>2. ASSUME NEW k \in 1 .. n, k - 1 \in Held PROVE k \in Held
      <3>1. k \in Nat \ {0} /\ file[k] \in Candidates /\ k \in 0 .. n
        BY <1>2
      <3>2. /\ Upto(c, k - 1) \in Nat
            /\ Upto(c, k) = IF file[k] = c THEN Upto(c, k - 1) + 1 ELSE Upto(c, k - 1)
        BY <3>1, OnceMore
      <3> HIDE DEF Upto
      <3>3. h[k - 1] \in Counter /\ VotesFor(h[k - 1], c) = Upto(c, k - 1)
        BY <2>2
      <3>4. h[k] = CountVote(h[k - 1], file[k])
        BY <1>1 DEF n
      <3>5. /\ h[k] \in Counter /\ h[k] # <<>>
            /\ VotesFor(h[k], c) = VotesFor(h[k - 1], c) + (IF file[k] = c THEN 1 ELSE 0)
        BY <3>1, <3>3, <3>4, CountVoteRight
      <3> QED BY <3>1, <3>2, <3>3, <3>5
    <2>3. 0 .. n \subseteq Held
      <3> HIDE DEF Held
      <3> QED BY <1>2, <2>1, <2>2, UpTo
    <2>4. n \in 0 .. n
      BY <1>2
    <2> QED BY <2>3, <2>4
  <1>4. \A c : Upto(c, n) = Ballots(file, c)
    BY <1>2 DEF Ballots, Occurrences
  <1> HIDE DEF Upto
  <1> QED BY <1>1, <1>2, <1>3, <1>4 DEF Counter
-----------------------------------------------------------------------------
(***************************************************************************)
(* Gathered and Aggregated.                                                *)
(***************************************************************************)
Lists == Seq(Entry)

\* The lists gathered from some of the regions, the last of them merged last.
Gathering(f, S, list, lists) ==
  /\ f \in [SUBSET S -> Lists]
  /\ Gathered(list, lists) = f[S]
  /\ f[{}] = list
  /\ \A s \in SUBSET S : s # {} => f[s] = Merge(f[s \ {Max(s)}], lists[Max(s)])

LEMMA SlotFinite == IsFiniteSet(Slot)
  BY FS_Interval, DagAssumption DEF Slot

LEMMA LargestSlot ==
  ASSUME NEW s \in SUBSET Slot, s # {} PROVE Max(s) \in s
  BY MaxInside, DagAssumption DEF Slot

LEMMA GatherStages ==
  ASSUME NEW S \in SUBSET Slot,
         NEW list \in Lists, NEW lists \in [S -> Lists]
  PROVE  \E f : Gathering(f, S, list, lists)
  <1> DEFINE pick == [s \in SUBSET S |-> Max(s)]
             g == [p \in S \X Lists |-> Merge(p[2], lists[p[1]])]
             Iter(f) == [s \in SUBSET S |-> IF s = {} THEN list
                                           ELSE Merge(f[s \ {Max(s)}], lists[Max(s)])]
             chosen == CHOOSE f : f = Iter(f)
  <1>1. IsFiniteSet(S)
    BY SlotFinite, FS_Subset
  <1>2. Picks(pick, S)
    BY LargestSlot DEF Picks
  <1>3. g \in [S \X Lists -> Lists]
    <2>1. ASSUME NEW p \in S \X Lists PROVE Merge(p[2], lists[p[1]]) \in Lists
      BY MergeRight DEF Lists
    <2> HIDE DEF Lists
    <2> QED BY <2>1
  <1>4. PICK f \in [SUBSET S -> Lists] : Solves(f, S, list, g, pick)
    <2> HIDE DEF g, pick, Lists
    <2> QED BY <1>1, <1>2, <1>3, SubsetRecursion
  <1>5. ASSUME NEW s \in SUBSET S
        PROVE  f[s] = IF s = {} THEN list ELSE Merge(f[s \ {Max(s)}], lists[Max(s)])
    <2> HIDE DEF Lists
    <2>1. CASE s = {}
      BY <1>4, <2>1 DEF Solves
    <2>2. CASE s # {}
      <3>1. Max(s) \in S /\ pick[s] = Max(s)
        BY <2>2, LargestSlot
      <3>2. <<Max(s), f[s \ {Max(s)}]>> \in S \X Lists
        BY <1>4, <3>1
      <3>3. g[<<Max(s), f[s \ {Max(s)}]>>] = Merge(f[s \ {Max(s)}], lists[Max(s)])
        BY <3>2
      <3> HIDE DEF g, pick
      <3> QED BY <1>4, <2>2, <3>1, <3>3 DEF Solves
    <2> QED BY <2>1, <2>2
  <1>6. f = Iter(f)
    <2> HIDE DEF g, pick, Lists
    <2> QED BY <1>4, <1>5
  <1>7. chosen = Iter(chosen)
    <2> HIDE DEF Iter
    <2> QED BY <1>6
  <1>8. Gathered(list, lists) = chosen[S]
    <2>1. DOMAIN lists = S
      OBVIOUS
    <2> QED BY <2>1 DEF Gathered, MapThenFoldSet
  <1> DEFINE Fits == {s \in SUBSET S : chosen[s] \in Lists}
  <1>9. \A s \in SUBSET S :
          chosen[s] = IF s = {} THEN list ELSE Merge(chosen[s \ {Max(s)}], lists[Max(s)])
    <2> HIDE DEF chosen
    <2> QED BY <1>7
  <1> HIDE DEF chosen
  <1>10. SUBSET S \subseteq Fits
    <2>1. {} \in Fits
      BY <1>9
    <2>2. ASSUME NEW s \in SUBSET S, s # {}, \A x \in s : s \ {x} \in Fits PROVE s \in Fits
      <3>1. Max(s) \in s
        BY <2>2, LargestSlot
      <3>2. chosen[s \ {Max(s)}] \in Lists /\ lists[Max(s)] \in Lists
        BY <2>2, <3>1
      <3>3. Merge(chosen[s \ {Max(s)}], lists[Max(s)]) \in Lists
        BY <3>2, MergeRight DEF Lists
      <3> QED BY <1>9, <2>2, <3>3
    <2> HIDE DEF Fits
    <2> QED BY <1>1, <2>1, <2>2, SubsetByElement
  <1>11. chosen \in [SUBSET S -> Lists]
    <2>1. chosen = [s \in SUBSET S |-> chosen[s]]
      BY <1>7
    <2>2. \A s \in SUBSET S : chosen[s] \in Lists
      BY <1>10
    <2> HIDE DEF Lists
    <2> QED BY <2>1, <2>2
  <1>12. Gathering(chosen, S, list, lists)
    <2>1. chosen[{}] = list
      BY <1>9
    <2>2. \A s \in SUBSET S : s # {} => chosen[s] = Merge(chosen[s \ {Max(s)}], lists[Max(s)])
      BY <1>9
    <2> HIDE DEF Lists
    <2> QED BY <1>8, <1>11, <2>1, <2>2 DEF Gathering
  <1> QED BY <1>12

\* What is gathered holds the votes of all the lists together, and nothing else.
LEMMA GatheredRight ==
  ASSUME NEW S \in SUBSET Slot,
         NEW list \in Lists, NEW lists \in [S -> Lists]
  PROVE  /\ Gathered(list, lists) \in Lists
         /\ \A c : VotesFor(Gathered(list, lists), c)
                     = VotesFor(list, c) + SumFunctionOnSet([x \in S |-> VotesFor(lists[x], c)], S)
         /\ Distinct(list) => Distinct(Gathered(list, lists))
         /\ Gathered(list, lists) = <<>> <=> list = <<>> /\ \A x \in S : lists[x] = <<>>
         /\ S = {} => Gathered(list, lists) = list
  <1>1. PICK f \in [SUBSET S -> Lists] :
          Gathering(f, S, list, lists) /\ Gathered(list, lists) = f[S]
    <2>1. \E f : Gathering(f, S, list, lists)
      BY GatherStages
    <2> QED BY <2>1 DEF Gathering
  <1>2. IsFiniteSet(S)
    BY SlotFinite, FS_Subset
  <1> DEFINE Right(s, c) ==
               /\ VotesFor(f[s], c)
                    = VotesFor(list, c) + SumFunctionOnSet([x \in S |-> VotesFor(lists[x], c)], s)
               /\ Distinct(list) => Distinct(f[s])
               /\ f[s] = <<>> <=> list = <<>> /\ \A x \in s : lists[x] = <<>>
  <1>3. ASSUME NEW c PROVE Right(S, c)
    <2> DEFINE amount == [x \in S |-> VotesFor(lists[x], c)]
               Held == {s \in SUBSET S : Right(s, c)}
    <2>1. amount \in [S -> Nat] /\ amount \in [S -> Int] /\ VotesFor(list, c) \in Nat
      <3>1. \A x \in S : VotesFor(lists[x], c) \in Nat
        BY ListFacts DEF Lists
      <3> QED BY <3>1, ListFacts DEF Lists
    <2> HIDE DEF amount
    <2>2. {} \in Held
      <3>1. SumFunctionOnSet(amount, {}) = 0
        BY <1>2, <2>1, SumEmpty
      <3>2. f[{}] = list
        BY <1>1 DEF Gathering
      <3> QED BY <2>1, <3>1, <3>2 DEF amount
    <2>3. ASSUME NEW s \in SUBSET S, s # {}, \A x \in s : s \ {x} \in Held PROVE s \in Held
      <3> DEFINE m == Max(s)
                 rest == s \ {m}
      <3>1. m \in s
        BY <2>3, LargestSlot
      <3>2. rest \in SUBSET S /\ Right(rest, c) /\ f[s] = Merge(f[rest], lists[m])
        BY <1>1, <2>3, <3>1 DEF Gathering
      <3> HIDE DEF m, rest
      <3>3. f[rest] \in Seq(Entry) /\ lists[m] \in Seq(Entry)
        BY <1>1, <3>1, <3>2 DEF Lists
      <3>4. /\ VotesFor(f[s], c) = VotesFor(f[rest], c) + VotesFor(lists[m], c)
            /\ Distinct(f[rest]) => Distinct(f[s])
            /\ lists[m] # <<>> => f[s] # <<>>
            /\ lists[m] = <<>> => f[s] = f[rest]
        <4> DEFINE l == f[rest]
                   o == lists[m]
        <4>1. l \in Seq(Entry) /\ o \in Seq(Entry) /\ f[s] = Merge(l, o)
          BY <3>2, <3>3
        <4> HIDE DEF l, o
        <4>2. /\ VotesFor(f[s], c) = VotesFor(l, c) + VotesFor(o, c)
              /\ Distinct(l) => Distinct(f[s])
              /\ o # <<>> => f[s] # <<>>
              /\ o = <<>> => f[s] = l
          BY <4>1, MergeRight
        <4> QED BY <4>2 DEF l, o
      <3>5. SumFunctionOnSet(amount, s) = amount[m] + SumFunctionOnSet(amount, rest)
        <4>1. s \in SUBSET S /\ rest = s \ {m}
          BY DEF rest
        <4> QED BY <1>2, <2>1, <3>1, <4>1, SumAny
      <3>6. amount[m] = VotesFor(lists[m], c) /\ amount[m] \in Nat
        BY <2>1, <3>1 DEF amount
      <3>7. SumFunctionOnSet(amount, rest) \in Nat
        BY <1>2, <2>1, <3>2, SumNat
      <3>8. VotesFor(f[rest], c) = VotesFor(list, c) + SumFunctionOnSet(amount, rest)
        BY <3>2 DEF amount
      <3>9. VotesFor(f[s], c) = VotesFor(list, c) + SumFunctionOnSet(amount, s)
        BY <2>1, <3>4, <3>5, <3>6, <3>7, <3>8
      <3>10. f[s] = <<>> <=> list = <<>> /\ \A x \in s : lists[x] = <<>>
        <4>1. s = rest \cup {m}
          BY <3>1 DEF rest
        <4>2. f[rest] = <<>> <=> list = <<>> /\ \A x \in rest : lists[x] = <<>>
          BY <3>2
        <4> QED BY <3>4, <4>1, <4>2
      <3>11. Distinct(list) => Distinct(f[s])
        BY <3>2, <3>4
      <3>12. Right(s, c)
        BY <3>9, <3>10, <3>11 DEF amount
      <3> QED BY <3>12
    <2>4. SUBSET S \subseteq Held
      <3> HIDE DEF Held
      <3> QED BY <1>2, <2>2, <2>3, SubsetByElement
    <2> QED BY <2>4
  <1>4. f[S] \in Lists
    BY <1>1
  <1>5. \A c : VotesFor(f[S], c)
                 = VotesFor(list, c) + SumFunctionOnSet([x \in S |-> VotesFor(lists[x], c)], S)
    BY <1>3
  <1>6. /\ Distinct(list) => Distinct(f[S])
        /\ f[S] = <<>> <=> list = <<>> /\ \A x \in S : lists[x] = <<>>
    BY <1>3
  <1>7. S = {} => f[S] = list
    BY <1>1 DEF Gathering
  <1> HIDE DEF Right
  <1> QED BY <1>1, <1>4, <1>5, <1>6, <1>7
-----------------------------------------------------------------------------
\* A child is created after its parent, and only the root has none.
TreeShape ==
  /\ parent[Root] = 0
  /\ \A r \in Region : r # Root => parent[r] \in 1 .. (r - 1)

LEMMA ChildrenLater ==
  ASSUME PollTypeOK, TreeShape, NEW r \in Slot, NEW c \in Children(r)
  PROVE  c \in Slot /\ c \in Region /\ r < c
  <1>1. c \in Region /\ parent[c] = r /\ size \in Nat /\ size <= MaxRegions
    BY DagAssumption DEF Children, PollTypeOK, Slot
  <1>2. c # Root
    BY <1>1 DEF TreeShape, Root, Slot
  <1> QED BY <1>1, <1>2, DagAssumption DEF TreeShape, Region, Slot

LEMMA ChildrenInSlot ==
  ASSUME PollTypeOK, TreeShape, NEW r \in Slot PROVE Children(r) \in SUBSET Slot
  BY ChildrenLater

\* The lists aggregate finds at the children of r.
ChildLists(sum, r) == [c \in Children(r) |-> IF HasData(c) THEN counts[c] ELSE sum[c]]

LEMMA ChildListsTyped ==
  ASSUME PollTypeOK, TreeShape, NEW r \in Slot, counts \in [Slot -> Lists],
         NEW sum \in [Slot -> Lists]
  PROVE  ChildLists(sum, r) \in [Children(r) -> Lists]
  <1>1. \A c \in Children(r) : c \in Slot
    BY ChildrenInSlot
  <1> HIDE DEF Lists
  <1> QED BY <1>1 DEF ChildLists

\* The recursion of aggregate ends: it goes from a region to later ones.
LEMMA AggregatedFacts ==
  ASSUME PollTypeOK, TreeShape, counts \in [Slot -> Lists]
  PROVE  /\ Aggregated \in [Slot -> Lists]
         /\ \A r \in Slot : Aggregated[r] = Gathered(counts[r], ChildLists(Aggregated, r))
  <1> DEFINE Step(f, r) == Gathered(counts[r], ChildLists(f, r))
             Beyond(f, k) == \A r \in Slot : MaxRegions - k < r => f[r] = Step(f, r)
             Reached == {k \in Nat : \E f \in [Slot -> Lists] : Beyond(f, k)}
  <1> HIDE DEF Lists
  <1>0. ASSUME NEW f \in [Slot -> Lists], NEW r \in Slot PROVE Step(f, r) \in Lists
    <2>1. ChildLists(f, r) \in [Children(r) -> Lists] /\ Children(r) \in SUBSET Slot
      BY ChildListsTyped, ChildrenInSlot
    <2> QED BY <2>1, GatheredRight
  <1>1. 0 \in Reached
    <2>1. Beyond(counts, 0)
      BY DagAssumption DEF Slot
    <2> QED BY <2>1
  <1>2. ASSUME NEW k \in 1 .. MaxRegions, k - 1 \in Reached PROVE k \in Reached
    <2>1. PICK f \in [Slot -> Lists] : Beyond(f, k - 1)
      BY <1>2
    <2> DEFINE h == [r \in Slot |-> Step(f, r)]
    <2>2. h \in [Slot -> Lists]
      <3> HIDE DEF Step
      <3> QED BY <1>0
    <2>3. ASSUME NEW r \in Slot, MaxRegions - k < r PROVE h[r] = Step(h, r)
      <3>1. ASSUME NEW c \in Children(r) PROVE h[c] = f[c]
        <4>1. c \in Slot /\ r < c
          BY ChildrenLater
        <4>2. MaxRegions - (k - 1) < c
          BY <2>3, <4>1, DagAssumption DEF Slot
        <4> HIDE DEF Step
        <4> QED BY <2>1, <4>1, <4>2
      <3> HIDE DEF h
      <3>2. ChildLists(h, r) = ChildLists(f, r)
        BY <3>1 DEF ChildLists
      <3>3. h[r] = Step(f, r)
        BY DEF h
      <3> QED BY <3>2, <3>3
    <2>4. Beyond(h, k)
      <3> HIDE DEF h, Step
      <3> QED BY <2>3
    <2>5. k \in Nat
      OBVIOUS
    <2> HIDE DEF h, Beyond
    <2> QED BY <2>2, <2>4, <2>5
  <1>3. MaxRegions \in Reached
    <2>1. 0 .. MaxRegions \subseteq Reached
      <3> HIDE DEF Reached
      <3> QED BY <1>1, <1>2, DagAssumption, UpTo
    <2> HIDE DEF Reached
    <2> QED BY <2>1, DagAssumption
  <1>4. PICK f \in [Slot -> Lists] : Beyond(f, MaxRegions)
    BY <1>3
  <1>5. \A r \in Slot : f[r] = Step(f, r)
    BY <1>4, DagAssumption DEF Slot
  <1> DEFINE Iter(g) == [r \in Slot |-> Step(g, r)]
             chosen == CHOOSE g : g = Iter(g)
  <1>6. f = Iter(f)
    <2> HIDE DEF Step
    <2> QED BY <1>5
  <1>7. chosen = Iter(chosen)
    <2> HIDE DEF Iter
    <2> QED BY <1>6
  <1>8. Aggregated = chosen
    BY DEF Aggregated, ChildLists
  <1>9. \A r \in Slot : chosen[r] = Step(chosen, r)
    <2> HIDE DEF chosen, Step
    <2> QED BY <1>7
  <1> DEFINE Typed == {k \in Nat : \A r \in Slot : MaxRegions - k < r => chosen[r] \in Lists}
  <1> HIDE DEF chosen, Step
  <1>10. 0 \in Typed
    BY DagAssumption DEF Slot
  <1>11. ASSUME NEW k \in 1 .. MaxRegions, k - 1 \in Typed PROVE k \in Typed
    <2>1. ASSUME NEW r \in Slot, MaxRegions - k < r PROVE chosen[r] \in Lists
      <3>1. ASSUME NEW c \in Children(r) PROVE chosen[c] \in Lists /\ counts[c] \in Lists
        <4>1. c \in Slot /\ r < c
          BY ChildrenLater
        <4>2. MaxRegions - (k - 1) < c
          BY <2>1, <4>1, DagAssumption DEF Slot
        <4> QED BY <1>11, <4>1, <4>2
      <3>2. ChildLists(chosen, r) \in [Children(r) -> Lists] /\ Children(r) \in SUBSET Slot
        BY <3>1, ChildrenInSlot DEF ChildLists
      <3>3. counts[r] \in Lists
        OBVIOUS
      <3>4. Gathered(counts[r], ChildLists(chosen, r)) \in Lists
        BY <3>2, <3>3, GatheredRight
      <3> QED BY <1>9, <3>4 DEF Step
    <2> QED BY <2>1
  <1>12. MaxRegions \in Typed
    <2>1. 0 .. MaxRegions \subseteq Typed
      <3> HIDE DEF Typed
      <3> QED BY <1>10, <1>11, DagAssumption, UpTo
    <2> HIDE DEF Typed
    <2> QED BY <2>1, DagAssumption
  <1>13. \A r \in Slot : chosen[r] \in Lists
    BY <1>12, DagAssumption DEF Slot
  <1>14. chosen = [r \in Slot |-> chosen[r]]
    <2> HIDE DEF Iter
    <2> QED BY <1>7 DEF Iter
  <1>15. chosen \in [Slot -> Lists]
    BY <1>13, <1>14
  <1> QED BY <1>8, <1>9, <1>15 DEF Step
\* What aggregate leaves where: lists, only in regions at or below r, and a region
\* without children keeps its own.
LEMMA AggregateFacts ==
  ASSUME PollTypeOK, TreeShape, counts \in [Slot -> Lists], NEW r \in Slot
  PROVE  /\ Aggregate(r) \in [Slot -> Lists]
         /\ \A q \in Slot : Children(q) = {} => Aggregate(r)[q] = counts[q]
         /\ \A q \in Slot : Aggregate(r)[q] \in {counts[q], Aggregated[q]}
  <1>1. /\ Aggregated \in [Slot -> Lists]
        /\ \A q \in Slot : Aggregated[q] = Gathered(counts[q], ChildLists(Aggregated, q))
    BY AggregatedFacts
  <1>2. Aggregate(r) = [q \in Slot |-> IF q \in Entered(r) THEN Aggregated[q] ELSE counts[q]]
    BY DEF Aggregate
  <1>3. ASSUME NEW q \in Slot, Children(q) = {} PROVE Aggregated[q] = counts[q]
    <2>1. /\ ChildLists(Aggregated, q) \in [Children(q) -> Lists]
          /\ Children(q) \in SUBSET Slot /\ counts[q] \in Lists
      BY <1>1, ChildListsTyped, ChildrenInSlot
    <2> QED BY <1>1, <1>3, <2>1, GatheredRight, ZenonT(30)
  <1>4. Aggregate(r) \in [Slot -> Lists]
    <2> HIDE DEF Lists
    <2> QED BY <1>1, <1>2
  <1> QED BY <1>2, <1>3, <1>4

\* The largest count is one of a list's counts.
LEMMA LargestCount ==
  ASSUME NEW list \in Lists, list # <<>>
  PROVE  LET T == {list[i].n : i \in DOMAIN list}
         IN  Max(T) \in T /\ \A x \in T : x <= Max(T)
  <1> DEFINE n == Len(list)
             T == {list[i].n : i \in DOMAIN list}
             Best(k) == \E i \in 1 .. k : \A j \in 1 .. k : list[j].n <= list[i].n
             Held == {k \in 0 .. n : k > 0 => Best(k)}
  <1>1. n \in Nat /\ n > 0 /\ DOMAIN list = 1 .. n /\ \A i \in 1 .. n : list[i].n \in Nat
    BY ListFacts DEF Lists
  <1> HIDE DEF n
  <1>2. 0 \in Held
    BY <1>1
  <1>3. ASSUME NEW k \in 1 .. n, k - 1 \in Held PROVE k \in Held
    <2>1. k \in 0 .. n /\ k \in 1 .. k /\ list[k].n \in Nat
      BY <1>1
    <2>2. CASE k = 1
      <3>1. \A j \in 1 .. k : j = k
        BY <2>2
      <3>2. \A j \in 1 .. k : list[j].n <= list[k].n
        BY <2>1, <3>1
      <3>3. Best(k)
        BY <2>1, <3>2
      <3> HIDE DEF Best
      <3> QED BY <2>1, <3>3
    <2>3. CASE k # 1
      <3>1. Best(k - 1)
        <4> HIDE DEF Best
        <4> QED BY <1>1, <1>3, <2>3
      <3>2. PICK i \in 1 .. k - 1 : \A j \in 1 .. k - 1 : list[j].n <= list[i].n
        BY <3>1
      <3>3. i \in 1 .. n /\ i \in 1 .. k /\ list[i].n \in Nat
        BY <1>1
      <3>4. \A j \in 1 .. k : j \in 1 .. k - 1 \/ j = k
        BY <1>1
      <3>5. \A j \in 1 .. k - 1 : list[j].n \in Nat
        BY <1>1
      <3>6. ASSUME list[k].n <= list[i].n PROVE Best(k)
        <4>1. \A j \in 1 .. k : list[j].n <= list[i].n
          BY <3>2, <3>4, <3>6
        <4> QED BY <3>3, <4>1
      <3>7. ASSUME list[i].n <= list[k].n PROVE Best(k)
        <4>1. \A j \in 1 .. k : list[j].n <= list[k].n
          BY <2>1, <3>2, <3>3, <3>4, <3>5, <3>7
        <4> QED BY <2>1, <4>1
      <3>8. Best(k)
        <4> HIDE DEF Best
        <4> QED BY <2>1, <3>3, <3>6, <3>7
      <3> HIDE DEF Best
      <3> QED BY <2>1, <3>8
    <2> QED BY <2>2, <2>3
  <1>4. Best(n)
    <2>1. 0 .. n \subseteq Held
      <3> HIDE DEF Held
      <3> QED BY <1>1, <1>2, <1>3, UpTo
    <2> HIDE DEF Best
    <2> QED BY <1>1, <2>1
  <1>5. \E x \in T : \A y \in T : x >= y
    <2>1. PICK i \in 1 .. n : \A j \in 1 .. n : list[j].n <= list[i].n
      BY <1>4
    <2>2. \A y \in T : y <= list[i].n
      BY <1>1, <2>1
    <2> QED BY <1>1, <2>1, <2>2
  <1>6. Max(T) \in T /\ \A y \in T : Max(T) >= y
    <2> HIDE DEF T
    <2> QED BY <1>5 DEF Max
  <1>7. \A y \in T : y \in Nat
    BY <1>1
  <1> QED BY <1>6, <1>7

\* Return_Winner picks an entry with the largest count, unless that is 0.
LEMMA LeaderFacts ==
  ASSUME NEW list \in Lists, list # <<>>
  PROVE  \/ /\ Leader(list) = NoOne
            /\ \A i \in DOMAIN list : list[i].n = 0
         \/ \E k \in DOMAIN list :
              /\ Leader(list) = list[k].who
              /\ list[k].n > 0
              /\ \A i \in DOMAIN list : list[i].n <= list[k].n
              /\ \A i \in DOMAIN list : list[i].n = list[k].n => k <= i
  <1> DEFINE T == {list[i].n : i \in DOMAIN list}
             top == Max(T)
             ties == {i \in DOMAIN list : list[i].n = top}
             first == Min(ties)
  <1>1. \A i \in DOMAIN list : i \in Nat /\ list[i].n \in Nat
    BY ListFacts DEF Lists
  <1>2. top \in T /\ \A x \in T : x <= top
    BY LargestCount
  <1>3. Leader(list) = IF top > 0 THEN list[first].who ELSE NoOne
    BY DEF Leader
  <1>4. \A i \in DOMAIN list : list[i].n <= top
    BY <1>2
  <1>5. PICK k \in DOMAIN list : list[k].n = top
    BY <1>2
  <1> HIDE DEF top
  <1>6. ties \in SUBSET Nat /\ ties # {}
    BY <1>1, <1>5
  <1>7. first \in ties /\ \A x \in ties : first <= x
    <2> HIDE DEF ties
    <2> QED BY <1>6, MinInside
  <1> HIDE DEF first
  <1>8. CASE top > 0
    BY <1>3, <1>4, <1>7, <1>8
  <1>9. CASE ~ (top > 0)
    BY <1>1, <1>3, <1>4, <1>5, <1>9
  <1> QED BY <1>8, <1>9
-----------------------------------------------------------------------------
(***************************************************************************)
(* What a step does to lists and votes: nothing, or a new list for a leaf  *)
(* together with the votes it holds, or sums.                              *)
(***************************************************************************)
VotesTypeOK ==
  /\ counts \in [Slot -> Lists]
  /\ cast \in [Slot -> [Candidates -> 0 .. MaxVotes]]

\* What is no region yet holds nothing.
Blank == \A r \in Slot \ Region : counts[r] = <<>> /\ \A c \in Candidates : cast[r][c] = 0

ServerInv == VotesTypeOK /\ TreeShape /\ Blank /\ LeavesExact

QuietStep == UNCHANGED <<counts, cast>>

NewVotes(r, l, f) ==
  /\ l \in Lists
  /\ f \in [Candidates -> 0 .. MaxVotes]
  /\ counts' = [counts EXCEPT ![r] = l]
  /\ cast' = [cast EXCEPT ![r] = f]
  /\ \A c \in Candidates : VotesFor(l, c) = f[c]

LeafStep(r) ==
  /\ r \in Region /\ Leaf(r) /\ open[r] /\ ~closed[r]
  /\ UNCHANGED pollVars
  /\ \E l, f : NewVotes(r, l, f)

SumStep(r) ==
  /\ r \in Region
  /\ UNCHANGED <<pollVars, cast>>
  /\ counts' = Aggregate(r)

LEMMA RegionInSlot == ASSUME PollTypeOK PROVE Region \in SUBSET Slot /\ Root \in Region
  BY DagAssumption DEF PollTypeOK, Region, Slot, Root

LEMMA FileFacts ==
  ASSUME NEW file \in VoteFiles
  PROVE  /\ LeafCounter(file) \in Lists
         /\ Distinct(LeafCounter(file))
         /\ LeafCounter(file) # <<>>
         /\ \A c : Ballots(file, c) \in Nat /\ VotesFor(LeafCounter(file), c) = Ballots(file, c)
  <1>1. file \in Seq(Candidates) /\ file # <<>>
    BY VoteAssumption
  <1> QED BY <1>1, LeafCounterRight DEF Lists

LEMMA AddTokensRight ==
  ASSUME NEW list \in Lists, NEW tokens \in Lists, tokens # <<>>
  PROVE  /\ AddTokens(list, tokens) \in Lists
         /\ AddTokens(list, tokens) # <<>>
         /\ \A c : VotesFor(AddTokens(list, tokens), c) = VotesFor(list, c) + VotesFor(tokens, c)
  <1>1. PICK back \in BOOLEAN : back = FALSE
    OBVIOUS
  <1>2. AddTokens(list, tokens) = Walked(list, tokens, back)
    BY <1>1 DEF AddTokens
  <1> DEFINE new == Walked(list, tokens, back)
  <1>3. /\ new \in Lists /\ new # <<>>
        /\ \A c : VotesFor(new, c) = VotesFor(list, c) + VotesFor(tokens, c)
    BY WalkedRight DEF Lists
  <1> HIDE DEF new
  <1> QED BY <1>2, <1>3 DEF new

LEMMA AddIsLeafStep ==
  ASSUME PollTypeOK, ServerInv, NEW nm \in Names, NEW file \in VoteFiles, AV(nm, file)
  PROVE  QuietStep \/ \E r \in Region : LeafStep(r)
  <1>1. CASE Refuse("AV", nm)
    BY <1>1 DEF Refuse, QuietStep
  <1>2. CASE ~ Refuse("AV", nm)
    <2>1. PICK r \in Region :
            /\ Refusal(r) = "none"
            /\ \A c \in Candidates : cast[r][c] + Ballots(file, c) <= MaxVotes
            /\ counts' = [counts EXCEPT ![r] = AddTokens(@, LeafCounter(file))]
            /\ cast' = [cast EXCEPT ![r] = [c \in Candidates |-> @[c] + Ballots(file, c)]]
            /\ UNCHANGED pollVars
      BY <1>2 DEF AV
    <2> DEFINE l == AddTokens(counts[r], LeafCounter(file))
               f == [c \in Candidates |-> cast[r][c] + Ballots(file, c)]
    <2>2. r \in Slot /\ counts[r] \in Lists /\ cast[r] \in [Candidates -> 0 .. MaxVotes]
      <3> HIDE DEF Lists
      <3> QED BY RegionInSlot DEF ServerInv, VotesTypeOK
    <2>3. /\ l \in Lists
          /\ \A c : VotesFor(l, c) = VotesFor(counts[r], c) + VotesFor(LeafCounter(file), c)
      BY <2>2, FileFacts, AddTokensRight
    <2>4. Leaf(r) /\ open[r] /\ ~closed[r]
      BY <2>1 DEF Refusal
    <2>5. \A c \in Candidates : VotesFor(counts[r], c) = cast[r][c]
      BY <2>4 DEF ServerInv, LeavesExact
    <2>6. f \in [Candidates -> 0 .. MaxVotes]
      <3>1. ASSUME NEW c \in Candidates PROVE cast[r][c] + Ballots(file, c) \in 0 .. MaxVotes
        <4>1. cast[r][c] \in 0 .. MaxVotes /\ Ballots(file, c) \in Nat
          BY <2>2, FileFacts
        <4> QED BY <2>1, <4>1, VoteAssumption
      <3> QED BY <3>1
    <2>7. \A c \in Candidates : VotesFor(l, c) = f[c]
      <3> HIDE DEF l
      <3> QED BY <2>3, <2>5, FileFacts
    <2>8. counts' = [counts EXCEPT ![r] = l] /\ cast' = [cast EXCEPT ![r] = f]
      BY <2>1
    <2> HIDE DEF l, f, Lists
    <2>9. NewVotes(r, l, f)
      BY <2>3, <2>6, <2>7, <2>8 DEF NewVotes
    <2> QED BY <2>1, <2>4, <2>9 DEF LeafStep
  <1> QED BY <1>1, <1>2

LEMMA RemoveIsLeafStep ==
  ASSUME PollTypeOK, ServerInv, NEW nm \in Names, NEW file \in VoteFiles, RV(nm, file)
  PROVE  QuietStep \/ \E r \in Region : LeafStep(r)
  <1>1. CASE QuietStep
    BY <1>1
  <1>2. CASE ~ QuietStep
    <2>1. PICK r \in Region :
            /\ Refusal(r) = "none"
            /\ Lacking(counts[r], LeafCounter(file)) = {}
            /\ counts' = [counts EXCEPT ![r] = Subtract(@, LeafCounter(file))]
            /\ cast' = [cast EXCEPT ![r] = [c \in Candidates |-> @[c] - Ballots(file, c)]]
            /\ UNCHANGED pollVars
      BY <1>2 DEF RV, Refuse, QuietStep
    <2> DEFINE l == Subtract(counts[r], LeafCounter(file))
               f == [c \in Candidates |-> cast[r][c] - Ballots(file, c)]
    <2>2. r \in Slot /\ counts[r] \in Lists /\ cast[r] \in [Candidates -> 0 .. MaxVotes]
      <3> HIDE DEF Lists
      <3> QED BY RegionInSlot DEF ServerInv, VotesTypeOK
    <2>3. /\ l \in Lists
          /\ \A c : VotesFor(l, c) = VotesFor(counts[r], c) - VotesFor(LeafCounter(file), c)
      BY <2>1, <2>2, FileFacts, SubtractRight DEF Lists
    <2>4. Leaf(r) /\ open[r] /\ ~closed[r]
      BY <2>1 DEF Refusal
    <2>5. \A c \in Candidates : VotesFor(counts[r], c) = cast[r][c]
      BY <2>4 DEF ServerInv, LeavesExact
    <2>6. \A c : VotesFor(l, c) \in Nat
      BY <2>3, ListFacts DEF Lists
    <2>7. \A c \in Candidates : VotesFor(l, c) = f[c]
      <3> HIDE DEF l
      <3> QED BY <2>3, <2>5, FileFacts
    <2>8. f \in [Candidates -> 0 .. MaxVotes]
      <3>1. ASSUME NEW c \in Candidates PROVE cast[r][c] - Ballots(file, c) \in 0 .. MaxVotes
        <4>1. cast[r][c] \in 0 .. MaxVotes /\ Ballots(file, c) \in Nat
          BY <2>2, FileFacts
        <4>2. cast[r][c] - Ballots(file, c) = VotesFor(l, c)
          BY <2>7
        <4>3. cast[r][c] - Ballots(file, c) \in Nat
          BY <2>6, <4>2
        <4> QED BY <4>1, <4>3, VoteAssumption
      <3> QED BY <3>1
    <2>9. counts' = [counts EXCEPT ![r] = l] /\ cast' = [cast EXCEPT ![r] = f]
      BY <2>1
    <2> HIDE DEF l, f, Lists
    <2>10. NewVotes(r, l, f)
      BY <2>3, <2>7, <2>8, <2>9 DEF NewVotes
    <2> QED BY <2>1, <2>4, <2>10 DEF LeafStep
  <1> QED BY <1>1, <1>2

LEMMA StepKinds ==
  ASSUME PollTypeOK, ServerInv, [Next]_vars
  PROVE  QuietStep \/ (\E r \in Region : LeafStep(r)) \/ (\E r \in Region : SumStep(r))
  <1>1. ASSUME NEW nm \in Names, OP(nm) \/ CP(nm) PROVE QuietStep
    BY <1>1 DEF OP, CP, QuietStep
  <1>2. ASSUME NEW pnm \in Names, NEW nm \in NewNames, AR(pnm, nm) PROVE QuietStep
    BY <1>2 DEF AR, QuietStep
  <1>3. ASSUME NEW nm \in Names, CV(nm) PROVE QuietStep \/ \E r \in Region : SumStep(r)
    BY <1>3 DEF CV, QuietStep, SumStep
  <1>4. ASSUME RW PROVE QuietStep \/ \E r \in Region : SumStep(r)
    BY <1>4, RegionInSlot DEF RW, QuietStep, SumStep
  <1>5. UC \/ UNCHANGED vars => QuietStep
    BY DEF UC, vars, votes, QuietStep
  <1> QED BY <1>1, <1>2, <1>3, <1>4, <1>5, AddIsLeafStep, RemoveIsLeafStep DEF Next
-----------------------------------------------------------------------------
\* The tree only grows: a region keeps its parent, and none becomes a leaf again.
LEMMA TreeGrows ==
  ASSUME PollTypeOK, TreeShape, [PollNext]_pollVars
  PROVE  /\ TreeShape'
         /\ Region \subseteq Region'
         /\ Region' \ Region \subseteq Slot
         /\ \A r \in Region : parent'[r] = parent[r]
         /\ \A r \in Region : Leaf(r)' => Leaf(r)
  <1>1. CASE UNCHANGED treeVars
    BY <1>1 DEF treeVars, TreeShape, Region, Leaf, Children
  <1>2. CASE ~ UNCHANGED treeVars
    <2>1. PICK q \in Region, nm \in Names :
            /\ size < MaxRegions /\ size' = size + 1
            /\ parent' = [parent EXCEPT ![size + 1] = q]
      <3>1. PICK pnm \in Names, nm \in NewNames : AddRegion(pnm, nm)
        BY <1>2 DEF PollNext, OpenPolls, ClosePolls, pollVars, treeVars
      <3> QED BY <1>2, <3>1, DagAssumption DEF AddRegion
    <2>2. /\ size \in Nat /\ size >= 1 /\ size + 1 \in Slot /\ Region \subseteq Slot
          /\ parent \in [Slot -> 0 .. MaxRegions]
      BY <2>1, DagAssumption DEF PollTypeOK, Region, Slot
    <2>3. /\ parent'[size + 1] = q
          /\ \A r \in Region : parent'[r] = parent[r]
      BY <2>1, <2>2 DEF Region
    <2>4. \A r \in Region' : r \in Region \/ r = size + 1
      BY <2>1, <2>2 DEF Region
    <2>5. Region \subseteq Region' /\ Region' \ Region \subseteq Slot
      BY <2>1, <2>2, <2>4 DEF Region
    <2>6. TreeShape'
      <3>1. parent'[Root] = 0
        BY <2>2, <2>3 DEF TreeShape, Root, Region
      <3>2. ASSUME NEW r \in Region', r # Root PROVE parent'[r] \in 1 .. (r - 1)
        <4>1. CASE r \in Region
          BY <2>3, <3>2, <4>1 DEF TreeShape
        <4>2. CASE r = size + 1
          BY <2>2, <2>3, <4>2 DEF Region
        <4> QED BY <2>4, <4>1, <4>2
      <3> QED BY <3>1, <3>2 DEF TreeShape, Root
    <2>7. ASSUME NEW r \in Region, Leaf(r)' PROVE Leaf(r)
      BY <2>3, <2>5, <2>7 DEF Leaf, Children
    <2> QED BY <2>3, <2>5, <2>6, <2>7
  <1> QED BY <1>1, <1>2

LEMMA QuietKeepsInv ==
  ASSUME PollTypeOK, ServerInv, [PollNext]_pollVars, QuietStep
  PROVE  ServerInv'
  <1>1. /\ TreeShape' /\ Region \subseteq Region' /\ Region' \ Region \subseteq Slot
        /\ \A r \in Region : Leaf(r)' => Leaf(r)
    BY TreeGrows DEF ServerInv
  <1>2. VotesTypeOK'
    BY DEF ServerInv, VotesTypeOK, QuietStep
  <1>3. Blank'
    BY <1>1 DEF ServerInv, Blank, QuietStep
  <1>4. ASSUME NEW r \in Region', Leaf(r)', NEW c \in Candidates
        PROVE  VotesFor(counts[r], c) = cast[r][c]
    <2>1. CASE r \in Region
      BY <1>1, <1>4, <2>1 DEF ServerInv, LeavesExact
    <2>2. CASE r \notin Region
      <3>1. counts[r] = <<>> /\ cast[r][c] = 0
        BY <1>1, <2>2 DEF ServerInv, Blank
      <3> QED BY <3>1, VotesOfNone
    <2> QED BY <2>1, <2>2
  <1>5. LeavesExact'
    BY <1>4 DEF LeavesExact, QuietStep
  <1> QED BY <1>1, <1>2, <1>3, <1>5 DEF ServerInv

LEMMA LeafKeepsInv ==
  ASSUME PollTypeOK, ServerInv, NEW r \in Region, LeafStep(r)
  PROVE  ServerInv'
  <1>1. PICK l, f : NewVotes(r, l, f)
    BY DEF LeafStep
  <1>2. UNCHANGED pollVars
    BY DEF LeafStep
  <1>3. /\ counts \in [Slot -> Lists] /\ cast \in [Slot -> [Candidates -> 0 .. MaxVotes]]
        /\ l \in Lists /\ f \in [Candidates -> 0 .. MaxVotes]
        /\ counts' = [counts EXCEPT ![r] = l] /\ cast' = [cast EXCEPT ![r] = f]
        /\ r \in Slot
    BY <1>1, RegionInSlot DEF NewVotes, ServerInv, VotesTypeOK
  <1> HIDE DEF Lists
  <1>4. VotesTypeOK'
    BY <1>3 DEF VotesTypeOK
  <1>5. TreeShape' /\ Region' = Region
    BY <1>2 DEF pollVars, treeVars, ServerInv, TreeShape, Region
  <1>6. Blank'
    BY <1>3, <1>5 DEF ServerInv, Blank
  <1>7. ASSUME NEW q \in Region, Leaf(q)', NEW c \in Candidates
        PROVE  VotesFor(counts'[q], c) = cast'[q][c]
    <2>1. q \in Slot
      BY RegionInSlot
    <2>2. CASE q = r
      <3>1. counts'[q] = l /\ cast'[q] = f
        BY <1>3, <2>2
      <3> QED BY <1>1, <3>1 DEF NewVotes
    <2>3. CASE q # r
      <3>1. counts'[q] = counts[q] /\ cast'[q] = cast[q]
        BY <1>3, <2>1, <2>3
      <3>2. Leaf(q)
        BY <1>2, <1>7 DEF Leaf, Children, pollVars, treeVars, Region
      <3> QED BY <3>1, <3>2 DEF ServerInv, LeavesExact
    <2> QED BY <2>2, <2>3
  <1>8. LeavesExact'
    BY <1>5, <1>7 DEF LeavesExact
  <1> QED BY <1>4, <1>5, <1>6, <1>8 DEF ServerInv

LEMMA SumKeepsInv ==
  ASSUME PollTypeOK, ServerInv, NEW r \in Region, SumStep(r)
  PROVE  ServerInv'
  <1>1. UNCHANGED pollVars /\ cast' = cast /\ counts' = Aggregate(r)
    BY DEF SumStep
  <1>2. /\ counts' \in [Slot -> Lists]
        /\ \A q \in Slot : Children(q) = {} => counts'[q] = counts[q]
    BY <1>1, AggregateFacts, RegionInSlot DEF ServerInv, VotesTypeOK
  <1> HIDE DEF Lists
  <1>3. VotesTypeOK'
    BY <1>1, <1>2 DEF ServerInv, VotesTypeOK
  <1>4. TreeShape' /\ Region' = Region
    BY <1>1 DEF pollVars, treeVars, ServerInv, TreeShape, Region
  <1>5. ASSUME NEW q \in Slot \ Region PROVE Children(q) = {}
    <2>1. ASSUME NEW x \in Children(q) PROVE FALSE
      <3>1. x \in Region /\ q < x
        BY ChildrenLater DEF ServerInv
      <3> QED BY <3>1, DagAssumption DEF Region, Slot, PollTypeOK
    <2> QED BY <2>1
  <1>6. Blank'
    BY <1>1, <1>2, <1>4, <1>5 DEF ServerInv, Blank
  <1>7. ASSUME NEW q \in Region, Leaf(q)', NEW c \in Candidates
        PROVE  VotesFor(counts'[q], c) = cast'[q][c]
    <2>1. q \in Slot /\ Leaf(q)
      BY <1>1, <1>7, RegionInSlot DEF Leaf, Children, pollVars, treeVars, Region
    <2>2. counts'[q] = counts[q]
      BY <1>2, <2>1 DEF Leaf
    <2> QED BY <1>1, <2>1, <2>2 DEF ServerInv, LeavesExact
  <1>8. LeavesExact'
    BY <1>4, <1>7 DEF LeavesExact
  <1> QED BY <1>3, <1>4, <1>6, <1>8 DEF ServerInv

LEMMA InitServerInv == ASSUME Init PROVE ServerInv
  <1>1. counts = [r \in Slot |-> <<>>] /\ cast = [r \in Slot |-> [c \in Candidates |-> 0]]
    BY DEF Init
  <1>2. <<>> \in Lists
    BY DEF Lists
  <1> HIDE DEF Lists
  <1>3. VotesTypeOK
    BY <1>1, <1>2, VoteAssumption DEF VotesTypeOK
  <1>4. TreeShape
    BY DagAssumption DEF Init, PollInit, TreeShape, Region, Slot, Root
  <1>5. Blank
    BY <1>1 DEF Blank
  <1>6. Region \subseteq Slot
    BY DagAssumption DEF Init, PollInit, Region, Slot
  <1>7. LeavesExact
    BY <1>1, <1>6, VotesOfNone DEF LeavesExact
  <1> QED BY <1>3, <1>4, <1>5, <1>7 DEF ServerInv

LEMMA ServerInvariance == Spec => [](PollInv /\ ServerInv)
  <1>1. Spec => []PollInv
    BY ServerKeepsPolls, PollInvariance, PTL
  <1>2. Init => ServerInv
    BY InitServerInv
  <1>3. ASSUME PollInv, ServerInv, [Next]_vars PROVE ServerInv'
    <2>1. PollTypeOK /\ [PollNext]_pollVars
      BY <1>3, StepsOfPolls DEF PollInv
    <2> QED BY <1>3, <2>1, StepKinds, QuietKeepsInv, LeafKeepsInv, SumKeepsInv
  <1> QED BY <1>1, <1>2, <1>3, PTL DEF Spec

(***************************************************************************)
(* No vote is lost or invented in a leaf, whatever was added and removed   *)
(* in whatever order, and however often Add_Votes, which never goes back   *)
(* to the head of the list, has entered a name twice (434-457, 573-639).   *)
(***************************************************************************)
THEOREM LeavesCountExactly == Spec => []LeavesExact
  <1>1. ServerInv => LeavesExact
    BY DEF ServerInv
  <1> QED BY <1>1, ServerInvariance, PTL

\* The reply of every request is one of the protocol's codes.
ReplyTypeOK ==
  reply \in [req : {"none", "OP", "CP", "AR", "AV", "RV", "CV", "RW", "UC"},
             at : Names \cup {NoName}, code : Codes]

OtherTypeOK ==
  /\ ReplyTypeOK
  /\ declared \in Candidates \cup {NoOne, Undecided}
  /\ early \in BOOLEAN

LEMMA Said ==
  ASSUME NEW req \in {"OP", "CP", "AR", "AV", "RV", "CV", "RW", "UC"},
         NEW at \in Names \cup {NoName}, NEW code \in Codes, Say(req, at, code)
  PROVE  ReplyTypeOK'
  BY DEF Say, ReplyTypeOK

LEMMA ReplyTyped ==
  ASSUME Next PROVE ReplyTypeOK'
  <1>0. NoName \in Names \cup {NoName}
    OBVIOUS
  <1>1. ASSUME NEW nm \in Names, OP(nm) PROVE ReplyTypeOK'
    <2>1. OpenReply(nm) \in Codes
      BY DEF OpenReply, Codes
    <2> QED BY <1>0, <1>1, <2>1, Said DEF OP
  <1>2. ASSUME NEW nm \in Names, CP(nm) PROVE ReplyTypeOK'
    <2>1. CloseReply(nm) \in Codes
      BY DEF CloseReply, Codes
    <2> QED BY <1>0, <1>2, <2>1, Said DEF CP
  <1>3. ASSUME NEW pnm \in Names, NEW nm \in NewNames, AR(pnm, nm) PROVE ReplyTypeOK'
    <2>1. AddRegionReply(pnm) \in Codes
      BY DEF AddRegionReply, Codes
    <2> QED BY <1>0, <1>3, <2>1, Said DEF AR
  <1>4. ASSUME NEW req \in {"AV", "RV"}, NEW nm \in Names, Refuse(req, nm) PROVE ReplyTypeOK'
    <2>1. PICK code \in Codes : Say(req, NoName, code)
      <3>1. \A r : Refusal(r) \in Codes /\ "NR" \in Codes
        BY DEF Refusal, Codes
      <3> QED BY <1>4, <3>1 DEF Refuse
    <2> QED BY <1>0, <2>1, Said
  <1>5. "SC" \in Codes /\ "IS" \in Codes /\ "NR" \in Codes /\ "RO" \in Codes /\ "UC" \in Codes
    BY DEF Codes
  <1>6. ASSUME NEW nm \in Names, NEW file \in VoteFiles, AV(nm, file) PROVE ReplyTypeOK'
    <2>1. Refuse("AV", nm) \/ Say("AV", NoName, "SC")
      BY <1>6 DEF AV
    <2> QED BY <1>0, <1>4, <1>5, <2>1, Said
  <1>7. ASSUME NEW nm \in Names, NEW file \in VoteFiles, RV(nm, file) PROVE ReplyTypeOK'
    <2>1. Refuse("RV", nm) \/ Say("RV", NoName, "SC") \/ Say("RV", NoName, "IS")
      BY <1>7 DEF RV
    <2> QED BY <1>0, <1>4, <1>5, <2>1, Said
  <1>8. ASSUME NEW nm \in Names, CV(nm) PROVE ReplyTypeOK'
    <2>1. Say("CV", NoName, "NR") \/ Say("CV", nm, "SC")
      BY <1>8 DEF CV
    <2> QED BY <1>0, <1>5, <2>1, Said
  <1>9. ASSUME RW PROVE ReplyTypeOK'
    <2>1. Say("RW", NoName, "RO") \/ Say("RW", NoName, "SC")
      BY <1>9 DEF RW
    <2> QED BY <1>0, <1>5, <2>1, Said
  <1>10. ASSUME UC PROVE ReplyTypeOK'
    BY <1>0, <1>5, <1>10, Said DEF UC
  <1> QED BY <1>1, <1>2, <1>3, <1>6, <1>7, <1>8, <1>9, <1>10 DEF Next

LEMMA OtherTyped ==
  ASSUME PollTypeOK, ServerInv, OtherTypeOK, [Next]_vars PROVE OtherTypeOK'
  <1>1. CASE UNCHANGED vars
    BY <1>1 DEF vars, votes, OtherTypeOK, ReplyTypeOK
  <1>2. CASE Next
    <2>1. early' \in BOOLEAN
      <3>1. ASSUME NEW pnm \in Names, NEW nm \in NewNames, AR(pnm, nm) PROVE early' \in BOOLEAN
        BY <3>1 DEF AR, OtherTypeOK
      <3>2. ASSUME NEW nm \in Names, CV(nm) PROVE early' \in BOOLEAN
        BY <3>2 DEF CV, OtherTypeOK
      <3> QED BY <1>2, <3>1, <3>2 DEF Next, OP, CP, AV, RV, Refuse, RW, UC, OtherTypeOK
    <2>2. declared' \in Candidates \cup {NoOne, Undecided}
      <3>1. ASSUME NEW pnm \in Names, NEW nm \in NewNames, AR(pnm, nm)
            PROVE  declared' \in Candidates \cup {NoOne, Undecided}
        BY <3>1 DEF AR, OtherTypeOK
      <3>2. ASSUME RW PROVE declared' \in Candidates \cup {NoOne, Undecided}
        <4> DEFINE sums == Aggregate(Root)
        <4>1. \/ declared' = declared
              \/ declared' = IF sums[Root] = <<>> THEN NoOne ELSE Leader(sums[Root])
          BY <3>2 DEF RW
        <4>2. sums[Root] \in Lists
          <5>1. Root \in Slot
            BY RegionInSlot
          <5>2. sums \in [Slot -> Lists]
            BY <5>1, AggregateFacts DEF ServerInv, VotesTypeOK
          <5> HIDE DEF sums, Lists
          <5> QED BY <5>1, <5>2
        <4> HIDE DEF sums
        <4>3. sums[Root] # <<>> => Leader(sums[Root]) \in Candidates \cup {NoOne}
          <5>1. \A k \in DOMAIN sums[Root] : sums[Root][k].who \in Candidates
            BY <4>2, ListFacts DEF Lists
          <5> QED BY <4>2, <5>1, LeaderFacts
        <4> QED BY <4>1, <4>3 DEF OtherTypeOK
      <3> QED BY <1>2, <3>1, <3>2 DEF Next, OP, CP, AV, RV, Refuse, CV, UC, OtherTypeOK
    <2> QED BY <1>2, <2>1, <2>2, ReplyTyped DEF OtherTypeOK
  <1> QED BY <1>1, <1>2

(***************************************************************************)
(* The variables have their types; that Remove_Votes never leaves a count  *)
(* below zero is part of it (the counts of a list are natural numbers).    *)
(***************************************************************************)
THEOREM ServerTyping == Spec => []TypeOK
  <1>1. Init => OtherTypeOK
    <2>1. "none" \in Codes
      BY DEF Codes
    <2>2. Init => ReplyTypeOK
      BY <2>1 DEF Init, ReplyTypeOK
    <2>3. Init => declared \in Candidates \cup {NoOne, Undecided} /\ early \in BOOLEAN
      BY DEF Init
    <2> QED BY <2>2, <2>3 DEF OtherTypeOK
  <1>2. PollInv /\ ServerInv /\ OtherTypeOK /\ [Next]_vars => OtherTypeOK'
    BY OtherTyped DEF PollInv
  <1>3. PollInv /\ ServerInv /\ OtherTypeOK => TypeOK
    BY DEF PollInv, ServerInv, VotesTypeOK, OtherTypeOK, ReplyTypeOK, TypeOK, Lists
  <1> QED BY <1>1, <1>2, <1>3, ServerInvariance, PTL DEF Spec
-----------------------------------------------------------------------------
(***************************************************************************)
(* The way up from a region, and what is below one.                        *)
(***************************************************************************)
LEMMA ParentFacts ==
  ASSUME PollTypeOK, TreeShape, NEW q \in Region, q # Root
  PROVE  /\ parent[q] \in Region /\ parent[q] \in Nat /\ q \in Nat /\ parent[q] < q
         /\ q \in Children(parent[q])
  <1>1. parent[q] \in 1 .. (q - 1) /\ q \in 1 .. size /\ size \in Int
    BY DagAssumption DEF TreeShape, Region, PollTypeOK, Slot
  <1>2. parent[q] \in Int /\ q \in Int /\ 1 <= parent[q] /\ parent[q] < q /\ q <= size
    BY <1>1
  <1> QED BY <1>1, <1>2 DEF Children, Region

\* A set that has what Ancestry asks for.
UpClosed(S, q) == q \in S /\ \A x \in S : parent[x] \in 1 .. q => parent[x] \in S

LEMMA AncestryIs ==
  ASSUME NEW q \in Slot
  PROVE  Ancestry[q] = {a \in 1 .. q : \A S \in SUBSET (1 .. q) : UpClosed(S, q) => a \in S}
  BY DEF Ancestry, UpClosed

LEMMA AncestryFacts ==
  ASSUME PollTypeOK, TreeShape, NEW q \in Region
  PROVE  /\ q \in Ancestry[q] /\ Ancestry[q] \in SUBSET (1 .. q)
         /\ Ancestry[q] \in SUBSET Region
         /\ \A x \in Ancestry[q] : parent[x] \in 1 .. q => parent[x] \in Ancestry[q]
  <1>1. q \in Slot /\ q \in 1 .. q /\ 1 .. q \subseteq Region /\ q \in Nat
    <2>1. q \in 1 .. size /\ size \in Int
      BY DagAssumption DEF Region, PollTypeOK, Slot
    <2>2. q \in Slot
      BY RegionInSlot
    <2> QED BY <2>1, <2>2 DEF Region
  <1>2. Ancestry[q] = {a \in 1 .. q : \A S \in SUBSET (1 .. q) : UpClosed(S, q) => a \in S}
    BY <1>1, AncestryIs
  <1>3. q \in Ancestry[q]
    BY <1>1, <1>2 DEF UpClosed
  <1>4. ASSUME NEW x \in Ancestry[q], parent[x] \in 1 .. q PROVE parent[x] \in Ancestry[q]
    <2>1. ASSUME NEW S \in SUBSET (1 .. q), UpClosed(S, q) PROVE parent[x] \in S
      BY <1>2, <1>4, <2>1 DEF UpClosed
    <2> QED BY <1>2, <1>4, <2>1
  <1> QED BY <1>1, <1>2, <1>3, <1>4

LEMMA AncestrySteps ==
  ASSUME PollTypeOK, TreeShape, NEW q \in Region, q # Root
  PROVE  Ancestry[q] = {q} \cup Ancestry[parent[q]]
  <1> DEFINE p == parent[q]
  <1>1. /\ p \in Region /\ p \in Nat /\ q \in Nat /\ p < q /\ q \in Slot /\ p \in Slot
        /\ 1 <= p
    BY ParentFacts, RegionInSlot DEF Region
  <1>2. /\ p \in Ancestry[p] /\ Ancestry[p] \in SUBSET (1 .. p) /\ Ancestry[p] \in SUBSET Region
        /\ \A x \in Ancestry[p] : parent[x] \in 1 .. p => parent[x] \in Ancestry[p]
    BY <1>1, AncestryFacts
  <1>3. /\ Ancestry[q] = {a \in 1 .. q : \A S \in SUBSET (1 .. q) : UpClosed(S, q) => a \in S}
        /\ Ancestry[p] = {a \in 1 .. p : \A S \in SUBSET (1 .. p) : UpClosed(S, p) => a \in S}
    BY <1>1, AncestryIs
  <1>4. parent[q] = p
    OBVIOUS
  <1> HIDE DEF p
  <1>5. 1 .. p \subseteq 1 .. q /\ q \in 1 .. q /\ p \in 1 .. q /\ p \in 1 .. p
    BY <1>1
  <1>6. ASSUME NEW x \in Ancestry[p], parent[x] \in 1 .. q PROVE parent[x] \in Ancestry[p]
    <2>1. x \in Region /\ x \in 1 .. p
      BY <1>2
    <2>2. parent[x] \in 1 .. p
      <3>1. CASE x = Root
        BY <1>6, <3>1, <1>1 DEF TreeShape
      <3>2. CASE x # Root
        <4>1. parent[x] \in Nat /\ parent[x] < x
          BY <2>1, <3>2, ParentFacts
        <4> QED BY <1>1, <1>6, <2>1, <4>1
      <3> QED BY <3>1, <3>2
    <2> QED BY <1>2, <2>2
  <1>7. Ancestry[q] \subseteq {q} \cup Ancestry[p]
    <2> DEFINE S == {q} \cup Ancestry[p]
    <2>1. S \in SUBSET (1 .. q)
      BY <1>2, <1>5
    <2>2. UpClosed(S, q)
      BY <1>2, <1>4, <1>6 DEF UpClosed
    <2> HIDE DEF S
    <2>3. Ancestry[q] \subseteq S
      BY <1>3, <2>1, <2>2
    <2> QED BY <2>3 DEF S
  <1>8. ASSUME NEW a \in Ancestry[p] PROVE a \in Ancestry[q]
    <2>1. ASSUME NEW S \in SUBSET (1 .. q), UpClosed(S, q) PROVE a \in S
      <3> DEFINE U == S \cap (1 .. p)
      <3>1. UpClosed(U, p)
        <4>1. p \in U
          BY <1>4, <1>5, <2>1 DEF UpClosed
        <4>2. \A x \in U : parent[x] \in 1 .. p => parent[x] \in U
          BY <1>5, <2>1 DEF UpClosed
        <4> HIDE DEF U
        <4> QED BY <4>1, <4>2 DEF UpClosed
      <3>2. U \in SUBSET (1 .. p)
        OBVIOUS
      <3> HIDE DEF U
      <3>3. a \in U
        BY <1>3, <1>8, <3>1, <3>2
      <3> QED BY <3>3 DEF U
    <2>2. a \in 1 .. q
      BY <1>2, <1>5, <1>8
    <2> QED BY <1>3, <2>1, <2>2
  <1>9. q \in Ancestry[q]
    BY AncestryFacts
  <1>10. Ancestry[q] = {q} \cup Ancestry[p]
    BY <1>7, <1>8, <1>9
  <1> QED BY <1>4, <1>10

\* The way from q up through r passes a child of r, and only one.
LEMMA WayThroughChild ==
  ASSUME PollTypeOK, TreeShape, NEW r \in Region, NEW q \in Below(r), q # r
  PROVE  \E c \in Children(r) : q \in Below(c)
  <1> DEFINE Through(x) == x \in Region /\ r \in Ancestry[x] /\ x # r =>
                             \E c \in Children(r) : c \in Ancestry[x]
             Held == {k \in 0 .. size : \A x \in 1 .. k : Through(x)}
  <1>1. size \in Nat /\ r \in Nat
    BY DagAssumption DEF PollTypeOK, Slot, Region
  <1>2. 0 \in Held
    BY <1>1
  <1>3. ASSUME NEW k \in 1 .. size, k - 1 \in Held PROVE k \in Held
    <2>1. k \in Region /\ k \in 0 .. size
      BY <1>1 DEF Region
    <2>2. ASSUME r \in Ancestry[k], k # r PROVE \E c \in Children(r) : c \in Ancestry[k]
      <3>1. k # Root
        <4>1. Ancestry[k] \in SUBSET (1 .. k)
          BY <2>1, AncestryFacts
        <4> QED BY <1>1, <2>2, <4>1 DEF Root
      <3>2. /\ Ancestry[k] = {k} \cup Ancestry[parent[k]]
            /\ parent[k] \in Region /\ parent[k] \in Nat /\ parent[k] < k
            /\ k \in Children(parent[k])
        BY <2>1, <3>1, AncestrySteps, ParentFacts
      <3>3. CASE parent[k] = r
        BY <3>2, <3>3
      <3>4. CASE parent[k] # r
        <4>1. r \in Ancestry[parent[k]]
          BY <2>2, <3>2
        <4>2. parent[k] \in 1 .. (k - 1)
          BY <3>2, <1>1 DEF Region
        <4>3. Through(parent[k])
          <5> HIDE DEF Through
          <5> QED BY <1>3, <4>2
        <4> QED BY <3>2, <3>4, <4>1, <4>3
      <3> QED BY <3>3, <3>4
    <2>3. Through(k)
      BY <2>2
    <2>4. \A x \in 1 .. k : x \in 1 .. (k - 1) \/ x = k
      BY <1>1
    <2> HIDE DEF Through
    <2> QED BY <1>3, <2>1, <2>3, <2>4
  <1>4. 0 .. size \subseteq Held
    <2> HIDE DEF Held
    <2> QED BY <1>1, <1>2, <1>3, UpTo
  <1>5. q \in 1 .. size /\ size \in 0 .. size /\ q \in Region /\ r \in Ancestry[q]
    BY <1>1 DEF Below, Region
  <1>6. Through(q)
    <2> HIDE DEF Through
    <2> QED BY <1>4, <1>5
  <1> QED BY <1>5, <1>6 DEF Below
LEMMA ChildrenApart ==
  ASSUME PollTypeOK, TreeShape, NEW r \in Region, NEW c \in Children(r), NEW d \in Children(r),
         NEW q \in Below(c), q \in Below(d)
  PROVE  c = d
  <1> DEFINE Meet(x) == x \in Region /\ c \in Ancestry[x] /\ d \in Ancestry[x] => c = d
             Held == {k \in 0 .. size : \A x \in 1 .. k : Meet(x)}
  <1>1. /\ size \in Nat /\ r \in Nat /\ c \in Region /\ d \in Region /\ r < c /\ r < d
        /\ c \in Nat /\ d \in Nat /\ parent[c] = r /\ parent[d] = r /\ c # Root /\ d # Root
    <2>1. r \in Slot
      BY RegionInSlot
    <2>2. c \in Region /\ d \in Region /\ r < c /\ r < d
      BY <2>1, ChildrenLater
    <2> QED BY <2>2, DagAssumption DEF PollTypeOK, Slot, Region, Children, Root
  <1>2. 0 \in Held
    BY <1>1
  <1>3. ASSUME NEW k \in 1 .. size, k - 1 \in Held PROVE k \in Held
    <2>1. k \in Region /\ k \in 0 .. size
      BY <1>1 DEF Region
    <2>2. ASSUME c \in Ancestry[k], d \in Ancestry[k] PROVE c = d
      <3>1. k # Root
        <4>1. Ancestry[k] \in SUBSET (1 .. k)
          BY <2>1, AncestryFacts
        <4> QED BY <1>1, <2>2, <4>1 DEF Root
      <3>2. /\ Ancestry[k] = {k} \cup Ancestry[parent[k]]
            /\ parent[k] \in Region /\ parent[k] \in Nat /\ parent[k] < k
            /\ Ancestry[parent[k]] \in SUBSET (1 .. parent[k])
        BY <2>1, <3>1, AncestrySteps, ParentFacts, AncestryFacts
      <3>3. ASSUME k = c \/ k = d PROVE c = d
        <4>1. parent[k] = r
          BY <1>1, <3>3
        <4>2. c \notin Ancestry[parent[k]] /\ d \notin Ancestry[parent[k]]
          BY <1>1, <3>2, <4>1
        <4> QED BY <2>2, <3>2, <4>2
      <3>4. CASE k # c /\ k # d
        <4>1. c \in Ancestry[parent[k]] /\ d \in Ancestry[parent[k]]
          BY <2>2, <3>2, <3>4
        <4>2. parent[k] \in 1 .. (k - 1)
          BY <3>2, <1>1 DEF Region
        <4>3. Meet(parent[k])
          <5> HIDE DEF Meet
          <5> QED BY <1>3, <4>2
        <4> QED BY <3>2, <4>1, <4>3
      <3> QED BY <3>3, <3>4
    <2>3. Meet(k)
      BY <2>2
    <2>4. \A x \in 1 .. k : x \in 1 .. (k - 1) \/ x = k
      BY <1>1
    <2> HIDE DEF Meet
    <2> QED BY <1>3, <2>1, <2>3, <2>4
  <1>4. 0 .. size \subseteq Held
    <2> HIDE DEF Held
    <2> QED BY <1>1, <1>2, <1>3, UpTo
  <1>5. q \in 1 .. size /\ size \in 0 .. size /\ q \in Region /\ c \in Ancestry[q] /\ d \in Ancestry[q]
    BY <1>1 DEF Below, Region
  <1>6. Meet(q)
    <2> HIDE DEF Meet
    <2> QED BY <1>4, <1>5
  <1> QED BY <1>5, <1>6

\* Below a region: itself and what is below its children, nothing twice.
LEMMA BelowFacts ==
  ASSUME PollTypeOK, TreeShape, NEW r \in Region
  PROVE  /\ Below(r) \in SUBSET Region
         /\ r \in Below(r)
         /\ Below(r) = {r} \cup UNION {Below(c) : c \in Children(r)}
         /\ \A c \in Children(r) : r \notin Below(c)
         /\ \A c, d \in Children(r) : c # d => Below(c) \cap Below(d) = {}
  <1>1. r \in Below(r) /\ Below(r) \in SUBSET Region
    BY AncestryFacts DEF Below
  <1>2. ASSUME NEW c \in Children(r) PROVE c \in Region /\ r < c /\ parent[c] = r /\ r \in Nat /\ c \in Nat
    <2>1. r \in Slot
      BY RegionInSlot
    <2>2. c \in Region /\ r < c /\ c \in Slot
      BY <2>1, ChildrenLater
    <2> QED BY <2>1, <2>2 DEF Children, Slot
  <1>3. ASSUME NEW c \in Children(r), NEW q \in Below(c) PROVE q \in Below(r) /\ q # r
    <2>1. q \in Region /\ c \in Ancestry[q]
      BY <1>3 DEF Below
    <2>2. /\ Ancestry[q] \in SUBSET (1 .. q) /\ q \in Nat
          /\ \A x \in Ancestry[q] : parent[x] \in 1 .. q => parent[x] \in Ancestry[q]
      BY <2>1, AncestryFacts DEF Region
    <2>3. c <= q /\ r \in 1 .. q /\ r # q
      BY <1>2, <2>1, <2>2 DEF Region
    <2>4. r \in Ancestry[q]
      BY <1>2, <2>1, <2>2, <2>3
    <2> QED BY <2>1, <2>3, <2>4 DEF Below
  <1>4. \A q \in Below(r) : q # r => \E c \in Children(r) : q \in Below(c)
    BY WayThroughChild
  <1>5. Below(r) = {r} \cup UNION {Below(c) : c \in Children(r)}
    BY <1>1, <1>3, <1>4
  <1>6. \A c \in Children(r) : r \notin Below(c)
    BY <1>3
  <1>7. \A c, d \in Children(r) : c # d => Below(c) \cap Below(d) = {}
    BY ChildrenApart
  <1> QED BY <1>1, <1>5, <1>6, <1>7

-----------------------------------------------------------------------------
(***************************************************************************)
(* The votes below a region.                                               *)
(***************************************************************************)
Votes(c) == [q \in Slot |-> cast[q][c]]

LEMMA VotesTyped ==
  ASSUME VotesTypeOK, NEW c \in Candidates
  PROVE  Votes(c) \in [Slot -> Nat] /\ Votes(c) \in [Slot -> Int]
  <1>1. \A q \in Slot : cast[q][c] \in 0 .. MaxVotes
    BY DEF VotesTypeOK
  <1>2. \A q \in Slot : cast[q][c] \in Nat
    BY <1>1, VoteAssumption
  <1> QED BY <1>2 DEF Votes

LEMMA TrueCountSteps ==
  ASSUME PollTypeOK, TreeShape, VotesTypeOK, NEW r \in Region, NEW c \in Candidates
  PROVE  /\ TrueCount(r, c) \in Nat
         /\ TrueCount(r, c) = cast[r][c]
              + SumFunctionOnSet([x \in Children(r) |-> TrueCount(x, c)], Children(r))
  <1> DEFINE f == Votes(c)
             S == Children(r)
             B == [x \in S |-> Below(x)]
             parts == UNION {B[x] : x \in S}
  <1>1. f \in [Slot -> Nat] /\ f \in [Slot -> Int] /\ IsFiniteSet(Slot)
    BY VotesTyped, SlotFinite
  <1>2. /\ Below(r) \in SUBSET Region /\ r \in Below(r)
        /\ Below(r) = {r} \cup UNION {Below(x) : x \in S}
        /\ \A x \in S : r \notin Below(x)
        /\ \A x, y \in S : x # y => Below(x) \cap Below(y) = {}
    BY BelowFacts
  <1>3. Region \in SUBSET Slot /\ r \in Slot /\ S \in SUBSET Slot /\ S \in SUBSET Region
    <2>1. Region \in SUBSET Slot /\ r \in Slot
      BY RegionInSlot
    <2> QED BY <2>1, ChildrenInSlot, ChildrenLater
  <1>4. IsFiniteSet(S)
    BY <1>1, <1>3, FS_Subset
  <1>5. B \in [S -> SUBSET Slot] /\ \A x, y \in S : x # y => B[x] \cap B[y] = {}
    <2>1. \A x \in S : Below(x) \in SUBSET Slot
      BY <1>3 DEF Below
    <2> QED BY <1>2, <2>1
  <1>6. parts = UNION {Below(x) : x \in S} /\ parts \in SUBSET Slot
    BY <1>5
  <1>7. TrueCount(r, c) = SumFunctionOnSet(f, Below(r))
    BY DEF TrueCount, Votes
  <1>8. \A x \in S : TrueCount(x, c) = SumFunctionOnSet(f, B[x])
    BY DEF TrueCount, Votes
  <1>9. f[r] = cast[r][c]
    BY <1>3 DEF Votes
  <1> HIDE DEF f, B, S
  <1>10. SumFunctionOnSet(f, Below(r)) \in Nat
    <2>1. Below(r) \in SUBSET Slot
      BY <1>2, <1>3
    <2> QED BY <1>1, <2>1, SumNat
  <1>11. SumFunctionOnSet(f, Below(r)) = f[r] + SumFunctionOnSet(f, parts)
    <2>1. r \in Below(r) /\ Below(r) \in SUBSET Slot
      BY <1>2, <1>3
    <2>2. Below(r) \ {r} = parts
      <3>1. r \notin parts
        BY <1>2, <1>6
      <3> HIDE DEF parts
      <3> QED BY <1>2, <1>6, <3>1
    <2>3. SumFunctionOnSet(f, Below(r)) = f[r] + SumFunctionOnSet(f, Below(r) \ {r})
      BY <1>1, <2>1, SumAny
    <2> HIDE DEF parts
    <2> QED BY <2>2, <2>3
  <1>12. SumFunctionOnSet(f, parts) = SumFunctionOnSet([x \in S |-> SumFunctionOnSet(f, B[x])], S)
    BY <1>1, <1>4, <1>5, SumFamily
  <1>13. [x \in S |-> SumFunctionOnSet(f, B[x])] = [x \in S |-> TrueCount(x, c)]
    BY <1>8
  <1> HIDE DEF parts
  <1>14. TrueCount(r, c) = cast[r][c] + SumFunctionOnSet([x \in S |-> TrueCount(x, c)], S)
    BY <1>7, <1>9, <1>11, <1>12, <1>13
  <1> QED BY <1>7, <1>10, <1>14 DEF S
\* What was cast below the children of a region.
LEMMA ChildCountsTyped ==
  ASSUME PollTypeOK, TreeShape, VotesTypeOK, NEW r \in Region, NEW c \in Candidates
  PROVE  SumFunctionOnSet([x \in Children(r) |-> TrueCount(x, c)], Children(r)) \in Int
  <1> DEFINE S == Children(r)
             h == [x \in S |-> TrueCount(x, c)]
  <1>1. S \in SUBSET Region /\ S \in SUBSET Slot
    BY RegionInSlot, ChildrenInSlot, ChildrenLater
  <1>2. ASSUME NEW x \in S PROVE TrueCount(x, c) \in Int
    <2>1. x \in Region
      BY <1>1
    <2>2. TrueCount(x, c) \in Nat
      BY <2>1, TrueCountSteps
    <2> QED BY <2>2
  <1>3. h \in [S -> Int] /\ IsFiniteSet(S) /\ S \in SUBSET S
    <2> HIDE DEF S
    <2> QED BY <1>1, <1>2, SlotFinite, FS_Subset
  <1> HIDE DEF h
  <1>4. SumFunctionOnSet(h, S) \in Int
    <2> HIDE DEF S
    <2> QED BY <1>3, SumType
  <1> QED BY <1>4 DEF h

LEMMA LeafCount ==
  ASSUME PollTypeOK, TreeShape, VotesTypeOK, NEW r \in Region, Leaf(r), NEW c \in Candidates
  PROVE  TrueCount(r, c) = cast[r][c]
  <1> DEFINE h == [x \in Children(r) |-> TrueCount(x, c)]
  <1>1. Children(r) = {}
    BY DEF Leaf
  <1>2. h \in [Children(r) -> Int] /\ IsFiniteSet(Children(r))
    BY <1>1, FS_EmptySet
  <1>3. SumFunctionOnSet(h, Children(r)) = 0
    <2>1. SumFunctionOnSet(h, {}) = 0
      <3> HIDE DEF h
      <3> QED BY <1>2, SumEmpty
    <2> HIDE DEF h
    <2> QED BY <1>1, <2>1
  <1>4. TrueCount(r, c) = cast[r][c] + SumFunctionOnSet(h, Children(r))
    BY TrueCountSteps
  <1>5. cast[r][c] \in 0 .. MaxVotes
    BY RegionInSlot DEF VotesTypeOK
  <1> HIDE DEF h
  <1> QED BY <1>3, <1>4, <1>5, VoteAssumption

-----------------------------------------------------------------------------
(***************************************************************************)
(* Stored sums.  As long as none was stored early: below a region that has *)
(* one no leaf takes votes any more; a region that is no leaf took none    *)
(* itself and lists each name once; and what is stored is what is below,   *)
(* at the root as many times as Return_Winner has added it.                *)
(***************************************************************************)
Times(r) == IF r = Root THEN 1 .. MaxCount ELSE {1}

Closing ==
  \A q \in Region : ~Leaf(q) /\ HasData(q) => \A l \in Below(q) : Leaf(l) => closed[l]

Inner ==
  \A r \in Region : ~Leaf(r) => Distinct(counts[r]) /\ \A c \in Candidates : cast[r][c] = 0

Stored ==
  \A r \in Region : ~Leaf(r) /\ HasData(r) =>
    \E k \in Times(r) : \A c \in Candidates : VotesFor(counts[r], c) = k * TrueCount(r, c)

SumsInv == ~early => Closing /\ Inner /\ Stored

\* What aggregate takes from a child is what was cast there and below.
LEMMA StoredBelow ==
  ASSUME PollTypeOK, ServerInv, Inner, Stored,
         NEW x \in Region, x # Root, HasData(x) \/ Leaf(x), NEW c \in Candidates
  PROVE  VotesFor(counts[x], c) = TrueCount(x, c)
  <1>1. CASE Leaf(x)
    BY <1>1, LeafCount DEF ServerInv, LeavesExact
  <1>2. CASE ~ Leaf(x)
    <2>1. PICK k \in Times(x) : VotesFor(counts[x], c) = k * TrueCount(x, c)
      BY <1>2 DEF Stored
    <2>2. k = 1
      BY <2>1 DEF Times
    <2>3. TrueCount(x, c) \in Nat
      BY TrueCountSteps DEF ServerInv
    <2> QED BY <2>1, <2>2, <2>3
  <1> QED BY <1>1, <1>2

\* aggregate adds to a region's list what was cast below it, on whatever of it the
\* regions below have stored.
LEMMA AggregatedSums ==
  ASSUME PollTypeOK, ServerInv, Inner, Stored, NEW r \in Region, NEW c \in Candidates
  PROVE  VotesFor(Aggregated[r], c) = VotesFor(counts[r], c)
           + SumFunctionOnSet([x \in Children(r) |-> TrueCount(x, c)], Children(r))
  <1> DEFINE Whole(q) == SumFunctionOnSet([x \in Children(q) |-> TrueCount(x, c)], Children(q))
             Full(q) == VotesFor(Aggregated[q], c) = VotesFor(counts[q], c) + Whole(q)
             Held == {k \in 0 .. size : \A q \in Region : size - k < q => Full(q)}
  <1>1. /\ size \in Nat /\ \A q \in Region : q \in Nat /\ q <= size /\ q \in Slot
        /\ counts \in [Slot -> Lists] /\ TreeShape /\ VotesTypeOK
    <2>1. Region \in SUBSET Slot
      BY RegionInSlot
    <2> QED BY <2>1, DagAssumption DEF PollTypeOK, Slot, Region, ServerInv, VotesTypeOK
  <1>2. /\ Aggregated \in [Slot -> Lists]
        /\ \A q \in Slot : Aggregated[q] = Gathered(counts[q], ChildLists(Aggregated, q))
    BY <1>1, AggregatedFacts
  <1> HIDE DEF Lists
  <1>3. 0 \in Held
    BY <1>1
  <1>4. ASSUME NEW k \in 1 .. size, k - 1 \in Held PROVE k \in Held
    <2>1. ASSUME NEW q \in Region, size - k < q PROVE Full(q)
      <3> DEFINE S == Children(q)
                 lists == ChildLists(Aggregated, q)
      <3>1. lists \in [S -> Lists] /\ S \in SUBSET Slot /\ counts[q] \in Lists
        BY <1>1, <1>2, ChildListsTyped, ChildrenInSlot
      <3>2. ASSUME NEW x \in S PROVE VotesFor(lists[x], c) = TrueCount(x, c)
        <4>1. x \in Region /\ q < x /\ x \in Slot /\ x # Root
          <5>1. x \in Region /\ q < x /\ x \in Slot /\ q \in Slot
            BY <1>1, ChildrenLater
          <5> QED BY <5>1 DEF Root, Slot
        <4>2. lists[x] = IF HasData(x) THEN counts[x] ELSE Aggregated[x]
          BY DEF ChildLists
        <4> HIDE DEF lists, S
        <4>3. CASE HasData(x)
          BY <4>1, <4>2, <4>3, StoredBelow
        <4>4. CASE ~ HasData(x)
          <5>1. VotesFor(counts[x], c) = 0 /\ lists[x] = Aggregated[x]
            BY <4>2, <4>4, VotesOfNone DEF HasData
          <5>2. size - (k - 1) < x
            BY <1>1, <2>1, <4>1
          <5>3. Full(x)
            <6> HIDE DEF Full
            <6> QED BY <1>4, <4>1, <5>2
          <5>4. TrueCount(x, c) \in Nat /\ TrueCount(x, c) = cast[x][c] + Whole(x)
            BY <1>1, <4>1, TrueCountSteps
          <5>5. cast[x][c] = 0
            <6>1. CASE Leaf(x)
              BY <4>1, <5>1, <6>1 DEF ServerInv, LeavesExact
            <6>2. CASE ~ Leaf(x)
              BY <4>1, <6>2 DEF Inner
            <6> QED BY <6>1, <6>2
          <5>6. Whole(x) \in Int
            BY <1>1, <4>1, ChildCountsTyped
          <5> HIDE DEF Whole
          <5> QED BY <5>1, <5>3, <5>4, <5>5, <5>6
        <4> QED BY <4>3, <4>4
      <3>3. VotesFor(Gathered(counts[q], lists), c)
              = VotesFor(counts[q], c) + SumFunctionOnSet([x \in S |-> VotesFor(lists[x], c)], S)
        <4> HIDE DEF lists, S
        <4> QED BY <3>1, GatheredRight
      <3>4. [x \in S |-> VotesFor(lists[x], c)] = [x \in S |-> TrueCount(x, c)]
        <4> HIDE DEF lists, S
        <4> QED BY <3>2
      <3>5. Aggregated[q] = Gathered(counts[q], lists)
        BY <1>1, <1>2
      <3> HIDE DEF lists
      <3>6. VotesFor(Aggregated[q], c)
              = VotesFor(counts[q], c) + SumFunctionOnSet([x \in S |-> TrueCount(x, c)], S)
        BY <3>3, <3>4, <3>5
      <3> QED BY <3>6
    <2> HIDE DEF Full
    <2>2. k \in 0 .. size
      BY <1>1
    <2> QED BY <2>1, <2>2
  <1>5. 0 .. size \subseteq Held
    <2> HIDE DEF Held
    <2> QED BY <1>1, <1>3, <1>4, UpTo
  <1>6. size \in 0 .. size /\ size - size < r
    BY <1>1 DEF Region
  <1>7. Full(r)
    <2> HIDE DEF Full
    <2> QED BY <1>5, <1>6
  <1> QED BY <1>7

LEMMA InnerSums ==
  ASSUME PollTypeOK, ServerInv, Inner, Stored, NEW r \in Region, ~Leaf(r), NEW c \in Candidates
  PROVE  /\ TrueCount(r, c) \in Nat
         /\ VotesFor(Aggregated[r], c) = VotesFor(counts[r], c) + TrueCount(r, c)
  <1> DEFINE w == SumFunctionOnSet([x \in Children(r) |-> TrueCount(x, c)], Children(r))
  <1>1. TrueCount(r, c) \in Nat /\ TrueCount(r, c) = cast[r][c] + w
    BY TrueCountSteps DEF ServerInv
  <1>2. VotesFor(Aggregated[r], c) = VotesFor(counts[r], c) + w
    BY AggregatedSums
  <1>3. cast[r][c] = 0
    BY DEF Inner
  <1>4. w \in Int
    BY ChildCountsTyped DEF ServerInv
  <1> HIDE DEF w
  <1> QED BY <1>1, <1>2, <1>3, <1>4
\* In a list without repetitions a candidate's votes are those of one entry.
LEMMA DistinctVotes ==
  ASSUME NEW list \in Lists, Distinct(list)
  PROVE  /\ \A k \in DOMAIN list : VotesFor(list, list[k].who) = list[k].n
         /\ \A c : (\A k \in DOMAIN list : list[k].who # c) => VotesFor(list, c) = 0
  <1> DEFINE D == DOMAIN list
  <1>1. /\ IsFiniteSet(D) /\ D \in SUBSET D
        /\ \A c : Amounts(list, c) \in [D -> Int]
        /\ \A k \in D : list[k].n \in Nat
    BY ListFacts DEF Lists
  <1>2. \A c : \A k \in D : Amounts(list, c)[k] = IF list[k].who = c THEN list[k].n ELSE 0
    BY DEF Amounts
  <1>3. \A c : VotesFor(list, c) = SumFunctionOnSet(Amounts(list, c), D)
    BY DEF VotesFor
  <1>4. \A j, k \in D : list[j].who = list[k].who => j = k
    BY DEF Distinct
  <1> HIDE DEF D
  <1>5. ASSUME NEW k \in D PROVE VotesFor(list, list[k].who) = list[k].n
    <2> DEFINE c == list[k].who
               f == Amounts(list, c)
    <2>1. f \in [D -> Int] /\ f[k] = list[k].n /\ list[k].n \in Nat
      BY <1>1, <1>2
    <2>2. \A j \in D \ {k} : f[j] = 0
      BY <1>2, <1>4
    <2>3. VotesFor(list, c) = SumFunctionOnSet(f, D)
      BY <1>3
    <2> HIDE DEF f
    <2>4. SumFunctionOnSet(f, D) = f[k] + SumFunctionOnSet(f, D \ {k})
      BY <1>1, <2>1, SumAny
    <2>5. SumFunctionOnSet(f, D \ {k}) = 0
      BY <1>1, <2>1, <2>2, SumZero
    <2> QED BY <2>1, <2>3, <2>4, <2>5
  <1>6. ASSUME NEW c, \A k \in D : list[k].who # c PROVE VotesFor(list, c) = 0
    <2> DEFINE f == Amounts(list, c)
    <2>1. f \in [D -> Int] /\ (\A k \in D : f[k] = 0) /\ VotesFor(list, c) = SumFunctionOnSet(f, D)
      BY <1>1, <1>2, <1>3, <1>6
    <2> HIDE DEF f
    <2> QED BY <1>1, <2>1, SumZero
  <1> QED BY <1>5, <1>6 DEF D

-----------------------------------------------------------------------------
(***************************************************************************)
(* No step breaks SumsInv.                                                 *)
(***************************************************************************)
LEMMA SameTree ==
  ASSUME UNCHANGED <<size, parent>>
  PROVE  /\ Region' = Region
         /\ Ancestry' = Ancestry
         /\ \A q : Below(q)' = Below(q) /\ Children(q)' = Children(q) /\ (Leaf(q)' <=> Leaf(q))
  <1>1. Region' = Region
    BY DEF Region
  <1>2. Ancestry' = Ancestry
    BY DEF Ancestry
  <1>3. \A q : Children(q)' = Children(q) /\ (Leaf(q)' <=> Leaf(q))
    BY <1>1 DEF Children, Leaf
  <1>4. \A q : Below(q)' = Below(q)
    BY <1>1, <1>2 DEF Below
  <1> QED BY <1>1, <1>2, <1>3, <1>4

LEMMA SameCount ==
  ASSUME PollTypeOK, TreeShape, VotesTypeOK, VotesTypeOK', UNCHANGED <<size, parent>>,
         NEW r \in Region, NEW c \in Candidates, \A q \in Below(r) : cast'[q] = cast[q]
  PROVE  TrueCount(r, c)' = TrueCount(r, c)
  <1> DEFINE f == Votes(c)
             h == [q \in Slot |-> cast'[q][c]]
  <1>1. f \in [Slot -> Int] /\ IsFiniteSet(Slot)
    BY VotesTyped, SlotFinite
  <1>2. h \in [Slot -> Int]
    <2>1. \A q \in Slot : cast'[q][c] \in 0 .. MaxVotes
      BY DEF VotesTypeOK
    <2> QED BY <2>1, VoteAssumption
  <1>3. Below(r) \in SUBSET Slot /\ Below(r)' = Below(r)
    BY SameTree, RegionInSlot DEF Below
  <1>4. \A q \in Below(r) : f[q] = h[q]
    BY <1>3 DEF Votes
  <1>5. TrueCount(r, c) = SumFunctionOnSet(f, Below(r))
    BY DEF TrueCount, Votes
  <1>6. TrueCount(r, c)' = SumFunctionOnSet(h, Below(r))
    BY <1>3 DEF TrueCount
  <1> HIDE DEF f, h
  <1>7. SumFunctionOnSet(f, Below(r)) = SumFunctionOnSet(h, Below(r))
    BY <1>1, <1>2, <1>3, <1>4, SumSame
  <1> QED BY <1>5, <1>6, <1>7
\* Requests that change neither lists nor votes nor the tree.
QuietSums ==
  /\ UNCHANGED <<size, parent, counts, cast>>
  /\ early => early'
  /\ \A q \in Slot : closed[q] => closed'[q]

LEMMA QuietKeepsSums ==
  ASSUME PollTypeOK, ServerInv, ServerInv', SumsInv, QuietSums PROVE SumsInv'
  <1> SUFFICES ASSUME ~early' PROVE Closing' /\ Inner' /\ Stored'
    BY DEF SumsInv
  <1>1. Closing /\ Inner /\ Stored
    BY DEF SumsInv, QuietSums
  <1>2. /\ Region' = Region /\ counts' = counts /\ cast' = cast /\ UNCHANGED <<size, parent>>
        /\ \A q : Below(q)' = Below(q) /\ (Leaf(q)' <=> Leaf(q))
        /\ \A l \in Slot : closed[l] => closed'[l]
    BY SameTree DEF QuietSums
  <1>3. ASSUME NEW q \in Region, ~Leaf(q), HasData(q), NEW l \in Below(q), Leaf(l)
        PROVE  closed'[l]
    <2>1. closed[l]
      BY <1>1, <1>3 DEF Closing
    <2>2. l \in Slot
      BY RegionInSlot DEF Below
    <2> QED BY <1>2, <2>1, <2>2
  <1>4. Closing'
    BY <1>2, <1>3 DEF Closing, HasData
  <1>5. Inner'
    BY <1>1, <1>2 DEF Inner
  <1>6. \A r \in Region : \A c \in Candidates : TrueCount(r, c)' = TrueCount(r, c)
    BY <1>2, SameCount DEF ServerInv
  <1>7. Stored'
    BY <1>1, <1>2, <1>6 DEF Stored, HasData
  <1> QED BY <1>4, <1>5, <1>7

\* A region is added.
AddSums ==
  \E q \in Region, nm \in Names :
    /\ Lookup(q, nm)
    /\ size' = size + 1
    /\ parent' = [parent EXCEPT ![size + 1] = q]
    /\ UNCHANGED <<counts, cast>>
    /\ early' = \/ early
                \/ Known(nm) /\ \E r \in Region : HasData(r) /\ (~Leaf(r) \/ Lookup(r, nm))

LEMMA AddKeepsSums ==
  ASSUME PollTypeOK, ServerInv, ServerInv', SumsInv, [PollNext]_pollVars, AddSums
  PROVE  SumsInv'
  <1> SUFFICES ASSUME ~early' PROVE Closing' /\ Inner' /\ Stored'
    BY DEF SumsInv
  <1>1. PICK q \in Region, nm \in Names :
          /\ Lookup(q, nm)
          /\ size' = size + 1
          /\ parent' = [parent EXCEPT ![size + 1] = q]
          /\ UNCHANGED <<counts, cast>>
          /\ ~early
          /\ \A r \in Region : HasData(r) => Leaf(r) /\ ~Lookup(r, nm)
    BY DEF AddSums, Lookup, Known
  <1>2. Closing /\ Inner /\ Stored
    BY <1>1 DEF SumsInv
  <1>3. /\ size \in Nat /\ Region' = Region \cup {size + 1} /\ size + 1 \notin Region
        /\ \A r \in Region : r \in Slot /\ parent'[r] = parent[r]
        /\ Region' \ Region \subseteq Slot
    <2>1. \A r \in Region : parent'[r] = parent[r]
      BY TreeGrows DEF ServerInv
    <2>2. Region' \ Region \subseteq Slot
      BY TreeGrows DEF ServerInv
    <2>3. Region \in SUBSET Slot
      BY RegionInSlot
    <2>4. size \in Nat
      BY DagAssumption DEF PollTypeOK, Slot
    <2>5. Region' = 1 .. size + 1
      BY <1>1 DEF Region
    <2>6. 1 .. size + 1 = (1 .. size) \cup {size + 1} /\ size + 1 \notin 1 .. size
      BY <2>4
    <2> QED BY <2>1, <2>2, <2>3, <2>4, <2>5, <2>6 DEF Region
  <1>4. counts[size + 1] = <<>> /\ \A c \in Candidates : cast[size + 1][c] = 0
    BY <1>3 DEF ServerInv, Blank
  <1>5. ASSUME NEW r \in Region, r # q, Leaf(r) PROVE Leaf(r)'
    <2>1. \A x \in Region : parent'[x] # r
      BY <1>3, <1>5 DEF Leaf, Children
    <2>2. parent'[size + 1] = q
      BY <1>1, <1>3 DEF PollTypeOK
    <2>3. \A x \in Region' : parent'[x] # r
      BY <1>3, <1>5, <2>1, <2>2
    <2> QED BY <2>3 DEF Leaf, Children
  <1>6. ~HasData(q)
    BY <1>1
  <1>7. ASSUME NEW r \in Region', ~Leaf(r)' PROVE counts[r] = <<>>
    <2>1. CASE r = size + 1
      BY <1>4, <2>1
    <2>2. CASE r # size + 1
      <3>1. r \in Region
        BY <1>3, <2>2
      <3>2. CASE r = q
        BY <1>6, <3>2 DEF HasData
      <3>3. CASE r # q
        BY <1>1, <1>5, <1>7, <3>1, <3>3 DEF HasData
      <3> QED BY <3>2, <3>3
    <2> QED BY <2>1, <2>2
  <1>8. ASSUME NEW r \in Region', ~Leaf(r)', NEW c \in Candidates PROVE cast[r][c] = 0
    <2>1. CASE r = size + 1
      BY <1>4, <2>1
    <2>2. CASE r # size + 1
      <3>1. r \in Region
        BY <1>3, <2>2
      <3>2. CASE Leaf(r)
        <4>1. counts[r] = <<>>
          BY <1>7, <1>8
        <4>2. VotesFor(counts[r], c) = cast[r][c]
          BY <3>1, <3>2 DEF ServerInv, LeavesExact
        <4> QED BY <4>1, <4>2, VotesOfNone
      <3>3. CASE ~ Leaf(r)
        BY <1>2, <3>1, <3>3 DEF Inner
      <3> QED BY <3>2, <3>3
    <2> QED BY <2>1, <2>2
  <1>9. Distinct(<<>>)
    BY DEF Distinct
  <1>10. \A r \in Region' : ~Leaf(r)' => counts'[r] = <<>> /\ Distinct(counts'[r])
    BY <1>1, <1>7, <1>9
  <1>11. \A r \in Region' : ~Leaf(r)' => ~HasData(r)'
    BY <1>10 DEF HasData
  <1>12. Closing'
    BY <1>11 DEF Closing
  <1>13. Inner'
    BY <1>1, <1>8, <1>10 DEF Inner
  <1>14. Stored'
    BY <1>11 DEF Stored
  <1> QED BY <1>12, <1>13, <1>14

LEMMA LeafKeepsSums ==
  ASSUME PollTypeOK, ServerInv, ServerInv', SumsInv, NEW l \in Region, LeafStep(l), early => early'
  PROVE  SumsInv'
  <1> SUFFICES ASSUME ~early' PROVE Closing' /\ Inner' /\ Stored'
    BY DEF SumsInv
  <1>1. Closing /\ Inner /\ Stored
    BY DEF SumsInv
  <1>2. UNCHANGED <<size, parent, closed>> /\ Leaf(l) /\ ~closed[l]
    BY DEF LeafStep, pollVars
  <1>3. /\ Region' = Region /\ UNCHANGED <<size, parent>> /\ Region \in SUBSET Slot
        /\ \A q : Below(q)' = Below(q) /\ (Leaf(q)' <=> Leaf(q))
    BY <1>2, SameTree, RegionInSlot
  <1>4. ASSUME NEW q \in Slot, q # l PROVE counts'[q] = counts[q] /\ cast'[q] = cast[q]
    <2>1. PICK list, f : NewVotes(l, list, f)
      BY DEF LeafStep
    <2>2. /\ counts' = [counts EXCEPT ![l] = list] /\ cast' = [cast EXCEPT ![l] = f]
          /\ counts \in [Slot -> Lists] /\ cast \in [Slot -> [Candidates -> 0 .. MaxVotes]]
      BY <2>1 DEF NewVotes, ServerInv, VotesTypeOK
    <2> HIDE DEF Lists
    <2> QED BY <1>4, <2>2
  <1>5. \A q \in Region : ~Leaf(q) => q # l /\ counts'[q] = counts[q] /\ cast'[q] = cast[q]
    BY <1>2, <1>3, <1>4
  <1>6. Closing'
    BY <1>1, <1>2, <1>3, <1>5 DEF Closing, HasData
  <1>7. Inner'
    BY <1>1, <1>3, <1>5 DEF Inner
  <1>8. ASSUME NEW q \in Region, ~Leaf(q), HasData(q), NEW c \in Candidates
        PROVE  TrueCount(q, c)' = TrueCount(q, c)
    <2>1. l \notin Below(q)
      BY <1>1, <1>2, <1>8 DEF Closing
    <2>2. \A x \in Below(q) : cast'[x] = cast[x]
      BY <1>3, <1>4, <2>1 DEF Below
    <2> QED BY <1>3, <2>2, SameCount DEF ServerInv
  <1>9. Stored'
    BY <1>1, <1>3, <1>5, <1>8 DEF Stored, HasData
  <1> QED BY <1>6, <1>7, <1>9
\* Sums that are stored when nothing below can change; the root's list may have
\* had votes before.
FinalSums(r) ==
  /\ SumStep(r)
  /\ ~early' =>
       /\ ~early
       /\ \A q, l \in Region :
            counts'[q] # counts[q] /\ Leaf(l) /\ q \in Ancestry[l] => closed[l]
  /\ HasData(r) => r = Root /\ \A i \in DOMAIN counts'[Root] : counts'[Root][i].n <= MaxCount

\* The lists a sum step stores.
LEMMA SummedLists ==
  ASSUME PollTypeOK, ServerInv, Inner, Stored, NEW r \in Region, SumStep(r),
         NEW q \in Region, ~Leaf(q)
  PROVE  /\ counts'[q] \in Lists
         /\ Distinct(counts'[q])
         /\ \/ counts'[q] = counts[q]
            \/ /\ HasData(q) => q = r
               /\ \A c \in Candidates :
                    VotesFor(counts'[q], c) = VotesFor(counts[q], c) + TrueCount(q, c)
  <1>1. /\ q \in Slot /\ r \in Slot /\ counts \in [Slot -> Lists] /\ TreeShape
    BY RegionInSlot DEF ServerInv, VotesTypeOK
  <1> HIDE DEF Lists
  <1>2. /\ Aggregated \in [Slot -> Lists]
        /\ Aggregated[q] = Gathered(counts[q], ChildLists(Aggregated, q))
    BY <1>1, AggregatedFacts
  <1>3. ChildLists(Aggregated, q) \in [Children(q) -> Lists] /\ Children(q) \in SUBSET Slot
    BY <1>1, <1>2, ChildListsTyped, ChildrenInSlot
  <1>4. Distinct(counts[q])
    BY DEF Inner
  <1>5. Distinct(Aggregated[q])
    BY <1>1, <1>2, <1>3, <1>4, GatheredRight
  <1>6. counts'[q] = IF q \in Entered(r) THEN Aggregated[q] ELSE counts[q]
    BY <1>1 DEF SumStep, Aggregate
  <1>7. ASSUME q \in Entered(r), HasData(q) PROVE q = r
    <2>1. r \in Ancestry[q] /\ \A x \in Ancestry[q] : r \in Ancestry[x] /\ x # r => ~HasData(x)
      BY <1>7 DEF Entered
    <2>2. q \in Ancestry[q]
      BY <1>1, AncestryFacts
    <2> QED BY <1>7, <2>1, <2>2
  <1>8. \A c \in Candidates : VotesFor(Aggregated[q], c) = VotesFor(counts[q], c) + TrueCount(q, c)
    BY InnerSums
  <1>9. CASE q \in Entered(r)
    BY <1>2, <1>5, <1>6, <1>7, <1>8, <1>1, <1>9
  <1>10. CASE q \notin Entered(r)
    BY <1>1, <1>4, <1>6, <1>10
  <1> QED BY <1>9, <1>10

\* Once more is still at most MaxCount times: one entry holds all the votes of a
\* candidate that has any.
LEMMA OnceMoreCounted ==
  ASSUME NEW list \in Lists, Distinct(list),
         \A i \in DOMAIN list : list[i].n <= MaxCount,
         NEW k \in 1 .. MaxCount, NEW t \in [Candidates -> Nat],
         \A c \in Candidates : VotesFor(list, c) = k * t[c] + t[c]
  PROVE  \E m \in 1 .. MaxCount : \A c \in Candidates : VotesFor(list, c) = m * t[c]
  <1>1. k \in Nat /\ MaxCount \in Nat /\ 1 <= k /\ 1 \in 1 .. MaxCount
    BY VoteAssumption
  <1>2. CASE \A c \in Candidates : t[c] = 0
    <2>1. \A c \in Candidates : VotesFor(list, c) = 1 * t[c]
      BY <1>1, <1>2
    <2> QED BY <1>1, <2>1
  <1>3. CASE \E c \in Candidates : t[c] # 0
    <2>1. PICK c \in Candidates : t[c] # 0
      BY <1>3
    <2>2. t[c] \in Nat /\ t[c] >= 1
      BY <2>1
    <2>3. VotesFor(list, c) >= k + 1
      <3>1. \A a, b \in Nat : b >= 1 => a * b + b >= a + 1
        OBVIOUS
      <3>2. k * t[c] + t[c] >= k + 1
        BY <1>1, <2>2, <3>1
      <3> QED BY <3>2
    <2>4. VotesFor(list, c) <= MaxCount
      <3>1. CASE \A i \in DOMAIN list : list[i].who # c
        <4>1. VotesFor(list, c) = 0
          BY <3>1, DistinctVotes
        <4> QED BY <1>1, <4>1
      <3>2. CASE \E i \in DOMAIN list : list[i].who = c
        <4>1. PICK i \in DOMAIN list : list[i].who = c
          BY <3>2
        <4>2. VotesFor(list, list[i].who) = list[i].n
          BY DistinctVotes
        <4>3. VotesFor(list, c) = list[i].n
          BY <4>1, <4>2
        <4> QED BY <4>3
      <3> QED BY <3>1, <3>2
    <2>5. k + 1 \in 1 .. MaxCount
      <3>1. VotesFor(list, c) \in Nat
        BY ListFacts DEF Lists
      <3> QED BY <1>1, <2>3, <2>4, <3>1
    <2>6. \A x \in Candidates : VotesFor(list, x) = (k + 1) * t[x]
      <3>1. \A a, b \in Nat : a * b + b = (a + 1) * b
        OBVIOUS
      <3> QED BY <1>1, <3>1
    <2> QED BY <2>5, <2>6
  <1> QED BY <1>2, <1>3

LEMMA SumKeepsSums ==
  ASSUME PollTypeOK, ServerInv, ServerInv', SumsInv, NEW r \in Region, FinalSums(r)
  PROVE  SumsInv'
  <1> SUFFICES ASSUME ~early' PROVE Closing' /\ Inner' /\ Stored'
    BY DEF SumsInv
  <1>1. Closing /\ Inner /\ Stored /\ SumStep(r)
    BY DEF SumsInv, FinalSums
  <1>2. UNCHANGED <<size, parent, closed, cast>>
    BY <1>1 DEF SumStep, pollVars
  <1>3. /\ Region' = Region /\ UNCHANGED <<size, parent>> /\ Region \in SUBSET Slot
        /\ \A q : Below(q)' = Below(q) /\ (Leaf(q)' <=> Leaf(q))
    BY <1>2, SameTree, RegionInSlot
  <1> HIDE DEF Lists
  <1>4. ASSUME NEW q \in Region, ~Leaf(q)
        PROVE  /\ counts'[q] \in Lists
               /\ Distinct(counts'[q])
               /\ \/ counts'[q] = counts[q]
                  \/ /\ HasData(q) => q = r
                     /\ \A c \in Candidates :
                          VotesFor(counts'[q], c) = VotesFor(counts[q], c) + TrueCount(q, c)
    BY <1>1, <1>4, SummedLists
  <1>5. ASSUME NEW q \in Region, ~Leaf(q), counts'[q] # <<>>, NEW l \in Below(q), Leaf(l)
        PROVE  closed[l]
    <2>1. CASE counts'[q] = counts[q]
      BY <1>1, <1>5, <2>1 DEF Closing, HasData
    <2>2. CASE counts'[q] # counts[q]
      BY <1>5, <2>2 DEF FinalSums, Below
    <2> QED BY <2>1, <2>2
  <1>6. Closing'
    BY <1>2, <1>3, <1>5 DEF Closing, HasData
  <1>7. Inner'
    BY <1>1, <1>2, <1>3, <1>4 DEF Inner
  <1>8. ASSUME NEW q \in Region, ~Leaf(q), counts'[q] # <<>>
        PROVE  \E k \in Times(q) : \A c \in Candidates : VotesFor(counts'[q], c) = k * TrueCount(q, c)
    <2>0. MaxCount \in Nat /\ 1 \in Times(q)
      BY VoteAssumption DEF Times
    <2>1. CASE counts'[q] = counts[q]
      BY <1>1, <1>8, <2>1 DEF Stored, HasData
    <2>2. CASE counts'[q] # counts[q]
      <3>1. \A c \in Candidates : TrueCount(q, c) \in Nat
        BY TrueCountSteps DEF ServerInv
      <3>2. /\ HasData(q) => q = r
            /\ \A c \in Candidates :
                 VotesFor(counts'[q], c) = VotesFor(counts[q], c) + TrueCount(q, c)
        BY <1>4, <1>8, <2>2
      <3>3. CASE ~HasData(q)
        <4>1. ASSUME NEW c \in Candidates PROVE VotesFor(counts'[q], c) = 1 * TrueCount(q, c)
          <5>1. VotesFor(counts[q], c) = 0
            BY <3>3, VotesOfNone DEF HasData
          <5> QED BY <3>1, <3>2, <5>1
        <4> QED BY <2>0, <4>1
      <3>4. CASE HasData(q)
        <4>1. q = r /\ q = Root /\ \A i \in DOMAIN counts'[q] : counts'[q][i].n <= MaxCount
          BY <3>2, <3>4 DEF FinalSums
        <4>2. Times(q) = 1 .. MaxCount
          BY <4>1 DEF Times
        <4>3. PICK k \in Times(q) : \A c \in Candidates : VotesFor(counts[q], c) = k * TrueCount(q, c)
          BY <1>1, <1>8, <3>4 DEF Stored
        <4> DEFINE t == [c \in Candidates |-> TrueCount(q, c)]
                   new == counts'[q]
        <4>4. /\ new \in Lists /\ Distinct(new) /\ \A i \in DOMAIN new : new[i].n <= MaxCount
              /\ k \in 1 .. MaxCount /\ t \in [Candidates -> Nat]
              /\ \A c \in Candidates : t[c] = TrueCount(q, c)
          BY <1>4, <1>8, <3>1, <4>1, <4>2
        <4>5. \A c \in Candidates : VotesFor(new, c) = k * t[c] + t[c]
          BY <3>2, <4>3
        <4> HIDE DEF t, new
        <4>6. \E m \in 1 .. MaxCount : \A c \in Candidates : VotesFor(new, c) = m * t[c]
          BY <4>4, <4>5, OnceMoreCounted
        <4>7. \E m \in 1 .. MaxCount : \A c \in Candidates : VotesFor(new, c) = m * TrueCount(q, c)
          BY <4>4, <4>6
        <4> QED BY <4>2, <4>7 DEF new
      <3> QED BY <3>3, <3>4
    <2> QED BY <2>1, <2>2
  <1>9. \A q \in Region : \A c \in Candidates : TrueCount(q, c)' = TrueCount(q, c)
    BY <1>2, <1>3, SameCount DEF ServerInv
  <1>10. Stored'
    BY <1>3, <1>8, <1>9 DEF Stored, HasData
  <1> QED BY <1>6, <1>7, <1>10
LEMMA StepKeepsSums ==
  ASSUME PollTypeOK, ServerInv, ServerInv', SumsInv, [Next]_vars PROVE SumsInv'
  <1>1. CASE QuietSums
    BY <1>1, QuietKeepsSums
  <1>2. ASSUME NEW nm \in Names, OP(nm) PROVE QuietSums
    BY <1>2 DEF OP, OpenPolls, treeVars, QuietSums
  <1>3. ASSUME NEW nm \in Names, CP(nm) PROVE QuietSums
    <2>1. \A q \in Slot : closed[q] => closed'[q]
      BY <1>3 DEF CP, ClosePolls
    <2> QED BY <1>3, <2>1 DEF CP, ClosePolls, treeVars, QuietSums
  <1>4. ASSUME NEW pnm \in Names, NEW nm \in NewNames, AR(pnm, nm) PROVE SumsInv'
    <2>1. [PollNext]_pollVars
      BY <1>4 DEF AR, PollNext
    <2>2. CASE ~Known(pnm)
      <3>1. QuietSums
        BY <1>4, <2>2 DEF AR, AddRegion, Known, Lookup, treeVars, QuietSums
      <3> QED BY <3>1, QuietKeepsSums
    <2>3. CASE Known(pnm)
      <3>1. AddSums
        BY <1>4, <2>3 DEF AR, AddRegion, AddSums
      <3> QED BY <2>1, <3>1, AddKeepsSums
    <2> QED BY <2>2, <2>3
  <1>5. ASSUME NEW nm \in Names, NEW file \in VoteFiles, AV(nm, file) \/ RV(nm, file)
        PROVE  SumsInv'
    <2>1. QuietStep \/ \E l \in Region : LeafStep(l)
      BY <1>5, AddIsLeafStep, RemoveIsLeafStep
    <2>2. early' = early /\ UNCHANGED <<size, parent, closed>>
      BY <1>5 DEF AV, RV, Refuse, pollVars
    <2>3. CASE QuietStep
      <3>1. QuietSums
        BY <2>2, <2>3 DEF QuietStep, QuietSums
      <3> QED BY <3>1, QuietKeepsSums
    <2>4. CASE \E l \in Region : LeafStep(l)
      BY <2>2, <2>4, LeafKeepsSums
    <2> QED BY <2>1, <2>3, <2>4
  <1>6. ASSUME NEW nm \in Names, CV(nm) PROVE SumsInv'
    <2>1. UNCHANGED <<size, parent, closed, cast, pollVars>>
      BY <1>6 DEF CV, pollVars
    <2>2. CASE UNCHANGED counts
      <3>1. early => early'
        BY <1>6 DEF CV
      <3>2. QuietSums
        BY <2>1, <2>2, <3>1 DEF QuietSums
      <3> QED BY <3>2, QuietKeepsSums
    <2>3. CASE ~ UNCHANGED counts
      <3>1. PICK r \in Region :
              /\ counts' = IF HasData(r) THEN counts ELSE Aggregate(r)
              /\ early' = (early \/ \E q, l \in Region :
                                      /\ counts'[q] # counts[q]
                                      /\ Leaf(l) /\ ~closed[l] /\ q \in Ancestry[l])
        BY <1>6, <2>3 DEF CV
      <3>2. FinalSums(r)
        BY <2>1, <2>3, <3>1 DEF FinalSums, SumStep
      <3> QED BY <3>2, SumKeepsSums
    <2> QED BY <2>2, <2>3
  <1>7. ASSUME RW PROVE SumsInv'
    <2>1. UNCHANGED <<size, parent, closed, cast, pollVars, early>>
      BY <1>7 DEF RW, pollVars
    <2>2. CASE ~FinalCount
      <3>1. QuietSums
        BY <1>7, <2>1, <2>2 DEF RW, QuietSums
      <3> QED BY <3>1, QuietKeepsSums
    <2>3. CASE FinalCount
      <3>1. /\ counts' = Aggregate(Root)
            /\ \A i \in DOMAIN counts'[Root] : counts'[Root][i].n <= MaxCount
        BY <1>7, <2>3 DEF RW
      <3>2. \A l \in Region : Leaf(l) => closed[l]
        BY <2>3 DEF FinalCount
      <3>3. Root \in Region
        BY RegionInSlot
      <3>4. FinalSums(Root)
        BY <2>1, <3>1, <3>2, <3>3 DEF FinalSums, SumStep
      <3> QED BY <3>3, <3>4, SumKeepsSums
    <2> QED BY <2>2, <2>3
  <1>8. UC \/ UNCHANGED vars => QuietSums
    BY DEF UC, vars, votes, pollVars, QuietSums
  <1> QED BY <1>1, <1>2, <1>3, <1>4, <1>5, <1>6, <1>7, <1>8 DEF Next

LEMMA SumsInvariance == Spec => [](PollInv /\ ServerInv /\ SumsInv)
  <1>1. Init => SumsInv
    <2> SUFFICES ASSUME Init PROVE Closing /\ Inner /\ Stored
      BY DEF SumsInv
    <2>1. PollTypeOK
      BY PollInitInv DEF Init, PollInv
    <2>2. \A r \in Region : counts[r] = <<>> /\ \A c \in Candidates : cast[r][c] = 0
      BY <2>1, RegionInSlot DEF Init
    <2>3. Distinct(<<>>)
      BY DEF Distinct
    <2> QED BY <2>2, <2>3 DEF Closing, Inner, Stored, HasData
  <1>2. PollInv /\ ServerInv /\ ServerInv' /\ SumsInv /\ [Next]_vars => SumsInv'
    BY StepKeepsSums DEF PollInv
  <1> QED BY <1>1, <1>2, ServerInvariance, PTL DEF Spec

(***************************************************************************)
(* A sum that was stored when nothing below could change any more is right *)
(* in every later state; the root's may have been counted several times,   *)
(* once by every Return_Winner (aggregate, 226-274).                       *)
(***************************************************************************)
THEOREM StoredSumsStayRight == Spec => []StoredSumsRight
  <1>1. PollInv /\ ServerInv /\ SumsInv => StoredSumsRight
    <2> SUFFICES ASSUME PollTypeOK, ServerInv, SumsInv, ~early, NEW r \in Region, HasData(r)
                 PROVE  \E k \in Times(r) : \A c \in Candidates :
                          VotesFor(counts[r], c) = k * TrueCount(r, c)
      BY DEF StoredSumsRight, PollInv, Times
    <2>1. CASE Leaf(r)
      <3>1. 1 \in Times(r)
        BY VoteAssumption DEF Times
      <3>2. ASSUME NEW c \in Candidates PROVE VotesFor(counts[r], c) = 1 * TrueCount(r, c)
        <4>1. TrueCount(r, c) = cast[r][c] /\ TrueCount(r, c) \in Nat
          BY <2>1, LeafCount, TrueCountSteps DEF ServerInv
        <4> QED BY <2>1, <4>1 DEF ServerInv, LeavesExact
      <3> QED BY <3>1, <3>2
    <2>2. CASE ~Leaf(r)
      BY <2>2 DEF SumsInv, Stored
    <2> QED BY <2>1, <2>2
  <1> QED BY <1>1, SumsInvariance, PTL
-----------------------------------------------------------------------------
(***************************************************************************)
(* The winner.                                                             *)
(***************************************************************************)
Champion(list) == IF list = <<>> THEN NoOne ELSE Leader(list)

\* Who leads a list without repetitions, in terms of the candidates' votes.
LEMMA ChampionLeads ==
  ASSUME NEW list \in Lists, Distinct(list)
  PROVE  \/ Champion(list) = NoOne /\ \A c \in Candidates : VotesFor(list, c) = 0
         \/ /\ Champion(list) \in Candidates
            /\ VotesFor(list, Champion(list)) > 0
            /\ \A c \in Candidates : VotesFor(list, c) <= VotesFor(list, Champion(list))
  <1>1. /\ \A k \in DOMAIN list : VotesFor(list, list[k].who) = list[k].n
        /\ \A c : (\A k \in DOMAIN list : list[k].who # c) => VotesFor(list, c) = 0
    BY DistinctVotes
  <1>2. \A k \in DOMAIN list : list[k].who \in Candidates /\ list[k].n \in Nat
    BY ListFacts DEF Lists
  <1>3. CASE list = <<>>
    BY <1>3, VotesOfNone DEF Champion
  <1>4. CASE list # <<>>
    <2>1. Champion(list) = Leader(list)
      BY <1>4 DEF Champion
    <2>2. CASE Leader(list) = NoOne /\ \A i \in DOMAIN list : list[i].n = 0
      <3>1. ASSUME NEW c \in Candidates PROVE VotesFor(list, c) = 0
        <4>1. CASE \E k \in DOMAIN list : list[k].who = c
          BY <1>1, <2>2, <4>1
        <4> QED BY <1>1, <4>1
      <3> QED BY <2>1, <2>2, <3>1
    <2>3. CASE ~ (Leader(list) = NoOne /\ \A i \in DOMAIN list : list[i].n = 0)
      <3>1. PICK k \in DOMAIN list :
              /\ Leader(list) = list[k].who
              /\ list[k].n > 0
              /\ \A i \in DOMAIN list : list[i].n <= list[k].n
        BY <1>4, <2>3, LeaderFacts
      <3>2. VotesFor(list, Leader(list)) = list[k].n
        BY <1>1, <3>1
      <3>3. ASSUME NEW c \in Candidates PROVE VotesFor(list, c) <= list[k].n
        <4>1. CASE \E i \in DOMAIN list : list[i].who = c
          <5>1. PICK i \in DOMAIN list : list[i].who = c
            BY <4>1
          <5>2. VotesFor(list, c) = list[i].n
            BY <1>1, <5>1
          <5> QED BY <3>1, <5>2
        <4>2. CASE ~ \E i \in DOMAIN list : list[i].who = c
          <5>1. VotesFor(list, c) = 0
            BY <1>1, <4>2
          <5> QED BY <1>2, <5>1
        <4> QED BY <4>1, <4>2
      <3> QED BY <1>2, <2>1, <3>1, <3>2, <3>3
    <2> QED BY <2>2, <2>3
  <1> QED BY <1>3, <1>4

\* The root of a DAG file of at least two regions always has a child.
LEMMA RootNotLeaf ==
  ASSUME PollInv, InitSize > 1 PROVE Root \in Region /\ ~Leaf(Root)
  <1>1. 2 \in 1 .. InitSize /\ 2 \in Region /\ Root \in Region
    BY RegionInSlot, DagAssumption DEF PollInv, PollTypeOK, Region, Slot
  <1>2. InitParent[2] = Root
    BY <1>1, DagAssumption DEF Root, Slot
  <1>3. parent[2] = Root
    BY <1>1, <1>2 DEF PollInv, DagStays, DagRegion
  <1>4. 2 \in Children(Root)
    BY <1>1, <1>3 DEF Children
  <1> QED BY <1>1, <1>4 DEF Leaf

LEMMA RootIsEntered ==
  ASSUME PollTypeOK, TreeShape PROVE Root \in Entered(Root)
  <1>1. Root \in Region /\ Root \in Slot
    BY RegionInSlot
  <1>2. Root \in Ancestry[Root] /\ Ancestry[Root] \in SUBSET (1 .. Root)
    BY <1>1, AncestryFacts
  <1>3. \A x \in Ancestry[Root] : x = Root
    BY <1>2 DEF Root
  <1> QED BY <1>1, <1>2, <1>3 DEF Entered

\* Once a winner is announced no leaf takes votes, until a region is added.
WinnerInv ==
  /\ InitSize > 1
  /\ declared # Undecided => \A l \in Region : Leaf(l) => closed[l]
  /\ declared # Undecided /\ ~early => Leads(declared)
WinnerKept ==
  /\ UNCHANGED <<size, parent, cast, declared>>
  /\ early => early'
  /\ \A q \in Slot : closed[q] => closed'[q]

LEMMA KeptWinner ==
  ASSUME PollTypeOK, ServerInv, ServerInv', OtherTypeOK, WinnerInv, WinnerKept
  PROVE  WinnerInv'
  <1>1. /\ Region' = Region /\ Region \in SUBSET Slot /\ declared' = declared
        /\ \A q : Leaf(q)' <=> Leaf(q)
        /\ Root \in Region
    BY SameTree, RegionInSlot DEF WinnerKept
  <1>2. declared' # Undecided => \A l \in Region' : Leaf(l)' => closed'[l]
    BY <1>1 DEF WinnerInv, WinnerKept
  <1>3. \A c \in Candidates : TrueCount(Root, c)' = TrueCount(Root, c)
    BY <1>1, SameCount DEF ServerInv, WinnerKept
  <1>4. ASSUME declared' # Undecided, ~early' PROVE Leads(declared)'
    <2>1. Leads(declared)
      BY <1>1, <1>4 DEF WinnerInv, WinnerKept
    <2>2. declared = NoOne \/ declared \in Candidates
      BY <1>1, <1>4 DEF OtherTypeOK
    <2> QED BY <1>1, <1>3, <2>1, <2>2 DEF Leads
  <1> QED BY <1>2, <1>4 DEF WinnerInv
\* What Return_Winner announces when it may.
LEMMA AnnouncedLeads ==
  ASSUME PollInv, ServerInv, ServerInv', SumsInv, SumsInv', InitSize > 1, ~early',
         UNCHANGED <<size, parent, cast>>, ~early, SumStep(Root)
  PROVE  Leads(Champion(counts[Root]))'
  <1> DEFINE old == counts[Root]
             new == counts'[Root]
  <1>1. PollTypeOK /\ Root \in Region /\ ~Leaf(Root) /\ Root \in Slot
    BY RootNotLeaf, RegionInSlot DEF PollInv
  <1>2. Closing /\ Inner /\ Stored /\ Stored'
    BY DEF SumsInv
  <1>3. \A c \in Candidates : TrueCount(Root, c) \in Nat /\ TrueCount(Root, c)' = TrueCount(Root, c)
    <2>1. TreeShape /\ VotesTypeOK /\ VotesTypeOK'
      BY DEF ServerInv
    <2> QED BY <1>1, <2>1, TrueCountSteps, SameCount
  <1>4. Region' = Region /\ ~Leaf(Root)'
    BY <1>1, SameTree
  <1>5. /\ new \in Lists /\ Distinct(new)
        /\ \A c \in Candidates : VotesFor(new, c) = VotesFor(old, c) + TrueCount(Root, c)
    <2>1. new \in Lists /\ Distinct(new)
      BY <1>1, <1>2, SummedLists
    <2>2. new = Aggregated[Root]
      BY <1>1, RootIsEntered DEF SumStep, Aggregate, ServerInv
    <2>3. \A c \in Candidates : VotesFor(Aggregated[Root], c) = VotesFor(old, c) + TrueCount(Root, c)
      BY <1>1, <1>2, InnerSums
    <2> HIDE DEF Lists
    <2> QED BY <2>1, <2>2, <2>3
  <1>6. \A c \in Candidates : VotesFor(old, c) \in Nat
    BY <1>1, ListFacts DEF ServerInv, VotesTypeOK, Lists
  <1>7. \E k \in Nat : k > 0 /\ \A c \in Candidates : VotesFor(new, c) = k * TrueCount(Root, c)
    <2>1. CASE new = <<>>
      <3>1. ASSUME NEW c \in Candidates PROVE VotesFor(new, c) = 1 * TrueCount(Root, c)
        <4>1. VotesFor(new, c) = 0
          BY <2>1, VotesOfNone
        <4> QED BY <1>3, <1>5, <1>6, <4>1
      <3> QED BY <3>1
    <2>2. CASE new # <<>>
      <3>1. PICK k \in Times(Root) :
              \A c \in Candidates : VotesFor(new, c) = k * TrueCount(Root, c)'
        BY <1>1, <1>2, <1>4, <2>2 DEF Stored, HasData
      <3>2. k \in Nat /\ k > 0
        BY VoteAssumption DEF Times
      <3> QED BY <1>3, <3>1, <3>2
    <2> QED BY <2>1, <2>2
  <1>8. PICK k \in Nat : k > 0 /\ \A c \in Candidates : VotesFor(new, c) = k * TrueCount(Root, c)
    BY <1>7
  <1> HIDE DEF new, old, Lists
  <1> DEFINE w == Champion(new)
  <1>9. \/ w = NoOne /\ \A c \in Candidates : VotesFor(new, c) = 0
        \/ /\ w \in Candidates
           /\ VotesFor(new, w) > 0
           /\ \A c \in Candidates : VotesFor(new, c) <= VotesFor(new, w)
    BY <1>5, ChampionLeads
  <1>10. /\ \A b \in Nat : k * b = 0 => b = 0
         /\ \A b \in Nat : k * b > 0 => b > 0
         /\ \A a, b \in Nat : k * a <= k * b => a <= b
    BY <1>8
  <1> HIDE DEF w
  <1>11. CASE w = NoOne /\ \A c \in Candidates : VotesFor(new, c) = 0
    <2>1. \A c \in Candidates : TrueCount(Root, c) = 0
      BY <1>3, <1>8, <1>10, <1>11
    <2> QED BY <1>3, <1>11, <2>1 DEF w, new, Leads
  <1>12. CASE /\ w \in Candidates
              /\ VotesFor(new, w) > 0
              /\ \A c \in Candidates : VotesFor(new, c) <= VotesFor(new, w)
    <2>1. TrueCount(Root, w) > 0
      BY <1>3, <1>8, <1>10, <1>12
    <2>2. \A c \in Candidates : TrueCount(Root, c) <= TrueCount(Root, w)
      BY <1>3, <1>8, <1>10, <1>12
    <2>3. w # NoOne
      BY <1>12, VoteAssumption
    <2> QED BY <1>3, <1>12, <2>1, <2>2, <2>3 DEF w, new, Leads
  <1> QED BY <1>9, <1>11, <1>12
LEMMA StepKeepsWinner ==
  ASSUME PollInv, ServerInv, ServerInv', OtherTypeOK, SumsInv, SumsInv', WinnerInv, [Next]_vars
  PROVE  WinnerInv'
  <1>0. PollTypeOK
    BY DEF PollInv
  <1>1. CASE WinnerKept
    BY <1>0, <1>1, KeptWinner
  <1>2. ASSUME NEW nm \in Names, OP(nm) PROVE WinnerKept
    BY <1>2 DEF OP, OpenPolls, treeVars, WinnerKept
  <1>3. ASSUME NEW nm \in Names, CP(nm) PROVE WinnerKept
    <2>1. \A q \in Slot : closed[q] => closed'[q]
      BY <1>3 DEF CP, ClosePolls
    <2> QED BY <1>3, <2>1 DEF CP, ClosePolls, treeVars, WinnerKept
  <1>4. ASSUME NEW pnm \in Names, NEW nm \in NewNames, AR(pnm, nm) PROVE WinnerInv'
    <2>1. CASE ~Known(pnm)
      <3>1. WinnerKept
        BY <1>4, <2>1 DEF AR, AddRegion, Known, Lookup, treeVars, WinnerKept
      <3> QED BY <1>0, <3>1, KeptWinner
    <2>2. CASE Known(pnm)
      <3>1. declared' = Undecided
        BY <1>4, <2>2 DEF AR
      <3> QED BY <3>1 DEF WinnerInv
    <2> QED BY <2>1, <2>2
  <1>5. ASSUME NEW nm \in Names, NEW file \in VoteFiles, AV(nm, file) \/ RV(nm, file)
        PROVE  WinnerInv'
    <2>1. QuietStep \/ \E l \in Region : LeafStep(l)
      BY <1>0, <1>5, AddIsLeafStep, RemoveIsLeafStep
    <2>2. early' = early /\ declared' = declared /\ UNCHANGED <<size, parent, closed>>
      BY <1>5 DEF AV, RV, Refuse, pollVars
    <2>3. CASE QuietStep
      <3>1. WinnerKept
        BY <2>2, <2>3 DEF QuietStep, WinnerKept
      <3> QED BY <1>0, <3>1, KeptWinner
    <2>4. CASE \E l \in Region : LeafStep(l)
      <3>1. declared = Undecided
        BY <2>4 DEF LeafStep, WinnerInv
      <3> QED BY <2>2, <3>1 DEF WinnerInv
    <2> QED BY <2>1, <2>3, <2>4
  <1>6. ASSUME NEW nm \in Names, CV(nm) PROVE WinnerKept
    <2>1. UNCHANGED pollVars /\ cast' = cast /\ declared' = declared
      BY <1>6 DEF CV
    <2>2. early => early'
      BY <1>6 DEF CV
    <2> QED BY <2>1, <2>2 DEF pollVars, WinnerKept
  <1>7. ASSUME RW PROVE WinnerInv'
    <2>1. UNCHANGED <<size, parent, closed, cast, pollVars, early>>
      BY <1>7 DEF RW, pollVars
    <2>2. CASE ~FinalCount
      <3>1. WinnerKept
        BY <1>7, <2>1, <2>2 DEF RW, WinnerKept
      <3> QED BY <1>0, <3>1, KeptWinner
    <2>3. CASE FinalCount
      <3>1. counts' = Aggregate(Root) /\ declared' = Champion(counts'[Root])
        BY <1>7, <2>3 DEF RW, Champion
      <3>2. \A l \in Region : Leaf(l) => closed[l]
        BY <2>3 DEF FinalCount
      <3>3. Root \in Region /\ SumStep(Root) /\ Region' = Region /\ \A l : Leaf(l)' <=> Leaf(l)
        BY <1>0, <2>1, <3>1, RegionInSlot, SameTree DEF SumStep
      <3>4. ASSUME ~early' PROVE Leads(declared)'
        <4>1. Leads(Champion(counts[Root]))'
          BY <2>1, <3>3, <3>4, AnnouncedLeads DEF WinnerInv
        <4> QED BY <3>1, <4>1 DEF Leads
      <3> QED BY <2>1, <3>2, <3>3, <3>4 DEF WinnerInv
    <2> QED BY <2>2, <2>3
  <1>8. UC \/ UNCHANGED vars => WinnerKept
    BY DEF UC, vars, votes, pollVars, WinnerKept
  <1> QED BY <1>1, <1>2, <1>3, <1>4, <1>5, <1>6, <1>7, <1>8 DEF Next

LEMMA ServerAll == Spec => [](PollInv /\ ServerInv /\ OtherTypeOK /\ SumsInv)
  <1>1. Spec => []OtherTypeOK
    BY ServerTyping, PTL DEF TypeOK, OtherTypeOK, ReplyTypeOK
  <1> QED BY <1>1, SumsInvariance, PTL

(***************************************************************************)
(* The announced winner leads the election when it is announced and in     *)
(* every later state, until a region is added, if no sum was stored early  *)
(* (Return_Winner, 158-225).  With a DAG file of one region the root is a  *)
(* leaf, Add_Votes may have entered a name twice, and Return_Winner, which *)
(* compares entries, is not covered.                                       *)
(***************************************************************************)
THEOREM WinnerLeads == InitSize > 1 /\ Spec => []WinnerStands
  <1>1. InitSize > 1 /\ Init => WinnerInv
    BY DEF Init, WinnerInv
  <1>2. /\ PollInv /\ ServerInv /\ OtherTypeOK /\ SumsInv /\ ServerInv' /\ SumsInv'
        /\ WinnerInv /\ [Next]_vars
        => WinnerInv'
    BY StepKeepsWinner
  <1>3. WinnerInv => WinnerStands
    BY DEF WinnerInv, WinnerStands
  <1> QED BY <1>1, <1>2, <1>3, ServerAll, PTL DEF Spec
-----------------------------------------------------------------------------
(***************************************************************************)
(* Asking again.  Sums are added to a list in place or behind its end, so  *)
(* the entries it had stay where they are.                                 *)
(***************************************************************************)
Grows(old, new) == \A i \in DOMAIN old : i \in DOMAIN new /\ new[i].who = old[i].who

LEMMA AddTokenGrows ==
  ASSUME NEW w \in Walk, NEW t \in Entry PROVE Grows(w.list, AddToken(w, t).list)
  <1> DEFINE list == w.list
             hits == Ahead(list, w.at, t.who)
  <1>1. /\ list \in Seq(Entry) /\ w.at \in Nat /\ t.n \in Nat
        /\ DOMAIN list = 1 .. Len(list) /\ \A i \in DOMAIN list : list[i] \in Entry
    <2>1. list \in Seq(Entry) /\ w.at \in Nat /\ t.n \in Nat
      BY DEF Walk, Entry
    <2> QED BY <2>1, ListFacts
  <1>2. CASE hits # {}
    <2> DEFINE k == Min(hits)
               new == [list EXCEPT ![k].n = list[k].n + t.n]
    <2>1. k \in DOMAIN list
      BY <1>1, <1>2, AheadFacts
    <2>2. AddToken(w, t).list = new
      BY <1>2, <2>1 DEF AddToken
    <2> HIDE DEF k
    <2>3. DOMAIN new = DOMAIN list /\ \A i \in DOMAIN list : new[i].who = list[i].who
      BY <1>1, <2>1 DEF Entry
    <2> HIDE DEF new
    <2> QED BY <2>2, <2>3 DEF Grows
  <1>3. CASE hits = {}
    <2> DEFINE new == Append(list, t)
    <2>1. AddToken(w, t).list = new
      BY <1>3 DEF AddToken
    <2>2. \A i \in DOMAIN list : i \in DOMAIN new /\ new[i] = list[i]
      BY <1>1
    <2> HIDE DEF new
    <2> QED BY <2>1, <2>2 DEF Grows
  <1> QED BY <1>2, <1>3

LEMMA WalkOnGrows ==
  ASSUME NEW w \in Walk, NEW t \in Entry, NEW back \in BOOLEAN
  PROVE  Grows(w.list, WalkOn(w, t, back).list)
  <1> DEFINE v == [w EXCEPT !.at = IF back THEN 0 ELSE @]
  <1>1. v \in Walk /\ v.list = w.list
    BY DEF Walk
  <1> HIDE DEF v
  <1>2. WalkOn(w, t, back) = AddToken(v, t)
    BY DEF WalkOn, v
  <1>3. Grows(v.list, AddToken(v, t).list)
    BY <1>1, AddTokenGrows
  <1> QED BY <1>1, <1>2, <1>3

LEMMA MergeGrows ==
  ASSUME NEW list \in Seq(Entry), NEW tokens \in Seq(Entry)
  PROVE  Grows(list, Merge(list, tokens))
  <1> DEFINE n == Len(tokens)
  <1>0. PICK back \in BOOLEAN : back = TRUE
    OBVIOUS
  <1>1. PICK h : /\ h[0] = [list |-> list, at |-> 0]
                 /\ \A k \in 1 .. n : h[k] = WalkOn(h[k - 1], tokens[k], back)
                 /\ Walked(list, tokens, back) = h[n].list
    BY WalkStages
  <1>2. n \in Nat /\ \A k \in 1 .. n : tokens[k] \in Entry
    OBVIOUS
  <1> HIDE DEF n
  <1> DEFINE Held == {k \in 0 .. n : h[k] \in Walk /\ Grows(list, h[k].list)}
  <1>3. 0 \in Held
    BY <1>1, <1>2 DEF Walk, Grows
  <1>4. ASSUME NEW k \in 1 .. n, k - 1 \in Held PROVE k \in Held
    <2>1. /\ h[k - 1] \in Walk /\ tokens[k] \in Entry /\ Grows(list, h[k - 1].list)
          /\ h[k] = WalkOn(h[k - 1], tokens[k], back)
      BY <1>1, <1>2, <1>4
    <2>2. h[k] \in Walk /\ Grows(h[k - 1].list, h[k].list)
      BY <2>1, WalkOnTyped, WalkOnGrows
    <2>3. Grows(list, h[k].list)
      BY <2>1, <2>2 DEF Grows
    <2> QED BY <1>2, <2>2, <2>3
  <1>5. n \in Held
    <2>1. 0 .. n \subseteq Held
      <3> HIDE DEF Held
      <3> QED BY <1>2, <1>3, <1>4, UpTo
    <2> QED BY <1>2, <2>1
  <1>6. Merge(list, tokens) = h[n].list
    BY <1>0, <1>1 DEF Merge
  <1> QED BY <1>5, <1>6

LEMMA GatheredGrows ==
  ASSUME NEW S \in SUBSET Slot, NEW list \in Lists, NEW lists \in [S -> Lists]
  PROVE  Grows(list, Gathered(list, lists))
  <1>1. PICK f \in [SUBSET S -> Lists] :
          Gathering(f, S, list, lists) /\ Gathered(list, lists) = f[S]
    <2>1. \E f : Gathering(f, S, list, lists)
      BY GatherStages
    <2> QED BY <2>1 DEF Gathering
  <1>2. IsFiniteSet(S)
    BY SlotFinite, FS_Subset
  <1> DEFINE Held == {s \in SUBSET S : Grows(list, f[s])}
  <1>3. {} \in Held
    BY <1>1 DEF Gathering, Grows
  <1>4. ASSUME NEW s \in SUBSET S, s # {}, \A x \in s : s \ {x} \in Held PROVE s \in Held
    <2> DEFINE m == Max(s)
               l == f[s \ {m}]
               o == lists[m]
    <2>1. m \in s
      BY <1>4, LargestSlot
    <2>2. f[s] = Merge(l, o) /\ Grows(list, l)
      BY <1>1, <1>4, <2>1 DEF Gathering
    <2>3. l \in Seq(Entry) /\ o \in Seq(Entry)
      BY <2>1 DEF Lists
    <2> HIDE DEF l, o
    <2>4. Grows(l, f[s])
      BY <2>2, <2>3, MergeGrows
    <2>5. Grows(list, f[s])
      BY <2>2, <2>4 DEF Grows
    <2> QED BY <2>5
  <1>5. S \in Held
    <2>1. SUBSET S \subseteq Held
      <3> HIDE DEF Held
      <3> QED BY <1>2, <1>3, <1>4, SubsetByElement
    <2> QED BY <2>1
  <1> QED BY <1>1, <1>5

LEMMA SummedGrows ==
  ASSUME PollTypeOK, ServerInv, NEW r \in Region, SumStep(r), NEW q \in Region
  PROVE  Grows(counts[q], counts'[q])
  <1>1. /\ q \in Slot /\ r \in Slot /\ counts \in [Slot -> Lists] /\ TreeShape
    BY RegionInSlot DEF ServerInv, VotesTypeOK
  <1> HIDE DEF Lists
  <1>2. /\ Aggregated \in [Slot -> Lists]
        /\ Aggregated[q] = Gathered(counts[q], ChildLists(Aggregated, q))
    BY <1>1, AggregatedFacts
  <1>3. ChildLists(Aggregated, q) \in [Children(q) -> Lists] /\ Children(q) \in SUBSET Slot
    BY <1>1, <1>2, ChildListsTyped, ChildrenInSlot
  <1>4. Grows(counts[q], Aggregated[q])
    BY <1>1, <1>2, <1>3, GatheredGrows
  <1>5. counts'[q] = Aggregated[q] \/ counts'[q] = counts[q]
    BY <1>1 DEF SumStep, Aggregate
  <1>6. Grows(counts[q], counts[q])
    BY DEF Grows
  <1> QED BY <1>4, <1>5, <1>6
\* Where the champion of a list without repetitions stands.
FirstBest(list, p) ==
  /\ p \in DOMAIN list
  /\ list[p].n > 0
  /\ \A i \in DOMAIN list : list[i].n <= list[p].n
  /\ \A i \in DOMAIN list : list[i].n = list[p].n => p <= i

LEMMA ChampionPlace ==
  ASSUME NEW list \in Lists, Distinct(list), NEW d, VotesFor(list, d) > 0
  PROVE  \E p : FirstBest(list, p) /\ Champion(list) = list[p].who
  <1>1. PICK k \in DOMAIN list : list[k].who = d /\ list[k].n = VotesFor(list, d)
    <2>1. /\ \A k \in DOMAIN list : VotesFor(list, list[k].who) = list[k].n
          /\ (\A k \in DOMAIN list : list[k].who # d) => VotesFor(list, d) = 0
      BY DistinctVotes
    <2> QED BY <2>1
  <1>2. list # <<>> /\ ~ \A i \in DOMAIN list : list[i].n = 0
    BY <1>1
  <1>3. Champion(list) = Leader(list)
    BY <1>2 DEF Champion
  <1> QED BY <1>2, <1>3, LeaderFacts DEF FirstBest

LEMMA NoMoreNoLess == ASSUME NEW a \in Nat, NEW b \in Nat, a <= b, b <= a PROVE a = b
  OBVIOUS

\* Counting everything once more changes neither who leads nor, among equals, who
\* stands first.
LEMMA ChampionStays ==
  ASSUME NEW old \in Lists, NEW new \in Lists, Distinct(old), Distinct(new), Grows(old, new),
         NEW t \in [Candidates -> Nat], NEW k \in Nat,
         \A c \in Candidates : VotesFor(old, c) = k * t[c],
         \A c \in Candidates : VotesFor(new, c) = k * t[c] + t[c],
         k = 0 => \A c \in Candidates : t[c] = 0
  PROVE  Champion(new) = Champion(old)
  <1> HIDE DEF Lists
  <1>1. CASE \A c \in Candidates : t[c] = 0
    <2>1. \A c \in Candidates : VotesFor(old, c) = 0 /\ VotesFor(new, c) = 0
      <3>1. k * 0 = 0 /\ k * 0 + 0 = 0
        OBVIOUS
      <3> QED BY <1>1, <3>1
    <2>2. ASSUME NEW list \in Lists, Distinct(list), \A c \in Candidates : VotesFor(list, c) = 0
          PROVE  Champion(list) = NoOne
      BY <2>2, ChampionLeads
    <2> QED BY <2>1, <2>2
  <1>2. CASE \E d \in Candidates : t[d] # 0
    <2>1. PICK d \in Candidates : t[d] # 0
      BY <1>2
    <2>2. k > 0 /\ t[d] \in Nat /\ t[d] > 0
      BY <2>1
    <2>3. /\ \A a, b \in Nat : k * a <= k * b => a <= b
          /\ \A a, b \in Nat : k * a + a <= k * b + b => a <= b
          /\ \A a \in Nat : a > 0 => k * a > 0 /\ k * a + a > 0
          /\ \A a \in Nat : k * a + a > 0 => a > 0
      <3>1. ASSUME NEW a \in Nat, a > 0 PROVE k * a > 0 /\ k * a + a > 0
        BY <2>2, <3>1
      <3>2. ASSUME NEW a \in Nat, k * a + a > 0 PROVE a > 0
        <4>1. a = 0 => k * a + a = 0
          OBVIOUS
        <4> QED BY <3>2, <4>1
      <3>3. ASSUME NEW a \in Nat, NEW b \in Nat, k * a <= k * b PROVE a <= b
        BY <2>2, <3>3
      <3>4. ASSUME NEW a \in Nat, NEW b \in Nat, k * a + a <= k * b + b PROVE a <= b
        <4>1. (k + 1) * a = k * a + a /\ (k + 1) * b = k * b + b
          OBVIOUS
        <4>2. k + 1 \in Nat /\ k + 1 > 0 /\ (k + 1) * a <= (k + 1) * b
          BY <3>4, <4>1
        <4> QED BY <4>2
      <3> QED BY <3>1, <3>2, <3>3, <3>4
    <2>4. VotesFor(old, d) > 0 /\ VotesFor(new, d) > 0
      BY <2>2, <2>3
    <2>5. PICK q : FirstBest(old, q) /\ Champion(old) = old[q].who
      BY <2>4, ChampionPlace
    <2>6. PICK p : FirstBest(new, p) /\ Champion(new) = new[p].who
      BY <2>4, ChampionPlace
    <2>7. /\ \A i \in DOMAIN old : /\ i \in Nat /\ old[i].who \in Candidates
                                   /\ old[i].n = VotesFor(old, old[i].who)
          /\ \A i \in DOMAIN new : /\ i \in Nat /\ new[i].who \in Candidates
                                   /\ new[i].n = VotesFor(new, new[i].who)
      BY ListFacts, DistinctVotes, SMTT(20) DEF Lists
    <2> DEFINE a == old[q].who
               b == new[p].who
    <2>8. /\ q \in DOMAIN old /\ p \in DOMAIN new /\ a \in Candidates /\ b \in Candidates
          /\ t[a] \in Nat /\ t[b] \in Nat
          /\ old[q].n = k * t[a] /\ new[p].n = k * t[b] + t[b]
      BY <2>5, <2>6, <2>7 DEF FirstBest
    <2>9. q \in DOMAIN new /\ new[q].who = a /\ new[q].n = k * t[a] + t[a]
      <3>1. q \in DOMAIN new /\ new[q].who = a
        BY <2>8 DEF Grows
      <3>2. new[q].n = VotesFor(new, a)
        BY <2>7, <3>1
      <3> HIDE DEF a
      <3> QED BY <2>8, <3>1, <3>2
    <2>10. p \in DOMAIN old /\ old[p].who = b /\ old[p].n = k * t[b]
      <3>1. t[b] > 0
        BY <2>3, <2>6, <2>8 DEF FirstBest
      <3>2. VotesFor(old, b) = k * t[b] /\ k * t[b] > 0
        BY <2>3, <2>8, <3>1
      <3>3. PICK i \in DOMAIN old : old[i].who = b
        BY <3>2, DistinctVotes
      <3>4. i \in DOMAIN new /\ new[i].who = b
        BY <3>3 DEF Grows
      <3>5. i = p
        BY <2>8, <3>4 DEF Distinct
      <3>6. old[p].n = VotesFor(old, old[p].who)
        BY <2>7, <3>3, <3>5
      <3> QED BY <3>2, <3>3, <3>5, <3>6
    <2> HIDE DEF a, b
    <2>11. t[b] <= t[a] /\ t[a] <= t[b]
      <3>1. k * t[b] <= k * t[a]
        BY <2>5, <2>8, <2>10 DEF FirstBest
      <3>2. k * t[a] + t[a] <= k * t[b] + t[b]
        BY <2>6, <2>8, <2>9 DEF FirstBest
      <3> QED BY <2>3, <2>8, <3>1, <3>2
    <2>12. t[a] = t[b]
      BY <2>8, <2>11, NoMoreNoLess
    <2>13. q <= p /\ p <= q
      BY <2>5, <2>6, <2>8, <2>9, <2>10, <2>12 DEF FirstBest
    <2>14. p = q
      <3>1. p \in Nat /\ q \in Nat
        BY <2>7, <2>8
      <3> QED BY <2>13, <3>1, NoMoreNoLess
    <2> QED BY <2>5, <2>6, <2>9, <2>14 DEF a, b
  <1> QED BY <1>1, <1>2
\* The announced winner is the one the root's list names.
Announced == declared # Undecided /\ ~early => declared = Champion(counts[Root])

LEMMA SumKeepsChampion ==
  ASSUME PollInv, ServerInv, SumsInv, WinnerInv, Announced, ~early, declared # Undecided,
         NEW r \in Region, SumStep(r)
  PROVE  Champion(counts'[Root]) = Champion(counts[Root])
  <1> DEFINE old == counts[Root]
             new == counts'[Root]
             t == [c \in Candidates |-> TrueCount(Root, c)]
  <1>1. PollTypeOK /\ Root \in Region /\ Root \in Slot /\ ~Leaf(Root)
    BY RootNotLeaf, RegionInSlot DEF PollInv, WinnerInv
  <1>2. Inner /\ Stored
    BY DEF SumsInv
  <1>3. t \in [Candidates -> Nat] /\ \A c \in Candidates : t[c] = TrueCount(Root, c)
    BY <1>1, TrueCountSteps DEF ServerInv
  <1>4. old \in Lists /\ Distinct(old) /\ Grows(old, new)
    BY <1>1, <1>2, SummedGrows DEF ServerInv, VotesTypeOK, Inner
  <1>5. /\ new \in Lists /\ Distinct(new)
        /\ \/ new = old
           \/ \A c \in Candidates : VotesFor(new, c) = VotesFor(old, c) + TrueCount(Root, c)
    BY <1>1, <1>2, SummedLists
  <1>6. \E k \in Nat : /\ \A c \in Candidates : VotesFor(old, c) = k * TrueCount(Root, c)
                       /\ k = 0 => \A c \in Candidates : TrueCount(Root, c) = 0
    <2>1. CASE HasData(Root)
      <3>1. PICK k \in Times(Root) : \A c \in Candidates : VotesFor(old, c) = k * TrueCount(Root, c)
        BY <1>1, <1>2, <2>1 DEF Stored
      <3>2. k \in Nat /\ k # 0
        BY VoteAssumption DEF Times
      <3> QED BY <3>1, <3>2
    <2>2. CASE ~HasData(Root)
      <3>1. old = <<>> /\ declared = NoOne
        BY <2>2 DEF HasData, Announced, Champion
      <3>2. \A c \in Candidates : TrueCount(Root, c) = 0
        BY <3>1 DEF WinnerInv, Leads
      <3>3. \A c \in Candidates : VotesFor(old, c) = 0 * TrueCount(Root, c)
        <4>1. \A c \in Candidates : VotesFor(old, c) = 0
          BY <3>1, VotesOfNone
        <4> QED BY <3>2, <4>1
      <3> QED BY <3>2, <3>3
    <2> QED BY <2>1, <2>2
  <1>7. PICK k \in Nat : /\ \A c \in Candidates : VotesFor(old, c) = k * t[c]
                         /\ k = 0 => \A c \in Candidates : t[c] = 0
    BY <1>3, <1>6
  <1>8. new = old \/ \A c \in Candidates : VotesFor(new, c) = k * t[c] + t[c]
    BY <1>3, <1>5, <1>7
  <1> HIDE DEF old, new, t, Lists
  <1>9. Champion(new) = Champion(old)
    BY <1>3, <1>4, <1>5, <1>7, <1>8, ChampionStays
  <1> QED BY <1>9 DEF old, new

\* What a step makes of an announced winner.
LEMMA StepKeepsAnnounced ==
  ASSUME PollInv, ServerInv, SumsInv, WinnerInv, Announced, [Next]_vars,
         declared # Undecided, declared' # Undecided, ~early'
  PROVE  declared' = declared /\ declared' = Champion(counts'[Root])
  <1>1. PollTypeOK /\ Root \in Region
    BY RegionInSlot DEF PollInv
  <1>2. ~early
    <2>1. CASE UNCHANGED vars
      BY <2>1 DEF vars, votes
    <2>2. ASSUME NEW nm \in Names, CV(nm) PROVE ~early
      BY <2>2 DEF CV
    <2>3. ASSUME NEW pnm \in Names, NEW nm \in NewNames, AR(pnm, nm) PROVE ~early
      BY <2>3 DEF AR
    <2> QED BY <2>1, <2>2, <2>3 DEF Next, OP, CP, AV, RV, Refuse, RW, UC
  <1>3. declared = Champion(counts[Root])
    BY <1>2 DEF Announced
  <1>4. CASE QuietStep /\ declared' = declared
    BY <1>3, <1>4 DEF QuietStep
  <1>5. ASSUME NEW l \in Region, LeafStep(l) PROVE FALSE
    BY <1>5 DEF LeafStep, WinnerInv
  <1>6. ASSUME NEW nm \in Names, OP(nm) \/ CP(nm) PROVE QuietStep /\ declared' = declared
    BY <1>6 DEF OP, CP, QuietStep
  <1>7. ASSUME NEW pnm \in Names, NEW nm \in NewNames, AR(pnm, nm)
        PROVE  QuietStep /\ declared' = declared
    BY <1>7 DEF AR, QuietStep
  <1>8. ASSUME NEW nm \in Names, NEW file \in VoteFiles, AV(nm, file) \/ RV(nm, file)
        PROVE  QuietStep /\ declared' = declared
    <2>1. QuietStep
      BY <1>1, <1>5, <1>8, AddIsLeafStep, RemoveIsLeafStep
    <2>2. declared' = declared
      BY <1>8 DEF AV, RV, Refuse
    <2> QED BY <2>1, <2>2
  <1>9. ASSUME NEW nm \in Names, CV(nm)
        PROVE  declared' = declared /\ declared' = Champion(counts'[Root])
    <2>1. declared' = declared
      BY <1>9 DEF CV
    <2>2. UNCHANGED counts \/ \E r \in Region : SumStep(r)
      BY <1>9 DEF CV, SumStep
    <2> QED BY <1>2, <1>3, <2>1, <2>2, SumKeepsChampion
  <1>10. ASSUME RW PROVE declared' = declared /\ declared' = Champion(counts'[Root])
    <2>1. CASE ~FinalCount
      BY <1>3, <1>10, <2>1 DEF RW
    <2>2. CASE FinalCount
      <3>1. SumStep(Root) /\ declared' = Champion(counts'[Root])
        BY <1>1, <1>10, <2>2 DEF RW, SumStep, Champion
      <3> QED BY <1>1, <1>2, <1>3, <3>1, SumKeepsChampion
    <2> QED BY <2>1, <2>2
  <1>11. UC \/ UNCHANGED vars => QuietStep /\ declared' = declared
    BY DEF UC, vars, votes, QuietStep
  <1> QED BY <1>4, <1>6, <1>7, <1>8, <1>9, <1>10, <1>11 DEF Next

\* An announcement is the champion of the root's list.
LEMMA FirstAnnounced ==
  ASSUME [Next]_vars, declared = Undecided, declared' # Undecided
  PROVE  declared' = Champion(counts'[Root])
  <1>1. CASE RW
    BY <1>1 DEF RW, Champion
  <1>2. CASE ~RW
    BY <1>2 DEF Next, OP, CP, AR, AV, RV, Refuse, CV, UC, vars, votes
  <1> QED BY <1>1, <1>2

(***************************************************************************)
(* Asking again gives the same winner, ties included, although every       *)
(* Return_Winner counts the whole election once more in the root's list.   *)
(***************************************************************************)
THEOREM WinnerAsBefore == InitSize > 1 /\ Spec => WinnerStable
  <1>1. InitSize > 1 /\ Init => WinnerInv /\ Announced
    BY DEF Init, WinnerInv, Announced
  <1>2. /\ PollInv /\ ServerInv /\ OtherTypeOK /\ SumsInv /\ ServerInv' /\ SumsInv'
        /\ WinnerInv /\ [Next]_vars
        => WinnerInv'
    BY StepKeepsWinner
  <1>3. PollInv /\ ServerInv /\ SumsInv /\ WinnerInv /\ Announced /\ [Next]_vars => Announced'
    BY StepKeepsAnnounced, FirstAnnounced DEF Announced
  <1>4. PollInv /\ ServerInv /\ SumsInv /\ WinnerInv /\ Announced /\ [Next]_vars
        => (declared # Undecided /\ declared' # Undecided /\ ~early' => declared' = declared)
    BY StepKeepsAnnounced
  <1> QED BY <1>1, <1>2, <1>3, <1>4, ServerAll, PTL DEF Spec, WinnerStable
=============================================================================
