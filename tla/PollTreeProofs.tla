--------------------------- MODULE PollTreeProofs ---------------------------
(***************************************************************************)
(* Proofs about PollTree, for every DAG file, every set of names and every *)
(* number of added regions.  The inductive invariant PollInv adds to the   *)
(* two checked invariants that no region has both flags set and that the   *)
(* regions of the DAG file keep their name, their parent and their place   *)
(* in the list, so that a lookup still finds them.                         *)
(***************************************************************************)
EXTENDS PollTree, TLAPS

OnePhase == \A r \in Slot : ~(open[r] /\ closed[r])

DagStays ==
  \A r \in DagRegion : name[r] = InitName[r] /\ parent[r] = InitParent[r]

PollInv == PollTypeOK /\ OnePhase /\ DagStays /\ SubtreeAhead

-----------------------------------------------------------------------------
\* What the sweep of a handler's recursion reaches: the region it starts at,
\* only regions that pass the guard, and every passing callee of a member.
LEMMA SweepFacts ==
  ASSUME NEW Pass, Pass \subseteq Region, NEW r \in Pass
  PROVE  /\ r \in Swept(r, Pass)
         /\ Swept(r, Pass) \subseteq Pass
         /\ \A x \in Swept(r, Pass) : Callees(x) \cap Pass \subseteq Swept(r, Pass)
  <1> DEFINE calls == [x \in Pass |-> Callees(x) \cap Pass]
             full  == {S \in SUBSET Pass : r \in S /\ \A x \in S : calls[x] \subseteq S}
  <1>1. Swept(r, Pass) = {q \in Pass : \A S \in full : q \in S}
    BY DEF Swept
  <1>2. \A S \in full : r \in S
    OBVIOUS
  <1>3. ASSUME NEW x \in Swept(r, Pass), NEW q \in Callees(x) \cap Pass
        PROVE  q \in Swept(r, Pass)
    <2>1. x \in Pass /\ \A S \in full : x \in S
      BY <1>1
    <2>2. q \in calls[x]
      BY <2>1
    <2>3. ASSUME NEW S \in full PROVE q \in S
      <3>1. x \in S
        BY <2>1
      <3>2. calls[x] \subseteq S
        BY <3>1
      <3> QED BY <2>2, <3>2
    <2> QED BY <1>1, <2>3
  <1> HIDE DEF full, calls
  <1> QED BY <1>1, <1>2, <1>3

\* A region of the DAG file is reached by the recursion from the region above
\* it: its name still leads to it, whatever regions were added.
LEMMA DagCallee ==
  ASSUME PollTypeOK, DagStays,
         NEW c \in DagRegion, InitParent[c] # 0
  PROVE  /\ InitParent[c] \in DagRegion
         /\ c \in Region
         /\ c \in Callees(InitParent[c])
  <1>1. InitParent[c] \in 1..(c - 1) /\ c \in 1..InitSize
    BY DagAssumption DEF DagRegion
  <1>2. InitParent[c] \in DagRegion /\ c \in Region
    BY <1>1, DagAssumption DEF PollTypeOK, DagRegion, Region, Slot
  <1>3. c \in Children(InitParent[c])
    BY <1>2 DEF Children, DagStays
  <1>4. ASSUME NEW q \in Region, name[q] = name[c] PROVE c <= q
    <2>1. CASE q \in DagRegion
      BY <2>1, <1>4, DagAssumption DEF DagStays, DagRegion
    <2>2. CASE q \notin DagRegion
      BY <2>2, DagAssumption DEF DagRegion, Region, PollTypeOK, Slot
    <2> QED BY <2>1, <2>2
  <1>5. Lookup(c, name[c])
    BY <1>2, <1>4 DEF Lookup
  <1> QED BY <1>2, <1>3, <1>5 DEF Callees

LEMMA PollInitInv == PollInit => PollInv
  <1> SUFFICES ASSUME PollInit PROVE PollInv
    OBVIOUS
  <1>1. PollTypeOK
    BY DagAssumption DEF PollInit, PollTypeOK, Slot
  <1>2. OnePhase
    BY DEF PollInit, OnePhase
  <1>3. DagStays
    BY DagAssumption DEF PollInit, DagStays, DagRegion, Slot
  <1>4. SubtreeAhead
    BY DagAssumption DEF PollInit, SubtreeAhead, DagRegion, Slot, Rank
  <1> QED BY <1>1, <1>2, <1>3, <1>4 DEF PollInv

-----------------------------------------------------------------------------
\* Opening keeps the invariant: a child of a region that becomes open was past
\* unopened already, or is a callee the recursion opens too.
LEMMA OpenKeepsInv ==
  ASSUME PollInv, NEW nm \in Names, OpenPolls(nm)
  PROVE  PollInv'
  <1> USE DEF PollInv
  <1>1. CASE UNCHANGED open
    BY <1>1 DEF OpenPolls, treeVars, PollTypeOK, OnePhase, DagStays, SubtreeAhead,
                Rank
  <1>2. CASE ~ UNCHANGED open
    <2> PICK r \in Unopened :
          open' = [q \in Slot |-> open[q] \/ q \in Swept(r, Unopened)]
      BY <1>2 DEF OpenPolls
    <2> DEFINE T == Swept(r, Unopened)
    <2>1. UNCHANGED <<size, name, parent, closed>>
      BY DEF OpenPolls, treeVars
    <2>2. /\ T \subseteq Unopened
          /\ \A x \in T : Callees(x) \cap Unopened \subseteq T
      BY SweepFacts DEF Unopened
    <2> HIDE DEF T
    <2>3. open' = [q \in Slot |-> open[q] \/ q \in T]
      BY DEF T
    <2>4. Unopened \subseteq Slot
      BY DagAssumption DEF Unopened, Region, Slot, PollTypeOK
    <2>5. PollTypeOK'
      BY <2>1, <2>3 DEF PollTypeOK
    <2>6. OnePhase'
      BY <2>1, <2>2, <2>3, <2>4 DEF OnePhase, Unopened
    <2>7. DagStays'
      BY <2>1 DEF DagStays
    <2>8. ASSUME NEW c \in DagRegion, InitParent[c] # 0
          PROVE  Rank(InitParent[c])' <= Rank(c)'
      <3>0. PICK p \in DagRegion : p = InitParent[c]
        BY <2>8, DagCallee
      <3>1. c \in Region /\ c \in Callees(p)
        BY <2>8, <3>0, DagCallee
      <3>2. p \in Slot /\ c \in Slot
        BY DagAssumption DEF DagRegion, Slot
      <3>3. Rank(p) <= Rank(c)
        BY <2>8, <3>0 DEF SubtreeAhead
      <3>4. ASSUME p \in T PROVE Rank(p)' <= Rank(c)'
        <4>1. c \in T \/ open[c] \/ closed[c]
          BY <2>2, <3>1, <3>4 DEF Unopened
        <4>2. open'[p] /\ ~closed'[p] /\ (open'[c] \/ closed'[c])
          BY <2>1, <2>2, <2>3, <3>2, <3>4, <4>1 DEF Unopened
        <4>3. Rank(p)' = 1 /\ Rank(c)' >= 1
          BY <4>2 DEF Rank
        <4> QED BY <4>3
      <3>5. ASSUME p \notin T PROVE Rank(p)' <= Rank(c)'
        <4>1. /\ open'[p] <=> open[p]
              /\ open[c] => open'[c]
              /\ closed'[p] = closed[p] /\ closed'[c] = closed[c]
          BY <2>1, <2>3, <3>2, <3>5
        <4> QED BY <4>1, <3>3 DEF Rank
      <3> QED BY <3>0, <3>4, <3>5
    <2>9. SubtreeAhead'
      BY <2>8 DEF SubtreeAhead, DagRegion
    <2> QED BY <2>5, <2>6, <2>7, <2>9
  <1> QED BY <1>1, <1>2

\* Closing keeps it: the children of an open region are open or closed, and
\* the recursion closes those that are open.
LEMMA CloseKeepsInv ==
  ASSUME PollInv, NEW nm \in Names, ClosePolls(nm)
  PROVE  PollInv'
  <1> USE DEF PollInv
  <1>1. CASE UNCHANGED <<open, closed>>
    BY <1>1 DEF ClosePolls, treeVars, PollTypeOK, OnePhase, DagStays, SubtreeAhead,
                Rank
  <1>2. CASE ~ UNCHANGED <<open, closed>>
    <2> PICK r \in Opened :
          /\ closed' = [q \in Slot |-> closed[q] \/ q \in Swept(r, Opened)]
          /\ open' = [q \in Slot |-> open[q] /\ q \notin Swept(r, Opened)]
      BY <1>2 DEF ClosePolls
    <2> DEFINE T == Swept(r, Opened)
    <2>1. UNCHANGED <<size, name, parent>>
      BY DEF ClosePolls, treeVars
    <2>2. /\ T \subseteq Opened
          /\ \A x \in T : Callees(x) \cap Opened \subseteq T
      BY SweepFacts DEF Opened
    <2> HIDE DEF T
    <2>3. /\ closed' = [q \in Slot |-> closed[q] \/ q \in T]
          /\ open' = [q \in Slot |-> open[q] /\ q \notin T]
      BY DEF T
    <2>4. Opened \subseteq Slot
      BY DagAssumption DEF Opened, Region, Slot, PollTypeOK
    <2>5. PollTypeOK'
      BY <2>1, <2>3 DEF PollTypeOK
    <2>6. OnePhase'
      BY <2>3 DEF OnePhase
    <2>7. DagStays'
      BY <2>1 DEF DagStays
    <2>8. ASSUME NEW c \in DagRegion, InitParent[c] # 0
          PROVE  Rank(InitParent[c])' <= Rank(c)'
      <3>0. PICK p \in DagRegion : p = InitParent[c]
        BY <2>8, DagCallee
      <3>1. c \in Region /\ c \in Callees(p)
        BY <2>8, <3>0, DagCallee
      <3>2. p \in Slot /\ c \in Slot
        BY DagAssumption DEF DagRegion, Slot
      <3>3. Rank(p) <= Rank(c)
        BY <2>8, <3>0 DEF SubtreeAhead
      <3>4. ASSUME p \in T PROVE Rank(p)' <= Rank(c)'
        <4>1. open[c] \/ closed[c]
          BY <2>2, <3>3, <3>4 DEF Rank, Opened
        <4>2. c \in T \/ closed[c]
          BY <2>2, <3>1, <3>4, <4>1 DEF Opened
        <4>3. Rank(c)' = 2
          BY <2>3, <3>2, <4>2 DEF Rank
        <4> QED BY <4>3, <3>2 DEF Rank
      <3>5. ASSUME p \notin T PROVE Rank(p)' <= Rank(c)'
        <4>1. Rank(p)' = Rank(p)
          BY <2>3, <3>2, <3>5 DEF Rank
        <4>2. (closed[c] => closed'[c]) /\ (open[c] => open'[c] \/ closed'[c])
          BY <2>3, <3>2
        <4>3. Rank(c)' >= Rank(c)
          BY <4>2 DEF Rank
        <4> QED BY <4>1, <4>3, <3>3 DEF Rank
      <3> QED BY <3>0, <3>4, <3>5
    <2>9. SubtreeAhead'
      BY <2>8 DEF SubtreeAhead, DagRegion
    <2> QED BY <2>5, <2>6, <2>7, <2>9
  <1> QED BY <1>1, <1>2

\* A new region takes the slot after the last one: the flags, and the regions
\* of the DAG file, stay as they are.
LEMMA AddKeepsInv ==
  ASSUME PollInv, NEW pnm \in Names, NEW nm \in NewNames, AddRegion(pnm, nm)
  PROVE  PollInv'
  <1> USE DEF PollInv
  <1>1. CASE UNCHANGED treeVars
    BY <1>1 DEF AddRegion, treeVars, PollTypeOK, OnePhase, DagStays, SubtreeAhead,
                Rank
  <1>2. CASE ~ UNCHANGED treeVars
    <2> PICK r \in Region :
          /\ size < MaxRegions
          /\ size' = size + 1
          /\ name' = [name EXCEPT ![size + 1] = nm]
          /\ parent' = [parent EXCEPT ![size + 1] = r]
      BY <1>2 DEF AddRegion
    <2>1. UNCHANGED <<open, closed>>
      BY DEF AddRegion
    <2>2. PollTypeOK'
      BY <2>1, DagAssumption DEF PollTypeOK, Region, Slot
    <2>3. DagStays'
      BY DagAssumption DEF DagStays, DagRegion, PollTypeOK, Slot
    <2> QED BY <2>1, <2>2, <2>3 DEF OnePhase, SubtreeAhead, Rank
  <1> QED BY <1>1, <1>2

LEMMA PollStepInv == PollInv /\ [PollNext]_pollVars => PollInv'
  <1> SUFFICES ASSUME PollInv, [PollNext]_pollVars PROVE PollInv'
    OBVIOUS
  <1>1. CASE UNCHANGED pollVars
    BY <1>1 DEF PollInv, pollVars, PollTypeOK, OnePhase, DagStays, SubtreeAhead, Rank
  <1>2. ASSUME NEW nm \in Names, OpenPolls(nm) PROVE PollInv'
    BY <1>2, OpenKeepsInv
  <1>3. ASSUME NEW nm \in Names, ClosePolls(nm) PROVE PollInv'
    BY <1>3, CloseKeepsInv
  <1>4. ASSUME NEW pnm \in Names, NEW nm \in NewNames, AddRegion(pnm, nm) PROVE PollInv'
    BY <1>4, AddKeepsInv
  <1> QED BY <1>1, <1>2, <1>3, <1>4 DEF PollNext

THEOREM PollInvariance == PollSpec => []PollInv
  <1>1. QED BY PollInitInv, PollStepInv, PTL DEF PollSpec

\* Every value keeps its type through Open_Polls, Close_Polls and Add_Region.
THEOREM PollTyping == PollSpec => []PollTypeOK
  <1>1. PollInv => PollTypeOK
    BY DEF PollInv
  <1>2. QED BY <1>1, PollInvariance, PTL

\* No region of a DAG file is ever ahead of the regions the file put below it:
\* opening or closing a region reaches all of its subtree (server.c 380, 685).
THEOREM PollsReachSubtree == PollSpec => []SubtreeAhead
  <1>1. PollInv => SubtreeAhead
    BY DEF PollInv
  <1>2. QED BY <1>1, PollInvariance, PTL

-----------------------------------------------------------------------------
\* A step of the handlers is a step of the life cycle, or none at all.
LEMMA StepAdvances ==
  PollInv /\ PollInv' /\ [PollNext]_pollVars
    => [Lifecycle!Next]_([r \in Slot |-> Phase(r)])
  <1> SUFFICES ASSUME PollInv, PollInv', [PollNext]_pollVars
               PROVE  [Lifecycle!Next]_([r \in Slot |-> Phase(r)])
    OBVIOUS
  <1> DEFINE ph == [r \in Slot |-> Phase(r)]
  <1>1. Lifecycle!Orderly(ph)'
    <2>1. \A r \in Slot : Lifecycle!Stage(ph[r])' = Rank(r)'
      <3>1. OnePhase'
        BY DEF PollInv
      <3> QED BY <3>1 DEF OnePhase, Lifecycle!Stage, Phase, Rank
    <2>2. ASSUME NEW c \in Slot,
                 (IF c <= InitSize THEN InitParent[c] ELSE 0) \in Slot
          PROVE  Rank(IF c <= InitSize THEN InitParent[c] ELSE 0)' <= Rank(c)'
      <3>1. c \in DagRegion /\ InitParent[c] # 0
        BY <2>2, DagAssumption DEF DagRegion, Slot
      <3> QED BY <3>1 DEF PollInv, SubtreeAhead, DagRegion
    <2> QED BY <2>1, <2>2 DEF Lifecycle!Orderly
  <1>2. ph' \in [Slot -> {"unopened", "open", "closed"}]
    BY DEF Phase
  <1>3. CASE UNCHANGED <<open, closed>>
    BY <1>3 DEF Phase
  <1>4. ASSUME NEW nm \in Names, OpenPolls(nm), ~ UNCHANGED open
        PROVE  Lifecycle!Advance("unopened", "open")
    <2> PICK r \in Unopened :
          open' = [q \in Slot |-> open[q] \/ q \in Swept(r, Unopened)]
      BY <1>4 DEF OpenPolls
    <2>1. Swept(r, Unopened) \subseteq Unopened
      BY SweepFacts DEF Unopened
    <2>2. closed' = closed
      BY <1>4 DEF OpenPolls
    <2>3. \A q \in Slot : ph'[q] # ph[q] => ph[q] = "unopened" /\ ph'[q] = "open"
      BY <2>1, <2>2 DEF Phase, Unopened, PollInv, PollTypeOK
    <2> QED BY <1>1, <1>2, <2>3 DEF Lifecycle!Advance
  <1>5. ASSUME NEW nm \in Names, ClosePolls(nm), ~ UNCHANGED <<open, closed>>
        PROVE  Lifecycle!Advance("open", "closed")
    <2> PICK r \in Opened :
          /\ closed' = [q \in Slot |-> closed[q] \/ q \in Swept(r, Opened)]
          /\ open' = [q \in Slot |-> open[q] /\ q \notin Swept(r, Opened)]
      BY <1>5 DEF ClosePolls
    <2>1. Swept(r, Opened) \subseteq Opened
      BY SweepFacts DEF Opened
    <2>2. \A q \in Slot : ph'[q] # ph[q] => ph[q] = "open" /\ ph'[q] = "closed"
      BY <2>1 DEF Phase, Opened, PollInv, PollTypeOK, OnePhase
    <2> QED BY <1>1, <1>2, <2>2 DEF Lifecycle!Advance
  <1>6. ASSUME NEW nm \in Names, OpenPolls(nm)
        PROVE  UNCHANGED <<open, closed>> \/ ~ UNCHANGED open
    BY <1>6 DEF OpenPolls
  <1>7. ASSUME NEW pnm \in Names, NEW nm \in NewNames, AddRegion(pnm, nm)
        PROVE  UNCHANGED <<open, closed>>
    BY <1>7 DEF AddRegion
  <1> QED BY <1>3, <1>4, <1>5, <1>6, <1>7 DEF PollNext, pollVars, Lifecycle!Next

\* The handlers implement the life cycle of PollLifecycle: polls open once,
\* close once, are never reopened, and never overtake the polls below them.
THEOREM PollsFollowLifecycle == PollSpec => LifecycleSpec
  <1>1. PollInit => Lifecycle!Init
    BY DEF PollInit, Lifecycle!Init, Phase
  <1>2. PollSpec => []PollInv
    BY PollInvariance
  <1>3. QED
    BY <1>1, <1>2, StepAdvances, PTL DEF PollSpec, LifecycleSpec, Lifecycle!Spec

-----------------------------------------------------------------------------
\* A region is created after its parent.
ParentsBefore == \A r \in Region : parent[r] < r

LEMMA ParentsStayBefore == PollSpec => []ParentsBefore
  <1>1. PollInit => ParentsBefore
    <2> SUFFICES ASSUME PollInit, NEW r \in 1..InitSize PROVE parent[r] < r
      BY DEF PollInit, ParentsBefore, Region
    <2>1. r \in Slot /\ parent[r] = InitParent[r]
      BY DagAssumption DEF PollInit, Slot
    <2>2. CASE r = 1
      BY <2>1, <2>2, DagAssumption
    <2>3. CASE r # 1
      <3>1. r \in 2..InitSize /\ r \in Int
        BY <2>3, DagAssumption DEF Slot
      <3>2. InitParent[r] \in 1..(r - 1)
        BY <3>1, DagAssumption
      <3> QED BY <2>1, <3>1, <3>2
    <2> QED BY <2>2, <2>3
  <1>2. ASSUME PollInv, ParentsBefore, [PollNext]_pollVars PROVE ParentsBefore'
    <2>1. CASE UNCHANGED treeVars
      BY <1>2, <2>1 DEF treeVars, ParentsBefore, Region
    <2>2. ASSUME NEW pnm \in Names, NEW nm \in NewNames, AddRegion(pnm, nm),
                 ~ UNCHANGED treeVars
          PROVE  ParentsBefore'
      <3> PICK r \in Region :
            /\ size < MaxRegions
            /\ size' = size + 1
            /\ parent' = [parent EXCEPT ![size + 1] = r]
        BY <2>2 DEF AddRegion
      <3> QED BY <1>2, DagAssumption
              DEF PollInv, PollTypeOK, ParentsBefore, Region, Slot
    <2> QED BY <1>2, <2>1, <2>2 DEF PollNext, OpenPolls, ClosePolls, pollVars, treeVars
  <1> QED BY <1>1, <1>2, PollInvariance, PTL DEF PollSpec

\* A region is on its own way to the root ...
LEMMA OwnAncestor == \A r \in Slot : r \in Ancestry[r]
  BY DagAssumption DEF Ancestry, Slot

\* ... and what is on the way of its parent is on its way too.
LEMMA ParentsAncestors ==
  ASSUME PollTypeOK, ParentsBefore,
         NEW q \in Region, NEW x \in Region, parent[q] = x, NEW r \in Ancestry[x]
  PROVE  r \in Ancestry[q]
  <1>1. q \in Slot /\ x \in Slot /\ x < q /\ q \in Int /\ x \in Int
    BY DagAssumption DEF PollTypeOK, ParentsBefore, Region, Slot
  <1>2. 1..x \subseteq 1..q /\ x \in 1..q /\ q \in 1..q /\ x \in 1..x
    BY <1>1 DEF Slot
  <1>3. /\ r \in 1..x
        /\ \A S \in SUBSET (1..x) :
             x \in S /\ (\A y \in S : parent[y] \in 1..x => parent[y] \in S) => r \in S
    BY <1>1 DEF Ancestry
  <1>4. ASSUME NEW T \in SUBSET (1..q), q \in T,
               \A y \in T : parent[y] \in 1..q => parent[y] \in T
        PROVE  r \in T
    <2>1. x \in T
      BY <1>2, <1>4
    <2>2. \A y \in T \cap (1..x) : parent[y] \in 1..x => parent[y] \in T \cap (1..x)
      BY <1>2, <1>4
    <2>3. T \cap (1..x) \in SUBSET (1..x) /\ x \in T \cap (1..x)
      BY <1>2, <2>1
    <2> QED BY <1>3, <2>2, <2>3
  <1> QED BY <1>1, <1>2, <1>3, <1>4 DEF Ancestry

\* While names are distinct, the recursion reaches only what lies below its start.
LEMMA SweptBelow ==
  ASSUME PollTypeOK, ParentsBefore, NamesDistinct,
         NEW Pass, Pass \subseteq Region, NEW r \in Pass, NEW q \in Swept(r, Pass)
  PROVE  r \in Ancestry[q]
  <1> DEFINE calls == [x \in Pass |-> Callees(x) \cap Pass]
             full  == {S \in SUBSET Pass : r \in S /\ \A x \in S : calls[x] \subseteq S}
             below == {x \in Pass : r \in Ancestry[x]}
  <1>1. r \in below
    <2>1. r \in Slot
      BY DagAssumption DEF PollTypeOK, Region, Slot
    <2> QED BY <2>1, OwnAncestor
  <1>2. ASSUME NEW x \in below, NEW y \in calls[x] PROVE y \in below
    <2>1. PICK c \in Children(x) : Lookup(y, name[c])
      BY <1>2 DEF Callees
    <2>2. y \in Region /\ c \in Region /\ name[y] = name[c] /\ parent[c] = x
      BY <2>1 DEF Lookup, Children
    <2>3. parent[y] = x
      BY <2>2 DEF NamesDistinct
    <2>4. r \in Ancestry[y]
      BY <1>2, <2>2, <2>3, ParentsAncestors
    <2> QED BY <1>2, <2>4
  <1>3. below \in full
    BY <1>1, <1>2
  <1>4. \A S \in full : q \in S
    BY DEF Swept
  <1> QED BY <1>3, <1>4

\* A step that sweeps from r changes r, and nothing outside its subtree.
LEMMA SubtreeOf ==
  ASSUME PollTypeOK, ParentsBefore, NamesDistinct,
         NEW Pass, Pass \subseteq Region, NEW r \in Pass,
         Changed = Swept(r, Pass)
  PROVE  \E top \in Changed : \A q \in Changed : top \in Ancestry[q]
  BY SweepFacts, SweptBelow

\* As long as names are distinct, a request changes polls in one subtree only,
\* topmost region included, though the handlers recurse by name (380, 685).
THEOREM RequestsStayInSubtree == PollSpec => OneSubtree
  <1> DEFINE InOneTree == NamesDistinct /\ Changed # {} =>
               \E top \in Changed : \A r \in Changed : top \in Ancestry[r]
  <1>1. ASSUME PollInv, ParentsBefore, [PollNext]_pollVars PROVE [InOneTree]_pollVars
    <2> USE DEF PollInv
    <2>1. CASE UNCHANGED <<open, closed>>
      BY <2>1 DEF Changed
    <2>2. ASSUME NEW nm \in Names, OpenPolls(nm), ~ UNCHANGED open PROVE InOneTree
      <3> PICK r \in Unopened :
            open' = [q \in Slot |-> open[q] \/ q \in Swept(r, Unopened)]
        BY <2>2 DEF OpenPolls
      <3>1. Unopened \subseteq Region /\ Unopened \subseteq Slot
        BY <1>1, DagAssumption DEF Unopened, Region, Slot, PollTypeOK
      <3>2. Swept(r, Unopened) \subseteq Unopened
        BY <3>1, SweepFacts
      <3>3. closed' = closed
        BY <2>2 DEF OpenPolls
      <3>4. \A q \in Slot : open'[q] # open[q] <=> q \in Swept(r, Unopened)
        <4> SUFFICES ASSUME NEW q \in Slot
                     PROVE  open'[q] # open[q] <=> q \in Swept(r, Unopened)
          OBVIOUS
        <4>1. open[q] \in BOOLEAN /\ open'[q] = (open[q] \/ q \in Swept(r, Unopened))
          BY <1>1 DEF PollTypeOK
        <4>2. q \in Swept(r, Unopened) => ~open[q]
          BY <3>2 DEF Unopened
        <4> QED BY <4>1, <4>2
      <3>5. Changed = Swept(r, Unopened)
        BY <3>1, <3>2, <3>3, <3>4 DEF Changed
      <3> QED BY <1>1, <3>1, <3>5, SubtreeOf
    <2>3. ASSUME NEW nm \in Names, ClosePolls(nm), ~ UNCHANGED <<open, closed>>
          PROVE  InOneTree
      <3> PICK r \in Opened :
            /\ closed' = [q \in Slot |-> closed[q] \/ q \in Swept(r, Opened)]
            /\ open' = [q \in Slot |-> open[q] /\ q \notin Swept(r, Opened)]
        BY <2>3 DEF ClosePolls
      <3>1. Opened \subseteq Region /\ Opened \subseteq Slot
        BY <1>1, DagAssumption DEF Opened, Region, Slot, PollTypeOK
      <3>2. Swept(r, Opened) \subseteq Opened
        BY <3>1, SweepFacts
      <3>3. \A q \in Slot : closed'[q] # closed[q] <=> q \in Swept(r, Opened)
        <4> SUFFICES ASSUME NEW q \in Slot
                     PROVE  closed'[q] # closed[q] <=> q \in Swept(r, Opened)
          OBVIOUS
        <4>1. closed[q] \in BOOLEAN /\ closed'[q] = (closed[q] \/ q \in Swept(r, Opened))
          BY <1>1 DEF PollTypeOK
        <4>2. q \in Swept(r, Opened) => ~closed[q]
          BY <3>2 DEF Opened
        <4> QED BY <4>1, <4>2
      <3>4. \A q \in Slot : open'[q] # open[q] => q \in Swept(r, Opened)
        <4> SUFFICES ASSUME NEW q \in Slot, q \notin Swept(r, Opened)
                     PROVE  open'[q] = open[q]
          OBVIOUS
        <4>1. open[q] \in BOOLEAN
          BY <1>1 DEF PollTypeOK
        <4> QED BY <4>1
      <3>5. Changed = Swept(r, Opened)
        BY <3>1, <3>2, <3>3, <3>4 DEF Changed
      <3> QED BY <1>1, <3>1, <3>5, SubtreeOf
    <2>4. ASSUME NEW pnm \in Names, NEW nm \in NewNames, AddRegion(pnm, nm)
          PROVE  UNCHANGED <<open, closed>>
      BY <2>4 DEF AddRegion
    <2>5. ASSUME NEW nm \in Names, OpenPolls(nm), UNCHANGED open
          PROVE  UNCHANGED <<open, closed>>
      BY <2>5 DEF OpenPolls
    <2> QED BY <1>1, <2>1, <2>2, <2>3, <2>4, <2>5 DEF PollNext, pollVars
  <1> QED BY <1>1, PollInvariance, ParentsStayBefore, PTL DEF PollSpec, OneSubtree
=============================================================================
