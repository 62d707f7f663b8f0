------------------------------ MODULE PollTree ------------------------------
(***************************************************************************)
(* The region tree of the vote server (CSCI4061_asn4/server.c) and the     *)
(* poll flags it keeps on every region.                                    *)
(*                                                                         *)
(* The server links its regions in one list, in the order they were        *)
(* created; a region is looked up by name, and the first match wins.  Here *)
(* a region is its position in that list, 1 being the root of the election *)
(* (PUBLICROOT->next).  Three requests change the tree: Open_Polls,        *)
(* Close_Polls and Add_Region.  Each is one action that also covers the    *)
(* early returns, and an operator of its own gives the reply, which        *)
(* depends only on the state the request finds.                            *)
(***************************************************************************)
EXTENDS Integers

CONSTANTS Names,       \* the region names a request or the DAG file can hold
          NewNames,    \* those that Add_Region is asked to add
          NoName,      \* the name of a slot no region occupies
          MaxRegions,  \* bound: how many regions the list ever holds
          InitSize,    \* the regions of the DAG file ...
          InitName,    \* ... their names in file order ...
          InitParent   \* ... and the region each was listed under (0: none)

Slot == 1..MaxRegions

(***************************************************************************)
(* What createDAG leaves behind: a line's children are created when the    *)
(* line is read, so after the region they belong to, and the assignment    *)
(* promises that the names of a DAG file are unique.                       *)
(***************************************************************************)
ASSUME DagAssumption ==
  /\ MaxRegions \in Nat
  /\ InitSize \in Slot
  /\ NoName \notin Names
  /\ NewNames \subseteq Names
  /\ InitName \in [1..InitSize -> Names]
  /\ InitParent \in [1..InitSize -> 0..InitSize]
  /\ InitParent[1] = 0
  /\ \A r \in 2..InitSize : InitParent[r] \in 1..(r - 1)
  /\ \A r, q \in 1..InitSize : InitName[r] = InitName[q] => r = q

VARIABLES size,    \* regions in the list
          name,    \* name[r]
          parent,  \* the region whose children array holds r, 0 for the root
          open,    \* the flag node->open
          closed   \* the flag node->closed

treeVars == <<size, name, parent>>
pollVars == <<size, name, parent, open, closed>>

Region == 1..size

Root == 1

Children(r) == {c \in Region : parent[c] = r}

\* The list walk that every handler starts with: r is the first match of nm.
Lookup(r, nm) ==
  /\ r \in Region
  /\ name[r] = nm
  /\ \A q \in Region : name[q] = nm => r <= q

Known(nm) == \E r \in Region : name[r] = nm

\* Mutant of Unopened: Open_Polls without its test of closed.
NotOpen == {r \in Region : ~open[r]}

\* The two flags make three phases; both set at once is not one of them.
Unopened == {r \in Region : ~open[r] /\ ~closed[r]}
Opened   == {r \in Region : open[r] /\ ~closed[r]}

\* Mutant of Callees: the recursion follows the list (next), not the children.
NextInList(r) == {r + 1} \cap Region

\* The handlers recurse into a child by its NAME: what they then reach is the
\* first region of that name.
Callees(r) == {q \in Region : \E c \in Children(r) : Lookup(q, name[c])}

\* Mutant of Swept: no recursion, the region named in the request only.
NamedOnly(r, Pass) == {r}

(***************************************************************************)
(* Everything the recursion that starts at r changes, when only the        *)
(* regions of the set Pass get past the handler's guard: the least set     *)
(* that holds r and the passing callees of its members.  A region's flag   *)
(* is set before its children are visited, so none is visited twice and    *)
(* the order of the visits does not matter.                                *)
(***************************************************************************)
Swept(r, Pass) ==
  LET calls == [x \in Pass |-> Callees(x) \cap Pass]
      full  == {S \in SUBSET Pass : r \in S /\ \A x \in S : calls[x] \subseteq S}
  IN  {q \in Pass : \A S \in full : q \in S}

-----------------------------------------------------------------------------
PollInit ==
  /\ size = InitSize
  /\ name = [r \in Slot |-> IF r <= InitSize THEN InitName[r] ELSE NoName]
  /\ parent = [r \in Slot |-> IF r <= InitSize THEN InitParent[r] ELSE 0]
  /\ open = [r \in Slot |-> FALSE]
  /\ closed = [r \in Slot |-> FALSE]

\* OP: opens an unopened region and, below it, all that it reaches unopened.
OpenPolls(nm) ==
  /\ \/ \E r \in Unopened :
          /\ Lookup(r, nm)
          /\ LET opened == Swept(r, Unopened)
             IN  open' = [q \in Slot |-> open[q] \/ q \in opened]
     \/ /\ \A r \in Unopened : ~Lookup(r, nm)
        /\ UNCHANGED open
  /\ UNCHANGED <<treeVars, closed>>

OpenReply(nm) ==
  CASE ~Known(nm)                            -> "NR"
    [] \E r \in Region : Lookup(r, nm) /\ open[r]                -> "PF"
    [] \E r \in Region : Lookup(r, nm) /\ ~open[r] /\ closed[r]  -> "RR"
    [] OTHER                                 -> "SC"

\* CP: closes an open region and, below it, all that it reaches open.
ClosePolls(nm) ==
  /\ \/ \E r \in Opened :
          /\ Lookup(r, nm)
          /\ LET shut == Swept(r, Opened)
             IN  /\ closed' = [q \in Slot |-> closed[q] \/ q \in shut]
                 /\ open' = [q \in Slot |-> open[q] /\ q \notin shut]
     \/ /\ \A r \in Opened : ~Lookup(r, nm)
        /\ UNCHANGED <<open, closed>>
  /\ UNCHANGED treeVars

CloseReply(nm) ==
  CASE ~Known(nm)                                        -> "NR"
    [] \E r \in Region : Lookup(r, nm) /\ closed[r]      -> "PF closed"
    [] \E r \in Unopened : Lookup(r, nm)                 -> "PF unopened"
    [] OTHER                                             -> "SC"

\* Mutant of AddRegion: the region is linked right behind its parent, with no
\* successor, instead of at the end of the list.
AddBehindParent(pnm, nm) ==
  /\ \/ \E r \in Region :
          /\ Lookup(r, pnm)
          /\ r < MaxRegions
          /\ size' = r + 1
          /\ name' = [name EXCEPT ![r + 1] = nm]
          /\ parent' = [parent EXCEPT ![r + 1] = r]
     \/ /\ ~Known(pnm)
        /\ UNCHANGED treeVars
  /\ UNCHANGED <<open, closed>>

\* AR: appends a region, unopened as fresh memory leaves it, to the list and to
\* the parent's children.  The handler never asks whether nm is taken.
AddRegion(pnm, nm) ==
  /\ \/ \E r \in Region :
          /\ Lookup(r, pnm)
          /\ size < MaxRegions
          /\ size' = size + 1
          /\ name' = [name EXCEPT ![size + 1] = nm]
          /\ parent' = [parent EXCEPT ![size + 1] = r]
     \/ /\ ~Known(pnm)
        /\ UNCHANGED treeVars
  /\ UNCHANGED <<open, closed>>

AddRegionReply(pnm) == IF Known(pnm) THEN "SC" ELSE "NR"

PollNext ==
  \/ \E nm \in Names : OpenPolls(nm)
  \/ \E nm \in Names : ClosePolls(nm)
  \/ \E pnm \in Names, nm \in NewNames : AddRegion(pnm, nm)

PollSpec == PollInit /\ [][PollNext]_pollVars

-----------------------------------------------------------------------------
PollTypeOK ==
  /\ size \in InitSize..MaxRegions
  /\ name \in [Slot -> Names \cup {NoName}]
  /\ parent \in [Slot -> 0..MaxRegions]
  /\ open \in [Slot -> BOOLEAN]
  /\ closed \in [Slot -> BOOLEAN]

DagRegion == 1..InitSize

\* unopened < open < closed
Rank(r) == IF closed[r] THEN 2 ELSE IF open[r] THEN 1 ELSE 0

(***************************************************************************)
(* The polls of a region of the DAG file are never behind those of the     *)
(* region above it: once a region is opened or closed, so is everything    *)
(* the file put below it, whatever the order of requests and whatever      *)
(* regions were added since.  It is what makes closing the root enough for *)
(* a final count (Return_Winner) on a tree no region was added to.         *)
(***************************************************************************)
SubtreeAhead ==
  \A c \in DagRegion : InitParent[c] # 0 => Rank(InitParent[c]) <= Rank(c)

\* The regions on the way from r up to the root, r included: the least set that
\* holds r and the parents of its members.
Ancestry ==
  [r \in Slot |->
     {a \in 1..r : \A S \in SUBSET (1..r) :
        r \in S /\ (\A x \in S : parent[x] \in 1..r => parent[x] \in S) => a \in S}]

NamesDistinct == \A r, q \in Region : name[r] = name[q] => r = q

Changed == {r \in Slot : open'[r] # open[r] \/ closed'[r] # closed[r]}

(***************************************************************************)
(* As long as no added region took a name that was in use, a request       *)
(* changes polls in one subtree only, and its topmost region is among      *)
(* those that change: no request about one part of the tree opens or       *)
(* closes another part (the recursion goes by name, server.c 380, 685).    *)
(***************************************************************************)
OneSubtree ==
  [][NamesDistinct /\ Changed # {} =>
       \E top \in Changed : \A r \in Changed : top \in Ancestry[r]]_pollVars

(***************************************************************************)
(* Seen from outside, polls follow the life cycle of PollLifecycle: each   *)
(* region is opened at most once and closed only after that, never         *)
(* reopened, and regions advance together in one phase change.             *)
(***************************************************************************)
Phase(r) == IF open[r] THEN "open" ELSE IF closed[r] THEN "closed" ELSE "unopened"

Lifecycle == INSTANCE PollLifecycle WITH
  Regions <- Slot,
  Above   <- [c \in Slot |-> IF c <= InitSize THEN InitParent[c] ELSE 0],
  phase   <- [r \in Slot |-> Phase(r)]

LifecycleSpec == Lifecycle!Spec
=============================================================================
