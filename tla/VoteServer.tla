----------------------------- MODULE VoteServer -----------------------------
(***************************************************************************)
(* The request handlers of CSCI4061_asn4/server.c: the polls of PollTree,  *)
(* the list of candidate counts each region keeps, and the reply to every  *)
(* request.  dispatchCode runs one handler at a time, under the mutex, so  *)
(* each handler is one action.                                             *)
(*                                                                         *)
(* A region's list (root_counter) starts empty, and the flag hasdata is    *)
(* set exactly when the list gets its first entry and never reset: the     *)
(* flag is not a variable here but the question whether the list is empty. *)
(* Counts are far below 2^31 at any size the server is used at (RETURN     *)
(* adds the election to the root's counts once more each time).            *)
(***************************************************************************)
EXTENDS PollTree, Sequences, SequencesExt, FiniteSetsExt

CONSTANTS Candidates,
          NoOne,       \* the empty name Return_Winner reports when all counts are 0
          Undecided,   \* no winner has been announced
          VoteFiles,   \* what a client's vote file can hold: ballots, line by line
          MaxVotes,    \* bound: votes one candidate may have in one region
          MaxCount     \* bound: the largest count in the root's list

Entry == [who : Candidates, n : Nat]

\* A vote file has at least one ballot.
ASSUME VoteAssumption ==
  /\ NoOne \notin Candidates
  /\ Undecided \notin Candidates \cup {NoOne}
  /\ VoteFiles \subseteq Seq(Candidates) \ {<<>>}
  /\ MaxVotes \in Nat
  /\ MaxCount \in Nat \ {0}

VARIABLES counts,    \* counts[r]: the list of entries of region r
          reply,     \* the last reply: request, region counted, code
          cast,      \* history: cast[r][c], votes for c accepted in r, less removed
          declared,  \* history: the winner announced since the last Add_Region
          early      \* history: a sum was stored while votes below could change

votes == <<counts, reply, cast, declared, early>>
vars  == <<pollVars, votes>>

-----------------------------------------------------------------------------
\* The client counts a vote file before it sends a request: an entry for every
\* name, in the order of their first ballots.
CountVote(list, who) ==
  IF \E i \in DOMAIN list : list[i].who = who
  THEN [i \in DOMAIN list |-> IF list[i].who = who THEN [who |-> who, n |-> list[i].n + 1]
                             ELSE list[i]]
  ELSE Append(list, [who |-> who, n |-> 1])

LeafCounter(file) == FoldLeft(CountVote, <<>>, file)

Ballots(file, c) == Cardinality({k \in DOMAIN file : file[k] = c})

-----------------------------------------------------------------------------
\* Operations on lists of entries.

\* Where a walk that has passed the first k entries can meet the name who.
Ahead(list, k, who) == {j \in (k + 1)..Len(list) : list[j].who = who}

\* One token of an addition: the walk goes on from the entry it stands at and
\* either adds to the next entry of that name or appends a new entry.
AddToken(walk, token) ==
  LET hits == Ahead(walk.list, walk.at, token.who)
  IN  IF hits # {}
      THEN [list |-> [walk.list EXCEPT ![Min(hits)].n = @ + token.n],
            at   |-> Min(hits)]
      ELSE [list |-> Append(walk.list, token), at |-> Len(walk.list) + 1]

\* The list after a token for each entry of tokens, where the walk may go back to
\* the head of the list between two of them.
Walked(list, tokens, back) ==
  FoldLeft(LAMBDA walk, t : AddToken([walk EXCEPT !.at = IF back THEN 0 ELSE @], t),
           [list |-> list, at |-> 0], tokens).list

\* Add_Votes never goes back.
AddTokens(list, tokens) == Walked(list, tokens, FALSE)

\* aggregate starts every walk at the head.
Merge(list, other) == Walked(list, other, TRUE)

\* Mutant of Lacking: only asks whether the candidate is listed.
Unlisted(list, tokens) == {t \in ToSet(tokens) : Ahead(list, 0, t.who) = {}}

\* The tokens Remove_Votes cannot take from the first entry of their name.
Lacking(list, tokens) ==
  {t \in ToSet(tokens) :
     LET hits == Ahead(list, 0, t.who) IN hits = {} \/ list[Min(hits)].n < t.n}

\* Mutant of Subtract: returns after the first token.
SubtractFirst(list, tokens) ==
  [list EXCEPT ![Min(Ahead(list, 0, tokens[1].who))].n = @ - tokens[1].n]

SubtractToken(list, t) == [list EXCEPT ![Min(Ahead(list, 0, t.who))].n = @ - t.n]

\* The loop asks once more whether each token can be taken (server.c 629-635).  It always
\* can then: Lacking was empty, and a client's tokens name each candidate once.
Subtract(list, tokens) == FoldLeft(SubtractToken, list, tokens)

\* The votes a list holds for a candidate, over all its entries.
Amounts(list, c) ==
  [k \in DOMAIN list |-> IF list[k].who = c THEN list[k].n ELSE 0]

VotesFor(list, c) == SumFunctionOnSet(Amounts(list, c), DOMAIN list)

-----------------------------------------------------------------------------
\* Summing up the tree.

HasData(r) == counts[r] # <<>>
Leaf(r)    == Children(r) = {}

\* A list merged with the lists of the regions in DOMAIN lists, in their order:
\* aggregate goes through the children as they were created.
Gathered(list, lists) ==
  MapThenFoldSet(LAMBDA other, acc : Merge(acc, other), list,
                 LAMBDA c : lists[c], LAMBDA S : Max(S), DOMAIN lists)

\* Mutant of Aggregated: a child is aggregated again although it has data.
AggregatedAgain ==
  LET sum[r \in Slot] == Gathered(counts[r], [c \in Children(r) |-> sum[c]])
  IN  sum

(***************************************************************************)
(* The list aggregate leaves in a region: its list merged with those of    *)
(* its children, in their order, where a child without data is aggregated  *)
(* first and a child WITH data is taken as it is.                          *)
(***************************************************************************)
Aggregated ==
  LET sum[r \in Slot] ==
        Gathered(counts[r],
                 [c \in Children(r) |-> IF HasData(c) THEN counts[c] ELSE sum[c]])
  IN  sum

\* The regions whose list aggregate(r) writes: r, and below it the regions the
\* recursion enters because neither they nor those above them up to r hold data.
Entered(r) ==
  LET way == Ancestry
  IN  {q \in Slot : /\ r \in way[q]
                    /\ \A x \in way[q] : r \in way[x] /\ x # r => ~HasData(x)}

Aggregate(r) ==
  LET sum == Aggregated
      in  == Entered(r)
  IN  [q \in Slot |-> IF q \in in THEN sum[q] ELSE counts[q]]

\* The first entry with the largest positive count, as Return_Winner picks it.
Leader(list) ==
  LET top   == Max({list[i].n : i \in DOMAIN list})
      first == Min({i \in DOMAIN list : list[i].n = top})
  IN  IF top > 0 THEN list[first].who ELSE NoOne

\* Mutant of FinalCount: asks the root only, not the leaves.
RootClosed == ~open[Root] /\ closed[Root]

FinalCount ==
  /\ ~open[Root] /\ closed[Root]
  /\ \A r \in Region : Leaf(r) => ~open[r] /\ closed[r]

-----------------------------------------------------------------------------
Say(req, at, code) == reply' = [req |-> req, at |-> at, code |-> code]

Init ==
  /\ PollInit
  /\ counts = [r \in Slot |-> <<>>]
  /\ reply = [req |-> "none", at |-> NoName, code |-> "none"]
  /\ cast = [r \in Slot |-> [c \in Candidates |-> 0]]
  /\ declared = Undecided
  /\ early = FALSE

OP(nm) ==
  /\ OpenPolls(nm)
  /\ Say("OP", NoName, OpenReply(nm))
  /\ UNCHANGED <<counts, cast, declared, early>>

CP(nm) ==
  /\ ClosePolls(nm)
  /\ Say("CP", NoName, CloseReply(nm))
  /\ UNCHANGED <<counts, cast, declared, early>>

\* A region added under one that holds votes, or anywhere once a sum is stored,
\* may get votes that the stored list does not have.
AR(pnm, nm) ==
  /\ AddRegion(pnm, nm)
  /\ Say("AR", NoName, AddRegionReply(pnm))
  /\ declared' = IF Known(pnm) THEN Undecided ELSE declared
  /\ early' = \/ early
              \/ Known(pnm) /\ \E r \in Region : HasData(r) /\ (~Leaf(r) \/ Lookup(r, pnm))
  /\ UNCHANGED <<counts, cast>>

\* Mutant of Refusal: the polls are not looked at.
NotALeaf(r) == IF Leaf(r) THEN "none" ELSE "NL"

\* The tests Add_Votes and Remove_Votes begin with.
Refusal(r) ==
  IF ~Leaf(r) THEN "NL" ELSE IF ~open[r] \/ closed[r] THEN "RC" ELSE "none"

Refuse(req, nm) ==
  /\ \/ ~Known(nm) /\ Say(req, NoName, "NR")
     \/ \E r \in Region :
          Lookup(r, nm) /\ Refusal(r) # "none" /\ Say(req, NoName, Refusal(r))
  /\ UNCHANGED <<pollVars, counts, cast, declared, early>>

AV(nm, file) ==
  \/ Refuse("AV", nm)
  \/ \E r \in Region :
       /\ Lookup(r, nm)
       /\ Refusal(r) = "none"
       /\ \A c \in Candidates : cast[r][c] + Ballots(file, c) <= MaxVotes
       /\ counts' = [counts EXCEPT ![r] = AddTokens(@, LeafCounter(file))]
       /\ cast' = [cast EXCEPT ![r] = [c \in Candidates |-> @[c] + Ballots(file, c)]]
       /\ Say("AV", NoName, "SC")
       /\ UNCHANGED <<pollVars, declared, early>>

\* Checks every token, then subtracts: one name per token, so what the check
\* found is still there when the subtraction comes to it.
RV(nm, file) ==
  \/ Refuse("RV", nm)
  \/ \E r \in Region :
       /\ Lookup(r, nm)
       /\ Refusal(r) = "none"
       /\ \/ /\ Lacking(counts[r], LeafCounter(file)) # {}
             /\ Say("RV", NoName, "IS")
             /\ UNCHANGED <<counts, cast>>
          \/ /\ Lacking(counts[r], LeafCounter(file)) = {}
             /\ counts' = [counts EXCEPT ![r] = Subtract(@, LeafCounter(file))]
             /\ cast' = [cast EXCEPT ![r] =
                           [c \in Candidates |-> @[c] - Ballots(file, c)]]
             /\ Say("RV", NoName, "SC")
       /\ UNCHANGED <<pollVars, declared, early>>

\* Lists counts'[r]: the list as stored if there is one, or else the sum of the
\* children, which stays stored ("No votes." when that is empty).
CV(nm) ==
  /\ \/ /\ ~Known(nm)
        /\ Say("CV", NoName, "NR")
        /\ UNCHANGED <<counts, early>>
     \/ \E r \in Region :
          /\ Lookup(r, nm)
          /\ counts' = IF HasData(r) THEN counts ELSE Aggregate(r)
          /\ early' = (early \/ \E q, l \in Region :
                                  /\ counts'[q] # counts[q]
                                  /\ Leaf(l) /\ ~closed[l] /\ q \in Ancestry[l])
          /\ Say("CV", nm, "SC")
  /\ UNCHANGED <<pollVars, cast, declared>>

\* Mutant of RW: aggregates before it asks whether the polls are closed.
RWTooEarly ==
  /\ counts' = Aggregate(Root)
  /\ \A i \in DOMAIN counts'[Root] : counts'[Root][i].n <= MaxCount
  /\ Say("RW", NoName, IF FinalCount THEN "SC" ELSE "RO")
  /\ UNCHANGED <<pollVars, cast, declared, early>>

\* Whatever region the request names, the root is asked; and its list, stored
\* or not, is aggregated once more.
RW ==
  /\ \/ /\ ~FinalCount
        /\ Say("RW", NoName, "RO")
        /\ UNCHANGED <<counts, declared>>
     \/ /\ FinalCount
        /\ LET sums == Aggregate(Root)
           IN  /\ \A i \in DOMAIN sums[Root] : sums[Root][i].n <= MaxCount
               /\ counts' = sums
               /\ declared' = IF sums[Root] = <<>> THEN NoOne ELSE Leader(sums[Root])
        /\ Say("RW", NoName, "SC")
  /\ UNCHANGED <<pollVars, cast, early>>

UC ==
  /\ Say("UC", NoName, "UC")
  /\ UNCHANGED <<pollVars, counts, cast, declared, early>>

Next ==
  \/ \E nm \in Names : OP(nm)
  \/ \E nm \in Names : CP(nm)
  \/ \E pnm \in Names, nm \in NewNames : AR(pnm, nm)
  \/ \E nm \in Names, file \in VoteFiles : AV(nm, file)
  \/ \E nm \in Names, file \in VoteFiles : RV(nm, file)
  \/ \E nm \in Names : CV(nm)
  \/ RW
  \/ UC

Spec == Init /\ [][Next]_vars

-----------------------------------------------------------------------------
Codes == {"none", "SC", "NR", "NL", "RC", "RO", "RR", "IS", "UC",
          "PF", "PF closed", "PF unopened"}

TypeOK ==
  /\ PollTypeOK
  /\ counts \in [Slot -> Seq(Entry)]
  /\ reply \in [req : {"none", "OP", "CP", "AR", "AV", "RV", "CV", "RW", "UC"},
                at : Names \cup {NoName}, code : Codes]
  /\ cast \in [Slot -> [Candidates -> 0..MaxVotes]]
  /\ declared \in Candidates \cup {NoOne, Undecided}
  /\ early \in BOOLEAN

\* The votes accepted in a region and everything below it.
Below(r) == {q \in Region : r \in Ancestry[q]}

TrueCount(r, c) == SumFunctionOnSet([q \in Slot |-> cast[q][c]], Below(r))

(***************************************************************************)
(* No vote is lost or invented in a leaf: whatever was added and removed,  *)
(* and however often a candidate appears in its list, the list adds up to  *)
(* the votes that were acknowledged (Add_Votes 434-457, Remove_Votes       *)
(* 610-639).                                                               *)
(***************************************************************************)
LeavesExact ==
  \A r \in Region : Leaf(r) =>
    \A c \in Candidates : VotesFor(counts[r], c) = cast[r][c]

(***************************************************************************)
(* Sums that were stored only when nothing below could change any more are *)
(* right ever after; only the root's may have been added up k times, once  *)
(* by every Return_Winner (aggregate at 195 on top of a stored sum).       *)
(***************************************************************************)
StoredSumsRight ==
  ~early =>
    \A r \in Region : HasData(r) =>
      \E k \in IF r = Root THEN 1..MaxCount ELSE {1} :
        \A c \in Candidates : VotesFor(counts[r], c) = k * TrueCount(r, c)

Leads(w) ==
  IF w = NoOne
  THEN \A c \in Candidates : TrueCount(Root, c) = 0
  ELSE /\ TrueCount(Root, w) > 0
       /\ \A c \in Candidates : TrueCount(Root, c) <= TrueCount(Root, w)

(***************************************************************************)
(* Provided no sum was stored early, the announced winner leads the        *)
(* election, when it is announced and in every later state: nothing that   *)
(* is still accepted changes who leads, unless a region is added.          *)
(***************************************************************************)
WinnerStands == declared # Undecided /\ ~early => Leads(declared)

(***************************************************************************)
(* Under the same proviso, asking again gives the same winner, ties        *)
(* included, although the root's counts grow with every Return_Winner.     *)
(***************************************************************************)
WinnerStable ==
  [][declared # Undecided /\ declared' # Undecided /\ ~early' => declared' = declared]_vars

(***************************************************************************)
(* A request answered with an error has changed nothing: in particular a   *)
(* Remove_Votes refused for one candidate removes no votes of another, and *)
(* a refused Return_Winner stores no sums.                                 *)
(***************************************************************************)
ErrorsChangeNothing ==
  [][reply'.code # "SC" => UNCHANGED <<pollVars, counts, cast, declared>>]_vars

(***************************************************************************)
(* Votes are accepted or removed in a region only while no region of the   *)
(* DAG file above it is closed, though Add_Votes and Remove_Votes look at  *)
(* the flags of the leaf alone (416, 546).                                 *)
(***************************************************************************)
NoVotesUnderClosed ==
  [][\A r \in DagRegion : cast'[r] # cast[r] =>
       \A a \in Ancestry[r] : ~closed[a]]_vars

(***************************************************************************)
(* A claim of the documentation that the code does not keep.               *)
(***************************************************************************)
\* Count_Votes "should return correct data always" (PA4): the list it printed
\* for a region adds up to the votes accepted there and below.
CountsAlwaysCorrect ==
  reply.req = "CV" /\ reply.code = "SC" =>
    \A r \in Region : Lookup(r, reply.at) =>
      \A c \in Candidates : VotesFor(counts[r], c) = TrueCount(r, c)
=============================================================================
