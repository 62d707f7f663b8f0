--------------------------- MODULE MCNodeProcesses ---------------------------
(***************************************************************************)
(* Input files for NodeProcesses: every tree of five regions with the root *)
(* listed first, in the middle or last, and every set of at most four      *)
(* links between four regions; a few files that are odd in other ways.     *)
(***************************************************************************)
EXTENDS NodeProcesses

MCTokens == {"#", "2", "two", ":", "Who_Won", "A", "B", "C", "D", "E"}

\* A file that lists these names, and for each the children that the links give it.
FileOf(names, links) ==
  LET LinesOf(f) ==
        LET kids == SelectSeq(names, LAMBDA c : <<f, c>> \in links)
        IN  IF kids = <<>> THEN <<>> ELSE << <<f, ":">> \o kids >>
  IN  << <<"2", "A", "B">>, names >> \o
        FoldLeft(LAMBDA lines, f : lines \o LinesOf(f), <<>>, names)

Five == { <<"Who_Won", "A", "B", "C", "D">>,
          <<"A", "B", "Who_Won", "C", "D">>,
          <<"A", "B", "C", "D", "Who_Won">> }

\* In a function from a region to the one above it, does every region lead to the root?
Rooted(above) ==
  LET Up[n \in 0 .. 5] == [r \in DOMAIN above |->
        IF n = 0 THEN r
        ELSE IF Up[n - 1][r] = "Who_Won" THEN "Who_Won" ELSE above[Up[n - 1][r]]]
  IN  \A r \in DOMAIN above : Up[5][r] = "Who_Won"

TreesOfFive ==
  {above \in [{"A", "B", "C", "D"} -> {"Who_Won", "A", "B", "C", "D"}] : Rooted(above)}

TreeFiles ==
  {FileOf(names, {<<above[r], r>> : r \in DOMAIN above}) :
     names \in Five, above \in TreesOfFive}

Four == <<"Who_Won", "A", "B", "C">>

LinkFiles ==
  {FileOf(Four, links) :
     links \in UNION {kSubset(k, (Range(Four) \X Range(Four))) : k \in 1 .. 4}}

\* Comments, a child listed twice, names that are no nodes once or twice, no number in the first
\* line, no region besides the root, no links.
OddFiles ==
  { << <<"#">>, <<"2", "A", "B">>, <<"#", "2">>, <<"Who_Won", "A", "B">>,
       <<"Who_Won", ":", "A", "B">> >>,
    << <<"2", "A", "B">>, <<"Who_Won", "A", "B">>, <<"Who_Won", ":", "A", "A">> >>,
    << <<"2", "A", "B">>, <<"Who_Won", "A", "B">>, <<"Who_Won", ":", "A", "E", "B">>,
       <<"D", ":", "C">> >>,
    << <<"2", "A", "B">>, <<"Who_Won", "A", "B">>, <<"Who_Won", ":", "A", "B">>,
       <<"D", ":", "C", "C">> >>,
    << <<"two", "A", "B">>, <<"Who_Won", "A", "B">>, <<"Who_Won", ":", "A", "B">> >>,
    << <<"2", "A", "B">>, <<"Who_Won">> >>,
    << <<"2", "A", "B">>, <<"Who_Won", "A", "B">> >> }

MCInputFiles == TreeFiles \cup LinkFiles \cup OddFiles

=============================================================================
