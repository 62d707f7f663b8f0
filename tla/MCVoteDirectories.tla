------------------------- MODULE MCVoteDirectories -------------------------
(***************************************************************************)
(* A tree with leaves on two levels, TestCase01 of asn2 cut to one county: *)
(* two names and the blank line; a link in each of two leaves, or two in   *)
(* the county.                                                             *)
(***************************************************************************)
EXTENDS VoteDirectories

MCAbove == [R |-> "Who_Won", L3 |-> "Who_Won", L1 |-> "R", L2 |-> "R"]
MCDirs == {"Who_Won", "R", "L1", "L2", "L3"}

MCVoteFiles == { <<2, 1, 2>>, <<1>>, <<1, 0>> }

MCFirstVotes ==
  { [L1 |-> <<1>>, L2 |-> <<2, 1, 2>>, L3 |-> <<2, 1, 2>>],
    [L1 |-> <<1, 0>>, L2 |-> <<1>>, L3 |-> <<2, 1, 2>>],
    [L2 |-> <<2, 1, 2>>, L3 |-> <<1>>] }

Linking(some) == [d \in MCDirs |-> IF d \in DOMAIN some THEN some[d] ELSE {}]

MCLinkSets ==
  { Linking([L1 |-> {"R"}, L3 |-> {"Who_Won"}]),
    Linking([R |-> {"Who_Won", "R"}]) }

=============================================================================
