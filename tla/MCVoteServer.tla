---------------------------- MODULE MCVoteServer ----------------------------
\* VoteServer on a root, one region and its county, plus room for one region
\* that Add_Region puts anywhere: under the root it makes a second leaf, under
\* the county it makes an aggregator of a leaf.  Two candidates, and vote files
\* with two ballots for one of them or one for each, so that the order of a list and
\* of a file can differ, and a region can have some of the votes to be removed.
EXTENDS VoteServer

CONSTANTS who_won, region_1, region_2, county_1, A, B

MCNames == {who_won, region_1, region_2, county_1}

MCInitName == <<who_won, region_1, county_1>>

MCInitParent == <<0, 1, 2>>

MCVoteFiles == {<<A, A>>, <<B, A>>}

\* No handler reads the last reply, so two states that differ only there have
\* the same future; a step into either is still checked.
WithoutReply == <<pollVars, counts, cast, declared, early>>
=============================================================================
