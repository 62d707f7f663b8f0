--------------------------- MODULE MCVoteAggregate ---------------------------
\* VoteAggregate on the DAG of the assignment's example (PA3-Updated.pdf, page 5),
\* with an input file that is not part of it.
EXTENDS VoteAggregate

CONSTANTS Who_Won, Region_1, Region_2, County_1, County_2, Stray, C, D, Smith

MCDirs == {Who_Won, Region_1, Region_2, County_1, County_2}
MCLeaves == {County_1, County_2, Region_2, Stray}

MCAbove == (Region_1 :> Who_Won) @@ (Region_2 :> Who_Won)
             @@ (County_1 :> Region_1) @@ (County_2 :> Region_1)

\* C alone, both in either order and lead, and no vote that counts.
MCBallotFiles == {<<C, C>>, <<C, D>>, <<D, Smith, D, C, D>>, <<Smith>>}
=============================================================================
