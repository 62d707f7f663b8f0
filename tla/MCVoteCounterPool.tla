-------------------------- MODULE MCVoteCounterPool --------------------------
\* VoteCounterPool with four files, two of them with a priority in their name, one
\* of those the highest: the names of TestCase02, which has Region_4_p_-5.
EXTENDS VoteCounterPool

CONSTANTS County_3, County_4, Region_4, Region_5

MCPriority == (County_3 :> 9) @@ (County_4 :> 9) @@ (Region_4 :> -5) @@ (Region_5 :> 2)

MCPriority3 == [f \in {County_3, County_4, Region_4} |-> MCPriority[f]]
=============================================================================
