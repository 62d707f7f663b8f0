----------------------------- MODULE MCPollTree -----------------------------
\* PollTree on the shape of the TestCase01 DAG file, cut to one county: a root,
\* two regions, a leaf on the third level, and room for two regions added by
\* Add_Region, under each other or elsewhere, with a new name or a taken one.
EXTENDS PollTree

CONSTANTS who_won, region_1, region_2, county_1, county_2

MCNames == {who_won, region_1, region_2, county_1, county_2}

MCInitName == <<who_won, region_1, region_2, county_1>>

MCInitParent == <<0, 1, 1, 2>>
=============================================================================
