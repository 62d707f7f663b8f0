--------------------------- MODULE MCVoteSessions ---------------------------
\* VoteSessions with three clients that each send up to two commands, one of
\* which may be killed.  In the second set of scripts a file may hold a line that
\* is no command, as the last line of TestCase_EC/input.req does.
EXTENDS VoteSessions

CONSTANTS c1, c2, c3

Commands == {<<"command">>, <<"command", "command">>}

WithOtherLine == {<<"command">>, <<"command", "other">>}
=============================================================================
