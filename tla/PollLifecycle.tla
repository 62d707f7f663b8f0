---------------------------- MODULE PollLifecycle ----------------------------
(***************************************************************************)
(* What the assignment promises of polls, without the server's list, its   *)
(* lookups or its flags: each region's polls are unopened, then open, then *)
(* closed for good, and a region is never ahead of the regions below it.   *)
(***************************************************************************)
EXTENDS Integers

CONSTANTS Regions,   \* the regions there may ever be
          Above      \* Above[c]: the region c was declared under, 0 for none

VARIABLE phase

Stage(p) == CASE p = "unopened" -> 0 [] p = "open" -> 1 [] p = "closed" -> 2

\* No region is ahead of a region declared below it.
Orderly(ph) ==
  \A c \in Regions : Above[c] \in Regions => Stage(ph[Above[c]]) <= Stage(ph[c])

Init == phase = [r \in Regions |-> "unopened"]

\* Some of the regions that are in one phase move on to the next one together.
Advance(from, to) ==
  /\ phase' \in [Regions -> {"unopened", "open", "closed"}]
  /\ \A r \in Regions :
       phase'[r] # phase[r] => phase[r] = from /\ phase'[r] = to
  /\ Orderly(phase')

Next == Advance("unopened", "open") \/ Advance("open", "closed")

Spec == Init /\ [][Next]_phase
=============================================================================
