------------------------------ MODULE FilesOnce ------------------------------
(***************************************************************************)
(* What the vote counter of CSCI4061_asn3 promises of its input files,     *)
(* whatever threads do the work: each file is counted once, a file is      *)
(* started only after those of higher priority, and the winner is          *)
(* declared when every file is counted.                                    *)
(***************************************************************************)
EXTENDS Integers

CONSTANTS Files,
          Before   \* Before[f]: the files that have priority over f

VARIABLES started, counted, declared

Init ==
  /\ started = {}
  /\ counted = {}
  /\ declared = FALSE

Start(f) ==
  /\ f \in Files \ started
  /\ Before[f] \subseteq started
  /\ started' = started \cup {f}
  /\ UNCHANGED <<counted, declared>>

Count(f) ==
  /\ f \in started \ counted
  /\ counted' = counted \cup {f}
  /\ UNCHANGED <<started, declared>>

Declare ==
  /\ ~declared
  /\ counted = Files
  /\ declared' = TRUE
  /\ UNCHANGED <<started, counted>>

Next == (\E f \in Files : Start(f) \/ Count(f)) \/ Declare

Spec == Init /\ [][Next]_<<started, counted, declared>>
=============================================================================
