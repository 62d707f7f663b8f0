---------------------------- MODULE SerialSessions ----------------------------
(***************************************************************************)
(* What the vote server makes of its clients, seen as a whole: sessions    *)
(* are served one at a time and in the order of arrival, and commands are  *)
(* executed for the client being served and for no other.                  *)
(***************************************************************************)
EXTENDS Naturals, Sequences

CONSTANTS Clients, Nobody

VARIABLES waiting,   \* clients that have connected, first come first
          serving,   \* the client whose session is running, or Nobody
          executed   \* executed[c]: commands carried out for c

Init ==
  /\ waiting = <<>>
  /\ serving = Nobody
  /\ executed = [c \in Clients |-> 0]

Arrive(c) ==
  /\ \A i \in DOMAIN waiting : waiting[i] # c
  /\ c # serving
  /\ waiting' = Append(waiting, c)
  /\ UNCHANGED <<serving, executed>>

Begin ==
  /\ serving = Nobody
  /\ waiting # <<>>
  /\ serving' = Head(waiting)
  /\ waiting' = Tail(waiting)
  /\ UNCHANGED executed

Execute ==
  /\ serving \in Clients
  /\ executed' = [executed EXCEPT ![serving] = @ + 1]
  /\ UNCHANGED <<waiting, serving>>

End ==
  /\ serving \in Clients
  /\ serving' = Nobody
  /\ UNCHANGED <<waiting, executed>>

Next == (\E c \in Clients : Arrive(c)) \/ Begin \/ Execute \/ End

Spec == Init /\ [][Next]_<<waiting, serving, executed>>
=============================================================================
