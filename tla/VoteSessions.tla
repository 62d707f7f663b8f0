---------------------------- MODULE VoteSessions ----------------------------
(***************************************************************************)
(* The clients of the vote server (CSCI4061_asn4/client.c), the server's   *)
(* main loop and its handler threads (server.c runThread, main).           *)
(*                                                                         *)
(* A client reads its command file line by line: it sends a request for a  *)
(* command it knows, nothing for any other line, and in both cases waits   *)
(* for a reply.  The server accepts a connection, starts a thread for it   *)
(* and joins that thread before it accepts again.  Requests and replies    *)
(* travel in order; a message is here the number of the line it belongs    *)
(* to, and is read when its terminator has arrived.  What a request does   *)
(* to the regions is the subject of VoteServer.                            *)
(***************************************************************************)
EXTENDS Naturals, Sequences, FiniteSets

CONSTANTS Clients,
          Nobody,    \* no client: an idle server, a free mutex
          Scripts,   \* the command files: each a sequence of "command", "other"
          Mortal     \* the clients that may be killed while they run

ASSUME SessionAssumption ==
  /\ Nobody \notin Clients
  /\ Scripts \subseteq Seq({"command", "other"})
  /\ Mortal \subseteq Clients

VARIABLES script,    \* script[c]: the lines of c's command file
          line,      \* line[c]: the line c is at
          client,    \* client[c]: where main of client.c is
          toServer,  \* requests sent and not read yet, per connection
          toClient,  \* replies sent and not read yet
          reset,     \* reset[c]: the server's end knows the client's is gone for good
          backlog,   \* connections established and not accepted yet
          conn,      \* the connection main has accepted and whose thread it joins
          thread,    \* thread[c]: where runThread is, for c's connection
          request,   \* request[c]: the request that thread has read
          mutex,     \* the holder of the mutex around dispatchCode
          executed   \* history: requests dispatched, per client

clientVars == <<script, line, client>>
serverVars == <<backlog, conn, thread, request, mutex, executed>>
netVars    == <<toServer, toClient, reset>>
vars == <<clientVars, netVars, serverVars>>

Init ==
  /\ script \in [Clients -> Scripts]
  /\ line = [c \in Clients |-> 1]
  /\ client = [c \in Clients |-> "start"]
  /\ toServer = [c \in Clients |-> <<>>]
  /\ toClient = [c \in Clients |-> <<>>]
  /\ reset = [c \in Clients |-> FALSE]
  /\ backlog = <<>>
  /\ conn = Nobody
  /\ thread = [c \in Clients |-> "none"]
  /\ request = [c \in Clients |-> 0]
  /\ mutex = Nobody
  /\ executed = [c \in Clients |-> 0]

-----------------------------------------------------------------------------
\* The client.

\* connect returns once the kernel has queued the connection.
Connect(c) ==
  /\ client[c] = "start"
  /\ client' = [client EXCEPT ![c] = "next"]
  /\ backlog' = Append(backlog, c)
  /\ UNCHANGED <<script, line, netVars, conn, thread, request, mutex, executed>>

\* Mutant of DispatchLine: main does not call getResponse.
DispatchWithoutResponse(c) ==
  /\ client[c] = "next"
  /\ line[c] <= Len(script[c])
  /\ line' = [line EXCEPT ![c] = @ + 1]
  /\ toServer' = [toServer EXCEPT ![c] = Append(@, line[c])]
  /\ UNCHANGED <<script, client, toClient, reset, serverVars>>

\* dispatchLine: a line that is no command only prints an error; main goes on to
\* getResponse either way.
DispatchLine(c) ==
  /\ client[c] = "next"
  /\ line[c] <= Len(script[c])
  /\ client' = [client EXCEPT ![c] = "wait"]
  /\ toServer' = IF script[c][line[c]] = "command"
                 THEN [toServer EXCEPT ![c] = Append(@, line[c])]
                 ELSE toServer
  /\ UNCHANGED <<script, line, toClient, reset, serverVars>>

GetResponse(c) ==
  /\ client[c] = "wait"
  /\ toClient[c] # <<>>
  /\ toClient' = [toClient EXCEPT ![c] = Tail(@)]
  /\ line' = [line EXCEPT ![c] = @ + 1]
  /\ client' = [client EXCEPT ![c] = "next"]
  /\ UNCHANGED <<script, toServer, reset, serverVars>>

Close(c) ==
  /\ client[c] = "next"
  /\ line[c] > Len(script[c])
  /\ client' = [client EXCEPT ![c] = "closed"]
  /\ UNCHANGED <<script, line, netVars, serverVars>>

\* The process is killed: the kernel closes its socket, and if a reply is still
\* unread there, resets the connection.
Die(c) ==
  /\ c \in Mortal
  /\ client[c] \in {"next", "wait"}
  /\ client' = [client EXCEPT ![c] = "closed"]
  /\ toClient' = [toClient EXCEPT ![c] = <<>>]
  /\ reset' = [reset EXCEPT ![c] = toClient[c] # <<>>]
  /\ UNCHANGED <<script, line, toServer, serverVars>>

-----------------------------------------------------------------------------
\* The server: main, and the thread of a connection.

Accept ==
  /\ conn = Nobody
  /\ backlog # <<>>
  /\ conn' = Head(backlog)
  /\ backlog' = Tail(backlog)
  /\ thread' = [thread EXCEPT ![Head(backlog)] = "read"]
  /\ UNCHANGED <<clientVars, netVars, request, mutex, executed>>

\* Mutant of Join: main accepts again without waiting for the thread.
JoinNobody ==
  /\ conn \in Clients
  /\ conn' = Nobody
  /\ UNCHANGED <<clientVars, netVars, backlog, thread, request, mutex, executed>>

Join ==
  /\ conn \in Clients
  /\ thread[conn] = "exited"
  /\ conn' = Nobody
  /\ UNCHANGED <<clientVars, netVars, backlog, thread, request, mutex, executed>>

\* Mutant of Read: buffer_r is not emptied, a second request finds the first.
ReadBehindFirst(c) ==
  /\ thread[c] = "read"
  /\ toServer[c] # <<>>
  /\ request' = [request EXCEPT ![c] = IF @ = 0 THEN Head(toServer[c]) ELSE @]
  /\ toServer' = [toServer EXCEPT ![c] = Tail(@)]
  /\ thread' = [thread EXCEPT ![c] = "lock"]
  /\ UNCHANGED <<clientVars, toClient, reset, backlog, conn, mutex, executed>>

Read(c) ==
  /\ thread[c] = "read"
  /\ toServer[c] # <<>>
  /\ request' = [request EXCEPT ![c] = Head(toServer[c])]
  /\ toServer' = [toServer EXCEPT ![c] = Tail(@)]
  /\ thread' = [thread EXCEPT ![c] = "lock"]
  /\ UNCHANGED <<clientVars, toClient, reset, backlog, conn, mutex, executed>>

Lock(c) ==
  /\ thread[c] = "lock"
  /\ mutex = Nobody
  /\ mutex' = c
  /\ thread' = [thread EXCEPT ![c] = "dispatch"]
  /\ UNCHANGED <<clientVars, netVars, backlog, conn, request, executed>>

\* Every handler sends one reply before it returns.  A socket whose client is
\* gone drops it and is reset: the next send would raise SIGPIPE, which the server
\* does not handle.
DispatchCode(c) ==
  /\ thread[c] = "dispatch"
  /\ executed' = [executed EXCEPT ![c] = @ + 1]
  /\ toClient' = IF client[c] = "closed" THEN toClient
                 ELSE [toClient EXCEPT ![c] = Append(@, request[c])]
  /\ reset' = [reset EXCEPT ![c] = client[c] = "closed"]
  /\ thread' = [thread EXCEPT ![c] = "unlock"]
  /\ UNCHANGED <<clientVars, toServer, backlog, conn, request, mutex>>

\* Mutant of Unlock: the mutex is not released.
KeepLocked(c) ==
  /\ thread[c] = "unlock"
  /\ thread' = [thread EXCEPT ![c] = "read"]
  /\ UNCHANGED <<clientVars, netVars, backlog, conn, request, mutex, executed>>

\* Mutant of Unlock: the request is dispatched once more before the next read.
UnlockRepeating(c) ==
  /\ thread[c] = "unlock"
  /\ mutex' = Nobody
  /\ thread' = [thread EXCEPT ![c] = "lock"]
  /\ UNCHANGED <<clientVars, netVars, backlog, conn, request, executed>>

Unlock(c) ==
  /\ thread[c] = "unlock"
  /\ mutex' = Nobody
  /\ thread' = [thread EXCEPT ![c] = "read"]
  /\ UNCHANGED <<clientVars, netVars, backlog, conn, request, executed>>

\* read returns 0 only when the client has closed its end.
EndOfFile(c) ==
  /\ thread[c] = "read"
  /\ toServer[c] = <<>>
  /\ client[c] = "closed"
  /\ thread' = [thread EXCEPT ![c] = "exited"]
  /\ UNCHANGED <<clientVars, netVars, backlog, conn, request, mutex, executed>>

-----------------------------------------------------------------------------
ClientStep(c) == Connect(c) \/ DispatchLine(c) \/ GetResponse(c) \/ Close(c)

ThreadStep(c) ==
  Read(c) \/ Lock(c) \/ DispatchCode(c) \/ Unlock(c) \/ EndOfFile(c)

Next ==
  \/ \E c \in Clients : ClientStep(c) \/ Die(c) \/ ThreadStep(c)
  \/ Accept
  \/ Join

Spec == Init /\ [][Next]_vars

\* Every process that has a step to take takes one in the end; being killed is no
\* step of a process, and no client need be.
Fairness ==
  /\ \A c \in Clients : WF_vars(ClientStep(c)) /\ WF_vars(ThreadStep(c))
  /\ WF_vars(Accept \/ Join)

FairSpec == Spec /\ Fairness

-----------------------------------------------------------------------------
TypeOK ==
  /\ script \in [Clients -> Seq({"command", "other"})]
  /\ line \in [Clients -> Nat \ {0}]
  /\ \A c \in Clients : line[c] <= Len(script[c]) + 1
  /\ client \in [Clients -> {"start", "next", "wait", "closed"}]
  /\ toServer \in [Clients -> Seq(Nat)]
  /\ toClient \in [Clients -> Seq(Nat)]
  /\ reset \in [Clients -> BOOLEAN]
  /\ backlog \in Seq(Clients)
  /\ conn \in Clients \cup {Nobody}
  /\ thread \in [Clients ->
                  {"none", "read", "lock", "dispatch", "unlock", "exited"}]
  /\ request \in [Clients -> Nat]
  /\ mutex \in Clients \cup {Nobody}
  /\ executed \in [Clients -> Nat]
  /\ \A c \in Clients : executed[c] <= Len(script[c])

(***************************************************************************)
(* The reply a client reads next is the reply to the line it is at: no     *)
(* reply is ever left over from an earlier line or sent twice, even though *)
(* nothing in a reply says which request it answers (getResponse 339).     *)
(***************************************************************************)
RepliesInStep ==
  \A c \in Clients : toClient[c] # <<>> =>
    client[c] = "wait" /\ toClient[c] = <<line[c]>>

(***************************************************************************)
(* Between two commands of a client, the server has executed each command  *)
(* line before the one it is at, once.                                     *)
(***************************************************************************)
ExecutedOnce ==
  \A c \in Clients : client[c] = "next" =>
    executed[c] = Cardinality({k \in 1 .. line[c] - 1 : script[c][k] = "command"})

(***************************************************************************)
(* The server never sends on a connection that has been reset, which would *)
(* end it by SIGPIPE, wherever a client is killed: the client has at most  *)
(* one request under way (client.c 563-564), so the one send that finds it *)
(* gone is the last on that connection (send in dispatchCode, runThread).  *)
(***************************************************************************)
NoBrokenPipe == \A c \in Clients : thread[c] = "dispatch" => ~reset[c]

(***************************************************************************)
(* A thread runs only for the connection main is waiting for: pthread_join *)
(* right after pthread_create (1129, 1136) serves clients one by one, and  *)
(* it is this, before the mutex, that keeps handlers apart.                *)
(***************************************************************************)
OneHandler ==
  \A c \in Clients : thread[c] \notin {"none", "exited"} => conn = c

\* The sessions are those of SerialSessions: one at a time, in order of arrival,
\* with no command of another client in between.
Serial == INSTANCE SerialSessions WITH waiting <- backlog, serving <- conn

SerialSpec == Serial!Spec

WellFormed(c) == \A i \in DOMAIN script[c] : script[c][i] = "command"

(***************************************************************************)
(* A client whose file holds nothing but commands gets through its file    *)
(* and closes its connection ("Many clients can conenct to the server, and *)
(* send it commands", README).  True when it is so of every client; one    *)
(* client with a blank line keeps all the others waiting.                  *)
(***************************************************************************)
WellFormedServed ==
  \A c \in Clients : WellFormed(c) ~> client[c] = "closed"
=============================================================================
