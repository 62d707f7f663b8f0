------------------------- MODULE VoteSessionsProofs -------------------------
(***************************************************************************)
(* Proofs about VoteSessions, for every set of clients, every set of       *)
(* command files and every set of clients that may be killed.  Where a     *)
(* request or a reply can be is said client by client (InStep), what a     *)
(* killed client leaves behind (ResetLate), and who is in the backlog      *)
(* (Queued).  From these follow one handler at a time, replies in step, no *)
(* send on a reset connection, and the serial sessions of SerialSessions.  *)
(***************************************************************************)
EXTENDS VoteSessions, SequenceTheorems, FiniteSetTheorems, TLAPS

Typed ==
  /\ line \in [Clients -> Nat]
  /\ client \in [Clients -> {"start", "next", "wait", "closed"}]
  /\ toServer \in [Clients -> Seq(Nat)]
  /\ toClient \in [Clients -> Seq(Nat)]
  /\ reset \in [Clients -> BOOLEAN]
  /\ backlog \in Seq(Clients)
  /\ conn \in Clients \cup {Nobody}
  /\ thread \in [Clients -> {"none", "read", "lock", "dispatch", "unlock", "exited"}]
  /\ request \in [Clients -> Nat]
  /\ executed \in [Clients -> Nat]

Quiet(c) == toServer[c] = <<>> /\ toClient[c] = <<>>

\* The thread handles no request of this client, or is through with one.
Idle == {"none", "read", "unlock"}

\* A client has at most one message under way, and it belongs to the line it is at.
InStep(c) ==
  /\ client[c] = "start" => thread[c] = "none" /\ Quiet(c)
  /\ client[c] = "next" => thread[c] \in Idle /\ Quiet(c)
  /\ client[c] = "wait" =>
       \/ thread[c] \in Idle /\ Quiet(c)
       \/ thread[c] \in Idle /\ toServer[c] = <<line[c]>> /\ toClient[c] = <<>>
       \/ thread[c] \in {"lock", "dispatch"} /\ Quiet(c) /\ request[c] = line[c]
       \/ thread[c] \in {"read", "unlock"} /\ toServer[c] = <<>> /\ toClient[c] = <<line[c]>>
  /\ client[c] = "closed" =>
       /\ toClient[c] = <<>>
       /\ toServer[c] = <<>> \/ (toServer[c] = <<line[c]>> /\ thread[c] \in Idle)

\* A connection is reset only when nothing is left to be handled on it.
ResetLate(c) ==
  reset[c] => /\ client[c] = "closed"
              /\ toServer[c] = <<>>
              /\ thread[c] \in {"read", "unlock", "exited"}

\* Who waits to be accepted has connected, once, and has no thread yet.
Queued ==
  /\ \A i, j \in 1 .. Len(backlog) : backlog[i] = backlog[j] => i = j
  /\ \A i \in 1 .. Len(backlog) :
       /\ client[backlog[i]] # "start"
       /\ thread[backlog[i]] = "none"
       /\ backlog[i] # conn
  /\ \A c \in Clients : client[c] = "start" => c # conn /\ thread[c] = "none"

SessionInv ==
  /\ Typed
  /\ \A c \in Clients : InStep(c) /\ ResetLate(c)
  /\ Queued
  /\ OneHandler

-----------------------------------------------------------------------------
\* A stream with one message.
LEMMA OneMessage ==
  ASSUME NEW x \in Nat
  PROVE  /\ Append(<<>>, x) = <<x>> /\ <<x>> \in Seq(Nat) /\ <<x>> # <<>>
         /\ Head(<<x>>) = x /\ Tail(<<x>>) = <<>>
  OBVIOUS

LEMMA SessionStart == ASSUME Init PROVE SessionInv
  <1>1. Typed
    <2>1. reset \in [Clients -> BOOLEAN]
      BY DEF Init
    <2>2. line \in [Clients -> Nat] /\ request \in [Clients -> Nat] /\ executed \in [Clients -> Nat]
      BY DEF Init
    <2>3. toServer \in [Clients -> Seq(Nat)] /\ toClient \in [Clients -> Seq(Nat)]
      BY DEF Init
    <2> QED BY <2>1, <2>2, <2>3 DEF Init, Typed
  <1>2. \A c \in Clients : InStep(c)
    BY DEF Init, InStep, Quiet
  <1>3. \A c \in Clients : ResetLate(c)
    BY DEF Init, ResetLate
  <1>4. Queued /\ OneHandler
    BY SessionAssumption DEF Init, Queued, OneHandler
  <1> QED BY <1>1, <1>2, <1>3, <1>4 DEF SessionInv

-----------------------------------------------------------------------------
\* One step of a client, of its thread or of main; PROVE is over all actions.
LEMMA TypedKept == ASSUME Typed, Next PROVE Typed'
  <1> USE DEF Typed, clientVars, netVars, serverVars
  <1>1. ASSUME NEW c \in Clients, Connect(c) PROVE Typed'
    BY <1>1 DEF Connect
  <1>2. ASSUME NEW c \in Clients, DispatchLine(c) PROVE Typed'
    BY <1>2, SMTT(20) DEF DispatchLine
  <1>3. ASSUME NEW c \in Clients, GetResponse(c) PROVE Typed'
    BY <1>3, SMTT(20) DEF GetResponse
  <1>4. ASSUME NEW c \in Clients, Close(c) PROVE Typed'
    BY <1>4 DEF Close
  <1>5. ASSUME NEW c \in Clients, Die(c) PROVE Typed'
    <2>1. reset' \in [Clients -> BOOLEAN]
      BY <1>5 DEF Die
    <2> QED BY <1>5, <2>1 DEF Die
  <1>6. ASSUME NEW c \in Clients, Read(c) PROVE Typed'
    <2>1. toServer[c] \in Seq(Nat) /\ toServer[c] # <<>>
      BY <1>6 DEF Read
    <2>2. Head(toServer[c]) \in Nat /\ Tail(toServer[c]) \in Seq(Nat)
      BY <2>1
    <2> QED BY <1>6, <2>2 DEF Read
  <1>7. ASSUME NEW c \in Clients, Lock(c) PROVE Typed'
    BY <1>7 DEF Lock
  <1>8. ASSUME NEW c \in Clients, DispatchCode(c) PROVE Typed'
    <2>1. reset' \in [Clients -> BOOLEAN]
      BY <1>8 DEF DispatchCode
    <2> QED BY <1>8, <2>1 DEF DispatchCode
  <1>9. ASSUME NEW c \in Clients, Unlock(c) PROVE Typed'
    BY <1>9 DEF Unlock
  <1>10. ASSUME NEW c \in Clients, EndOfFile(c) PROVE Typed'
    BY <1>10 DEF EndOfFile
  <1>11. CASE Accept
    BY <1>11, SMTT(20) DEF Accept
  <1>12. CASE Join
    BY <1>12 DEF Join
  <1> QED BY <1>1, <1>2, <1>3, <1>4, <1>5, <1>6, <1>7, <1>8, <1>9, <1>10, <1>11, <1>12
          DEF Next, ClientStep, ThreadStep

\* What InStep and ResetLate say of a client depends on these only.
LEMMA Bystander ==
  ASSUME NEW d \in Clients, InStep(d), ResetLate(d),
         line'[d] = line[d], client'[d] = client[d], thread'[d] = thread[d],
         toServer'[d] = toServer[d], toClient'[d] = toClient[d],
         reset'[d] = reset[d], request'[d] = request[d]
  PROVE  InStep(d)' /\ ResetLate(d)'
  BY DEF InStep, ResetLate, Quiet

\* The actions of the client itself.
LEMMA ClientInStep ==
  ASSUME SessionInv, NEW c \in Clients, ClientStep(c) \/ Die(c), NEW d \in Clients
  PROVE  InStep(d)' /\ ResetLate(d)'
  <1> USE DEF SessionInv, Typed, clientVars, netVars, serverVars
  <1>0. InStep(c) /\ ResetLate(c) /\ InStep(d) /\ ResetLate(d)
    OBVIOUS
  <1>1. CASE d # c
    BY <1>0, <1>1, Bystander
       DEF ClientStep, Connect, DispatchLine, GetResponse, Close, Die
  <1>2. CASE d = c /\ Connect(c)
    BY <1>0, <1>2 DEF Connect, InStep, ResetLate, Quiet, Idle
  <1>3. CASE d = c /\ DispatchLine(c)
    <2>1. toServer[c] = <<>> /\ Append(<<>>, line[c]) = <<line[c]>>
      BY <1>0, <1>3, OneMessage DEF DispatchLine, InStep, Quiet
    <2> QED BY <1>0, <1>3, <2>1 DEF DispatchLine, InStep, ResetLate, Quiet, Idle
  <1>4. CASE d = c /\ GetResponse(c)
    <2>1. toClient[c] = <<line[c]>> /\ Tail(toClient[c]) = <<>>
      BY <1>0, <1>4, OneMessage, ZenonT(30) DEF GetResponse, InStep, Quiet
    <2> QED BY <1>0, <1>4, <2>1 DEF GetResponse, InStep, ResetLate, Quiet, Idle
  <1>5. CASE d = c /\ Close(c)
    BY <1>0, <1>5 DEF Close, InStep, ResetLate, Quiet, Idle
  <1>6. CASE d = c /\ Die(c)
    <2>1. reset'[c] = (toClient[c] # <<>>)
      BY <1>6 DEF Die
    <2>2. InStep(c)'
      BY <1>0, <1>6 DEF Die, InStep, Quiet, Idle
    <2>3. ResetLate(c)'
      BY <1>0, <1>6, <2>1 DEF Die, InStep, ResetLate, Quiet
    <2> QED BY <1>6, <2>2, <2>3
  <1> QED BY <1>1, <1>2, <1>3, <1>4, <1>5, <1>6 DEF ClientStep

\* The actions of the client's thread.
LEMMA ThreadInStep ==
  ASSUME SessionInv, NEW c \in Clients, ThreadStep(c), NEW d \in Clients
  PROVE  InStep(d)' /\ ResetLate(d)'
  <1> USE DEF SessionInv, Typed, clientVars, netVars, serverVars
  <1>0. InStep(c) /\ ResetLate(c) /\ InStep(d) /\ ResetLate(d)
    OBVIOUS
  <1>1. CASE d # c
    BY <1>0, <1>1, Bystander
       DEF ThreadStep, Read, Lock, DispatchCode, Unlock, EndOfFile
  <1>2. CASE d = c /\ Read(c)
    <2>1. client[c] \in {"wait", "closed"} /\ toServer[c] = <<line[c]>> /\ toClient[c] = <<>>
      BY <1>0, <1>2, OneMessage DEF Read, InStep, Quiet, Idle
    <2>2. Head(toServer[c]) = line[c] /\ Tail(toServer[c]) = <<>>
      BY <2>1, OneMessage
    <2>3. request'[c] = line'[c] /\ toServer'[c] = <<>> /\ toClient'[c] = <<>>
      BY <1>2, <2>1, <2>2 DEF Read
    <2>4. thread'[c] = "lock" /\ client'[c] = client[c] /\ reset'[c] = reset[c]
      BY <1>2 DEF Read
    <2>5. ~reset[c]
      BY <1>0, <2>1, OneMessage DEF ResetLate
    <2>6. InStep(c)'
      BY <2>1, <2>3, <2>4 DEF InStep, Quiet
    <2>7. ResetLate(c)'
      BY <2>4, <2>5 DEF ResetLate
    <2> QED BY <1>2, <2>6, <2>7
  <1>3. CASE d = c /\ Lock(c)
    BY <1>0, <1>3 DEF Lock, InStep, ResetLate, Quiet, Idle
  <1>4. CASE d = c /\ DispatchCode(c)
    <2>1. toServer[c] = <<>> /\ toClient[c] = <<>> /\ client[c] \in {"wait", "closed"}
      BY <1>0, <1>4 DEF DispatchCode, InStep, Quiet, Idle
    <2>2. client[c] = "wait" => request[c] = line[c]
      BY <1>0, <1>4 DEF DispatchCode, InStep, Quiet, Idle
    <2>3. toServer'[c] = <<>> /\ client'[c] = client[c] /\ line'[c] = line[c]
          /\ thread'[c] = "unlock"
      BY <1>4, <2>1 DEF DispatchCode
    <2>4. CASE client[c] = "wait"
      <3>1. toClient'[c] = <<line[c]>>
        BY <1>4, <2>1, <2>2, <2>4, OneMessage DEF DispatchCode
      <3>2. ~reset'[c]
        BY <1>4, <2>4 DEF DispatchCode
      <3>3. InStep(c)'
        BY <2>3, <2>4, <3>1 DEF InStep, Quiet
      <3> QED BY <1>4, <3>2, <3>3 DEF ResetLate
    <2>5. CASE client[c] = "closed"
      <3>1. toClient'[c] = <<>>
        BY <1>4, <2>1, <2>5 DEF DispatchCode
      <3>2. InStep(c)'
        BY <2>3, <2>5, <3>1 DEF InStep, Quiet
      <3>3. ResetLate(c)'
        BY <2>3, <2>5 DEF ResetLate
      <3> QED BY <1>4, <3>2, <3>3
    <2> QED BY <2>1, <2>4, <2>5
  <1>5. CASE d = c /\ Unlock(c)
    BY <1>0, <1>5 DEF Unlock, InStep, ResetLate, Quiet, Idle
  <1>6. CASE d = c /\ EndOfFile(c)
    BY <1>0, <1>6 DEF EndOfFile, InStep, ResetLate, Quiet, Idle
  <1> QED BY <1>1, <1>2, <1>3, <1>4, <1>5, <1>6 DEF ThreadStep

\* The actions of the server's main.
LEMMA MainInStep ==
  ASSUME SessionInv, Accept \/ Join, NEW d \in Clients
  PROVE  InStep(d)' /\ ResetLate(d)'
  <1> USE DEF SessionInv, Typed, clientVars, netVars, serverVars
  <1>0. InStep(d) /\ ResetLate(d)
    OBVIOUS
  <1>1. CASE Join
    BY <1>0, <1>1, Bystander DEF Join
  <1>2. CASE Accept /\ d # Head(backlog)
    BY <1>0, <1>2, Bystander DEF Accept
  <1>3. CASE Accept /\ d = Head(backlog)
    <2>1. 1 \in 1 .. Len(backlog) /\ backlog[1] = d
      BY <1>3, LenProperties, EmptySeq DEF Accept
    <2>2. thread[d] = "none" /\ client[d] # "start"
      BY <2>1 DEF Queued
    <2>3. thread'[d] = "read"
      BY <1>3 DEF Accept
    <2>4. InStep(d)'
      BY <1>0, <1>3, <2>2, <2>3 DEF Accept, InStep, Quiet, Idle
    <2>5. ResetLate(d)'
      BY <1>0, <1>3, <2>2, <2>3 DEF Accept, ResetLate
    <2> QED BY <2>4, <2>5
  <1> QED BY <1>1, <1>2, <1>3

-----------------------------------------------------------------------------
LEMMA BacklogEntries ==
  ASSUME Typed
  PROVE  Len(backlog) \in Nat /\ \A k \in 1 .. Len(backlog) : backlog[k] \in Clients
  BY LenProperties, ElementOfSeq DEF Typed

\* Steps that neither move the backlog nor let a client or a thread begin.
LEMMA QueuedFrame ==
  ASSUME Queued, Typed, backlog' = backlog, conn' = conn,
         \A c \in Clients : client'[c] = "start" <=> client[c] = "start",
         \A c \in Clients : thread'[c] = "none" <=> thread[c] = "none"
  PROVE  Queued'
  <1>1. \A i \in 1 .. Len(backlog) : backlog[i] \in Clients
    BY BacklogEntries
  <1> QED BY <1>1 DEF Queued

\* A new last entry, and the entries that follow the first.
LEMMA AppendedEntries ==
  ASSUME NEW S, NEW s \in Seq(S), NEW e \in S, NEW i \in 1 .. Len(Append(s, e))
  PROVE  \/ i \in 1 .. Len(s) /\ Append(s, e)[i] = s[i]
         \/ i = Len(s) + 1 /\ Append(s, e)[i] = e
  <1>1. Len(s) \in Nat /\ Len(Append(s, e)) = Len(s) + 1
    BY LenProperties, AppendProperties
  <1>2. i \in 1 .. Len(s) \/ i = Len(s) + 1
    BY <1>1
  <1> QED BY <1>2, AppendProperties

LEMMA TailEntries ==
  ASSUME NEW S, NEW s \in Seq(S), s # <<>>, NEW i \in 1 .. Len(Tail(s))
  PROVE  i + 1 \in 1 .. Len(s) /\ i + 1 # 1 /\ Tail(s)[i] = s[i + 1]
  <1>1. Len(s) \in Nat /\ Len(Tail(s)) = Len(s) - 1
    BY LenProperties, HeadTailProperties
  <1>2. i + 1 \in 1 .. Len(s) /\ i + 1 # 1
    BY <1>1
  <1> QED BY <1>2, HeadTailProperties

LEMMA QueuedKept == ASSUME SessionInv, Next PROVE Queued'
  <1> USE DEF SessionInv, Typed, clientVars, netVars, serverVars
  <1>1. ASSUME NEW c \in Clients, Connect(c) PROVE Queued'
    <2>1. \A i \in 1 .. Len(backlog) : backlog[i] # c
      BY <1>1 DEF Connect, Queued
    <2>2. c # conn /\ thread[c] = "none" /\ client'[c] = "next"
      BY <1>1 DEF Connect, Queued
    <2>3. /\ backlog' = Append(backlog, c) /\ conn' = conn /\ thread' = thread
          /\ \A d \in Clients : client'[d] = "start" => client[d] = "start"
      BY <1>1 DEF Connect
    <2>4. ASSUME NEW i \in 1 .. Len(backlog')
          PROVE  \/ i \in 1 .. Len(backlog) /\ backlog'[i] = backlog[i]
                 \/ i = Len(backlog) + 1 /\ backlog'[i] = c
      BY <2>3, <2>4, AppendedEntries
    <2>5. ASSUME NEW i \in 1 .. Len(backlog'), NEW j \in 1 .. Len(backlog'),
                 backlog'[i] = backlog'[j]
          PROVE  i = j
      BY <2>1, <2>4, <2>5, ZenonT(30) DEF Queued
    <2>6. \A i, j \in 1 .. Len(backlog') : backlog'[i] = backlog'[j] => i = j
      BY <2>5
    <2>7. ASSUME NEW i \in 1 .. Len(backlog')
          PROVE  /\ client'[backlog'[i]] # "start"
                 /\ thread'[backlog'[i]] = "none"
                 /\ backlog'[i] # conn'
      <3>1. CASE backlog'[i] = c
        BY <2>2, <2>3, <3>1
      <3>2. CASE i \in 1 .. Len(backlog) /\ backlog'[i] = backlog[i]
        <4>1. backlog[i] \in Clients
          BY <3>2, BacklogEntries
        <4> QED BY <2>3, <3>2, <4>1 DEF Queued
      <3> QED BY <2>4, <3>1, <3>2
    <2> QED BY <2>2, <2>3, <2>6, <2>7 DEF Queued
  <1>2. ASSUME NEW c \in Clients, DispatchLine(c) \/ GetResponse(c) \/ Close(c) \/ Die(c)
        PROVE  Queued'
    BY <1>2, QueuedFrame DEF DispatchLine, GetResponse, Close, Die
  <1>3. ASSUME NEW c \in Clients, ThreadStep(c) PROVE Queued'
    BY <1>3, QueuedFrame
       DEF ThreadStep, Read, Lock, DispatchCode, Unlock, EndOfFile
  <1>4. CASE Accept
    <2>1. /\ backlog # <<>> /\ backlog' = Tail(backlog) /\ conn' = Head(backlog)
          /\ client' = client
          /\ thread' = [thread EXCEPT ![Head(backlog)] = "read"]
      BY <1>4 DEF Accept
    <2>2. /\ Len(backlog) \in Nat /\ Len(backlog) # 0 /\ Head(backlog) = backlog[1]
          /\ \A i \in 1 .. Len(backlog) : backlog[i] \in Clients
      BY <2>1, BacklogEntries, EmptySeq
    <2>3. ASSUME NEW i \in 1 .. Len(backlog')
          PROVE  i + 1 \in 1 .. Len(backlog) /\ i + 1 # 1 /\ backlog'[i] = backlog[i + 1]
      BY <2>1, <2>3, TailEntries
    <2>4. 1 \in 1 .. Len(backlog)
      BY <2>2
    <2>5. ASSUME NEW i \in 1 .. Len(backlog'), NEW j \in 1 .. Len(backlog'),
                 backlog'[i] = backlog'[j]
          PROVE  i = j
      <3>1. backlog[i + 1] = backlog[j + 1]
        BY <2>3, <2>5
      <3>2. i + 1 \in 1 .. Len(backlog) /\ j + 1 \in 1 .. Len(backlog)
        BY <2>3
      <3>3. i + 1 = j + 1
        BY <3>1, <3>2 DEF Queued
      <3> QED BY <3>3
    <2>6. \A i \in 1 .. Len(backlog') : backlog'[i] # conn'
      BY <2>1, <2>2, <2>3, <2>4 DEF Queued
    <2>7. ASSUME NEW i \in 1 .. Len(backlog')
          PROVE  client'[backlog'[i]] # "start" /\ thread'[backlog'[i]] = "none"
      <3>1. /\ client[backlog[i + 1]] # "start" /\ thread[backlog[i + 1]] = "none"
            /\ backlog[i + 1] \in Clients
        BY <2>2, <2>3 DEF Queued
      <3>2. backlog'[i] # Head(backlog)
        BY <2>1, <2>6
      <3> QED BY <2>1, <2>3, <3>1, <3>2
    <2>8. client[backlog[1]] # "start"
      BY <2>4 DEF Queued
    <2>9. \A c \in Clients : client'[c] = "start" => c # conn' /\ thread'[c] = "none"
      BY <2>1, <2>2, <2>8 DEF Queued
    <2> QED BY <2>5, <2>6, <2>7, <2>9 DEF Queued
  <1>5. CASE Join
    BY <1>5, BacklogEntries, SessionAssumption DEF Join, Queued
  <1> QED BY <1>1, <1>2, <1>3, <1>4, <1>5 DEF Next, ClientStep

LEMMA OneHandlerKept == ASSUME SessionInv, Next PROVE OneHandler'
  <1> USE DEF SessionInv, Typed, OneHandler, clientVars, netVars, serverVars
  <1>1. ASSUME NEW c \in Clients, ClientStep(c) \/ Die(c) PROVE OneHandler'
    BY <1>1 DEF ClientStep, Connect, DispatchLine, GetResponse, Close, Die
  <1>2. ASSUME NEW c \in Clients, ThreadStep(c) PROVE OneHandler'
    BY <1>2 DEF ThreadStep, Read, Lock, DispatchCode, Unlock, EndOfFile
  <1>3. CASE Accept
    <2>1. Head(backlog) \in Clients
      BY <1>3 DEF Accept
    <2> QED BY <1>3, <2>1, SessionAssumption DEF Accept
  <1>4. CASE Join
    BY <1>4 DEF Join
  <1> QED BY <1>1, <1>2, <1>3, <1>4 DEF Next

-----------------------------------------------------------------------------
(***************************************************************************)
(* SessionInv holds in every state: types, at most one message under way   *)
(* for each client, resets only behind the last request, the backlog and   *)
(* the one connection that is served (client.c 559-564, server.c 843-872,  *)
(* 1111-1138).                                                             *)
(***************************************************************************)
THEOREM SessionInvariance == Spec => []SessionInv
  <1>1. Init => SessionInv
    BY SessionStart
  <1>2. SessionInv /\ [Next]_vars => SessionInv'
    <2>1. ASSUME SessionInv, Next PROVE SessionInv'
      <3>1. \A d \in Clients : InStep(d)' /\ ResetLate(d)'
        BY <2>1, ClientInStep, ThreadInStep, MainInStep DEF Next
      <3>2. Typed' /\ Queued' /\ OneHandler'
        BY <2>1, TypedKept, QueuedKept, OneHandlerKept DEF SessionInv
      <3> QED BY <3>1, <3>2 DEF SessionInv
    <2>2. ASSUME SessionInv, UNCHANGED vars PROVE SessionInv'
      BY <2>2 DEF SessionInv, vars, clientVars, netVars, serverVars, Typed, InStep,
                  ResetLate, Quiet, Queued, OneHandler
    <2> QED BY <2>1, <2>2
  <1> QED BY <1>1, <1>2, PTL DEF Spec

(***************************************************************************)
(* Handlers run one at a time, for any number of clients: pthread_join     *)
(* right after pthread_create (server.c 1129, 1136).                       *)
(***************************************************************************)
THEOREM HandlersOneAtATime == Spec => []OneHandler
  <1>1. SessionInv => OneHandler
    BY DEF SessionInv
  <1> QED BY <1>1, SessionInvariance, PTL

(***************************************************************************)
(* The reply that a client reads next is always the one to the line it is  *)
(* at, although replies carry no number (client.c getResponse).            *)
(***************************************************************************)
THEOREM RepliesFollowRequests == Spec => []RepliesInStep
  <1>1. ASSUME SessionInv PROVE RepliesInStep
    BY <1>1 DEF SessionInv, Typed, InStep, Quiet, RepliesInStep
  <1> QED BY <1>1, SessionInvariance, PTL

(***************************************************************************)
(* Wherever clients are killed, the server never sends on a connection     *)
(* that has been reset, which would end it by SIGPIPE (server.c 859).      *)
(***************************************************************************)
THEOREM NeverSendsOnReset == Spec => []NoBrokenPipe
  <1>1. ASSUME SessionInv PROVE NoBrokenPipe
    BY <1>1 DEF SessionInv, ResetLate, NoBrokenPipe
  <1> QED BY <1>1, SessionInvariance, PTL

(***************************************************************************)
(* The sessions are served one at a time and in the order of arrival, and  *)
(* commands run only for the client that is served: VoteSessions           *)
(* implements SerialSessions, with backlog and conn for waiting and        *)
(* serving (server.c 843-872, 1111-1138).                                  *)
(***************************************************************************)
THEOREM SessionsAreSerial == Spec => SerialSpec
  <1> DEFINE svars == <<backlog, conn, executed>>
  <1>1. Init => Serial!Init
    BY DEF Init, Serial!Init
  <1>2. ASSUME SessionInv, Next PROVE Serial!Next \/ UNCHANGED svars
    <2> USE DEF clientVars, netVars, serverVars
    <2>1. ASSUME NEW c \in Clients, Connect(c) PROVE Serial!Next
      <3>1. \A i \in 1 .. Len(backlog) : backlog[i] # c
        BY <1>2, <2>1 DEF Connect, SessionInv, Queued
      <3>2. DOMAIN backlog = 1 .. Len(backlog)
        BY <1>2, LenProperties DEF SessionInv, Typed
      <3>3. c # conn
        BY <1>2, <2>1 DEF Connect, SessionInv, Queued
      <3>4. Serial!Arrive(c)
        BY <2>1, <3>1, <3>2, <3>3 DEF Connect, Serial!Arrive
      <3> QED BY <3>4 DEF Serial!Next
    <2>2. ASSUME NEW c \in Clients, DispatchCode(c) PROVE Serial!Next
      <3>1. conn = c
        BY <1>2, <2>2 DEF DispatchCode, SessionInv, OneHandler
      <3>2. Serial!Execute
        BY <2>2, <3>1 DEF DispatchCode, Serial!Execute
      <3> QED BY <3>2 DEF Serial!Next
    <2>3. CASE Accept
      BY <2>3 DEF Accept, Serial!Begin, Serial!Next
    <2>4. CASE Join
      BY <2>4 DEF Join, Serial!End, Serial!Next
    <2>5. ASSUME NEW c \in Clients,
                 DispatchLine(c) \/ GetResponse(c) \/ Close(c) \/ Die(c)
          PROVE  UNCHANGED svars
      BY <2>5 DEF DispatchLine, GetResponse, Close, Die
    <2>6. ASSUME NEW c \in Clients, Read(c) \/ Lock(c) \/ Unlock(c) \/ EndOfFile(c)
          PROVE  UNCHANGED svars
      BY <2>6 DEF Read, Lock, Unlock, EndOfFile
    <2> QED BY <1>2, <2>1, <2>2, <2>3, <2>4, <2>5, <2>6 DEF Next, ClientStep, ThreadStep
  <1>3. UNCHANGED vars => UNCHANGED svars
    BY DEF vars, serverVars
  <1>4. SessionInv /\ [Next]_vars => [Serial!Next]_svars
    BY <1>2, <1>3
  <1> QED BY <1>1, <1>4, SessionInvariance, PTL DEF Spec, SerialSpec, Serial!Spec

-----------------------------------------------------------------------------
\* The commands before the line a client is at, and whether it is at a command.
Done(c) == {k \in 1 .. line[c] - 1 : script[c][k] = "command"}
Command(c) == line[c] <= Len(script[c]) /\ script[c][line[c]] = "command"

\* A request of the client is on its way or in its thread's hands.
Pending(c) == toServer[c] # <<>> \/ thread[c] \in {"lock", "dispatch"}

\* What has been executed for a client, in each of its states.
Counted(c) ==
  /\ line[c] \in 1 .. Len(script[c]) + 1
  /\ client[c] \in {"start", "next"} => executed[c] = Cardinality(Done(c))
  /\ client[c] = "wait" =>
       /\ line[c] <= Len(script[c])
       /\ Pending(c) \/ toClient[c] # <<>> => Command(c)
       /\ executed[c] = Cardinality(Done(c)) + (IF toClient[c] # <<>> THEN 1 ELSE 0)
  /\ client[c] = "closed" =>
       /\ Pending(c) => Command(c) /\ executed[c] = Cardinality(Done(c))
       /\ executed[c] <= Cardinality(Done(c)) + (IF Command(c) THEN 1 ELSE 0)

CountInv ==
  /\ script \in [Clients -> Seq({"command", "other"})]
  /\ mutex \in Clients \cup {Nobody}
  /\ \A c \in Clients : Counted(c)

\* The lines before a line, and one line more.
LEMMA DoneCount ==
  ASSUME NEW c \in Clients, line[c] \in Nat \ {0}
  PROVE  /\ Cardinality(Done(c)) \in Nat
         /\ Cardinality(Done(c)) <= line[c] - 1
  <1>1. IsFiniteSet(1 .. line[c] - 1) /\ Cardinality(1 .. line[c] - 1) = line[c] - 1
    <2> DEFINE last == line[c] - 1
    <2>1. last \in Nat
      OBVIOUS
    <2> HIDE DEF last
    <2>2. IsFiniteSet(1 .. last) /\ Cardinality(1 .. last) = last
      BY <2>1, FS_Interval
    <2> QED BY <2>2 DEF last
  <1>2. Done(c) \subseteq 1 .. line[c] - 1
    BY DEF Done
  <1> QED BY <1>1, <1>2, FS_Subset, FS_CardinalityType

LEMMA DoneNext ==
  ASSUME NEW c \in Clients, line[c] \in Nat \ {0}, line'[c] = line[c] + 1,
         script' = script, Command(c)
  PROVE  Cardinality(Done(c)') = Cardinality(Done(c)) + 1
  <1>1. Done(c)' = Done(c) \cup {line[c]} /\ line[c] \notin Done(c)
    BY DEF Done, Command
  <1>2. IsFiniteSet(Done(c))
    <2>1. IsFiniteSet(1 .. line[c] - 1) /\ Done(c) \subseteq 1 .. line[c] - 1
      BY FS_Interval DEF Done
    <2> QED BY <2>1, FS_Subset
  <1> QED BY <1>1, <1>2, FS_AddElement

\* What Counted says of a client depends on these only.
LEMMA CountBystander ==
  ASSUME NEW d \in Clients, Counted(d), script' = script,
         line'[d] = line[d], client'[d] = client[d], thread'[d] = thread[d],
         toServer'[d] = toServer[d], toClient'[d] = toClient[d], executed'[d] = executed[d]
  PROVE  Counted(d)'
  BY DEF Counted, Done, Command, Pending

LEMMA CountStart == ASSUME Init PROVE CountInv
  <1>1. script \in [Clients -> Seq({"command", "other"})]
    BY SessionAssumption DEF Init
  <1>2. ASSUME NEW c \in Clients PROVE Counted(c)
    <2>1. Len(script[c]) \in Nat
      BY <1>1, LenProperties
    <2>2. line[c] = 1 /\ client[c] = "start" /\ executed[c] = 0
      BY DEF Init
    <2>3. Done(c) = {}
      BY <2>2 DEF Done
    <2> QED BY <2>1, <2>2, <2>3, FS_EmptySet DEF Counted
  <1> QED BY <1>1, <1>2 DEF Init, CountInv

\* The client's own steps: a reply moves it one line on.
LEMMA ClientCounted ==
  ASSUME SessionInv, CountInv, NEW c \in Clients, ClientStep(c) \/ Die(c)
  PROVE  Counted(c)'
  <1> USE DEF clientVars, netVars, serverVars
  <1>0. /\ Counted(c) /\ InStep(c) /\ ResetLate(c) /\ Len(script[c]) \in Nat
        /\ line[c] \in Nat /\ executed[c] \in Nat /\ Cardinality(Done(c)) \in Nat
    <2>1. Counted(c) /\ InStep(c) /\ ResetLate(c) /\ Len(script[c]) \in Nat
      BY LenProperties DEF SessionInv, CountInv
    <2>2. line[c] \in Nat \ {0} /\ executed[c] \in Nat
      BY <2>1 DEF SessionInv, Typed, Counted
    <2> QED BY <2>1, <2>2, DoneCount
  <1>1. CASE Connect(c)
    BY <1>0, <1>1 DEF Connect, Counted, Done, SessionInv, Typed
  <1>2. CASE DispatchLine(c)
    <2>1. Quiet(c) /\ thread[c] \in Idle
      BY <1>0, <1>2 DEF DispatchLine, InStep
    <2>2. client'[c] = "wait" /\ Command(c)' = Command(c) /\ Done(c)' = Done(c)
      BY <1>2 DEF DispatchLine, Command, Done, SessionInv, Typed
    <2>3. ~Command(c) => toServer'[c] = <<>>
      BY <1>2, <2>1 DEF DispatchLine, Command, Quiet
    <2>4. Pending(c)' => Command(c)
      BY <1>2, <2>1, <2>3 DEF DispatchLine, Pending, Idle
    <2> QED BY <1>0, <1>2, <2>1, <2>2, <2>4 DEF DispatchLine, Counted, Quiet
  <1>3. CASE GetResponse(c)
    <2>1. Command(c) /\ executed[c] = Cardinality(Done(c)) + 1 /\ line[c] <= Len(script[c])
      BY <1>0, <1>3 DEF GetResponse, Counted
    <2>2. line'[c] = line[c] + 1 /\ client'[c] = "next"
      BY <1>3 DEF GetResponse, SessionInv, Typed
    <2>3. Cardinality(Done(c)') = Cardinality(Done(c)) + 1
      BY <1>0, <1>3, <2>1, <2>2, DoneNext DEF GetResponse, Counted
    <2> QED BY <1>0, <1>3, <2>1, <2>2, <2>3 DEF GetResponse, Counted
  <1>4. CASE Close(c)
    <2>1. ~Pending(c)
      BY <1>0, <1>4 DEF Close, InStep, Pending, Quiet, Idle
    <2> QED BY <1>0, <1>4, <2>1 DEF Close, Counted, Done, Command, Pending, SessionInv, Typed
  <1>5. CASE Die(c)
    <2>1. Pending(c) => toClient[c] = <<>>
      BY <1>0, <1>5 DEF Die, InStep, Pending, Quiet, Idle
    <2>2. client[c] = "next" => ~Pending(c)
      BY <1>0, <1>5 DEF Die, InStep, Pending, Quiet, Idle
    <2>3. client'[c] = "closed" /\ Pending(c)' = Pending(c) /\ Command(c)' = Command(c)
          /\ Done(c)' = Done(c)
      BY <1>5 DEF Die, Pending, Command, Done, SessionInv, Typed
    <2> QED BY <1>0, <1>5, <2>1, <2>2, <2>3 DEF Die, Counted
  <1> QED BY <1>1, <1>2, <1>3, <1>4, <1>5 DEF ClientStep

\* The thread's steps: only a dispatch executes, and it is of a pending command.
LEMMA ThreadCounted ==
  ASSUME SessionInv, CountInv, NEW c \in Clients, ThreadStep(c)
  PROVE  Counted(c)'
  <1> USE DEF clientVars, netVars, serverVars
  <1>0. /\ Counted(c) /\ InStep(c) /\ Len(script[c]) \in Nat
        /\ line[c] \in Nat /\ executed[c] \in Nat /\ Cardinality(Done(c)) \in Nat
    <2>1. Counted(c) /\ InStep(c) /\ Len(script[c]) \in Nat
      BY LenProperties DEF SessionInv, CountInv
    <2>2. line[c] \in Nat \ {0} /\ executed[c] \in Nat
      BY <2>1 DEF SessionInv, Typed, Counted
    <2> QED BY <2>1, <2>2, DoneCount
  <1>1. ASSUME Read(c) \/ Lock(c) \/ Unlock(c) \/ EndOfFile(c) PROVE Counted(c)'
    <2>1. Pending(c)' => Pending(c)
      BY <1>1 DEF Read, Lock, Unlock, EndOfFile, Pending, SessionInv, Typed
    <2>2. /\ line'[c] = line[c] /\ client'[c] = client[c] /\ toClient'[c] = toClient[c]
          /\ executed'[c] = executed[c] /\ script' = script
      BY <1>1 DEF Read, Lock, Unlock, EndOfFile
    <2>3. Done(c)' = Done(c) /\ Command(c)' = Command(c)
      BY <2>2 DEF Done, Command
    <2> QED BY <1>0, <2>1, <2>2, <2>3 DEF Counted
  <1>2. CASE DispatchCode(c)
    <2>1. Pending(c) /\ client[c] \in {"wait", "closed"} /\ Quiet(c)
      BY <1>0, <1>2 DEF DispatchCode, Pending, InStep, Quiet, Idle, SessionInv, Typed
    <2>2. Command(c) /\ executed[c] = Cardinality(Done(c))
      BY <1>0, <2>1 DEF Counted, Quiet
    <2>3. /\ line' = line /\ client' = client /\ script' = script /\ toServer' = toServer
          /\ executed'[c] = executed[c] + 1 /\ thread'[c] = "unlock"
      BY <1>2 DEF DispatchCode, SessionInv, Typed
    <2>4. Done(c)' = Done(c) /\ Command(c)' = Command(c) /\ ~Pending(c)'
      BY <2>1, <2>3 DEF Done, Command, Pending, Quiet
    <2>5. client[c] = "wait" => toClient'[c] # <<>>
      <3>1. client[c] = "wait" => toClient'[c] = Append(toClient[c], request[c])
        BY <1>2 DEF DispatchCode, SessionInv, Typed
      <3> QED BY <2>1, <3>1, OneMessage DEF SessionInv, Typed, Quiet
    <2> QED BY <1>0, <2>1, <2>2, <2>3, <2>4, <2>5 DEF Counted
  <1> QED BY <1>1, <1>2 DEF ThreadStep

LEMMA CountKept == ASSUME SessionInv, CountInv, Next PROVE CountInv'
  <1> USE DEF clientVars, netVars, serverVars
  <1>1. ASSUME NEW c \in Clients, ClientStep(c) \/ Die(c), NEW d \in Clients, d # c
        PROVE  Counted(d)'
    BY <1>1, CountBystander
       DEF ClientStep, Connect, DispatchLine, GetResponse, Close, Die, CountInv, SessionInv, Typed
  <1>2. ASSUME NEW c \in Clients, ThreadStep(c), NEW d \in Clients, d # c
        PROVE  Counted(d)'
    BY <1>2, CountBystander
       DEF ThreadStep, Read, Lock, DispatchCode, Unlock, EndOfFile, CountInv, SessionInv, Typed
  <1>3. ASSUME Accept \/ Join, NEW d \in Clients PROVE Counted(d)'
    <2>1. Pending(d)' => Pending(d)
      BY <1>3 DEF Accept, Join, Pending, SessionInv, Typed
    <2>2. /\ line' = line /\ client' = client /\ toClient' = toClient
          /\ executed' = executed /\ script' = script
      BY <1>3 DEF Accept, Join
    <2>3. Done(d)' = Done(d) /\ Command(d)' = Command(d)
      BY <2>2 DEF Done, Command
    <2>4. Counted(d)
      BY DEF CountInv
    <2> QED BY <2>1, <2>2, <2>3, <2>4 DEF Counted
  <1>4. \A d \in Clients : Counted(d)'
    BY <1>1, <1>2, <1>3, ClientCounted, ThreadCounted DEF Next
  <1>5. script' = script /\ mutex' \in Clients \cup {Nobody}
    BY DEF Next, ClientStep, Connect, DispatchLine, GetResponse, Close, Die, ThreadStep,
           Read, Lock, DispatchCode, Unlock, EndOfFile, Accept, Join, CountInv
  <1> QED BY <1>4, <1>5 DEF CountInv

LEMMA CountInvariance == Spec => []CountInv
  <1>1. SessionInv /\ CountInv /\ [Next]_vars => CountInv'
    <2>1. ASSUME SessionInv, CountInv, UNCHANGED vars PROVE CountInv'
      BY <2>1 DEF vars, clientVars, netVars, serverVars, CountInv, Counted, Done, Command, Pending
    <2> QED BY <2>1, CountKept
  <1> QED BY <1>1, CountStart, SessionInvariance, PTL DEF Spec

(***************************************************************************)
(* Between two commands of a client every command line before the one it   *)
(* is at has been executed exactly once, for any number of clients and     *)
(* whatever becomes of the others (client.c 559-564, server.c 843-872).    *)
(***************************************************************************)
THEOREM CommandsExecutedOnce == Spec => []ExecutedOnce
  <1>1. CountInv => ExecutedOnce
    BY DEF CountInv, Counted, Done, ExecutedOnce
  <1> QED BY <1>1, CountInvariance, PTL

\* Types, and no client is ever served more requests than its file has lines.
THEOREM SessionTyping == Spec => []TypeOK
  <1>1. ASSUME SessionInv, CountInv PROVE TypeOK
    <2>1. ASSUME NEW c \in Clients
          PROVE  /\ line[c] \in Nat \ {0} /\ line[c] <= Len(script[c]) + 1
                 /\ executed[c] <= Len(script[c])
      <3>1. Counted(c) /\ Len(script[c]) \in Nat /\ executed[c] \in Nat /\ line[c] \in Nat
            /\ client[c] \in {"start", "next", "wait", "closed"}
        BY <1>1, LenProperties DEF SessionInv, Typed, CountInv
      <3>2. line[c] \in Nat \ {0} /\ line[c] <= Len(script[c]) + 1
        BY <3>1 DEF Counted
      <3>3. Cardinality(Done(c)) \in Nat /\ Cardinality(Done(c)) <= line[c] - 1
        BY <3>2, DoneCount
      <3>4. Command(c) => line[c] <= Len(script[c])
        BY DEF Command
      <3> QED BY <3>1, <3>2, <3>3, <3>4 DEF Counted
    <2>2. line \in [Clients -> Nat \ {0}]
      BY <1>1, <2>1 DEF SessionInv, Typed
    <2>3. reset \in [Clients -> BOOLEAN]
      BY <1>1 DEF SessionInv, Typed
    <2> QED BY <1>1, <2>1, <2>2, <2>3 DEF SessionInv, Typed, CountInv, TypeOK
  <1> QED BY <1>1, SessionInvariance, CountInvariance, PTL

=============================================================================
