--------------------------- MODULE GSoapServer_proofs ---------------------------
(***************************************************************************)
(* Proofs about GSoapServer, for every set of clients, every queue length  *)
(* and every bound on the kills.                                           *)
(*                                                                         *)
(* The safety properties of GSoapServer are not inductive: whether a       *)
(* second response is possible depends on what the worker still has to do  *)
(* with the connection.  IInv says so for each place in the worker.        *)
(***************************************************************************)
EXTENDS GSoapServer, SequenceTheorems, TLAPS

USE DEF Services, Kinds, MainStates, Serving, Unbound, WorkerStates, Listening

\* Places of the worker at which nothing of a request is left.
Clean == Unbound \cup {"context", "poll", "blocked"}

\* Places of the worker that hold a connection with no response yet.
Unanswered == {"header", "device", "media", "ptz", "unknown"}

\* What the bindings asked so far leave open about the operation.
StillPossible(p) == CASE p = "device"  -> {"device", "media", "ptz", "unknown"}
                      [] p = "media"   -> {"media", "ptz", "unknown"}
                      [] p = "ptz"     -> {"ptz", "unknown"}
                      [] p = "unknown" -> {"unknown"}

\* The main thread: a process that is down has no worker, and the worker is
\* told to end only by a main that waits for it.
MainInv ==
    /\ main = "down" => pc = "none"
    /\ endWork => main = "stopping"

\* What the worker holds of the current request, place by place.
HoldInv ==
    /\ pc \in Clean => arena = {} /\ socket = NoConn /\ file = NoConn
    /\ pc = "begin" => arena = {}
    /\ file # NoConn => pc \in {"header", "copy"}
    /\ pc = "cleanup" => socket = NoConn

\* How many responses the connection being served has had, place by place.
ReplyInv ==
    /\ \A c \in Clients : replies[c] <= 1
    /\ \A c \in Clients : conn[c] = "queued" => replies[c] = 0
    /\ pc \in Unanswered => socket # NoConn
    /\ pc \in Unanswered \cup {"begin"} /\ socket # NoConn => replies[socket] = 0
    /\ pc = "copy" => socket # NoConn /\ replies[socket] = 1
    /\ pc = "fault" /\ socket # NoConn =>
         \/ error = "eof"
         \/ error = "fault" /\ replies[socket] = 0
         \/ error = "stop" /\ replies[socket] = 1

\* The bindings are asked in turn, and the worker ends for a reason.
DispatchInv ==
    /\ pc \in Services \cup {"unknown"} => request[socket] \in StillPossible(pc)
    /\ EndsForAReason
    /\ ~ctxValid => socket = NoConn /\ pc \in Unbound \cup {"context", "unwind"}

IInv ==
    /\ TypeOK
    /\ MainInv
    /\ OpenIsServed
    /\ QueueExact
    /\ HoldInv
    /\ ReplyInv
    /\ DispatchInv

-----------------------------------------------------------------------------
(* Type correctness. *)

\* The initial states have the right types.
LEMMA InitTypeOK == Init => TypeOK
<1> SUFFICES ASSUME Init PROVE TypeOK
  OBVIOUS
<1>1. ctxValid \in BOOLEAN /\ failVal \in BOOLEAN /\ endWork \in BOOLEAN
      /\ failed \in BOOLEAN
  BY ContextsAssumption, Zenon DEF Init
<1>2. kills \in 0 .. MaxKills
  BY MaxKillsAssumption DEF Init
<1> QED
  BY <1>1, <1>2 DEF Init, TypeOK

\* The end of the process resets everything to a value of its type.
LEMMA ProcessEndsTypeOK ==
  TypeOK /\ ProcessEnds /\ kills' \in 0 .. MaxKills => TypeOK'
<1> SUFFICES ASSUME TypeOK, ProcessEnds, kills' \in 0 .. MaxKills PROVE TypeOK'
  OBVIOUS
<1>1. ctxValid' \in BOOLEAN /\ failVal' \in BOOLEAN /\ endWork' \in BOOLEAN
      /\ failed' \in BOOLEAN
  BY Zenon DEF ProcessEnds, TypeOK
<1>2. main' \in MainStates /\ pc' \in WorkerStates
  BY DEF ProcessEnds
<1> QED
  BY <1>1, <1>2 DEF ProcessEnds, FreeSoap, TypeOK

\* No step leaves the types.
LEMMA NextTypeOK == TypeOK /\ [Next]_vars => TypeOK'
<1> SUFFICES ASSUME TypeOK, [Next]_vars PROVE TypeOK'
  OBVIOUS
<1> USE ClientsAssumption, MaxKillsAssumption, ContextsAssumption
    DEF TypeOK, mainVars, soapVars, clientVars
<1>1. ASSUME NEW c \in Clients, NEW k \in Kinds, Connect(c, k) PROVE TypeOK'
  BY <1>1 DEF Connect
<1>2. CASE Construct
  <2>1. CASE Bind
    BY <2>1 DEF Bind
  <2>2. CASE BindFails
    BY <2>2, ProcessEndsTypeOK DEF BindFails
  <2>3. CASE CheckServiceCtx
    BY <2>3 DEF CheckServiceCtx, LoopTop
  <2> QED BY <1>2, <2>1, <2>2, <2>3 DEF Construct
<1>3. CASE Poll \/ AcceptFails
  BY <1>3 DEF Poll, AcceptFails
<1>4. CASE AcceptConnection
  <2>1. Head(backlog) \in Clients /\ Tail(backlog) \in Seq(Clients)
    BY <1>4 DEF AcceptConnection
  <2> QED BY <1>4, <2>1 DEF AcceptConnection
<1>5. CASE Begin
  BY <1>5 DEF Begin, BeginWithoutConnection, BeginOperation, BeginGarbled, BeginGet
<1>6. CASE CopyHeader
  BY <1>6 DEF CopyHeader, Answer
<1>7. CASE CopyBlocks
  BY <1>7 DEF CopyBlocks
<1>8. ASSUME NEW s \in Services, DispatchServes(s) PROVE TypeOK'
  BY <1>8 DEF DispatchServes, Answer, CloseSocket
<1>9. ASSUME NEW s \in Services, DispatchPasses(s) PROVE TypeOK'
  BY <1>9 DEF DispatchPasses, After
<1>10. CASE SendFault
  BY <1>10 DEF SendFault, Answer, CloseSocket
<1>11. CASE UnknownService \/ Cleanup
  BY <1>11 DEF UnknownService, Cleanup, LoopTop
<1>12. CASE DestroyInstance
  BY <1>12 DEF DestroyInstance, FreeSoap
<1>13. CASE Boot
  BY <1>13 DEF Boot
<1>14. CASE CheckHealthy \/ CheckFailed \/ SleepEnds \/ Interrupt
  <2>1. CASE CheckHealthy
    BY <2>1 DEF CheckHealthy
  <2>2. CASE CheckFailed
    BY <2>2 DEF CheckFailed
  <2>3. CASE SleepEnds
    BY <2>3 DEF SleepEnds
  <2>4. CASE Interrupt
    BY <2>4 DEF Interrupt
  <2> QED BY <1>14, <2>1, <2>2, <2>3, <2>4
<1>15. CASE Joined \/ Killed
  <2>1. kills' \in 0 .. MaxKills
    BY <1>15 DEF Joined, Killed
  <2> QED BY <1>15, <2>1, ProcessEndsTypeOK DEF Joined, Killed
<1>16. CASE UNCHANGED vars
  BY <1>16 DEF vars
<1> QED
  BY <1>1, <1>2, <1>3, <1>4, <1>5, <1>6, <1>7, <1>8, <1>9, <1>10, <1>11, <1>12,
     <1>13, <1>14, <1>15, <1>16
  DEF Next, Worker, Serve, Dispatch, Main

\* Every variable keeps its type.
THEOREM TypeCorrect == Spec => []TypeOK
  BY InitTypeOK, NextTypeOK, PTL DEF Spec

-----------------------------------------------------------------------------
(* The inductive invariant: the initial states. *)

\* The initial states satisfy the strengthened invariant.
LEMMA InitIInv == Init => IInv
<1> SUFFICES ASSUME Init PROVE IInv
  OBVIOUS
<1>1. TypeOK
  BY InitTypeOK
<1>2. MainInv
  BY Zenon DEF Init, MainInv
<1>3. OpenIsServed
  BY ClientsAssumption DEF Init, OpenIsServed
<1>4. QueueExact
  BY DEF Init, QueueExact
<1>5. HoldInv
  BY DEF Init, HoldInv
<1>6. ReplyInv
  BY DEF Init, ReplyInv, Unanswered
<1>7. DispatchInv
  BY DEF Init, DispatchInv, EndsForAReason
<1> QED
  BY <1>1, <1>2, <1>3, <1>4, <1>5, <1>6, <1>7 DEF IInv

-----------------------------------------------------------------------------
(* The inductive invariant: the main thread. *)

\* A worker runs only in a process that runs, and is told to end only by a
\* main that waits for it.
LEMMA MainStep == TypeOK /\ MainInv /\ [Next]_vars => MainInv'
<1> SUFFICES ASSUME TypeOK, MainInv, [Next]_vars PROVE MainInv'
  OBVIOUS
<1> USE DEF MainInv, mainVars
<1>1. ASSUME NEW c \in Clients, NEW k \in Kinds, Connect(c, k) PROVE MainInv'
  BY <1>1 DEF Connect
<1>2. CASE Construct
  BY <1>2 DEF Construct, Bind, BindFails, CheckServiceCtx, ProcessEnds
<1>3. CASE Poll \/ AcceptFails \/ AcceptConnection
  BY <1>3 DEF Poll, AcceptFails, AcceptConnection
<1>4. CASE Serve
  BY <1>4 DEF Serve, Begin, BeginWithoutConnection, BeginOperation, BeginGarbled,
     BeginGet, CopyHeader, CopyBlocks, Dispatch, DispatchServes, DispatchPasses,
     SendFault, UnknownService, Cleanup
<1>5. CASE DestroyInstance
  BY <1>5 DEF DestroyInstance
<1>6. CASE Boot
  BY <1>6 DEF Boot
<1>7. CASE CheckHealthy \/ CheckFailed
  BY <1>7 DEF CheckHealthy, CheckFailed
<1>8. CASE SleepEnds
  BY <1>8, Zenon DEF SleepEnds
<1>9. CASE Interrupt
  BY <1>9 DEF Interrupt
<1>10. CASE Joined \/ Killed
  BY <1>10 DEF Joined, Killed, ProcessEnds
<1>11. CASE UNCHANGED vars
  BY <1>11 DEF vars
<1> QED
  BY <1>1, <1>2, <1>3, <1>4, <1>5, <1>6, <1>7, <1>8, <1>9, <1>10, <1>11
  DEF Next, Worker, Main

-----------------------------------------------------------------------------
(* The inductive invariant: what the worker holds. *)

\* On every path through a request its memory, its socket and its file are
\* given back before the worker waits for the next.
LEMMA HoldStep == TypeOK /\ MainInv /\ HoldInv /\ [Next]_vars => HoldInv'
<1> SUFFICES ASSUME TypeOK, MainInv, HoldInv, [Next]_vars PROVE HoldInv'
  OBVIOUS
<1> USE ClientsAssumption DEF HoldInv, Clean, soapVars
<1>1. ASSUME NEW c \in Clients, NEW k \in Kinds, Connect(c, k) PROVE HoldInv'
  BY <1>1 DEF Connect
<1>2. CASE Construct
  BY <1>2 DEF Construct, Bind, BindFails, CheckServiceCtx, LoopTop, ProcessEnds, FreeSoap
<1>3. CASE Poll \/ AcceptFails
  BY <1>3 DEF Poll, AcceptFails
<1>4. CASE AcceptConnection
  BY <1>4 DEF AcceptConnection
<1>5. CASE Begin
  BY <1>5 DEF Begin, BeginWithoutConnection, BeginOperation, BeginGarbled, BeginGet
<1>6. CASE CopyHeader \/ CopyBlocks
  BY <1>6 DEF CopyHeader, CopyBlocks
<1>7. ASSUME NEW s \in Services, DispatchServes(s) \/ DispatchPasses(s) PROVE HoldInv'
  BY <1>7 DEF DispatchServes, DispatchPasses, After, CloseSocket
<1>8. CASE SendFault
  BY <1>8 DEF SendFault, CloseSocket
<1>9. CASE UnknownService \/ Cleanup
  BY <1>9 DEF UnknownService, Cleanup, LoopTop
<1>10. CASE DestroyInstance
  BY <1>10 DEF DestroyInstance, FreeSoap
<1>11. CASE Boot
  BY <1>11 DEF Boot, MainInv
<1>12. CASE Main
  BY <1>12 DEF Main, CheckHealthy, CheckFailed, SleepEnds, Interrupt, Joined,
     ProcessEnds, FreeSoap
<1>13. CASE Killed
  BY <1>13 DEF Killed, ProcessEnds, FreeSoap
<1>14. CASE UNCHANGED vars
  BY <1>14 DEF vars
<1> QED
  BY <1>1, <1>2, <1>3, <1>4, <1>5, <1>6, <1>7, <1>8, <1>9, <1>10, <1>11, <1>12,
     <1>13, <1>14
  DEF Next, Worker, Serve, Dispatch

-----------------------------------------------------------------------------
(* The inductive invariant: connections and the queue. *)

\* The accepted connections stay the one in soap->socket.
LEMMA ServedStep == IInv /\ [Next]_vars => OpenIsServed'
<1> SUFFICES ASSUME IInv, [Next]_vars PROVE OpenIsServed'
  OBVIOUS
<1> USE ClientsAssumption
    DEF IInv, TypeOK, MainInv, HoldInv, Clean, OpenIsServed, soapVars, clientVars
<1>1. ASSUME NEW c \in Clients, NEW k \in Kinds, Connect(c, k) PROVE OpenIsServed'
  BY <1>1 DEF Connect
<1>2. CASE Construct
  BY <1>2 DEF Construct, Bind, BindFails, CheckServiceCtx, ProcessEnds, FreeSoap
<1>3. CASE Poll \/ AcceptFails
  BY <1>3 DEF Poll, AcceptFails
<1>4. CASE AcceptConnection
  <2>1. Head(backlog) \in Clients
    BY <1>4 DEF AcceptConnection
  <2> QED BY <1>4, <2>1 DEF AcceptConnection
<1>5. CASE Begin
  BY <1>5 DEF Begin, BeginWithoutConnection, BeginOperation, BeginGarbled, BeginGet
<1>6. CASE CopyHeader \/ CopyBlocks
  BY <1>6 DEF CopyHeader, CopyBlocks
<1>7. ASSUME NEW s \in Services, DispatchServes(s) \/ DispatchPasses(s)
      PROVE OpenIsServed'
  BY <1>7 DEF DispatchServes, DispatchPasses, CloseSocket
<1>8. CASE SendFault
  BY <1>8 DEF SendFault, CloseSocket
<1>9. CASE UnknownService \/ Cleanup
  BY <1>9 DEF UnknownService, Cleanup
<1>10. CASE DestroyInstance
  BY <1>10 DEF DestroyInstance, FreeSoap
<1>11. CASE Boot
  BY <1>11 DEF Boot
<1>12. CASE Main
  BY <1>12 DEF Main, CheckHealthy, CheckFailed, SleepEnds, Interrupt, Joined,
     ProcessEnds, FreeSoap
<1>13. CASE Killed
  BY <1>13 DEF Killed, ProcessEnds, FreeSoap
<1>14. CASE UNCHANGED vars
  BY <1>14 DEF vars
<1> QED
  BY <1>1, <1>2, <1>3, <1>4, <1>5, <1>6, <1>7, <1>8, <1>9, <1>10, <1>11, <1>12,
     <1>13, <1>14
  DEF Next, Worker, Serve, Dispatch

\* What Append and Tail do to a queue, element by element.
LEMMA QueueOperators ==
  ASSUME NEW q \in Seq(Clients), NEW c \in Clients
  PROVE  /\ DOMAIN q = 1 .. Len(q)
         /\ DOMAIN Append(q, c) = 1 .. Len(q) + 1
         /\ \A i \in 1 .. Len(q) : Append(q, c)[i] = q[i]
         /\ Append(q, c)[Len(q) + 1] = c
         /\ q # <<>> => /\ Len(q) > 0
                        /\ Head(q) = q[1]
                        /\ DOMAIN Tail(q) = 1 .. Len(q) - 1
                        /\ \A i \in 1 .. Len(q) - 1 : Tail(q)[i] = q[i + 1]
  OBVIOUS

\* A connection joins the queue when it starts to wait, and only once.
LEMMA ConnectQueue ==
  ASSUME IInv, NEW c \in Clients, NEW k \in Kinds, Connect(c, k)
  PROVE  QueueExact'
<1> USE DEF IInv, TypeOK
<1> DEFINE n == Len(backlog)
<1>1. /\ n \in Nat
      /\ DOMAIN backlog = 1 .. n
      /\ DOMAIN backlog' = 1 .. n + 1
      /\ \A i \in 1 .. n : backlog'[i] = backlog[i]
      /\ backlog'[n + 1] = c
  BY QueueOperators DEF Connect
<1>2. \A i \in 1 .. n : backlog[i] # c
  BY <1>1 DEF Connect, QueueExact
<1>3. \A d \in Clients :
         conn'[d] = "queued" <=> \E i \in DOMAIN backlog' : backlog'[i] = d
  <2> TAKE d \in Clients
  <2>1. CASE d = c
    <3>1. n + 1 \in DOMAIN backlog'
      BY <1>1
    <3> QED BY <2>1, <3>1, <1>1 DEF Connect
  <2>2. CASE d # c
    <3>1. conn'[d] = conn[d]
      BY <2>2 DEF Connect
    <3>2. conn[d] = "queued" <=> \E i \in 1 .. n : backlog[i] = d
      BY <1>1 DEF QueueExact
    <3>3. ASSUME NEW i \in 1 .. n + 1, backlog'[i] = d
          PROVE  i \in 1 .. n /\ backlog[i] = d
      <4>1. i # n + 1
        BY <1>1, <2>2, <3>3
      <4>2. i \in 1 .. n
        BY <1>1, <4>1
      <4> QED BY <1>1, <3>3, <4>2
    <3>4. ASSUME NEW i \in 1 .. n, backlog[i] = d
          PROVE  i \in 1 .. n + 1 /\ backlog'[i] = d
      <4>1. i \in 1 .. n + 1
        BY <1>1
      <4> QED BY <1>1, <3>4, <4>1
    <3> HIDE DEF n
    <3> QED BY <1>1, <3>1, <3>2, <3>3, <3>4
  <2> QED BY <2>1, <2>2
<1>4. \A i, j \in DOMAIN backlog' : backlog'[i] = backlog'[j] => i = j
  <2>1. \A i, j \in 1 .. n : backlog[i] = backlog[j] => i = j
    BY <1>1 DEF QueueExact
  <2> QED BY <1>1, <1>2, <2>1
<1>5. Listening'
  BY DEF Connect
<1> QED BY <1>3, <1>4, <1>5 DEF QueueExact

\* The connection that is accepted leaves the queue, and no other does.
LEMMA AcceptQueue ==
  ASSUME IInv, AcceptConnection
  PROVE  QueueExact'
<1> USE DEF IInv, TypeOK
<1> DEFINE n == Len(backlog)
           h == Head(backlog)
<1>1. h \in Clients /\ n \in Nat
  BY DEF AcceptConnection
<1>2. /\ n > 0
      /\ DOMAIN backlog = 1 .. n
      /\ DOMAIN backlog' = 1 .. n - 1
      /\ \A i \in 1 .. n - 1 : backlog'[i] = backlog[i + 1]
      /\ h = backlog[1]
  BY <1>1, QueueOperators DEF AcceptConnection
<1>3. \A i, j \in 1 .. n : backlog[i] = backlog[j] => i = j
  BY <1>2 DEF QueueExact
<1>4. \A d \in Clients :
         conn'[d] = "queued" <=> \E i \in DOMAIN backlog' : backlog'[i] = d
  <2> TAKE d \in Clients
  <2>1. CASE d = h
    <3>1. conn'[d] = "open"
      BY <1>1, <2>1 DEF AcceptConnection
    <3>2. \A i \in 1 .. n - 1 : backlog'[i] # d
      BY <1>1, <1>2, <1>3, <2>1
    <3> QED BY <1>2, <3>1, <3>2
  <2>2. CASE d # h
    <3>1. conn'[d] = conn[d]
      BY <2>2 DEF AcceptConnection
    <3>2. conn[d] = "queued" <=> \E i \in 1 .. n : backlog[i] = d
      BY <1>2 DEF QueueExact
    <3>3. ASSUME NEW i \in 1 .. n, backlog[i] = d
          PROVE  \E j \in 1 .. n - 1 : backlog'[j] = d
      <4>1. i # 1
        BY <1>2, <2>2, <3>3
      <4>2. i - 1 \in 1 .. n - 1 /\ (i - 1) + 1 = i
        BY <1>1, <4>1
      <4>3. backlog'[i - 1] = d
        BY <1>2, <3>3, <4>2
      <4> QED BY <4>2, <4>3
    <3>4. ASSUME NEW i \in 1 .. n - 1, backlog'[i] = d
          PROVE  \E j \in 1 .. n : backlog[j] = d
      <4>1. i + 1 \in 1 .. n
        BY <1>1
      <4> QED BY <1>2, <3>4, <4>1
    <3> QED BY <1>2, <3>1, <3>2, <3>3, <3>4
  <2> QED BY <2>1, <2>2
<1>5. \A i, j \in DOMAIN backlog' : backlog'[i] = backlog'[j] => i = j
  <2> TAKE i, j \in DOMAIN backlog'
  <2>1. i + 1 \in 1 .. n /\ j + 1 \in 1 .. n /\ i \in Int /\ j \in Int
    BY <1>1, <1>2
  <2> QED BY <1>2, <1>3, <2>1
<1>6. Listening'
  BY DEF AcceptConnection
<1> QED BY <1>4, <1>5, <1>6 DEF QueueExact

\* The queue loses all its connections with its socket.
LEMMA EmptyQueue ==
  ASSUME backlog' = <<>>, conn' = [c \in Clients |-> "closed"]
  PROVE  QueueExact'
  BY DEF QueueExact

\* A step that neither takes a connection from the queue nor puts one there.
LEMMA SameQueue ==
  ASSUME IInv, backlog' = backlog, Listening => Listening',
         \A c \in Clients : conn'[c] = "queued" <=> conn[c] = "queued"
  PROVE  QueueExact'
  BY DEF IInv, QueueExact

\* Waiting connections and the queue stay in step.
LEMMA QueueStep == IInv /\ [Next]_vars => QueueExact'
<1> SUFFICES ASSUME IInv, [Next]_vars PROVE QueueExact'
  OBVIOUS
<1> USE DEF clientVars
<1>1. ASSUME NEW c \in Clients, NEW k \in Kinds, Connect(c, k) PROVE QueueExact'
  BY <1>1, ConnectQueue
<1>2. CASE Bind \/ CheckServiceCtx
  BY <1>2, SameQueue DEF Bind, CheckServiceCtx, LoopTop
<1>3. CASE BindFails \/ Joined \/ Killed \/ DestroyInstance
  BY <1>3, EmptyQueue DEF BindFails, Joined, Killed, DestroyInstance, ProcessEnds,
     FreeSoap
<1>4. CASE Poll \/ AcceptFails \/ Interrupt
  BY <1>4, SameQueue DEF Poll, AcceptFails, Interrupt
<1>5. CASE AcceptConnection
  BY <1>5, AcceptQueue
<1>6. CASE Begin \/ CopyHeader \/ CopyBlocks \/ UnknownService \/ Cleanup
  BY <1>6, SameQueue DEF Begin, BeginWithoutConnection, BeginOperation, BeginGarbled,
     BeginGet, CopyHeader, CopyBlocks, UnknownService, Cleanup, LoopTop
<1>7. ASSUME NEW s \in Services, DispatchServes(s) \/ DispatchPasses(s)
      PROVE QueueExact'
  <2>1. CASE DispatchServes(s)
    <3>1. \A c \in Clients : conn'[c] = "queued" <=> conn[c] = "queued"
      BY <2>1 DEF DispatchServes, CloseSocket, IInv, OpenIsServed
    <3> QED BY <2>1, <3>1, SameQueue DEF DispatchServes
  <2>2. CASE DispatchPasses(s)
    BY <2>2, SameQueue DEF DispatchPasses, After
  <2> QED BY <1>7, <2>1, <2>2
<1>8. CASE SendFault
  <2>1. \A c \in Clients : conn'[c] = "queued" <=> conn[c] = "queued"
    BY <1>8 DEF SendFault, CloseSocket, IInv, OpenIsServed
  <2> QED BY <1>8, <2>1, SameQueue DEF SendFault
<1>9. CASE Boot
  <2>1. ~Listening
    BY <1>9 DEF Boot, IInv, MainInv
  <2> QED BY <1>9, <2>1, SameQueue DEF Boot
<1>10. CASE CheckHealthy \/ CheckFailed \/ SleepEnds
  BY <1>10, SameQueue DEF CheckHealthy, CheckFailed, SleepEnds, mainVars
<1>11. CASE UNCHANGED vars
  BY <1>11, SameQueue DEF vars
<1> QED
  BY <1>1, <1>2, <1>3, <1>4, <1>5, <1>6, <1>7, <1>8, <1>9, <1>10, <1>11
  DEF Next, Worker, Construct, Serve, Dispatch, Main

-----------------------------------------------------------------------------
(* The inductive invariant: responses. *)

\* At each place of the worker the connection has had the responses that
\* ReplyInv says.
LEMMA ReplyStep == IInv /\ [Next]_vars => ReplyInv'
<1> SUFFICES ASSUME IInv, [Next]_vars PROVE ReplyInv'
  OBVIOUS
<1> USE ClientsAssumption
    DEF IInv, TypeOK, HoldInv, Clean, ReplyInv, Unanswered, OpenIsServed,
        soapVars, clientVars
<1>1. ASSUME NEW c \in Clients, NEW k \in Kinds, Connect(c, k) PROVE ReplyInv'
  <2>1. socket # c
    BY <1>1 DEF Connect
  <2> QED BY <1>1, <2>1 DEF Connect
<1>2. CASE Construct
  BY <1>2 DEF Construct, Bind, BindFails, CheckServiceCtx, LoopTop, ProcessEnds, FreeSoap
<1>3. CASE Poll \/ AcceptFails
  BY <1>3 DEF Poll, AcceptFails
<1>4. CASE AcceptConnection
  <2>1. Head(backlog) \in Clients /\ 1 \in DOMAIN backlog /\ backlog[1] = Head(backlog)
    BY <1>4, QueueOperators DEF AcceptConnection
  <2>2. conn[Head(backlog)] = "queued"
    BY <2>1 DEF QueueExact
  <2> QED BY <1>4, <2>1, <2>2 DEF AcceptConnection
<1>5. CASE Begin
  BY <1>5 DEF Begin, BeginWithoutConnection, BeginOperation, BeginGarbled, BeginGet
<1>6. CASE CopyHeader
  BY <1>6 DEF CopyHeader, Answer
<1>7. CASE CopyBlocks
  BY <1>7 DEF CopyBlocks
<1>8. ASSUME NEW s \in Services, DispatchServes(s) PROVE ReplyInv'
  <2>1. socket \in Clients /\ replies[socket] = 0 /\ conn[socket] = "open"
    BY <1>8 DEF DispatchServes
  <2>2. CASE error' = "ok" /\ Answer(socket) /\ CloseSocket
    <3>1. \A c \in Clients : replies'[c] = IF c = socket THEN 1 ELSE replies[c]
      BY <2>1, <2>2 DEF Answer
    <3>2. \A c \in Clients : conn'[c] = IF c = socket THEN "closed" ELSE conn[c]
      BY <2>2 DEF CloseSocket
    <3>3. pc' = "fault" /\ socket' = NoConn
      BY <1>8, <2>2 DEF DispatchServes, CloseSocket
    <3>4. \A c \in Clients : replies'[c] <= 1
      BY <3>1
    <3>5. \A c \in Clients : conn'[c] = "queued" => replies'[c] = 0
      BY <2>1, <3>1, <3>2
    <3> QED BY <3>3, <3>4, <3>5, Zenon
  <2>3. CASE error' \in {"fault", "eof"} /\ UNCHANGED <<replies, socket, conn>>
    BY <1>8, <2>1, <2>3 DEF DispatchServes
  <2> QED BY <1>8, <2>2, <2>3 DEF DispatchServes
<1>9. ASSUME NEW s \in Services, DispatchPasses(s) PROVE ReplyInv'
  BY <1>9 DEF DispatchPasses, After
<1>10. CASE SendFault
  <2>1. \A c \in Clients : conn'[c] = IF c = socket THEN "closed" ELSE conn[c]
    BY <1>10 DEF SendFault, CloseSocket
  <2>2. pc' = "cleanup" /\ socket' = NoConn
    BY <1>10 DEF SendFault, CloseSocket
  <2>3. CASE UNCHANGED replies
    BY <2>1, <2>2, <2>3
  <2>4. CASE error = "fault" /\ socket # NoConn /\ Answer(socket)
    <3>1. replies[socket] = 0
      BY <1>10, <2>4 DEF SendFault
    <3>2. \A c \in Clients : replies'[c] = IF c = socket THEN 1 ELSE replies[c]
      BY <2>4, <3>1 DEF Answer
    <3>3. \A c \in Clients : replies'[c] <= 1
      BY <3>2
    <3>4. \A c \in Clients : conn'[c] = "queued" => replies'[c] = 0
      BY <2>1, <2>4, <3>2
    <3> QED BY <2>2, <3>3, <3>4, Zenon
  <2> QED BY <1>10, <2>3, <2>4 DEF SendFault
<1>11. CASE UnknownService \/ Cleanup
  BY <1>11 DEF UnknownService, Cleanup, LoopTop
<1>12. CASE DestroyInstance
  BY <1>12 DEF DestroyInstance, FreeSoap
<1>13. CASE Boot
  BY <1>13 DEF Boot
<1>14. CASE Main
  BY <1>14 DEF Main, CheckHealthy, CheckFailed, SleepEnds, Interrupt, Joined,
     ProcessEnds, FreeSoap
<1>15. CASE Killed
  BY <1>15 DEF Killed, ProcessEnds, FreeSoap
<1>16. CASE UNCHANGED vars
  BY <1>16 DEF vars
<1> QED
  BY <1>1, <1>2, <1>3, <1>4, <1>5, <1>6, <1>7, <1>8, <1>9, <1>10, <1>11, <1>12,
     <1>13, <1>14, <1>15, <1>16
  DEF Next, Worker, Serve, Dispatch

-----------------------------------------------------------------------------
(* The inductive invariant: the end of the worker. *)

\* The worker reaches its end only for one of the reasons of EndsForAReason.
LEMMA DispatchStep == IInv /\ [Next]_vars => DispatchInv'
<1> SUFFICES ASSUME IInv, [Next]_vars PROVE DispatchInv'
  OBVIOUS
<1> USE ClientsAssumption
    DEF IInv, TypeOK, MainInv, HoldInv, Clean, ReplyInv, Unanswered, OpenIsServed,
        DispatchInv, EndsForAReason, StillPossible, mainVars, soapVars, clientVars
<1>1. ASSUME NEW c \in Clients, NEW k \in Kinds, Connect(c, k) PROVE DispatchInv'
  <2>1. socket # c
    BY <1>1 DEF Connect
  <2>2. socket # NoConn => request'[socket] = request[socket]
    BY <1>1, <2>1 DEF Connect
  <2> QED BY <1>1, <2>1, <2>2 DEF Connect
<1>2. CASE Construct
  BY <1>2 DEF Construct, Bind, BindFails, CheckServiceCtx, LoopTop, ProcessEnds, FreeSoap
<1>3. CASE Poll \/ AcceptFails
  BY <1>3 DEF Poll, AcceptFails
<1>4. CASE AcceptConnection
  BY <1>4 DEF AcceptConnection
<1>5. CASE Begin
  BY <1>5 DEF Begin, BeginWithoutConnection, BeginOperation, BeginGarbled, BeginGet
<1>6. CASE CopyHeader \/ CopyBlocks
  BY <1>6 DEF CopyHeader, CopyBlocks
<1>7. ASSUME NEW s \in Services, DispatchServes(s) PROVE DispatchInv'
  BY <1>7 DEF DispatchServes, CloseSocket
<1>8. ASSUME NEW s \in Services, DispatchPasses(s) PROVE DispatchInv'
  BY <1>8 DEF DispatchPasses, After
<1>9. CASE SendFault
  BY <1>9 DEF SendFault, CloseSocket
<1>10. CASE UnknownService
  BY <1>10 DEF UnknownService
<1>11. CASE Cleanup
  BY <1>11 DEF Cleanup, LoopTop
<1>12. CASE DestroyInstance
  BY <1>12 DEF DestroyInstance, FreeSoap
<1>13. CASE Boot
  BY <1>13 DEF Boot
<1>14. CASE Main
  BY <1>14 DEF Main, CheckHealthy, CheckFailed, SleepEnds, Interrupt, Joined,
     ProcessEnds, FreeSoap
<1>15. CASE Killed
  BY <1>15 DEF Killed, ProcessEnds, FreeSoap
<1>16. CASE UNCHANGED vars
  BY <1>16 DEF vars
<1> QED
  BY <1>1, <1>2, <1>3, <1>4, <1>5, <1>6, <1>7, <1>8, <1>9, <1>10, <1>11, <1>12,
     <1>13, <1>14, <1>15, <1>16
  DEF Next, Worker, Serve, Dispatch

-----------------------------------------------------------------------------
(* The theorems. *)

\* The strengthened invariant holds in every reachable state.
LEMMA Invariance == Spec => []IInv
<1>1. IInv /\ [Next]_vars => IInv'
  BY NextTypeOK, MainStep, HoldStep, ServedStep, QueueStep, ReplyStep, DispatchStep
  DEF IInv
<1> QED
  BY <1>1, InitIInv, PTL DEF Spec

\* No connection gets a second response.
THEOREM OneReplyHolds == Spec => []OneReply
<1>1. IInv => OneReply
  BY DEF IInv, ReplyInv, OneReply
<1> QED
  BY <1>1, Invariance, PTL

\* The accepted connections are exactly the one in soap->socket.
THEOREM OpenIsServedHolds == Spec => []OpenIsServed
<1>1. IInv => OpenIsServed
  BY DEF IInv
<1> QED
  BY <1>1, Invariance, PTL

\* A connection waits exactly when it is in the queue, once.
THEOREM QueueExactHolds == Spec => []QueueExact
<1>1. IInv => QueueExact
  BY DEF IInv
<1> QED
  BY <1>1, Invariance, PTL

\* Nothing of a request is left when the worker waits for the next.
THEOREM IdleIsCleanHolds == Spec => []IdleIsClean
<1>1. IInv => IdleIsClean
  BY DEF IInv, HoldInv, Clean, IdleIsClean
<1> QED
  BY <1>1, Invariance, PTL

\* Only a stop, an empty context or an operation nobody knows ends a worker.
THEOREM EndsForAReasonHolds == Spec => []EndsForAReason
<1>1. IInv => EndsForAReason
  BY DEF IInv, DispatchInv
<1> QED
  BY <1>1, Invariance, PTL

\* A server with an empty context serves nobody.
THEOREM EmptyContextServesNobodyHolds == Spec => []EmptyContextServesNobody
<1>1. IInv => EmptyContextServesNobody
  BY ClientsAssumption DEF IInv, DispatchInv, OpenIsServed, EmptyContextServesNobody
<1> QED
  BY <1>1, Invariance, PTL

-----------------------------------------------------------------------------
(* The action property. *)

\* The condition of NoSilentClose on one step.
SilentCloseOnlyFor(c) ==
    conn[c] = "open" /\ conn'[c] = "closed" /\ replies'[c] = 0 =>
        error' = "eof" \/ pc = "unwind" \/ main' = "down"

\* A step that leaves the connections alone closes none of them.
LEMMA SameConnections ==
  ASSUME NEW c \in Clients, conn' = conn
  PROVE  SilentCloseOnlyFor(c)
  BY Zenon DEF SilentCloseOnlyFor

\* No step closes a connection silently.
LEMMA SilentCloseStep ==
  ASSUME IInv, [Next]_vars, NEW c \in Clients
  PROVE  SilentCloseOnlyFor(c)
<1> USE ClientsAssumption DEF clientVars
<1>1. ASSUME NEW d \in Clients, NEW k \in Kinds, Connect(d, k)
      PROVE SilentCloseOnlyFor(c)
  BY <1>1 DEF Connect, SilentCloseOnlyFor, IInv, TypeOK
<1>2. CASE Bind \/ CheckServiceCtx \/ Poll \/ AcceptFails \/ Begin \/ CopyHeader
           \/ CopyBlocks \/ UnknownService \/ Cleanup
  <2>1. conn' = conn
    BY <1>2 DEF Bind, CheckServiceCtx, Poll, AcceptFails, Begin,
       BeginWithoutConnection, BeginOperation, BeginGarbled, BeginGet, CopyHeader,
       CopyBlocks, UnknownService, Cleanup
  <2> QED BY <2>1, SameConnections
<1>3. CASE BindFails \/ Joined \/ Killed
  BY <1>3 DEF BindFails, Joined, Killed, ProcessEnds, SilentCloseOnlyFor
<1>4. CASE DestroyInstance
  BY <1>4 DEF DestroyInstance, SilentCloseOnlyFor
<1>5. CASE AcceptConnection
  <2>1. conn[c] = "open" => conn'[c] = "open"
    BY <1>5 DEF AcceptConnection, IInv, TypeOK
  <2> QED BY <2>1 DEF SilentCloseOnlyFor
<1>6. ASSUME NEW s \in Services, DispatchServes(s) PROVE SilentCloseOnlyFor(c)
  <2>1. CASE UNCHANGED conn
    BY <2>1, SameConnections
  <2>2. CASE Answer(socket) /\ CloseSocket
    <3>1. conn[c] = "open" /\ conn'[c] = "closed" => c = socket
      BY <2>2 DEF CloseSocket
    <3>2. c = socket => replies'[c] # 0
      BY <2>2 DEF Answer, IInv, TypeOK
    <3> QED BY <3>1, <3>2 DEF SilentCloseOnlyFor
  <2> QED BY <1>6, <2>1, <2>2 DEF DispatchServes
<1>7. ASSUME NEW s \in Services, DispatchPasses(s) PROVE SilentCloseOnlyFor(c)
  BY <1>7, SameConnections DEF DispatchPasses
<1>8. CASE SendFault
  <2>1. conn[c] = "open" /\ conn'[c] = "closed" => c = socket /\ socket # NoConn
    BY <1>8 DEF SendFault, CloseSocket
  <2>2. CASE error = "fault" /\ socket # NoConn
    <3>1. c = socket /\ Answer(socket) => replies'[c] # 0
      BY DEF Answer, IInv, TypeOK
    <3> QED BY <1>8, <2>1, <2>2, <3>1 DEF SendFault, SilentCloseOnlyFor
  <2>3. CASE error # "fault" /\ socket # NoConn
    <3>1. error' = error /\ replies' = replies
      BY <1>8, <2>3 DEF SendFault
    <3>2. error = "eof" \/ replies[socket] = 1
      BY <1>8, <2>3 DEF SendFault, IInv, ReplyInv
    <3> QED BY <2>1, <3>1, <3>2 DEF SilentCloseOnlyFor
  <2> QED BY <2>1, <2>2, <2>3 DEF SilentCloseOnlyFor
<1>9. CASE Boot \/ CheckHealthy \/ CheckFailed \/ SleepEnds \/ Interrupt
  <2>1. conn' = conn
    BY <1>9 DEF Boot, CheckHealthy, CheckFailed, SleepEnds, Interrupt
  <2> QED BY <2>1, SameConnections
<1>10. CASE UNCHANGED vars
  BY <1>10, SameConnections DEF vars
<1> QED
  BY <1>1, <1>2, <1>3, <1>4, <1>5, <1>6, <1>7, <1>8, <1>9, <1>10
  DEF Next, Worker, Construct, Serve, Dispatch, Main

\* A connection under service is never closed without a response, but when
\* the client is gone, the worker is torn down or the process ends.
THEOREM NoSilentCloseHolds == Spec => NoSilentClose
<1>1. IInv /\ [Next]_vars =>
        [\A c \in Clients :
           conn[c] = "open" /\ conn'[c] = "closed" /\ replies'[c] = 0 =>
             error' = "eof" \/ pc = "unwind" \/ main' = "down"]_vars
  BY SilentCloseStep DEF SilentCloseOnlyFor
<1> QED
  BY <1>1, Invariance, PTL DEF Spec, NoSilentClose

-----------------------------------------------------------------------------
(* The refinement of OnvifPromise. *)

\* Every step of the daemon is a step of the promise, or none of it.
LEMMA PromiseStep ==
  ASSUME IInv, [Next]_vars
  PROVE  [Promise!Next]_(Promise!vars)
<1> USE ClientsAssumption DEF clientVars
<1> DEFINE Kept == UNCHANGED <<conn, backlog, replies>>
<1>0. Kept => UNCHANGED Promise!vars
  BY DEF Promise!vars
<1>1. ASSUME NEW c \in Clients, NEW k \in Kinds, Connect(c, k)
      PROVE Promise!Next
  BY <1>1 DEF Connect, Promise!Next, Promise!Arrive
<1>2. CASE Bind \/ CheckServiceCtx \/ Poll \/ AcceptFails \/ Begin
           \/ CopyBlocks \/ UnknownService \/ Cleanup
  <2>1. Kept
    BY <1>2 DEF Bind, CheckServiceCtx, Poll, AcceptFails, Begin,
       BeginWithoutConnection, BeginOperation, BeginGarbled, BeginGet,
       CopyBlocks, UnknownService, Cleanup
  <2> QED BY <1>0, <2>1
<1>3. CASE BindFails \/ Joined \/ Killed \/ DestroyInstance
  BY <1>3 DEF BindFails, Joined, Killed, DestroyInstance, ProcessEnds, FreeSoap,
     Promise!Next, Promise!GiveUp
<1>4. CASE AcceptConnection
  <2>1. \A c \in Clients : conn[c] # "open"
    BY <1>4 DEF AcceptConnection, IInv, HoldInv, Clean, OpenIsServed
  <2> QED BY <1>4, <2>1 DEF AcceptConnection, Promise!Next, Promise!Take
<1>5. CASE CopyHeader
  <2>1. CASE UNCHANGED replies
    BY <1>0, <1>5, <2>1 DEF CopyHeader
  <2>2. CASE Answer(socket)
    <3>1. socket \in Clients /\ replies[socket] = 0 /\ conn[socket] = "open"
      BY <1>5 DEF CopyHeader, IInv, TypeOK, ReplyInv, Unanswered, OpenIsServed
    <3>2. Promise!Reply(socket)
      BY <1>5, <2>2, <3>1 DEF CopyHeader, Answer, Promise!Reply
    <3> QED BY <3>1, <3>2 DEF Promise!Next
  <2> QED BY <1>5, <2>1, <2>2 DEF CopyHeader
<1>6. ASSUME CloseSocket, Answer(socket), backlog' = backlog,
             socket # NoConn, replies[socket] = 0
      PROVE  Promise!Next
  <2>1. socket \in Clients /\ conn[socket] = "open"
    BY <1>6 DEF IInv, TypeOK, OpenIsServed
  <2>2. conn' = [conn EXCEPT ![socket] = "closed"]
    BY <1>6, <2>1 DEF CloseSocket, IInv, TypeOK
  <2>3. Promise!Reply(socket)
    BY <1>6, <2>1, <2>2 DEF Answer, Promise!Reply
  <2> QED BY <2>1, <2>3 DEF Promise!Next
<1>7. ASSUME NEW s \in Services, DispatchServes(s)
      PROVE  [Promise!Next]_(Promise!vars)
  <2>1. socket # NoConn /\ replies[socket] = 0
    BY <1>7 DEF DispatchServes, IInv, ReplyInv, Unanswered
  <2>2. CASE UNCHANGED <<replies, socket, conn>>
    BY <1>0, <1>7, <2>2 DEF DispatchServes
  <2>3. CASE Answer(socket) /\ CloseSocket
    BY <1>6, <1>7, <2>1, <2>3 DEF DispatchServes
  <2> QED BY <1>7, <2>2, <2>3 DEF DispatchServes
<1>8. ASSUME NEW s \in Services, DispatchPasses(s)
      PROVE  [Promise!Next]_(Promise!vars)
  BY <1>0, <1>8 DEF DispatchPasses
<1>9. CASE SendFault
  <2>1. CASE error = "fault" /\ socket # NoConn /\ Answer(socket)
    <3>1. replies[socket] = 0
      BY <1>9, <2>1 DEF SendFault, IInv, ReplyInv
    <3> QED BY <1>6, <1>9, <2>1, <3>1 DEF SendFault
  <2>2. CASE UNCHANGED replies /\ socket # NoConn
    <3>1. socket \in Clients /\ conn[socket] = "open"
      BY <2>2 DEF IInv, TypeOK, OpenIsServed
    <3>2. conn' = [conn EXCEPT ![socket] = "closed"]
      BY <1>9, <3>1 DEF SendFault, CloseSocket, IInv, TypeOK
    <3>3. Promise!Close(socket)
      BY <1>9, <2>2, <3>1, <3>2 DEF SendFault, Promise!Close
    <3> QED BY <3>1, <3>3 DEF Promise!Next
  <2>3. CASE UNCHANGED replies /\ socket = NoConn
    <3>1. conn' = conn
      BY <1>9, <2>3 DEF SendFault, CloseSocket, IInv, TypeOK
    <3> QED BY <1>0, <1>9, <2>3, <3>1 DEF SendFault
  <2> QED BY <1>9, <2>1, <2>2, <2>3 DEF SendFault
<1>10. CASE Boot \/ CheckHealthy \/ CheckFailed \/ SleepEnds \/ Interrupt
  <2>1. Kept
    BY <1>10 DEF Boot, CheckHealthy, CheckFailed, SleepEnds, Interrupt
  <2> QED BY <1>0, <2>1
<1>11. CASE UNCHANGED vars
  BY <1>0, <1>11 DEF vars
<1> QED
  BY <1>1, <1>2, <1>3, <1>4, <1>5, <1>7, <1>8, <1>9, <1>10, <1>11
  DEF Next, Worker, Construct, Serve, Dispatch, Main

\* The daemon implements what its port promises.
THEOREM KeepsPromiseHolds == Spec => KeepsPromise
<1>1. Init => Promise!Init
  BY DEF Init, Promise!Init
<1>2. IInv /\ [Next]_vars => [Promise!Next]_(Promise!vars)
  BY PromiseStep
<1> QED
  BY <1>1, <1>2, Invariance, PTL DEF Spec, KeepsPromise, Promise!Spec

=============================================================================
