------------------------------ MODULE Daemon_proofs ------------------------------
(***************************************************************************)
(* Proofs about the whole process, for every number of streams and of      *)
(* clients: the worker in it is the one of GSoapServer, and has its port   *)
(* open only while the invariant of RtspLoops says that all streams serve. *)
(***************************************************************************)
EXTENDS Daemon, RtspLoops_proofs

\* What is proved of GSoapServer.
G == INSTANCE GSoapServer_proofs

\* main builds and destroys the streams when there is no worker, and is the
\* same thread in both modules.
OneMain ==
    /\ main # "down" => mpc = "serve"
    /\ main = "down" => pc = "none"

ProcessInv == IInv /\ OneMain

-----------------------------------------------------------------------------
(* The streams. *)

\* The streams of a process that is gone are as in the beginning.
LEMMA GoneIsInit == StreamsGone => Init'
  BY DEF StreamsGone, Init

\* A step of the process is one of RtspLoops, or ends with no streams.
LEMMA StreamsStep == ProcessNext => [Next]_vars \/ StreamsGone
<1>1. StreamsGoOn => UNCHANGED vars \/ StreamsGone
  BY DEF StreamsGoOn
<1>2. Main => [Next]_vars \/ StreamsGone
  BY <1>1 DEF Main, BuildStreams, StartWorker, StopWorker, DestroyStreams, ProcessEnds, Next
<1>3. Serve \/ Killed => UNCHANGED vars \/ StreamsGone
  BY <1>1 DEF Serve, Killed
<1>4. ASSUME NEW s \in Streams, StreamThread(s) PROVE Next
  BY <1>4 DEF StreamThread, Next
<1> QED BY <1>2, <1>3, <1>4 DEF ProcessNext

-----------------------------------------------------------------------------
(* The worker. *)

\* A step of the process is one of GSoapServer, or leaves the worker alone.
LEMMA WorkerStep == [ProcessNext]_processVars => [S!Next]_S!vars
<1> USE DEF S!vars, S!mainVars, S!soapVars, S!clientVars, soapVars
<1>1. ASSUME WorkerUnchanged PROVE UNCHANGED S!vars
  BY <1>1 DEF WorkerUnchanged
<1>2. Main => [S!Next]_S!vars
  BY <1>1 DEF Main, BuildStreams, StartWorker, StopWorker, DestroyStreams,
     ProcessEnds, S!Next, S!Main
<1>3. Serve => S!Next
  BY DEF Serve, Watch, S!Next, S!Main
<1>4. Killed => [S!Next]_S!vars
  BY DEF Killed, S!Next
<1>5. ASSUME NEW s \in Streams, StreamThread(s) PROVE UNCHANGED S!vars
  BY <1>1, <1>5 DEF StreamThread
<1>6. UNCHANGED processVars => UNCHANGED S!vars
  BY DEF processVars
<1> QED BY <1>2, <1>3, <1>4, <1>5, <1>6 DEF ProcessNext

\* The worker in the process behaves as GSoapServer says: what is proved of
\* GSoapServer holds in the process, whatever main does with the streams.
THEOREM WorkerInProcessHolds == Process => WorkerInProcess
<1>1. ProcessInit => S!Init
  BY DEF ProcessInit
<1> QED BY <1>1, WorkerStep, PTL DEF Process, WorkerInProcess, S!Spec

-----------------------------------------------------------------------------
(* The invariant of the process. *)

\* main builds or destroys only streams when it has no worker.
LEMMA OneMainStep == OneMain /\ [ProcessNext]_processVars => OneMain'
<1> SUFFICES ASSUME OneMain, [ProcessNext]_processVars PROVE OneMain'
  OBVIOUS
<1> USE DEF OneMain
<1>1. CASE BuildStreams
  <2>1. mpc # "serve" /\ main' = main /\ pc' = pc
    BY <1>1 DEF BuildStreams, Build, NewServer, GetMountPoints, NewFactory, Obtain,
       MoveAssign, DestroyTemporary, AddFactory, Attach, SetInput, StartThread,
       WorkerUnchanged, soapVars
  <2> QED BY <2>1
<1>2. CASE StartWorker
  BY <1>2 DEF StartWorker, S!Boot, StreamsGoOn, vars, mainVars
<1>3. CASE StopWorker
  BY <1>3 DEF StopWorker, S!Joined, S!ProcessEnds
<1>4. CASE DestroyStreams
  <2>1. mpc # "serve" /\ main' = main /\ pc' = pc
    BY <1>4 DEF DestroyStreams, Destroy, Quit, Join, Release, WorkerUnchanged, soapVars
  <2> QED BY <2>1
<1>5. CASE ProcessEnds
  <2>1. mpc # "serve" /\ main' = main /\ pc' = pc
    BY <1>5 DEF ProcessEnds, WorkerUnchanged, soapVars
  <2> QED BY <2>1
<1>6. ASSUME NEW c \in Clients, NEW k \in S!Kinds, S!Connect(c, k), StreamsGoOn
      PROVE  OneMain'
  BY <1>6 DEF S!Connect, S!mainVars, StreamsGoOn, vars, mainVars
<1>7. CASE (S!Worker \/ Watch) /\ StreamsGoOn
  <2>1. main # "down"
    BY <1>7 DEF Watch, S!CheckHealthy, S!CheckFailed, S!SleepEnds, S!Interrupt,
       S!Worker, S!Construct, S!Bind, S!BindFails, S!CheckServiceCtx, S!Poll,
       S!AcceptConnection, S!AcceptFails, S!Serve, S!Begin,
       S!BeginWithoutConnection, S!BeginOperation, S!BeginGarbled, S!BeginGet,
       S!CopyHeader, S!CopyBlocks, S!Dispatch, S!DispatchServes, S!DispatchPasses,
       S!SendFault, S!UnknownService, S!Cleanup, S!DestroyInstance, S!Services
  <2>2. main' = "down" => pc' = "none"
    BY <1>7, <2>1 DEF Watch, S!CheckHealthy, S!CheckFailed, S!SleepEnds, S!Interrupt,
       S!Worker, S!Construct, S!Bind, S!BindFails, S!CheckServiceCtx, S!Poll,
       S!AcceptConnection, S!AcceptFails, S!Serve, S!Begin,
       S!BeginWithoutConnection, S!BeginOperation, S!BeginGarbled, S!BeginGet,
       S!CopyHeader, S!CopyBlocks, S!Dispatch, S!DispatchServes, S!DispatchPasses,
       S!SendFault, S!UnknownService, S!Cleanup, S!DestroyInstance, S!Services,
       S!ProcessEnds, S!mainVars
  <2>3. main' # "down" => mpc' = mpc
    BY <1>7 DEF StreamsGoOn, vars, mainVars
  <2> QED BY <2>1, <2>2, <2>3
<1>8. CASE Killed
  BY <1>8 DEF Killed, S!Killed, S!ProcessEnds, soapVars
<1>9. ASSUME NEW s \in Streams, StreamThread(s) PROVE OneMain'
  <2>1. UNCHANGED <<main, pc, mpc>>
    BY <1>9 DEF StreamThread, Thread, CopyInput, Work, TakeOver, LeaveWaiting,
       LeaveOwner, mainVars, WorkerUnchanged, soapVars
  <2> QED BY <2>1
<1>10. CASE UNCHANGED processVars
  BY <1>10 DEF processVars, soapVars, vars, mainVars
<1> QED
  BY <1>1, <1>2, <1>3, <1>4, <1>5, <1>6, <1>7, <1>8, <1>9, <1>10
  DEF ProcessNext, Main, Serve

\* The invariant of the streams holds through the end of every process.
LEMMA ProcessInvariance == Process => []ProcessInv
<1>1. ProcessInit => ProcessInv
  BY InitIInv DEF ProcessInit, ProcessInv, OneMain, S!Init
<1>2. IInv /\ [Next]_vars => IInv'
  BY TypeStep, OwnerStep, InputStep, RunStep, OutliveStep, RefsStep DEF IInv, Shape
<1>3. StreamsGone => IInv'
  BY GoneIsInit, InitIInv, PTL
<1>4. ProcessInv /\ [ProcessNext]_processVars => ProcessInv'
  <2>1. UNCHANGED processVars => UNCHANGED vars
    BY DEF processVars
  <2> QED BY <1>2, <1>3, <2>1, StreamsStep, OneMainStep DEF ProcessInv
<1> QED BY <1>1, <1>4, PTL DEF Process

\* The port of the worker is open only while every stream is there, with its
\* thread and its objects.
THEOREM OpenPortHasStreamsHolds == Process => []OpenPortHasStreams
<1>1. ProcessInv => OpenPortHasStreams
  <2> SUFFICES ASSUME ProcessInv, S!Listening, NEW s \in Streams
               PROVE  /\ Alive(s) /\ worker[s] # "ended"
                      /\ \A o \in Objects : refs[s][o] > 0
    BY DEF OpenPortHasStreams
  <2>1. mpc = "serve"
    BY DEF ProcessInv, OneMain, S!Listening, S!Unbound
  <2>2. Alive(s) /\ ~Quitted(s)
    BY <2>1 DEF Alive, Quitted
  <2>3. worker[s] # "ended"
    BY <2>2 DEF ProcessInv, IInv, LoopsRun
  <2>4. \A o \in Objects : refs[s][o] > 0
    BY <2>2, CountsKeepAlive DEF ProcessInv, ObjectsLive
  <2> QED BY <2>2, <2>3, <2>4
<1> QED BY <1>1, ProcessInvariance, PTL

\* The threads and the objects of the streams are as RtspLoops says, in every
\* process that is started, however the one before it ended.
THEOREM StreamsSafeHolds == Process => []StreamsSafe
<1>1. ProcessInv => StreamsSafe
  BY CountsKeepAlive DEF ProcessInv, IInv, StreamsSafe
<1> QED BY <1>1, ProcessInvariance, PTL

-----------------------------------------------------------------------------
(* What is proved of GSoapServer, in the process. *)

\* The module of the proofs speaks of the same actions as Daemon.
LEMMA SameConstruct == (G!Construct <=> S!Construct) /\ (G!DestroyInstance <=> S!DestroyInstance)
BY DEF G!Construct, S!Construct, G!Bind, S!Bind, G!BindFails, S!BindFails,
   G!CheckServiceCtx, S!CheckServiceCtx, G!ProcessEnds, S!ProcessEnds, G!LoopTop,
   S!LoopTop, G!FreeSoap, S!FreeSoap, G!DestroyInstance, S!DestroyInstance,
   G!mainVars, S!mainVars, G!soapVars, S!soapVars, G!clientVars, S!clientVars

\* As above, for one call of work().
LEMMA SameWork ==
  /\ G!Poll <=> S!Poll
  /\ G!AcceptConnection <=> S!AcceptConnection
  /\ G!AcceptFails <=> S!AcceptFails
  /\ G!Serve <=> S!Serve
<1> USE DEF G!mainVars, S!mainVars, G!soapVars, S!soapVars, G!clientVars, S!clientVars
<1>1. /\ G!Poll <=> S!Poll
      /\ G!AcceptConnection <=> S!AcceptConnection
      /\ G!AcceptFails <=> S!AcceptFails
  BY DEF G!Poll, S!Poll, G!AcceptConnection, S!AcceptConnection, G!AcceptFails,
     S!AcceptFails
<1>2. G!Serve <=> S!Serve
  BY DEF G!Serve, S!Serve, G!Begin, S!Begin, G!BeginWithoutConnection,
     S!BeginWithoutConnection, G!BeginOperation, S!BeginOperation, G!BeginGarbled,
     S!BeginGarbled, G!BeginGet, S!BeginGet, G!CopyHeader, S!CopyHeader,
     G!CopyBlocks, S!CopyBlocks, G!Answer, S!Answer, G!CloseSocket, S!CloseSocket,
     G!Dispatch, S!Dispatch, G!DispatchServes, S!DispatchServes, G!DispatchPasses,
     S!DispatchPasses, G!After, S!After, G!Services, S!Services, G!SendFault,
     S!SendFault, G!UnknownService, S!UnknownService, G!Cleanup, S!Cleanup,
     G!LoopTop, S!LoopTop
<1> QED BY <1>1, <1>2

\* As above, for the main thread, the service manager and signals.
LEMMA SameMain == (G!Main <=> S!Main) /\ (G!Boot <=> S!Boot) /\ (G!Killed <=> S!Killed)
BY DEF G!Main, S!Main, G!CheckHealthy, S!CheckHealthy, G!CheckFailed, S!CheckFailed,
   G!SleepEnds, S!SleepEnds, G!Interrupt, S!Interrupt, G!Joined, S!Joined, G!Boot,
   S!Boot, G!Killed, S!Killed, G!ProcessEnds, S!ProcessEnds, G!FreeSoap, S!FreeSoap,
   G!mainVars, S!mainVars, G!soapVars, S!soapVars, G!clientVars, S!clientVars

\* As above, for the clients.
LEMMA SameConnect ==
  (\E c \in Clients, k \in G!Kinds : G!Connect(c, k))
    <=> (\E c \in Clients, k \in S!Kinds : S!Connect(c, k))
BY DEF G!Connect, S!Connect, G!Kinds, S!Kinds, G!Services, S!Services, G!Listening,
   S!Listening, G!Unbound, S!Unbound, G!mainVars, S!mainVars, G!soapVars, S!soapVars

\* The process is a behaviour of the specification that GSoapServer_proofs is
\* about.
LEMMA WorkerProved == Process => G!Spec
<1>1. S!Init => G!Init
  BY DEF G!Init, S!Init
<1>2. [S!Next]_S!vars => [G!Next]_G!vars
  <2>1. S!Next => G!Next
    BY SameConstruct, SameWork, SameMain, SameConnect
    DEF G!Next, S!Next, G!Worker, S!Worker
  <2> QED BY <2>1 DEF G!vars, S!vars, G!mainVars, S!mainVars, G!soapVars, S!soapVars,
             G!clientVars, S!clientVars
<1> QED BY <1>1, <1>2, WorkerInProcessHolds, PTL DEF WorkerInProcess, G!Spec, S!Spec

\* What the clients of the process see is what OnvifPromise allows: the chain of
\* the two refinements, from the process to the worker and on to the promise.
THEOREM ProcessKeepsPromiseHolds == Process => ProcessKeepsPromise
<1>1. G!Spec => G!KeepsPromise
  BY G!KeepsPromiseHolds, ClientsAssumption, BacklogAssumption, ContextsAssumption,
     MaxKillsAssumption
<1>2. G!Promise!Init => S!Promise!Init
  BY DEF G!Promise!Init, S!Promise!Init
<1>3. [G!Promise!Next]_G!Promise!vars => [S!Promise!Next]_S!Promise!vars
  BY DEF G!Promise!Next, S!Promise!Next, G!Promise!vars, S!Promise!vars,
     G!Promise!Arrive, S!Promise!Arrive, G!Promise!Take, S!Promise!Take,
     G!Promise!Reply, S!Promise!Reply, G!Promise!Close, S!Promise!Close,
     G!Promise!GiveUp, S!Promise!GiveUp
<1> QED BY <1>1, <1>2, <1>3, WorkerProved, PTL
    DEF ProcessKeepsPromise, G!KeepsPromise, S!KeepsPromise, G!Promise!Spec, S!Promise!Spec

\* What holds of the requests under GSoapServer holds in the process.
THEOREM WorkerSafeHolds == Process => []WorkerSafe
<1> USE ClientsAssumption, BacklogAssumption, ContextsAssumption, MaxKillsAssumption
<1>1. G!Spec => [](G!OneReply /\ G!OpenIsServed /\ G!QueueExact /\ G!IdleIsClean
                   /\ G!EndsForAReason /\ G!EmptyContextServesNobody)
  BY G!OneReplyHolds, G!OpenIsServedHolds, G!QueueExactHolds, G!IdleIsCleanHolds,
     G!EndsForAReasonHolds, G!EmptyContextServesNobodyHolds, PTL
<1>2. G!OneReply /\ G!OpenIsServed /\ G!QueueExact /\ G!IdleIsClean /\ G!EndsForAReason
      /\ G!EmptyContextServesNobody => WorkerSafe
  BY DEF WorkerSafe, G!OneReply, S!OneReply, G!OpenIsServed, S!OpenIsServed,
     G!QueueExact, S!QueueExact, G!Listening, S!Listening, G!Unbound, S!Unbound,
     G!IdleIsClean, S!IdleIsClean, G!EndsForAReason, S!EndsForAReason,
     G!EmptyContextServesNobody, S!EmptyContextServesNobody
<1> QED BY <1>1, <1>2, WorkerProved, PTL

\* Nor is a connection closed in silence in the process, whichever of its
\* threads ends first.
THEOREM NoSilentCloseInProcessHolds == Process => NoSilentCloseInProcess
<1>1. G!Spec => G!NoSilentClose
  BY G!NoSilentCloseHolds, ClientsAssumption, BacklogAssumption, ContextsAssumption,
     MaxKillsAssumption
<1>2. G!NoSilentClose => S!NoSilentClose
  <2> DEFINE Heard == \A c \in Clients :
                        conn[c] = "open" /\ conn'[c] = "closed" /\ replies'[c] = 0 =>
                          error' = "eof" \/ pc = "unwind" \/ main' = "down"
  <2>1. [Heard]_G!vars => [Heard]_S!vars
    BY DEF G!vars, S!vars, G!mainVars, S!mainVars, G!soapVars, S!soapVars,
       G!clientVars, S!clientVars
  <2> QED BY <2>1, PTL DEF G!NoSilentClose, S!NoSilentClose
<1> QED BY <1>1, <1>2, WorkerProved, PTL DEF NoSilentCloseInProcess

\* No client is connected while main builds or destroys streams: there is no
\* worker then, and a worker that is gone left nobody in the queue and nobody
\* half served.
THEOREM QuietWhileStreamsChangeHolds == Process => []QuietWhileStreamsChange
<1>1. G!Spec => []G!IInv
  BY G!Invariance, ClientsAssumption, BacklogAssumption, ContextsAssumption,
     MaxKillsAssumption
<1>2. ProcessInv /\ G!IInv => QuietWhileStreamsChange
  <2> SUFFICES ASSUME OneMain, G!IInv, mpc # "serve"
               PROVE  backlog = <<>> /\ \A c \in Clients : conn[c] = "closed"
    BY DEF ProcessInv, QuietWhileStreamsChange
  <2>1. pc = "none"
    BY DEF OneMain
  <2>2. backlog = <<>> /\ \A c \in Clients : conn[c] # "queued"
    BY <2>1 DEF G!IInv, G!QueueExact, G!Listening, G!Unbound
  <2>3. \A c \in Clients : conn[c] # "open"
    BY <2>1, ClientsAssumption
    DEF G!IInv, G!HoldInv, G!Clean, G!Unbound, G!OpenIsServed
  <2>4. conn \in [Clients -> {"closed", "queued", "open"}]
    BY DEF G!IInv, G!TypeOK
  <2> QED BY <2>2, <2>3, <2>4
<1> QED BY <1>1, <1>2, ProcessInvariance, WorkerProved, PTL

=============================================================================
