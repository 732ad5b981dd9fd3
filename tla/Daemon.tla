--------------------------------- MODULE Daemon ---------------------------------
(***************************************************************************)
(* The whole process (onvif_srvd.cpp, main): it builds the RTSP streams,   *)
(* starts the SOAP worker, watches it, stops it and returns, which         *)
(* destroys the streams in their order; then the process is gone and the   *)
(* service manager starts another.  The worker is that of GSoapServer, the *)
(* streams are those of RtspLoops; main is the thread they share.          *)
(*                                                                         *)
(* An exit() in the worker and a signal end the process at once, with the  *)
(* threads of the streams wherever they are.                               *)
(***************************************************************************)
EXTENDS RtspLoops, Sequences

CONSTANTS
    Clients, NoConn, Backlog, Contexts, \* of GSoapServer
    MaxKills    \* bound: how often the process is killed from outside

\* Those of GSoapServer.
ASSUME ClientsAssumption == NoConn \notin Clients
ASSUME BacklogAssumption == Backlog \in Nat \ {0}
ASSUME ContextsAssumption == Contexts \subseteq BOOLEAN
ASSUME MaxKillsAssumption == MaxKills \in Nat

VARIABLES
    \* of GSoapServer
    main, failVal, endWork, ctxValid, kills, pc, failed, socket, error, file,
    arena, conn, backlog, request, replies,
    losses      \* kills of a process that had no worker

soapVars ==
    <<main, failVal, endWork, ctxValid, kills, pc, failed, socket, error, file,
      arena, conn, backlog, request, replies>>
processVars == <<soapVars, vars, losses>>

S == INSTANCE GSoapServer

ProcessInit == S!Init /\ Init /\ losses = 0

-----------------------------------------------------------------------------

\* The streams end with their process, and are as before they were built.
StreamsGone ==
    /\ mpc' = "build" /\ cur' = 1
    /\ owner' = Nobody
    /\ worker' = [s \in Streams |-> "none"]
    /\ refs' = [s \in Streams |-> NoRefs] /\ temp' = "null"
    /\ \E none \in {[s \in Streams |-> {}]} : held' = none /\ member' = none
    /\ \E none \in {[s \in Streams |-> FALSE]} :
         input' = none /\ copied' = none /\ running' = none

\* The streams take no part in a step; but if that ends the process, they end
\* with it.
StreamsGoOn ==
    /\ IF main # "down" /\ main' = "down" THEN StreamsGone ELSE UNCHANGED vars
    /\ UNCHANGED losses

WorkerUnchanged == UNCHANGED <<soapVars, losses>>

\* The process starts, and main constructs the streams one by one.
BuildStreams == Build /\ WorkerUnchanged

\* main starts the worker behind the last stream.
StartWorker == mpc = "serve" /\ S!Boot /\ StreamsGoOn

\* The worker serves, and main looks at it every second.
Watch == S!CheckHealthy \/ S!CheckFailed \/ S!SleepEnds \/ S!Interrupt
Serve ==
    /\ \/ \E c \in Clients, k \in S!Kinds : S!Connect(c, k)
       \/ S!Worker
       \/ Watch
    /\ StreamsGoOn

\* Mutant: main returns without stopping the worker.
StopWorkerNever ==
    /\ main = "stopping"
    /\ LeaveMain
    /\ WorkerUnchanged

\* gSoapInstance.stop() has the worker back, and main returns.
StopWorker ==
    /\ S!Joined
    /\ LeaveMain
    /\ UNCHANGED losses

\* The destructor of the list of streams.
DestroyStreams == Destroy /\ WorkerUnchanged

\* Behind the last stream the process ends.
ProcessEnds == mpc = "done" /\ StreamsGone /\ WorkerUnchanged

\* A signal ends the process: while it has a worker, or while main builds or
\* destroys the streams.
Killed ==
    /\ kills + losses < MaxKills
    /\ \/ S!Killed /\ StreamsGoOn
       \/ /\ main = "down"
          /\ losses' = losses + 1
          /\ StreamsGone
          /\ UNCHANGED soapVars

\* The thread of a stream.
StreamThread(s) == Thread(s) /\ WorkerUnchanged

Main == BuildStreams \/ StartWorker \/ StopWorker \/ DestroyStreams \/ ProcessEnds

ProcessNext ==
    \/ Main
    \/ Serve
    \/ Killed
    \/ \E s \in Streams : StreamThread(s)

Process == ProcessInit /\ [][ProcessNext]_processVars

(***************************************************************************)
(* The fairness of GSoapServer and of RtspLoops; main returns when it has  *)
(* joined the worker, and the service manager starts the process again.    *)
(***************************************************************************)
ProcessFairness ==
    /\ WF_processVars(Main)
    /\ WF_processVars(S!Construct /\ StreamsGoOn) /\ SF_processVars(S!Bind /\ StreamsGoOn)
    /\ WF_processVars(S!Poll /\ StreamsGoOn) /\ SF_processVars(S!AcceptConnection /\ StreamsGoOn)
    /\ WF_processVars(S!Serve /\ StreamsGoOn) /\ WF_processVars(S!DestroyInstance /\ StreamsGoOn)
    /\ WF_processVars((S!CheckHealthy \/ S!CheckFailed \/ S!SleepEnds) /\ StreamsGoOn)
    /\ WF_processVars(S!Interrupt /\ StreamsGoOn)
    /\ \A s \in Streams : WF_processVars(StreamThread(s))

FairProcess == Process /\ ProcessFairness

-----------------------------------------------------------------------------
(* Properties. *)

\* The addresses that the worker hands out are those of the streams: as long
\* as its port is open, no stream is unfinished, stopped or half destroyed,
\* in a process that starts, is stopped and is restarted at any point.
OpenPortHasStreams ==
    S!Listening =>
        \A s \in Streams :
            /\ Alive(s) /\ worker[s] # "ended"
            /\ \A o \in Objects : refs[s][o] > 0

\* The destructor of a stream waits for a thread that will never hear it: it
\* told the loop to quit before the thread entered it.
QuitLost == mpc = "join" /\ running[cur]

\* The daemon comes back to accept after every failure, through the end of
\* the worker, of the streams and of the process.  Only one thing keeps it
\* away: a main that returned before the thread of a stream was in its loop.
AcceptsOrHangs == []<>(pc = "blocked") \/ <>[]QuitLost

\* The worker in the process behaves as GSoapServer says.
WorkerInProcess == S!Spec

\* The whole process keeps to its clients what OnvifPromise promises, while
\* main starts and stops the worker between the streams.
ProcessKeepsPromise == S!KeepsPromise

\* While main builds or destroys streams, in a join that may never return
\* too, no client is connected, nor waits in the queue of the port.
QuietWhileStreamsChange ==
    mpc # "serve" => backlog = <<>> /\ \A c \in Clients : conn[c] = "closed"

\* What GSoapServer says of requests holds in the process.
WorkerSafe ==
    S!OneReply /\ S!OpenIsServed /\ S!QueueExact /\ S!IdleIsClean /\ S!EndsForAReason
    /\ S!EmptyContextServesNobody

\* In the process, too, a connection under service is closed without a response
\* only if its client is gone, the worker is torn down or the process ends.
NoSilentCloseInProcess == S!NoSilentClose

\* What RtspLoops says of threads and objects holds in every process that
\* the service manager starts, however the one before it ended.
StreamsSafe == LoopsRun /\ NoneOutlives /\ OwnersCounted /\ ObjectsLive

=============================================================================
