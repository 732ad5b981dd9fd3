------------------------------ MODULE GSoapServer ------------------------------
(***************************************************************************)
(* The SOAP front end of onvif_srvd: one GSoapInstance that a ThreadWarden *)
(* runs on a thread of its own (GSoapService.cpp), the main loop that      *)
(* watches this thread (onvif_srvd.cpp, main) and the service manager      *)
(* that starts the process again (start_scripts/onvif_srvd.service).       *)
(*                                                                         *)
(* One call of GSoapInstance::work serves one connection: accept, read the *)
(* request, ask the bindings one after the other whether the operation is  *)
(* theirs, send the outcome, free the memory of the request.  A request    *)
(* is the answer to the only question the control asks about it: who       *)
(* serves it.  gSOAP and ThreadWarden are external and are modelled from   *)
(* how the code uses them.                                                 *)
(***************************************************************************)
EXTENDS Naturals, Sequences

CONSTANTS
    Clients,    \* the clients of the port
    NoConn,     \* the socket or the file that is not there
    Backlog,    \* connections the kernel keeps waiting: 10 in the code
    Contexts,   \* what checkServiceCtx may find in the context: TRUE, FALSE
    MaxKills    \* bound: how often the process is killed from outside

ASSUME ClientsAssumption == NoConn \notin Clients
ASSUME BacklogAssumption == Backlog \in Nat \ {0}
ASSUME ContextsAssumption == Contexts \subseteq BOOLEAN
ASSUME MaxKillsAssumption == MaxKills \in Nat

VARIABLES
    main,       \* where the main thread is
    failVal,    \* main's flag of the same name
    pc,         \* where the worker thread is
    endWork,    \* ThreadWarden told the worker to end
    failed,     \* the worker thread ended by itself
    ctxValid,   \* the context has interfaces, scopes and profiles
    socket,     \* soap->socket: the connection being served
    error,      \* soap->error
    file,       \* the connection copy_file has a file open for
    arena,      \* clients with data in the memory soap manages
    conn,       \* conn[c] : "closed", "queued" or "open"
    backlog,    \* the queue of the listening socket
    request,    \* request[c] : who serves the request c sends
    replies,    \* replies[c] : responses sent on c's latest connection
    kills       \* kills so far

mainVars   == <<main, failVal, endWork, ctxValid, kills>>
soapVars   == <<socket, error, file, arena>>
clientVars == <<conn, backlog, request, replies>>
vars == <<mainVars, pc, failed, soapVars, clientVars>>

Services == {"device", "media", "ptz"}
Kinds == Services \cup {"unknown", "get", "garbled"}

\* Mutant: a service is named in FOREACH_SERVICE that nobody implements.
AfterWithImaging(s) == CASE s = "device" -> "media"
                         [] s = "media"  -> "imaging"
                         [] s = "ptz"    -> "unknown"

\* The binding asked after s, in the order of FOREACH_SERVICE.
After(s) == CASE s = "device" -> "media"
              [] s = "media"  -> "ptz"
              [] s = "ptz"    -> "unknown"

MainStates == {"down", "check", "sleep", "stopping"}
Serving == {"begin", "header", "copy", "device", "media", "ptz", "unknown",
            "fault", "cleanup"}
Unbound == {"none", "bind", "ended"}
WorkerStates == Unbound \cup {"context", "poll", "blocked", "unwind"} \cup Serving

\* soap_bind has opened the listening socket and nothing has closed it.
Listening == pc \notin Unbound

Init ==
    /\ main = "down" /\ failVal = FALSE /\ endWork = FALSE
    /\ ctxValid \in Contexts /\ kills = 0
    /\ pc = "none" /\ failed = FALSE
    /\ socket = NoConn /\ error = "ok" /\ file = NoConn /\ arena = {}
    /\ conn = [c \in Clients |-> "closed"]
    /\ backlog = <<>>
    /\ request = [c \in Clients |-> "garbled"]
    /\ replies = [c \in Clients |-> 0]

-----------------------------------------------------------------------------
(* The clients. *)

\* c connects and sends a request that k serves; the kernel refuses when
\* nobody listens and holds the client back when the queue is full.
Connect(c, k) ==
    /\ Listening
    /\ conn[c] = "closed"
    /\ Len(backlog) < Backlog
    /\ conn' = [conn EXCEPT ![c] = "queued"]
    /\ backlog' = Append(backlog, c)
    /\ request' = [request EXCEPT ![c] = k]
    /\ replies' = [replies EXCEPT ![c] = 0]
    /\ UNCHANGED <<mainVars, pc, failed, soapVars>>

-----------------------------------------------------------------------------
(* The worker thread: construction of the GSoapInstance. *)

\* All that hangs on the soap context ends: it is freed, or the process is.
FreeSoap ==
    /\ socket' = NoConn /\ error' = "ok" /\ file' = NoConn /\ arena' = {}
    /\ conn' = [c \in Clients |-> "closed"]
    /\ backlog' = <<>>
    /\ UNCHANGED <<request, replies>>

\* The process ends, by exit(), by a signal or by returning from main.
ProcessEnds ==
    /\ main' = "down" /\ failVal' = FALSE /\ endWork' = FALSE
    /\ pc' = "none" /\ failed' = FALSE
    /\ FreeSoap
    /\ UNCHANGED ctxValid

Bind ==
    /\ pc = "bind"
    /\ pc' = "context"
    /\ UNCHANGED <<mainVars, failed, soapVars, clientVars>>

\* exit(EXIT_FAILURE) in the constructor: the worker takes main with it.
BindFails ==
    /\ pc = "bind"
    /\ ProcessEnds
    /\ UNCHANGED kills

\* ThreadWarden's loop around work().
LoopTop == IF endWork THEN "unwind" ELSE "poll"

\* Mutant: the context is not looked at.
CheckServiceCtxNever ==
    /\ pc = "context"
    /\ pc' = LoopTop
    /\ UNCHANGED <<mainVars, failed, soapVars, clientVars>>

CheckServiceCtx ==
    /\ pc = "context"
    /\ IF ctxValid
         THEN pc' = LoopTop /\ UNCHANGED failed
         ELSE pc' = "unwind" /\ failed' = TRUE
    /\ UNCHANGED <<mainVars, soapVars, clientVars>>

-----------------------------------------------------------------------------
(* The worker thread: one call of GSoapInstance::work. *)

\* Mutant: the accept loop without its patch.
PollForEver ==
    /\ pc = "poll"
    /\ pc' = "blocked"
    /\ UNCHANGED <<mainVars, failed, soapVars, clientVars>>

\* The test that heads the patched accept loop.  Told to end, soap_accept
\* returns a number that passes for a socket, and work() goes on with none.
Poll ==
    /\ pc = "poll"
    /\ pc' = IF endWork THEN "begin" ELSE "blocked"
    /\ UNCHANGED <<mainVars, failed, soapVars, clientVars>>

AcceptConnection ==
    /\ pc = "blocked"
    /\ backlog # <<>>
    /\ socket' = Head(backlog)
    /\ error' = "ok"
    /\ conn' = [conn EXCEPT ![Head(backlog)] = "open"]
    /\ backlog' = Tail(backlog)
    /\ pc' = "begin"
    /\ UNCHANGED <<mainVars, failed, file, arena, request, replies>>

\* accept() fails: work() sleeps a second and goes on all the same.
AcceptFails ==
    /\ pc = "blocked"
    /\ pc' = "begin"
    /\ UNCHANGED <<mainVars, failed, soapVars, clientVars>>

\* The response to c goes out.
Answer(c) == replies' = [replies EXCEPT ![c] = @ + 1]

\* soap_closesock, which does nothing to a socket that is closed already.
CloseSocket ==
    /\ socket' = NoConn
    /\ conn' = [c \in Clients |-> IF c = socket THEN "closed" ELSE conn[c]]

\* soap_begin_serve when there is no connection to read from.
BeginWithoutConnection ==
    /\ pc = "begin" /\ socket = NoConn
    /\ error' = "eof"
    /\ pc' = "fault"
    /\ UNCHANGED <<mainVars, failed, socket, file, arena, clientVars>>

\* soap_begin_serve reads a SOAP request.
BeginOperation ==
    /\ pc = "begin" /\ socket # NoConn
    /\ request[socket] \in Services \cup {"unknown"}
    /\ arena' = arena \cup {socket}
    /\ pc' = "device"
    /\ UNCHANGED <<mainVars, failed, socket, error, file, clientVars>>

\* Mutant: work() returns 1 when soap_begin_serve fails.
BeginGarbledReturns ==
    /\ pc = "begin" /\ socket # NoConn
    /\ request[socket] = "garbled"
    /\ failed' = TRUE
    /\ pc' = "unwind"
    /\ UNCHANGED <<mainVars, soapVars, clientVars>>

\* soap_begin_serve reads no request in time, or one it cannot parse.
BeginGarbled ==
    /\ pc = "begin" /\ socket # NoConn
    /\ request[socket] = "garbled"
    /\ arena' = arena \cup {socket}
    /\ error' \in {"eof", "fault"}
    /\ pc' = "fault"
    /\ UNCHANGED <<mainVars, failed, socket, file, clientVars>>

\* soap_begin_serve reads a GET: http_get refuses the path (403, 404), or
\* copy_file finds the file, or copy_file does not (404).
BeginGet ==
    /\ pc = "begin" /\ socket # NoConn
    /\ request[socket] = "get"
    /\ arena' = arena \cup {socket}
    /\ \/ error' = "fault" /\ pc' = "fault" /\ UNCHANGED file
       \/ file' = socket /\ pc' = "header" /\ UNCHANGED error
    /\ UNCHANGED <<mainVars, failed, socket, clientVars>>

\* copy_file: the response header goes out, or fails and the file is closed.
CopyHeader ==
    /\ pc = "header"
    /\ \/ Answer(socket) /\ pc' = "copy" /\ UNCHANGED <<error, file>>
       \/ error' = "eof" /\ file' = NoConn /\ pc' = "fault" /\ UNCHANGED replies
    /\ UNCHANGED <<mainVars, failed, socket, arena, conn, backlog, request>>

\* Mutant: copy_file returns an HTTP status after it sent the header.
CopyBlocksStatus ==
    /\ pc = "copy"
    /\ error' \in {"stop", "fault"}
    /\ file' = NoConn
    /\ pc' = "fault"
    /\ UNCHANGED <<mainVars, failed, socket, arena, clientVars>>

\* copy_file: the last block is out, or one could not be sent.
CopyBlocks ==
    /\ pc = "copy"
    /\ error' \in {"stop", "eof"}
    /\ file' = NoConn
    /\ pc' = "fault"
    /\ UNCHANGED <<mainVars, failed, socket, arena, clientVars>>

\* Mutant: a success leaves the connection open and an old error behind.
DispatchServesStaleError(s) ==
    /\ pc = s
    /\ request[socket] = s
    /\ error' = "fault" /\ Answer(socket)
    /\ pc' = "fault"
    /\ UNCHANGED <<mainVars, failed, socket, conn, file, arena, backlog, request>>

\* dispatch() of the binding that knows the operation: the handler's answer
\* goes out and the connection is closed, or the handler (or the rest of
\* the request) is faulty, or the client is gone.
DispatchServes(s) ==
    /\ pc = s
    /\ request[socket] = s
    /\ \/ error' = "ok" /\ Answer(socket) /\ CloseSocket
       \/ error' \in {"fault", "eof"} /\ UNCHANGED <<replies, socket, conn>>
    /\ pc' = "fault"
    /\ UNCHANGED <<mainVars, failed, file, arena, backlog, request>>

\* dispatch() returns SOAP_NO_METHOD: the next binding is asked.
DispatchPasses(s) ==
    /\ pc = s
    /\ request[socket] # s
    /\ error' = "no_method"
    /\ pc' = After(s)
    /\ UNCHANGED <<mainVars, failed, socket, file, arena, clientVars>>

\* Mutant: the connection is closed and the fault never sent.
SendFaultCloses ==
    /\ pc = "fault"
    /\ CloseSocket
    /\ pc' = "cleanup"
    /\ UNCHANGED <<mainVars, failed, error, replies, file, arena, backlog, request>>

\* soap_send_fault: nothing is sent after a success or to a client that is
\* gone; the connection is closed in any case.  Sending may fail.
SendFault ==
    /\ pc = "fault"
    /\ IF error = "fault" /\ socket # NoConn
         THEN \/ Answer(socket) /\ UNCHANGED error
              \/ error' = "eof" /\ UNCHANGED replies
         ELSE UNCHANGED <<error, replies>>
    /\ CloseSocket
    /\ pc' = "cleanup"
    /\ UNCHANGED <<mainVars, failed, file, arena, backlog, request>>

\* Mutant: an unknown operation is passed over, its connection left open.
UnknownServiceGoesOn ==
    /\ pc = "unknown"
    /\ pc' = "cleanup"
    /\ UNCHANGED <<mainVars, failed, soapVars, clientVars>>

\* No binding knows the operation: work() returns 1 from where it is, and
\* ThreadWarden ends the thread.
UnknownService ==
    /\ pc = "unknown"
    /\ failed' = TRUE
    /\ pc' = "unwind"
    /\ UNCHANGED <<mainVars, soapVars, clientVars>>

\* Mutant: soap_end is forgotten.
CleanupForgets ==
    /\ pc = "cleanup"
    /\ pc' = LoopTop
    /\ UNCHANGED <<mainVars, failed, soapVars, clientVars>>

\* soap_destroy and soap_end, and work() returns 0.
Cleanup ==
    /\ pc = "cleanup"
    /\ arena' = {}
    /\ pc' = LoopTop
    /\ UNCHANGED <<mainVars, failed, socket, error, file, clientVars>>

\* Mutant: the wrapper drops the soap context without soap_free.
DestroyInstanceLeaks ==
    /\ pc = "unwind"
    /\ pc' = "ended"
    /\ socket' = NoConn /\ error' = "ok" /\ file' = NoConn /\ arena' = {}
    /\ UNCHANGED <<mainVars, failed, clientVars>>

\* ~GSoapInstance: the soap context goes with its sockets.
DestroyInstance ==
    /\ pc = "unwind"
    /\ pc' = "ended"
    /\ FreeSoap
    /\ UNCHANGED <<mainVars, failed>>

-----------------------------------------------------------------------------
(* The main thread and the service manager. *)

\* The service manager starts the process; main starts the worker.
Boot ==
    /\ main = "down"
    /\ main' = "check" /\ failVal' = FALSE /\ endWork' = FALSE
    /\ ctxValid' \in Contexts
    /\ pc' = "bind" /\ failed' = FALSE
    /\ UNCHANGED <<kills, soapVars, clientVars>>

\* checkAndRestartOnFailure finds the worker at work.
CheckHealthy ==
    /\ main = "check"
    /\ ~(failed /\ pc = "ended")
    /\ main' = "sleep" /\ failVal' = FALSE
    /\ UNCHANGED <<endWork, ctxValid, kills, pc, failed, soapVars, clientVars>>

\* Mutant: the failure is neither repaired nor reported.
CheckFailedIgnores ==
    /\ main = "check"
    /\ failed /\ pc = "ended"
    /\ main' = "sleep" /\ failVal' = FALSE
    /\ UNCHANGED <<endWork, ctxValid, kills, pc, failed, soapVars, clientVars>>

\* checkAndRestartOnFailure finds that it failed: it builds a new one from
\* the same context, or reports the failure, or both.
CheckFailed ==
    /\ main = "check"
    /\ failed /\ pc = "ended"
    /\ main' = "sleep"
    /\ \/ pc' = "bind" /\ failed' = FALSE /\ failVal' \in BOOLEAN
       \/ failVal' = TRUE /\ UNCHANGED <<pc, failed>>
    /\ UNCHANGED <<endWork, ctxValid, kills, soapVars, clientVars>>

\* The loop condition of main, after its sleep: go on, or stop the worker.
SleepEnds ==
    /\ main = "sleep"
    /\ main' = IF failVal THEN "stopping" ELSE "check"
    /\ endWork' = failVal
    /\ UNCHANGED <<failVal, ctxValid, kills, pc, failed, soapVars, clientVars>>

\* ThreadWarden::stop interrupts a blocked accept(), which returns EINTR and
\* makes the accept loop test endWork again.
Interrupt ==
    /\ main = "stopping"
    /\ pc = "blocked"
    /\ pc' = "poll"
    /\ UNCHANGED <<mainVars, failed, soapVars, clientVars>>

\* ThreadWarden::stop has joined the worker; main returns.
Joined ==
    /\ main = "stopping"
    /\ pc = "ended"
    /\ ProcessEnds
    /\ UNCHANGED kills

\* A signal ends the process at any point.
Killed ==
    /\ main # "down"
    /\ kills < MaxKills
    /\ kills' = kills + 1
    /\ ProcessEnds

-----------------------------------------------------------------------------

Construct == Bind \/ BindFails \/ CheckServiceCtx
Begin == BeginWithoutConnection \/ BeginOperation \/ BeginGarbled \/ BeginGet
Dispatch == \E s \in Services : DispatchServes(s) \/ DispatchPasses(s)
Serve == \/ Begin \/ CopyHeader \/ CopyBlocks \/ Dispatch \/ SendFault
         \/ UnknownService \/ Cleanup
Worker == \/ Construct \/ Poll \/ AcceptConnection \/ AcceptFails
          \/ Serve \/ DestroyInstance
Main == CheckHealthy \/ CheckFailed \/ SleepEnds \/ Interrupt \/ Joined

Next ==
    \/ \E c \in Clients, k \in Kinds : Connect(c, k)
    \/ Worker
    \/ Main
    \/ Boot
    \/ Killed

Spec == Init /\ [][Next]_vars

(***************************************************************************)
(* Threads run when they can (the receive and send timeouts of 3 s make    *)
(* every step of Serve end), the service manager has Restart=always, and   *)
(* neither a taken port nor a failing accept() lasts for ever.             *)
(***************************************************************************)
Fairness ==
    /\ WF_vars(Construct) /\ SF_vars(Bind)
    /\ WF_vars(Poll) /\ SF_vars(AcceptConnection)
    /\ WF_vars(Serve) /\ WF_vars(DestroyInstance)
    /\ WF_vars(CheckHealthy \/ CheckFailed \/ SleepEnds \/ Joined)
    /\ WF_vars(Interrupt)
    /\ WF_vars(Boot)

FairSpec == Spec /\ Fairness

-----------------------------------------------------------------------------
(* Properties. *)

\* The types of the variables.
TypeOK ==
    /\ main \in MainStates
    /\ failVal \in BOOLEAN /\ endWork \in BOOLEAN /\ failed \in BOOLEAN
    /\ ctxValid \in BOOLEAN
    /\ kills \in 0 .. MaxKills
    /\ pc \in WorkerStates
    /\ socket \in Clients \cup {NoConn}
    /\ file \in Clients \cup {NoConn}
    /\ error \in {"ok", "eof", "stop", "fault", "no_method"}
    /\ arena \subseteq Clients
    /\ conn \in [Clients -> {"closed", "queued", "open"}]
    /\ backlog \in Seq(Clients)
    /\ request \in [Clients -> Kinds]
    /\ replies \in [Clients -> Nat]

\* DISPATCH_SERVICE calls soap_send_fault after every dispatch, one that
\* succeeded too: no connection gets a second response for that.
OneReply == \A c \in Clients : replies[c] <= 1

\* The accepted connections are the one in soap->socket: no return path of
\* work() leaves a connection open that nothing will close.
OpenIsServed == \A c \in Clients : conn[c] = "open" <=> socket = c

\* A connection waits exactly when it is in the queue of the listening
\* socket, once; a listener that goes leaves no connection waiting for it.
QueueExact ==
    /\ \A c \in Clients :
         conn[c] = "queued" <=> \E i \in DOMAIN backlog : backlog[i] = c
    /\ \A i, j \in DOMAIN backlog : backlog[i] = backlog[j] => i = j
    /\ backlog # <<>> => Listening

\* When work() waits for the next client, the memory, the socket and the
\* file of the last one are released: on every path through the request.
IdleIsClean ==
    pc \in {"bind", "context", "poll", "blocked"} =>
        arena = {} /\ socket = NoConn /\ file = NoConn

\* A worker ends because ThreadWarden told it to, because its context is
\* empty, or with a client on the line whose operation no binding knows; an
\* error of a handler, a bad request or a failed accept() never ends it.
EndsForAReason ==
    pc = "unwind" =>
        \/ endWork
        \/ failed /\ ~ctxValid
        \/ failed /\ socket # NoConn /\ request[socket] = "unknown"

\* The listening socket opens before checkServiceCtx looks at the context:
\* no client that gets into the queue of such a server is ever served.
EmptyContextServesNobody ==
    ~ctxValid => \A c \in Clients : conn[c] # "open"

\* A connection under service is closed without a response only if the
\* client is gone, the worker is torn down or the process ends.
NoSilentClose ==
    [][\A c \in Clients :
         conn[c] = "open" /\ conn'[c] = "closed" /\ replies'[c] = 0 =>
            error' = "eof" \/ pc = "unwind" \/ main' = "down"]_vars

\* The work() comment: "runs like a while(1) loop until ThreadWarden tells
\* gSoap to stop runing".
RunsUntilTold == pc = "unwind" /\ ctxValid => endWork

\* Every connection ends: none is left in the queue or half served, across
\* restarts of the worker and of the process.
ConnectionsEnd ==
    \A c \in Clients : conn[c] # "closed" ~> conn[c] = "closed"

\* When main stops the worker it gets it back, wherever the worker is.
StopEnds == main = "stopping" ~> main = "down"

Promise == INSTANCE OnvifPromise WITH line <- backlog

\* The worker implements what the port promises.
KeepsPromise == Promise!Spec

=============================================================================
