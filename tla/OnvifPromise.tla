------------------------------ MODULE OnvifPromise ------------------------------
(***************************************************************************)
(* What the daemon promises to the clients of its ONVIF port, whatever     *)
(* happens to the thread behind it: connections wait in one line, are      *)
(* taken from its head one at a time, and get at most one response each.   *)
(* The daemon may give up on every connection at once (its listener is     *)
(* rebuilt, or the process dies), never on a single waiting one, and it    *)
(* takes the next one only after it is done with the last.                 *)
(*                                                                         *)
(* GSoapServer implements this module under conn <- conn, line <- backlog, *)
(* replies <- replies.                                                     *)
(***************************************************************************)
EXTENDS Naturals, Sequences

CONSTANT Clients

VARIABLES
    conn,       \* conn[c] : "closed", "queued" or "open"
    line,       \* the waiting connections, the oldest first
    replies     \* replies[c] : responses sent on c's latest connection

vars == <<conn, line, replies>>

Init ==
    /\ conn = [c \in Clients |-> "closed"]
    /\ line = <<>>
    /\ replies = [c \in Clients |-> 0]

\* c opens a connection, and waits at the end of the line.
Arrive(c) ==
    /\ conn[c] = "closed"
    /\ conn' = [conn EXCEPT ![c] = "queued"]
    /\ line' = Append(line, c)
    /\ replies' = [replies EXCEPT ![c] = 0]

\* The oldest waiting connection is taken, when no other is being served.
Take ==
    /\ line # <<>>
    /\ \A c \in Clients : conn[c] # "open"
    /\ conn' = [conn EXCEPT ![Head(line)] = "open"]
    /\ line' = Tail(line)
    /\ UNCHANGED replies

\* The one response of the connection being served; it may close with it.
Reply(c) ==
    /\ conn[c] = "open"
    /\ replies[c] = 0
    /\ replies' = [replies EXCEPT ![c] = 1]
    /\ conn' \in {conn, [conn EXCEPT ![c] = "closed"]}
    /\ UNCHANGED line

\* The connection being served is closed, answered or not.
Close(c) ==
    /\ conn[c] = "open"
    /\ conn' = [conn EXCEPT ![c] = "closed"]
    /\ UNCHANGED <<line, replies>>

\* The listener goes, and takes every connection with it.
GiveUp ==
    /\ conn' = [c \in Clients |-> "closed"]
    /\ line' = <<>>
    /\ UNCHANGED replies

Next ==
    \/ \E c \in Clients : Arrive(c) \/ Reply(c) \/ Close(c)
    \/ Take
    \/ GiveUp

Spec == Init /\ [][Next]_vars

=============================================================================
