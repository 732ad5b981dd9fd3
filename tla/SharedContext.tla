----------------------------- MODULE SharedContext -----------------------------
(***************************************************************************)
(* How the streams share the one GMainContext: they become ready in their  *)
(* order; the thread of a stream enters its loop once; of the threads that *)
(* are inside a loop one owns the context and serves every stream, until   *)
(* it leaves.  A thread leaves only when its stream is told to go.  Then   *)
(* the streams are told one by one, in their order, and each is gone only  *)
(* when its thread has left and has let go of the context.                 *)
(*                                                                         *)
(* RtspLoops implements this module.                                       *)
(***************************************************************************)
EXTENDS Integers

CONSTANTS
    N,          \* the streams, in their order
    Nobody      \* no thread owns the context

Streams == 1 .. N

VARIABLES
    ready,      \* the streams that have a thread
    inside,     \* the streams whose thread is in its loop
    left,       \* the streams whose thread has left it
    told,       \* the streams that are told to go
    gone,       \* the streams that are gone
    owner       \* the stream whose thread owns the context

vars == <<ready, inside, left, told, gone, owner>>

Init ==
    /\ ready = {} /\ inside = {} /\ left = {} /\ told = {} /\ gone = {}
    /\ owner = Nobody

\* The next stream gets its thread.
Open(s) ==
    /\ ready = 1 .. s - 1
    /\ ready' = ready \cup {s}
    /\ UNCHANGED <<inside, left, told, gone, owner>>

\* The thread of s enters its loop, and has the context if nobody else has.
Enter(s) ==
    /\ s \in ready \ (inside \cup left)
    /\ inside' = inside \cup {s}
    /\ owner' = IF owner = Nobody THEN s ELSE owner
    /\ UNCHANGED <<ready, left, told, gone>>

\* A thread that is inside takes over a context that nobody has.
Take(s) ==
    /\ s \in inside
    /\ owner = Nobody
    /\ owner' = s
    /\ UNCHANGED <<ready, inside, left, told, gone>>

\* The next stream is told to go: all are ready, and those before are gone.
Tell(s) ==
    /\ ready = Streams
    /\ told = 1 .. s - 1 /\ gone = told
    /\ told' = told \cup {s}
    /\ UNCHANGED <<ready, inside, left, gone, owner>>

\* The thread of a stream that was told leaves its loop, with the context.
Leave(s) ==
    /\ s \in inside \cap told
    /\ inside' = inside \ {s}
    /\ left' = left \cup {s}
    /\ owner' = IF owner = s THEN Nobody ELSE owner
    /\ UNCHANGED <<ready, told, gone>>

\* A stream goes when its thread has left.
Go(s) ==
    /\ s \in left \cap told
    /\ gone = 1 .. s - 1
    /\ gone' = gone \cup {s}
    /\ UNCHANGED <<ready, inside, left, told, owner>>

Next == \E s \in Streams :
    Open(s) \/ Enter(s) \/ Take(s) \/ Tell(s) \/ Leave(s) \/ Go(s)

Spec == Init /\ [][Next]_vars

================================================================================
