------------------------------- MODULE RtspLoops -------------------------------
(***************************************************************************)
(* The RTSP side of onvif_srvd (rtsp-streams.hpp): main builds one         *)
(* GStreamerRTSP per configured stream, each with a GMainLoop of its own   *)
(* and a ThreadWarden thread that runs it.  All the loops, and the sources *)
(* of all the servers, sit on the one default GMainContext: one thread at  *)
(* a time owns it and serves every stream, the others wait to take over.   *)
(* At the end of main the streams are destroyed in their order.            *)
(*                                                                         *)
(* A stream has a server, mount points and a factory.  Its members are     *)
(* GObjWrappers, each an owning pointer on one of them; the GStreamer      *)
(* functions return plain pointers, from which a temporary wrapper is made *)
(* that the member takes the pointer from (move assignment), and which is  *)
(* then destroyed.  What the objects hold of one another is GStreamer's.   *)
(*                                                                         *)
(* GLib's context and loop, the reference counts of GStreamer's objects    *)
(* and ThreadWarden's start and stop are external.                         *)
(***************************************************************************)
EXTENDS Integers

CONSTANTS
    N,          \* configured streams, in the order of the list
    PortOf,     \* the TCP port of each
    Nobody      \* no thread owns the context

Streams == 1 .. N

ASSUME NAssumption == N \in Nat \ {0}
ASSUME NobodyAssumption == Nobody \notin Streams

VARIABLES
    mpc,        \* where the main thread is
    cur,        \* the stream it builds or destroys
    input,      \* input[s] : the locked inputData of s has the loop
    copied,     \* copied[s] : so has the copy its worker took
    worker,     \* worker[s] : where the thread of s is
    running,    \* running[s] : m_loop is marked as running
    owner,      \* the stream whose thread owns the default context
    refs,       \* refs[s][o] : the reference count of the object o of s
    held,       \* held[s] : the objects another object of s has a reference of
    member,     \* member[s] : the members of s that point to their object
    temp        \* the object the temporary wrapper points to, or "null"

mainVars    == <<mpc, cur>>
loopVars    == <<input, copied, worker, running, owner>>
serverVars  == <<refs, held, member, temp>>
vars        == <<mainVars, loopVars, serverVars>>

\* The objects of a stream, by the member that points to them.
Objects == {"server", "mounts", "factory"}

NoRefs == [o \in Objects |-> 0]

Init ==
    /\ mpc = "build" /\ cur = 1
    /\ input = [s \in Streams |-> FALSE]
    /\ copied = [s \in Streams |-> FALSE]
    /\ worker = [s \in Streams |-> "none"]
    /\ running = [s \in Streams |-> FALSE]
    /\ owner = Nobody
    /\ refs = [s \in Streams |-> NoRefs]
    /\ held = [s \in Streams |-> {}]
    /\ member = [s \in Streams |-> {}]
    /\ temp = "null"

-----------------------------------------------------------------------------
(* Reference counts. *)

\* The members that are assigned before o, and destroyed before it too, for
\* they are declared the other way round.
Before(o) == CASE o = "server"  -> {}
               [] o = "mounts"  -> {"server"}
               [] o = "factory" -> {"server", "mounts"}

\* A reference of each object in O is added to the counts r.
Raised(r, O) == [o \in Objects |-> IF o \in O THEN r[o] + 1 ELSE r[o]]

\* The objects that lose a reference when o loses one, under the counts r: a
\* server that is finalised gives up its mount points, mount points that are
\* finalised give up their factory.
Losers(r, o) ==
    LET mounts  == o = "mounts" \/ (o = "server" /\ r["server"] = 1)
        factory == o = "factory" \/ (mounts /\ r["mounts"] = 1)
    IN  {o} \cup (IF mounts THEN {"mounts"} ELSE {}) \cup (IF factory THEN {"factory"} ELSE {})

\* GObjWrapper::unref of a pointer to o, and what GStreamer does about it.
Unref(o) ==
    LET losers == Losers(refs[cur], o)
    IN  /\ refs' = [refs EXCEPT ![cur] =
                      [x \in Objects |-> IF x \in losers THEN @[x] - 1 ELSE @[x]]]
        /\ held' = [held EXCEPT ![cur] = @ \ (losers \ {o})]

-----------------------------------------------------------------------------
(* The main thread: construction of the streams. *)

\* A plain pointer to o, which is a reference of the caller's own, goes into
\* the temporary wrapper; the objects in O get a reference more.
Obtain(o, O) ==
    /\ mpc = "build" /\ member[cur] = Before(o)
    /\ refs' = [refs EXCEPT ![cur] = Raised(@, O)]
    /\ temp' = o
    /\ mpc' = "assign"
    /\ UNCHANGED <<cur, loopVars, member>>

\* gst_rtsp_server_new; "every server has a default object" of mount points.
NewServer ==
    /\ Obtain("server", {"server", "mounts"})
    /\ held' = [held EXCEPT ![cur] = @ \cup {"mounts"}]

\* gst_rtsp_server_get_mount_points hands out a reference.
GetMountPoints == Obtain("mounts", {"mounts"}) /\ UNCHANGED held

\* gst_rtsp_media_factory_new.
NewFactory == Obtain("factory", {"factory"}) /\ UNCHANGED held

\* Mutant: the move leaves the temporary as it is.
MoveAssignShares ==
    /\ mpc = "assign"
    /\ member' = [member EXCEPT ![cur] = @ \cup {temp}]
    /\ mpc' = "temporary"
    /\ UNCHANGED <<cur, loopVars, refs, held, temp>>

\* The member gives up the pointer it had, which is null, and takes that of
\* the temporary.
MoveAssign ==
    /\ mpc = "assign"
    /\ member' = [member EXCEPT ![cur] = @ \cup {temp}]
    /\ temp' = "null"
    /\ mpc' = "temporary"
    /\ UNCHANGED <<cur, loopVars, refs, held>>

\* The destructor of the temporary, at the end of the assignment.
DestroyTemporary ==
    /\ mpc = "temporary"
    /\ IF temp = "null" THEN UNCHANGED <<refs, held>> ELSE Unref(temp)
    /\ temp' = "null"
    /\ mpc' = IF member[cur] = Objects THEN "mount" ELSE "build"
    /\ UNCHANGED <<cur, loopVars, member>>

\* gst_rtsp_mount_points_add_factory takes over the reference of its caller.
AddFactory ==
    /\ mpc = "mount"
    /\ held' = [held EXCEPT ![cur] = @ \cup {"factory"}]
    /\ mpc' = "attach"
    /\ UNCHANGED <<cur, loopVars, refs, member, temp>>

\* The servers that have a source on the context.
HasSource(s) == "server" \in held[s]

\* gst_rtsp_server_attach binds the port, if it is free; the source on the
\* context has a reference of the server.  The code drops the result and goes
\* on in any case.
Attach ==
    /\ mpc = "attach"
    /\ \/ /\ \A s \in Streams : HasSource(s) => PortOf[s] # PortOf[cur]
          /\ refs' = [refs EXCEPT ![cur] = Raised(@, {"server"})]
          /\ held' = [held EXCEPT ![cur] = @ \cup {"server"}]
       \/ UNCHANGED <<refs, held>>
    /\ mpc' = "input"
    /\ UNCHANGED <<cur, loopVars, member, temp>>

\* Mutant: the loop is put into the input after the thread was started.
SetInputLate ==
    /\ mpc = "input"
    /\ mpc' = "start"
    /\ UNCHANGED <<cur, loopVars, serverVars>>

\* locked->loop = m_loop, under the lock of the input.
SetInput ==
    /\ mpc = "input"
    /\ input' = [input EXCEPT ![cur] = TRUE]
    /\ mpc' = "start"
    /\ UNCHANGED <<cur, copied, worker, running, owner, serverVars>>

\* m_loopThread.start(), and the next stream.
StartThread ==
    /\ mpc = "start"
    /\ worker' = [worker EXCEPT ![cur] = "started"]
    /\ IF cur = N THEN mpc' = "serve" /\ cur' = 1
                  ELSE mpc' = "build" /\ cur' = cur + 1
    /\ UNCHANGED <<input, copied, running, owner, serverVars>>

\* main leaves the loop over the SOAP worker and returns; it slept a second
\* there at least once, which practically is, but need not be, enough for
\* every thread to enter its loop.
LeaveMain ==
    /\ mpc = "serve"
    /\ mpc' = "quit"
    /\ UNCHANGED <<cur, loopVars, serverVars>>

-----------------------------------------------------------------------------
(* The main thread: destruction of the streams, from the first to the last. *)

\* Mutant: the destructor stops the thread and does not quit the loop.
QuitForgotten ==
    /\ mpc = "quit"
    /\ mpc' = "join"
    /\ UNCHANGED <<cur, loopVars, serverVars>>

Quit ==
    /\ mpc = "quit"
    /\ running' = [running EXCEPT ![cur] = FALSE]
    /\ mpc' = "join"
    /\ UNCHANGED <<cur, input, copied, worker, owner, serverVars>>

\* Mutant: stop() asks the thread to end and does not wait for it.
JoinNever ==
    /\ mpc = "join"
    /\ mpc' = "release"
    /\ UNCHANGED <<cur, loopVars, serverVars>>

\* m_loopThread.stop() returns when the thread has ended.
Join ==
    /\ mpc = "join"
    /\ worker[cur] = "ended"
    /\ mpc' = "release"
    /\ UNCHANGED <<cur, loopVars, serverVars>>

\* Mutant: the list of streams is destroyed past its end.
ReleasePastEnd(o) ==
    /\ mpc = "release" /\ member[cur] = Objects \ Before(o)
    /\ Unref(o)
    /\ member' = [member EXCEPT ![cur] = @ \ {o}]
    /\ IF o # "factory" THEN UNCHANGED mainVars
       ELSE IF cur > N THEN mpc' = "done" /\ UNCHANGED cur
                       ELSE mpc' = "quit" /\ cur' = cur + 1
    /\ UNCHANGED <<loopVars, temp>>

\* The destructor of the member that points to o; behind the last member,
\* the next stream.
Release(o) ==
    /\ mpc = "release" /\ member[cur] = Objects \ Before(o)
    /\ Unref(o)
    /\ member' = [member EXCEPT ![cur] = @ \ {o}]
    /\ IF o # "factory" THEN UNCHANGED mainVars
       ELSE IF cur = N THEN mpc' = "done" /\ UNCHANGED cur
                       ELSE mpc' = "quit" /\ cur' = cur + 1
    /\ UNCHANGED <<loopVars, temp>>

-----------------------------------------------------------------------------
(* The thread of a stream. *)

\* g_copyDataOnce: the input is copied when the thread begins.
CopyInput(s) ==
    /\ worker[s] = "started"
    /\ copied' = [copied EXCEPT ![s] = input[s]]
    /\ worker' = [worker EXCEPT ![s] = "work"]
    /\ UNCHANGED <<mainVars, input, running, owner, serverVars>>

\* work() without a loop returns at once.  With one it calls
\* g_main_loop_run, which marks the loop as running (a quit of before is
\* lost) and acquires the context or waits for it.
Work(s) ==
    /\ worker[s] = "work"
    /\ IF copied[s]
         THEN /\ running' = [running EXCEPT ![s] = TRUE]
              /\ IF owner = Nobody
                   THEN owner' = s /\ worker' = [worker EXCEPT ![s] = "owner"]
                   ELSE worker' = [worker EXCEPT ![s] = "waiting"] /\ UNCHANGED owner
         ELSE worker' = [worker EXCEPT ![s] = "ended"] /\ UNCHANGED <<running, owner>>
    /\ UNCHANGED <<mainVars, input, copied, serverVars>>

\* A waiting loop is woken and takes the context that was released.
TakeOver(s) ==
    /\ worker[s] = "waiting" /\ running[s]
    /\ owner = Nobody
    /\ owner' = s
    /\ worker' = [worker EXCEPT ![s] = "owner"]
    /\ UNCHANGED <<mainVars, input, copied, running, serverVars>>

\* A waiting loop that was told to quit returns from g_main_loop_run.
LeaveWaiting(s) ==
    /\ worker[s] = "waiting" /\ ~running[s]
    /\ worker' = [worker EXCEPT ![s] = "ended"]
    /\ UNCHANGED <<mainVars, input, copied, running, owner, serverVars>>

\* The loop that owns the context was told to quit: it releases the context
\* and returns.
LeaveOwner(s) ==
    /\ worker[s] = "owner" /\ ~running[s]
    /\ owner' = Nobody
    /\ worker' = [worker EXCEPT ![s] = "ended"]
    /\ UNCHANGED <<mainVars, input, copied, running, serverVars>>

-----------------------------------------------------------------------------

Build ==
    \/ NewServer \/ GetMountPoints \/ NewFactory
    \/ MoveAssign \/ DestroyTemporary
    \/ AddFactory \/ Attach \/ SetInput \/ StartThread
Destroy == Quit \/ Join \/ \E o \in Objects : Release(o)
Thread(s) == \/ CopyInput(s) \/ Work(s)
             \/ TakeOver(s) \/ LeaveWaiting(s) \/ LeaveOwner(s)

Next ==
    \/ Build
    \/ LeaveMain
    \/ Destroy
    \/ \E s \in Streams : Thread(s)

Spec == Init /\ [][Next]_vars

\* Threads run when they can; main may go on for ever (no fairness on
\* LeaveMain), and destroys the streams without a pause once it returns.
Fairness ==
    /\ WF_vars(Build) /\ WF_vars(Destroy)
    /\ \A s \in Streams : WF_vars(Thread(s))

FairSpec == Spec /\ Fairness

-----------------------------------------------------------------------------
(* Properties. *)

\* The steps of the constructor.
Building == {"build", "assign", "temporary", "mount", "attach", "input", "start"}

\* The types of the variables.
TypeOK ==
    /\ mpc \in Building \cup {"serve", "quit", "join", "release", "done"}
    /\ cur \in Streams
    /\ input \in [Streams -> BOOLEAN] /\ copied \in [Streams -> BOOLEAN]
    /\ worker \in [Streams -> {"none", "started", "work", "waiting", "owner", "ended"}]
    /\ running \in [Streams -> BOOLEAN]
    /\ owner \in Streams \cup {Nobody}
    /\ refs \in [Streams -> [Objects -> Int]]
    /\ held \in [Streams -> SUBSET Objects] /\ member \in [Streams -> SUBSET Objects]
    /\ temp \in Objects \cup {"null"}

\* The streams main has begun to destroy.
Quitted(s) ==
    \/ mpc \in {"join", "release"} /\ s <= cur
    \/ mpc = "quit" /\ s < cur
    \/ mpc = "done"

\* The streams that are built, up to the start of their thread, and not yet
\* destroyed.
Alive(s) ==
    \/ mpc \in {"input", "start"} /\ s <= cur
    \/ mpc \in Building /\ s < cur
    \/ mpc = "serve"
    \/ mpc \in {"quit", "join"} /\ cur <= s
    \/ mpc = "release" /\ cur < s

\* The streams whose members are given up, or already were.
Destroyed(s) ==
    \/ mpc \in {"quit", "join"} /\ s < cur
    \/ mpc = "release" /\ s <= cur
    \/ mpc = "done"

\* When the members of a stream are given up, its thread has ended and has
\* let go of the context that the threads of the others are waiting for,
\* wherever in its loop the destructor met it.
NoneOutlives ==
    \A s \in Streams : Destroyed(s) => worker[s] = "ended" /\ owner # s

\* The thread of a stream ends only after the destructor of the stream told
\* its loop to quit: work() never finds its copy of the input empty, though
\* the input is copied once, by another thread than the one that sets it.
LoopsRun == \A s \in Streams : worker[s] = "ended" => Quitted(s)

\* The references of the object o of s that somebody will give up: the member,
\* the temporary and the object that holds it.
Owners(s, o) ==
    (IF o \in member[s] THEN 1 ELSE 0) + (IF o \in held[s] THEN 1 ELSE 0)
    + (IF s = cur /\ o = temp THEN 1 ELSE 0)

\* The mount points of s were given the factory.
Mounted(s) ==
    \/ mpc \notin Building \/ s < cur
    \/ mpc \in {"attach", "input", "start"} /\ s = cur

(***************************************************************************)
(* Who will give a reference up has it: the count of an object is the      *)
(* number of its owners, through the temporaries and moves of the          *)
(* constructor, a source that is attached or not, and the destruction of   *)
(* the members and what GStreamer gives up in turn.  There is one          *)
(* exception, and never more than this: from add_factory on the factory    *)
(* has an owner more than references, which is what becomes of it in       *)
(* MountsMapToFactories.                                                   *)
(***************************************************************************)
OwnersCounted ==
    \A s \in Streams, o \in Objects :
        Owners(s, o) = refs[s][o] + (IF o = "factory" /\ Mounted(s) THEN 1 ELSE 0)

\* As long as a stream is there, so are its server, the mount points and
\* the factory.
ObjectsLive == \A s \in Streams : Alive(s) => \A o \in Objects : refs[s][o] > 0

\* "every server has a default object that be used to map uri mount points
\* to media factories": mount points that are there map to a factory that is.
MountsMapToFactories ==
    \A s \in Streams :
        refs[s]["mounts"] > 0 /\ "factory" \in held[s] => refs[s]["factory"] > 0

\* Once all is built, somebody serves.
GetsServed == mpc = "serve" ~> owner # Nobody

\* The thread of s is past the point where a quit is lost.
Entered(s) == worker[s] \notin {"none", "started", "work"}

\* A destructor that finds its loop entered gets the thread back, whether the
\* thread owns the context or waits for it, and whatever the other threads do.
QuitIsHeard ==
    \A s \in Streams :
        mpc = "quit" /\ cur = s /\ Entered(s) ~> mpc = "release" /\ cur = s

\* The streams whose thread was started.
Started(s) == ~(mpc \in Building /\ cur <= s)

Ready  == {s \in Streams : Started(s)}
Inside == {s \in Streams : worker[s] \in {"waiting", "owner"}}
Left   == {s \in Streams : worker[s] = "ended"}
Told   == {s \in Streams : Quitted(s)}
Gone   == {s \in Streams : Destroyed(s)}

Shared == INSTANCE SharedContext WITH
    ready <- Ready, inside <- Inside, left <- Left, told <- Told, gone <- Gone

\* The threads share the context as SharedContext says, from the first stream
\* that is built to the last that is destroyed, wherever a destructor meets
\* the threads: before their loops, in them or on their way out.
SharesContext == Shared!Spec

=============================================================================
