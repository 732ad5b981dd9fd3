---------------------------- MODULE RtspLoops_proofs ----------------------------
(***************************************************************************)
(* Proofs about RtspLoops, for every number of streams and any ports.      *)
(*                                                                         *)
(* IInv adds to the properties what the threads may rely on (a thread that *)
(* was started finds its input set, and a loop is only ever told to quit   *)
(* by the destructor of its stream) and, for the references, which members *)
(* point to their objects and which objects hold one another at each step  *)
(* of the constructor and of the destructor.                               *)
(***************************************************************************)
EXTENDS RtspLoops, TLAPS

USE NAssumption, NobodyAssumption
    DEF Streams, mainVars, loopVars, serverVars

\* What is set up for a stream before its thread exists.
InputInv ==
    \A s \in Streams :
        /\ ~Started(s) => worker[s] = "none"
        /\ worker[s] # "none" => input[s]
        /\ worker[s] \in {"work", "waiting", "owner"} => copied[s]
        /\ mpc = "start" /\ s = cur => input[s]

\* A loop runs until its destructor marks it.
RunningInv ==
    \A s \in Streams :
        worker[s] \in {"waiting", "owner"} => running[s] \/ Quitted(s)

\* The temporary points to an object during an assignment only.
TempInv ==
    /\ mpc = "assign" => temp \in Objects /\ member[cur] = Before(temp)
    /\ mpc # "assign" => temp = "null"

\* The members point to their objects while the stream lives.
MembersInv ==
    /\ mpc \in {"mount", "attach"} => member[cur] = Objects
    /\ \A s \in Streams : Alive(s) => member[s] = Objects

\* What the objects hold: a server its mount points, mount points the factory
\* they were given; the context a server that is attached.
HeldOf(s) ==
    /\ "mounts" \in held[s] <=> refs[s]["server"] > 0
    /\ "factory" \in held[s] <=> Mounted(s) /\ refs[s]["mounts"] > 0
    /\ "server" \in held[s] => Mounted(s) /\ ~(mpc = "attach" /\ s = cur)

HeldInv == \A s \in Streams : HeldOf(s)

\* OwnersCounted, of one stream.
Counted(s) ==
    \A o \in Objects :
        Owners(s, o) = refs[s][o] + (IF o = "factory" /\ Mounted(s) THEN 1 ELSE 0)

Shape == TempInv /\ MembersInv /\ HeldInv

\* One thread at a time owns the context.
OneOwner == \A s \in Streams : worker[s] = "owner" <=> owner = s

\* The destruction begins with the first stream.
FromFirst == mpc = "serve" => cur = 1

IInv ==
    /\ TypeOK
    /\ OneOwner
    /\ InputInv
    /\ RunningInv
    /\ LoopsRun
    /\ FromFirst /\ NoneOutlives
    /\ OwnersCounted /\ Shape

-----------------------------------------------------------------------------
(* The inductive invariant, part by part. *)

\* The initial states.
LEMMA InitIInv == Init => IInv
<1> SUFFICES ASSUME Init PROVE IInv
  OBVIOUS
<1> USE DEF Init
<1>1. TypeOK
  BY DEF TypeOK, NoRefs, Building, Objects
<1>2. OneOwner
  BY DEF OneOwner
<1>3. InputInv /\ RunningInv /\ LoopsRun
  BY DEF InputInv, RunningInv, LoopsRun
<1>4. OwnersCounted /\ Shape
  BY DEF OwnersCounted, Owners, Mounted, Building, Objects, NoRefs, Shape, TempInv,
         MembersInv, HeldInv, HeldOf, Alive
<1>5. FromFirst /\ NoneOutlives
  BY DEF FromFirst, NoneOutlives, Destroyed
<1> QED
  BY <1>1, <1>2, <1>3, <1>4, <1>5 DEF IInv

\* The steps of the constructor up to the source leave the threads alone.
Setup ==
    \/ NewServer \/ GetMountPoints \/ NewFactory \/ MoveAssign \/ DestroyTemporary
    \/ AddFactory \/ Attach

LEMMA SetupSteps ==
  ASSUME TypeOK, Setup
  PROVE  /\ mpc \in Building \ {"input", "start"} /\ mpc' \in Building \ {"start"}
         /\ cur' = cur /\ UNCHANGED loopVars
BY DEF Setup, NewServer, GetMountPoints, NewFactory, Obtain, MoveAssign, DestroyTemporary,
       AddFactory, Attach, Building

\* So do the destructors of the members.
LEMMA ReleaseSteps ==
  ASSUME TypeOK, NEW o \in Objects, Release(o)
  PROVE  /\ mpc = "release" /\ UNCHANGED loopVars /\ UNCHANGED temp
         /\ \/ mpc' = "release" /\ cur' = cur
            \/ cur = N /\ mpc' = "done" /\ cur' = cur
            \/ cur # N /\ mpc' = "quit" /\ cur' = cur + 1
BY DEF Release

\* A reference that is given up leaves counts and sets.
LEMMA UnrefTypes ==
  ASSUME TypeOK, NEW o \in Objects, Unref(o)
  PROVE  /\ refs' \in [Streams -> [Objects -> Int]]
         /\ held' \in [Streams -> SUBSET Objects]
<1> DEFINE losers == Losers(refs[cur], o)
<1>1. [x \in Objects |-> IF x \in losers THEN refs[cur][x] - 1 ELSE refs[cur][x]]
        \in [Objects -> Int]
  BY DEF TypeOK
<1>2. refs' = [refs EXCEPT ![cur] =
                 [x \in Objects |-> IF x \in losers THEN refs[cur][x] - 1 ELSE refs[cur][x]]]
  BY DEF Unref
<1>3. held' = [held EXCEPT ![cur] = held[cur] \ (losers \ {o})]
  BY DEF Unref
<1>4. refs' \in [Streams -> [Objects -> Int]]
  BY <1>1, <1>2 DEF TypeOK
<1>5. held' \in [Streams -> SUBSET Objects]
  BY <1>3 DEF TypeOK
<1> QED BY <1>4, <1>5

\* The types, through the constructor.
LEMMA SetupTypes == ASSUME TypeOK, TempInv, Setup PROVE TypeOK'
<1> USE DEF TypeOK
<1>1. mpc' \in Building /\ cur' \in Streams /\ UNCHANGED loopVars
  BY SetupSteps
<1>2. ASSUME NEW O \in SUBSET Objects
      PROVE  [refs EXCEPT ![cur] = Raised(@, O)] \in [Streams -> [Objects -> Int]]
  <2>1. Raised(refs[cur], O) \in [Objects -> Int]
    BY DEF Raised
  <2> QED BY <2>1
<1>3. CASE NewServer \/ GetMountPoints \/ NewFactory
  <2>1. /\ temp' \in Objects /\ member' = member
        /\ \E O \in SUBSET Objects : refs' = [refs EXCEPT ![cur] = Raised(@, O)]
    BY <1>3 DEF NewServer, GetMountPoints, NewFactory, Obtain, Objects
  <2>2. held' \in [Streams -> SUBSET Objects]
    BY <1>3 DEF NewServer, GetMountPoints, NewFactory, Objects
  <2> QED BY <1>1, <1>2, <2>1, <2>2
<1>4. CASE MoveAssign
  <2>1. temp \in Objects /\ member' = [member EXCEPT ![cur] = @ \cup {temp}]
    BY <1>4 DEF MoveAssign, TempInv
  <2>2. member' \in [Streams -> SUBSET Objects]
    BY <2>1
  <2> QED BY <1>1, <1>4, <2>2 DEF MoveAssign
<1>5. CASE DestroyTemporary
  <2>1. /\ refs' \in [Streams -> [Objects -> Int]] /\ held' \in [Streams -> SUBSET Objects]
    BY <1>5, UnrefTypes DEF DestroyTemporary
  <2> QED BY <1>1, <1>5, <2>1 DEF DestroyTemporary
<1>6. CASE AddFactory
  BY <1>1, <1>6 DEF AddFactory, Objects
<1>7. CASE Attach
  <2>1. refs' = refs \/ refs' = [refs EXCEPT ![cur] = Raised(@, {"server"})]
    BY <1>7 DEF Attach
  <2>2. refs' \in [Streams -> [Objects -> Int]]
    <3>1. {"server"} \in SUBSET Objects
      BY DEF Objects
    <3> QED BY <1>2, <2>1, <3>1
  <2>3. held' \in [Streams -> SUBSET Objects]
    <3>1. held' = held \/ held' = [held EXCEPT ![cur] = @ \cup {"server"}]
      BY <1>7 DEF Attach
    <3>2. held[cur] \cup {"server"} \in SUBSET Objects
      BY DEF Objects
    <3> QED BY <3>1, <3>2
  <2>4. UNCHANGED <<member, temp>>
    BY <1>7 DEF Attach
  <2> QED BY <1>1, <2>2, <2>3, <2>4
<1> QED BY <1>3, <1>4, <1>5, <1>6, <1>7 DEF Setup

\* The types.
LEMMA TypeStep == TypeOK /\ TempInv /\ [Next]_vars => TypeOK'
<1> SUFFICES ASSUME TypeOK, TempInv, [Next]_vars PROVE TypeOK'
  OBVIOUS
<1> USE DEF TypeOK
<1>1. CASE Setup
  BY <1>1, SetupTypes
<1>3. CASE SetInput
  BY <1>3 DEF SetInput, Building
<1>4. CASE StartThread
  <2>1. mpc' \in {"serve", "build"} /\ cur' \in Streams
    BY <1>4 DEF StartThread
  <2>2. worker' \in [Streams -> {"none", "started", "work", "waiting", "owner", "ended"}]
    BY <1>4 DEF StartThread
  <2> QED BY <1>4, <2>1, <2>2 DEF StartThread, Building
<1>5. CASE LeaveMain \/ Quit \/ Join
  BY <1>5 DEF LeaveMain, Quit, Join
<1>6. ASSUME NEW o \in Objects, Release(o) PROVE TypeOK'
  <2>1. mpc' \in {"release", "done", "quit"} /\ cur' \in Streams /\ UNCHANGED <<loopVars, temp>>
    BY <1>6, ReleaseSteps
  <2>2. refs' \in [Streams -> [Objects -> Int]] /\ held' \in [Streams -> SUBSET Objects]
    BY <1>6, UnrefTypes DEF Release
  <2>3. member' \in [Streams -> SUBSET Objects]
    BY <1>6 DEF Release
  <2> QED BY <2>1, <2>2, <2>3
<1>7. ASSUME NEW s \in Streams, Thread(s) PROVE TypeOK'
  BY <1>7 DEF Thread, CopyInput, Work, TakeOver, LeaveWaiting, LeaveOwner
<1>8. CASE UNCHANGED vars
  BY <1>8 DEF vars
<1> QED
  BY <1>1, <1>3, <1>4, <1>5, <1>6, <1>7, <1>8 DEF Next, Build, Destroy, Setup

\* The owner of the context.
LEMMA OwnerStep == TypeOK /\ OneOwner /\ InputInv /\ [Next]_vars => OneOwner'
<1> SUFFICES ASSUME TypeOK, OneOwner, InputInv, [Next]_vars PROVE OneOwner'
  OBVIOUS
<1> USE DEF TypeOK, OneOwner
<1>1. CASE Setup \/ SetInput \/ LeaveMain \/ Destroy
  <2>1. UNCHANGED <<worker, owner>>
    BY <1>1, SetupSteps, ReleaseSteps DEF SetInput, LeaveMain, Destroy, Quit, Join
  <2> QED BY <2>1
<1>2. CASE StartThread
  <2>1. worker[cur] = "none"
    BY <1>2 DEF StartThread, InputInv, Started
  <2> QED BY <1>2, <2>1 DEF StartThread
<1>3. ASSUME NEW s \in Streams, CopyInput(s) PROVE OneOwner'
  BY <1>3 DEF CopyInput
<1>4. ASSUME NEW s \in Streams, Work(s) PROVE OneOwner'
  <2>1. CASE copied[s] /\ owner = Nobody
    BY <1>4, <2>1 DEF Work
  <2>2. CASE ~(copied[s] /\ owner = Nobody)
    <3>1. owner' = owner /\ worker' \in {[worker EXCEPT ![s] = "waiting"],
                                         [worker EXCEPT ![s] = "ended"]}
      BY <1>4, <2>2 DEF Work
    <3>2. worker[s] = "work"
      BY <1>4 DEF Work
    <3> QED BY <3>1, <3>2
  <2> QED BY <2>1, <2>2
<1>5. ASSUME NEW s \in Streams, TakeOver(s) PROVE OneOwner'
  BY <1>5 DEF TakeOver
<1>6. ASSUME NEW s \in Streams, LeaveWaiting(s) \/ LeaveOwner(s) PROVE OneOwner'
  BY <1>6 DEF LeaveWaiting, LeaveOwner
<1>7. CASE UNCHANGED vars
  BY <1>7 DEF vars
<1> QED
  BY <1>1, <1>2, <1>3, <1>4, <1>5, <1>6, <1>7 DEF Next, Build, Setup, Thread

\* A thread finds its input.
LEMMA InputStep == TypeOK /\ InputInv /\ [Next]_vars => InputInv'
<1> SUFFICES ASSUME TypeOK, InputInv, [Next]_vars PROVE InputInv'
  OBVIOUS
<1> USE DEF TypeOK, InputInv, Started
<1>1. CASE Setup
  <2>1. /\ mpc \in Building /\ mpc' \in Building \ {"start"} /\ cur' = cur
        /\ UNCHANGED loopVars
    BY <1>1, SetupSteps
  <2> QED BY <2>1
<1>2. CASE SetInput \/ LeaveMain
  BY <1>2 DEF SetInput, LeaveMain, Building
<1>3. CASE StartThread
  BY <1>3 DEF StartThread, Building
<1>4. CASE Destroy
  <2>1. /\ mpc \notin Building /\ mpc' \notin Building
        /\ UNCHANGED <<input, worker, copied>>
    BY <1>4, ReleaseSteps DEF Destroy, Quit, Join, Building
  <2> QED BY <2>1 DEF Building
<1>5. ASSUME NEW s \in Streams, Thread(s) PROVE InputInv'
  <2>1. UNCHANGED <<mpc, cur, input>>
    BY <1>5 DEF Thread, CopyInput, Work, TakeOver, LeaveWaiting, LeaveOwner
  <2>2. worker[s] # "none"
    BY <1>5 DEF Thread, CopyInput, Work, TakeOver, LeaveWaiting, LeaveOwner
  <2>3. \A t \in Streams \ {s} : worker'[t] = worker[t] /\ copied'[t] = copied[t]
    BY <1>5 DEF Thread, CopyInput, Work, TakeOver, LeaveWaiting, LeaveOwner
  <2>4. worker'[s] \in {"work", "waiting", "owner"} => copied'[s]
    BY <1>5, <2>2 DEF Thread, CopyInput, Work, TakeOver, LeaveWaiting, LeaveOwner
  <2> QED BY <2>1, <2>2, <2>3, <2>4
<1>6. CASE UNCHANGED vars
  BY <1>6 DEF vars
<1> QED
  BY <1>1, <1>2, <1>3, <1>4, <1>5, <1>6 DEF Next, Build, Setup

\* A loop runs until its destructor marks it, and its thread ends after that.
LEMMA RunStep ==
  TypeOK /\ InputInv /\ RunningInv /\ LoopsRun /\ [Next]_vars
    => RunningInv' /\ LoopsRun'
<1> SUFFICES ASSUME TypeOK, InputInv, RunningInv, LoopsRun, [Next]_vars
             PROVE  RunningInv' /\ LoopsRun'
  OBVIOUS
<1> USE DEF TypeOK, RunningInv, LoopsRun, Quitted
<1>1. CASE Setup \/ SetInput \/ LeaveMain
  <2>1. /\ mpc \in Building \cup {"serve"} /\ UNCHANGED <<worker, running>>
    BY <1>1, SetupSteps DEF SetInput, LeaveMain, Building
  <2>2. \A s \in Streams : ~Quitted(s)
    BY <2>1 DEF Building
  <2> QED BY <2>1, <2>2
<1>2. CASE StartThread
  <2>1. \A s \in Streams : ~Quitted(s)
    BY <1>2 DEF StartThread
  <2> QED BY <1>2, <2>1 DEF StartThread
<1>3. CASE Quit
  BY <1>3 DEF Quit
<1>4. CASE Join
  BY <1>4 DEF Join
<1>5. ASSUME NEW o \in Objects, Release(o) PROVE RunningInv' /\ LoopsRun'
  <2>1. \A s \in Streams : Quitted(s) => s <= cur
    BY <1>5, ReleaseSteps
  <2>2. \A s \in Streams : s <= cur => Quitted(s)'
    BY <1>5, ReleaseSteps
  <2>3. UNCHANGED <<worker, running>>
    BY <1>5, ReleaseSteps
  <2> QED BY <2>1, <2>2, <2>3
<1>6. ASSUME NEW s \in Streams, Thread(s) PROVE RunningInv' /\ LoopsRun'
  <2>1. UNCHANGED <<mpc, cur>>
    BY <1>6 DEF Thread, CopyInput, Work, TakeOver, LeaveWaiting, LeaveOwner
  <2>2. \A t \in Streams \ {s} : worker'[t] = worker[t] /\ running'[t] = running[t]
    BY <1>6 DEF Thread, CopyInput, Work, TakeOver, LeaveWaiting, LeaveOwner
  <2>3. CASE CopyInput(s)
    BY <2>1, <2>2, <2>3 DEF CopyInput
  <2>4. CASE Work(s)
    <3>1. copied[s]
      BY <2>4 DEF Work, InputInv
    <3>2. running'[s] /\ worker'[s] # "ended"
      BY <2>4, <3>1 DEF Work
    <3> QED BY <2>1, <2>2, <3>2
  <2>5. CASE TakeOver(s)
    BY <2>1, <2>2, <2>5 DEF TakeOver
  <2>6. CASE LeaveWaiting(s) \/ LeaveOwner(s)
    <3>1. Quitted(s) /\ worker'[s] = "ended"
      BY <2>6 DEF LeaveWaiting, LeaveOwner
    <3> QED BY <2>1, <2>2, <3>1
  <2> QED BY <1>6, <2>3, <2>4, <2>5, <2>6 DEF Thread
<1>7. CASE UNCHANGED vars
  BY <1>7 DEF vars
<1> QED
  BY <1>1, <1>2, <1>3, <1>4, <1>5, <1>6, <1>7 DEF Next, Build, Setup, Destroy

\* A thread that has ended is not started again.
LEMMA OutliveStep ==
  TypeOK /\ OneOwner /\ FromFirst /\ NoneOutlives /\ [Next]_vars
    => FromFirst' /\ NoneOutlives'
<1> SUFFICES ASSUME TypeOK, OneOwner, FromFirst, NoneOutlives, [Next]_vars
             PROVE  FromFirst' /\ NoneOutlives'
  OBVIOUS
<1> USE DEF TypeOK, FromFirst, NoneOutlives, Destroyed
<1>1. CASE Build \/ LeaveMain
  <2>1. CASE Build
    <3>1. mpc' \in Building \cup {"serve"} /\ (mpc' = "serve" => cur' = 1)
      BY <2>1, SetupSteps DEF Build, Setup, SetInput, StartThread, Building
    <3> QED BY <3>1 DEF Building
  <2>2. CASE LeaveMain
    <3>1. mpc' = "quit" /\ cur' = 1
      BY <2>2 DEF LeaveMain
    <3>2. \A s \in Streams : ~(s < 1)
      OBVIOUS
    <3> QED BY <3>1, <3>2
  <2> QED BY <1>1, <2>1, <2>2
<1>2. CASE Quit
  BY <1>2 DEF Quit
<1>3. CASE Join
  <2>1. worker[cur] = "ended" /\ owner # cur
    BY <1>3 DEF Join, OneOwner
  <2> QED BY <1>3, <2>1 DEF Join
<1>4. ASSUME NEW o \in Objects, Release(o) PROVE FromFirst' /\ NoneOutlives'
  <2>1. \A s \in Streams : s <= cur => worker[s] = "ended" /\ owner # s
    BY <1>4, ReleaseSteps
  <2>2. \A s \in Streams : Destroyed(s)' => s <= cur
    BY <1>4, ReleaseSteps
  <2>3. UNCHANGED <<worker, owner>> /\ mpc' # "serve"
    BY <1>4, ReleaseSteps
  <2> QED BY <2>1, <2>2, <2>3
<1>5. ASSUME NEW t \in Streams, Thread(t) PROVE FromFirst' /\ NoneOutlives'
  <2>1. UNCHANGED <<mpc, cur>> /\ worker[t] # "ended" /\ owner' \in {owner, t, Nobody}
    BY <1>5 DEF Thread, CopyInput, Work, TakeOver, LeaveWaiting, LeaveOwner
  <2>2. \A s \in Streams \ {t} : worker'[s] = worker[s]
    BY <1>5 DEF Thread, CopyInput, Work, TakeOver, LeaveWaiting, LeaveOwner
  <2> QED BY <2>1, <2>2
<1>6. CASE UNCHANGED vars
  BY <1>6 DEF vars
<1> QED
  BY <1>1, <1>2, <1>3, <1>4, <1>5, <1>6 DEF Next, Destroy

\* The assignments of the members are in their order.
LEMMA Order ==
  /\ \A o \in Objects : Before(o) \subseteq Objects /\ o \notin Before(o)
  /\ Before("factory") \cup {"factory"} = Objects
BY DEF Before, Objects

\* Where main is tells what the temporary and the members point to.
LEMMA TempStep == TypeOK /\ Shape /\ [Next]_vars => TempInv'
<1> SUFFICES ASSUME TypeOK, Shape, [Next]_vars PROVE TempInv'
  OBVIOUS
<1> USE DEF Shape, TempInv
<1>1. CASE NewServer \/ GetMountPoints \/ NewFactory
  <2>1. \E o \in Objects : temp' = o /\ mpc' = "assign" /\ cur' = cur /\ member' = member
                           /\ member[cur] = Before(o)
    BY <1>1 DEF NewServer, GetMountPoints, NewFactory, Obtain, Objects
  <2> QED BY <2>1
<1>2. CASE MoveAssign \/ DestroyTemporary
  BY <1>2 DEF MoveAssign, DestroyTemporary
<1>3. CASE AddFactory \/ Attach \/ SetInput \/ StartThread \/ LeaveMain \/ Quit \/ Join
  BY <1>3 DEF AddFactory, Attach, SetInput, StartThread, LeaveMain, Quit, Join
<1>4. ASSUME NEW o \in Objects, Release(o) PROVE TempInv'
  BY <1>4, ReleaseSteps
<1>5. ASSUME NEW s \in Streams, Thread(s) PROVE TempInv'
  BY <1>5 DEF Thread, CopyInput, Work, TakeOver, LeaveWaiting, LeaveOwner
<1>6. CASE UNCHANGED vars
  BY <1>6 DEF vars
<1> QED
  BY <1>1, <1>2, <1>3, <1>4, <1>5, <1>6 DEF Next, Build, Destroy

LEMMA MembersStep == TypeOK /\ Shape /\ [Next]_vars => MembersInv'
<1> SUFFICES ASSUME TypeOK, Shape, [Next]_vars PROVE MembersInv'
  OBVIOUS
<1> USE DEF Shape, MembersInv, Alive, TypeOK
<1>1. CASE NewServer \/ GetMountPoints \/ NewFactory
  BY <1>1 DEF NewServer, GetMountPoints, NewFactory, Obtain, Building
<1>2. CASE MoveAssign
  BY <1>2 DEF MoveAssign, Building
<1>3. CASE DestroyTemporary
  BY <1>3 DEF DestroyTemporary, Building
<1>4. CASE AddFactory \/ Attach
  BY <1>4 DEF AddFactory, Attach, Building
<1>5. CASE SetInput \/ LeaveMain \/ Quit \/ Join
  BY <1>5 DEF SetInput, LeaveMain, Quit, Join, Building
<1>6. CASE StartThread
  <2>1. CASE cur = N
    BY <1>6, <2>1 DEF StartThread, Building
  <2>2. CASE cur # N
    BY <1>6, <2>2 DEF StartThread, Building
  <2> QED BY <2>1, <2>2
<1>7. ASSUME NEW o \in Objects, Release(o) PROVE MembersInv'
  <2>1. \A s \in Streams \ {cur} : member'[s] = member[s]
    BY <1>7 DEF Release
  <2>2. ASSUME NEW s \in Streams, Alive(s)' PROVE Alive(s) /\ s # cur
    <3>1. mpc = "release" /\ cur \in 1 .. N /\ N \in Nat
      BY <1>7, ReleaseSteps
    <3>2. CASE mpc' = "release" /\ cur' = cur
      BY <2>2, <3>1, <3>2 DEF Building
    <3>3. CASE mpc' = "done"
      BY <2>2, <3>3 DEF Building
    <3>4. CASE mpc' = "quit" /\ cur' = cur + 1
      BY <2>2, <3>1, <3>4 DEF Building
    <3> QED BY <1>7, <3>2, <3>3, <3>4, ReleaseSteps
  <2>3. mpc' \notin {"mount", "attach"}
    BY <1>7, ReleaseSteps
  <2> QED BY <2>1, <2>2, <2>3
<1>8. ASSUME NEW s \in Streams, Thread(s) PROVE MembersInv'
  <2>1. UNCHANGED <<mpc, cur, member>>
    BY <1>8 DEF Thread, CopyInput, Work, TakeOver, LeaveWaiting, LeaveOwner
  <2> QED BY <2>1
<1>9. CASE UNCHANGED vars
  BY <1>9 DEF vars
<1> QED
  BY <1>1, <1>2, <1>3, <1>4, <1>5, <1>6, <1>7, <1>8, <1>9 DEF Next, Build, Destroy

\* What one reference given up changes: the count of o, and if a server goes
\* with its last one its mount points, if mount points go their factory.
LEMMA UnrefCounts ==
  ASSUME TypeOK, NEW o \in Objects, Unref(o)
  PROVE  /\ \A s \in Streams \ {cur} : refs'[s] = refs[s] /\ held'[s] = held[s]
         /\ \A x \in Objects :
              /\ refs'[cur][x] = IF x \in Losers(refs[cur], o) THEN refs[cur][x] - 1
                                 ELSE refs[cur][x]
              /\ x \in held'[cur] <=> x \in held[cur] /\ (x \in Losers(refs[cur], o) => x = o)
BY DEF Unref, TypeOK

\* A stream whose objects and members stay as they are.
LEMMA Kept ==
  ASSUME TypeOK, NEW s \in Streams, Counted(s), HeldOf(s),
         refs'[s] = refs[s], held'[s] = held[s], member'[s] = member[s],
         Mounted(s)' <=> Mounted(s),
         s = cur => temp = "null", s = cur' => temp' = "null",
         s = cur' /\ mpc' = "attach" => "server" \notin held[s]
  PROVE  Counted(s)' /\ HeldOf(s)'
<1>1. ASSUME NEW o \in Objects PROVE Owners(s, o)' = Owners(s, o)
  BY DEF Owners, Objects
<1>2. Counted(s)'
  BY <1>1 DEF Counted
<1>3. HeldOf(s)'
  BY DEF HeldOf
<1> QED BY <1>2, <1>3

\* The constructor of one stream keeps what is true of the others.
LEMMA OthersKept ==
  ASSUME TypeOK, Setup, NEW s \in Streams, s # cur, Counted(s), HeldOf(s)
  PROVE  Counted(s)' /\ HeldOf(s)'
<1> USE DEF TypeOK
<1>1. mpc \in Building /\ mpc' \in Building /\ cur' = cur
  BY SetupSteps
<1>2. Mounted(s)' <=> Mounted(s)
  BY <1>1 DEF Mounted
<1>3. refs'[s] = refs[s] /\ held'[s] = held[s] /\ member'[s] = member[s]
  <2>1. CASE NewServer \/ GetMountPoints \/ NewFactory
    BY <2>1 DEF NewServer, GetMountPoints, NewFactory, Obtain
  <2>2. CASE MoveAssign \/ AddFactory \/ Attach
    BY <2>2 DEF MoveAssign, AddFactory, Attach
  <2>3. CASE DestroyTemporary
    BY <2>3 DEF DestroyTemporary, Unref
  <2> QED BY <2>1, <2>2, <2>3 DEF Setup
<1> QED BY <1>1, <1>2, <1>3, Kept

\* The constructor: what it obtains, moves, mounts and attaches is counted.
LEMMA SetupCounts ==
  ASSUME TypeOK, Shape, Counted(cur), HeldOf(cur), Setup
  PROVE  Counted(cur)' /\ HeldOf(cur)'
<1> USE DEF TypeOK, Objects
<1>1. cur' = cur /\ mpc \in Building /\ mpc' \in Building
  BY SetupSteps
<1>2. CASE NewServer
  <2>1. /\ mpc = "build" /\ mpc' = "assign" /\ temp = "null" /\ temp' = "server"
        /\ member[cur] = {} /\ member' = member /\ ~Mounted(cur) /\ ~Mounted(cur)'
    BY <1>1, <1>2 DEF NewServer, Obtain, Before, Mounted, Shape, TempInv, Building
  <2>2. held[cur] = {} /\ refs[cur]["server"] = 0
    <3>1. "server" \notin held[cur] /\ "factory" \notin held[cur]
      BY <2>1 DEF HeldOf
    <3>2. Owners(cur, "server") = 0 /\ Owners(cur, "server") = refs[cur]["server"]
      BY <2>1, <3>1 DEF Owners, Counted
    <3>3. refs[cur]["server"] = 0 /\ "mounts" \notin held[cur]
      BY <3>2 DEF HeldOf
    <3>4. \A x \in held[cur] : x \in {"server", "mounts", "factory"}
      OBVIOUS
    <3>5. \A x : x \notin held[cur]
      BY <3>1, <3>3, <3>4
    <3>6. held[cur] = {}
      BY <3>5
    <3> QED BY <3>3, <3>6
  <2>3. /\ refs'[cur]["server"] = refs[cur]["server"] + 1
        /\ refs'[cur]["mounts"] = refs[cur]["mounts"] + 1
        /\ refs'[cur]["factory"] = refs[cur]["factory"]
        /\ held'[cur] = {"mounts"}
    BY <1>2, <2>2 DEF NewServer, Obtain, Raised
  <2>4. Counted(cur)'
    BY <1>1, <2>1, <2>2, <2>3 DEF Counted, Owners
  <2>5. HeldOf(cur)'
    BY <1>1, <2>1, <2>2, <2>3 DEF HeldOf
  <2> QED BY <2>4, <2>5
<1>3. CASE GetMountPoints \/ NewFactory
  <2>1. PICK o \in {"mounts", "factory"} :
          /\ temp' = o /\ refs' = [refs EXCEPT ![cur] = Raised(@, {o})]
          /\ mpc = "build" /\ mpc' = "assign" /\ UNCHANGED <<held, member>>
    BY <1>3 DEF GetMountPoints, NewFactory, Obtain
  <2>2. temp = "null" /\ ~Mounted(cur) /\ ~Mounted(cur)'
    BY <1>1, <2>1 DEF Mounted, Shape, TempInv, Building
  <2>3. \A x \in Objects : refs'[cur][x] = IF x = o THEN refs[cur][x] + 1 ELSE refs[cur][x]
    BY <2>1 DEF Raised
  <2>4. Counted(cur)'
    <3>1. ASSUME NEW x \in Objects
          PROVE  Owners(cur, x)' = Owners(cur, x) + (IF x = o THEN 1 ELSE 0)
      <4>1. Owners(cur, x) = (IF x \in member[cur] THEN 1 ELSE 0)
                             + (IF x \in held[cur] THEN 1 ELSE 0)
        BY <2>2 DEF Owners
      <4>2. Owners(cur, x)' = (IF x \in member[cur] THEN 1 ELSE 0)
                              + (IF x \in held[cur] THEN 1 ELSE 0)
                              + (IF x = o THEN 1 ELSE 0)
        BY <1>1, <2>1 DEF Owners
      <4> QED BY <4>1, <4>2
    <3>2. \A x \in Objects : Owners(cur, x) = refs[cur][x]
      BY <2>2 DEF Counted
    <3>3. \A x \in Objects : Owners(cur, x)' = refs'[cur][x] + 0
      BY <2>3, <3>1, <3>2
    <3> QED BY <1>1, <2>2, <3>3 DEF Counted
  <2>5. HeldOf(cur)'
    BY <1>1, <2>1, <2>2, <2>3 DEF HeldOf
  <2> QED BY <2>4, <2>5
<1>4. CASE MoveAssign
  <2>1. /\ mpc = "assign" /\ mpc' = "temporary" /\ temp \in Objects /\ temp \notin member[cur]
        /\ temp' = "null" /\ member'[cur] = member[cur] \cup {temp} /\ UNCHANGED <<refs, held>>
    BY <1>4, Order DEF MoveAssign, Shape, TempInv
  <2>2. ~Mounted(cur) /\ ~Mounted(cur)'
    BY <1>1, <2>1 DEF Mounted, Building
  <2>3. Counted(cur)'
    <3>1. ASSUME NEW x \in Objects PROVE Owners(cur, x)' = Owners(cur, x)
      BY <1>1, <2>1 DEF Owners
    <3> QED BY <1>1, <2>1, <2>2, <3>1 DEF Counted
  <2>4. HeldOf(cur)'
    BY <1>1, <2>1, <2>2 DEF HeldOf
  <2> QED BY <2>3, <2>4
<1>5. CASE DestroyTemporary
  <2>1. /\ mpc = "temporary" /\ mpc' \in {"mount", "build"} /\ temp = "null" /\ temp' = "null"
        /\ UNCHANGED <<refs, held, member>>
    BY <1>5 DEF DestroyTemporary, Shape, TempInv
  <2>2. ~Mounted(cur) /\ ~Mounted(cur)'
    BY <1>1, <2>1 DEF Mounted, Building
  <2> QED BY <1>1, <2>1, <2>2, Kept
<1>6. CASE AddFactory
  <2>1. /\ mpc = "mount" /\ mpc' = "attach" /\ temp = "null" /\ member[cur] = Objects
        /\ held'[cur] = held[cur] \cup {"factory"} /\ UNCHANGED <<refs, member, temp>>
    BY <1>6 DEF AddFactory, Shape, TempInv, MembersInv
  <2>2. ~Mounted(cur) /\ Mounted(cur)'
    BY <1>1, <2>1 DEF Mounted, Building
  <2>3. "factory" \notin held[cur] /\ "server" \notin held[cur]
    BY <2>2 DEF HeldOf
  <2>4. Owners(cur, "mounts") >= 1 /\ Owners(cur, "mounts") = refs[cur]["mounts"]
    BY <2>1 DEF Counted, Owners
  <2>5. Counted(cur)'
    BY <1>1, <2>1, <2>2, <2>3 DEF Counted, Owners
  <2>6. HeldOf(cur)'
    BY <1>1, <2>1, <2>2, <2>3, <2>4 DEF HeldOf
  <2> QED BY <2>5, <2>6
<1>7. CASE Attach
  <2>1. mpc = "attach" /\ mpc' = "input" /\ temp = "null" /\ UNCHANGED <<member, temp>>
    BY <1>7 DEF Attach, Shape, TempInv
  <2>2. Mounted(cur) /\ Mounted(cur)' /\ "server" \notin held[cur]
    BY <1>1, <2>1 DEF Mounted, HeldOf
  <2>3. CASE UNCHANGED <<refs, held>>
    BY <1>1, <2>1, <2>2, <2>3, Kept
  <2>4. CASE refs' = [refs EXCEPT ![cur] = Raised(@, {"server"})]
             /\ held' = [held EXCEPT ![cur] = @ \cup {"server"}]
    <3>1. /\ \A x \in Objects :
               refs'[cur][x] = IF x = "server" THEN refs[cur][x] + 1 ELSE refs[cur][x]
          /\ held'[cur] = held[cur] \cup {"server"}
      BY <2>4 DEF Raised
    <3>2. Counted(cur)'
      <4>1. ASSUME NEW x \in Objects
            PROVE  Owners(cur, x)' = Owners(cur, x) + (IF x = "server" THEN 1 ELSE 0)
        <5>1. Owners(cur, x) = (IF x \in member[cur] THEN 1 ELSE 0)
                               + (IF x \in held[cur] THEN 1 ELSE 0)
          BY <2>1 DEF Owners
        <5>2. Owners(cur, x)' = (IF x \in member[cur] THEN 1 ELSE 0)
                                + (IF x \in held'[cur] THEN 1 ELSE 0)
          BY <1>1, <2>1 DEF Owners
        <5> QED BY <2>2, <3>1, <5>1, <5>2
      <4>2. ASSUME NEW x \in Objects
            PROVE  Owners(cur, x)' = refs'[cur][x] + (IF x = "factory" THEN 1 ELSE 0)
        <5>1. Owners(cur, x) = refs[cur][x] + (IF x = "factory" THEN 1 ELSE 0)
          BY <2>2 DEF Counted
        <5>2. refs'[cur][x] = IF x = "server" THEN refs[cur][x] + 1 ELSE refs[cur][x]
          BY <3>1
        <5> QED BY <4>1, <5>1, <5>2
      <4> QED BY <1>1, <2>2, <4>2 DEF Counted
    <3>3. refs[cur]["server"] >= 1
      <4>1. Owners(cur, "server") >= 1 /\ Owners(cur, "server") = refs[cur]["server"]
        BY <2>1 DEF Counted, Owners, Shape, MembersInv
      <4> QED BY <4>1
    <3>4. HeldOf(cur)'
      BY <1>1, <2>1, <2>2, <3>1, <3>3 DEF HeldOf
    <3> QED BY <3>2, <3>4
  <2> QED BY <1>7, <2>3, <2>4 DEF Attach
<1> QED BY <1>2, <1>3, <1>4, <1>5, <1>6, <1>7 DEF Setup

\* The destructor of one stream: what the members and GStreamer give up.
LEMMA ReleaseCounts ==
  ASSUME TypeOK, Shape, OwnersCounted, NEW o \in Objects, Release(o)
  PROVE  \A s \in Streams : Counted(s)' /\ HeldOf(s)'
<1> USE DEF TypeOK
<1>0. PICK c \in Streams : c = cur
  OBVIOUS
<1> DEFINE l == Losers(refs[c], o)
<1>1. /\ mpc = "release" /\ mpc' \notin Building /\ temp = "null" /\ temp' = "null"
      /\ member[c] = Objects \ Before(o) /\ member'[c] = member[c] \ {o}
  BY <1>0, ReleaseSteps DEF Release, Shape, TempInv, Building
<1>2. \A s \in Streams : Mounted(s) /\ Mounted(s)' /\ Counted(s) /\ HeldOf(s)
  BY <1>1 DEF Mounted, Building, OwnersCounted, Counted, Shape, HeldInv
<1>3. ASSUME NEW s \in Streams, s # c PROVE Counted(s)' /\ HeldOf(s)'
  <2>1. refs'[s] = refs[s] /\ held'[s] = held[s] /\ member'[s] = member[s]
    BY <1>0, <1>3, UnrefCounts DEF Release
  <2> QED BY <1>1, <1>2, <1>3, <2>1, Kept DEF Building
<1>4. Counted(c)' /\ HeldOf(c)'
  <2>1. /\ \A x \in Objects :
             /\ refs'[c][x] = IF x \in l THEN refs[c][x] - 1 ELSE refs[c][x]
             /\ x \in held'[c] <=> x \in held[c] /\ (x \in l => x = o)
    BY <1>0, UnrefCounts DEF Release
  <2>2. ASSUME NEW x \in Objects
        PROVE  (IF x \in member[c] THEN 1 ELSE 0) + (IF x \in held[c] THEN 1 ELSE 0)
                 = refs[c][x] + (IF x = "factory" THEN 1 ELSE 0)
    <3>1. Owners(c, x) = refs[c][x] + (IF x = "factory" THEN 1 ELSE 0)
      BY <1>2 DEF Counted
    <3>2. ~(c = cur /\ x = temp)
      BY <1>1 DEF Objects
    <3>3. Owners(c, x) = (IF x \in member[c] THEN 1 ELSE 0) + (IF x \in held[c] THEN 1 ELSE 0)
      BY <3>2 DEF Owners
    <3> QED BY <3>1, <3>3
  <2>3. ASSUME NEW x \in Objects
        PROVE  Owners(c, x)' = (IF x \in member'[c] THEN 1 ELSE 0)
                               + (IF x \in held'[c] THEN 1 ELSE 0)
    <3>1. ~(c = cur' /\ x = temp')
      BY <1>1 DEF Objects
    <3> QED BY <3>1 DEF Owners
  <2>4. "mounts" \in held[c] <=> refs[c]["server"] > 0
    BY <1>2 DEF HeldOf
  <2>5. "factory" \in held[c] <=> refs[c]["mounts"] > 0
    BY <1>2 DEF HeldOf
  <2>6. \A x \in Objects : refs[c][x] \in Int
    OBVIOUS
  <2>7. SUFFICES /\ \A x \in Objects :
                      (IF x \in member'[c] THEN 1 ELSE 0) + (IF x \in held'[c] THEN 1 ELSE 0)
                        = refs'[c][x] + (IF x = "factory" THEN 1 ELSE 0)
                 /\ "mounts" \in held'[c] <=> refs'[c]["server"] > 0
                 /\ "factory" \in held'[c] <=> refs'[c]["mounts"] > 0
    <3>1. HeldOf(c)'
      BY <1>1, <1>2, <2>7 DEF HeldOf, Building
    <3>2. Counted(c)'
      BY <1>2, <2>3, <2>7 DEF Counted
    <3> QED BY <3>1, <3>2
  <2>8. CASE o = "server"
    <3>1. member[c] = Objects /\ member'[c] = {"mounts", "factory"}
      BY <1>1, <2>8 DEF Before, Objects
    <3>2. refs[c]["server"] > 0
      BY <2>2, <2>6, <3>1 DEF Objects
    <3>3. "mounts" \in held[c] /\ refs[c]["mounts"] = 2 /\ "factory" \in held[c]
      BY <2>2, <2>4, <2>5, <2>6, <3>1, <3>2 DEF Objects
    <3>4. CASE refs[c]["server"] = 1
      <4>1. l = {"server", "mounts"}
        BY <2>8, <3>3, <3>4 DEF Losers
      <4> HIDE DEF l
      <4>2. "server" \notin held[c]
        BY <2>2, <3>1, <3>4 DEF Objects
      <4>3. refs'[c]["server"] = 0 /\ refs'[c]["mounts"] = 1 /\ refs'[c]["factory"] = refs[c]["factory"]
        <5>1. refs'[c]["server"] = refs[c]["server"] - 1
          BY <2>1, <4>1 DEF Objects
        <5>2. refs'[c]["mounts"] = refs[c]["mounts"] - 1
          BY <2>1, <4>1 DEF Objects
        <5>3. refs'[c]["factory"] = refs[c]["factory"]
          BY <2>1, <4>1 DEF Objects
        <5> QED BY <3>3, <3>4, <5>1, <5>2, <5>3
      <4>4. "server" \notin held'[c] /\ "mounts" \notin held'[c] /\ "factory" \in held'[c]
        BY <2>1, <2>8, <3>3, <4>1, <4>2 DEF Objects
      <4>5. refs[c]["factory"] = 1
        BY <2>2, <2>6, <3>1, <3>3 DEF Objects
      <4> QED BY <3>1, <4>3, <4>4, <4>5 DEF Objects
    <3>5. CASE refs[c]["server"] # 1
      <4>1. l = {"server"}
        BY <2>8, <3>5 DEF Losers
      <4> HIDE DEF l
      <4>2. "server" \in held[c] /\ refs[c]["server"] = 2
        BY <2>2, <2>6, <3>1, <3>5 DEF Objects
      <4>3. refs'[c]["server"] = 1 /\ refs'[c]["mounts"] = 2 /\ refs'[c]["factory"] = refs[c]["factory"]
        BY <2>1, <3>3, <4>1, <4>2 DEF Objects
      <4>4. "server" \in held'[c] /\ "mounts" \in held'[c] /\ "factory" \in held'[c]
        BY <2>1, <2>8, <3>3, <4>1, <4>2 DEF Objects
      <4>5. refs[c]["factory"] = 1
        BY <2>2, <2>6, <3>1, <3>3 DEF Objects
      <4> QED BY <3>1, <4>3, <4>4, <4>5 DEF Objects
    <3> QED BY <3>4, <3>5
  <2>9. CASE o = "mounts"
    <3>1. member[c] = {"mounts", "factory"} /\ member'[c] = {"factory"}
      BY <1>1, <2>9 DEF Before, Objects
    <3>2. refs[c]["mounts"] > 0 /\ "factory" \in held[c] /\ refs[c]["factory"] = 1
      BY <2>2, <2>5, <2>6, <3>1 DEF Objects
    <3>3. refs'[c]["server"] = refs[c]["server"] /\ refs'[c]["mounts"] = refs[c]["mounts"] - 1
      BY <2>1, <2>9 DEF Losers, Objects
    <3>4. /\ "server" \in held'[c] <=> "server" \in held[c]
          /\ "mounts" \in held'[c] <=> "mounts" \in held[c]
      BY <2>1, <2>9 DEF Losers, Objects
    <3>5. /\ refs[c]["mounts"] = 1 + (IF "mounts" \in held[c] THEN 1 ELSE 0)
          /\ refs[c]["server"] = (IF "server" \in held[c] THEN 1 ELSE 0)
      BY <2>2, <2>6, <3>1 DEF Objects
    <3>6. CASE refs[c]["mounts"] = 1
      <4>1. refs'[c]["factory"] = 0 /\ "factory" \notin held'[c]
        BY <2>1, <2>9, <3>2, <3>6 DEF Losers, Objects
      <4> QED BY <2>4, <3>1, <3>3, <3>4, <3>5, <3>6, <4>1 DEF Objects
    <3>7. CASE refs[c]["mounts"] # 1
      <4>1. refs'[c]["factory"] = 1 /\ "factory" \in held'[c]
        BY <2>1, <2>9, <3>2, <3>7 DEF Losers, Objects
      <4>2. refs[c]["mounts"] = 2
        BY <3>5, <3>7
      <4> QED BY <2>4, <3>1, <3>3, <3>4, <3>5, <4>1, <4>2 DEF Objects
    <3> QED BY <3>6, <3>7
  <2>10. CASE o = "factory"
    <3>1. member[c] = {"factory"} /\ member'[c] = {}
      BY <1>1, <2>10 DEF Before, Objects
    <3>2. l = {"factory"}
      BY <2>10 DEF Losers
    <3> HIDE DEF l
    <3>3. /\ refs'[c]["server"] = refs[c]["server"] /\ refs'[c]["mounts"] = refs[c]["mounts"]
          /\ refs'[c]["factory"] = refs[c]["factory"] - 1
      BY <2>1, <3>2 DEF Objects
    <3>4. \A x \in Objects : x \in held'[c] <=> x \in held[c]
      BY <2>1, <2>10, <3>2
    <3>5. /\ refs[c]["server"] = (IF "server" \in held[c] THEN 1 ELSE 0)
          /\ refs[c]["mounts"] = (IF "mounts" \in held[c] THEN 1 ELSE 0)
          /\ refs[c]["factory"] = (IF "factory" \in held[c] THEN 1 ELSE 0)
      BY <2>2, <2>6, <3>1 DEF Objects
    <3> QED BY <2>4, <2>5, <3>1, <3>3, <3>4, <3>5 DEF Objects
  <2> QED BY <2>8, <2>9, <2>10 DEF Objects
<1> QED BY <1>3, <1>4

\* The counts and what is held, step by step.
LEMMA CountsStep ==
  TypeOK /\ Shape /\ OwnersCounted /\ [Next]_vars => OwnersCounted' /\ HeldInv'
<1> SUFFICES ASSUME TypeOK, Shape, OwnersCounted, [Next]_vars, NEW s \in Streams
             PROVE  Counted(s)' /\ HeldOf(s)'
  BY DEF OwnersCounted, Counted, HeldInv
<1>1. Counted(s) /\ HeldOf(s)
  BY DEF OwnersCounted, Counted, HeldInv, Shape
<1>2. CASE Setup
  <2>1. CASE s = cur
    <3>1. Counted(cur)' /\ HeldOf(cur)'
      BY <1>1, <1>2, <2>1, SetupCounts
    <3>2. cur' = cur
      BY <1>2, SetupSteps
    <3> QED BY <2>1, <3>1, <3>2
  <2>2. CASE s # cur
    BY <1>1, <1>2, <2>2, OthersKept
  <2> QED BY <2>1, <2>2
<1>3. CASE SetInput \/ StartThread \/ LeaveMain \/ Quit \/ Join
  <2>1. temp = "null" /\ UNCHANGED serverVars /\ mpc' # "attach"
    BY <1>3 DEF SetInput, StartThread, LeaveMain, Quit, Join, Shape, TempInv
  <2>2. Mounted(s)' <=> Mounted(s)
    <3>1. CASE StartThread
      <4>1. CASE cur = N
        BY <3>1, <4>1 DEF StartThread, Mounted, Building, TypeOK
      <4>2. CASE cur # N
        BY <3>1, <4>2 DEF StartThread, Mounted, Building, TypeOK
      <4> QED BY <4>1, <4>2
    <3>2. CASE SetInput \/ LeaveMain \/ Quit \/ Join
      BY <3>2 DEF SetInput, LeaveMain, Quit, Join, Mounted, Building
    <3> QED BY <1>3, <3>1, <3>2
  <2> QED BY <1>1, <2>1, <2>2, Kept
<1>4. ASSUME NEW o \in Objects, Release(o) PROVE Counted(s)' /\ HeldOf(s)'
  BY <1>4, ReleaseCounts
<1>5. CASE UNCHANGED <<mpc, cur, serverVars>>
  BY <1>1, <1>5 DEF Counted, Owners, HeldOf, Mounted
<1>6. ASSUME NEW t \in Streams, Thread(t) PROVE UNCHANGED <<mpc, cur, serverVars>>
  BY <1>6 DEF Thread, CopyInput, Work, TakeOver, LeaveWaiting, LeaveOwner
<1> QED
  BY <1>2, <1>3, <1>4, <1>5, <1>6 DEF Next, Build, Setup, Destroy, vars

\* The references.
LEMMA RefsStep == TypeOK /\ Shape /\ OwnersCounted /\ [Next]_vars => OwnersCounted' /\ Shape'
BY TempStep, MembersStep, CountsStep DEF Shape

-----------------------------------------------------------------------------
(* The theorems. *)

\* The strengthened invariant holds in every reachable state.
LEMMA Invariance == Spec => []IInv
<1>1. IInv /\ [Next]_vars => IInv'
  BY TypeStep, OwnerStep, InputStep, RunStep, OutliveStep, RefsStep DEF IInv, Shape
<1> QED
  BY <1>1, InitIInv, PTL DEF Spec

\* The variables keep their types.
THEOREM TypeCorrect == Spec => []TypeOK
<1>1. IInv => TypeOK
  BY DEF IInv
<1> QED
  BY <1>1, Invariance, PTL

\* No thread outlives its stream.
THEOREM NoneOutlivesHolds == Spec => []NoneOutlives
<1>1. IInv => NoneOutlives
  BY DEF IInv
<1> QED
  BY <1>1, Invariance, PTL

\* No thread of a stream ends before the stream is destroyed.
THEOREM LoopsRunHolds == Spec => []LoopsRun
<1>1. IInv => LoopsRun
  BY DEF IInv
<1> QED
  BY <1>1, Invariance, PTL

\* Every reference is given up by whoever has it, but for the one of the factory.
THEOREM OwnersCountedHolds == Spec => []OwnersCounted
<1>1. IInv => OwnersCounted
  BY DEF IInv
<1> QED
  BY <1>1, Invariance, PTL

\* Why counts that are off by one are still enough while the stream lives.
LEMMA CountsKeepAlive == IInv => ObjectsLive
<1> SUFFICES ASSUME IInv, NEW s \in Streams, Alive(s), NEW o \in Objects
             PROVE  refs[s][o] > 0
  BY DEF ObjectsLive
<1> USE DEF IInv, TypeOK
<1>1. o \in member[s] /\ Mounted(s)
  BY DEF Shape, MembersInv, Alive, Mounted, Building
<1>2. Owners(s, o) >= 1 /\ Owners(s, o) \in Int
  BY <1>1 DEF Owners
<1>3. Owners(s, o) = refs[s][o] + (IF o = "factory" /\ Mounted(s) THEN 1 ELSE 0)
  BY DEF OwnersCounted
<1>4. CASE o # "factory"
  BY <1>2, <1>3, <1>4
<1>5. CASE o = "factory"
  <2>1. "mounts" \in member[s] /\ "mounts" \in Objects /\ refs[s]["mounts"] \in Int
    BY DEF Shape, MembersInv, Objects
  <2>2. Owners(s, "mounts") >= 1 /\ Owners(s, "mounts") = refs[s]["mounts"]
    <3>1. Owners(s, "mounts") >= 1
      BY <2>1 DEF Owners
    <3>2. Owners(s, "mounts") = refs[s]["mounts"] + 0
      BY <2>1 DEF OwnersCounted
    <3> QED BY <2>1, <3>1, <3>2
  <2>3. "factory" \in held[s]
    BY <1>1, <2>1, <2>2 DEF Shape, HeldInv, HeldOf
  <2>4. Owners(s, o) >= 2
    BY <1>1, <1>5, <2>3 DEF Owners
  <2> QED BY <1>1, <1>2, <1>3, <1>5, <2>4
<1> QED BY <1>4, <1>5

\* The objects of a stream live as long as the stream, though the factory has
\* a reference less than owners: the destructor is where it shows.
THEOREM ObjectsLiveHolds == Spec => []ObjectsLive
<1> QED
  BY CountsKeepAlive, Invariance, PTL

-----------------------------------------------------------------------------
(* The refinement of SharedContext. *)

\* The threads of the streams: what they do to the sets of SharedContext.
LEMMA SharedThread ==
  ASSUME IInv, NEW s \in Streams, Thread(s)
  PROVE  [Shared!Next]_(Shared!vars)
<1> USE DEF IInv, TypeOK
<1>1. UNCHANGED <<Ready, Told, Gone>>
  <2>1. UNCHANGED <<mpc, cur>>
    BY DEF Thread, CopyInput, Work, TakeOver, LeaveWaiting, LeaveOwner
  <2> QED BY <2>1 DEF Ready, Started, Told, Quitted, Gone, Destroyed
<1>2. CASE CopyInput(s)
  <2>1. UNCHANGED <<Inside, Left, owner>>
    BY <1>2 DEF CopyInput, Inside, Left
  <2> QED BY <1>1, <2>1 DEF Shared!vars
<1>3. CASE Work(s)
  <2>1. worker[s] = "work" /\ copied[s] /\ Started(s)
    BY <1>3 DEF Work, InputInv
  <2>2. Inside' = Inside \cup {s} /\ Left' = Left
    <3>1. \E p \in {"owner", "waiting"} : worker' = [worker EXCEPT ![s] = p]
      BY <1>3, <2>1 DEF Work
    <3> QED BY <2>1, <3>1 DEF Inside, Left
  <2>3. owner' = IF owner = Nobody THEN s ELSE owner
    BY <1>3, <2>1 DEF Work
  <2>4. s \in Ready \ (Inside \cup Left)
    BY <2>1 DEF Ready, Inside, Left
  <2>5. Shared!Enter(s)
    BY <1>1, <2>2, <2>3, <2>4 DEF Shared!Enter
  <2> QED BY <2>5 DEF Shared!Next, Shared!Streams
<1>4. CASE TakeOver(s)
  <2>1. UNCHANGED <<Inside, Left>> /\ s \in Inside /\ owner = Nobody /\ owner' = s
    BY <1>4 DEF TakeOver, Inside, Left
  <2>2. Shared!Take(s)
    BY <1>1, <2>1 DEF Shared!Take
  <2> QED BY <2>2 DEF Shared!Next, Shared!Streams
<1>5. CASE LeaveWaiting(s) \/ LeaveOwner(s)
  <2>1. s \in Inside /\ s \in Told
    BY <1>5 DEF LeaveWaiting, LeaveOwner, RunningInv, Inside, Told
  <2>2. Inside' = Inside \ {s} /\ Left' = Left \cup {s}
    <3>1. worker' = [worker EXCEPT ![s] = "ended"]
      BY <1>5 DEF LeaveWaiting, LeaveOwner
    <3> QED BY <3>1 DEF Inside, Left
  <2>3. owner' = IF owner = s THEN Nobody ELSE owner
    BY <1>5 DEF LeaveWaiting, LeaveOwner, OneOwner
  <2>4. Shared!Leave(s)
    BY <1>1, <2>1, <2>2, <2>3 DEF Shared!Leave
  <2> QED BY <2>4 DEF Shared!Next, Shared!Streams
<1> QED BY <1>2, <1>3, <1>4, <1>5 DEF Thread

\* A step of main leaves the threads alone, but for the one it starts.
LEMMA MainLeavesThreads ==
  ASSUME IInv, Build \/ LeaveMain \/ Destroy
  PROVE  UNCHANGED <<Inside, Left, owner>>
<1>1. CASE StartThread
  <2>1. worker[cur] = "none" /\ cur \in Streams
    BY <1>1 DEF StartThread, IInv, TypeOK, InputInv, Started
  <2>2. worker' = [worker EXCEPT ![cur] = "started"] /\ owner' = owner
    BY <1>1 DEF StartThread
  <2> QED BY <2>1, <2>2 DEF IInv, TypeOK, Inside, Left
<1>2. CASE ~StartThread
  <2>1. UNCHANGED <<worker, owner>>
    BY <1>2, SetupSteps, ReleaseSteps
       DEF IInv, Build, Setup, SetInput, LeaveMain, Destroy, Quit, Join
  <2> QED BY <2>1 DEF Inside, Left
<1> QED BY <1>1, <1>2

\* The main thread while it builds.
LEMMA SharedBuild == ASSUME IInv, Build PROVE [Shared!Next]_(Shared!vars)
<1> USE DEF IInv, TypeOK
<1>1. UNCHANGED <<Inside, Left, owner>>
  BY MainLeavesThreads
<1>2. Told = {} /\ Gone = {}
  <2>1. mpc \in Building
    BY SetupSteps DEF Build, Setup, SetInput, StartThread, Building
  <2> QED BY <2>1 DEF Told, Gone, Quitted, Destroyed, Building
<1>3. CASE StartThread
  <2>1. Told' = {} /\ Gone' = {}
    BY <1>3 DEF Told, Gone, Quitted, Destroyed, StartThread
  <2>2. Ready = 1 .. cur - 1
    <3>1. \A t \in Streams : Started(t) <=> t < cur
      BY <1>3 DEF Started, StartThread, Streams, Building
    <3> QED BY <3>1 DEF Ready, Streams
  <2>3. Ready' = Ready \cup {cur}
    <3>1. ASSUME NEW t \in Streams PROVE Started(t)' <=> t <= cur
      <4>1. CASE cur = N
        BY <1>3, <4>1 DEF Started, StartThread, Streams, Building
      <4>2. CASE cur # N
        BY <1>3, <4>2 DEF Started, StartThread, Streams, Building
      <4> QED BY <4>1, <4>2
    <3>2. Ready' = 1 .. cur
      BY <3>1 DEF Ready, Streams
    <3> QED BY <2>2, <3>2 DEF Streams
  <2>4. Shared!Open(cur)
    BY <1>1, <1>2, <2>1, <2>2, <2>3 DEF Shared!Open
  <2> QED BY <2>4 DEF Shared!Next, Shared!Streams
<1>4. CASE Setup \/ SetInput
  <2>1. UNCHANGED <<Ready, Told, Gone>>
    <3>1. mpc \in Building /\ mpc' \in Building /\ cur' = cur
      BY <1>4, SetupSteps DEF SetInput, Building
    <3>2. \A t \in Streams : /\ Started(t)' <=> Started(t)
                             /\ ~Quitted(t)' /\ ~Destroyed(t)'
                             /\ ~Quitted(t) /\ ~Destroyed(t)
      BY <3>1 DEF Started, Quitted, Destroyed, Building
    <3> QED BY <3>2 DEF Ready, Told, Gone
  <2> QED BY <1>1, <2>1 DEF Shared!vars
<1> QED BY <1>3, <1>4 DEF Build, Setup

\* The main thread while it destroys.
LEMMA SharedDestroy ==
  ASSUME IInv, LeaveMain \/ Destroy PROVE [Shared!Next]_(Shared!vars)
<1> USE DEF IInv, TypeOK
<1>1. UNCHANGED <<Inside, Left, owner>>
  BY MainLeavesThreads
<1>2. Ready = Streams /\ Ready' = Streams
  <2>1. mpc \notin Building /\ mpc' \notin Building
    BY ReleaseSteps DEF LeaveMain, Destroy, Quit, Join, Building
  <2> QED BY <2>1 DEF Ready, Started
<1>3. CASE LeaveMain
  <2>1. Told = {} /\ Gone = {} /\ cur = 1 /\ cur' = 1 /\ mpc' = "quit"
    BY <1>3 DEF Told, Gone, Quitted, Destroyed, LeaveMain, FromFirst
  <2>2. Told' = {} /\ Gone' = {}
    BY <2>1 DEF Told, Gone, Quitted, Destroyed
  <2> QED BY <1>1, <1>2, <2>1, <2>2 DEF Shared!vars
<1>4. CASE Quit
  <2>1. Told = 1 .. cur - 1 /\ Gone = Told /\ Gone' = Gone
    <3>1. \A t \in Streams : /\ Quitted(t) <=> t < cur
                             /\ Destroyed(t) <=> t < cur
                             /\ Destroyed(t)' <=> t < cur
      BY <1>4 DEF Quitted, Destroyed, Quit, Streams
    <3> QED BY <3>1 DEF Told, Gone, Streams
  <2>2. Told' = Told \cup {cur}
    <3>1. \A t \in Streams : /\ Quitted(t) <=> t < cur
                             /\ Quitted(t)' <=> t <= cur
      BY <1>4 DEF Quitted, Quit, Streams
    <3> QED BY <3>1 DEF Told, Streams
  <2>3. Shared!Tell(cur)
    BY <1>1, <1>2, <2>1, <2>2 DEF Shared!Tell, Shared!Streams
  <2> QED BY <2>3 DEF Shared!Next, Shared!Streams
<1>5. CASE Join
  <2>1. Gone = 1 .. cur - 1 /\ Told' = Told
    <3>1. \A t \in Streams : /\ Destroyed(t) <=> t < cur
                             /\ Quitted(t)' <=> Quitted(t)
      BY <1>5 DEF Quitted, Destroyed, Join, Streams
    <3> QED BY <3>1 DEF Told, Gone, Streams
  <2>2. Gone' = Gone \cup {cur}
    <3>1. \A t \in Streams : /\ Destroyed(t) <=> t < cur
                             /\ Destroyed(t)' <=> t <= cur
      BY <1>5 DEF Destroyed, Join, Streams
    <3> QED BY <3>1 DEF Gone, Streams
  <2>3. cur \in Left \cap Told
    BY <1>5 DEF Join, Left, Told, Quitted
  <2>4. Shared!Go(cur)
    BY <1>1, <1>2, <2>1, <2>2, <2>3 DEF Shared!Go
  <2> QED BY <2>4 DEF Shared!Next, Shared!Streams
<1>6. ASSUME NEW o \in Objects, Release(o) PROVE UNCHANGED Shared!vars
  <2>1. \A t \in Streams : /\ Quitted(t) <=> t <= cur
                           /\ Destroyed(t) <=> t <= cur
    BY <1>6, ReleaseSteps DEF Quitted, Destroyed, Streams
  <2>2. ASSUME NEW t \in Streams
        PROVE  (Quitted(t)' <=> t <= cur) /\ (Destroyed(t)' <=> t <= cur)
    <3>1. CASE mpc' = "release" /\ cur' = cur
      BY <3>1 DEF Quitted, Destroyed, Streams
    <3>2. CASE cur = N /\ mpc' = "done"
      BY <3>2 DEF Quitted, Destroyed, Streams
    <3>3. CASE cur # N /\ mpc' = "quit" /\ cur' = cur + 1
      BY <3>3 DEF Quitted, Destroyed, Streams
    <3> QED BY <1>6, <3>1, <3>2, <3>3, ReleaseSteps
  <2>3. UNCHANGED <<Told, Gone>>
    BY <2>1, <2>2 DEF Told, Gone
  <2> QED BY <1>1, <1>2, <2>3 DEF Shared!vars
<1> QED BY <1>3, <1>4, <1>5, <1>6 DEF Destroy

\* The streams share the context as SharedContext says, for every number of
\* streams and whatever is attached.
THEOREM SharesContextHolds == Spec => SharesContext
<1>1. Init => Shared!Init
  BY DEF Init, Shared!Init, Ready, Started, Inside, Left, Told, Quitted, Gone, Destroyed,
         Building
<1>2. IInv /\ [Next]_vars => [Shared!Next]_(Shared!vars)
  <2>1. UNCHANGED vars => UNCHANGED Shared!vars
    BY DEF vars, Shared!vars, Ready, Started, Inside, Left, Told, Quitted, Gone, Destroyed
  <2> QED BY <2>1, SharedThread, SharedBuild, SharedDestroy DEF Next
<1> QED BY <1>1, <1>2, Invariance, PTL DEF Spec, SharesContext, Shared!Spec

================================================================================
