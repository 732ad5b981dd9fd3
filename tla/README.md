# A verification project for onvif_srvd

`onvif_srvd` makes a Linux board look like an ONVIF camera: it answers SOAP
requests about the device, its media profiles and its PTZ unit, passes commands
on over MQTT, and serves RTSP streams that GStreamer builds. This directory
holds TLA+ modules translated from its source, the TLC configurations that check
them on small instances, and proofs that the TLAPS proof system checks for every
instance. Paths below are relative to the repository.

## 1. The system

| component | state | operations | modelled in |
|---|---|---|---|
| Configuration, ConfigLoader, `processing_cfg` (`src/Configuration.*`, `src/ConfigLoader.*`, `src/onvif_srvd.cpp`) | the settings; one reused `StreamProfile` and `RTSPStreamConfig`; the maps of profiles and streams | read the file over the defaults, hand the settings to Daemon, ServiceContext and RTSPStream, start the threads or exit | `Startup`, `StartupPromise` |
| SOAP worker (`src/GSoapService.*`) and main loop (`src/onvif_srvd.cpp`) | the soap context (socket, error, memory, open file), the queue of the port, `failVal` | bind, check the context, accept, read, dispatch to three bindings, fault, GET and file copy, clean up; watch, restart, stop | `GSoapServer`, `OnvifPromise` |
| RTSP streams (`src/rtsp-streams.*`) | a loop, a server, mount points, a factory and a thread per stream; one default context for all | build, attach, start; run, take over; quit, join, release | `RtspLoops`, `SharedContext` |
| GObject handles (`GObjWrapper` in `src/rtsp-streams.hpp`) | a pointer that owns a reference | made from a pointer or from nothing, assigned from a temporary, destroyed | `RtspLoops` |
| Device, media and PTZ answers (`src/ServiceDevice.cpp`, `src/ServiceMedia.cpp`, `src/ServicePTZ.cpp`, `src/ServiceContext.*`) and the network interface (`src/eth_dev_param.*`) | the profiles, the interface, what a handler has read so far | GetProfile(s), GetVideoSources, Get{Stream,Snapshot}Uri, capabilities, GetNetworkInterfaces; the handlers that copy settings, describe the PTZ node or do nothing | `Answers` |
| Date and time (`ServiceContext::get_SystemDateAndTime`, `get_time_zone`) | the clock, the zone, the static `struct tm` | the three steps of one answer | `DateAndTime` |
| MQTT commands (`ServiceContext::InitMqttComms`, `SendMqttMsg`, the two multicast handlers) | the handle, its thread, the connection, what is on its way | connect, start the thread, publish, lose and find the connection | `MqttCommands`, `LossyLine` |
| The process (`main` of `src/onvif_srvd.cpp`) | the SOAP worker and the stream threads together | build the streams, start the worker, watch, stop, destroy, be started again | `Daemon` |
| Daemonising, `mosquitto_handler.c`, init script, generated bindings, build files | | | not modelled, see 8 |

How they interact. `main` runs `processing_cfg` and passes the ServiceContext to
the SOAP worker and every RTSPStreamConfig to a GStreamerRTSP. The worker thread
calls the handlers, which read the ServiceContext without a lock: after start-up
nobody writes it, so a handler races with the world outside (interface, clock)
and not with another thread. The stream threads share nothing with the worker,
but everything among themselves, through GLib's default main context. The worker
hands MQTT commands to a thread of libmosquitto, which sends them when it is
connected. The main thread polls the worker once a second, restarts it or ends
the process, which the service manager starts again.

What is hard. Restarts of the worker with clients in the queue; a `soap_send_fault`
that runs after successes too; return paths out of the middle of `work()`; an
accept() without a timeout that has to be stopped; many loops on one context;
pointers that pass through temporaries to owners that may be two; variables that are reused from entry to
entry, never initialised or freed too early; commands that are answered OK before
anybody has them; an end of `main` that joins threads which may have missed that
they should end; system calls whose failures are ignored, with the world changing
between them. `PROJECT.json` lists each of these hazards at its line, with the
properties that cover it.

Code outside `src/` is external and modelled from its use: ThreadWarden, signals
and logging (armoury, a submodule), gSOAP, GLib and GStreamer, mosquitto,
libconfig, the kernel's queue of a listening socket.

## 2. Modules

`<M>` is a component; `MC<M>` gives its constants values for TLC where a `.cfg`
alone cannot; `<M>_proofs` holds its theorems. No module uses a RECURSIVE operator. Operators whose comment
begins with "Mutant" are variants with a plausible bug, used by nothing in the
specification: each property is shown to fail when one of them takes the place of
the definition it varies (`PROJECT.json`, "mutants").

**OnvifPromise** is the abstract specification of the port: connections wait in
one line, are taken from its head one at a time, and get at most one response
each; the daemon may give up on all of them at once, never on a single waiting one.

**GSoapServer** implements it. `pc` is the place of the worker thread: `bind`,
`context` are the constructor of GSoapInstance; `poll`, `blocked` the two halves
of the patched `soap_accept`; `begin` `soap_begin_serve`; `device`, `media`,
`ptz` the bindings in the order of `FOREACH_SERVICE`; `unknown` the `return 1`
behind them; `header`, `copy` `copy_file`; `fault`, `cleanup` the end of
`work()`; `unwind` the destructor. `main` is the place of the main thread,
`socket`, `error`, `file`, `arena` are the soap context. A request is reduced to
who serves it (a binding, nobody, a GET, or garbled); a handler to its outcome.
The process may be killed anywhere, and is booted again.

**RtspLoops** has the construction and destruction of every GStreamerRTSP in the
order of the list (`mpc`, `cur`), the thread of each (`worker`), `g_main_loop_run`
with its `is_running` flag and the ownership of the default context, and the
objects of a stream with their reference counts (`refs`). The constructor is
taken apart into the calls that hand out a plain pointer (`NewServer`,
`GetMountPoints`, `NewFactory`), the move of it out of a temporary `GObjWrapper`
(`MoveAssign`) and the end of the temporary (`DestroyTemporary`); `temp` and
`member` say who points to what. `held` is GStreamer's share, as its ownership
rules make it: a new server has mount points, `get_mount_points` returns a
reference more, `add_factory` takes one over, an attached source keeps its
server, and an object that goes gives up what it held.

**SharedContext** is the abstract specification it implements: streams become
ready in their order, a thread enters its loop once and leaves it once, and only
after its stream was told to go; of the threads inside one at a time owns the
context, the others take over; streams are told one by one, and each is gone only
when its thread has left. The flags, the input and the place of `main` are mapped
to five sets of streams (`Ready`, `Inside`, `Left`, `Told`, `Gone`).

**Daemon** composes `RtspLoops` with an instance of `GSoapServer` into one
process. One main thread runs through both: the port is opened only when every
stream is built, the streams are destroyed only when the watch over the worker
has ended, `exit()` in the worker or a kill takes the stream threads along, and
the service manager builds everything again from nothing. The end of `main` goes
through the destructors of the streams, whose join may wait for a thread that
missed its quit (`QuitLost`). What is said of the parts carries over along a chain
of refinements: the process implements `GSoapServer`, which implements
`OnvifPromise`.

**LossyLine** is the abstract specification of a line between a publisher and a
subscriber: commands are numbered, those on the way may be lost at any time, and
those that arrive do so once and in their order. **MqttCommands** is the path that
implements it: `mosquitto_new` may fail and leave a null handle, connecting may
fail; the worker publishes while the thread of libmosquitto connects, sends from
its queue, loses the connection and finds it again; the process may be killed and
is started again with a new client. libmosquitto, the broker and the subscriber
are external, and are modelled from the calls `ServiceContext.cpp` makes (QoS 0,
no callback, results dropped).

**Startup** goes from the file to running threads. A text that `>>` reads as a
number is an integer, `Word` (no number: 0 results) or `Blank` (nothing: the
uninitialised target keeps `Leftover`). The three settings that are
`const char *` become `Dangling` with the end of the ConfigLoader, and read as
any member of `Freed`. `daemon_error_exit` leaves `pc` at what it says could not be
done (`Refusals`). Setters, `is_valid`, `add_profile`/`AddStream` and
`clear()` of one entry are one action, `AddProfile` or `AddStream`.

**StartupPromise** is what it implements: a process goes from starting to serving
in one step that shows all that is configured, complete and each entry under a key
of its own, and changes nothing afterwards; or it refuses. The entries that are
stored one by one, through variables used again and again, are steps that nobody
sees: this is why the handlers may read the ServiceContext without a lock.

**Answers** has one request at a time (there is one worker), handlers as one
step where they read only the profiles, and one step per ioctl where they read
the interface, which may change in between. `buf` is the uninitialised buffer the
results are dropped into, where the text of an earlier request may still be or
anything else; `seen` and `told` are histories for the properties.
`processing_cfg` opens exactly one interface, so the search among several in
`getServerIpFromClientIp` cannot be entered and is left out; PTZ is never
announced, because nothing enables it, and its handlers find no command: the
constructor of the PTZNode clears them all and nobody calls a setter.

**DateAndTime** has the three steps of one answer: the flag, the zone (which reads
the clock again and refills the static `struct tm`), the two dates. The clock
ticks and is set in between. `ZoneText` is the code's integer arithmetic on the
offset, with truncating division.

## 3. What the runs check

| run | instance | what it shows |
|---|---|---|
| `server` | 2 clients, queue of 2, valid and empty context, 1 kill, fair | `TypeOK`; `OneReply`; `OpenIsServed`, `QueueExact`, `IdleIsClean`: sockets, queue and memory stay exact on every return path and restart; `EndsForAReason`; `EmptyContextServesNobody`; `NoSilentClose`; `KeepsPromise`, the refinement of OnvifPromise; `ConnectionsEnd`, `StopEnds` |
| `server_told` | 2 clients | violation, see 5 |
| `rtsp_live` | 3 streams, two on one port, main may end at any time, fair | `TypeOK`; `LoopsRun`: no thread finds its input empty; `OwnersCounted`: every reference has one owner, from the temporaries of the constructor to the last destructor, but for the one `add_factory` takes; `SharesContext`, the refinement of SharedContext, which no thread outlives its stream in; `GetsServed`; `QuitIsHeard`: a destructor that finds its loop entered gets its thread back |
| `daemon` | the process: 2 streams, 1 client, 1 kill, fair | `OpenPortHasStreams`: a client that gets through to the port meets a daemon whose streams all exist; `QuietWhileStreamsChange`: nobody is connected while streams are built or destroyed; `AcceptsOrHangs`: the daemon comes back to accept, again and again, unless main waits for a thread that missed its quit |
| `rtsp_mounts` | 2 streams | violation, see 5 |
| `startup_safety` | every file with lists of up to 2 entries, sizes at both ends of the range, empty and unreadable texts, double names and URLs | `TypeOK`, `OwnProfiles`, `OwnStreams`, `RefusedForAReason`; `ServesAllOrNothing`, the refinement of StartupPromise |
| `startup_stored`, `startup_sizes` | the same, lists of up to 1 | violations, see 5 |
| `answers_safety` | 2 names, 2 configurations of the interface, 1 change | `TypeOK`, `ReadInOrder`, `LeftByFailure`: what a call that failed leaves in the one buffer of GetNetworkInterfaces; `AddressIsCurrent`, `TokensUsable`, `ReferencesResolve`, `SnapshotHonest` |
| `date_safety` | 7 offsets, each constant and with a change both ways, 5 seconds, clock set once | `LocalFitsZone`, `FlagFitsUtc` |
| `date_zone` | the same, clock never set | violation, see 5 |
| `mqtt_commands` | 4 commands, 3 failures of the connection, every failure of the start | `TypeOK`; `Accounted`: every command that was answered is delivered, on its way or lost for a reason; `LastWordCounts`; `KeepsTheOrder`, the refinement of LossyLine; `CommandsEnd` |

Each property is stated in words above its definition.

### Bounds, and why they are enough

- Two clients and a queue of two: one is served and one waits, or both wait, and
  the order of the queue matters. The code's queue is 10; that a full queue holds
  clients back is proved for any number of clients and any queue. No symmetry is
  used, for the run checks liveness too.
- One client and two streams in `daemon`: what the composition adds is where main
  is when the others do something, and that is the same for more of them.
- `MaxKills` 1: after a kill and a boot all is as in the beginning, but for the
  counter and what clients remember (`request`, `replies`).
- Three streams: one owns the context, two wait, so that a hand-over has a choice.
  (Whether it happens is up to main: the destructors do not wait for it, and may
  tell every waiting loop to quit first. What holds is that a thread that ends lets go of the context.)
  Two of them have one port, so attaching fails for a reason inside the daemon.
- Two entries per list: what one entry leaves for the next. One list of a file
  varies at a time; the lists share only the counter `k`, which is reset.
- One change of the interface for TLC (a second one multiplies 2 million states
  and adds no new pair of calls with a change between); the theorems have no bound.
- Four commands and three failures: two commands that differ before and after a
  loss, and a failure while connecting, while sending and while waiting.
- Five seconds of clock around a change of the zone: two readings before, after,
  and on both sides of it.

### Deadlock

It is checked where the system has to go on: `server`, `server_told`,
`answers_safety`, `date_*`. The start-up (`startup_*`) ends, in `serving`,
in `aborted` or in a refusal. `rtsp_live`, `rtsp_mounts` and `daemon` may stop for ever in a
join: main may return before every loop is entered, a quit is lost then, and that
is the code's.
`mqtt_commands` stops when its bounds are used up.

## 4. Fairness

`GSoapServer!Fairness`: weak fairness of each thread's steps (the receive and
send timeouts of 3 s bound every step of a request) and of the service manager
(`Restart=always`). Strong fairness of `Bind` and `AcceptConnection`: a port that
is taken by an earlier process becomes free, and accept() does not fail for ever.
Nothing is assumed of clients or kills. `ConnectionsEnd` and `StopEnds` hold for an
empty context too: a daemon without a profile serves nobody, but ends what it has.

`RtspLoops!Fairness`: weak fairness of every thread; none of `LeaveMain`, for main
may run for ever. Nothing says that a thread has entered its loop when main
returns, so `QuitIsHeard` speaks of the loops that were entered: a quit that comes
earlier is lost in the code, and listed as a hazard.

`Daemon!FairProcess`: both of them, with `AcceptsOrHangs` in place of an
unconditional "the daemon accepts again and again": that would need every thread
to be in its loop before main returns, which the schedule practically gives (main
sleeps a second first) and the code does not.

`MqttCommands!Fairness`: weak fairness of the start (the service manager), of the
handler, of libmosquitto's thread and of the delivery; none of clients and
failures. A broker that never comes back is left out: without it a command that is
queued stays where it is.

## 5. What the runs found

Five statements of the repository about itself are refuted by what its code does.

- `server_told`: `work()` does not run "until ThreadWarden tells gSoap to stop"
  (`src/src/GSoapService.cpp:51-53`): one operation that no binding knows ends the
  worker, its client unanswered and the whole queue dropped.
- `rtsp_mounts`: the mount points do not "map uri mount points to media factories"
  (`src/src/rtsp-streams.hpp:241`) once a stream is destroyed: the wrapper gives
  back a reference that `add_factory` already took over.
- `startup_stored`: pid file, log level and log file are read from the memory of a
  ConfigLoader that is gone, so what is "stored within an instance of the Daemon
  class" (`src/src/daemon.cpp:307-309`) is not what the file says.
- `startup_sizes`: 10000 is not in the "correct range: 100-10000"
  (`src/src/ServiceContext.cpp:517`, and 537 for the height): `set_width` and
  `set_height` refuse it, and the process ends over the profile. Otherwise a refusal
  is always over what it names (`RefusedForAReason`, with the range of the code).
- `date_zone`: the text of the zone is not its "[+|-]hh:mm"
  (`src/src/ServiceContext.h:131`): the minutes are the offset modulo 60 seconds,
  and +05:30 is sent as +05:00. `LocalFitsZone` therefore speaks of whole hours.
  How far this goes is proved: the text is right for an offset if and only if the
  offset is of whole hours (`TextRightForWholeHours`).

More was met and is in the models as behaviour, without a run of its own, for
nothing in the repository says otherwise: the end of `main` hangs when a stream's
thread has not entered its loop by then (`QuitLost` in `Daemon`); a multicast
command that was answered OK may never arrive, and stays lost
(`src/src/ServiceContext.cpp:57`); a failed `gst_rtsp_server_attach` is announced as ready
(`src/src/rtsp-streams.hpp:257`); an interface that lost its address puts an
uninitialised buffer into URIs (`src/src/ServiceContext.cpp:200`), and gets its
hardware address sent a second time as its address (`src/src/ServiceDevice.cpp:470`);
an interface that is not of Ethernet, or went away, gets the stack sent as its
hardware address, and as its IPv4 address too if that call fails: junk, or an
address of an earlier request. `LeftByFailure` says how far this goes: on a device
of Ethernet that stays, the stack is never sent;
`MaximumNumberOfProfiles` is always 1 (`src/src/ServiceContext.cpp:360`).

## 6. What is proved

Every theorem holds for all values of the constants that satisfy the named
assumptions of its module; TLC evaluates these in the runs. Each `<M>_proofs`
defines an invariant `IInv` that strengthens the properties, proves that it holds
initially and is kept by every action (one step or lemma per action), and derives
the properties from it.

| module | theorems | why the properties alone are not inductive |
|---|---|---|
| `GSoapServer_proofs` | `TypeCorrect`, `OneReplyHolds`, `OpenIsServedHolds`, `QueueExactHolds`, `IdleIsCleanHolds`, `EndsForAReasonHolds`, `EmptyContextServesNobodyHolds`, `NoSilentCloseHolds`, `KeepsPromiseHolds` | Whether a second response is possible depends on where the worker is: `ReplyInv` says for every place how many responses the connection had, `HoldInv` what the worker holds, `DispatchInv` what the bindings asked so far leave open, `MainInv` when the worker may be told to end. `KeepsPromise` maps every step to a step of OnvifPromise or a stutter. |
| `Daemon_proofs` | `OpenPortHasStreamsHolds`, `QuietWhileStreamsChangeHolds`, `WorkerInProcessHolds`, `ProcessKeepsPromiseHolds`, `WorkerSafeHolds`, `NoSilentCloseInProcessHolds`, `StreamsSafeHolds` | `ProcessInv` ties the places of the one main thread in both models (`OneMain`: no worker while streams are built or destroyed) and takes the invariant of `RtspLoops_proofs` through every end of a process, after which it holds as in the beginning. The second says that the worker in the process behaves as `GSoapServer` says (`WorkerInProcess`). The next four use it: the theorems of `GSoapServer_proofs` are instantiated in the process (`G`), so that the process keeps the promise of the port. `StreamsSafe` needs the invariant of `RtspLoops_proofs` again, for a process that ends is no step of RtspLoops. |
| `RtspLoops_proofs` | `TypeCorrect`, `LoopsRunHolds`, `NoneOutlivesHolds`, `OwnersCountedHolds`, `ObjectsLiveHolds`, `SharesContextHolds` | A thread finds its loop because the input was set before the start (`InputInv`), goes on because only its destructor marks the loop (`RunningInv`), lets go of the context as it ends because its owner is the one thread inside (`OneOwner`), and a count is the number of owners because who owns what is known at every place of `main` (`Shape`); that the objects of a stream live follows from it (`CountsKeepAlive`). With that invariant every step of a thread and of `main` is one step of SharedContext or none. |
| `Startup_proofs` | `TypeCorrect`, `OwnProfilesHolds`, `OwnStreamsHolds`, `EveryEntryServedHolds`, `StoredAreCompleteHolds`, `RefusedForAReasonHolds`, `ServesAllOrNothingHolds` | The reused profile is clear between entries (`ProfileClear`): what a refused setter leaves is unset, never another entry's. `KeysExact` says which entries are in the maps by now, and that their keys differ. For the reason of a refusal the keys in the maps must be those of entries before `k` (`KeysBefore`), and a text of the defaults is never the empty one (`DefaultOrGone`). For StartupPromise the lists that are processed must be those of the file or the defaults (`LoadInv`), and the last step of the start has to show both maps whole. |
| `Answers_proofs` | `TypeCorrect`, `ReadInOrderHolds`, `LeftByFailureHolds`, `AddressIsCurrentHolds`, `TokensUsableHolds`, `ReferencesResolveHolds`, `SnapshotHonestHolds` | The history ends with the interface as it is (`UpToDate`), so what is read now is current and not older than what was read before (`InOrder`); everything told is true of the profiles (`ToldTrue`). When calls fail, the buffer holds, when the address is read, the text sent as the hardware address, and that is right on a device of Ethernet which was there all the time (`BufferInv`). |
| `DateAndTime_proofs` | `TypeCorrect`, `LocalFitsZoneHolds`, `FlagFitsUtcHolds`, `TextRightForWholeHours`, `ZoneRightWhenWholeHolds`, `WholeZoneIsTheSystems` | The static `struct tm` and the text of the zone are of one instant (`ZoneRead`); for whole hours the text denotes the offset (`TextDenotes`), and for no other (`OnlyWholeHours`: seconds above a minute, taken for minutes, never make up what is above the hours). |
| `MqttCommands_proofs` | `TypeCorrect`, `AccountedHolds`, `NeverStaleHolds`, `DoesAsToldHolds`, `LastWordCountsHolds`, `KeepsTheOrderHolds` | What is on the way, in the client's queue or at the broker, is newer than what the subscriber was shown last, in order and not counted lost (`QueuesInv`); every command tried is on the way, lost or shown (`TriedAccounted`). `KeepsTheOrder` maps every step to a step of LossyLine or a stutter. |

## 7. What is only model-checked

Liveness: `ConnectionsEnd`, `StopEnds`, `GetsServed`, `QuitIsHeard`,
`AcceptsOrHangs`, `CommandsEnd`. These are temporal properties under fairness; they
need ENABLED, which is out of the prover's reach. Every invariant and every
refinement that a run checks is proved too. Some theorems have no run of their own, for each of them follows
from others: the types of DateAndTime; `ObjectsLive`, from `OwnersCounted`
and who the owners are; `NeverStale` and `DoesAsTold`, from the invariant of MqttCommands;
`NoneOutlives`, from `SharesContext`; `EveryEntryServed`, from
`ServesAllOrNothing`; `StoredAreComplete`; `WorkerInProcess`, `ProcessKeepsPromise`,
`WorkerSafe`, `NoSilentCloseInProcess` and `StreamsSafe`, which carry to the process
what the runs `server` and `rtsp_live` check of its parts; and the three about
which offsets the text of the zone is right for.

No recursive definition is used, so nothing is left to induction over data.

## 8. What is not modelled, and why

- What the PTZ handlers would do with commands. `processing_cfg` never fills the
  PTZNode and nothing else calls its setters, so no state of the program has a
  command to run or a move to stop, and the service is not announced. The handlers
  are in `Answers` as what they are then, and in `GSoapServer` as operations that
  hold the worker.
- `daemonize2`, `do_fork`, `create_pid_file`, `CloseMqttComms` and
  `mosquitto_handler.c` have no caller, and neither have the setters of
  Eth_Dev_Param. The init script waits for a pid file that no running code writes.
- `getServerIpFromClientIp` among several interfaces: `processing_cfg` opens one.
- Copies of a `GObjWrapper` and moves into a new one: nothing in the program makes
  them.
- Media pipelines, XML and the generated bindings are data.
- A failed `gst_rtsp_server_attach` is a behaviour of `RtspLoops`, but no property
  is about the stream that has no server: the code does nothing about it.

## 9. Plan

The order was: the worker, as the one thing every client meets, with its abstract
specification; the streams, the other threads, with the handles they are built from;
the start-up, which decides what both get; the answers; the commands that leave
the device; the process that the worker and the streams share. What is left:

1. Composition of Startup with Answers: the profiles that are answered from are
   those of the file, so that Startup's `ServesAllOrNothing` and Answers'
   `TokensUsable` chain from the file to the client. Answers begins with any set of
   profiles that have a URL, which is what `StoredAreComplete` of Startup leaves;
   the two are not one module yet.
2. PTZ with commands, the day the configuration can name them: a relative move is
   a move, a wait and a stop whose results are dropped (`src/src/ServicePTZ.cpp:341`),
   and a move that answered should have been stopped unless a command failed.
3. Several interfaces, the day `processing_cfg` opens them.
