--------------------------------- MODULE Startup ---------------------------------
(***************************************************************************)
(* From the configuration file to a running daemon: Configuration reads    *)
(* the file over its defaults, processing_cfg (onvif_srvd.cpp) hands the   *)
(* settings to Daemon, ServiceContext and RTSPStream, and main starts the  *)
(* threads or the process exits.  One `profile' and one `rtspConfig' are   *)
(* filled, stored and cleared for entry after entry, and the results of    *)
(* their setters are dropped.                                              *)
(*                                                                         *)
(* A number of the file is a text that >> reads: an integer, Word (no      *)
(* number) or Blank (nothing at all, and >> leaves its target as it is).   *)
(***************************************************************************)
EXTENDS Integers, Sequences

CONSTANTS
    Files,      \* the files findConfigFile may come back with, and NoFile
    NoFile,     \* it found none
    Unreadable, \* a file libconfig cannot read or parse
    Texts,      \* the texts a file may hold
    NoText,     \* the empty one
    Absent,     \* a setting the file does not have
    Broken,     \* a setting of the wrong type, or a list with such an entry
    Blank,      \* the text of a number is empty
    Word,       \* the text of a number is not a number
    Dangling,   \* a pointer into the memory of the closed file
    Leftover,   \* what an uninitialised integer may hold
    Freed       \* what freed memory may read as

Encodings == {"JPEG", "MPEG4", "H264"}

\* The settings of a file: its texts, its numbers and the entries of its lists.
Numbers        == Int \cup {Blank, Word}
ProfileEntries == [name : Texts, url : Texts, snapurl : Texts,
                   width : Numbers, height : Numbers, type : Texts]
StreamEntries  == [pipeline : Texts, udpPort : Texts, tcpPort : Texts,
                   rtspUrl : Texts, testStream : BOOLEAN, testStreamSrc : Texts]
Missing        == {Absent, Broken}
FilesOfSettings ==
    [pidFile : Texts \cup Missing, logLevel : Texts \cup Missing,
     logFile : Texts \cup Missing, other : Texts \cup Missing,
     tz : Numbers \cup Missing,
     profiles : Seq(ProfileEntries) \cup Missing,
     streams : Seq(StreamEntries) \cup Missing]

\* The texts of the defaults.
DefaultTexts ==
    {"Right_Monitor", "rtsp://%s:554/right", "Left_Monitor", "rtsp://%s:8554/left",
     "H264", "depay", "5001", "8554", "/left", "ball", "5000", "554", "/right", "smpte"}

ASSUME FilesAssumption == \A f \in Files : f \in {NoFile, Unreadable} \/ f \in FilesOfSettings
ASSUME TextsAssumption == /\ NoText \in Texts \ Encodings
                          /\ DefaultTexts \subseteq Texts
                          /\ NoText \notin {"pid", "debug"}
ASSUME LeftoverAssumption == Leftover \subseteq Int
ASSUME NamesAssumption == Blank \notin Int /\ Word \notin Int /\ Blank # Word

VARIABLES
    pc,         \* the step of main
    file,       \* what findConfigFile came back with
    opens,      \* the network interface can be opened
    conf,       \* the Configuration
    daemon,     \* the DaemonInfo that Daemon keeps
    tz,         \* tz_format of the ServiceContext
    k,          \* the entry of the list that is processed
    profile,    \* the local StreamProfile
    rtspConfig, \* the local RTSPStreamConfig
    profiles,   \* the profiles of the ServiceContext, by name
    streams     \* the streams of RTSPStream, by URL

localVars == <<k, profile, rtspConfig>>
ctxVars   == <<tz, profiles, streams>>
vars      == <<pc, file, opens, conf, daemon, localVars, ctxVars>>

Unset   == -1
Formats == 6    \* TZ_CNT_FORMATS
NoProfile == [name |-> NoText, url |-> NoText, snapurl |-> NoText,
              width |-> Unset, height |-> Unset, type |-> NoText]
NoStream  == [pipeline |-> NoText, udpPort |-> NoText, tcpPort |-> NoText, rtspUrl |-> NoText,
              testStream |-> FALSE, testStreamSrc |-> NoText]
NoDaemon  == [pidFile |-> NoText, logLevel |-> NoText, logFile |-> NoText]

\* The defaults of Configuration; `other' stands for the settings that are
\* copied and looked at no further.
Monitor(name, url) ==
    [name |-> name, url |-> url, snapurl |-> NoText,
     width |-> 1024, height |-> 768, type |-> "H264"]
Feed(udp, tcp, url, src) ==
    [pipeline |-> "depay", udpPort |-> udp, tcpPort |-> tcp, rtspUrl |-> url,
     testStream |-> FALSE, testStreamSrc |-> src]
Defaults ==
    [pidFile |-> "pid", logLevel |-> "debug", logFile |-> NoText, tz |-> 0,
     other |-> "default",
     profiles |-> <<Monitor("Right_Monitor", "rtsp://%s:554/right"),
                    Monitor("Left_Monitor", "rtsp://%s:8554/left")>>,
     streams |-> <<Feed("5001", "8554", "/left", "ball"),
                   Feed("5000", "554", "/right", "smpte")>>]

Init ==
    /\ pc = "load" /\ k = 1
    /\ file \in Files /\ opens \in BOOLEAN
    /\ conf = Defaults
    /\ daemon = NoDaemon
    /\ tz = 0
    /\ profile = NoProfile /\ profiles = <<>>
    /\ rtspConfig = NoStream /\ streams = <<>>

-----------------------------------------------------------------------------
(* Configuration. *)

\* getSetting and getArray: a setting that is not in the file keeps its
\* default.
Setting(s) == IF file[s] = Absent THEN Defaults[s] ELSE file[s]

\* As above for a `const char *': what the file has goes with its loader.
Pointer(s) == IF file[s] = Absent THEN Defaults[s] ELSE Dangling

\* Nothing catches the exception of an unreadable file, of a setting of the
\* wrong type or of an incomplete entry of a list.  (A list that is no list
\* but a single value has no entries, and reads as <<>>.)
LoadFails ==
    /\ pc = "load"
    /\ \/ file = Unreadable
       \/ file \notin {NoFile, Unreadable} /\ \E s \in DOMAIN file : file[s] = Broken
    /\ pc' = "aborted"
    /\ UNCHANGED <<file, opens, conf, daemon, localVars, ctxVars>>

Load ==
    /\ pc = "load" /\ file # Unreadable
    /\ file # NoFile => \A s \in DOMAIN file : file[s] # Broken
    /\ conf' = IF file = NoFile THEN conf
               ELSE [s \in DOMAIN conf |->
                       IF s \in {"pidFile", "logLevel", "logFile"} THEN Pointer(s)
                       ELSE Setting(s)]
    /\ pc' = "daemon"
    /\ UNCHANGED <<file, opens, daemon, localVars, ctxVars>>

-----------------------------------------------------------------------------
(* processing_cfg. *)

\* The map m with value v at x.
Put(m, x, v) == [y \in DOMAIN m \cup {x} |-> IF y = x THEN v ELSE m[y]]

\* What daemon_error_exit says that main could not do.
Refusals == {"noDaemonInfo", "noInterface", "noTzFormat", "noProfile", "noStream"}

\* daemon_error_exit, called for what; that is where main ends.
Exit(what) ==
    /\ pc' = what
    /\ UNCHANGED <<file, opens, conf, daemon, localVars, ctxVars>>

\* What a std::string that is made of the pointer p holds.
Read(p) == IF p = Dangling THEN Freed ELSE {p}

\* What >> may leave in a local variable without an initialiser.
Number(t) == IF t = Blank THEN Leftover ELSE IF t = Word THEN {0} ELSE {t}

\* The setters of a DaemonInfo that is new, and SaveConfig.
SaveConfig ==
    /\ pc = "daemon"
    /\ \E pid \in Read(conf.pidFile), level \in Read(conf.logLevel),
          log \in Read(conf.logFile) :
         IF pid # NoText /\ level # NoText
           THEN /\ daemon' = [pidFile |-> pid, logLevel |-> level, logFile |-> log]
                /\ pc' = "service"
                /\ UNCHANGED <<file, opens, conf, localVars, ctxVars>>
           ELSE Exit("noDaemonInfo")

\* The interface cannot be opened.
OpenFails == pc = "service" /\ ~opens /\ Exit("noInterface")

\* Mutant: the number of formats is taken for the last one.
SupportedToCount(v) == v \in 0 .. Formats

\* The number is unsigned: a negative one is read as a large one.
Supported(v) == v \in 0 .. Formats - 1

SetTzFormat ==
    /\ pc = "service" /\ opens
    /\ \E v \in Number(conf.tz) :
         IF Supported(v)
           THEN tz' = v /\ pc' = "profiles"
                /\ UNCHANGED <<file, opens, conf, daemon, localVars, profiles, streams>>
           ELSE Exit("noTzFormat")

\* Mutant: the least size is refused.
SizesFrom101(old, t) == {IF v <= 100 \/ v >= 10000 THEN old ELSE v : v \in Number(t)}

\* What set_width and set_height may make of the old value and a text.
Sizes(old, t) == {IF v < 100 \/ v >= 10000 THEN old ELSE v : v \in Number(t)}

\* set_type.
Encoding(old, t) == IF t \in Encodings THEN t ELSE old

\* The local profile when the setters got the entry e and made w and h of
\* its sizes.
FillProfile(e, w, h) ==
    [name |-> e.name, url |-> e.url, snapurl |-> e.snapurl,
     width |-> w, height |-> h, type |-> Encoding(profile.type, e.type)]

\* StreamProfile::is_valid.
ProfileValid(p) == /\ p.name # NoText /\ p.url # NoText
                   /\ p.width # Unset /\ p.height # Unset /\ p.type # NoText

\* Mutant: a profile replaces the one of its name.
ProfileAcceptedAgain(p) == ProfileValid(p)

\* add_profile takes p.
ProfileAccepted(p) == ProfileValid(p) /\ p.name \notin DOMAIN profiles

\* Mutant: clear() forgets the numbers.
ClearTexts(p) == [p EXCEPT !.name = NoText, !.url = NoText, !.snapurl = NoText]

\* StreamProfile::clear.
ClearProfile(p) == NoProfile

\* The setters of the profile, of which one may leave the old value in it,
\* add_profile, and clear.
AddProfile ==
    /\ pc = "profiles" /\ k <= Len(conf.profiles)
    /\ LET e == conf.profiles[k]
       IN  \E w \in Sizes(profile.width, e.width), h \in Sizes(profile.height, e.height) :
             LET p == FillProfile(e, w, h)
             IN  IF ProfileAccepted(p)
                   THEN /\ profiles' = Put(profiles, p.name, p)
                        /\ profile' = ClearProfile(p)
                        /\ k' = k + 1
                        /\ UNCHANGED <<pc, file, opens, conf, daemon, rtspConfig, tz, streams>>
                   ELSE Exit("noProfile")

ProfilesDone ==
    /\ pc = "profiles" /\ k > Len(conf.profiles)
    /\ pc' = "streams" /\ k' = 1
    /\ UNCHANGED <<file, opens, conf, daemon, profile, rtspConfig, ctxVars>>

\* RTSPStreamConfig::is_valid.
StreamValid(r) == /\ r.pipeline # NoText /\ r.udpPort # NoText
                  /\ r.tcpPort # NoText /\ r.rtspUrl # NoText

\* RTSPStreamConfig::clear, which leaves the source of the test stream.
ClearStream(r) == [NoStream EXCEPT !.testStreamSrc = r.testStreamSrc]

\* Mutant: the source is only set for a test stream.
FillStreamIfTest(r, e) ==
    [e EXCEPT !.testStreamSrc = IF e.testStream THEN @ ELSE r.testStreamSrc]

\* The setters of rtspConfig take every text.
FillStream(r, e) == e

\* The setters of rtspConfig, AddStream, and clear.
AddStream ==
    /\ pc = "streams" /\ k <= Len(conf.streams)
    /\ LET r == FillStream(rtspConfig, conf.streams[k])
       IN  IF StreamValid(r) /\ r.rtspUrl \notin DOMAIN streams
             THEN /\ streams' = Put(streams, r.rtspUrl, r)
                  /\ rtspConfig' = ClearStream(r)
                  /\ k' = k + 1
                  /\ UNCHANGED <<pc, file, opens, conf, daemon, profile, tz, profiles>>
             ELSE Exit("noStream")

\* processing_cfg returns and main starts the streams and the SOAP worker.
StreamsDone ==
    /\ pc = "streams" /\ k > Len(conf.streams)
    /\ pc' = "serving"
    /\ UNCHANGED <<file, opens, conf, daemon, localVars, ctxVars>>

-----------------------------------------------------------------------------

Next ==
    \/ LoadFails \/ Load
    \/ SaveConfig \/ OpenFails \/ SetTzFormat
    \/ AddProfile \/ ProfilesDone
    \/ AddStream \/ StreamsDone

Spec == Init /\ [][Next]_vars

-----------------------------------------------------------------------------
(* Properties. *)

\* The sizes that the setters take.
SizesTaken == 100 .. 9999

\* What may be stored under the name n.
StoredProfiles(n) ==
    [name : {n}, url : Texts, snapurl : Texts,
     width : SizesTaken, height : SizesTaken, type : Encodings]

\* The types of the variables; a profile that is stored has sizes in range.
TypeOK ==
    /\ pc \in {"load", "daemon", "service", "profiles", "streams", "serving", "aborted"}
              \cup Refusals
    /\ conf.profiles \in Seq(ProfileEntries)
    /\ conf.streams \in Seq(StreamEntries)
    /\ k \in Nat \ {0}
    /\ tz \in 0 .. Formats - 1
    /\ \A n \in DOMAIN profiles :
         profiles[n] \in StoredProfiles(n)

\* A value of the file, or what an empty text left.
OwnNumber(v, t) == v = t \/ (t = Blank /\ v \in Leftover)

\* Every profile is, field by field, what one entry of the file says: no
\* value of an entry stays in the reused `profile' and gets into another.
OwnProfiles ==
    \A n \in DOMAIN profiles : \E i \in DOMAIN conf.profiles :
        LET e == conf.profiles[i]
            p == profiles[n]
        IN  /\ n = e.name /\ p.name = e.name /\ p.url = e.url
            /\ p.snapurl = e.snapurl /\ p.type = e.type
            /\ OwnNumber(p.width, e.width) /\ OwnNumber(p.height, e.height)

\* The same of the streams, though clear() forgets a field.
OwnStreams ==
    \A u \in DOMAIN streams : \E i \in DOMAIN conf.streams :
        u = conf.streams[i].rtspUrl /\ streams[u] = conf.streams[i]

\* A daemon that serves has every entry of both lists: none is dropped, and
\* none is hidden by another of its name or its URL.
EveryEntryServed ==
    pc = "serving" =>
        /\ \A i, j \in DOMAIN conf.profiles :
             /\ conf.profiles[i].name \in DOMAIN profiles
             /\ conf.profiles[i].name = conf.profiles[j].name => i = j
        /\ \A i, j \in DOMAIN conf.streams :
             /\ conf.streams[i].rtspUrl \in DOMAIN streams
             /\ conf.streams[i].rtspUrl = conf.streams[j].rtspUrl => i = j

\* An entry that the setters and is_valid are there to take, if sizes are
\* those they are there to take.
GoodProfile(e, sizes) ==
    /\ e.name # NoText /\ e.url # NoText /\ e.type \in Encodings
    /\ e.width \in sizes /\ e.height \in sizes

\* What the process says that it cannot do is what is at fault, and the entry
\* it gave up at is wrong by itself or has the key of one before it.
RefusedOver(sizes) ==
    /\ pc = "noDaemonInfo" => Dangling \in {conf.pidFile, conf.logLevel}
    /\ pc = "noInterface" => ~opens
    /\ pc = "noTzFormat" => conf.tz \notin (0 .. Formats - 1) \cup {Word}
    /\ pc = "noProfile" =>
         \/ ~GoodProfile(conf.profiles[k], sizes)
         \/ \E i \in 1 .. k - 1 : conf.profiles[i].name = conf.profiles[k].name
    /\ pc = "noStream" =>
         \/ ~StreamValid(conf.streams[k])
         \/ \E i \in 1 .. k - 1 : conf.streams[i].rtspUrl = conf.streams[k].rtspUrl

\* An entry that is right is never refused for what the entries before it left
\* in a reused variable, nor for a setting that was read before it.  The texts
\* of the daemon are refused only if they come from the file: whatever the file
\* says, for they are read when its memory is freed (SettingsStored).
RefusedForAReason == RefusedOver(SizesTaken)

\* "width is bad, correct range: 100-10000": what is refused for its sizes is
\* out of the range the process names.
RangeIsAccepted == RefusedOver(100 .. 10000)

\* "After initial configuration has completed, the settings will be stored
\* within an instance of the Daemon class": those of the file, if it has any.
SettingsStored ==
    pc = "serving" /\ file # NoFile =>
        \A s \in DOMAIN daemon : daemon[s] = Setting(s)

\* What the threads that are started may take for granted: whatever is stored
\* is complete and has the name it is found under.  This is the state Answers
\* begins with (no profile without a URL) and the one RtspLoops is built from.
StoredAreComplete ==
    /\ \A n \in DOMAIN profiles : ProfileValid(profiles[n]) /\ profiles[n].name = n
    /\ \A u \in DOMAIN streams : StreamValid(streams[u]) /\ streams[u].rtspUrl = u

\* The lists of the configuration: those of the file, or the defaults of a
\* file that is not there or has none.
Wanted ==
    LET list(s) == IF file \in {NoFile, Unreadable} THEN Defaults[s] ELSE Setting(s)
    IN  [profiles |-> list("profiles"), streams |-> list("streams")]

Outcome == CASE pc = "serving"                      -> "serving"
             [] pc \in Refusals \cup {"aborted"}    -> "refused"
             [] OTHER                               -> "starting"

\* What is built is seen by nobody before the threads are started.
WhenServing(map) == IF pc = "serving" THEN map ELSE <<>>

Promise == INSTANCE StartupPromise WITH
    outcome <- Outcome, wanted <- Wanted,
    profiles <- WhenServing(profiles), streams <- WhenServing(streams)

\* Every start is one of StartupPromise: the threads find every profile and
\* every stream of the configuration, complete and for good, or are not started.
ServesAllOrNothing == Promise!Spec

=============================================================================
