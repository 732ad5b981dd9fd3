--------------------------------- MODULE Answers ---------------------------------
(***************************************************************************)
(* What a client is told: the handlers of the device, the media and the    *)
(* PTZ service that answer from the ServiceContext and from the network    *)
(* interface.  The context is fixed once the daemon runs; the interface is *)
(* not the daemon's, and may get another configuration, lose it or go away *)
(* between any two of the ioctl calls of one answer.  The results of these *)
(* calls are dropped, so that a call that fails leaves what the local      *)
(* variable held.                                                          *)
(*                                                                         *)
(* processing_cfg opens exactly one interface, so the search of            *)
(* getServerIpFromClientIp among several is never entered.                 *)
(***************************************************************************)
EXTENDS Naturals, Sequences

CONSTANTS
    Tokens,     \* the names a profile may have and a client may ask for
    Addresses,  \* the addresses the interface may get
    HwAddress,  \* the text of its hardware address
    Junk,       \* what an uninitialised text may read as
    Prefixes,   \* the lengths of the masks it may get
    Configs,    \* the pairs of both it may get
    Categories, \* the sets of categories a GetCapabilities may name
    JunkMasks,  \* prefix lengths counted in an uninitialised mask
    Nothing,    \* the part of a reply that is not there
    NoAddress,  \* the interface has no address
    Gone,       \* the interface is not there
    MaxChanges  \* bound: how often the interface changes

\* The interface has an address and a mask, has none, or is not there.
States == Configs \cup {NoAddress, Gone}

Services == {"device", "media"}

ASSUME TextsAssumption == Nothing \notin Addresses \cup Junk \cup {HwAddress}
ASSUME PrefixesAssumption == Nothing \notin Prefixes \cup JunkMasks
ASSUME NothingAssumption == \A c \in SUBSET {"SnapshotUri"} : c # Nothing
ASSUME CategoriesAssumption == Categories \subseteq SUBSET (Services \cup {"all", "other"})
ASSUME ConfigsAssumption == Configs \subseteq [ip : Addresses, prefix : Prefixes]
ASSUME StatesAssumption == {NoAddress, Gone} \cap Configs = {}
ASSUME MaxChangesAssumption == MaxChanges \in Nat

\* A URL of a profile is empty, a fixed text or a template with `%s'.
Urls     == {"empty", "fixed", "template"}
Profiles == UNION {[S -> [url : Urls \ {"empty"}, snapurl : Urls]] : S \in SUBSET Tokens}

VARIABLES
    iface,      \* the network interface
    ether,      \* its hardware address is one of Ethernet
    changes,    \* how often it changed
    profiles,   \* the profiles of the ServiceContext, by name
    pc,         \* the step of the handler
    request,    \* what is being asked
    buf,        \* server_ip of getServerIpFromClientIp, tmp_buf of GetNetworkInterfaces
    reply,      \* the answer, being built or complete
    seen,       \* the states of the interface since the request came (history)
    told        \* what clients were told so far (history)

ifaceVars == <<iface, ether, changes>>
vars == <<ifaceVars, profiles, pc, request, buf, reply, seen, told>>

\* Requests by what is done with them: "GetServices" and "GetCapabilities"
\* look for the server's address, "GetProfile" stands for the GetCompatible
\* handlers too, "Empty" for every handler that does nothing and answers,
\* "Settings" for those that copy texts nobody changes.  The commands of the
\* PTZ node are empty, for its constructor clears them and nobody sets them.
ByToken  == {"GetProfile", "GetStreamUri", "GetSnapshotUri"}
ForAll   == {"GetProfiles", "GetVideoSources", "GetServiceCapabilities",
             "GetNetworkInterfaces", "Empty", "Settings", "PtzDescription",
             "PtzCommand"}
Requests == [op : ByToken, token : Tokens]
            \cup [op : ForAll]
            \cup [op : {"GetServices"}, includeCapability : BOOLEAN]
            \cup [op : {"GetCapabilities"}, categories : Categories]

NoReply == [fault |-> FALSE, profiles |-> {}, sourceTokens |-> {}, sources |-> {},
            services |-> {}, media |-> Nothing,
            uri |-> Nothing, hw |-> Nothing, ip |-> Nothing, prefix |-> Nothing]

Init ==
    /\ iface \in States \ {Gone} /\ ether \in BOOLEAN /\ changes = 0
    /\ profiles \in {p \in Profiles : DOMAIN p # {}}
    /\ pc = "idle" /\ request = [op |-> "Empty"]
    /\ buf \in Junk
    /\ reply = NoReply
    /\ seen = <<>>
    /\ told = [tokens |-> {}, sourceTokens |-> {}, sources |-> Nothing,
               denied |-> FALSE, pictures |-> {}]

-----------------------------------------------------------------------------
(* The interface, Eth_Dev_Param. *)

\* The system changes the interface; it may be gone and come back, for every
\* ioctl looks its name up again.
Change ==
    /\ changes < MaxChanges
    /\ iface' \in States \ {iface}
    /\ changes' = changes + 1
    /\ seen' = IF pc = "idle" THEN seen ELSE Append(seen, iface')
    /\ UNCHANGED <<ether, profiles, pc, request, buf, reply, told>>

\* Mutant: the loop of get_mask_prefix counts before it looks.
GetMaskPrefixPlusOne(old) == IF iface \in Configs THEN iface.prefix + 1 ELSE old

\* Mutant: get_ip asks for a device of Ethernet, as get_hwaddr does.
GetIpOfEthernet(old) == IF iface \in Configs /\ ether THEN iface.ip ELSE old

\* get_ip, get_mask_prefix and get_hwaddr into a variable that held old.
GetIp(old)         == IF iface \in Configs THEN iface.ip ELSE old
GetMaskPrefix(old) == IF iface \in Configs THEN iface.prefix ELSE old
GetHwaddr(old)     == IF iface # Gone /\ ether THEN HwAddress ELSE old

-----------------------------------------------------------------------------
(* The handlers. *)

\* The variables of a handler are on the stack, and hold what is there.
Receive(r) ==
    /\ pc = "idle"
    /\ request' = r
    /\ reply' = NoReply
    /\ seen' = <<iface>>
    /\ pc' = "handle"
    /\ UNCHANGED <<ifaceVars, profiles, buf, told>>

\* Mutant: what has no snapshot is not found.
FoundWithPicture(t) == t \in DOMAIN profiles /\ profiles[t].snapurl # "empty"

Found(t) == t \in DOMAIN profiles

\* Mutant: the sources of the profiles GetServiceCapabilities counts (one).
VideoSourcesOne == {CHOOSE t \in DOMAIN profiles : TRUE}

\* The tokens of GetVideoSources; each is the name of its profile.
VideoSources == DOMAIN profiles

\* Mutant: every profile needs a snapshot.
SnapshotsOfAll == \A t \in DOMAIN profiles : profiles[t].snapurl # "empty"

\* Some profile has a snapshot.
Snapshots == \E t \in DOMAIN profiles : profiles[t].snapurl # "empty"

\* getMediaServiceCapabilities: SnapshotUri is true or it is not there.
MediaCapabilities == {c \in {"SnapshotUri"} : Snapshots}

\* Capabilities that are filled for the categories that are asked for; the
\* PTZ node is never enabled.
Capabilities(categories) ==
    {s \in Services : categories = {} \/ "all" \in categories \/ s \in categories}

\* A handler ends with the answer r and leaves its part of the stack, where the
\* next handler may find its text or what others wrote over it.
Answer(r) ==
    /\ reply' = r
    /\ buf' \in Junk \cup {buf}
    /\ pc' = "idle"
    /\ told' = [tokens |-> told.tokens \cup r.profiles,
                sourceTokens |-> told.sourceTokens \cup r.sourceTokens,
                sources |-> IF request.op = "GetVideoSources" THEN r.sources ELSE told.sources,
                denied |-> told.denied \/ r.media = {},
                pictures |-> IF request.op = "GetSnapshotUri" /\ r.uri # Nothing
                             THEN told.pictures \cup {request.token} ELSE told.pictures]
    /\ UNCHANGED <<ifaceVars, profiles, request, seen>>

\* get_video_src_cnf: the source of a profile has the profile's name.
ProfilesReply(S) == [NoReply EXCEPT !.profiles = S, !.sourceTokens = S]

GetProfiles ==
    /\ pc = "handle" /\ request.op = "GetProfiles"
    /\ Answer(ProfilesReply(DOMAIN profiles))

GetProfile ==
    /\ pc = "handle" /\ request.op = "GetProfile" /\ Found(request.token)
    /\ Answer(ProfilesReply({request.token}))

GetVideoSources ==
    /\ pc = "handle" /\ request.op = "GetVideoSources"
    /\ Answer([NoReply EXCEPT !.sources = VideoSources])

GetServiceCapabilities ==
    /\ pc = "handle" /\ request.op = "GetServiceCapabilities"
    /\ Answer([NoReply EXCEPT !.media = MediaCapabilities])

Empty ==
    /\ pc = "handle" /\ request.op = "Empty"
    /\ Answer(NoReply)

\* GetDeviceInformation, GetScopes and GetUsers.
Settings ==
    /\ pc = "handle" /\ request.op = "Settings"
    /\ Answer(NoReply)

\* GetNodes, GetNode and GetPresets: one node with eight presets, whatever
\* was configured.
PtzDescription ==
    /\ pc = "handle" /\ request.op = "PtzDescription"
    /\ Answer(NoReply)

\* With a node that has no commands ContinuousMove, RelativeMove and Stop give
\* the shell an empty one; GotoPreset and GotoHomePosition return before that.
PtzCommand ==
    /\ pc = "handle" /\ request.op = "PtzCommand"
    /\ Answer(NoReply)

NotFound ==
    /\ pc = "handle" /\ request.op \in ByToken /\ ~Found(request.token)
    /\ Answer([NoReply EXCEPT !.fault = TRUE])

\* The URL that a GetStreamUri or a GetSnapshotUri asks for.
Url == IF request.op = "GetStreamUri" THEN profiles[request.token].url
       ELSE profiles[request.token].snapurl

\* get_stream_uri and get_snapshot_uri without a template: the URL as it is.
FixedUri ==
    /\ pc = "handle" /\ request.op \in ByToken \ {"GetProfile"} /\ Found(request.token)
    /\ Url # "template"
    /\ Answer([NoReply EXCEPT !.uri = IF Url = "empty" THEN Nothing ELSE "fixed"])

\* The handler goes on with the step s.
Continue(s, r) ==
    /\ pc' = s
    /\ reply' = r
    /\ UNCHANGED <<ifaceVars, profiles, request, seen, told>>

\* The address in a template, or in the XAddr of services.
NeedsAddress ==
    /\ pc = "handle"
    /\ \/ request.op = "GetServices"
       \/ request.op = "GetCapabilities"
       \/ request.op \in ByToken \ {"GetProfile"} /\ Found(request.token) /\ Url = "template"
    /\ Continue("address", reply)
    /\ UNCHANGED buf

Announced == CASE request.op = "GetServices"     -> Services
               [] request.op = "GetCapabilities" -> Capabilities(request.categories)
               [] OTHER                          -> {}

\* getServerIpFromClientIp with its one interface, and the rest of the handler;
\* GetServices sends the capabilities to those who want them.
GetServerIp ==
    /\ pc = "address"
    /\ Answer([reply EXCEPT !.services = Announced,
                            !.media = IF request.op = "GetServices" /\ request.includeCapability
                                      THEN MediaCapabilities ELSE Nothing,
                            !.uri = IF request.op = "GetCapabilities" /\ Announced = {}
                                    THEN Nothing ELSE GetIp(buf)])

\* Mutant: the mask is read before the address.
InterfaceStepsMaskFirst == <<"hwaddr", "mask", "ip">>

\* Mutant: the address is the first text in the buffer.
InterfaceStepsIpFirst == <<"ip", "hwaddr", "mask">>

\* GetNetworkInterfaces reads one thing after the other, all texts into the
\* same buffer.
InterfaceSteps == <<"hwaddr", "ip", "mask">>

NextStep == IF pc = "handle" THEN InterfaceSteps[1]
            ELSE LET i == CHOOSE i \in 1 .. 3 : InterfaceSteps[i] = pc
                 IN  IF i = 3 THEN "done" ELSE InterfaceSteps[i + 1]

GetNetworkInterfaces ==
    /\ pc = "handle" /\ request.op = "GetNetworkInterfaces"
    /\ Continue(NextStep, reply)
    /\ UNCHANGED buf

ReadHwaddr ==
    /\ pc = "hwaddr"
    /\ buf' = GetHwaddr(buf)
    /\ Continue(NextStep, [reply EXCEPT !.hw = buf'])

ReadIp ==
    /\ pc = "ip"
    /\ buf' = GetIp(buf)
    /\ Continue(NextStep, [reply EXCEPT !.ip = buf'])

ReadMask ==
    /\ pc = "mask"
    /\ \E junk \in JunkMasks : Continue(NextStep, [reply EXCEPT !.prefix = GetMaskPrefix(junk)])
    /\ UNCHANGED buf

Done ==
    /\ pc = "done"
    /\ Answer(reply)

Next ==
    \/ Change
    \/ \E r \in Requests : Receive(r)
    \/ GetProfiles \/ GetProfile \/ GetVideoSources \/ GetServiceCapabilities \/ Empty
    \/ Settings \/ PtzDescription \/ PtzCommand
    \/ NotFound \/ FixedUri \/ NeedsAddress \/ GetServerIp
    \/ GetNetworkInterfaces \/ ReadHwaddr \/ ReadIp \/ ReadMask \/ Done

Spec == Init /\ [][Next]_vars

-----------------------------------------------------------------------------

Texts  == Addresses \cup Junk \cup {HwAddress, "fixed"}
Replies ==
    [fault : BOOLEAN, profiles : SUBSET Tokens, sourceTokens : SUBSET Tokens,
     sources : SUBSET Tokens, services : SUBSET Services,
     media : (SUBSET {"SnapshotUri"}) \cup {Nothing},
     uri : Texts \cup {Nothing}, hw : Texts \cup {Nothing}, ip : Texts \cup {Nothing},
     prefix : Prefixes \cup JunkMasks \cup {Nothing}]

TypeOK ==
    /\ iface \in States /\ ether \in BOOLEAN /\ changes \in 0 .. MaxChanges
    /\ profiles \in Profiles
    /\ pc \in {"idle", "handle", "address", "hwaddr", "ip", "mask", "done"}
    /\ request \in Requests
    /\ buf \in Texts
    /\ reply \in Replies
    /\ seen \in Seq(States)
    /\ told \in [tokens : SUBSET Tokens, sourceTokens : SUBSET Tokens,
                 sources : (SUBSET Tokens) \cup {Nothing},
                 denied : BOOLEAN, pictures : SUBSET Tokens]

Complete(op) == pc = "idle" /\ seen # <<>> /\ request.op = op
Configured   == \A i \in DOMAIN seen : seen[i] \in Configs
Present      == \A i \in DOMAIN seen : seen[i] # Gone

(***************************************************************************)
(* While the interface has an address, the address and the mask length of  *)
(* GetNetworkInterfaces are ones it had during the request, and the mask   *)
(* is not older than the address: between the ioctl calls the interface    *)
(* may be configured anew, but an answer never goes back in time.          *)
(***************************************************************************)
ReadInOrder ==
    Complete("GetNetworkInterfaces") /\ Configured =>
        \E i, j \in DOMAIN seen :
            i <= j /\ reply.ip = seen[i].ip /\ reply.prefix = seen[j].prefix

AddressSent == \E i \in DOMAIN seen : seen[i] \in Configs /\ reply.ip = seen[i].ip
MaskSent    == \E i \in DOMAIN seen : seen[i] \in Configs /\ reply.prefix = seen[i].prefix

(***************************************************************************)
(* What a call of GetNetworkInterfaces that failed can do, with one buffer *)
(* for two texts.  On a device of Ethernet that did not go away, what was  *)
(* on the stack, be it an address of an earlier request, never gets into   *)
(* the answer: the IPv4 address is one the interface had since the client  *)
(* asked, or the hardware address once more.  Elsewhere the call for the   *)
(* hardware address fails too and the stack is sent, but in both places.   *)
(***************************************************************************)
LeftByFailure ==
    Complete("GetNetworkInterfaces") =>
        /\ ether /\ Present => reply.hw = HwAddress
        /\ AddressSent \/ reply.ip = reply.hw
        /\ MaskSent \/ reply.prefix \in JunkMasks

(***************************************************************************)
(* While the interface has an address, the address a client finds in a URI *)
(* or in the XAddr of a service is one the interface had since the client  *)
(* asked: never what the buffer held, and never one of an earlier request. *)
(***************************************************************************)
AddressIsCurrent ==
    /\ pc = "idle" /\ seen # <<>> /\ Configured
    /\ reply.uri \notin {Nothing, "fixed"}
    => \E i \in DOMAIN seen : reply.uri = seen[i].ip

(***************************************************************************)
(* The token of a profile that a client got from GetProfiles or GetProfile *)
(* is known when it asks for this profile, its stream or its snapshot.     *)
(***************************************************************************)
TokensUsable ==
    pc = "idle" /\ request.op \in ByToken /\ request.token \in told.tokens => ~reply.fault

(***************************************************************************)
(* Every video source that a profile refers to is among the sources that   *)
(* GetVideoSources lists, in whichever order the two were asked for.       *)
(***************************************************************************)
ReferencesResolve ==
    told.sources # Nothing => told.sourceTokens \subseteq told.sources

(***************************************************************************)
(* A media service whose capabilities, sent by GetServiceCapabilities or   *)
(* with GetServices, are without snapshots never gave the URI of one and   *)
(* never will.                                                             *)
(***************************************************************************)
SnapshotHonest ==
    told.denied => told.pictures = {}

=================================================================================
