----------------------------- MODULE Answers_proofs -----------------------------
(***************************************************************************)
(* Answers for every set of names, every interface and every number of     *)
(* changes.  The history `seen' ends with the interface as it is, so that  *)
(* what is read now is at its end and what was read before is not behind.  *)
(***************************************************************************)
EXTENDS Answers, TLAPS

\* The history of the interface is up to date while a request is served.
UpToDate == pc # "idle" => seen # <<>> /\ iface = seen[Len(seen)]

\* Which requests a step is for, and what is in the reply by then.
StepsFit ==
    /\ pc \in {"handle", "address"} => reply = NoReply
    /\ pc = "address" => request.op \in ByToken \cup {"GetServices", "GetCapabilities"}
    /\ pc = "address" /\ request.op \in ByToken => Found(request.token) /\ Url # "empty"
    /\ pc \in {"hwaddr", "ip", "mask", "done"} =>
           /\ request.op = "GetNetworkInterfaces"
           /\ ~reply.fault /\ reply.profiles = {} /\ reply.sourceTokens = {}
           /\ reply.uri = Nothing /\ reply.media = Nothing

\* The part of ReadInOrder that holds while the answer is built.
AddressRead == \E i \in DOMAIN seen : reply.ip = seen[i].ip
BothRead ==
    \E i, j \in DOMAIN seen : i <= j /\ reply.ip = seen[i].ip /\ reply.prefix = seen[j].prefix
InOrder ==
    Configured =>
        /\ pc = "mask" => AddressRead
        /\ pc = "done" \/ Complete("GetNetworkInterfaces") => BothRead

\* What clients were told is so.
ToldTrue ==
    /\ told.tokens \subseteq DOMAIN profiles
    /\ told.sourceTokens \subseteq DOMAIN profiles
    /\ told.sources \in {Nothing, DOMAIN profiles}
    /\ told.denied => ~Snapshots
    /\ \A t \in told.pictures : t \in DOMAIN profiles /\ profiles[t].snapurl # "empty"
FaultsTrue ==
    pc = "idle" /\ request.op \in ByToken /\ reply.fault => ~Found(request.token)

IInv == /\ TypeOK /\ UpToDate /\ StepsFit /\ InOrder /\ AddressIsCurrent
        /\ ToldTrue /\ FaultsTrue

\* An address u that may be sent in answer to the request.
Current(u) ==
    Configured /\ u \notin {Nothing, "fixed"} => \E i \in DOMAIN seen : u = seen[i].ip

\* An answer r that may be given to the request.
Right(r) ==
    /\ r \in Replies
    /\ Current(r.uri)
    /\ r.profiles \subseteq DOMAIN profiles /\ r.sourceTokens \subseteq DOMAIN profiles
    /\ request.op = "GetVideoSources" => r.sources = DOMAIN profiles
    /\ r.media \in {Nothing, MediaCapabilities}
    /\ request.op = "GetSnapshotUri" /\ r.uri # Nothing =>
           Found(request.token) /\ profiles[request.token].snapurl # "empty"
    /\ request.op \in ByToken /\ r.fault => ~Found(request.token)
    /\ request.op = "GetNetworkInterfaces" /\ Configured =>
           \E i, j \in DOMAIN seen :
               i <= j /\ r.ip = seen[i].ip /\ r.prefix = seen[j].prefix

\* The empty reply is a reply.
LEMMA NoReplyIsReply == NoReply \in Replies
<1>1. Nothing \in Texts \cup {Nothing} /\ Nothing \in Prefixes \cup JunkMasks \cup {Nothing}
  OBVIOUS
<1>2. Nothing \in (SUBSET {"SnapshotUri"}) \cup {Nothing}
  OBVIOUS
<1> QED BY <1>1, <1>2 DEF NoReply, Replies

\* The token of a request that has one is a token.
LEMMA RequestTokens ==
  ASSUME TypeOK, request.op \in ByToken
  PROVE  request.token \in Tokens
BY DEF TypeOK, Requests, ByToken, ForAll

\* What is sent for the media service is without SnapshotUri only when no
\* profile has a snapshot.
LEMMA MediaSent ==
  /\ MediaCapabilities \in SUBSET {"SnapshotUri"}
  /\ MediaCapabilities = {} => ~Snapshots
  /\ Nothing # {}
<1>1. {} \in SUBSET {"SnapshotUri"}
  OBVIOUS
<1> QED BY <1>1, NothingAssumption DEF MediaCapabilities

\* The invariant holds at the start.
LEMMA InitOK == Init => IInv
<1> SUFFICES ASSUME Init PROVE IInv
  OBVIOUS
<1>1. TypeOK
  <2>1. request \in Requests
    BY DEF Init, Requests, ForAll
  <2>2. reply \in Replies
    BY NoReplyIsReply DEF Init
  <2>3. seen \in Seq(States) /\ buf \in Texts
    BY DEF Init, Texts
  <2>4. told \in [tokens : SUBSET Tokens, sourceTokens : SUBSET Tokens,
                  sources : (SUBSET Tokens) \cup {Nothing},
                  denied : BOOLEAN, pictures : SUBSET Tokens]
    BY DEF Init
  <2> QED BY <2>1, <2>2, <2>3, <2>4, MaxChangesAssumption DEF Init, TypeOK
<1>2. UpToDate /\ StepsFit /\ InOrder
  BY DEF Init, UpToDate, StepsFit, InOrder, Complete, Configured
<1>5. AddressIsCurrent
  BY DEF Init, AddressIsCurrent
<1>3. ToldTrue
  BY DEF Init, ToldTrue
<1>4. FaultsTrue
  BY DEF Init, FaultsTrue, ByToken
<1> QED BY <1>1, <1>2, <1>3, <1>4, <1>5 DEF IInv

\* A right answer keeps the invariant.
LEMMA AnswerKeeps ==
  ASSUME IInv, NEW r, Right(r), Answer(r)
  PROVE  IInv'
<1>1. TypeOK'
  <2>1. /\ iface' = iface /\ ether' = ether /\ changes' = changes /\ profiles' = profiles
        /\ request' = request /\ seen' = seen /\ pc' = "idle" /\ reply' = r 
        /\ buf' \in Junk \cup {buf}
    BY DEF Answer, ifaceVars
  <2>2. request.op = "GetSnapshotUri" => request.token \in Tokens
    BY RequestTokens DEF IInv, ByToken
  <2>3. /\ r.profiles \subseteq Tokens /\ r.sourceTokens \subseteq Tokens
        /\ r.sources \subseteq Tokens
    BY DEF Right, Replies
  <2>4. told' \in [tokens : SUBSET Tokens, sourceTokens : SUBSET Tokens,
                   sources : (SUBSET Tokens) \cup {Nothing},
                   denied : BOOLEAN, pictures : SUBSET Tokens]
    <3>1. /\ told.tokens \cup r.profiles \subseteq Tokens
          /\ told.sourceTokens \cup r.sourceTokens \subseteq Tokens
      BY <2>3 DEF IInv, TypeOK
    <3>2. (IF request.op = "GetVideoSources" THEN r.sources ELSE told.sources)
            \in (SUBSET Tokens) \cup {Nothing}
      BY <2>3 DEF IInv, TypeOK
    <3>3. (told.denied \/ r.media = {}) \in BOOLEAN
      OBVIOUS
    <3>4. (IF request.op = "GetSnapshotUri" /\ r.uri # Nothing
           THEN told.pictures \cup {request.token} ELSE told.pictures) \in SUBSET Tokens
      BY <2>2 DEF IInv, TypeOK
    <3> QED BY <3>1, <3>2, <3>3, <3>4 DEF Answer
  <2> QED BY <2>1, <2>4 DEF IInv, TypeOK, Right, Texts
<1>2. UpToDate' /\ StepsFit'
  BY DEF Answer, UpToDate, StepsFit
<1>3. InOrder'
  <2> SUFFICES ASSUME Configured, request.op = "GetNetworkInterfaces"
               PROVE  BothRead'
    BY DEF Answer, InOrder, Configured, Complete
  <2>1. PICK i, j \in DOMAIN seen :
          i <= j /\ r.ip = seen[i].ip /\ r.prefix = seen[j].prefix
    BY DEF Right
  <2> QED BY <2>1 DEF BothRead, Answer
<1>4. ToldTrue'
  <2>1. profiles' = profiles /\ (Snapshots <=> Snapshots')
    BY DEF Answer, Snapshots
  <2>2. told'.tokens \subseteq DOMAIN profiles /\ told'.sourceTokens \subseteq DOMAIN profiles
    BY DEF Answer, IInv, ToldTrue, Right
  <2>3. told'.sources \in {Nothing, DOMAIN profiles}
    BY DEF Answer, IInv, ToldTrue, Right
  <2>4. told'.denied => ~Snapshots
    BY MediaSent DEF Answer, IInv, ToldTrue, Right
  <2>5. \A t \in told'.pictures : t \in DOMAIN profiles /\ profiles[t].snapurl # "empty"
    BY DEF Answer, IInv, ToldTrue, Right, Found
  <2>6. Snapshots' = Snapshots
    BY <2>1 DEF Snapshots
  <2> QED BY <2>1, <2>2, <2>3, <2>4, <2>5, <2>6 DEF ToldTrue
<1>5. FaultsTrue'
  BY DEF Answer, Right, FaultsTrue, Found
<1>6. AddressIsCurrent'
  BY DEF Answer, Right, Current, AddressIsCurrent, Configured
<1> QED BY <1>1, <1>2, <1>3, <1>4, <1>5, <1>6 DEF IInv

\* What a step that goes on with the request leaves alone.
LEMMA ContinueKeeps ==
  ASSUME IInv, NEW s, NEW r, Continue(s, r), r \in Replies, buf' \in Texts,
         s \in {"address", "hwaddr", "ip", "mask", "done"}, pc # "idle"
  PROVE  TypeOK' /\ UpToDate' /\ ToldTrue' /\ FaultsTrue' /\ AddressIsCurrent'
<1>1. TypeOK'
  BY DEF Continue, ifaceVars, IInv, TypeOK
<1>2. UpToDate'
  BY DEF Continue, ifaceVars, IInv, UpToDate
<1>3. ToldTrue'
  <2>1. profiles' = profiles /\ told' = told /\ Snapshots' = Snapshots
    BY DEF Continue, Snapshots
  <2> QED BY <2>1 DEF IInv, ToldTrue
<1>4. FaultsTrue'
  BY DEF Continue, FaultsTrue
<1>5. AddressIsCurrent'
  BY DEF Continue, AddressIsCurrent
<1> QED BY <1>1, <1>2, <1>3, <1>4, <1>5

\* The handlers that answer at once.
LEMMA GetProfilesStep == ASSUME IInv, GetProfiles PROVE IInv'
<1> DEFINE r == ProfilesReply(DOMAIN profiles)
<1>1. DOMAIN profiles \subseteq Tokens
  BY DEF IInv, TypeOK, Profiles
<1>2. Right(r)
  BY <1>1, NoReplyIsReply DEF ProfilesReply, GetProfiles, Right, Current, Replies, NoReply, ByToken
<1> QED BY <1>2, AnswerKeeps DEF GetProfiles

LEMMA GetProfileStep == ASSUME IInv, GetProfile PROVE IInv'
<1> DEFINE r == ProfilesReply({request.token})
<1>1. {request.token} \subseteq Tokens /\ {request.token} \subseteq DOMAIN profiles
  BY RequestTokens DEF IInv, GetProfile, Found, ByToken
<1>2. Right(r)
  BY <1>1, NoReplyIsReply DEF ProfilesReply, GetProfile, Right, Current, Replies, NoReply, ByToken
<1> QED BY <1>2, AnswerKeeps DEF GetProfile

LEMMA GetVideoSourcesStep == ASSUME IInv, GetVideoSources PROVE IInv'
<1> DEFINE r == [NoReply EXCEPT !.sources = VideoSources]
<1>1. DOMAIN profiles \subseteq Tokens
  BY DEF IInv, TypeOK, Profiles
<1>2. Right(r)
  BY <1>1, NoReplyIsReply DEF GetVideoSources, VideoSources, Right, Current, Replies, NoReply, ByToken
<1> QED BY <1>2, AnswerKeeps DEF GetVideoSources

LEMMA GetServiceCapabilitiesStep == ASSUME IInv, GetServiceCapabilities PROVE IInv'
<1> DEFINE r == [NoReply EXCEPT !.media = MediaCapabilities]
<1>1. Right(r)
  BY MediaSent, NoReplyIsReply
     DEF GetServiceCapabilities, Right, Current, Replies, NoReply, ByToken
<1> QED BY <1>1, AnswerKeeps DEF GetServiceCapabilities

LEMMA EmptyStep == ASSUME IInv, Empty PROVE IInv'
<1>1. Right(NoReply)
  BY NoReplyIsReply DEF Empty, Right, Current, NoReply, ByToken
<1> QED BY <1>1, AnswerKeeps DEF Empty

\* The handlers whose answer is always the same.
LEMMA FixedStep ==
  ASSUME IInv, Settings \/ PtzDescription \/ PtzCommand
  PROVE  IInv'
<1>1. Right(NoReply) /\ Answer(NoReply)
  BY NoReplyIsReply
     DEF Settings, PtzDescription, PtzCommand, Right, Current, NoReply, ByToken
<1> QED BY <1>1, AnswerKeeps

LEMMA NotFoundStep == ASSUME IInv, NotFound PROVE IInv'
<1> DEFINE r == [NoReply EXCEPT !.fault = TRUE]
<1>1. Right(r)
  BY NoReplyIsReply DEF NotFound, Right, Current, Replies, NoReply, ByToken
<1> QED BY <1>1, AnswerKeeps DEF NotFound

LEMMA FixedUriStep == ASSUME IInv, FixedUri PROVE IInv'
<1> DEFINE u == IF Url = "empty" THEN Nothing ELSE "fixed"
<1> DEFINE r == [NoReply EXCEPT !.uri = u]
<1>1. u \in Texts \cup {Nothing}
  BY DEF Texts
<1>2. r \in Replies
  BY <1>1, NoReplyIsReply DEF Replies
<1>3. request.op = "GetSnapshotUri" /\ r.uri # Nothing =>
        Found(request.token) /\ profiles[request.token].snapurl # "empty"
  BY DEF FixedUri, Url, NoReply
<1>4. Right(r)
  BY <1>2, <1>3 DEF FixedUri, Right, Current, NoReply, ByToken
<1> QED BY <1>4, AnswerKeeps DEF FixedUri

LEMMA GetServerIpStep == ASSUME IInv, GetServerIp PROVE IInv'
<1> DEFINE u == IF request.op = "GetCapabilities" /\ Announced = {} THEN Nothing ELSE GetIp(buf)
<1> DEFINE c == IF request.op = "GetServices" /\ request.includeCapability
                THEN MediaCapabilities ELSE Nothing
<1> DEFINE r == [reply EXCEPT !.services = Announced, !.media = c, !.uri = u]
<1>1. reply = NoReply
  BY DEF IInv, StepsFit, GetServerIp
<1>2. GetIp(buf) \in Texts
  BY ConfigsAssumption DEF IInv, TypeOK, GetIp, Texts
<1>3. Announced \subseteq Services
  BY DEF Announced, Capabilities
<1>4. r \in Replies
  <2>1. u \in Texts \cup {Nothing}
    BY <1>2
  <2>2. \A q \in Replies, a \in SUBSET Services, t \in Texts \cup {Nothing},
           d \in (SUBSET {"SnapshotUri"}) \cup {Nothing} :
          [q EXCEPT !.services = a, !.media = d, !.uri = t] \in Replies
    BY DEF Replies
  <2>3. reply \in Replies
    BY DEF IInv, TypeOK
  <2>4. Announced \in SUBSET Services
    BY <1>3
  <2>6. c \in (SUBSET {"SnapshotUri"}) \cup {Nothing}
    <3>1. MediaCapabilities \in SUBSET {"SnapshotUri"}
      BY MediaSent
    <3>2. c = MediaCapabilities \/ c = Nothing
      OBVIOUS
    <3> HIDE DEF c
    <3> QED BY <3>1, <3>2
  <2> HIDE DEF u, c
  <2>5. [reply EXCEPT !.services = Announced, !.media = c, !.uri = u] \in Replies
    BY <2>1, <2>2, <2>3, <2>4, <2>6
  <2> QED BY <2>5 DEF u, c
<1>5. request.op = "GetSnapshotUri" =>
        Found(request.token) /\ profiles[request.token].snapurl # "empty"
  BY DEF IInv, StepsFit, GetServerIp, Url, ByToken
<1>6. request.op \in ByToken \cup {"GetServices", "GetCapabilities"}
  BY DEF IInv, StepsFit, GetServerIp
<1>8. Current(r.uri)
  <2>1. /\ Len(seen) \in DOMAIN seen /\ iface = seen[Len(seen)]
    BY DEF IInv, TypeOK, UpToDate, GetServerIp
  <2>2. Configured => GetIp(buf) = seen[Len(seen)].ip
    BY <2>1 DEF GetIp, Configured
  <2>3. Current(u)
    BY <2>1, <2>2 DEF Current
  <2>4. r.uri = u
    BY DEF IInv, TypeOK, Replies
  <2> QED BY <2>3, <2>4
<1>9. r.media = c /\ c \in {Nothing, MediaCapabilities}
  BY DEF IInv, TypeOK, Replies
<1>7. Right(r)
  BY <1>9, <1>1, <1>4, <1>5, <1>6, <1>8 DEF GetServerIp, Right, NoReply, ByToken, Announced
<1> QED BY <1>7, AnswerKeeps DEF GetServerIp

LEMMA DoneStep == ASSUME IInv, Done PROVE IInv'
<1>1. Right(reply)
  BY DEF IInv, TypeOK, StepsFit, InOrder, BothRead, Done, Right, Current, ByToken
<1> QED BY <1>1, AnswerKeeps DEF Done

\* The handlers that go on.
LEMMA NeedsAddressStep == ASSUME IInv, NeedsAddress PROVE IInv'
<1>1. Continue("address", reply) /\ buf' = buf /\ pc = "handle"
  BY DEF NeedsAddress
<1>2. reply \in Replies /\ buf \in Texts
  BY DEF IInv, TypeOK
<1>3. TypeOK' /\ UpToDate' /\ ToldTrue' /\ FaultsTrue' /\ AddressIsCurrent'
  BY <1>1, <1>2, ContinueKeeps
<1>4. pc' = "address" /\ reply' = NoReply /\ request' = request /\ profiles' = profiles
  BY <1>1 DEF Continue, IInv, StepsFit
<1>5. request.op \in ByToken \cup {"GetServices", "GetCapabilities"}
  BY DEF NeedsAddress
<1>6. request.op \in ByToken => Found(request.token) /\ Url # "empty"
  BY DEF NeedsAddress, ByToken
<1>7. StepsFit'
  BY <1>4, <1>5, <1>6 DEF StepsFit, Found, Url
<1>8. InOrder'
  BY <1>4 DEF InOrder, Complete
<1> QED BY <1>3, <1>7, <1>8 DEF IInv

\* NextStep walks through the steps of GetNetworkInterfaces.
LEMMA Walk ==
  /\ pc = "handle" => NextStep = "hwaddr"
  /\ pc = "hwaddr" => NextStep = "ip"
  /\ pc = "ip" => NextStep = "mask"
  /\ pc = "mask" => NextStep = "done"
<1>1. InterfaceSteps[1] = "hwaddr" /\ InterfaceSteps[2] = "ip" /\ InterfaceSteps[3] = "mask"
  BY DEF InterfaceSteps
<1> DEFINE at == CHOOSE i \in 1 .. 3 : InterfaceSteps[i] = pc
<1>2. NextStep = IF pc = "handle" THEN InterfaceSteps[1]
                 ELSE IF at = 3 THEN "done" ELSE InterfaceSteps[at + 1]
  BY DEF NextStep
<1>3. \A i \in 1 .. 3 : i = 1 \/ i = 2 \/ i = 3
  OBVIOUS
<1>4. pc = "hwaddr" => at = 1
  BY <1>1, <1>3
<1>5. pc = "ip" => at = 2
  BY <1>1, <1>3
<1>6. pc = "mask" => at = 3
  BY <1>1, <1>3
<1> HIDE DEF at
<1> QED BY <1>1, <1>2, <1>4, <1>5, <1>6

\* GetNetworkInterfaces begins with an empty reply.
LEMMA GetNetworkInterfacesStep == ASSUME IInv, GetNetworkInterfaces PROVE IInv'
<1>1. Continue("hwaddr", reply) /\ buf' = buf /\ pc = "handle"
  BY Walk DEF GetNetworkInterfaces
<1>2. reply \in Replies /\ buf \in Texts
  BY DEF IInv, TypeOK
<1>3. TypeOK' /\ UpToDate' /\ ToldTrue' /\ FaultsTrue' /\ AddressIsCurrent'
  BY <1>1, <1>2, ContinueKeeps
<1>4. pc' = "hwaddr" /\ reply' = NoReply /\ request' = request
  BY <1>1 DEF Continue, IInv, StepsFit
<1>5. StepsFit'
  BY <1>4 DEF StepsFit, GetNetworkInterfaces, NoReply
<1>6. InOrder'
  BY <1>4 DEF InOrder, Complete
<1> QED BY <1>3, <1>5, <1>6 DEF IInv

LEMMA ReadHwaddrStep == ASSUME IInv, ReadHwaddr PROVE IInv'
<1>1. PICK r : r = [reply EXCEPT !.hw = buf']
  OBVIOUS
<1>2. Continue("ip", r) /\ pc = "hwaddr"
  BY <1>1, Walk DEF ReadHwaddr
<1>3. buf' \in Texts
  BY DEF ReadHwaddr, GetHwaddr, IInv, TypeOK, Texts
<1>4. r \in Replies
  BY <1>1, <1>3 DEF IInv, TypeOK, Replies
<1>5. TypeOK' /\ UpToDate' /\ ToldTrue' /\ FaultsTrue' /\ AddressIsCurrent'
  BY <1>2, <1>3, <1>4, ContinueKeeps
<1>6. /\ pc' = "ip" /\ request' = request /\ reply' = r
      /\ r.fault = reply.fault /\ r.profiles = reply.profiles
      /\ r.sourceTokens = reply.sourceTokens /\ r.uri = reply.uri
      /\ r.media = reply.media
  BY <1>1, <1>2 DEF Continue, IInv, TypeOK, Replies
<1>7. StepsFit'
  BY <1>2, <1>6 DEF StepsFit, IInv
<1>8. InOrder'
  BY <1>6 DEF InOrder, Complete
<1> QED BY <1>5, <1>7, <1>8 DEF IInv

LEMMA ReadIpStep == ASSUME IInv, ReadIp PROVE IInv'
<1>1. PICK r : r = [reply EXCEPT !.ip = buf']
  OBVIOUS
<1>2. Continue("mask", r) /\ pc = "ip"
  BY <1>1, Walk DEF ReadIp
<1>3. buf' \in Texts
  BY ConfigsAssumption DEF ReadIp, GetIp, IInv, TypeOK, Texts
<1>4. r \in Replies
  BY <1>1, <1>3 DEF IInv, TypeOK, Replies
<1>5. TypeOK' /\ UpToDate' /\ ToldTrue' /\ FaultsTrue' /\ AddressIsCurrent'
  BY <1>2, <1>3, <1>4, ContinueKeeps
<1>6. /\ pc' = "mask" /\ request' = request /\ reply' = r /\ seen' = seen
      /\ r.fault = reply.fault /\ r.profiles = reply.profiles
      /\ r.sourceTokens = reply.sourceTokens /\ r.ip = buf' /\ r.uri = reply.uri
      /\ r.media = reply.media
  BY <1>1, <1>2 DEF Continue, IInv, TypeOK, Replies
<1>7. StepsFit'
  BY <1>2, <1>6 DEF StepsFit, IInv
<1>8. ASSUME Configured PROVE AddressRead'
  <2>1. /\ Len(seen) \in DOMAIN seen /\ iface = seen[Len(seen)]
    BY <1>2 DEF IInv, TypeOK, UpToDate
  <2>2. buf' = seen[Len(seen)].ip
    BY <1>8, <2>1 DEF ReadIp, GetIp, Configured
  <2> QED BY <1>6, <2>1, <2>2 DEF AddressRead
<1>9. InOrder'
  BY <1>6, <1>8 DEF InOrder, Complete, Configured
<1> QED BY <1>5, <1>7, <1>9 DEF IInv

LEMMA ReadMaskStep == ASSUME IInv, ReadMask PROVE IInv'
<1>0. PICK junk \in JunkMasks : \E r :
        /\ r = [reply EXCEPT !.prefix = GetMaskPrefix(junk)]
        /\ Continue("done", r) /\ pc = "mask" /\ buf' = buf
  BY Walk DEF ReadMask
<1>1. PICK r :
        /\ r = [reply EXCEPT !.prefix = GetMaskPrefix(junk)]
        /\ Continue("done", r) /\ pc = "mask" /\ buf' = buf
  BY <1>0
<1>2. GetMaskPrefix(junk) \in Prefixes \cup JunkMasks
  BY ConfigsAssumption DEF GetMaskPrefix
<1>3. r \in Replies
  BY <1>1, <1>2 DEF IInv, TypeOK, Replies
<1>4. TypeOK' /\ UpToDate' /\ ToldTrue' /\ FaultsTrue' /\ AddressIsCurrent'
  <2>1. buf' \in Texts
    BY <1>1 DEF IInv, TypeOK
  <2> QED BY <1>1, <1>3, <2>1, ContinueKeeps
<1>5. /\ pc' = "done" /\ request' = request /\ reply' = r /\ seen' = seen
      /\ r.fault = reply.fault /\ r.profiles = reply.profiles
      /\ r.sourceTokens = reply.sourceTokens /\ r.ip = reply.ip
      /\ r.uri = reply.uri /\ r.media = reply.media /\ r.prefix = GetMaskPrefix(junk)
  BY <1>1 DEF Continue, IInv, TypeOK, Replies
<1>6. StepsFit'
  BY <1>1, <1>5 DEF StepsFit, IInv
<1>7. ASSUME Configured PROVE BothRead'
  <2>1. /\ Len(seen) \in DOMAIN seen /\ iface = seen[Len(seen)]
        /\ \A i \in DOMAIN seen : i <= Len(seen)
    BY <1>1 DEF IInv, TypeOK, UpToDate
  <2>2. GetMaskPrefix(junk) = seen[Len(seen)].prefix
    BY <1>7, <2>1 DEF GetMaskPrefix, Configured
  <2>3. PICK i \in DOMAIN seen : reply.ip = seen[i].ip
    BY <1>1, <1>7 DEF IInv, InOrder, AddressRead
  <2> QED BY <1>5, <2>1, <2>2, <2>3 DEF BothRead
<1>8. InOrder'
  BY <1>5, <1>7 DEF InOrder, Configured
<1> QED BY <1>4, <1>6, <1>8 DEF IInv

\* A change of the interface makes the history longer by one.
LEMMA ChangeStep == ASSUME IInv, Change PROVE IInv'
<1>1. /\ UNCHANGED <<profiles, pc, request, reply, told>>
      /\ seen \in Seq(States) /\ iface' \in States
      /\ seen' = IF pc = "idle" THEN seen ELSE Append(seen, iface')
  BY DEF Change, IInv, TypeOK
<1>2. TypeOK'
  <2>1. seen' \in Seq(States)
    BY <1>1
  <2>2. changes' \in 0 .. MaxChanges
    BY MaxChangesAssumption DEF Change, IInv, TypeOK
  <2> QED BY <1>1, <2>1, <2>2 DEF Change, IInv, TypeOK
<1>3. UpToDate'
  BY <1>1 DEF UpToDate
<1>4. StepsFit'
  BY <1>1 DEF StepsFit, IInv, Found, Url
<1>5. InOrder'
  <2>1. /\ DOMAIN seen \subseteq DOMAIN seen'
        /\ \A i \in DOMAIN seen : seen'[i] = seen[i]
        /\ DOMAIN seen \subseteq Nat
    BY <1>1
  <2>2. Configured' => Configured
    BY <2>1 DEF Configured
  <2>3. AddressRead => AddressRead'
    BY <1>1, <2>1 DEF AddressRead
  <2>4. BothRead => BothRead'
    BY <1>1, <2>1 DEF BothRead
  <2>5. Complete("GetNetworkInterfaces")' => Complete("GetNetworkInterfaces")
    BY <1>1 DEF Complete
  <2> QED BY <1>1, <2>2, <2>3, <2>4, <2>5 DEF InOrder, IInv
<1>6. ToldTrue'
  <2>1. profiles' = profiles /\ told' = told /\ Snapshots' = Snapshots
    BY <1>1 DEF Snapshots
  <2> QED BY <2>1 DEF IInv, ToldTrue
<1>7. FaultsTrue'
  BY <1>1 DEF FaultsTrue, IInv, Found
<1>8. AddressIsCurrent'
  BY <1>1 DEF AddressIsCurrent, IInv, Configured
<1> QED BY <1>2, <1>3, <1>4, <1>5, <1>6, <1>7, <1>8 DEF IInv

LEMMA ReceiveStep == ASSUME IInv, NEW r \in Requests, Receive(r) PROVE IInv'
<1>1. /\ pc' = "handle" /\ request' = r /\ reply' = NoReply /\ seen' = <<iface>>
      /\ UNCHANGED <<iface, ether, changes, profiles, buf, told>>
  BY DEF Receive, ifaceVars
<1>2. TypeOK'
  BY <1>1, NoReplyIsReply DEF IInv, TypeOK
<1>3. UpToDate' /\ StepsFit'
  BY <1>1 DEF UpToDate, StepsFit
<1>4. InOrder'
  BY <1>1 DEF InOrder, Complete
<1>5. ToldTrue'
  <2>1. profiles' = profiles /\ told' = told /\ Snapshots' = Snapshots
    BY <1>1 DEF Snapshots
  <2> QED BY <2>1 DEF IInv, ToldTrue
<1>6. FaultsTrue'
  BY <1>1 DEF FaultsTrue
<1>7. AddressIsCurrent'
  BY <1>1 DEF AddressIsCurrent
<1> QED BY <1>2, <1>3, <1>4, <1>5, <1>6, <1>7 DEF IInv

\* Every step keeps the invariant.
LEMMA NextKeeps == IInv /\ [Next]_vars => IInv'
<1> SUFFICES ASSUME IInv, [Next]_vars PROVE IInv'
  OBVIOUS
<1>1. CASE UNCHANGED vars
  <2>1. UNCHANGED <<iface, ether, changes, profiles, pc, request, buf, reply, seen, told>>
    BY <1>1 DEF vars, ifaceVars
  <2>2. TypeOK' /\ UpToDate' /\ StepsFit'
    BY <2>1 DEF IInv, TypeOK, UpToDate, StepsFit, Found, Url
  <2>3. InOrder' /\ AddressIsCurrent'
    BY <2>1 DEF IInv, InOrder, AddressRead, BothRead, Configured, Complete, AddressIsCurrent
  <2>4. Snapshots' = Snapshots
    BY <2>1 DEF Snapshots
  <2>5. ToldTrue' /\ FaultsTrue'
    BY <2>1, <2>4 DEF IInv, ToldTrue, FaultsTrue, Found
  <2> QED BY <2>2, <2>3, <2>5 DEF IInv
<1>2. CASE Change
  BY <1>2, ChangeStep
<1>3. CASE \E r \in Requests : Receive(r)
  BY <1>3, ReceiveStep
<1>4. CASE GetProfiles
  BY <1>4, GetProfilesStep
<1>5. CASE GetProfile
  BY <1>5, GetProfileStep
<1>6. CASE GetVideoSources
  BY <1>6, GetVideoSourcesStep
<1>7. CASE GetServiceCapabilities
  BY <1>7, GetServiceCapabilitiesStep
<1>8. CASE Empty
  BY <1>8, EmptyStep
<1>9. CASE NotFound
  BY <1>9, NotFoundStep
<1>10. CASE FixedUri
  BY <1>10, FixedUriStep
<1>11. CASE NeedsAddress
  BY <1>11, NeedsAddressStep
<1>12. CASE GetServerIp
  BY <1>12, GetServerIpStep
<1>13. CASE GetNetworkInterfaces
  BY <1>13, GetNetworkInterfacesStep
<1>14. CASE ReadHwaddr
  BY <1>14, ReadHwaddrStep
<1>15. CASE ReadIp
  BY <1>15, ReadIpStep
<1>16. CASE ReadMask
  BY <1>16, ReadMaskStep
<1>17. CASE Done
  BY <1>17, DoneStep
<1>18. CASE Settings \/ PtzDescription \/ PtzCommand
  BY <1>18, FixedStep
<1> QED BY <1>1, <1>2, <1>3, <1>4, <1>5, <1>6, <1>7, <1>8, <1>9, <1>10, <1>11, <1>12,
           <1>13, <1>14, <1>15, <1>16, <1>17, <1>18 DEF Next

\* The invariant holds in every reachable state.
LEMMA Invariance == Spec => []IInv
BY InitOK, NextKeeps, PTL DEF Spec

-----------------------------------------------------------------------------
(* The buffer, when calls fail. *)

\* The buffer holds the text that was sent as the hardware address when the
\* address is read.
Buffer == pc = "ip" => buf = reply.hw

\* The part of LeftByFailure that holds while the answer is built.
Sent == Complete("GetNetworkInterfaces")
SentSoFar ==
    /\ pc \in {"ip", "mask", "done"} \/ Sent => (ether /\ Present => reply.hw = HwAddress)
    /\ pc \in {"mask", "done"} \/ Sent => AddressSent \/ reply.ip = reply.hw
    /\ pc = "done" \/ Sent => MaskSent \/ reply.prefix \in JunkMasks

BufferInv == Buffer /\ SentSoFar

\* The end of a request that sends nothing of the interface but, at most, the
\* address in a URI.
LEMMA OtherAnswers ==
  ASSUME NEW r, Answer(r), request.op # "GetNetworkInterfaces"
  PROVE  BufferInv'
BY DEF Answer, BufferInv, Buffer, SentSoFar, Sent, Complete

LEMMA BufferChange == ASSUME IInv, BufferInv, Change PROVE BufferInv'
<1>1. /\ UNCHANGED <<ether, pc, request, buf, reply>>
      /\ seen \in Seq(States) /\ iface' \in States
      /\ seen' = IF pc = "idle" THEN seen ELSE Append(seen, iface')
  BY DEF Change, IInv, TypeOK
<1>2. DOMAIN seen \subseteq DOMAIN seen' /\ \A i \in DOMAIN seen : seen'[i] = seen[i]
  BY <1>1
<1>3. (AddressSent => AddressSent') /\ (MaskSent => MaskSent')
  BY <1>1, <1>2 DEF AddressSent, MaskSent
<1>4. (Sent' => Sent) /\ (Present' => Present)
  BY <1>1, <1>2 DEF Sent, Complete, Present
<1> QED BY <1>1, <1>3, <1>4 DEF BufferInv, Buffer, SentSoFar

LEMMA BufferHwaddr == ASSUME IInv, BufferInv, ReadHwaddr PROVE BufferInv'
<1>1. /\ pc = "hwaddr" /\ pc' = "ip" /\ buf' = GetHwaddr(buf)
      /\ reply' = [reply EXCEPT !.hw = buf'] /\ reply \in Replies
      /\ UNCHANGED <<iface, ether, seen>>
  BY Walk DEF ReadHwaddr, Continue, ifaceVars, IInv, TypeOK
<1>2. Len(seen) \in DOMAIN seen /\ iface = seen[Len(seen)]
  BY <1>1 DEF IInv, TypeOK, UpToDate
<1>3. reply'.hw = buf' /\ (ether' /\ Present' => buf' = HwAddress)
  BY <1>1, <1>2 DEF GetHwaddr, Present, Replies
<1> QED BY <1>1, <1>3 DEF BufferInv, Buffer, SentSoFar, Sent, Complete

LEMMA BufferIp == ASSUME IInv, BufferInv, ReadIp PROVE BufferInv'
<1>1. /\ pc = "ip" /\ pc' = "mask" /\ buf' = GetIp(buf)
      /\ seen' = seen /\ ether' = ether
      /\ reply' = [reply EXCEPT !.ip = buf'] /\ reply \in Replies
  BY Walk DEF ReadIp, Continue, ifaceVars, IInv, TypeOK
<1>2. reply'.ip = GetIp(buf) /\ reply'.hw = reply.hw
  BY <1>1 DEF Replies
<1>3. Len(seen) \in DOMAIN seen /\ iface = seen[Len(seen)]
  BY <1>1 DEF IInv, TypeOK, UpToDate
<1>5. Present' <=> Present
  BY <1>1 DEF Present
<1>4. AddressSent' \/ reply'.ip = reply'.hw
  <2>1. CASE iface \in Configs
    <3>1. seen[Len(seen)] \in Configs /\ reply'.ip = seen[Len(seen)].ip
      BY <1>2, <1>3, <2>1 DEF GetIp
    <3> QED BY <1>1, <1>3, <3>1 DEF AddressSent
  <2>2. CASE iface \notin Configs
    BY <1>1, <1>2, <2>2 DEF GetIp, BufferInv, Buffer
  <2> QED BY <2>1, <2>2
<1> QED BY <1>1, <1>2, <1>4, <1>5 DEF BufferInv, Buffer, SentSoFar, Sent, Complete

LEMMA BufferMask == ASSUME IInv, BufferInv, ReadMask PROVE BufferInv'
<1>1. PICK junk \in JunkMasks :
        /\ pc = "mask" /\ pc' = "done" /\ seen' = seen /\ ether' = ether
        /\ reply' = [reply EXCEPT !.prefix = GetMaskPrefix(junk)] /\ reply \in Replies
  BY Walk DEF ReadMask, Continue, ifaceVars, IInv, TypeOK
<1>2. /\ reply'.prefix = GetMaskPrefix(junk) /\ reply'.hw = reply.hw
      /\ reply'.ip = reply.ip
  BY <1>1 DEF Replies
<1>3. Len(seen) \in DOMAIN seen /\ iface = seen[Len(seen)]
  BY <1>1 DEF IInv, TypeOK, UpToDate
<1>4. MaskSent' \/ reply'.prefix \in JunkMasks
  <2>1. CASE iface \in Configs
    <3>1. seen[Len(seen)] \in Configs /\ reply'.prefix = seen[Len(seen)].prefix
      BY <1>2, <1>3, <2>1 DEF GetMaskPrefix
    <3> QED BY <1>1, <1>3, <3>1 DEF MaskSent
  <2>2. CASE iface \notin Configs
    BY <1>2, <2>2 DEF GetMaskPrefix
  <2> QED BY <2>1, <2>2
<1>5. (AddressSent' <=> AddressSent) /\ (Present' <=> Present)
  BY <1>1, <1>2 DEF AddressSent, Present
<1> QED BY <1>1, <1>2, <1>4, <1>5 DEF BufferInv, Buffer, SentSoFar, Sent, Complete

\* Every step keeps it.
LEMMA BufferStep == ASSUME IInv, BufferInv, [Next]_vars PROVE BufferInv'
<1>1. CASE UNCHANGED vars
  BY <1>1 DEF vars, ifaceVars, BufferInv, Buffer, SentSoFar, Sent, Complete, Present,
     AddressSent, MaskSent
<1>2. CASE \E q \in Requests : Receive(q)
  BY <1>2 DEF Receive, BufferInv, Buffer, SentSoFar, Sent, Complete
<1>3. CASE GetNetworkInterfaces \/ NeedsAddress
  <2>1. pc = "handle" /\ pc' \in {"hwaddr", "address"} /\ buf' = buf
    BY <1>3, Walk DEF GetNetworkInterfaces, NeedsAddress, Continue
  <2> QED BY <2>1 DEF BufferInv, Buffer, SentSoFar, Sent, Complete
<1>4. CASE \E r : Answer(r) /\ request.op # "GetNetworkInterfaces"
  BY <1>4, OtherAnswers
<1>5. CASE Done
  <2>1. /\ pc = "done" /\ pc' = "idle"
        /\ UNCHANGED <<ether, reply, seen, request>>
    BY <1>5 DEF Done, Answer, ifaceVars
  <2>2. UNCHANGED <<AddressSent, MaskSent, Present>>
    BY <2>1 DEF AddressSent, MaskSent, Present
  <2> QED BY <2>1, <2>2 DEF BufferInv, Buffer, SentSoFar
<1>6. GetProfiles \/ GetProfile \/ GetVideoSources \/ GetServiceCapabilities
      \/ Empty \/ Settings \/ PtzDescription \/ PtzCommand \/ NotFound \/ FixedUri
      \/ GetServerIp
      => \E r : Answer(r) /\ request.op # "GetNetworkInterfaces"
  BY DEF GetProfiles, GetProfile, GetVideoSources, GetServiceCapabilities, Empty,
     Settings, PtzDescription, PtzCommand, NotFound, FixedUri, GetServerIp, ByToken,
     IInv, StepsFit
<1> QED
  BY <1>1, <1>2, <1>3, <1>4, <1>5, <1>6, BufferChange, BufferHwaddr, BufferIp, BufferMask
     DEF Next

-----------------------------------------------------------------------------
(* The theorems. *)

\* Every variable keeps its type, whatever the interface does.
THEOREM TypeCorrect == Spec => []TypeOK
<1>1. IInv => TypeOK
  BY DEF IInv
<1> QED BY <1>1, Invariance, PTL

\* Address and mask of GetNetworkInterfaces are of the time of the request,
\* the mask not older than the address, however often the interface changes.
THEOREM ReadInOrderHolds == Spec => []ReadInOrder
<1>1. IInv => ReadInOrder
  BY DEF IInv, InOrder, ReadInOrder, BothRead
<1> QED BY <1>1, Invariance, PTL

\* However the calls of GetNetworkInterfaces fail: on a device of Ethernet that
\* stays, the hardware address is right and the IPv4 address of the time of the
\* request or the hardware address again; elsewhere what was on the stack may be
\* sent, but then as both texts.
THEOREM LeftByFailureHolds == Spec => []LeftByFailure
<1>1. Init => BufferInv
  BY DEF Init, BufferInv, Buffer, SentSoFar, Sent, Complete
<1>2. BufferInv => LeftByFailure
  BY DEF BufferInv, SentSoFar, Sent, LeftByFailure
<1> QED BY <1>1, <1>2, BufferStep, Invariance, PTL DEF Spec

\* An address in a URI or in the XAddr of a service is of the time of the
\* request, for an interface that has one.
THEOREM AddressIsCurrentHolds == Spec => []AddressIsCurrent
<1>1. IInv => AddressIsCurrent
  BY DEF IInv
<1> QED BY <1>1, Invariance, PTL

\* A token that was given out is never refused.
THEOREM TokensUsableHolds == Spec => []TokensUsable
<1>1. IInv => TokensUsable
  <2> SUFFICES ASSUME IInv, pc = "idle", request.op \in ByToken, request.token \in told.tokens,
                      reply.fault
               PROVE  FALSE
    BY DEF TokensUsable
  <2>1. Found(request.token)
    BY DEF IInv, ToldTrue, Found
  <2> QED BY <2>1 DEF IInv, FaultsTrue
<1> QED BY <1>1, Invariance, PTL

\* The sources that profiles refer to are listed.
THEOREM ReferencesResolveHolds == Spec => []ReferencesResolve
<1>1. IInv => ReferencesResolve
  BY DEF IInv, ToldTrue, ReferencesResolve
<1> QED BY <1>1, Invariance, PTL

\* No snapshot comes from a service that says it has none.
THEOREM SnapshotHonestHolds == Spec => []SnapshotHonest
<1>1. IInv => SnapshotHonest
  <2> SUFFICES ASSUME IInv, told.denied PROVE told.pictures = {}
    BY DEF SnapshotHonest
  <2>2. ~Snapshots
    BY DEF IInv, ToldTrue
  <2>3. \A t \in DOMAIN profiles : profiles[t].snapurl = "empty"
    BY <2>2 DEF Snapshots
  <2> QED BY <2>3 DEF IInv, ToldTrue
<1> QED BY <1>1, Invariance, PTL

=============================================================================
