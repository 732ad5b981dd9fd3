----------------------------- MODULE Startup_proofs -----------------------------
(***************************************************************************)
(* Proofs about Startup, for any files, any leftover of an uninitialised   *)
(* number and any reading of freed memory.  The local profile is clear     *)
(* between two entries (ProfileClear): that is why what a refused setter   *)
(* leaves in it is Unset and never the value of an earlier entry.          *)
(***************************************************************************)
EXTENDS Startup, TLAPS

\* The profile that is filled for the next entry holds nothing.
ProfileClear == profile = NoProfile

\* The entries that are stored at this point of processing_cfg: all those
\* before k of the list that is processed.
Stored(list, step, i) ==
    \/ pc = step /\ i < k
    \/ pc = "streams" /\ list = "profiles"
    \/ pc = "serving"

\* The maps hold the stored entries, each under a key of its own.
KeysExact ==
    /\ \A i \in DOMAIN conf.profiles : Stored("profiles", "profiles", i) =>
         /\ conf.profiles[i].name \in DOMAIN profiles
         /\ \A j \in DOMAIN conf.profiles :
              Stored("profiles", "profiles", j) /\ conf.profiles[j].name = conf.profiles[i].name
                => i = j
    /\ \A i \in DOMAIN conf.streams : Stored("streams", "streams", i) =>
         /\ conf.streams[i].rtspUrl \in DOMAIN streams
         /\ \A j \in DOMAIN conf.streams :
              Stored("streams", "streams", j) /\ conf.streams[j].rtspUrl = conf.streams[i].rtspUrl
                => i = j

\* Nothing is stored before the list is processed.
Empty ==
    /\ pc \in {"load", "daemon", "service"} => k = 1 /\ DOMAIN profiles = {}
    /\ pc \in {"load", "daemon", "service", "profiles"} => DOMAIN streams = {}

\* What the steps that store nothing keep.
Lists == /\ file \in Files /\ DOMAIN conf = DOMAIN Defaults
         /\ conf.profiles \in Seq(ProfileEntries)
         /\ conf.streams \in Seq(StreamEntries)

IInv == TypeOK /\ ProfileClear /\ OwnProfiles /\ OwnStreams /\ KeysExact /\ Empty /\ Lists

\* The default lists are lists of entries.
LEMMA DefaultLists ==
  /\ Defaults.profiles \in Seq(ProfileEntries)
  /\ Defaults.streams \in Seq(StreamEntries)
<1>1. ASSUME NEW n \in Texts, NEW u \in Texts
      PROVE  Monitor(n, u) \in ProfileEntries
  <2>1. "H264" \in Texts /\ NoText \in Texts
    BY TextsAssumption DEF DefaultTexts
  <2>2. 1024 \in Numbers /\ 768 \in Numbers
    BY DEF Numbers
  <2> QED BY <2>1, <2>2 DEF ProfileEntries, Monitor
<1>2. ASSUME NEW a \in Texts, NEW b \in Texts, NEW c \in Texts, NEW d \in Texts
      PROVE  Feed(a, b, c, d) \in StreamEntries
  <2>1. "depay" \in Texts
    BY TextsAssumption DEF DefaultTexts
  <2> QED BY <2>1 DEF StreamEntries, Feed
<1>3. \A e, f \in ProfileEntries : <<e, f>> \in Seq(ProfileEntries)
  OBVIOUS
<1>4. \A e, f \in StreamEntries : <<e, f>> \in Seq(StreamEntries)
  OBVIOUS
<1>5. Defaults.profiles = <<Monitor("Right_Monitor", "rtsp://%s:554/right"),
                            Monitor("Left_Monitor", "rtsp://%s:8554/left")>>
  BY DEF Defaults
<1>6. Defaults.streams = <<Feed("5001", "8554", "/left", "ball"),
                           Feed("5000", "554", "/right", "smpte")>>
  BY DEF Defaults
<1>7. Defaults.profiles \in Seq(ProfileEntries)
  BY <1>1, <1>3, <1>5, TextsAssumption DEF DefaultTexts
<1>8. Defaults.streams \in Seq(StreamEntries)
  BY <1>2, <1>4, <1>6, TextsAssumption DEF DefaultTexts
<1> QED BY <1>7, <1>8

\* Load leaves two lists of entries.
LEMMA LoadedLists ==
  ASSUME Lists, Load
  PROVE  Lists'
<1>1. CASE file = NoFile
  BY <1>1 DEF Lists, Load
<1>2. CASE file # NoFile
  <2>1. file \in FilesOfSettings
    BY <1>2, FilesAssumption DEF Load, Lists
  <2>2. DOMAIN file = DOMAIN Defaults
    BY <2>1 DEF FilesOfSettings, Defaults
  <2>3. {"profiles", "streams"} \subseteq DOMAIN Defaults
    BY DEF Defaults
  <2>4. conf'.profiles = Setting("profiles") /\ conf'.streams = Setting("streams")
    BY <1>2, <2>3 DEF Load, Lists
  <2>5. file.profiles # Broken /\ file.streams # Broken
    BY <1>2, <2>2, <2>3 DEF Load
  <2>6. file.profiles \in Seq(ProfileEntries) \cup {Absent}
    BY <2>1, <2>5 DEF FilesOfSettings, Missing
  <2>7. file.streams \in Seq(StreamEntries) \cup {Absent}
    BY <2>1, <2>5 DEF FilesOfSettings, Missing
  <2>8. conf'.profiles \in Seq(ProfileEntries)
    BY <2>4, <2>6, DefaultLists DEF Setting
  <2>9. conf'.streams \in Seq(StreamEntries)
    BY <2>4, <2>7, DefaultLists DEF Setting
  <2>10. DOMAIN conf' = DOMAIN conf /\ file' = file
    BY <1>2 DEF Load
  <2> QED BY <2>8, <2>9, <2>10 DEF Lists
<1> QED BY <1>1, <1>2

\* At the start there is nothing to be wrong.
LEMMA InitInv == Init => IInv
<1> SUFFICES ASSUME Init PROVE IInv
  OBVIOUS
<1>1. Lists
  BY DefaultLists DEF Init, Lists
<1>2. DOMAIN profiles = {} /\ DOMAIN streams = {}
  BY DEF Init
<1>3. TypeOK
  BY <1>1, <1>2 DEF Init, TypeOK, Lists, Formats
<1>4. ProfileClear /\ OwnProfiles /\ OwnStreams
  BY <1>2 DEF Init, ProfileClear, OwnProfiles, OwnStreams
<1>5. KeysExact /\ Empty
  BY <1>2 DEF Init, KeysExact, Stored, Empty
<1> QED BY <1>1, <1>3, <1>4, <1>5 DEF IInv

-----------------------------------------------------------------------------

\* A size that is set over a cleared one is in range and the entry's own.
LEMMA OwnSize ==
  ASSUME NEW t \in Numbers, NEW v \in Sizes(Unset, t), v # Unset
  PROVE  v \in SizesTaken /\ OwnNumber(v, t)
<1>1. PICK u \in Number(t) : v = IF u < 100 \/ u >= 10000 THEN Unset ELSE u
  BY DEF Sizes
<1>2. u \in Int
  BY LeftoverAssumption, NamesAssumption DEF Number, Numbers
<1>3. v = u /\ u \in SizesTaken
  BY <1>1, <1>2 DEF SizesTaken
<1>4. t # Word
  BY <1>1, <1>3, NamesAssumption DEF Number, SizesTaken
<1>5. OwnNumber(u, t)
  BY <1>4 DEF Number, OwnNumber
<1> QED BY <1>3, <1>5

\* An encoding that is set over a cleared one is the entry's own.
LEMMA OwnEncoding ==
  ASSUME NEW t, Encoding(NoText, t) # NoText
  PROVE  Encoding(NoText, t) = t /\ t \in Encodings
  BY DEF Encoding

\* A profile that is stored comes from the entry that is processed.
LEMMA BuiltIsOwn ==
  ASSUME NEW e \in ProfileEntries, ProfileClear,
         NEW w \in Sizes(profile.width, e.width), NEW h \in Sizes(profile.height, e.height),
         ProfileAccepted(FillProfile(e, w, h))
  PROVE  /\ FillProfile(e, w, h) \in StoredProfiles(e.name)
         /\ Encoding(profile.type, e.type) = e.type
         /\ OwnNumber(w, e.width) /\ OwnNumber(h, e.height)
         /\ e.name \notin DOMAIN profiles
<1>1. profile.width = Unset /\ profile.height = Unset /\ profile.type = NoText
  BY DEF ProfileClear, NoProfile
<1>2. /\ FillProfile(e, w, h).width = w /\ FillProfile(e, w, h).height = h
      /\ FillProfile(e, w, h).type = Encoding(NoText, e.type) /\ FillProfile(e, w, h).name = e.name
  BY <1>1 DEF FillProfile
<1>3. w # Unset /\ h # Unset /\ Encoding(NoText, e.type) # NoText /\ e.name \notin DOMAIN profiles
  BY <1>2 DEF ProfileAccepted, ProfileValid
<1>4. e.width \in Numbers /\ e.height \in Numbers /\ e.url \in Texts /\ e.snapurl \in Texts
  BY DEF ProfileEntries
<1>5. w \in SizesTaken /\ OwnNumber(w, e.width)
  BY <1>1, <1>3, <1>4, OwnSize
<1>6. h \in SizesTaken /\ OwnNumber(h, e.height)
  BY <1>1, <1>3, <1>4, OwnSize
<1>7. Encoding(profile.type, e.type) = e.type /\ e.type \in Encodings
  BY <1>1, <1>3, OwnEncoding
<1> QED BY <1>3, <1>4, <1>5, <1>6, <1>7 DEF FillProfile, StoredProfiles

\* An exit stores nothing.
LEMMA ExitStep ==
  ASSUME IInv, NEW what \in Refusals, Exit(what)
  PROVE  IInv'
<1> USE DEF Exit, Refusals, IInv, localVars, ctxVars
<1>1. TypeOK' /\ ProfileClear' /\ Lists'
  BY DEF TypeOK, ProfileClear, Lists
<1>2. OwnProfiles' /\ OwnStreams'
  BY DEF OwnProfiles, OwnStreams
<1>3. KeysExact' /\ Empty'
  BY DEF KeysExact, Stored, Empty
<1> QED BY <1>1, <1>2, <1>3

\* One more profile.
LEMMA AddProfileStep ==
  ASSUME IInv, AddProfile
  PROVE  IInv'
<1>e. PICK e : e = conf.profiles[k]
  OBVIOUS
<1>0. /\ pc = "profiles" /\ k \in Nat \ {0} /\ k <= Len(conf.profiles)
      /\ conf.profiles \in Seq(ProfileEntries) /\ k \in DOMAIN conf.profiles
      /\ e \in ProfileEntries
  BY <1>e DEF IInv, TypeOK, AddProfile
<1>1. CASE Exit("noProfile")
  BY <1>1, ExitStep DEF Refusals
<1>2. CASE ~Exit("noProfile")
  <2>1. PICK w \in Sizes(profile.width, e.width), h \in Sizes(profile.height, e.height) :
          /\ ProfileAccepted(FillProfile(e, w, h))
          /\ profiles' = Put(profiles, FillProfile(e, w, h).name, FillProfile(e, w, h))
          /\ profile' = ClearProfile(FillProfile(e, w, h))
          /\ k' = k + 1
          /\ UNCHANGED <<pc, file, opens, conf, daemon, rtspConfig, tz, streams>>
    BY <1>e, <1>2, Zenon DEF AddProfile
  <2>p. PICK p : p = FillProfile(e, w, h)
    OBVIOUS
  <2>2. ProfileClear
    BY DEF IInv
  <2>3. /\ p \in StoredProfiles(e.name)
        /\ p.url = e.url /\ p.snapurl = e.snapurl /\ p.type = e.type
        /\ p.width = w /\ p.height = h /\ p.name = e.name
        /\ OwnNumber(w, e.width) /\ OwnNumber(h, e.height)
        /\ e.name \notin DOMAIN profiles
    <3>1. /\ p \in StoredProfiles(e.name)
          /\ Encoding(profile.type, e.type) = e.type
          /\ OwnNumber(w, e.width) /\ OwnNumber(h, e.height)
          /\ e.name \notin DOMAIN profiles
      BY <1>0, <2>1, <2>2, <2>p, BuiltIsOwn, Zenon
    <3>2. /\ p.url = e.url /\ p.snapurl = e.snapurl /\ p.width = w /\ p.height = h
          /\ p.type = Encoding(profile.type, e.type) /\ p.name = e.name
      BY <2>p DEF FillProfile
    <3> QED BY <3>1, <3>2
  <2>4. /\ DOMAIN profiles' = DOMAIN profiles \cup {e.name}
        /\ profiles'[e.name] = p
        /\ \A n \in DOMAIN profiles : n # e.name => profiles'[n] = profiles[n]
    <3>1. profiles' = Put(profiles, e.name, p)
      BY <2>1, <2>3, <2>p
    <3>2. PICK m : m = Put(profiles, e.name, p)
      OBVIOUS
    <3>3. /\ DOMAIN m = DOMAIN profiles \cup {e.name}
          /\ m[e.name] = p
          /\ \A n \in DOMAIN profiles : n # e.name => m[n] = profiles[n]
      BY <3>2 DEF Put
    <3>4. profiles' = m
      BY <3>1, <3>2, Zenon
    <3> QED BY <3>3, <3>4
  <2>5. TypeOK'
    <3>1. \A n \in DOMAIN profiles' :
             profiles'[n] \in StoredProfiles(n)
      BY <2>3, <2>4 DEF IInv, TypeOK
    <3>2. k' \in Nat \ {0}
      BY <1>0, <2>1
    <3> QED BY <2>1, <3>1, <3>2 DEF IInv, TypeOK
  <2>6. ProfileClear'
    BY <2>1 DEF ProfileClear, ClearProfile, NoProfile
  <2>7. OwnProfiles'
    <3>1. ASSUME NEW n \in DOMAIN profiles'
          PROVE  \E i \in DOMAIN conf'.profiles :
                   LET g == conf'.profiles[i]
                       q == profiles'[n]
                   IN  /\ n = g.name /\ q.name = g.name /\ q.url = g.url
                       /\ q.snapurl = g.snapurl /\ q.type = g.type
                       /\ OwnNumber(q.width, g.width) /\ OwnNumber(q.height, g.height)
      <4>1. CASE n = e.name
        BY <1>e, <1>0, <2>1, <2>3, <2>4, <4>1
      <4>2. CASE n # e.name
        BY <2>1, <2>4, <4>2 DEF IInv, OwnProfiles
      <4> QED BY <4>1, <4>2
    <3> QED BY <3>1 DEF OwnProfiles
  <2>8. OwnStreams'
    BY <2>1 DEF IInv, OwnStreams
  <2>9. KeysExact'
    <3>1. \A i \in DOMAIN conf.profiles :
            Stored("profiles", "profiles", i)' <=> (Stored("profiles", "profiles", i) \/ i = k)
      BY <1>0, <2>1 DEF Stored
    <3>2. \A i \in DOMAIN conf.streams : ~Stored("streams", "streams", i)'
      BY <1>0, <2>1 DEF Stored
    <3>3. \A i \in DOMAIN conf.profiles : Stored("profiles", "profiles", i) =>
            conf.profiles[i].name \in DOMAIN profiles /\ conf.profiles[i].name # e.name
      BY <2>3 DEF IInv, KeysExact
    <3>4. conf' = conf /\ conf.profiles[k] = e
      BY <1>e, <2>1
    <3>5. ASSUME NEW i \in DOMAIN conf.profiles, Stored("profiles", "profiles", i)'
          PROVE  /\ conf.profiles[i].name \in DOMAIN profiles'
                 /\ \A j \in DOMAIN conf.profiles :
                      Stored("profiles", "profiles", j)'
                        /\ conf.profiles[j].name = conf.profiles[i].name => i = j
      <4>1. CASE i = k
        BY <2>4, <3>1, <3>3, <3>4, <4>1
      <4>2. CASE i # k
        <5>1. Stored("profiles", "profiles", i)
          BY <3>1, <3>5, <4>2
        <5>2. conf.profiles[i].name \in DOMAIN profiles'
          BY <2>4, <3>3, <5>1
        <5>3. ASSUME NEW j \in DOMAIN conf.profiles, Stored("profiles", "profiles", j)',
                     conf.profiles[j].name = conf.profiles[i].name
              PROVE  i = j
          <6>1. j # k
            BY <3>3, <3>4, <5>1, <5>3
          <6>2. Stored("profiles", "profiles", j)
            BY <3>1, <5>3, <6>1
          <6> QED BY <5>1, <5>3, <6>2 DEF IInv, KeysExact
        <5> QED BY <5>2, <5>3
      <4> QED BY <4>1, <4>2
    <3> QED BY <3>2, <3>4, <3>5 DEF KeysExact
  <2>10. Empty'
    BY <1>0, <2>1 DEF IInv, Empty
  <2>11. Lists'
    BY <2>1 DEF IInv, Lists
  <2> QED BY <2>5, <2>6, <2>7, <2>8, <2>9, <2>10, <2>11 DEF IInv
<1> QED BY <1>1, <1>2

\* One more stream.
LEMMA AddStreamStep ==
  ASSUME IInv, AddStream
  PROVE  IInv'
<1>e. PICK e : e = conf.streams[k]
  OBVIOUS
<1>0. /\ pc = "streams" /\ k \in Nat \ {0} /\ k <= Len(conf.streams)
      /\ conf.streams \in Seq(StreamEntries) /\ k \in DOMAIN conf.streams
  BY DEF IInv, TypeOK, AddStream
<1>1. CASE Exit("noStream")
  BY <1>1, ExitStep DEF Refusals
<1>2. CASE ~Exit("noStream")
  <2>1. /\ StreamValid(e) /\ e.rtspUrl \notin DOMAIN streams
        /\ streams' = Put(streams, e.rtspUrl, e)
        /\ k' = k + 1
        /\ UNCHANGED <<pc, file, opens, conf, daemon, profile, tz, profiles>>
    BY <1>e, <1>2, Zenon DEF AddStream, FillStream
  <2>2. /\ DOMAIN streams' = DOMAIN streams \cup {e.rtspUrl}
        /\ streams'[e.rtspUrl] = e
        /\ \A u \in DOMAIN streams : u # e.rtspUrl => streams'[u] = streams[u]
    <3>2. PICK m : m = Put(streams, e.rtspUrl, e)
      OBVIOUS
    <3>3. /\ DOMAIN m = DOMAIN streams \cup {e.rtspUrl}
          /\ m[e.rtspUrl] = e
          /\ \A u \in DOMAIN streams : u # e.rtspUrl => m[u] = streams[u]
      BY <3>2 DEF Put
    <3>4. streams' = m
      BY <2>1, <3>2, Zenon
    <3> QED BY <3>3, <3>4
  <2>3. TypeOK'
    <3>1. k' \in Nat \ {0}
      BY <1>0, <2>1
    <3> QED BY <2>1, <3>1 DEF IInv, TypeOK
  <2>4. ProfileClear' /\ OwnProfiles' /\ Lists'
    BY <2>1 DEF IInv, ProfileClear, OwnProfiles, Lists
  <2>5. OwnStreams'
    <3>1. ASSUME NEW u \in DOMAIN streams'
          PROVE  \E i \in DOMAIN conf.streams :
                   u = conf.streams[i].rtspUrl /\ streams'[u] = conf.streams[i]
      <4>1. CASE u = e.rtspUrl
        BY <1>e, <1>0, <2>2, <4>1
      <4>2. CASE u # e.rtspUrl
        BY <2>2, <4>2 DEF IInv, OwnStreams
      <4> QED BY <4>1, <4>2
    <3> QED BY <2>1, <3>1 DEF OwnStreams
  <2>6. KeysExact'
    <3>1. \A i \in DOMAIN conf.streams :
            Stored("streams", "streams", i)' <=> (Stored("streams", "streams", i) \/ i = k)
      BY <1>0, <2>1 DEF Stored
    <3>2. \A i \in DOMAIN conf.profiles :
            Stored("profiles", "profiles", i)' <=> Stored("profiles", "profiles", i)
      BY <1>0, <2>1 DEF Stored
    <3>3. \A i \in DOMAIN conf.streams : Stored("streams", "streams", i) =>
            conf.streams[i].rtspUrl \in DOMAIN streams /\ conf.streams[i].rtspUrl # e.rtspUrl
      BY <2>1 DEF IInv, KeysExact
    <3>4. conf' = conf /\ conf.streams[k] = e /\ profiles' = profiles
      BY <1>e, <2>1
    <3>5. ASSUME NEW i \in DOMAIN conf.streams, Stored("streams", "streams", i)'
          PROVE  /\ conf.streams[i].rtspUrl \in DOMAIN streams'
                 /\ \A j \in DOMAIN conf.streams :
                      Stored("streams", "streams", j)'
                        /\ conf.streams[j].rtspUrl = conf.streams[i].rtspUrl => i = j
      <4>1. CASE i = k
        BY <2>2, <3>1, <3>3, <3>4, <4>1
      <4>2. CASE i # k
        <5>1. Stored("streams", "streams", i)
          BY <3>1, <3>5, <4>2
        <5>2. conf.streams[i].rtspUrl \in DOMAIN streams'
          BY <2>2, <3>3, <5>1
        <5>3. ASSUME NEW j \in DOMAIN conf.streams, Stored("streams", "streams", j)',
                     conf.streams[j].rtspUrl = conf.streams[i].rtspUrl
              PROVE  i = j
          <6>1. j # k
            BY <3>3, <3>4, <5>1, <5>3
          <6>2. Stored("streams", "streams", j)
            BY <3>1, <5>3, <6>1
          <6> QED BY <5>1, <5>3, <6>2 DEF IInv, KeysExact
        <5> QED BY <5>2, <5>3
      <4> QED BY <4>1, <4>2
    <3>6. ASSUME NEW i \in DOMAIN conf.profiles, Stored("profiles", "profiles", i)'
          PROVE  /\ conf.profiles[i].name \in DOMAIN profiles
                 /\ \A j \in DOMAIN conf.profiles :
                      Stored("profiles", "profiles", j)'
                        /\ conf.profiles[j].name = conf.profiles[i].name => i = j
      BY <3>2, <3>6 DEF IInv, KeysExact
    <3> QED BY <3>4, <3>5, <3>6 DEF KeysExact
  <2>7. Empty'
    BY <1>0, <2>1 DEF IInv, Empty
  <2> QED BY <2>3, <2>4, <2>5, <2>6, <2>7 DEF IInv
<1> QED BY <1>1, <1>2

\* The steps before the lists store nothing.
LEMMA EarlyStep ==
  ASSUME IInv, pc \in {"load", "daemon", "service"},
         pc' \in {"daemon", "service", "profiles", "aborted"}, Lists',
         tz' \in 0 .. Formats - 1, UNCHANGED <<profile, profiles, streams, k>>
  PROVE  IInv'
<1>1. DOMAIN profiles' = {} /\ DOMAIN streams' = {} /\ k' = 1
  BY DEF IInv, Empty
<1>2. TypeOK' /\ ProfileClear'
  BY <1>1 DEF IInv, TypeOK, ProfileClear, Lists
<1>3. OwnProfiles' /\ OwnStreams' /\ Empty'
  BY <1>1 DEF OwnProfiles, OwnStreams, Empty
<1>4. Lists'
  OBVIOUS
<1>5. /\ \A i \in DOMAIN conf'.profiles : i \in Nat \ {0}
      /\ \A i \in DOMAIN conf'.streams : i \in Nat \ {0}
  BY <1>4 DEF Lists
<1>6. KeysExact'
  BY <1>1, <1>5 DEF KeysExact, Stored
<1> QED BY <1>2, <1>3, <1>4, <1>6 DEF IInv

\* A list is done: all its entries are before k.
LEMMA DoneStep ==
  ASSUME IInv, ProfilesDone \/ StreamsDone
  PROVE  IInv'
<1> USE DEF localVars, ctxVars
<1>1. UNCHANGED <<file, conf, tz, profile, profiles, streams>>
  BY DEF ProfilesDone, StreamsDone
<1>2. /\ pc = "profiles" => pc' = "streams" /\ k' = 1 /\ k > Len(conf.profiles)
      /\ pc = "streams" => pc' = "serving" /\ k' = k /\ k > Len(conf.streams)
      /\ pc \in {"profiles", "streams"}
  BY DEF ProfilesDone, StreamsDone
<1>3. TypeOK'
  BY <1>1, <1>2 DEF IInv, TypeOK
<1>4. ProfileClear' /\ OwnProfiles' /\ OwnStreams' /\ Lists'
  BY <1>1 DEF IInv, ProfileClear, OwnProfiles, OwnStreams, Lists
<1>5. Empty'
  BY <1>1, <1>2 DEF IInv, Empty
<1>6. /\ k \in Nat
      /\ \A i \in DOMAIN conf.profiles : i \in Nat \ {0} /\ i <= Len(conf.profiles)
      /\ \A i \in DOMAIN conf.streams : i \in Nat \ {0} /\ i <= Len(conf.streams)
  BY DEF IInv, TypeOK, Lists
<1>7. \A i \in DOMAIN conf.profiles : Stored("profiles", "profiles", i)' => Stored("profiles", "profiles", i)
  BY <1>2, <1>6 DEF Stored
<1>8. \A i \in DOMAIN conf.streams : Stored("streams", "streams", i)' => Stored("streams", "streams", i)
  BY <1>2, <1>6 DEF Stored
<1>9. KeysExact'
  BY <1>1, <1>7, <1>8 DEF IInv, KeysExact
<1> QED BY <1>3, <1>4, <1>5, <1>9 DEF IInv

\* Every step keeps the invariant.
LEMMA StepInv == IInv /\ [Next]_vars => IInv'
<1> SUFFICES ASSUME IInv, [Next]_vars PROVE IInv'
  OBVIOUS
<1> USE DEF localVars, ctxVars
<1>0. Lists /\ tz \in 0 .. Formats - 1
  BY DEF IInv, TypeOK
<1>1. CASE LoadFails
  <2>1. Lists'
    BY <1>0, <1>1 DEF LoadFails, Lists
  <2> QED BY <1>0, <1>1, <2>1, EarlyStep DEF LoadFails
<1>2. CASE Load
  <2>1. Lists'
    BY <1>0, <1>2, LoadedLists
  <2> QED BY <1>0, <1>2, <2>1, EarlyStep DEF Load
<1>3. CASE SaveConfig
  <2>1. CASE Exit("noDaemonInfo")
    BY <2>1, ExitStep DEF Refusals
  <2>2. CASE ~Exit("noDaemonInfo")
    <3>1. /\ pc = "daemon" /\ pc' = "service"
          /\ UNCHANGED <<file, opens, conf, localVars, ctxVars>>
      BY <1>3, <2>2, Zenon DEF SaveConfig
    <3>2. Lists'
      BY <1>0, <3>1 DEF Lists
    <3> QED BY <1>0, <3>1, <3>2, EarlyStep
  <2> QED BY <2>1, <2>2
<1>4. CASE OpenFails
  BY <1>4, ExitStep DEF OpenFails, Refusals
<1>5. CASE SetTzFormat
  <2>1. CASE Exit("noTzFormat")
    BY <2>1, ExitStep DEF Refusals
  <2>2. CASE ~Exit("noTzFormat")
    <3>1. PICK v \in Number(conf.tz) :
            /\ Supported(v) /\ tz' = v /\ pc' = "profiles"
            /\ UNCHANGED <<file, opens, conf, daemon, localVars, profiles, streams>>
      BY <1>5, <2>2, Zenon DEF SetTzFormat
    <3>2. tz' \in 0 .. Formats - 1 /\ pc = "service"
      BY <1>5, <3>1 DEF Supported, SetTzFormat
    <3>3. Lists'
      BY <1>0, <3>1 DEF Lists
    <3> QED BY <3>1, <3>2, <3>3, EarlyStep
  <2> QED BY <2>1, <2>2
<1>6. CASE AddProfile
  BY <1>6, AddProfileStep
<1>7. CASE ProfilesDone \/ StreamsDone
  BY <1>7, DoneStep
<1>8. CASE AddStream
  BY <1>8, AddStreamStep
<1>9. CASE UNCHANGED vars
  <2>1. UNCHANGED <<pc, file, conf, tz, k, profile, profiles, streams>>
    BY <1>9 DEF vars
  <2>2. TypeOK' /\ ProfileClear' /\ Lists'
    BY <2>1 DEF IInv, TypeOK, ProfileClear, Lists
  <2>3. OwnProfiles' /\ OwnStreams'
    BY <2>1 DEF IInv, OwnProfiles, OwnStreams
  <2>4. KeysExact' /\ Empty'
    BY <2>1 DEF IInv, KeysExact, Stored, Empty
  <2> QED BY <2>2, <2>3, <2>4 DEF IInv
<1> QED
  BY <1>1, <1>2, <1>3, <1>4, <1>5, <1>6, <1>7, <1>8, <1>9 DEF Next

\* The invariant of the start.
LEMMA Invariance == Spec => []IInv
  BY InitInv, StepInv, PTL DEF Spec

\* The variables keep their types, and every stored profile has sizes in the
\* range the setters check.
THEOREM TypeCorrect == Spec => []TypeOK
<1>1. IInv => TypeOK
  BY DEF IInv
<1> QED BY <1>1, Invariance, PTL

\* No value of one entry gets into the profile of another.
THEOREM OwnProfilesHolds == Spec => []OwnProfiles
<1>1. IInv => OwnProfiles
  BY DEF IInv
<1> QED BY <1>1, Invariance, PTL

\* No value of one entry gets into the stream of another.
THEOREM OwnStreamsHolds == Spec => []OwnStreams
<1>1. IInv => OwnStreams
  BY DEF IInv
<1> QED BY <1>1, Invariance, PTL

\* A daemon that serves dropped no entry and hides none behind another.
THEOREM EveryEntryServedHolds == Spec => []EveryEntryServed
<1>1. IInv => EveryEntryServed
  BY DEF IInv, KeysExact, Stored, EveryEntryServed
<1> QED BY <1>1, Invariance, PTL

\* Only what is_valid accepts is stored, and under its own key.
LEMMA CompleteStep ==
  ASSUME StoredAreComplete, [Next]_vars
  PROVE  StoredAreComplete'
<1>1. CASE UNCHANGED <<profiles, streams>>
  BY <1>1 DEF StoredAreComplete
<1>2. ASSUME NEW p, ProfileAccepted(p), profiles' = Put(profiles, p.name, p),
             UNCHANGED streams
      PROVE  StoredAreComplete'
  <2>1. ProfileValid(p) /\ DOMAIN profiles' = DOMAIN profiles \cup {p.name}
    BY <1>2 DEF ProfileAccepted, Put
  <2>2. \A n \in DOMAIN profiles' :
          profiles'[n] = IF n = p.name THEN p ELSE profiles[n]
    BY <1>2 DEF Put
  <2> QED BY <1>2, <2>1, <2>2 DEF StoredAreComplete
<1>3. ASSUME NEW r, StreamValid(r), streams' = Put(streams, r.rtspUrl, r),
             UNCHANGED profiles
      PROVE  StoredAreComplete'
  <2>1. DOMAIN streams' = DOMAIN streams \cup {r.rtspUrl}
    BY <1>3 DEF Put
  <2>2. \A u \in DOMAIN streams' :
          streams'[u] = IF u = r.rtspUrl THEN r ELSE streams[u]
    BY <1>3 DEF Put
  <2> QED BY <1>3, <2>1, <2>2 DEF StoredAreComplete
<1>4. CASE AddProfile
  <2>1. CASE Exit("noProfile")
    BY <1>1, <2>1 DEF Exit, ctxVars
  <2>2. CASE ~Exit("noProfile")
    <3>1. PICK w, h : LET p == FillProfile(conf.profiles[k], w, h)
                      IN  /\ ProfileAccepted(p)
                          /\ profiles' = Put(profiles, p.name, p)
                          /\ UNCHANGED streams
      BY <1>4, <2>2, Zenon DEF AddProfile
    <3> QED BY <1>2, <3>1
  <2> QED BY <2>1, <2>2
<1>5. CASE AddStream
  <2>1. CASE Exit("noStream")
    BY <1>1, <2>1 DEF Exit, ctxVars
  <2>2. CASE ~Exit("noStream")
    <3>1. LET r == FillStream(rtspConfig, conf.streams[k])
          IN  StreamValid(r) /\ streams' = Put(streams, r.rtspUrl, r) /\ UNCHANGED profiles
      BY <1>5, <2>2, Zenon DEF AddStream
    <3> QED BY <1>3, <3>1
  <2> QED BY <2>1, <2>2
<1>6. CASE LoadFails \/ Load \/ SaveConfig \/ OpenFails \/ SetTzFormat \/ ProfilesDone
           \/ StreamsDone \/ UNCHANGED vars
  <2>1. UNCHANGED <<profiles, streams>>
    BY <1>6, Zenon DEF LoadFails, Load, SaveConfig, OpenFails, SetTzFormat, ProfilesDone,
       StreamsDone, Exit, ctxVars, vars
  <2> QED BY <1>1, <2>1
<1> QED BY <1>4, <1>5, <1>6 DEF Next

\* Whatever is stored is complete, for every file and in every state.
THEOREM StoredAreCompleteHolds == Spec => []StoredAreComplete
<1>1. Init => StoredAreComplete
  BY DEF Init, StoredAreComplete
<1> QED BY <1>1, CompleteStep, PTL DEF Spec

-----------------------------------------------------------------------------
(* Why the process exits. *)

\* The keys of the map that is filled are those of entries before k.
KeysBefore ==
    /\ pc = "profiles" => \A n \in DOMAIN profiles :
         \E i \in DOMAIN conf.profiles : i < k /\ conf.profiles[i].name = n
    /\ pc = "streams" => \A u \in DOMAIN streams :
         \E i \in DOMAIN conf.streams : i < k /\ conf.streams[i].rtspUrl = u

\* The two texts that the daemon cannot do without are the defaults or gone.
DefaultOrGone ==
    pc \in {"load", "daemon"} =>
        conf.pidFile \in {"pid", Dangling} /\ conf.logLevel \in {"debug", Dangling}

ReasonInv == KeysBefore /\ DefaultOrGone /\ RefusedForAReason

\* A setter takes a size in range.
LEMMA GoodSizeIsSet ==
  ASSUME NEW old, NEW t \in SizesTaken, NEW v \in Sizes(old, t)
  PROVE  v = t /\ v # Unset
<1>1. t \in 100 .. 9999
  BY DEF SizesTaken
<1>2. Number(t) = {t}
  BY <1>1, NamesAssumption DEF Number
<1>3. PICK u \in Number(t) : v = IF u < 100 \/ u >= 10000 THEN old ELSE u
  BY DEF Sizes
<1>4. u = t /\ ~(t < 100 \/ t >= 10000)
  BY <1>1, <1>2, <1>3
<1> QED BY <1>1, <1>3, <1>4 DEF Unset

\* A good entry with a new name is accepted.
LEMMA GoodIsAccepted ==
  ASSUME NEW e, GoodProfile(e, SizesTaken),
         NEW w \in Sizes(profile.width, e.width), NEW h \in Sizes(profile.height, e.height),
         e.name \notin DOMAIN profiles
  PROVE  ProfileAccepted(FillProfile(e, w, h))
<1>1. e.width \in SizesTaken /\ e.height \in SizesTaken
  BY DEF GoodProfile
<1>2. w # Unset /\ h # Unset
  BY <1>1, GoodSizeIsSet
<1>3. Encoding(profile.type, e.type) = e.type /\ e.type # NoText
  BY TextsAssumption DEF GoodProfile, Encoding
<1>4. e.name # NoText /\ e.url # NoText
  BY DEF GoodProfile
<1> QED BY <1>2, <1>3, <1>4 DEF FillProfile, ProfileAccepted, ProfileValid

\* The invariant speaks of a step that goes on as long as its keys are right.
LEMMA ReasonOfOther ==
  ASSUME pc' \notin Refusals, KeysBefore', DefaultOrGone'
  PROVE  ReasonInv'
BY DEF ReasonInv, RefusedForAReason, RefusedOver, Refusals

\* An exit with a reason.
LEMMA ReasonOfExit ==
  ASSUME NEW what \in Refusals, Exit(what),
         what = "noDaemonInfo" => Dangling \in {conf.pidFile, conf.logLevel},
         what = "noInterface" => ~opens,
         what = "noTzFormat" => conf.tz \notin (0 .. Formats - 1) \cup {Word},
         what = "noProfile" =>
           \/ ~GoodProfile(conf.profiles[k], SizesTaken)
           \/ \E i \in 1 .. k - 1 : conf.profiles[i].name = conf.profiles[k].name,
         what = "noStream" =>
           \/ ~StreamValid(conf.streams[k])
           \/ \E i \in 1 .. k - 1 : conf.streams[i].rtspUrl = conf.streams[k].rtspUrl
  PROVE  ReasonInv'
<1>1. pc' = what /\ UNCHANGED <<conf, opens, k>>
  BY DEF Exit, localVars
<1>2. KeysBefore' /\ DefaultOrGone'
  BY <1>1 DEF KeysBefore, DefaultOrGone, Refusals
<1>3. RefusedForAReason'
  BY <1>1 DEF RefusedForAReason, RefusedOver
<1> QED BY <1>2, <1>3 DEF ReasonInv

\* SaveConfig exits only for a text that is gone.
LEMMA SaveConfigReason ==
  ASSUME ReasonInv, SaveConfig
  PROVE  ReasonInv'
<1>1. PICK pid \in Read(conf.pidFile) : \E level \in Read(conf.logLevel) :
        \/ Exit("noDaemonInfo") /\ (pid = NoText \/ level = NoText)
        \/ pc' = "service" /\ UNCHANGED <<conf, opens>>
  BY Zenon DEF SaveConfig
<1>2. PICK level \in Read(conf.logLevel) :
        \/ Exit("noDaemonInfo") /\ (pid = NoText \/ level = NoText)
        \/ pc' = "service" /\ UNCHANGED <<conf, opens>>
  BY <1>1, Zenon
<1>3. CASE Exit("noDaemonInfo") /\ (pid = NoText \/ level = NoText)
  <2>1. Dangling \in {conf.pidFile, conf.logLevel}
    BY <1>3, TextsAssumption DEF SaveConfig, ReasonInv, DefaultOrGone, Read
  <2> QED BY <1>3, <2>1, ReasonOfExit DEF Refusals
<1>4. CASE pc' = "service"
  BY <1>4, ReasonOfOther DEF KeysBefore, DefaultOrGone, Refusals
<1> QED BY <1>2, <1>3, <1>4

\* set_tz_format refuses only a number out of its range.
LEMMA SetTzFormatReason ==
  ASSUME IInv, ReasonInv, SetTzFormat
  PROVE  ReasonInv'
<1>1. PICK v \in Number(conf.tz) :
        \/ Exit("noTzFormat") /\ ~Supported(v)
        \/ pc' = "profiles" /\ UNCHANGED <<conf, opens, profiles, streams, k>>
  BY Zenon DEF SetTzFormat, localVars
<1>2. CASE Exit("noTzFormat") /\ ~Supported(v)
  <2>1. conf.tz \notin (0 .. Formats - 1) \cup {Word}
    BY <1>2, NamesAssumption DEF Number, Supported, Formats
  <2> QED BY <1>2, <2>1, ReasonOfExit DEF Refusals
<1>3. CASE pc' = "profiles" /\ UNCHANGED <<conf, opens, profiles, streams, k>>
  BY <1>3, ReasonOfOther DEF SetTzFormat, IInv, Empty, KeysBefore, DefaultOrGone, Refusals
<1> QED BY <1>1, <1>2, <1>3

\* add_profile refuses only a bad entry and a name it already has.
LEMMA AddProfileReason ==
  ASSUME IInv, ReasonInv, AddProfile
  PROVE  ReasonInv'
<1>e. PICK e : e = conf.profiles[k]
  OBVIOUS
<1>0. /\ pc = "profiles" /\ k \in Nat \ {0} /\ k \in DOMAIN conf.profiles
      /\ e \in ProfileEntries
  BY <1>e DEF IInv, TypeOK, AddProfile
<1>1. PICK w \in Sizes(profile.width, e.width) : \E h \in Sizes(profile.height, e.height) :
        \/ Exit("noProfile") /\ ~ProfileAccepted(FillProfile(e, w, h))
        \/ /\ profiles' = Put(profiles, FillProfile(e, w, h).name, FillProfile(e, w, h))
           /\ k' = k + 1 /\ UNCHANGED <<pc, conf, opens, streams>>
  BY <1>e, Zenon DEF AddProfile
<1>2. PICK h \in Sizes(profile.height, e.height) :
        \/ Exit("noProfile") /\ ~ProfileAccepted(FillProfile(e, w, h))
        \/ /\ profiles' = Put(profiles, FillProfile(e, w, h).name, FillProfile(e, w, h))
           /\ k' = k + 1 /\ UNCHANGED <<pc, conf, opens, streams>>
  BY <1>1, Zenon
<1>3. CASE Exit("noProfile") /\ ~ProfileAccepted(FillProfile(e, w, h))
  <2>2. ~GoodProfile(e, SizesTaken) \/ e.name \in DOMAIN profiles
    BY <1>3, GoodIsAccepted, Zenon
  <2>3. CASE ~GoodProfile(e, SizesTaken)
    BY <1>0, <1>e, <1>3, <2>3, ReasonOfExit DEF Refusals
  <2>4. CASE e.name \in DOMAIN profiles
    <3>1. PICK i \in DOMAIN conf.profiles : i < k /\ conf.profiles[i].name = e.name
      BY <1>0, <2>4 DEF ReasonInv, KeysBefore
    <3>2. i \in 1 .. k - 1
      BY <1>0, <3>1 DEF IInv, TypeOK
    <3> QED BY <1>0, <1>e, <1>3, <3>1, <3>2, ReasonOfExit DEF Refusals
  <2> QED BY <2>2, <2>3, <2>4
<1>4. CASE /\ profiles' = Put(profiles, FillProfile(e, w, h).name, FillProfile(e, w, h))
           /\ k' = k + 1 /\ UNCHANGED <<pc, conf, opens, streams>>
  <2>1. DOMAIN profiles' = DOMAIN profiles \cup {e.name}
    <3>1. FillProfile(e, w, h).name = e.name
      BY DEF FillProfile
    <3> QED BY <1>4, <3>1 DEF Put
  <2>2. \A n \in DOMAIN profiles' :
          \E i \in DOMAIN conf.profiles : i < k' /\ conf.profiles[i].name = n
    <3>1. ASSUME NEW n \in DOMAIN profiles
          PROVE  \E i \in DOMAIN conf.profiles : i < k' /\ conf.profiles[i].name = n
      <4>1. PICK i \in DOMAIN conf.profiles : i < k /\ conf.profiles[i].name = n
        BY <1>0 DEF ReasonInv, KeysBefore
      <4>2. i < k'
        BY <1>0, <1>4, <4>1 DEF IInv, Lists
      <4> QED BY <4>1, <4>2
    <3>2. k < k'
      BY <1>0, <1>4
    <3> QED BY <1>0, <1>e, <2>1, <3>1, <3>2
  <2> QED BY <1>0, <1>4, <2>2, ReasonOfOther DEF KeysBefore, DefaultOrGone, Refusals
<1> QED BY <1>2, <1>3, <1>4

\* AddStream refuses only a bad entry and a URL it already has.
LEMMA AddStreamReason ==
  ASSUME IInv, ReasonInv, AddStream
  PROVE  ReasonInv'
<1>e. PICK e : e = conf.streams[k]
  OBVIOUS
<1>0. pc = "streams" /\ k \in Nat \ {0} /\ k \in DOMAIN conf.streams
  BY DEF IInv, TypeOK, AddStream
<1>1. \/ Exit("noStream") /\ (~StreamValid(e) \/ e.rtspUrl \in DOMAIN streams)
      \/ /\ streams' = Put(streams, e.rtspUrl, e)
         /\ k' = k + 1 /\ UNCHANGED <<pc, conf, opens, profiles>>
  BY <1>e, Zenon DEF AddStream, FillStream
<1>2. CASE Exit("noStream") /\ ~StreamValid(e)
  BY <1>0, <1>e, <1>2, ReasonOfExit DEF Refusals
<1>3. CASE Exit("noStream") /\ e.rtspUrl \in DOMAIN streams
  <2>1. PICK i \in DOMAIN conf.streams : i < k /\ conf.streams[i].rtspUrl = e.rtspUrl
    BY <1>0, <1>3 DEF ReasonInv, KeysBefore
  <2>2. i \in 1 .. k - 1
    BY <1>0, <2>1 DEF IInv, TypeOK
  <2> QED BY <1>0, <1>e, <1>3, <2>1, <2>2, ReasonOfExit DEF Refusals
<1>4. CASE /\ streams' = Put(streams, e.rtspUrl, e)
           /\ k' = k + 1 /\ UNCHANGED <<pc, conf, opens, profiles>>
  <2>1. DOMAIN streams' = DOMAIN streams \cup {e.rtspUrl}
    BY <1>4 DEF Put
  <2>2. \A u \in DOMAIN streams' :
          \E i \in DOMAIN conf.streams : i < k' /\ conf.streams[i].rtspUrl = u
    <3>1. ASSUME NEW u \in DOMAIN streams
          PROVE  \E i \in DOMAIN conf.streams : i < k' /\ conf.streams[i].rtspUrl = u
      <4>1. PICK i \in DOMAIN conf.streams : i < k /\ conf.streams[i].rtspUrl = u
        BY <1>0 DEF ReasonInv, KeysBefore
      <4>2. i < k'
        BY <1>0, <1>4, <4>1 DEF IInv, Lists
      <4> QED BY <4>1, <4>2
    <3>2. k < k'
      BY <1>0, <1>4
    <3> QED BY <1>0, <1>e, <2>1, <3>1, <3>2
  <2> QED BY <1>0, <1>4, <2>2, ReasonOfOther DEF KeysBefore, DefaultOrGone, Refusals
<1> QED BY <1>1, <1>2, <1>3, <1>4

\* Every step keeps the invariant of the reasons.
LEMMA ReasonStep == IInv /\ ReasonInv /\ [Next]_vars => ReasonInv'
<1> SUFFICES ASSUME IInv, ReasonInv, [Next]_vars PROVE ReasonInv'
  OBVIOUS
<1> USE DEF localVars, ctxVars
<1>1. CASE LoadFails
  BY <1>1, ReasonOfOther DEF LoadFails, KeysBefore, DefaultOrGone, Refusals
<1>2. CASE Load
  <2>1. pc = "load" /\ pc' = "daemon"
    BY <1>2 DEF Load
  <2>2. conf'.pidFile \in {"pid", Dangling} /\ conf'.logLevel \in {"debug", Dangling}
    <3>1. CASE file = NoFile
      BY <1>2, <2>1, <3>1 DEF Load, ReasonInv, DefaultOrGone
    <3>2. CASE file # NoFile
      <4>1. "pidFile" \in DOMAIN conf /\ "logLevel" \in DOMAIN conf
        BY DEF IInv, Lists, Defaults
      <4>2. conf'.pidFile = Pointer("pidFile") /\ conf'.logLevel = Pointer("logLevel")
        BY <1>2, <3>2, <4>1 DEF Load
      <4> QED BY <4>2 DEF Pointer, Defaults
    <3> QED BY <3>1, <3>2
  <2> QED BY <2>1, <2>2, ReasonOfOther DEF KeysBefore, DefaultOrGone, Refusals
<1>3. CASE SaveConfig
  BY <1>3, SaveConfigReason
<1>4. CASE OpenFails
  BY <1>4, ReasonOfExit DEF OpenFails, Refusals
<1>5. CASE SetTzFormat
  BY <1>5, SetTzFormatReason
<1>6. CASE AddProfile
  BY <1>6, AddProfileReason
<1>7. CASE AddStream
  BY <1>7, AddStreamReason
<1>8. CASE ProfilesDone
  BY <1>8, ReasonOfOther DEF ProfilesDone, IInv, Empty, KeysBefore, DefaultOrGone, Refusals
<1>9. CASE StreamsDone
  BY <1>9, ReasonOfOther DEF StreamsDone, KeysBefore, DefaultOrGone, Refusals
<1>10. CASE UNCHANGED vars
  BY <1>10 DEF vars, ReasonInv, KeysBefore, DefaultOrGone, RefusedForAReason, RefusedOver
<1> QED
  BY <1>1, <1>2, <1>3, <1>4, <1>5, <1>6, <1>7, <1>8, <1>9, <1>10 DEF Next

\* What the process says that it cannot do is what is at fault, for any file:
\* an entry is refused for what it is itself, or for its key.
THEOREM RefusedForAReasonHolds == Spec => []RefusedForAReason
<1>1. Init => ReasonInv
  BY DEF Init, Defaults, ReasonInv, KeysBefore, DefaultOrGone, RefusedForAReason,
         RefusedOver
<1>2. ReasonInv => RefusedForAReason
  BY DEF ReasonInv
<1> QED BY <1>1, <1>2, ReasonStep, Invariance, PTL DEF Spec

-----------------------------------------------------------------------------
(* The refinement of StartupPromise. *)

\* Once the file is read, the lists of the configuration are the wanted ones.
Loaded ==
    pc \notin {"load", "aborted"} =>
        conf.profiles = Wanted.profiles /\ conf.streams = Wanted.streams

\* Load takes the lists of the file, or leaves the defaults.
LEMMA LoadWanted == ASSUME Lists, conf = Defaults, Load PROVE Loaded'
<1>1. UNCHANGED file /\ file # Unreadable
  BY DEF Load
<1>2. CASE file = NoFile
  BY <1>1, <1>2 DEF Load, Loaded, Wanted
<1>3. CASE file # NoFile
  <2>1. {"profiles", "streams"} \subseteq DOMAIN conf
    BY DEF Lists, Defaults
  <2>2. conf'.profiles = Setting("profiles") /\ conf'.streams = Setting("streams")
    BY <1>3, <2>1 DEF Load
  <2>3. \A s : Setting(s)' = Setting(s)
    BY <1>1 DEF Setting
  <2> QED BY <1>1, <1>3, <2>2, <2>3 DEF Loaded, Wanted
<1> QED BY <1>2, <1>3

\* A file that is read is read once; nothing else sets the lists.
LoadInv == Loaded /\ (pc = "load" => conf = Defaults)

LEMMA LoadedStep == IInv /\ LoadInv /\ [Next]_vars => LoadInv'
<1> SUFFICES ASSUME IInv, LoadInv, [Next]_vars PROVE LoadInv'
  OBVIOUS
<1>1. CASE Load
  BY <1>1, LoadWanted DEF IInv, LoadInv, Load
<1>2. CASE LoadFails
  BY <1>2 DEF LoadFails, LoadInv, Loaded
<1>3. ASSUME UNCHANGED <<file, conf>>, pc # "load", pc # "aborted", pc' # "load"
      PROVE  LoadInv'
  <2>1. Wanted' = Wanted
    BY <1>3 DEF Wanted, Setting
  <2> QED BY <1>3, <2>1 DEF LoadInv, Loaded
<1>4. CASE SaveConfig \/ OpenFails \/ SetTzFormat \/ AddProfile \/ ProfilesDone
           \/ AddStream \/ StreamsDone
  BY <1>3, <1>4, Zenon
  DEF SaveConfig, OpenFails, SetTzFormat, AddProfile, ProfilesDone, AddStream,
      StreamsDone, Exit
<1>5. CASE UNCHANGED vars
  BY <1>5 DEF vars, LoadInv, Loaded, Wanted, Setting
<1> QED BY <1>1, <1>2, <1>4, <1>5 DEF Next
\* When all entries are stored, the map of profiles is the wanted one: its
\* keys are the names of the entries, and under each is its entry.
LEMMA ProfilesComplete ==
  ASSUME IInv, pc = "serving"
  PROVE  Promise!AllProfiles(profiles, conf.profiles)
<1>1. \A i \in DOMAIN conf.profiles :
        /\ conf.profiles[i].name \in DOMAIN profiles
        /\ \A j \in DOMAIN conf.profiles :
             conf.profiles[j].name = conf.profiles[i].name => i = j
  BY DEF IInv, KeysExact, Stored
<1>2. ASSUME NEW n \in DOMAIN profiles
      PROVE  \E i \in DOMAIN conf.profiles :
               n = conf.profiles[i].name /\ Promise!IsProfile(profiles[n], conf.profiles[i])
  BY <1>2 DEF IInv, OwnProfiles, Promise!IsProfile, Promise!Denotes, OwnNumber
<1>3. DOMAIN profiles = {conf.profiles[i].name : i \in DOMAIN conf.profiles}
  <2>1. \A n \in DOMAIN profiles : \E i \in DOMAIN conf.profiles : n = conf.profiles[i].name
    BY <1>2
  <2>2. \A i \in DOMAIN conf.profiles : conf.profiles[i].name \in DOMAIN profiles
    BY <1>1
  <2> QED BY <2>1, <2>2
<1>4. \A i \in DOMAIN conf.profiles :
        Promise!IsProfile(profiles[conf.profiles[i].name], conf.profiles[i])
  BY <1>1, <1>2
<1>5. \A i, j \in DOMAIN conf.profiles :
        conf.profiles[i].name = conf.profiles[j].name => i = j
  BY <1>1
<1> QED BY <1>3, <1>4, <1>5 DEF Promise!AllProfiles

\* The same of the streams.
LEMMA StreamsComplete ==
  ASSUME IInv, pc = "serving"
  PROVE  Promise!AllStreams(streams, conf.streams)
<1>1. \A i \in DOMAIN conf.streams :
        /\ conf.streams[i].rtspUrl \in DOMAIN streams
        /\ \A j \in DOMAIN conf.streams :
             conf.streams[j].rtspUrl = conf.streams[i].rtspUrl => i = j
  BY DEF IInv, KeysExact, Stored
<1>2. \A u \in DOMAIN streams : \E i \in DOMAIN conf.streams :
        u = conf.streams[i].rtspUrl /\ streams[u] = conf.streams[i]
  BY DEF IInv, OwnStreams
<1>3. DOMAIN streams = {conf.streams[i].rtspUrl : i \in DOMAIN conf.streams}
  <2>1. \A u \in DOMAIN streams : \E i \in DOMAIN conf.streams : u = conf.streams[i].rtspUrl
    BY <1>2
  <2>2. \A i \in DOMAIN conf.streams : conf.streams[i].rtspUrl \in DOMAIN streams
    BY <1>1
  <2> QED BY <2>1, <2>2
<1>4. \A i \in DOMAIN conf.streams : streams[conf.streams[i].rtspUrl] = conf.streams[i]
  BY <1>1, <1>2
<1>5. \A i, j \in DOMAIN conf.streams :
        conf.streams[i].rtspUrl = conf.streams[j].rtspUrl => i = j
  BY <1>1
<1> QED BY <1>3, <1>4, <1>5 DEF Promise!AllStreams

\* A step that neither ends nor completes the start is seen by nobody.
LEMMA UnseenStep ==
  ASSUME UNCHANGED file, pc \notin Refusals \cup {"serving", "aborted"},
         pc' \notin Refusals \cup {"serving", "aborted"}
  PROVE  UNCHANGED <<Outcome, Wanted, WhenServing(profiles), WhenServing(streams)>>
<1>1. Wanted' = Wanted
  BY DEF Wanted, Setting
<1> QED BY <1>1 DEF Outcome, WhenServing

\* An end of the process before it serves is a refusal.
LEMMA RefuseStep ==
  ASSUME UNCHANGED file, pc \notin Refusals \cup {"serving", "aborted"},
         pc' \in Refusals \cup {"aborted"}
  PROVE  Promise!Refuse
<1>1. Wanted' = Wanted
  BY DEF Wanted, Setting
<1> QED BY <1>1 DEF Promise!Refuse, Outcome, WhenServing, Refusals

\* The last step of the start shows both maps, whole.
LEMMA ServeStep == ASSUME IInv', LoadInv', StreamsDone PROVE Promise!Serve
<1>1. pc = "streams" /\ pc' = "serving" /\ UNCHANGED file
  BY DEF StreamsDone
<1>2. Wanted' = Wanted
  BY <1>1 DEF Wanted, Setting
<1>3. conf'.profiles = Wanted.profiles /\ conf'.streams = Wanted.streams
  BY <1>1, <1>2 DEF LoadInv, Loaded
<1>4. Promise!AllProfiles(profiles', conf'.profiles)
  <2>1. (IInv /\ pc = "serving" => Promise!AllProfiles(profiles, conf.profiles))'
    BY ProfilesComplete, PTL
  <2> QED BY <1>1, <2>1
<1>5. Promise!AllStreams(streams', conf'.streams)
  <2>1. (IInv /\ pc = "serving" => Promise!AllStreams(streams, conf.streams))'
    BY StreamsComplete, PTL
  <2> QED BY <1>1, <2>1
<1>6. WhenServing(profiles)' = profiles' /\ WhenServing(streams)' = streams'
  BY <1>1 DEF WhenServing
<1>7. Outcome = "starting" /\ Outcome' = "serving"
  BY <1>1 DEF Outcome, Refusals
<1> QED BY <1>2, <1>3, <1>4, <1>5, <1>6, <1>7 DEF Promise!Serve

\* Every step of the start is a step of StartupPromise, or is seen by nobody.
LEMMA PromiseStep ==
  IInv' /\ LoadInv' /\ [Next]_vars => [Promise!Next]_(Promise!vars)
<1> SUFFICES ASSUME IInv', LoadInv', [Next]_vars
             PROVE  [Promise!Next]_(Promise!vars)
  OBVIOUS
<1> USE DEF Promise!Next, Promise!vars
<1>1. CASE StreamsDone
  BY <1>1, ServeStep
<1>2. CASE LoadFails \/ OpenFails
  BY <1>2, RefuseStep DEF LoadFails, OpenFails, Exit, Refusals
<1>3. CASE Load \/ SaveConfig \/ SetTzFormat \/ AddProfile \/ ProfilesDone \/ AddStream
  <2>1. /\ UNCHANGED file /\ pc \notin Refusals \cup {"serving", "aborted"}
        /\ pc' \notin {"serving", "aborted"}
    BY <1>3, Zenon
    DEF Load, SaveConfig, SetTzFormat, AddProfile, ProfilesDone, AddStream, Exit, Refusals
  <2> QED BY <2>1, UnseenStep, RefuseStep
<1>4. CASE UNCHANGED vars
  BY <1>4 DEF vars, ctxVars, Outcome, Wanted, Setting, WhenServing
<1> QED BY <1>1, <1>2, <1>3, <1>4 DEF Next

\* From outside a start is atomic: whatever the file holds, and whatever an
\* uninitialised number or freed memory reads as, the threads find the whole
\* configuration and nothing else, or are not started.
THEOREM ServesAllOrNothingHolds == Spec => ServesAllOrNothing
<1>1. Init => Promise!Init
  BY DEF Init, Promise!Init, Outcome, WhenServing, Refusals
<1>2. Init => LoadInv
  BY DEF Init, LoadInv, Loaded
<1>3. Spec => []LoadInv
  BY <1>2, LoadedStep, Invariance, PTL DEF Spec
<1> QED BY <1>1, <1>3, Invariance, PromiseStep, PTL
    DEF Spec, ServesAllOrNothing, Promise!Spec
=================================================================================
