----------------------------- MODULE StartupPromise -----------------------------
(***************************************************************************)
(* What a start of the daemon promises to the threads that it starts: the  *)
(* profiles and the streams that are configured are there as a whole, at   *)
(* once and for good, or the process does not serve at all.  This is why   *)
(* the SOAP worker may read them without a lock.                           *)
(*                                                                         *)
(* Startup implements this module, though it builds the two maps entry by  *)
(* entry through variables that it uses again and again.                   *)
(***************************************************************************)
CONSTANTS
    Blank,      \* the text of a number is empty
    Leftover    \* what such a number may be

VARIABLES
    outcome,    \* "starting", "serving" or "refused"
    wanted,     \* the lists of the configuration
    profiles,   \* what is served, by name
    streams     \* what is served, by URL

vars == <<outcome, wanted, profiles, streams>>

\* Nobody serves anything yet.
Init ==
    /\ outcome = "starting"
    /\ profiles = <<>> /\ streams = <<>>

\* A value of the configuration, or what an empty text left.
Denotes(t, v) == v = t \/ (t = Blank /\ v \in Leftover)

\* The profile p is the one of the entry e.
IsProfile(p, e) ==
    /\ p.name = e.name /\ p.url = e.url /\ p.snapurl = e.snapurl /\ p.type = e.type
    /\ Denotes(e.width, p.width) /\ Denotes(e.height, p.height)

\* A map has the entries of a list, each under a key of its own, and no more.
AllProfiles(map, list) ==
    /\ DOMAIN map = {list[i].name : i \in DOMAIN list}
    /\ \A i \in DOMAIN list : IsProfile(map[list[i].name], list[i])
    /\ \A i, j \in DOMAIN list : list[i].name = list[j].name => i = j

AllStreams(map, list) ==
    /\ DOMAIN map = {list[i].rtspUrl : i \in DOMAIN list}
    /\ \A i \in DOMAIN list : map[list[i].rtspUrl] = list[i]
    /\ \A i, j \in DOMAIN list : list[i].rtspUrl = list[j].rtspUrl => i = j

\* All that is wanted is served from now on.
Serve ==
    /\ outcome = "starting"
    /\ outcome' = "serving"
    /\ AllProfiles(profiles', wanted.profiles)
    /\ AllStreams(streams', wanted.streams)
    /\ UNCHANGED wanted

\* The process ends and has served nothing.
Refuse ==
    /\ outcome = "starting"
    /\ outcome' = "refused"
    /\ UNCHANGED <<wanted, profiles, streams>>

Next == Serve \/ Refuse

Spec == Init /\ [][Next]_vars

=================================================================================
