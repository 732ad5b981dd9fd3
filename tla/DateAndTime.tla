------------------------------ MODULE DateAndTime ------------------------------
(***************************************************************************)
(* GetSystemDateAndTime: one answer out of two readings of the clock, one  *)
(* in get_SystemDateAndTime and one in get_time_zone, and of the one       *)
(* struct tm that every localtime and every gmtime of the process fills    *)
(* and returns a pointer to.  The clock runs on between any two steps and  *)
(* may be set, forwards or back.                                           *)
(***************************************************************************)
EXTENDS Integers

CONSTANTS
    Zones,      \* the zones the system may be set to: one change of the offset each
    MaxClock,   \* bound: the last second of the clock
    MaxSets,    \* bound: how often the clock is set
    Env         \* the text of an environment variable

Side == [off : Int, dst : BOOLEAN]

ASSUME ZonesAssumption == Zones \subseteq [at : Nat, before : Side, after : Side]
ASSUME MaxClockAssumption == MaxClock \in Nat
ASSUME MaxSetsAssumption == MaxSets \in Nat

Offsets == {"UTC_OFFSET", "UTC"}            \* formats of the sign of the offset
Reversed == {"GMT_OFFSET", "GMT"}           \* formats of the opposite sign
Formats == Offsets \cup Reversed \cup {"ENV", "ONVIF_ENV"}

VARIABLES
    clock,      \* seconds of the system clock, in UTC
    sets,       \* how often it was set
    zone,       \* the zone of the system
    tz_format,  \* of the ServiceContext
    pc,         \* the step of get_SystemDateAndTime
    timestamp,  \* its reading of the clock
    tm,         \* the static struct tm of the C library
    reply,      \* the answer, being built or complete
    shown       \* the values the clock had since the request came (history)

vars == <<clock, sets, zone, tz_format, pc, timestamp, tm, reply, shown>>

SideAt(t) == IF t < zone.at THEN zone.before ELSE zone.after

Localtime(t) == [sec |-> t + SideAt(t).off, gmtoff |-> SideAt(t).off, isdst |-> SideAt(t).dst]
Gmtime(t)    == [sec |-> t, gmtoff |-> 0, isdst |-> FALSE]

\* Division of C: it truncates, and the remainder has the sign of a.
Quotient(a, b)  == IF a >= 0 THEN a \div b ELSE -((-a) \div b)
Remainder(a, b) == a - b * Quotient(a, b)
Abs(a)          == IF a >= 0 THEN a ELSE -a

\* The text of get_time_zone for an offset of off seconds.
ZoneText(off) ==
    LET hh == Quotient(off, 3600)
        mm == Abs(Remainder(off, 60))
    IN  CASE tz_format \in Offsets  -> [hh |-> hh, mm |-> mm]
          [] tz_format \in Reversed -> [hh |-> -hh, mm |-> mm]
          [] OTHER                  -> Env

Blank == [daylight |-> FALSE, zone |-> Env, local |-> 0, utc |-> 0]

Init ==
    /\ clock \in 0 .. MaxClock /\ sets = 0
    /\ zone \in Zones
    /\ tz_format \in Formats
    /\ pc = "idle" /\ timestamp = 0 /\ shown = {}
    /\ tm = Gmtime(0) /\ reply = Blank

Show(t) == shown' = IF pc = "idle" THEN shown ELSE shown \cup {t}

Tick ==
    /\ clock < MaxClock
    /\ clock' = clock + 1
    /\ Show(clock')
    /\ UNCHANGED <<sets, zone, tz_format, pc, timestamp, tm, reply>>

SetClock ==
    /\ sets < MaxSets
    /\ sets' = sets + 1
    /\ clock' \in 0 .. MaxClock
    /\ Show(clock')
    /\ UNCHANGED <<zone, tz_format, pc, timestamp, tm, reply>>

\* get_SystemDateAndTime down to the flag.
Flag ==
    /\ pc = "idle"
    /\ timestamp' = clock /\ shown' = {clock}
    /\ tm' = Localtime(timestamp')
    /\ reply' = [Blank EXCEPT !.daylight = tm'.isdst]
    /\ pc' = "zone"
    /\ UNCHANGED <<clock, sets, zone, tz_format>>

\* Mutant: get_time_zone fills a struct tm of its own (localtime_r).
GetTimeZoneReentrant ==
    /\ pc = "zone"
    /\ reply' = [reply EXCEPT !.zone = ZoneText(Localtime(clock).gmtoff)]
    /\ pc' = "dates"
    /\ UNCHANGED <<clock, sets, zone, tz_format, timestamp, tm, shown>>

\* get_time_zone: it reads the clock again, and fills the same struct tm.
GetTimeZone ==
    /\ pc = "zone"
    /\ tm' = Localtime(clock)
    /\ reply' = [reply EXCEPT !.zone = ZoneText(tm'.gmtoff)]
    /\ pc' = "dates"
    /\ UNCHANGED <<clock, sets, zone, tz_format, timestamp, shown>>

\* Mutant: the clock is read again for UTCDateTime.
DatesNow ==
    /\ pc = "dates"
    /\ tm' = Gmtime(clock)
    /\ reply' = [reply EXCEPT !.local = tm.sec, !.utc = tm'.sec]
    /\ pc' = "idle"
    /\ UNCHANGED <<clock, sets, zone, tz_format, timestamp, shown>>

\* LocalDateTime out of time_info, then UTCDateTime out of gmtime.
Dates ==
    /\ pc = "dates"
    /\ tm' = Gmtime(timestamp)
    /\ reply' = [reply EXCEPT !.local = tm.sec, !.utc = tm'.sec]
    /\ pc' = "idle"
    /\ UNCHANGED <<clock, sets, zone, tz_format, timestamp, shown>>

Next == Tick \/ SetClock \/ Flag \/ GetTimeZone \/ Dates

Spec == Init /\ [][Next]_vars

-----------------------------------------------------------------------------

Texts == [hh : Int, mm : Nat] \cup {Env}
Times == [sec : Int, gmtoff : Int, isdst : BOOLEAN]

TypeOK ==
    /\ clock \in 0 .. MaxClock /\ sets \in 0 .. MaxSets
    /\ zone \in Zones /\ tz_format \in Formats
    /\ pc \in {"idle", "zone", "dates"}
    /\ timestamp \in 0 .. MaxClock /\ shown \subseteq 0 .. MaxClock
    /\ tm \in Times
    /\ reply \in [daylight : BOOLEAN, zone : Texts, local : Int, utc : Int]

\* The offset of UTC, in seconds, a client reads in a text of `hh:mm'.
Sign(n) == IF n < 0 THEN -1 ELSE 1
Denoted(text) ==
    LET seconds == Sign(text.hh) * (Abs(text.hh) * 3600 + text.mm * 60)
    IN  IF tz_format \in Reversed THEN -seconds ELSE seconds

Answered == pc = "idle" /\ shown # {}
ZoneSent == tz_format \in Offsets \cup Reversed

Whole(off) == Remainder(off, 3600) = 0
WholeHours == \A side \in {zone.before, zone.after} : Whole(side.off)

(***************************************************************************)
(* In a zone of whole hours LocalDateTime and TimeZone belong together:    *)
(* the one read with the other is an instant of the request, whatever the  *)
(* clock did and even when the summer time begins between the two readings *)
(* of the clock.  get_SystemDateAndTime keeps a pointer that get_time_zone *)
(* fills anew, which is what keeps the two together.                       *)
(***************************************************************************)
LocalFitsZone ==
    Answered /\ ZoneSent /\ WholeHours => reply.local - Denoted(reply.zone) \in shown

(***************************************************************************)
(* DaylightSavings and UTCDateTime belong together: the flag is the one of *)
(* the zone at the instant sent as UTCDateTime, though the time between    *)
(* them is filled with another reading of the clock.                       *)
(***************************************************************************)
FlagFitsUtc ==
    Answered => reply.utc \in shown /\ reply.daylight = SideAt(reply.utc).dst

(***************************************************************************)
(* How far that goes: LocalDateTime and TimeZone are always those of one   *)
(* instant of the request, and a client that reads TimeZone finds the      *)
(* offset of that instant if it is of whole hours, and never otherwise.    *)
(***************************************************************************)
ZoneRightWhenWhole ==
    Answered /\ ZoneSent =>
        \E t \in shown : /\ reply.local = t + SideAt(t).off
                         /\ Denoted(reply.zone) = SideAt(t).off <=> Whole(SideAt(t).off)

(***************************************************************************)
(* ServiceContext.h says the text has the form [+|-]hh:mm: what it denotes *)
(* is the offset the system's zone has before or after its change.         *)
(***************************************************************************)
ZoneIsTheSystems ==
    Answered /\ ZoneSent => Denoted(reply.zone) \in {zone.before.off, zone.after.off}

=============================================================================
