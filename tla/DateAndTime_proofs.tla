--------------------------- MODULE DateAndTime_proofs ---------------------------
(***************************************************************************)
(* DateAndTime in any zone and with any clock.  The invariant follows the  *)
(* static struct tm from the step that fills it to the one that sends it:  *)
(* an instant of the request is behind every part of the answer.           *)
(***************************************************************************)
EXTENDS DateAndTime, TLAPS

\* The flag and the reading of the clock belong together.
FlagRead ==
    pc # "idle" => timestamp \in shown /\ reply.daylight = SideAt(timestamp).dst

\* The clock of now is in the history of the request.
ClockShown == pc # "idle" => clock \in shown

\* The struct tm and the text are of one instant.
ZoneRead ==
    pc = "dates" => \E t \in shown : tm = Localtime(t) /\ reply.zone = ZoneText(SideAt(t).off)

\* So are the two parts of a complete answer.
LocalSent ==
    Answered => \E t \in shown :
        reply.local = t + SideAt(t).off /\ reply.zone = ZoneText(SideAt(t).off)

IInv == TypeOK /\ FlagRead /\ ClockShown /\ ZoneRead /\ LocalSent /\ FlagFitsUtc

\* The sides of a zone.
LEMMA Sides ==
  ASSUME zone \in Zones, NEW t \in Int
  PROVE  SideAt(t) \in {zone.before, zone.after} /\ SideAt(t) \in Side
BY ZonesAssumption DEF SideAt

\* What the library's functions fill.
LEMMA TimesType ==
  ASSUME zone \in Zones, NEW t \in Int
  PROVE  Localtime(t) \in Times /\ Gmtime(t) \in Times
BY Sides DEF Localtime, Gmtime, Times, Side

\* Truncating division by a positive number of what it divides is exact.
LEMMA Division ==
  ASSUME NEW a \in Int
  PROVE  /\ Quotient(a, 3600) \in Int
         /\ Abs(Remainder(a, 60)) \in Nat
         /\ Remainder(a, 3600) = 0 => Remainder(a, 60) = 0 /\ a = 3600 * Quotient(a, 3600)
<1>1. /\ Quotient(a, 3600) \in Int /\ Quotient(a, 60) \in Int
      /\ Remainder(a, 60) \in Int /\ Abs(Remainder(a, 60)) \in Nat
  BY DEF Quotient, Remainder, Abs
<1>2. ASSUME Remainder(a, 3600) = 0 PROVE a = 3600 * Quotient(a, 3600)
  BY <1>1, <1>2 DEF Remainder
<1>3. ASSUME Remainder(a, 3600) = 0 PROVE Remainder(a, 60) = 0
  <2>1. PICK q \in Int : a = 60 * q
    <3>1. a = 60 * (60 * Quotient(a, 3600))
      BY <1>1, <1>2, <1>3
    <3> QED BY <1>1, <3>1
  <2>2. CASE a >= 0
    <3>1. a \div 60 = q
      BY <2>1, <2>2
    <3> QED BY <2>1, <2>2, <3>1 DEF Remainder, Quotient
  <2>3. CASE a < 0
    <3>1. (-a) \div 60 = -q
      BY <2>1, <2>3
    <3> QED BY <2>1, <2>3, <3>1 DEF Remainder, Quotient
  <2> QED BY <2>2, <2>3
<1> QED BY <1>1, <1>2, <1>3

\* The text is one of the texts.
LEMMA ZoneTextType ==
  ASSUME NEW off \in Int
  PROVE  ZoneText(off) \in Texts
<1>1. Quotient(off, 3600) \in Int /\ -Quotient(off, 3600) \in Int
      /\ Abs(Remainder(off, 60)) \in Nat
  BY Division
<1>2. CASE tz_format \in Offsets
  BY <1>1, <1>2 DEF ZoneText, Texts
<1>3. CASE tz_format \in Reversed
  BY <1>1, <1>3 DEF ZoneText, Texts, Offsets, Reversed
<1>4. CASE tz_format \notin Offsets \cup Reversed
  BY <1>4 DEF ZoneText, Texts
<1> QED BY <1>2, <1>3, <1>4

\* For an offset of whole hours a client reads the offset out of the text.
LEMMA TextDenotes ==
  ASSUME NEW off \in Int, Remainder(off, 3600) = 0, ZoneSent
  PROVE  Denoted(ZoneText(off)) = off
<1> DEFINE hh == Quotient(off, 3600)
<1>1. hh \in Int /\ off = 3600 * hh /\ Abs(Remainder(off, 60)) = 0
  BY Division DEF Abs
<1>2. CASE tz_format \in Offsets
  <2>1. ZoneText(off) = [hh |-> hh, mm |-> 0] /\ tz_format \notin Reversed
    BY <1>1, <1>2 DEF ZoneText, Offsets, Reversed
  <2> HIDE DEF hh
  <2>2. Denoted(ZoneText(off)) = Sign(hh) * (Abs(hh) * 3600 + 0 * 60)
    BY <2>1 DEF Denoted
  <2> QED BY <1>1, <2>2 DEF Sign, Abs
<1>3. CASE tz_format \in Reversed
  <2>1. ZoneText(off) = [hh |-> -hh, mm |-> 0]
    BY <1>1, <1>3 DEF ZoneText, Offsets, Reversed
  <2> HIDE DEF hh
  <2>2. Denoted(ZoneText(off)) = -(Sign(-hh) * (Abs(-hh) * 3600 + 0 * 60))
    BY <1>3, <2>1 DEF Denoted
  <2> QED BY <1>1, <2>2 DEF Sign, Abs
<1> QED BY <1>2, <1>3 DEF ZoneSent

\* The hours of n seconds and, taken for minutes, what they are above a whole
\* minute make n only when n is a number of whole hours.
LEMMA MinutesOfNothing ==
  ASSUME NEW n \in Nat, n = 3600 * (n \div 3600) + 60 * (n - 60 * (n \div 60))
  PROVE  n = 3600 * (n \div 3600)
<1> DEFINE h == n \div 3600
           m == n - 60 * (n \div 60)
<1>1. h \in Int /\ m \in Int
  OBVIOUS
<1>2. n = 60 * (60 * h + m)
  BY <1>1
<1> HIDE DEF h, m
<1>3. n \div 60 = 60 * h + m
  BY <1>1, <1>2
<1>4. m = 0
  BY <1>1, <1>2, <1>3 DEF m
<1> QED BY <1>1, <1>2, <1>4 DEF h

\* A client that reads the offset out of the text had one of whole hours.
LEMMA OnlyWholeHours ==
  ASSUME NEW off \in Int, ZoneSent, Denoted(ZoneText(off)) = off
  PROVE  Remainder(off, 3600) = 0
<1> DEFINE hh == Quotient(off, 3600)
           mm == Abs(Remainder(off, 60))
           h(n) == n \div 3600
           m(n) == n - 60 * (n \div 60)
<1>1. \/ Denoted(ZoneText(off)) = Sign(hh) * (Abs(hh) * 3600 + mm * 60)
      \/ Denoted(ZoneText(off)) = -(Sign(-hh) * (Abs(-hh) * 3600 + mm * 60))
  <2>1. CASE tz_format \in Offsets
    <3>1. ZoneText(off) = [hh |-> hh, mm |-> mm] /\ tz_format \notin Reversed
      BY <2>1 DEF ZoneText, Offsets, Reversed
    <3> HIDE DEF hh, mm
    <3> QED BY <3>1 DEF Denoted
  <2>2. CASE tz_format \in Reversed
    <3>1. ZoneText(off) = [hh |-> -hh, mm |-> mm]
      BY <2>2 DEF ZoneText, Offsets, Reversed
    <3> HIDE DEF hh, mm
    <3> QED BY <2>2, <3>1 DEF Denoted
  <2> QED BY <2>1, <2>2 DEF ZoneSent
<1>2. CASE off >= 0
  <2>1. hh = h(off) /\ mm = m(off) /\ h(off) \in Nat /\ m(off) \in Nat
    BY <1>2 DEF Quotient, Remainder, Abs
  <2> HIDE DEF hh, mm, h, m
  <2>2. off = 3600 * h(off) + 60 * m(off)
    BY <1>1, <1>2, <2>1 DEF Sign, Abs
  <2>3. off = 3600 * h(off)
    BY <1>2, <2>2, MinutesOfNothing DEF h, m
  <2> QED BY <1>2, <2>1, <2>3 DEF Remainder, hh
<1>3. CASE off < 0
  <2>1. hh = -h(-off) /\ mm = m(-off) /\ h(-off) \in Nat /\ m(-off) \in Nat
    BY <1>3 DEF Quotient, Remainder, Abs
  <2> HIDE DEF hh, mm, h, m
  <2>2. -off = 3600 * h(-off) + 60 * m(-off)
    BY <1>1, <1>3, <2>1 DEF Sign, Abs
  <2>3. -off \in Nat /\ -off = 3600 * h(-off)
    BY <1>3, <2>2, MinutesOfNothing DEF h, m
  <2> QED BY <1>3, <2>1, <2>3 DEF Remainder, hh
<1> QED BY <1>2, <1>3

\* The invariant holds at the start.
LEMMA InitOK == Init => IInv
<1> SUFFICES ASSUME Init PROVE IInv
  OBVIOUS
<1>1. TypeOK
  BY MaxClockAssumption, MaxSetsAssumption
     DEF Init, TypeOK, Gmtime, Times, Blank, Texts
<1> QED BY <1>1 DEF Init, IInv, FlagRead, ClockShown, ZoneRead, LocalSent, FlagFitsUtc, Answered

\* The clock changes; what was read and sent stays.
LEMMA ClockKeeps ==
  ASSUME IInv, clock' \in 0 .. MaxClock, sets' \in 0 .. MaxSets, Show(clock'),
         UNCHANGED <<zone, tz_format, pc, timestamp, tm, reply>>
  PROVE  IInv'
<1>1. shown \subseteq shown' /\ (pc = "idle" => shown' = shown)
      /\ (pc # "idle" => clock' \in shown')
  BY DEF Show
<1>2. TypeOK'
  <2>1. shown' \subseteq 0 .. MaxClock
    BY DEF Show, IInv, TypeOK
  <2> QED BY <2>1 DEF IInv, TypeOK
<1>3. \A t : SideAt(t)' = SideAt(t) /\ Localtime(t)' = Localtime(t)
  BY DEF SideAt, Localtime
<1>4. \A o : ZoneText(o)' = ZoneText(o)
  BY DEF ZoneText
<1>5. FlagRead' /\ ClockShown'
  BY <1>1, <1>3 DEF IInv, FlagRead, ClockShown
<1>6. ZoneRead'
  BY <1>1, <1>3, <1>4 DEF IInv, ZoneRead
<1>7. LocalSent' /\ FlagFitsUtc'
  BY <1>1, <1>3, <1>4 DEF IInv, LocalSent, FlagFitsUtc, Answered
<1> QED BY <1>2, <1>5, <1>6, <1>7 DEF IInv

LEMMA FlagStep == ASSUME IInv, Flag PROVE IInv'
<1>1. /\ timestamp' = clock /\ shown' = {clock} /\ pc' = "zone"
      /\ tm' = Localtime(clock) /\ reply' = [Blank EXCEPT !.daylight = tm'.isdst]
      /\ UNCHANGED <<clock, sets, zone, tz_format>>
  BY DEF Flag, Localtime, SideAt
<1>2. clock \in Int /\ zone \in Zones
  BY MaxClockAssumption DEF IInv, TypeOK
<1>3. tm' \in Times /\ tm'.isdst = SideAt(clock).dst /\ tm'.isdst \in BOOLEAN
  BY <1>1, <1>2, TimesType DEF Localtime, Times
<1>4. reply' \in [daylight : BOOLEAN, zone : Texts, local : Int, utc : Int]
      /\ reply'.daylight = SideAt(clock).dst
  BY <1>1, <1>3 DEF Blank, Texts
<1>5. TypeOK'
  BY <1>1, <1>3, <1>4 DEF IInv, TypeOK
<1>6. SideAt(clock)' = SideAt(clock)
  BY <1>1 DEF SideAt
<1>7. SideAt(timestamp)' = SideAt(clock)
  BY <1>1 DEF SideAt
<1>8. FlagRead' /\ ClockShown' /\ ZoneRead'
  BY <1>1, <1>4, <1>7 DEF FlagRead, ClockShown, ZoneRead
<1>9. LocalSent' /\ FlagFitsUtc'
  BY <1>1 DEF LocalSent, FlagFitsUtc, Answered
<1> QED BY <1>5, <1>8, <1>9 DEF IInv

LEMMA GetTimeZoneStep == ASSUME IInv, GetTimeZone PROVE IInv'
<1>1. /\ pc = "zone" /\ pc' = "dates"
      /\ tm' = Localtime(clock) /\ tm'.gmtoff = SideAt(clock).off
      /\ reply' = [reply EXCEPT !.zone = ZoneText(tm'.gmtoff)]
      /\ UNCHANGED <<clock, sets, zone, tz_format, timestamp, shown>>
  BY DEF GetTimeZone, Localtime
<1>2. clock \in Int /\ zone \in Zones
  BY MaxClockAssumption DEF IInv, TypeOK
<1>3. tm' \in Times /\ SideAt(clock).off \in Int
  BY <1>1, <1>2, TimesType, Sides DEF Side
<1>4. ZoneText(SideAt(clock).off) \in Texts
  BY <1>3, ZoneTextType
<1>5. /\ reply' \in [daylight : BOOLEAN, zone : Texts, local : Int, utc : Int]
      /\ reply'.daylight = reply.daylight /\ reply'.zone = ZoneText(SideAt(clock).off)
  BY <1>1, <1>4 DEF IInv, TypeOK
<1>6. TypeOK'
  BY <1>1, <1>3, <1>5 DEF IInv, TypeOK
<1>7. \A t : SideAt(t)' = SideAt(t) /\ Localtime(t)' = Localtime(t)
  BY <1>1 DEF SideAt, Localtime
<1>8. \A o : ZoneText(o)' = ZoneText(o)
  BY <1>1 DEF ZoneText
<1>9. FlagRead' /\ ClockShown'
  BY <1>1, <1>5, <1>7 DEF IInv, FlagRead, ClockShown
<1>10. ZoneRead'
  <2>1. clock \in shown
    BY <1>1 DEF IInv, ClockShown
  <2> QED BY <1>1, <1>5, <1>7, <1>8, <2>1 DEF ZoneRead
<1>11. LocalSent' /\ FlagFitsUtc'
  BY <1>1 DEF LocalSent, FlagFitsUtc, Answered
<1> QED BY <1>6, <1>9, <1>10, <1>11 DEF IInv

LEMMA DatesStep == ASSUME IInv, Dates PROVE IInv'
<1>1. /\ pc = "dates" /\ pc' = "idle" /\ tm' = Gmtime(timestamp) /\ tm'.sec = timestamp
      /\ reply' = [reply EXCEPT !.local = tm.sec, !.utc = timestamp]
      /\ UNCHANGED <<clock, sets, zone, tz_format, timestamp, shown>>
  BY DEF Dates, Gmtime
<1>2. timestamp \in Int /\ zone \in Zones
  BY MaxClockAssumption DEF IInv, TypeOK
<1>3. tm' \in Times
  BY <1>1, <1>2, TimesType
<1>4. /\ reply' \in [daylight : BOOLEAN, zone : Texts, local : Int, utc : Int]
      /\ reply'.daylight = reply.daylight /\ reply'.zone = reply.zone
      /\ reply'.local = tm.sec /\ reply'.utc = timestamp
  BY <1>1, <1>2 DEF IInv, TypeOK, Times
<1>5. TypeOK'
  BY <1>1, <1>3, <1>4 DEF IInv, TypeOK
<1>6. \A t : SideAt(t)' = SideAt(t)
  BY <1>1 DEF SideAt
<1>7. \A o : ZoneText(o)' = ZoneText(o)
  BY <1>1 DEF ZoneText
<1>8. FlagRead' /\ ClockShown' /\ ZoneRead'
  BY <1>1 DEF FlagRead, ClockShown, ZoneRead
<1>9. LocalSent'
  <2>1. PICK t \in shown : tm = Localtime(t) /\ reply.zone = ZoneText(SideAt(t).off)
    BY <1>1 DEF IInv, ZoneRead
  <2>2. tm.sec = t + SideAt(t).off
    BY <2>1 DEF Localtime
  <2> QED BY <1>1, <1>4, <1>6, <1>7, <2>1, <2>2 DEF LocalSent
<1>10. FlagFitsUtc'
  <2>1. SideAt(reply.utc)' = SideAt(timestamp)
    BY <1>1, <1>4 DEF SideAt
  <2> QED BY <1>1, <1>4, <2>1 DEF IInv, FlagRead, FlagFitsUtc
<1> QED BY <1>5, <1>8, <1>9, <1>10 DEF IInv

\* Every step keeps the invariant.
LEMMA NextKeeps == IInv /\ [Next]_vars => IInv'
<1> SUFFICES ASSUME IInv, [Next]_vars PROVE IInv'
  OBVIOUS
<1>1. CASE UNCHANGED vars
  <2>1. UNCHANGED <<clock, sets, zone, tz_format, pc, timestamp, tm, reply, shown>>
    BY <1>1 DEF vars
  <2>2. clock' \in 0 .. MaxClock /\ sets' \in 0 .. MaxSets
    BY <2>1 DEF IInv, TypeOK
  <2>3. Show(clock')
    BY <2>1 DEF IInv, ClockShown, Show
  <2> QED BY <2>1, <2>2, <2>3, ClockKeeps
<1>2. CASE Tick
  <2>1. clock' \in 0 .. MaxClock /\ sets' \in 0 .. MaxSets
    BY <1>2, MaxClockAssumption DEF Tick, IInv, TypeOK
  <2> QED BY <1>2, <2>1, ClockKeeps DEF Tick
<1>3. CASE SetClock
  <2>1. clock' \in 0 .. MaxClock /\ sets' \in 0 .. MaxSets
    BY <1>3, MaxSetsAssumption DEF SetClock, IInv, TypeOK
  <2> QED BY <1>3, <2>1, ClockKeeps DEF SetClock
<1>4. CASE Flag
  BY <1>4, FlagStep
<1>5. CASE GetTimeZone
  BY <1>5, GetTimeZoneStep
<1>6. CASE Dates
  BY <1>6, DatesStep
<1> QED BY <1>1, <1>2, <1>3, <1>4, <1>5, <1>6 DEF Next

\* The invariant holds in every reachable state.
LEMMA Invariance == Spec => []IInv
BY InitOK, NextKeeps, PTL DEF Spec

\* Every variable keeps its type.
THEOREM TypeCorrect == Spec => []TypeOK
<1>1. IInv => TypeOK
  BY DEF IInv
<1> QED BY <1>1, Invariance, PTL

\* In every zone of whole hours LocalDateTime and TimeZone are of one instant
\* of the request, however the clock runs or is set meanwhile.
THEOREM LocalFitsZoneHolds == Spec => []LocalFitsZone
<1>1. IInv => LocalFitsZone
  <2> SUFFICES ASSUME IInv, Answered, ZoneSent, WholeHours
               PROVE  reply.local - Denoted(reply.zone) \in shown
    BY DEF LocalFitsZone
  <2>1. PICK t \in shown :
          reply.local = t + SideAt(t).off /\ reply.zone = ZoneText(SideAt(t).off)
    BY DEF IInv, LocalSent
  <2>2. t \in Int /\ zone \in Zones
    BY MaxClockAssumption DEF IInv, TypeOK
  <2>3. SideAt(t).off \in Int /\ Remainder(SideAt(t).off, 3600) = 0
    BY <2>2, Sides DEF WholeHours, Whole, Side
  <2>4. Denoted(reply.zone) = SideAt(t).off
    BY <2>1, <2>3, TextDenotes
  <2> QED BY <2>1, <2>2, <2>3, <2>4
<1> QED BY <1>1, Invariance, PTL

\* The text get_time_zone makes of an offset denotes that offset exactly when
\* the offset is of whole hours: the minutes it writes are the seconds above a
\* whole minute, and are right only where there are none of either.
THEOREM TextRightForWholeHours ==
  ASSUME NEW off \in Int, ZoneSent
  PROVE  Denoted(ZoneText(off)) = off <=> Remainder(off, 3600) = 0
BY TextDenotes, OnlyWholeHours

\* In every answer LocalDateTime and TimeZone are of one instant of the
\* request, and a client reads that instant's offset exactly when it is of
\* whole hours.
THEOREM ZoneRightWhenWholeHolds == Spec => []ZoneRightWhenWhole
<1>1. IInv => ZoneRightWhenWhole
  <2> SUFFICES ASSUME IInv, Answered, ZoneSent
               PROVE  \E t \in shown :
                        /\ reply.local = t + SideAt(t).off
                        /\ Denoted(reply.zone) = SideAt(t).off <=> Whole(SideAt(t).off)
    BY DEF ZoneRightWhenWhole
  <2>1. PICK t \in shown :
          reply.local = t + SideAt(t).off /\ reply.zone = ZoneText(SideAt(t).off)
    BY DEF IInv, LocalSent
  <2>2. t \in Int /\ zone \in Zones
    BY MaxClockAssumption DEF IInv, TypeOK
  <2>3. SideAt(t).off \in Int
    BY <2>2, Sides DEF Side
  <2> QED BY <2>1, <2>3, TextRightForWholeHours DEF Whole
<1> QED BY <1>1, Invariance, PTL

\* In a zone of whole hours TimeZone is what ServiceContext.h says it is.
THEOREM WholeZoneIsTheSystems == Spec => [](WholeHours => ZoneIsTheSystems)
<1>1. IInv => (WholeHours => ZoneIsTheSystems)
  <2> SUFFICES ASSUME IInv, Answered, ZoneSent, WholeHours
               PROVE  Denoted(reply.zone) \in {zone.before.off, zone.after.off}
    BY DEF ZoneIsTheSystems
  <2>1. PICK t \in shown : reply.zone = ZoneText(SideAt(t).off)
    BY DEF IInv, LocalSent
  <2>2. t \in Int /\ zone \in Zones
    BY MaxClockAssumption DEF IInv, TypeOK
  <2>3. SideAt(t) \in {zone.before, zone.after} /\ SideAt(t).off \in Int
    BY <2>2, Sides DEF Side
  <2>4. Denoted(reply.zone) = SideAt(t).off
    BY <2>1, <2>3, TextDenotes DEF WholeHours, Whole
  <2> QED BY <2>3, <2>4
<1> QED BY <1>1, Invariance, PTL

\* The flag of the answer is the one of the instant sent as UTCDateTime.
THEOREM FlagFitsUtcHolds == Spec => []FlagFitsUtc
<1>1. IInv => FlagFitsUtc
  BY DEF IInv
<1> QED BY <1>1, Invariance, PTL

=============================================================================
