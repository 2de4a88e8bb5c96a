------------------------------ MODULE WallClock -------------------------------
(***************************************************************************)
(* From the site's hours to instants, on the days the clocks change         *)
(* (outage-reader/dnem/windows.ts): the outage windows of a day's slots and *)
(* of the weekly pattern over a range.                                      *)
(*                                                                          *)
(* Time is counted in half hours, of UTC or of the wall clock; the wall     *)
(* clock's day d is d*DayHalves and on.  The zone changes its offset once,  *)
(* in the middle of the three days in view, by an hour.                     *)
(***************************************************************************)
EXTENDS OutageWindows

CONSTANTS
    DayHours,
    JumpHour,     \* the hour the clocks skip, or run twice
    StandardTime, \* offset of the zone in winter, in half hours
    ClockSlots    \* what a day's slots may be: hour -> SlotStatus

ASSUME ClockConstants ==
    /\ DayHours \in Nat \ {0} /\ DayHours % 2 = 0 /\ JumpHour \in 1..(DayHours - 2)
    /\ StandardTime \in 0..(DayHours - 2)
    /\ ClockSlots \subseteq [0..(DayHours - 1) -> SlotStatus]

VARIABLES
    zone,     \* what the clocks do on day 1: "forward", "back" or "neither"
    slots,    \* the site's slots, the same each day
    range,    \* the instants asked for
    shown     \* the windows given

clockVars == <<zone, slots, range, shown>>

DayHalves == 2 * DayHours
HalfDay == DayHours
Smallest(S) == CHOOSE x \in S : \A y \in S : x <= y

\* The instant of the change, and the offset at an instant.
Jump == DayHalves + 2 * (JumpHour + (IF zone = "back" THEN 1 ELSE 0))
            - StandardTime - (IF zone = "back" THEN 2 ELSE 0)
Offset(t) ==
    StandardTime + (IF (zone = "forward" /\ t >= Jump) \/ (zone = "back" /\ t < Jump) THEN 2 ELSE 0)

wallClock(t) == t + Offset(t)
localDateOf(t) == wallClock(t) \div DayHalves

\* A plausible bug: the offset is the one in force now.
OffsetsNow(wall) == <<Offset(wall), Offset(wall)>>
\* The offsets in force half a day either side cover any single change.
Offsets(wall) == <<Offset(wall - HalfDay), Offset(wall + HalfDay)>>

\* The first instant at which the clock shows it; none does in a skipped hour.
wallToUtc(date, half) ==
    LET wall == date * DayHalves + half
        candidates == {t \in {wall - Offsets(wall)[1], wall - Offsets(wall)[2]} : wallClock(t) = wall}
    IN  IF candidates # {} THEN Smallest(candidates) ELSE wall - Offsets(wall)[1]

\* A plausible bug: a piece goes on for as long as it says from its start.
PieceByLength(date, hour, status) ==
    LET p == Piece(status) start == wallToUtc(date, 2 * hour + p[1])
    IN  Window(start, start + p[2] - p[1], p[3], "weekly")
\* The instants between the clock's showing a piece's start and its end.
PieceOf(date, hour, status) ==
    LET p == Piece(status)
    IN  Window(wallToUtc(date, 2 * hour + p[1]), wallToUtc(date, 2 * hour + p[2]), p[3], "weekly")

\* The windows of one local day, those of no length dropped.
dayWindowsOf(date) ==
    joinWindows({w \in {PieceOf(date, h, slots[h]) : h \in {i \in DOMAIN slots : slots[i] # "yes"}} :
                    w.start < w.end})

\* A plausible bug: the days are counted by their length.
DatesByLength(from, to) == localDateOf(from)..(localDateOf(from) + (to - from) \div DayHalves)
Dates(from, to) == localDateOf(from)..localDateOf(to)

\* The pattern over [from, to), cut at its ends.
weeklyWindowsOver(from, to) ==
    IF to <= from THEN {}
    ELSE cutWindows(joinWindows(UNION {dayWindowsOf(d) : d \in Dates(from, to)}), from, to)

ClockInit ==
    /\ zone \in {"forward", "back", "neither"} /\ slots \in ClockSlots
    /\ range = [from |-> 0, to |-> 0] /\ shown = {}

\* A day of the site's, as dayWindows gives it.
ShowDay(date) ==
    /\ range' = [from |-> wallToUtc(date, 0), to |-> wallToUtc(date, DayHalves)]
    /\ shown' = dayWindowsOf(date) /\ UNCHANGED <<zone, slots>>

ShowRange(from, to) ==
    /\ range' = [from |-> from, to |-> to]
    /\ shown' = weeklyWindowsOver(from, to) /\ UNCHANGED <<zone, slots>>

\* One question: about a day, or a range about the change.
ClockNext ==
    /\ range.from = range.to
    /\ \/ \E date \in 0..2 : ShowDay(date)
       \/ \E from \in {wallToUtc(1, 0)} \union (Jump - 1)..(Jump + 1),
             to \in {wallToUtc(2, 2)} \union (Jump..(Jump + 2)) : ShowRange(from, to)

-----------------------------------------------------------------------------
\* What the site says of an instant, by what the clock shows then.
HourAt(t) == (wallClock(t) % DayHalves) \div 2
SiteSays(t, status) ==
    LET s == slots[HourAt(t)]
    IN  s # "yes" /\ Piece(s)[3] = status /\ wallClock(t) % 2 \in Piece(s)[1]..(Piece(s)[2] - 1)
ShownAt(t, status) == \E w \in shown : w.status = status /\ w.start <= t /\ t < w.end

\* The hour that runs twice; and the half hour after a skipped one, when the
\* skipped one was an outage in its first half.
Repeated(t) == zone = "back" /\ t \in (Jump - 2)..(Jump + 1)
Skipped(t, status) ==
    /\ zone = "forward" /\ t = Jump
    /\ slots[JumpHour] \in {"first", "mfirst"} /\ Piece(slots[JumpHour])[3] = status

(* The windows are the site's schedule: an instant lies in one of a status  *)
(* exactly when the site says so of the hour the clock shows, on the days   *)
(* the clocks change too.  The hour that runs twice errs towards a longer   *)
(* outage, but for its second run's first half.  The hour that is skipped   *)
(* drops out, but for an outage in its first half alone: wallToUtc gives    *)
(* its end, which no clock shows, half an hour after the jump, not "the     *)
(* moment of the jump" (windows.ts:205), and that half hour is shown as an  *)
(* outage the site does not have, though "the missing hour has no length"   *)
(* (windows.ts:4-11, 46-69, 97-121, 207-223).                               *)
WindowsAreTheSites ==
    \A t \in range.from..(range.to - 1), status \in {"off", "possible", "unknown"} :
        IF Repeated(t)
        THEN SiteSays(t, status) /\ (t < Jump \/ slots[HourAt(t)] \notin {"first", "mfirst"})
                => ShownAt(t, status)
        ELSE ShownAt(t, status) = (SiteSays(t, status) \/ Skipped(t, status))

(* Nothing is shown outside what was asked for, and no two windows of one   *)
(* status touch.                                                            *)
WindowsApart ==
    /\ \A w \in shown : range.from <= w.start /\ w.start < w.end /\ w.end <= range.to
    /\ \A v, w \in shown : v # w /\ v.status = w.status => v.end < w.start \/ w.end < v.start
=============================================================================
