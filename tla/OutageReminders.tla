--------------------------- MODULE OutageReminders ---------------------------
(***************************************************************************)
(* The outage forecast of a house (outage/forecast.ts, outage-forecast      *)
(* .service.ts) and the reminders made from it each round (reminders.ts,    *)
(* outage-reminders.service.ts).                                            *)
(*                                                                          *)
(* A unit of time is the time between two rounds; an hour has two, so that  *)
(* a slot's halves are units.  The schedule is one house's: the weekly      *)
(* patterns of its groups, the days confirmed and the events stored for them*)
(* (module OutageChecks shows how), while its checks succeed.               *)
(***************************************************************************)
EXTENDS OutageWindows, FiniteSets, Sequences

CONSTANTS
    Hours,         \* hours in a day
    NDays,         \* days in view; the weekly pattern repeats after them
    DayPatterns,   \* what a day of a pattern may be: hour -> SlotStatus
    Users,
    Lead, Possible, \* Lead[u], Possible[u]: the user's "Outage soon" choices
    MaxChanges,    \* bound of the days confirmed
    MaxFaults      \* bound of restarts and failed rounds

ASSUME ForecastConstants ==
    /\ Hours \in Nat \ {0} /\ NDays \in Nat \ {0}
    /\ Lead \in [Users -> Nat \ {0}] /\ Possible \in [Users -> BOOLEAN]
    /\ IsFiniteSet(Users) /\ DayPatterns \subseteq [0..(Hours - 1) -> SlotStatus]
    /\ MaxChanges \in Nat /\ MaxFaults \in Nat

VARIABLES
    at,        \* the clock
    weeks,     \* the latest pattern of each of the house's groups
    outages,    \* live schedule outages, as windows
    covered,   \* the days with a confirmed schedule
    started,   \* OutageReminders.started
    sent,      \* reminders sent: <<user, window key>>
    recorded,  \* windows recorded for the Alerts page
    reminded,  \* history: what members were told, in which round, and which
               \* days were confirmed then
    blind,     \* history: first rounds that failed before they marked anything
    calm,      \* history: since when nothing went wrong and no day changed
    changes, mishaps

reminderVars == <<at, weeks, outages, covered, started, sent, recorded, reminded,
                  blind, calm, changes, mishaps>>

DayLen == 2 * Hours
LastTime == NDays * DayLen
AllDays == 0..(NDays - 1)
DateOf(t) == t \div DayLen
-----------------------------------------------------------------------------
(* The forecast.                                                           *)

dayWindows(date, slots, source) ==
    joinWindows({Window(date * DayLen + 2 * h + Piece(slots[h])[1],
                         date * DayLen + 2 * h + Piece(slots[h])[2],
                         Piece(slots[h])[3], source) :
                     h \in {i \in DOMAIN slots : slots[i] # "yes"}})

\* weeklyWindows, of the one day it is asked for: clipped to [from, to).
weeklyWindows(week, date, from, to) ==
    cutWindows(dayWindows(date, week[date], "weekly"), from, to)

\* The weekly patterns on the days of [from, to) without a confirmed schedule.
uncoveredWeekly(from, to) ==
    joinWindows(UNION {weeklyWindows(week, d, Later(d * DayLen, from),
                                      Earlier((d + 1) * DayLen, to)) :
        week \in weeks, d \in (DateOf(from)..DateOf(to)) \intersect (AllDays \ covered)})

\* A forecast of [from, to): the events given and the weekly pattern.
buildForecast(events, from, to) == events \union uncoveredWeekly(from, to)

\* Of a source that is on and whose house is found: its live events that overlap
\* the range, whole.
getOutageForecast(from, to) ==
    buildForecast({e \in outages : e.start < to /\ e.end > from}, from, to)

-----------------------------------------------------------------------------
(* Reminders.                                                              *)

Wanted(w, u) ==
    /\ w.status # "unknown"
    /\ (w.source # "weekly" /\ w.status = "off") \/ Possible[u]

remindersDue(windows) ==
    {r \in Users \X windows :
        /\ at < r[2].start /\ r[2].start - at <= Lead[r[1]]
        /\ Wanted(r[2], r[1])}

Key(w) == <<w.source, w.status, w.start>>
\* A plausible bug: the key is of the window's end.
MarkByEnd(u, w) == <<u, w.source, w.status, w.end>>
Mark(u, w) == <<u, w.source, w.status, w.start>>
MaxLead == CHOOSE n \in {Lead[u] : u \in Users} : \A u \in Users : Lead[u] <= n

\* A plausible bug: what begins within a day is forgotten.
ForgetEarly(marks) == {k \in marks : k[Len(k)] >= at + DayLen}
Forget(marks) == {k \in marks : k[Len(k)] >= at - DayLen}

InitReminders ==
    /\ at = 0 /\ \E a, b \in [AllDays -> DayPatterns] : weeks = {a, b}
    /\ outages = {} /\ covered = {}
    /\ started = FALSE /\ sent = {} /\ recorded = {} /\ reminded = {}
    /\ blind = 0 /\ calm = 0 /\ changes = 0 /\ mishaps = 0

\* A plausible bug: a window is reminded of once, whoever was.
NewOfWindow ==
    {r \in remindersDue(getOutageForecast(at, at + MaxLead + 1)) :
        \A u \in Users : Mark(u, r[2]) \notin sent}

\* The reminders due that were not sent: <<user, window>>.
New == {r \in remindersDue(getOutageForecast(at, at + MaxLead + 1)) : Mark(r[1], r[2]) \notin sent}

\* tick: reminders are marked, the first round's in silence; then each window
\* is recorded, once, and told.  What fails ends the round, at the window in
\* `failed` if not before it, after those in `done`; the marks stay.
Round(new, done, failed) ==
    LET windows == {r[2] : r \in new}
        told == {r \in new : r[2] \in done}
    IN  /\ started' = TRUE /\ UNCHANGED blind
        /\ sent' = Forget(sent \union {Mark(r[1], r[2]) : r \in new})
        /\ IF ~started
           THEN /\ done = {} /\ failed = {} /\ recorded' = Forget(recorded \union {Key(w) : w \in windows})
                /\ UNCHANGED <<reminded, calm, mishaps>>
           ELSE /\ done \subseteq windows
                /\ recorded' = Forget(recorded \union {Key(w) : w \in done \union failed})
                /\ reminded' = reminded \union
                       {[user |-> r[1], window |-> r[2], at |-> at, known |-> covered, blind |-> blind] :
                           r \in told}
                /\ IF done = windows THEN UNCHANGED <<calm, mishaps>>
                   ELSE mishaps < MaxFaults /\ mishaps' = mishaps + 1 /\ calm' = at + 1

\* A query fails before anything is marked.  A first round counts all the same.
RoundFails ==
    /\ mishaps < MaxFaults /\ mishaps' = mishaps + 1 /\ calm' = at + 1
    /\ started' = TRUE /\ sent' = Forget(sent) /\ recorded' = Forget(recorded)
    /\ blind' = IF started THEN blind ELSE blind + 1
    /\ UNCHANGED reminded

\* The round of this unit, then the time passes.
RemindersTick ==
    /\ at < LastTime - 1 /\ at' = at + 1
    /\ LET new == New
           windows == {r[2] : r \in new}
       IN  \/ RoundFails
           \/ \E done \in SUBSET windows :
                 \E failed \in {{}} \union {{w} : w \in windows \ done} : Round(new, done, failed)
    /\ UNCHANGED <<weeks, outages, covered, changes>>

\* A check confirms a day: its windows are the events, whole, as stored.
Confirm(d, slots) ==
    /\ changes < MaxChanges /\ changes' = changes + 1
    /\ d \notin covered
    /\ covered' = covered \union {d}
    /\ outages' = joinWindows(outages \union dayWindows(d, slots, "schedule"))
    /\ calm' = at
    /\ UNCHANGED <<at, weeks, started, sent, recorded, reminded, blind, mishaps>>

RestartReminders ==
    /\ mishaps < MaxFaults /\ mishaps' = mishaps + 1
    /\ started' = FALSE /\ sent' = {} /\ recorded' = {} /\ calm' = at + 1
    /\ UNCHANGED <<at, weeks, outages, covered, reminded, blind, changes>>

RemindersNext ==
    \/ RemindersTick \/ RestartReminders
    \/ \E d \in AllDays, slots \in DayPatterns : Confirm(d, slots)

-----------------------------------------------------------------------------
RemindersTypeOK ==
    /\ at \in 0..LastTime /\ covered \subseteq AllDays
    /\ weeks \subseteq [AllDays -> DayPatterns] /\ started \in BOOLEAN
    /\ \A e \in outages : e.start < e.end /\ e.source = "schedule"
    /\ \A k \in sent : k[1] \in Users /\ k[2] \in {"schedule", "weekly"}
    /\ changes \in 0..MaxChanges /\ mishaps \in 0..MaxFaults /\ calm \in 0..LastTime
    /\ blind \in 0..mishaps
    /\ \A r \in reminded : r.user \in Users /\ r.window.start < r.window.end

\* What the schedule says of one unit, slot by slot and without any windows.
HalfOf(slots, t) ==
    LET slot == slots[(t % DayLen) \div 2]
    IN  IF slot # "yes" /\ t % 2 \in Piece(slot)[1]..(Piece(slot)[2] - 1)
        THEN {Piece(slot)[3]} ELSE {}
Says(t) ==
    {<<"weekly", s>> : s \in IF t < 0 \/ DateOf(t) \in covered THEN {}
                             ELSE UNION {HalfOf(week[DateOf(t)], t) : week \in weeks}}
    \union {<<"schedule", e.status>> : e \in {v \in outages : v.start <= t /\ t < v.end}}

(***************************************************************************)
(* The forecast's windows are the schedule, unit by unit: the events, and   *)
(* on days without a confirmed schedule what any of the house's groups says,*)
(* joined over slots, hours and midnight: no window ends where the next of  *)
(* its kind begins (forecast.ts buildForecast, windows.ts mergeWindows).    *)
(***************************************************************************)
ForecastIsSchedule ==
    LET ws == getOutageForecast(at, LastTime)
    IN  /\ \A t \in at..(LastTime - 1) :
              Says(t) = {<<w.source, w.status>> : w \in {v \in ws : v.start <= t /\ t < v.end}}
        /\ \A v, w \in ws : v.source = w.source /\ v.status = w.status => v.end # w.start

(***************************************************************************)
(* Whoever wants to hear of it has been reminded of an outage when it       *)
(* starts, if nothing went wrong and nothing was published since their lead *)
(* time began (outage-reminders.service.ts "each household member is        *)
(* reminded their own lead time before an outage starts").                  *)
(***************************************************************************)
StartsHere(s) == s \in Says(at) /\ s \notin Says(at - 1)
RemindedInTime ==
    \A u \in Users : calm < at - Lead[u] /\ Lead[u] < at =>
        \A s \in Says(at) :
            StartsHere(s) /\ Wanted(Window(at, at, s[2], s[1]), u)
                => \E r \in reminded : /\ r.user = u /\ r.window.start = at
                                       /\ s = <<r.window.source, r.window.status>>

(***************************************************************************)
(* Nobody is told twice of one window, as its source, status and start name *)
(* it, restarts included; and of what begins at one instant only in one     *)
(* round, or again after another day was confirmed: an outage of the weekly *)
(* pattern that is then confirmed, or that a confirmed day cuts in two, is  *)
(* another window, and is told again to who heard of it already.  A first   *)
(* round that fails before it marks leaves no baseline, and all may be told *)
(* again (outage-reminders.service.ts:38-62, 96-115, 155; the comment,      *)
(* :16-18, has an outage told once).                                        *)
(***************************************************************************)
RemindedOnce ==
    \A q, r \in reminded :
        q # r /\ q.user = r.user /\ q.window.start = r.window.start /\ q.blind = r.blind =>
            /\ Key(q.window) # Key(r.window)
            /\ q.at = r.at \/ q.known # r.known

(***************************************************************************)
(* A reminder of the weekly pattern names the outage's end, as its wording  *)
(* does (reminders.ts "Outage in 15 min: 18:00-20:00").                     *)
(***************************************************************************)
RemindersNameTheEnd ==
    \A r \in reminded : r.window.source = "weekly" /\ DateOf(r.window.end) \notin covered =>
        <<"weekly", r.window.status>> \notin Says(r.window.end)
=============================================================================
