---------------------------- MODULE OutageChecks -----------------------------
(***************************************************************************)
(* The outage schedule of one house.  A reader asks the server which       *)
(* address to check, reads the operator's site and posts what it saw; the  *)
(* server stores every check and, from a successful one, the house's       *)
(* groups, patterns, confirmed days and outage events, and tells the       *)
(* household what changed.  Posts may be delayed, overtake each other or   *)
(* be sent again; requests are handled at the same time, each in a         *)
(* transaction of isolation READ COMMITTED; and the address may be changed *)
(* in the app meanwhile.                                                   *)
(*                                                                         *)
(* Time is counted in slots of the site's schedule; two local days are in  *)
(* view.  A check is named by its time, checkedAt.                         *)
(***************************************************************************)
EXTENDS Integers, FiniteSets, SequencesExt

CONSTANTS
    Addresses, Groups, None,
    GroupsOf,    \* the groups of each address on the site, None if not listed
    Statuses,    \* EventStatus
    DayLength,   \* slots in a day
    Pages,       \* what the site may show: of each day, per group, the slots
                 \* that are not "yes", or None; the weekly pattern; and the
                 \* repair it lists for the house, or None
    MaxTime,     \* bound of the clock
    Copies,      \* bound of the times one check is posted
    MaxResends,  \* bound of the posts sent again
    MaxMoves     \* bound of the changes of address

Days     == 0..1
Slots(d) == (d * DayLength)..((d + 1) * DayLength - 1)

ASSUME OutageConstants ==
    /\ None \notin Addresses
    /\ DayLength \in Nat \ {0} /\ MaxTime \in Nat /\ MaxMoves \in Nat
    /\ Copies \in Nat \ {0} /\ MaxResends \in Nat
    /\ IsFiniteSet(Statuses)
    /\ \A a \in Addresses : GroupsOf[a] = None \/ GroupsOf[a] \subseteq Groups
    /\ \A p \in Pages :
         /\ \A d \in Days, g \in Groups :
              p.days[d][g] = None \/ p.days[d][g] \subseteq Slots(d) \X Statuses
         /\ p.repair = None \/
              /\ p.repair \in Nat \X Nat
              /\ p.repair[1] < p.repair[2]

VARIABLES
    now,
    check,     \* the checks the reader made, by their time
    request,   \* per post of a check: its state and what its transaction read
    source,    \* the OutageSource row: address, houseState and groups
    moves,     \* the changes of address so far
    stored,    \* OutageCheck rows: their times
    weekly,    \* OutageWeeklyPattern rows
    days,      \* OutageConfirmedDay rows: the slots of a group and day
    events,    \* OutageEvent rows, in the order of their ids
    applied,   \* history: the checks applied, in the order they were
    told       \* history: the checks whose changes the household is told

rows == <<stored, weekly, days, events, applied>>
vars == <<now, check, request, source, moves, rows, told>>

DayOf(h) == h \div DayLength
Times    == 0..MaxTime
Requests == Times \X (1..Copies)
Idle     == [pc |-> "none", newer |-> FALSE, before |-> "PENDING"]

-----------------------------------------------------------------------------
(* What a check says.                                                      *)

Found(c)       == GroupsOf[c.address] # None
HouseGroups(c) == IF Found(c) THEN GroupsOf[c.address] ELSE {}

\* The house's groups whose schedule of day d is confirmed, and those days.
Published(c, d) == {g \in HouseGroups(c) : c.page.days[d][g] # None}
Covered(c)      == {d \in Days : Published(c, d) # {}}
Shown(c)        == UNION {UNION {c.page.days[d][g] : g \in Published(c, d)} :
                          d \in Covered(c)}

Event(kind, status, start, end) ==
    [kind |-> kind, status |-> status, start |-> start, end |-> end, live |-> TRUE]

\* Windows of one status that touch or overlap are one, over midnight too.
mergeWindows(slots) ==
    LET At(h, st) == <<h, st>> \in slots
    IN  {e \in {Event("SCHEDULE", st, a, b) :
                    st \in Statuses, a \in UNION {Slots(d) : d \in Days},
                    b \in 1..(2 * DayLength)} :
            /\ e.start < e.end
            /\ \A h \in e.start..(e.end - 1) : At(h, e.status)
            /\ ~At(e.start - 1, e.status) /\ ~At(e.end, e.status)}

RepairsOf(c) ==
    IF c.page.repair = None THEN {}
    ELSE {Event("REPAIR", "OFF", c.page.repair[1], c.page.repair[2])}

-----------------------------------------------------------------------------
(* Matching what a check shows with the events known.                      *)

Overlap(e, f) == e.start < f.end /\ f.start < e.end

\* The earliest shown event left takes the earliest known one left of its status
\* that it overlaps, or is new.
matchNext(plan) ==
    LET e == CHOOSE x \in plan.shown : \A y \in plan.shown : x.start <= y.start
        fit == {k \in plan.known : plan.evs[k].status = e.status /\ Overlap(plan.evs[k], e)}
        k == CHOOSE i \in fit : \A j \in fit : plan.evs[i].start <= plan.evs[j].start
    IN  IF fit = {}
        THEN [plan EXCEPT !.shown = @ \ {e}, !.evs = Append(@, e)]
        ELSE [plan EXCEPT !.shown = @ \ {e}, !.evs[k] = e, !.known = @ \ {k}]

matching(evs, known, shown) ==
    LET plan[n \in 0..Cardinality(shown)] ==
            IF n = 0 THEN [evs |-> evs, known |-> known, shown |-> shown]
            ELSE matchNext(plan[n - 1])
    IN  plan[Cardinality(shown)]

\* Each shown event is matched; a known one that none takes is withdrawn.
planEvents(evs, known, shown) ==
    LET plan == matching(evs, known, shown)
    IN  [i \in DOMAIN plan.evs |->
            [plan.evs[i] EXCEPT !.live = @ /\ i \notin plan.known]]

\* A plausible bug: only the events that begin on a day the check shows.
InScopeByStart(e, c) ==
    e.kind = "REPAIR" \/ \E d \in Covered(c) :
        e.start < (d + 1) * DayLength /\ d * DayLength <= e.start

\* A repair is always the check's to revise, a schedule event on its days.
InScope(e, c) ==
    e.kind = "REPAIR" \/ \E d \in Covered(c) :
        e.start < (d + 1) * DayLength /\ d * DayLength < e.end

\* A plausible bug: an outage under way is no longer matched.
KnownUnstarted(evs, kind, at, c) ==
    {i \in DOMAIN evs : /\ evs[i].kind = kind /\ evs[i].live
                        /\ evs[i].start > at /\ InScope(evs[i], c)}

Known(evs, kind, at, c) ==
    {i \in DOMAIN evs : /\ evs[i].kind = kind /\ evs[i].live
                        /\ evs[i].end > at /\ InScope(evs[i], c)}

updateEvents(evs, kind, at, c, shown) ==
    planEvents(evs, Known(evs, kind, at, c), {e \in shown : e.end > at})

eventsAfter(at, c) ==
    IF ~Found(c) THEN events
    ELSE updateEvents(updateEvents(events, "REPAIR", at, c, RepairsOf(c)),
                      "SCHEDULE", at, c, mergeWindows(Shown(c)))

-----------------------------------------------------------------------------
Init ==
    /\ now = 0 /\ moves = 0
    /\ check = [t \in {} |-> 0]
    /\ request = [r \in Requests |-> Idle]
    /\ \E a \in Addresses :
         source = [address |-> a, houseState |-> "PENDING", groups |-> {}]
    /\ stored = {} /\ weekly = {} /\ events = <<>>
    /\ days = [x \in Groups \X Days |-> None]
    /\ applied = <<>> /\ told = <<>>

\* runCheck: the address the server gave, the time, what the site showed. It
\* shows no day that is over.
Check(ok, page) ==
    /\ now \notin DOMAIN check
    /\ check' = [t \in DOMAIN check \cup {now} |->
                    IF t = now
                    THEN [address |-> source.address, ok |-> ok, page |-> page]
                    ELSE check[t]]
    /\ UNCHANGED <<now, request, source, moves, rows, told>>

ReadSite(page) ==
    /\ \A d \in Days, g \in Groups : d < DayOf(now) => page.days[d][g] = None
    /\ Check(TRUE, page)

ReadFails == Check(FALSE, None)

\* A request that is over forgets what its transaction read.
End(r) == request' = [request EXCEPT ![r] = [Idle EXCEPT !.pc = "done"]]

\* ingest: the check reaches the server, again if it is sent again, and its
\* transaction begins: is the check stored, is a newer successful one?
Newer(t) == \E u \in stored : u > t /\ check[u].ok

Lookup(r) ==
    /\ r[1] \in DOMAIN check
    /\ request[r].pc = "none"
    /\ \A k \in 1..(r[2] - 1) : request[<<r[1], k>>].pc # "none"
    /\ r[2] > 1 => Cardinality({x \in Requests : x[2] > 1 /\ request[x].pc # "none"})
                      < MaxResends
    /\ IF r[1] \in stored THEN End(r)
       ELSE request' = [request EXCEPT ![r].pc = "open", ![r].newer = Newer(r[1])]
    /\ UNCHANGED <<now, check, source, moves, rows, told>>

\* A plausible bug: the row is upserted, so that a copy meets no conflict.
InsertUpserts(r) ==
    /\ request[r].pc = "open"
    /\ request' = [request EXCEPT ![r].pc = "held", ![r].before = source.houseState]
    /\ UNCHANGED <<now, check, source, moves, rows, told>>

\* The row is created (the key is held until the transaction ends, and a row
\* another request stored meanwhile ends this one); apply then reads the house.
Insert(r) ==
    /\ request[r].pc = "open"
    /\ \A k \in 1..Copies : request[<<r[1], k>>].pc # "held"
    /\ IF r[1] \in stored THEN End(r)
       ELSE request' = [request EXCEPT ![r].pc = "held",
                                       ![r].before = source.houseState]
    /\ UNCHANGED <<now, check, source, moves, rows, told>>

\* A plausible bug: compared with the group's first version.
LatestPatternFirst(g) ==
    LET of == {w \in weekly : w.group = g}
    IN  {w.pattern : w \in {v \in of : \A u \in of : u.seenAt >= v.seenAt}}

LatestPattern(g) ==
    LET of == {w \in weekly : w.group = g}
    IN  {w.pattern : w \in {v \in of : \A u \in of : u.seenAt <= v.seenAt}}

\* The patterns after check c made at `at`: a version only where the latest
\* one differs.
weeklyAfter(at, c) ==
    weekly \union {[group |-> g, seenAt |-> at, pattern |-> c.page.weekly] :
                   g \in {h \in HouseGroups(c) : LatestPattern(h) # {c.page.weekly}}}

daysAfter(c) ==
    [x \in Groups \X Days |-> IF x[1] \in Published(c, x[2])
                              THEN c.page.days[x[2]][x[1]] ELSE days[x]]

\* A day of a group the house is on appears, or an event changes.
Changes(at, c) ==
    \/ \E d \in Days : \E g \in Published(c, d) : days[<<g, d>>] = None
    \/ eventsAfter(at, c) # events

\* The rest of apply waits for the source's row, which it updates first, and
\* holds it until the commit: it is one step.  A found house's changes are told
\* after it (the message may still be lost).
Commit(r) ==
    LET at == r[1]
        c  == check[at]
    IN  /\ request[r].pc = "held"
        /\ stored' = stored \union {at}
        /\ IF c.ok /\ ~request[r].newer
           THEN /\ source' = [source EXCEPT
                     !.houseState = IF Found(c) THEN "FOUND" ELSE "NOT_FOUND",
                     !.groups = HouseGroups(c)]
                /\ weekly' = weeklyAfter(at, c)
                /\ days' = daysAfter(c)
                /\ events' = eventsAfter(at, c)
                /\ applied' = Append(applied, at)
                /\ told' = IF request[r].before = "FOUND" /\ Changes(at, c)
                           THEN Append(told, at) ELSE told
           ELSE UNCHANGED <<source, weekly, days, events, applied, told>>
        /\ End(r)
        /\ UNCHANGED <<now, check, moves>>

\* The database fails or the server stops: nothing of the transaction stays,
\* and the request is over.
\* (At any other point the request is as good as one that takes no more step.)
Abort(r) ==
    /\ request[r].pc = "held"
    /\ End(r)
    /\ UNCHANGED <<now, check, source, moves, rows, told>>

\* A plausible bug: the groups of the old address stay.
MoveKeepsGroups(a) ==
    /\ moves < MaxMoves /\ moves' = moves + 1
    /\ a # source.address
    /\ source' = [source EXCEPT !.address = a, !.houseState = "PENDING"]
    /\ UNCHANGED <<now, check, request, rows, told>>

\* put: a new address is to be looked up again.
Move(a) ==
    /\ moves < MaxMoves /\ moves' = moves + 1
    /\ a # source.address
    /\ source' = [address |-> a, houseState |-> "PENDING", groups |-> {}]
    /\ UNCHANGED <<now, check, request, rows, told>>

Tick ==
    /\ now < MaxTime /\ now' = now + 1
    /\ UNCHANGED <<check, request, source, moves, rows, told>>

Next ==
    \/ \E p \in Pages : ReadSite(p)
    \/ ReadFails
    \/ \E r \in Requests : Lookup(r) \/ Insert(r) \/ Commit(r)
                           \/ Abort(r)
    \/ \E a \in Addresses : Move(a)
    \/ Tick

Spec == Init /\ [][Next]_vars

-----------------------------------------------------------------------------
(* Properties.                                                             *)

\* Every variable has its type; a request holds its check's key alone, and
\* only what a check stored is applied or told.
TypeOK ==
    /\ now \in Times /\ moves \in 0..MaxMoves
    /\ DOMAIN check \subseteq Times /\ stored \subseteq DOMAIN check
    /\ \A r \in Requests :
         /\ request[r].pc \in {"none", "open", "held", "done"}
         /\ request[r].newer \in BOOLEAN
         /\ request[r].before \in {"PENDING", "FOUND", "NOT_FOUND"}
    /\ source.address \in Addresses /\ source.groups \subseteq Groups
    /\ source.groups # {} => source.houseState = "FOUND"
    /\ DOMAIN days = Groups \X Days
    /\ \A i \in DOMAIN events : events[i].start < events[i].end
    /\ Range(told) \subseteq Range(applied) /\ Range(applied) \subseteq stored

\* However often a check is sent, and though its copies be handled at once
\* (outage-checks.service.ts:46 "a re-sent one (same time) is stored once"),
\* it is applied once and the household told of it once; the first check ever
\* applied is the baseline and tells nothing (:114-115).
OnceEach ==
    /\ IsInjective(applied) /\ IsInjective(told)
    /\ applied # <<>> => Head(applied) \notin Range(told)

\* From the moment of the check last applied, the live events are exactly what
\* that check showed: every slot of every day it shows, and the repair, though
\* the events were matched to ones of other checks, and in any order.
LiveAt(h, st) == \E i \in DOMAIN events :
    LET e == events[i]
    IN  e.live /\ e.kind = "SCHEDULE" /\ e.status = st /\ e.start <= h /\ h < e.end

EventsFollowLastApplied ==
    applied # <<>> =>
        LET at == Last(applied)
            c  == check[at]
        IN  Found(c) =>
              /\ \A d \in Covered(c), st \in Statuses : \A h \in Slots(d) :
                    h >= at => (LiveAt(h, st) <=> <<h, st>> \in Shown(c))
              /\ {e \in Range(events) : e.live /\ e.kind = "REPAIR" /\ e.end > at}
                    = {e \in RepairsOf(c) : e.end > at}

\* Two live events of one kind and status that are both still to end do not
\* overlap: an outage seen again, moved, split or joined stays one event
\* (event-matching.ts:2-4).
NoDoubleBooking ==
    \A i, j \in DOMAIN events :
        /\ i # j /\ events[i].live /\ events[j].live
        /\ events[i].kind = events[j].kind /\ events[i].status = events[j].status
        /\ \A k \in DOMAIN applied : events[i].end > applied[k] /\ events[j].end > applied[k]
        => ~Overlap(events[i], events[j])

\* While no check was applied after a newer one, the versions of a group's
\* weekly pattern alternate: one is stored only when the pattern changes
\* (outage-checks.service.ts:26).
InOrder == \A i, j \in DOMAIN applied : i < j => applied[i] < applied[j]

PatternsChange ==
    InOrder => \A v, w \in weekly :
        /\ v.group = w.group /\ v.seenAt < w.seenAt
        /\ \A u \in weekly : u.group = v.group => u.seenAt <= v.seenAt \/ w.seenAt <= u.seenAt
        => v.pattern # w.pattern

\* outage-sources.service.ts:54-55 "A new address is looked up again by the
\* reader, so its groups are cleared until then": the groups of a house that
\* is found are its address's.
GroupsAreOfTheAddress ==
    source.houseState = "FOUND" => source.groups = GroupsOf[source.address]

\* outage-checks.service.ts:236-237 "The check speaks only for the days it
\* shows: events on other days stay as they were": the slots of a day the
\* applied check does not show keep their events.
OtherDaysKept ==
    [][\A at \in Times : applied' = Append(applied, at) =>
          \A d \in Days \ Covered(check[at]), st \in Statuses : \A h \in Slots(d) :
              LiveAt(h, st) => LiveAt(h, st)']_vars

=============================================================================
