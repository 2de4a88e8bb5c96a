------------------------------- MODULE Alerts -------------------------------
(***************************************************************************)
(* The household's alerts (telegram/telegram-alerts.ts, telegram/alerts.ts):*)
(* what a reading changes, a logger that stops answering, a BMS that stops  *)
(* reporting, and the way of an alert: recorded for the Alerts page, then   *)
(* sent to the chats of the household's members.                            *)
(*                                                                          *)
(* A poll's outcome is handed over without waiting, the offline check runs  *)
(* every minute whether or not the last one is done, and each sends one     *)
(* alert after another: every step below ends at an await.  The marks are   *)
(* in memory, and a restart forgets them.                                   *)
(***************************************************************************)
EXTENDS Integers, Sequences, FiniteSets

CONSTANTS
    Loggers, Bms,   \* what may be offline: a profile's logger, its BMS devices
    Checks,         \* offline checks running at once
    MaxSpells,      \* bound of the times anything goes offline
    AlertFaults     \* bound of failed statements

ASSUME AlertsConstants ==
    /\ Loggers \intersect Bms = {} /\ IsFiniteSet(Checks)
    /\ MaxSpells \in Nat /\ AlertFaults \in Nat

Things == Loggers \union Bms

VARIABLES
    out,        \* how each thing is: "up", "down", or "long" for OFFLINE_AFTER_MS
    marks,      \* loggerDown and bmsOffline: "none", "noted" (loggers) or "reported"
    checks,     \* per offline check: [at, long, seen, todo, sends]
    returns,    \* onLogger's own sends under way: loggers that are back
    recorded,   \* history: alerts recorded of each thing: the offline ones less the others
    unsent,     \* history: things one of whose alerts was not recorded
    spells, alertFaults

alertVars == <<out, marks, checks, returns, recorded, unsent, spells, alertFaults>>

NoCheck == [at |-> "rest", long |-> {}, seen |-> {}, todo |-> {}, sends |-> {}]

AlertsInit ==
    /\ out = [x \in Things |-> "up"] /\ marks = [x \in Things |-> "none"]
    /\ checks = [c \in Checks |-> NoCheck] /\ returns = [l \in Loggers |-> 0]
    /\ recorded = [x \in Things |-> 0] /\ unsent = {}
    /\ spells = 0 /\ alertFaults = 0

AlertFault == alertFaults < AlertFaults /\ alertFaults' = alertFaults + 1

-----------------------------------------------------------------------------
(* Polls and readings.                                                      *)

\* onLogger(false): noted at the first failed poll.
LoggerFails(l) ==
    /\ out[l] = "up" /\ spells < MaxSpells /\ spells' = spells + 1
    /\ out' = [out EXCEPT ![l] = "down"] /\ marks' = [marks EXCEPT ![l] = "noted"]
    /\ UNCHANGED <<checks, returns, recorded, unsent, alertFaults>>

\* A plausible bug: a logger back before it was reported is told of, too.
TellsReturn(l) == TRUE
WasReported(l) == marks[l] = "reported"

\* onLogger(true): the mark goes at once, the alert follows.
LoggerAnswers(l) ==
    /\ out[l] # "up"
    /\ out' = [out EXCEPT ![l] = "up"] /\ marks' = [marks EXCEPT ![l] = "none"]
    /\ returns' = IF WasReported(l) THEN [returns EXCEPT ![l] = @ + 1] ELSE returns
    /\ checks' = [c \in Checks |-> [checks[c] EXCEPT !.long = @ \ {l}]]
    /\ UNCHANGED <<recorded, unsent, spells, alertFaults>>

BmsStops(d) ==
    /\ out[d] = "up" /\ spells < MaxSpells /\ spells' = spells + 1
    /\ out' = [out EXCEPT ![d] = "down"]
    /\ UNCHANGED <<marks, checks, returns, recorded, unsent, alertFaults>>

BmsReports(d) ==
    /\ out[d] # "up" /\ out' = [out EXCEPT ![d] = "up"]
    /\ UNCHANGED <<marks, checks, returns, recorded, unsent, spells, alertFaults>>

TimePasses(x) ==
    /\ out[x] = "down" /\ out' = [out EXCEPT ![x] = "long"]
    /\ UNCHANGED <<marks, checks, returns, recorded, unsent, spells, alertFaults>>

-----------------------------------------------------------------------------
(* toHousehold: the record, after which the chats are sent to; it may fail. *)
Record(x, what) ==
    recorded' = [recorded EXCEPT ![x] = IF what = "down" THEN @ + 1 ELSE @ - 1]

TellReturn(l) ==
    /\ returns[l] > 0
    /\ returns' = [returns EXCEPT ![l] = @ - 1]
    /\ \/ Record(l, "back") /\ UNCHANGED <<unsent, alertFaults>>
       \/ AlertFault /\ unsent' = unsent \union {l} /\ UNCHANGED recorded
    /\ UNCHANGED <<out, marks, checks, spells>>

-----------------------------------------------------------------------------
(* checkOffline: the loggers, then the devices as read once.                *)

\* A check starts: who is offline too long is judged by its starting time.
StartCheck(c) ==
    /\ checks[c].at = "rest"
    /\ checks' = [checks EXCEPT ![c] = [NoCheck EXCEPT !.at = "loggers", !.todo = Loggers,
                                         !.long = {l \in Loggers : out[l] = "long"}]]
    /\ UNCHANGED <<out, marks, returns, recorded, unsent, spells, alertFaults>>

Sending(c) == checks[c].sends # {}
Do(c, x, what) ==
    checks' = [checks EXCEPT ![c].todo = @ \ {x}, ![c].sends = IF what = "nothing" THEN {} ELSE {<<x, what>>}]

\* A plausible bug: nothing remembers that the alert was sent.
NotMarked(x, as) == UNCHANGED marks
Marked(x, as) == marks' = [marks EXCEPT ![x] = as]

\* A plausible bug: a device that reports again is put where a logger starts.
NoteAgain(d) == marks' = [marks EXCEPT ![d] = "noted"]
Unmark(d) == marks' = [marks EXCEPT ![d] = "none"]

(* The next logger of the map, if it is still in it and not reported.       *)
VisitLogger(c, l) ==
    /\ checks[c].at = "loggers" /\ ~Sending(c) /\ l \in checks[c].todo
    /\ IF l \in checks[c].long /\ out[l] = "long" /\ marks[l] = "noted"
       THEN Marked(l, "reported") /\ Do(c, l, "down")
       ELSE UNCHANGED marks /\ Do(c, l, "nothing")
    /\ UNCHANGED <<out, returns, recorded, unsent, spells, alertFaults>>

ReadDevices(c) ==
    /\ checks[c].at = "loggers" /\ ~Sending(c) /\ checks[c].todo = {}
    /\ checks' = [checks EXCEPT ![c] = [@ EXCEPT !.at = "devices", !.todo = Bms,
                                         !.seen = {d \in Bms : out[d] = "long"}]]
    /\ UNCHANGED <<out, marks, returns, recorded, unsent, spells, alertFaults>>

VisitBms(c, d) ==
    /\ checks[c].at = "devices" /\ ~Sending(c) /\ d \in checks[c].todo
    /\ \/ /\ d \in checks[c].seen /\ marks[d] = "none"
          /\ Marked(d, "reported") /\ Do(c, d, "down")
       \/ /\ d \notin checks[c].seen /\ marks[d] = "reported"
          /\ Unmark(d) /\ Do(c, d, "back")
       \/ /\ (d \in checks[c].seen) = (marks[d] = "reported")
          /\ UNCHANGED marks /\ Do(c, d, "nothing")
    /\ UNCHANGED <<out, returns, recorded, unsent, spells, alertFaults>>

TellHousehold(c) ==
    /\ Sending(c)
    /\ LET send == CHOOSE s \in checks[c].sends : TRUE
       IN \/ /\ Record(send[1], send[2]) /\ UNCHANGED <<unsent, alertFaults>>
             /\ checks' = [checks EXCEPT ![c].sends = {}]
          \/ \* the check ends here: what it had left waits for the next
             /\ AlertFault /\ unsent' = unsent \union {send[1]} /\ UNCHANGED recorded
             /\ checks' = [checks EXCEPT ![c] = NoCheck]
    /\ UNCHANGED <<out, marks, returns, spells>>

Finish(c) ==
    /\ checks[c].at = "devices" /\ ~Sending(c) /\ checks[c].todo = {}
    /\ checks' = [checks EXCEPT ![c] = NoCheck]
    /\ UNCHANGED <<out, marks, returns, recorded, unsent, spells, alertFaults>>

(* The server starts again: who was told what is forgotten, and a poll or a *)
(* check finds the offline anew.                                            *)
RestartAlerts ==
    /\ AlertFault
    /\ out' = [x \in Things |-> IF x \in Loggers THEN "up" ELSE out[x]]
    /\ marks' = [x \in Things |-> "none"]
    /\ checks' = [c \in Checks |-> NoCheck] /\ returns' = [l \in Loggers |-> 0]
    /\ recorded' = [x \in Things |-> 0] /\ unsent' = {}
    /\ UNCHANGED spells

CheckStep(c) ==
    \/ StartCheck(c) \/ ReadDevices(c) \/ TellHousehold(c) \/ Finish(c)
    \/ \E x \in Things : VisitLogger(c, x) \/ VisitBms(c, x)

AlertsNext ==
    \/ \E l \in Loggers : LoggerFails(l) \/ LoggerAnswers(l) \/ TellReturn(l)
    \/ \E d \in Bms : BmsStops(d) \/ BmsReports(d)
    \/ \E x \in Things : TimePasses(x)
    \/ \E c \in Checks : CheckStep(c)
    \/ RestartAlerts

-----------------------------------------------------------------------------
(* Type correctness.                                                        *)
AlertsTypeOK ==
    /\ out \in [Things -> {"up", "down", "long"}]
    /\ marks \in [Things -> {"none", "noted", "reported"}]
    /\ \A c \in Checks : /\ checks[c].at \in {"rest", "loggers", "devices"}
                         /\ checks[c].todo \subseteq Things /\ Cardinality(checks[c].sends) <= 1
    /\ returns \in [Loggers -> Nat] /\ recorded \in [Things -> Int] /\ unsent \subseteq Things
    /\ spells \in 0..MaxSpells /\ alertFaults \in 0..AlertFaults

(* With none of its alerts under way, a thing was told offline as often as  *)
(* back, once more while it is marked reported - whatever checks overlapped *)
(* and whatever changed while one waited, but for a record that failed      *)
(* (telegram-alerts.ts:66-82, 101-141).                                     *)
UnderWay(x) ==
    \/ \E c \in Checks : \E s \in checks[c].sends : s[1] = x
    \/ x \in Loggers /\ returns[x] > 0
OfflinePaired ==
    \A x \in Things \ unsent : ~UnderWay(x) =>
        recorded[x] = (IF marks[x] = "reported" THEN 1 ELSE 0)

\* The mark is not, or not yet, what the thing is (telegram-alerts.ts:98-141).
MarkBehind(x) == \/ out[x] = "long" /\ marks[x] # "reported"
                 \/ out[x] = "up" /\ marks[x] # "none"
=============================================================================
