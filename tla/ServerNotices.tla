--------------------------- MODULE ServerNotices ---------------------------
(***************************************************************************)
(* The notices about the host: server-monitor/server-alerts.ts, which tells *)
(* them from the samples, and server-alerts.service.ts, which sends them and*)
(* notices an agent gone silent.                                            *)
(*                                                                          *)
(* A sample is handled within the agent's request.  An agent that gives up  *)
(* on a slow one reports again, and the silence is checked every minute     *)
(* whether or not the last check is done, so that handlings and checks      *)
(* overlap: each step below ends at an await.  All state is in memory and a *)
(* restart forgets it.  The notices about disks and updates, told the same  *)
(* way, are left out.                                                       *)
(***************************************************************************)
EXTENDS Integers, FiniteSets

CONSTANTS
    Gauges,         \* what a sample is judged by: heat, memory
    Streak,         \* Streak[g]: readings over the limit in a row that count
    Handlers,       \* requests handled at once
    Checkers,       \* silence checks running at once
    MaxSamples,     \* bound of the samples stored
    NoticeFaults    \* bound of restarts and failed statements

ASSUME NoticesConstants ==
    /\ IsFiniteSet(Gauges) /\ IsFiniteSet(Handlers) /\ IsFiniteSet(Checkers)
    /\ Streak \in [Gauges -> Nat \ {0}] /\ MaxSamples \in Nat /\ NoticeFaults \in Nat

VARIABLES
    known,      \* ServerAlertsService.state: per gauge [on, streak], NotKnown before a sample
    silent,     \* silentSince and silentReported: [since, reported]
    checked,    \* checkedSilence
    quiet,      \* the latest sample stored is SILENT_AFTER_MS old
    handling,   \* per handler: [at, prev, todo: notices left to send]
    checking,   \* per checker: [at, baseline, old]
    told,       \* history: silence notices recorded: [silent, back]
    undelivered,       \* history: a statement failed since the start
    samples, noticeFaults

noticeVars == <<known, silent, checked, quiet, handling, checking, told, undelivered,
                samples, noticeFaults>>

NotKnown == [g \in Gauges |-> [on |-> FALSE, streak |-> -1]]
Resting == [at |-> "rest", prev |-> NotKnown, todo |-> 0]
Idle == [at |-> "rest", baseline |-> FALSE, old |-> FALSE]
Heard == [since |-> FALSE, reported |-> FALSE]
NoneTold == [silent |-> 0, back |-> 0]

NoticesInit ==
    /\ known = NotKnown /\ silent = Heard /\ checked = FALSE /\ quiet \in BOOLEAN
    /\ handling = [h \in Handlers |-> Resting] /\ checking = [c \in Checkers |-> Idle]
    /\ told = NoneTold /\ undelivered = FALSE
    /\ samples = 0 /\ noticeFaults = 0

NoticeFault == noticeFaults < NoticeFaults /\ noticeFaults' = noticeFaults + 1

-----------------------------------------------------------------------------
(* serverAlerts: a reading is over its limit, clear of it by the margin,    *)
(* between the two, or missing.  The first sample is the baseline.          *)

Readings == {"over", "between", "clear", "missing"}

Judge(before, g, reading) ==
    LET first == before.streak = -1
        streak == IF reading # "over" THEN 0
                  ELSE IF first \/ before.streak = Streak[g] THEN Streak[g] ELSE before.streak + 1
        was == IF first THEN reading = "over" ELSE before.on
    IN [on |-> (was \/ streak = Streak[g]) /\ ~(was /\ reading = "clear"), streak |-> streak]

NoticesOf(before, after) ==
    {g \in Gauges : before[g].streak # -1 /\ before[g].on # after[g].on}

-----------------------------------------------------------------------------
(* A sample: stored, then onSample.                                         *)

\* onSample up to its first await: an agent silent until now is back.
BeginSample(h) ==
    IF silent.since /\ silent.reported
    THEN handling' = [handling EXCEPT ![h] = [Resting EXCEPT !.at = "back"]]
    ELSE handling' = [handling EXCEPT ![h] = [Resting EXCEPT !.at = "limits", !.prev = known]]

Sample(h) ==
    /\ handling[h].at = "rest" /\ samples < MaxSamples
    /\ quiet' = FALSE /\ samples' = samples + 1
    /\ BeginSample(h) /\ silent' = Heard
    /\ UNCHANGED <<known, checked, checking, told, undelivered, noticeFaults>>

\* The notice of its return is recorded; the state is read before the limits.
Back(h) ==
    /\ handling[h].at = "back"
    /\ told' = [told EXCEPT !.back = @ + 1]
    /\ handling' = [handling EXCEPT ![h] = [@ EXCEPT !.at = "limits", !.prev = known]]
    /\ UNCHANGED <<known, silent, checked, quiet, checking, undelivered, samples, noticeFaults>>

Limits(h) ==
    /\ handling[h].at = "limits"
    /\ \E reading \in [Gauges -> Readings] :
          LET after == [g \in Gauges |-> Judge(handling[h].prev[g], g, reading[g])]
              toSend == Cardinality(NoticesOf(handling[h].prev, after))
          IN /\ known' = after
             /\ handling' = [handling EXCEPT ![h] =
                    IF toSend = 0 THEN Resting ELSE [Resting EXCEPT !.at = "tell", !.todo = toSend]]
    /\ UNCHANGED <<silent, checked, quiet, checking, told, undelivered, samples, noticeFaults>>

TellNotice(h) ==
    /\ handling[h].at = "tell"
    /\ handling' = [handling EXCEPT ![h] =
           IF @.todo = 1 THEN Resting ELSE [handling[h] EXCEPT !.todo = @ - 1]]
    /\ UNCHANGED <<known, silent, checked, quiet, checking, told, undelivered, samples, noticeFaults>>

\* A statement of the handling fails: the rest of its notices is lost.
HandlingFails(h) ==
    /\ handling[h].at # "rest" /\ NoticeFault
    /\ handling' = [handling EXCEPT ![h] = Resting]
    /\ undelivered' = TRUE
    /\ UNCHANGED <<known, silent, checked, quiet, checking, told, samples>>

-----------------------------------------------------------------------------
(* checkSilent.                                                             *)

GoQuiet ==
    /\ ~quiet /\ quiet' = TRUE
    /\ UNCHANGED <<known, silent, checked, handling, checking, told, undelivered, samples, noticeFaults>>

\* A plausible bug: the silence is looked for once, when the server starts.
DueOnce(c) == checking[c].at = "rest" /\ ~checked
Due(c) == checking[c].at = "rest"

Check(c) ==
    /\ Due(c)
    /\ checking' = [checking EXCEPT ![c] = [Idle EXCEPT !.at = "read", !.baseline = ~checked]]
    /\ checked' = TRUE
    /\ UNCHANGED <<known, silent, quiet, handling, told, undelivered, samples, noticeFaults>>

CheckRead(c) ==
    /\ checking[c].at = "read"
    /\ checking' = [checking EXCEPT ![c] = [@ EXCEPT !.at = "decide", !.old = quiet]]
    /\ UNCHANGED <<known, silent, checked, quiet, handling, told, undelivered, samples, noticeFaults>>

\* A plausible bug: the mark of another check is not looked at again.
UnmarkedAtStart == TRUE
Unmarked == ~silent.since

CheckDecide(c) ==
    /\ checking[c].at = "decide"
    /\ IF checking[c].old /\ Unmarked
       THEN /\ silent' = [since |-> TRUE, reported |-> ~checking[c].baseline]
            /\ checking' = [checking EXCEPT ![c] =
                   IF @.baseline THEN Idle ELSE [@ EXCEPT !.at = "tell"]]
       ELSE checking' = [checking EXCEPT ![c] = Idle] /\ UNCHANGED silent
    /\ UNCHANGED <<known, checked, quiet, handling, told, undelivered, samples, noticeFaults>>

CheckTell(c) ==
    /\ checking[c].at = "tell"
    /\ told' = [told EXCEPT !.silent = @ + 1]
    /\ checking' = [checking EXCEPT ![c] = Idle]
    /\ UNCHANGED <<known, silent, checked, quiet, handling, undelivered, samples, noticeFaults>>

CheckFails(c) ==
    /\ checking[c].at \in {"read", "tell"} /\ NoticeFault
    /\ checking' = [checking EXCEPT ![c] = Idle]
    /\ undelivered' = TRUE
    /\ UNCHANGED <<known, silent, checked, quiet, handling, told, samples>>

-----------------------------------------------------------------------------
(* The server starts again; what it had recorded is counted anew.           *)
RestartServer ==
    /\ NoticeFault
    /\ known' = NotKnown /\ silent' = Heard /\ checked' = FALSE
    /\ handling' = [h \in Handlers |-> Resting] /\ checking' = [c \in Checkers |-> Idle]
    /\ told' = NoneTold /\ undelivered' = FALSE
    /\ UNCHANGED <<quiet, samples>>

NoticesNext ==
    \/ \E h \in Handlers : Sample(h) \/ Back(h) \/ Limits(h) \/ TellNotice(h) \/ HandlingFails(h)
    \/ \E c \in Checkers : Check(c) \/ CheckRead(c) \/ CheckDecide(c) \/ CheckTell(c) \/ CheckFails(c)
    \/ GoQuiet \/ RestartServer

\* The interval runs checks for ever, and each handling and check ends.
HandlerStep(h) == Back(h) \/ Limits(h) \/ TellNotice(h)
CheckerStep(c) == Check(c) \/ CheckRead(c) \/ CheckDecide(c) \/ CheckTell(c)

-----------------------------------------------------------------------------
(* Type correctness.                                                        *)
NoticesTypeOK ==
    /\ \A g \in Gauges : known[g].on \in BOOLEAN /\ known[g].streak \in -1..Streak[g]
    /\ silent \in [since : BOOLEAN, reported : BOOLEAN] /\ silent.reported => silent.since
    /\ checked \in BOOLEAN /\ quiet \in BOOLEAN /\ undelivered \in BOOLEAN
    /\ \A h \in Handlers : handling[h].at \in {"rest", "back", "limits", "tell"}
    /\ \A c \in Checkers : checking[c].at \in {"rest", "read", "decide", "tell"}
    /\ told.silent \in Nat /\ told.back \in Nat
    /\ samples \in 0..MaxSamples /\ noticeFaults \in 0..NoticeFaults

(* Each silence told is answered by one notice of the agent's return, and   *)
(* none without: with nobody at work and no notice lost, as many were told  *)
(* of as ended, and one more while the agent is reported silent - overlapping*)
(* checks and handlings or not (server-alerts.service.ts:129-140, 165-174). *)
SilencePaired ==
    (/\ ~undelivered /\ \A h \in Handlers : handling[h].at \in {"rest", "limits", "tell"}
     /\ \A c \in Checkers : checking[c].at # "tell")
    => told.silent = told.back + (IF silent.reported THEN 1 ELSE 0)

\* The agent is silent and not, or not yet, known to be (server-alerts.service.ts:156-174).
QuietUnnoticed == quiet /\ ~silent.since
=============================================================================
