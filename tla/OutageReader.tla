---------------------------- MODULE OutageReader -----------------------------
(***************************************************************************)
(* The outage schedule reader's loop (outage-reader/), the checks asked for *)
(* in the app (outage-sources.service.ts) and the watch that tells the      *)
(* household when no check succeeds any more (outage-availability).         *)
(*                                                                          *)
(* The reader checks on its cadence, or as soon as its poll of the server,  *)
(* once per unit of time, shows that a check was asked for.  It goes through*)
(* a browser when the site turns a plain request away and, now and then, on *)
(* purpose.  Its clock may differ from the server's.  What a check says and *)
(* what the server stores of it is the module OutageChecks.                 *)
(*                                                                          *)
(* Time passes only when the reader waits: a check takes no time, or one    *)
(* unit while it reads the site.                                            *)
(***************************************************************************)
EXTENDS Integers, FiniteSets

CONSTANTS
    LastTick,         \* bound of the clock
    ReaderFaults,     \* bound of unreachable servers, restarts and failed sends
    Skews,            \* the reader's clock minus the server's
    DayUnits,         \* units in a day
    Evening,          \* [from, to): when the next schedule is published
    Interval, EveningInterval, BlockedPause,   \* the cadence
    BrowserEvery,     \* units between two checks through the browser on purpose
    RefreshEvery,     \* STREETS_REFRESH_EVERY_MS
    StaleAfter        \* STALE_AFTER_MS

Never == -100    \* no time, earlier than any

ASSUME ReaderConstants ==
    /\ LastTick \in Nat /\ ReaderFaults \in Nat
    /\ Skews \subseteq Int /\ \A s \in Skews : s > Never
    /\ DayUnits \in Nat \ {0} /\ Evening \in [from : Nat, to : Nat]
    /\ Evening.from < Evening.to /\ Evening.to <= DayUnits
    /\ Interval \in Nat \ {0} /\ EveningInterval \in Nat \ {0}
    /\ BlockedPause \in Nat \ {0} /\ BrowserEvery \in Nat \ {0}
    /\ RefreshEvery \in Nat /\ StaleAfter \in Nat \ {0}

VARIABLES
    clock, skew,
    reader,      \* the loop: where it is, the check it makes, when it wakes
    lastBrowser, \* ReaderState.lastBrowserCheckAt, kept in a file
    row,         \* the source: enabled, refreshRequestedAt
    lastCheck, lastOk,   \* newest checkedAt stored, newest of a successful check
    watch,       \* OutageAvailability: [started, down]
    faults,
    turnedAt,    \* history: when the site last turned the reader's browser away
    hindered,    \* history: when a refresh last had a reason to wait
    announced,        \* history: what the household was last told of the schedule
    quiet,       \* history: whether a round has since changed its mark in silence
    seen         \* history: whether a round ran since what it looks at changed

outageReaderVars == <<clock, skew, reader, lastBrowser, row, lastCheck, lastOk,
                watch, faults, turnedAt, hindered, announced, quiet, seen>>
server == <<row, lastCheck, lastOk>>
heard == <<announced, quiet>>

Here == clock + skew                    \* the reader's clock

InitReader ==
    /\ clock = 0 /\ skew \in Skews
    /\ reader = [at |-> "ask", started |-> skew, checkedAt |-> skew, forced |-> FALSE,
                 blocked |-> FALSE, until |-> skew, slept |-> FALSE]
    /\ lastBrowser = Never
    /\ row = [enabled |-> TRUE, requested |-> Never]
    /\ lastCheck = Never /\ lastOk = Never
    /\ watch = [started |-> FALSE, down |-> Never - 1] /\ faults = 0
    /\ turnedAt = Never /\ hindered = Never
    /\ announced = "nothing" /\ quiet = FALSE /\ seen = FALSE

-----------------------------------------------------------------------------
(* The app.                                                                *)

\* A plausible bug: only a successful check answers.
PendingUntilOk == row.requested # Never /\ lastOk < row.requested
Pending == row.requested # Never /\ lastCheck < row.requested

\* requestRefresh: while one is pending it stands; a check just made is enough.
RequestRefresh ==
    /\ row.enabled /\ ~Pending
    /\ lastCheck = Never \/ clock - lastCheck >= RefreshEvery
    /\ row' = [row EXCEPT !.requested = clock]
    /\ UNCHANGED <<clock, skew, reader, lastBrowser, lastCheck, lastOk,
                   watch, faults, turnedAt, hindered, heard, seen>>

\* put with `enabled`: the address's side of it is in OutageChecks.
Switch ==
    /\ faults < ReaderFaults /\ faults' = faults + 1
    /\ row' = [row EXCEPT !.enabled = ~@]
    /\ hindered' = clock /\ seen' = FALSE
    /\ UNCHANGED <<clock, skew, reader, lastBrowser, lastCheck, lastOk,
                   watch, turnedAt, heard>>

-----------------------------------------------------------------------------
(* The site, as one check's requests and their retries find it: open to all,*)
(* picky (plain requests are turned away), closed to browsers too, or down; *)
(* the reader's browser may be unable to start.                             *)
Sites == [is : {"open", "picky", "closed", "down"}, browser : BOOLEAN]

PlainRead(site) == CASE site.is = "open" -> "ok" [] site.is = "down" -> "down" [] OTHER -> "turned"
BrowserRead(site) == CASE site.is \in {"open", "picky"} -> "ok"
                 [] site.is = "down" -> "down" [] OTHER -> "turned"

\* readStreet: the browser when forced or when a plain request is turned away;
\* if it cannot start, a forced check is made with plain requests after all
\* (readWithFallback) and another keeps the reason the plain one was refused.
ReadStreet(site, forced) ==
    IF ~forced /\ PlainRead(site) # "turned" THEN [kind |-> PlainRead(site), browser |-> FALSE]
    ELSE IF site.browser THEN [kind |-> BrowserRead(site), browser |-> TRUE]
    ELSE [kind |-> PlainRead(site), browser |-> FALSE]

-----------------------------------------------------------------------------
(* The reader's loop.                                                      *)

\* Inside the evening its interval, otherwise the normal one but never past the
\* start of the next evening; after a block the long pause.
MinuteOf(t) == t % DayUnits
NextEvening(t) == (t - MinuteOf(t)) + Evening.from + (IF MinuteOf(t) < Evening.from THEN 0 ELSE DayUnits)
nextCheckAt(from, blocked) ==
    IF blocked THEN from + BlockedPause
    ELSE IF MinuteOf(from) \in Evening.from..(Evening.to - 1) THEN from + EveningInterval
    ELSE IF from + Interval < NextEvening(from) THEN from + Interval ELSE NextEvening(from)

\* A plausible bug: the pause after a block is forgotten.
WaitUnblocked(blocked) ==
    reader' = [reader EXCEPT !.at = "wait", !.blocked = FALSE, !.slept = FALSE,
                             !.until = nextCheckAt(reader.started, FALSE)]

Wait(blocked) ==
    reader' = [reader EXCEPT !.at = "wait", !.blocked = blocked, !.slept = FALSE,
                             !.until = nextCheckAt(reader.started, blocked)]

Asks(started) == reader' = [reader EXCEPT !.at = "ask", !.started = started]

\* runCheck's question: unreachable or switched off, the reader waits for the
\* next check; otherwise the check's time is taken and the site read.
AskSource(answers) ==
    /\ reader.at = "ask"
    /\ \/ /\ ~answers /\ faults < ReaderFaults /\ faults' = faults + 1
          /\ hindered' = clock /\ Wait(FALSE)
       \/ /\ answers /\ ~row.enabled /\ hindered' = clock /\ Wait(FALSE) /\ UNCHANGED faults
       \/ /\ answers /\ row.enabled
          /\ reader' = [reader EXCEPT !.at = "read", !.checkedAt = Here,
                             !.forced = lastBrowser = Never \/ Here - lastBrowser >= BrowserEvery]
          /\ UNCHANGED <<faults, hindered>>
    /\ UNCHANGED <<clock, skew, lastBrowser, server, watch, turnedAt, heard, seen>>

\* The site is read and the result posted, of a failure too.  A check that was
\* not delivered is an unreachable server whatever it found; a browser check is
\* remembered once it succeeded.  A refusal counts as a block.
ReadAndReport(site, delivered) ==
    LET reading == ReadStreet(site, reader.forced)
    IN  /\ reader.at = "read"
        /\ IF delivered
           THEN /\ lastCheck' = IF lastCheck < reader.checkedAt THEN reader.checkedAt ELSE lastCheck
                /\ lastOk' = IF reading.kind = "ok" /\ lastOk < reader.checkedAt
                             THEN reader.checkedAt ELSE lastOk
                /\ UNCHANGED <<faults, hindered>>
           ELSE /\ faults < ReaderFaults /\ faults' = faults + 1 /\ hindered' = clock
                /\ UNCHANGED <<lastCheck, lastOk>>
        /\ lastBrowser' = IF reading.kind = "ok" /\ reading.browser
                          THEN reader.checkedAt ELSE lastBrowser
        /\ Wait(delivered /\ reading.kind = "turned")
        /\ turnedAt' = IF reading.kind = "turned" /\ delivered THEN clock ELSE turnedAt
        /\ seen' = FALSE
    /\ UNCHANGED <<clock, skew, row, watch, heard>>

\* waitForNextCheck, after a sleep: due, or asked for in the app; a request
\* waits while the site has the reader blocked.
Wake(answers) ==
    /\ reader.at = "wait" /\ reader.slept
    /\ answers \/ faults < ReaderFaults
    /\ IF Here >= reader.until
       THEN Asks(Here) /\ UNCHANGED <<faults, hindered>>
       ELSE IF reader.blocked
       THEN reader' = [reader EXCEPT !.slept = FALSE] /\ hindered' = clock /\ UNCHANGED faults
       ELSE IF ~answers
       THEN /\ reader' = [reader EXCEPT !.slept = FALSE]
            /\ faults' = faults + 1 /\ hindered' = clock
       ELSE /\ IF row.enabled /\ Pending THEN Asks(Here)
               ELSE reader' = [reader EXCEPT !.slept = FALSE]
            /\ UNCHANGED <<faults, hindered>>
    /\ UNCHANGED <<clock, skew, lastBrowser, server, watch, turnedAt, heard, seen>>

\* The wait is over before it began when the check took longer than its pause.
Overdue ==
    /\ reader.at = "wait" /\ ~reader.slept /\ Here >= reader.until
    /\ Asks(Here)
    /\ UNCHANGED <<clock, skew, lastBrowser, server, watch, faults, turnedAt,
                   hindered, heard, seen>>

\* The process starts again: the file is read, and a check made at once.
RestartReader ==
    /\ faults < ReaderFaults /\ faults' = faults + 1
    /\ Asks(Here) /\ hindered' = clock /\ turnedAt' = Never
    /\ UNCHANGED <<clock, skew, lastBrowser, server, watch, heard, seen>>

-----------------------------------------------------------------------------
(* The watch, a round per unit of time; its state is lost with the server.  *)

Good == IF lastOk = Never THEN 0 ELSE lastOk     \* or when the address was set
Unmarked == Never - 1
Marked == watch.down # Unmarked

\* A plausible bug: any check counts, a failed one too.
FreshAnyCheck == clock - (IF lastCheck = Never THEN 0 ELSE lastCheck) < StaleAfter
Fresh == clock - Good < StaleAfter

\* check: a source that is off is forgotten; the first round tells nothing of
\* what it finds.  A mark is made, or taken away, before the message is sent,
\* and a send that fails is not made again.
Watch(sent) ==
    /\ faults' = IF sent THEN faults ELSE faults + 1
    /\ seen' = TRUE
    /\ LET Marks(down) == watch' = [started |-> TRUE, down |-> down]
           Says(message, said) == IF said THEN announced' = message /\ quiet' = FALSE
                                          ELSE quiet' = TRUE /\ UNCHANGED announced
       IN  \/ /\ ~row.enabled /\ sent /\ Marks(Unmarked)
              /\ announced' = "nothing" /\ quiet' = FALSE
           \/ /\ row.enabled /\ ~Fresh /\ ~Marked
              /\ sent \/ (watch.started /\ faults < ReaderFaults)
              /\ Marks(Good) /\ Says("unavailable", sent /\ watch.started)
           \/ /\ row.enabled /\ Fresh /\ Marked
              /\ sent \/ faults < ReaderFaults
              /\ Marks(Unmarked) /\ Says("back", sent)
           \/ /\ row.enabled /\ sent /\ (Fresh <=> ~Marked)
              /\ Marks(watch.down) /\ UNCHANGED heard
    /\ UNCHANGED <<clock, skew, reader, lastBrowser, server, turnedAt, hindered>>

RestartServer ==
    /\ faults < ReaderFaults /\ faults' = faults + 1
    /\ watch' = [started |-> FALSE, down |-> Unmarked]
    /\ quiet' = TRUE /\ seen' = FALSE
    /\ UNCHANGED <<clock, skew, reader, lastBrowser, server, turnedAt, hindered, announced>>

-----------------------------------------------------------------------------
\* A unit of time: the reader sleeps it, or reads the site through it.
ReaderTick ==
    /\ clock < LastTick /\ clock' = clock + 1 /\ seen' = FALSE
    /\ \/ /\ reader.at = "wait" /\ ~reader.slept /\ Here < reader.until
          /\ reader' = [reader EXCEPT !.slept = TRUE] /\ UNCHANGED hindered
       \/ /\ reader.at = "read" /\ reader.checkedAt = Here
          /\ UNCHANGED <<reader, hindered>>
    /\ UNCHANGED <<skew, lastBrowser, server, watch, faults, turnedAt, heard>>

ReaderNext ==
    \/ RequestRefresh \/ Switch \/ Overdue \/ RestartReader \/ RestartServer \/ ReaderTick
    \/ \E ok \in BOOLEAN : \/ AskSource(ok) \/ Wake(ok) \/ Watch(ok)
                            \/ \E site \in Sites : ReadAndReport(site, ok)

OutageReaderTypeOK ==
    /\ clock \in 0..LastTick /\ skew \in Skews /\ faults \in 0..ReaderFaults
    /\ reader.at \in {"ask", "read", "wait"}
    /\ reader.at = "read" => reader.checkedAt >= reader.started
    /\ row.enabled \in BOOLEAN /\ row.requested <= clock
    /\ lastOk <= lastCheck /\ lastBrowser <= Here /\ lastCheck <= Here
    /\ watch.started \in BOOLEAN /\ watch.down \in Int
    /\ announced \in {"nothing", "unavailable", "back"} /\ quiet \in BOOLEAN /\ seen \in BOOLEAN

(***************************************************************************)
(* A reader the site has turned away rests: until the pause is over it does *)
(* not come back, whatever is asked for in the app (wait.ts:10-14, cadence  *)
(* .ts:21-25).  A restart forgets the pause, and so does a server that      *)
(* could not be told of the block.                                          *)
(***************************************************************************)
BlockedRests ==
    reader.at = "read" /\ turnedAt # Never
        => reader.checkedAt - skew >= turnedAt + BlockedPause - 1

(***************************************************************************)
(* A check asked for in the app is answered by one made within two of the   *)
(* reader's polls, later only by what the reader's clock is behind: unless  *)
(* the reader was blocked, switched off, restarted or could not reach the   *)
(* server meanwhile (outage-sources.service.ts pending, wait.ts).           *)
(***************************************************************************)
Behind == IF skew < 0 THEN -skew ELSE 0
RefreshServed ==
    Pending /\ hindered < row.requested => clock - row.requested <= 2 + Behind

(***************************************************************************)
(* Right after a round of the watch the household knows the truth: it was   *)
(* last told "unavailable" exactly when no check has succeeded for the      *)
(* limit.  Only a silent baseline after a restart, or a message that could  *)
(* not be sent, leaves it otherwise, until the next change                  *)
(* (outage-availability.service.ts "once a source has had no successful     *)
(* check for 12 hours, and "back" when one succeeds again").                *)
(***************************************************************************)
WatchTellsTruth ==
    seen /\ ~quiet /\ row.enabled => (announced = "unavailable" <=> clock - Good >= StaleAfter)
=============================================================================
