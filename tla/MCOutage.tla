------------------------------- MODULE MCOutage ------------------------------
(***************************************************************************)
(* Outages: the checks as the server applies them, the reader that makes   *)
(* them and the watch over it, and the reminders of what they left.  Each  *)
(* has a clock of its own, so a run takes one of them, picked by the       *)
(* initial state, and the others rest.                                     *)
(***************************************************************************)
EXTENDS MCOutageChecks, MCOutageReminders, OutageReader, SiteCheck, WallClock

\* The reader's clock is behind the server's, or ahead of it.
BehindOrAhead == {-1, 1}
EveningHours  == [from |-> 2, to |-> 3]

\* Six hours, of which the third is skipped or run twice: every status there,
\* beside hours of either kind, whole and in part.
AboutTheJump ==
    {[h \in 0..5 |-> CASE h = 0 -> "no" [] h = 1 -> before [] h = 2 -> at_jump
                        [] h = 3 -> after [] OTHER -> "yes"] :
        before, after \in {"yes", "no", "second", "mfirst"},
        at_jump \in {"yes", "no", "first", "second", "maybe", "mfirst", "msecond", "unknown"}}

VARIABLE part

OutageInit ==
    /\ part \in {"checks", "reader", "site", "clock", "reminders"}
    /\ Init /\ (part # "checks" => source.address = "home")
    /\ InitReader /\ (part # "reader" => skew = 1)
    /\ InitSite
    /\ ClockInit /\ (part # "clock" => zone = "neither" /\ slots = CHOOSE s \in ClockSlots : TRUE)
    /\ InitReminders /\ (part # "reminders" => weeks = {CHOOSE w \in [AllDays -> DayPatterns] : TRUE})

OutageNext ==
    /\ UNCHANGED part
    /\ \/ part = "checks" /\ Next /\ UNCHANGED <<outageReaderVars, siteVars, clockVars, reminderVars>>
       \/ part = "reader" /\ ReaderNext /\ UNCHANGED <<vars, siteVars, clockVars, reminderVars>>
       \/ part = "site" /\ SiteNext /\ UNCHANGED <<vars, outageReaderVars, clockVars, reminderVars>>
       \/ part = "clock" /\ ClockNext /\ UNCHANGED <<vars, outageReaderVars, siteVars, reminderVars>>
       \/ part = "reminders" /\ RemindersNext /\ UNCHANGED <<vars, outageReaderVars, siteVars, clockVars>>

OutageSpec == OutageInit /\ [][OutageNext]_<<part, vars, outageReaderVars, siteVars, clockVars, reminderVars>>

(* A check, request by request, comes to what the reader's loop takes it    *)
(* for: whatever failures pass meanwhile, a site that stays as it is gives  *)
(* the result ReadStreet says, read in the browser when it says so          *)
(* (read-street.ts:25-66, run-check.ts:113-133).                            *)
CameTo == [kind |-> CASE visit.result = "ok" -> "ok"
                     [] visit.result \in TurnedAway -> "turned" [] OTHER -> "down",
          browser |-> visit.used]
ReadsAsPromised ==
    visit.at = "report" /\ site.is # "erratic"
        => LET promised == ReadStreet(site, visit.forced)
           IN  /\ CameTo.kind = promised.kind
               /\ promised.kind = "ok" => CameTo.browser = promised.browser

(* The reader rests as long as it should after it was blocked, and the      *)
(* household is told "unavailable" and "back" as the checks really went     *)
(* (outage-availability.service.ts:57-96, wait.ts:15-38); and each check is *)
(* what the loop takes it for, with its browser closed and its street list  *)
(* stored.                                                                  *)
ReaderHonest ==
    /\ part = "reader" => OutageReaderTypeOK /\ BlockedRests /\ WatchTellsTruth
    /\ part = "site" => /\ SiteTypeOK /\ BrowserIsClosed /\ BrowserIsForBlocks /\ ListIsStored
                         /\ ReadsAsPromised

(* The forecast the reminders are made of is the schedule; each user is     *)
(* reminded in time of the outages asked for, and not twice of one window,  *)
(* though again of one that was confirmed after its reminder; and the       *)
(* windows the forecast is made of are the site's also on the days the      *)
(* clocks change, but for one half hour after a skipped hour that the code  *)
(* shows and its comment denies (outage-reminders.service.ts:37-156,        *)
(* forecast.ts:86-186, windows.ts:4-11, 45-127).                            *)
Reminded ==
    /\ part = "reminders" => RemindersTypeOK /\ ForecastIsSchedule /\ RemindedInTime /\ RemindedOnce
    /\ part = "clock" => WindowsAreTheSites /\ WindowsApart
==============================================================================
