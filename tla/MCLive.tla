------------------------------- MODULE MCLive --------------------------------
(***************************************************************************)
(* What must happen in the end, and the parts about it: the calls of a     *)
(* link, the polls of a loop, the alerts and notices a household and the   *)
(* owner are sent, the fan, the bot.  None of them changes what another    *)
(* decides by, so a run takes one, picked by the initial state, and the    *)
(* others rest.                                                            *)
(***************************************************************************)
EXTENDS LoggerLink, Polling, Alerts, ServerNotices, ServerFan, TelegramBot

Streaks == [g \in Gauges |-> 2]

OnAuto(min) == [mode |-> "AUTO", min |-> min, manual |-> 50,
                rules |-> {[above |-> 1, percent |-> 40], [above |-> 4, percent |-> 90]}]
FanChoices == {OnAuto(0), OnAuto(60), [OnAuto(0) EXCEPT !.mode = "MANUAL"],
               [OnAuto(0) EXCEPT !.mode = "FIRMWARE"],
               [OnAuto(0) EXCEPT !.rules = {[above |-> 1, percent |-> 90], [above |-> 4, percent |-> 40]}]}
\* server-fan.service.ts DEFAULT_FAN_SETTINGS, with the model's degrees.
FanDefault == [mode |-> "FIRMWARE", min |-> 0, manual |-> 100,
               rules |-> {[above |-> 4, percent |-> 100]}]

VARIABLE part

serverVars == <<alertVars, noticeVars, fanVars, botVars>>

LiveInit ==
    /\ part \in {"link", "polling", "alerts", "notices", "fan", "bot"}
    /\ Init /\ AlertsInit /\ InitFan /\ InitBot
    /\ PollingInit /\ (part # "polling" => everPaired = {})
    /\ NoticesInit /\ (part # "notices" => ~quiet)

LiveNext ==
    /\ UNCHANGED part
    /\ \/ part = "link" /\ Next /\ UNCHANGED <<pollingVars, serverVars>>
       \/ part = "polling" /\ PollingNext /\ UNCHANGED <<vars, serverVars>>
       \/ part = "alerts" /\ AlertsNext
             /\ UNCHANGED <<vars, pollingVars, noticeVars, fanVars, botVars>>
       \/ part = "notices" /\ NoticesNext
             /\ UNCHANGED <<vars, pollingVars, alertVars, fanVars, botVars>>
       \/ part = "fan" /\ FanNext
             /\ UNCHANGED <<vars, pollingVars, alertVars, noticeVars, botVars>>
       \/ part = "bot" /\ BotNext
             /\ UNCHANGED <<vars, pollingVars, alertVars, noticeVars, fanVars>>

(* Each part, while it is the one that runs: promise callbacks run, timers  *)
(* and intervals tick, statements and sends return, loops go round.  The    *)
(* logger, the database's failures and the owner owe nothing.               *)
LiveFairness ==
    /\ \A t \in Tasks : /\ WF_vars(part = "link" /\ Start(t))
                        /\ WF_vars(part = "link" /\ Connect(t))
                        /\ WF_vars(part = "link" /\ ExchangeFail(t))
    /\ \A c \in Syncs : /\ WF_pollingVars(part = "polling" /\ (Query(c) \/ QueryFails(c)))
                        /\ WF_pollingVars(part = "polling" /\ Apply(c))
    /\ \A i \in JobIds :
          WF_pollingVars(part = "polling" /\ \E j \in jobs : j.id = i /\ JobStep(j))
    /\ \A p \in Profiles : WF_pollingVars(part = "polling" /\ PollTick(p))
    /\ \A c \in Checks : WF_alertVars(part = "alerts" /\ CheckStep(c))
    /\ \A l \in Loggers : WF_alertVars(part = "alerts" /\ TellReturn(l))
    /\ \A h \in Handlers : WF_noticeVars(part = "notices" /\ HandlerStep(h))
    /\ \A c \in Checkers : WF_noticeVars(part = "notices" /\ CheckerStep(c))
    /\ WF_fanVars(part = "fan" /\ Reports) /\ WF_fanVars(part = "fan" /\ ApplyFan)
    /\ WF_botVars(part = "bot" /\ Handle)

LiveSpec ==
    LiveInit /\ [][LiveNext]_<<part, vars, pollingVars, serverVars>> /\ LiveFairness

(* The alerts' types, and that a thing is told offline and back in turn     *)
(* (telegram-alerts.ts:66-141).                                             *)
AlertsPaired == part = "alerts" => AlertsTypeOK /\ OfflinePaired

(* The notices' types, and that the agent is told silent and back in turn   *)
(* (server-alerts.service.ts:129-174).                                      *)
NoticesPaired == part = "notices" => NoticesTypeOK /\ SilencePaired

(* Updates are kept until handled, a code links one chat, an evening brings *)
(* one summary (telegram-bot.ts:483-504, telegram-links.service.ts:53-70,   *)
(* telegram-summary.ts:71-104).                                             *)
BotPromises == part = "bot" => BotTypeOK /\ NoneDropped /\ CodeOnce /\ SummaryOnce

Behind ==
    CASE part = "alerts" -> \E x \in Things : MarkBehind(x)
      [] part = "notices" -> QuietUnnoticed
      [] part = "fan" -> SpeedUnreached
      [] part = "bot" -> Untaken # {}
      [] OTHER -> FALSE

(* Once faults and changes are over, what is known follows what is: who is  *)
(* marked offline, whether the agent is silent, the speed the owner fixed,  *)
(* and every update is taken (telegram-alerts.ts:98-141,                    *)
(* server-alerts.service.ts:156-174, server-agent/main.ts:64-106,           *)
(* telegram-bot.ts:483-504).                                                *)
CaughtUp == <>[]~Behind
==============================================================================
