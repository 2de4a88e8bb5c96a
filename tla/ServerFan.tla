----------------------------- MODULE ServerFan -----------------------------
(***************************************************************************)
(* The host's fan, run by the server agent as the server's owner sets it    *)
(* (server-agent/main.ts, fan/*.ts, server-monitor/server-fan.service.ts).  *)
(*                                                                          *)
(* Each cycle the agent reports a sample; the answer carries the owner's    *)
(* settings, and the agent sets the fan from the settings it knows and the  *)
(* sample's hottest temperature.  Handing the fan over and giving it a speed*)
(* are writes to files of the driver, two of them for a speed, and each may *)
(* fail.                                                                    *)
(***************************************************************************)
EXTENDS Integers, FiniteSets

CONSTANTS
    Temps,          \* temperatures the hottest sensor may show
    Offers,        \* settings the owner may choose: [mode, min, manual, rules]
    DefaultFanSettings,
    Steps,          \* SERVER_AGENT_FAN_STEPS: the fan's speeds, off included
    Hysteresis,     \* HYSTERESIS_C
    FanMaxChanges,  \* bound of the owner's changes
    FanMaxFaults    \* bound of failed reports, failed writes and agent restarts

ASSUME FanConstants ==
    /\ Temps \subseteq Nat /\ Hysteresis \in Nat /\ Steps \in Nat /\ Steps >= 2
    /\ FanMaxChanges \in Nat /\ FanMaxFaults \in Nat
    /\ \A s \in Offers \union {DefaultFanSettings} :
          /\ s.mode \in {"FIRMWARE", "AUTO", "MANUAL"} /\ s.min \in 0..100 /\ s.manual \in 0..100
          /\ \A r \in s.rules : r.above \in Nat /\ r.percent \in 0..100
          /\ \A r, q \in s.rules : r.above = q.above => r = q

VARIABLES
    chosen,     \* the settings the server stores
    agent,      \* the agent: [at, settings, temp, last, manual, reported]
    fan,        \* the device: [by, level]
    ran,        \* history: the settings and target of the last write that went through
    fanChanges, fanFaults

fanVars == <<chosen, agent, fan, ran, fanChanges, fanFaults>>

Unknown == -99   \* no temperature, no rule
NoSettings == [mode |-> "none"]
Firmware == [mode |-> "firmware"]
NoTarget == [mode |-> "none"]
Manual(percent, rule) == [mode |-> "manual", percent |-> percent, rule |-> rule]
HeldRule(target) == IF target.mode = "manual" THEN target.rule ELSE Unknown

-----------------------------------------------------------------------------
(* fanTarget: the speed for a temperature, given the last target.           *)

\* The rule of highest threshold the temperature is above, none as {}.
RuleFor(rules, temp) ==
    {r \in rules : temp > r.above /\ \A q \in rules : temp > q.above => q.above <= r.above}

AtRule(s, rule) ==
    IF rule = {} THEN Manual(s.min, Unknown)
    ELSE LET r == CHOOSE r \in rule : TRUE
         IN Manual(IF r.percent > s.min THEN r.percent ELSE s.min, r.above)

\* A plausible bug: the speed follows the temperature at once.
fanTargetAtOnce(s, temp, last) ==
    CASE s.mode = "FIRMWARE" -> Firmware
      [] s.mode = "MANUAL" -> Manual(s.manual, Unknown)
      [] s.mode = "AUTO" /\ temp = Unknown -> Manual(100, Unknown)
      [] OTHER -> AtRule(s, RuleFor(s.rules, temp))

\* A plausible bug: without a temperature no rule holds, and the fan idles.
fanTargetUnread(s, temp, last) ==
    CASE s.mode = "FIRMWARE" -> Firmware
      [] s.mode = "MANUAL" -> Manual(s.manual, Unknown)
      [] s.mode = "AUTO" /\ temp = Unknown -> Manual(s.min, Unknown)
      [] OTHER -> AtRule(s, RuleFor(s.rules, temp))

fanTarget(s, temp, last) ==
    CASE s.mode = "FIRMWARE" -> Firmware
      [] s.mode = "MANUAL" -> Manual(s.manual, Unknown)
      [] s.mode = "AUTO" /\ temp = Unknown -> Manual(100, Unknown)
      [] OTHER ->
           LET next == RuleFor(s.rules, temp)
               held == {r \in s.rules : r.above = HeldRule(last)}
           IN IF \E h \in held : /\ temp > h.above - Hysteresis
                                 /\ \A r \in next : r.above < h.above
              THEN AtRule(s, held) ELSE AtRule(s, next)

\* levelOf: the nearest of the fan's speeds.
levelOf(percent) == (2 * percent * (Steps - 1) + 100) \div 200

-----------------------------------------------------------------------------
(* The owner and the agent.                                                 *)

NewAgent == [at |-> "report", settings |-> NoSettings, temp |-> Unknown,
             last |-> NoTarget, manual |-> FALSE, reported |-> "firmware"]

InitFan ==
    /\ chosen = DefaultFanSettings
    /\ agent = NewAgent
    /\ fan = [by |-> "firmware", level |-> 0]
    /\ ran = [settings |-> NoSettings, target |-> NoTarget]
    /\ fanChanges = 0 /\ fanFaults = 0

Put(s) ==
    /\ fanChanges < FanMaxChanges /\ fanChanges' = fanChanges + 1
    /\ chosen' = s
    /\ UNCHANGED <<agent, fan, ran, fanFaults>>

NoFanFault == UNCHANGED fanFaults
FanFault == fanFaults < FanMaxFaults /\ fanFaults' = fanFaults + 1

\* A plausible bug: the settings the agent started with are kept.
Taken(answer) == IF agent.settings = NoSettings THEN answer ELSE agent.settings
AnswerAgent(answer) == answer

(* One report of the cycle: answered with the settings stored, or not.      *)
Report(temp) ==
    /\ agent.at = "report"
    /\ \/ /\ agent' = [agent EXCEPT !.at = "apply", !.temp = temp, !.settings = AnswerAgent(chosen)]
          /\ NoFanFault
       \/ /\ agent' = [agent EXCEPT !.at = "apply", !.temp = temp]
          /\ FanFault
    /\ UNCHANGED <<chosen, fan, ran, fanChanges>>

(* apply: what the fan is written, and what the agent remembers of it.      *)
ApplyNone ==
    /\ agent.at = "apply" /\ agent.settings = NoSettings
    /\ agent' = [agent EXCEPT !.at = "report", !.reported = "firmware"]
    /\ UNCHANGED <<chosen, fan, ran, fanChanges, fanFaults>>

Target == fanTarget(agent.settings, agent.temp, agent.last)

ApplyFirmware ==
    /\ agent.at = "apply" /\ agent.settings # NoSettings /\ Target.mode = "firmware"
    /\ agent' = [agent EXCEPT !.at = "report", !.last = Target, !.manual = FALSE,
                              !.reported = "firmware"]
    /\ fan' = IF agent.manual THEN [fan EXCEPT !.by = "firmware"] ELSE fan
    /\ ran' = [settings |-> agent.settings, target |-> Target]
    /\ UNCHANGED <<chosen, fanChanges, fanFaults>>

ApplySpeed ==
    /\ agent.at = "apply" /\ agent.settings # NoSettings /\ Target.mode = "manual"
    /\ agent' = [agent EXCEPT !.at = "report", !.last = Target, !.manual = TRUE,
                              !.reported = "manual"]
    /\ fan' = [by |-> "agent", level |-> levelOf(Target.percent)]
    /\ ran' = [settings |-> agent.settings, target |-> Target]
    /\ UNCHANGED <<chosen, fanChanges, fanFaults>>

(* A write fails: the release, the first write of a speed or its second.    *)
ApplyFails ==
    /\ agent.at = "apply" /\ agent.settings # NoSettings
    /\ Target.mode = "manual" \/ agent.manual
    /\ FanFault
    /\ agent' = [agent EXCEPT !.at = "report", !.last = NoTarget, !.reported = "error"]
    /\ \/ UNCHANGED fan
       \/ Target.mode = "manual" /\ fan' = [fan EXCEPT !.by = "agent"]
    /\ ran' = [ran EXCEPT !.target = NoTarget]
    /\ UNCHANGED <<chosen, fanChanges>>

(* The agent ends, by a signal or not, and the unit hands the fan back      *)
(* (scripts/fan-access.sh release) before it starts again.                  *)
RestartAgent ==
    /\ FanFault
    /\ agent' = NewAgent /\ fan' = [fan EXCEPT !.by = "firmware"]
    /\ ran' = [settings |-> NoSettings, target |-> NoTarget]
    /\ UNCHANGED <<chosen, fanChanges>>

ApplyFan == ApplyNone \/ ApplyFirmware \/ ApplySpeed

FanNext ==
    \/ \E s \in Offers : Put(s)
    \/ \E t \in Temps \union {Unknown} : Report(t)
    \/ ApplyFan \/ ApplyFails \/ RestartAgent

\* The agent's loop never stops: it reports, then applies, every cycle.
Reports == \E t \in Temps \union {Unknown} : Report(t)

-----------------------------------------------------------------------------
(* Type correctness.                                                        *)
FanTypeOK ==
    /\ chosen \in Offers \union {DefaultFanSettings}
    /\ agent.at \in {"report", "apply"} /\ agent.manual \in BOOLEAN
    /\ agent.settings \in Offers \union {DefaultFanSettings, NoSettings}
    /\ agent.temp \in Temps \union {Unknown}
    /\ agent.reported \in {"firmware", "manual", "error"}
    /\ fan.by \in {"firmware", "agent"} /\ fan.level \in 0..(Steps - 1)
    /\ fanChanges \in 0..FanMaxChanges /\ fanFaults \in 0..FanMaxFaults

\* The owner's rules ask no less of a hotter machine; nothing holds them to it.
Rising(s) == \A r, q \in s.rules : r.above < q.above => r.percent <= q.percent

(* Under AUTO the agent that reports a speed runs the fan no slower than the*)
(* owner's minimum and, if the rules rise, than every rule the temperature  *)
(* is above asks ("at least percent %"), and at full speed when no          *)
(* temperature could be read (fan-control.ts:6-10, 33-41).                  *)
FastEnough ==
    (agent.at = "report" /\ agent.reported = "manual" /\ agent.settings.mode = "AUTO") =>
        /\ fan.by = "agent"
        /\ IF agent.temp = Unknown THEN fan.level = Steps - 1
           ELSE /\ fan.level >= levelOf(agent.settings.min)
                /\ Rising(agent.settings) => \A r \in agent.settings.rules :
                       agent.temp > r.above => fan.level >= levelOf(r.percent)

\* "A rule is left only 3 degrees below its threshold" (README.md:471): with
\* settings and sensors as they were, the fan slows only once the temperature
\* is that far below the rule in force, or for a hotter rule that asks less
\* (fan-control.ts:44-55).
SlowsInTime ==
    (/\ ran'.settings = ran.settings /\ fan'.level < fan.level
     /\ ran.target.mode = "manual" /\ ran.target.rule # Unknown /\ agent.temp # Unknown)
    => \/ agent.temp <= ran.target.rule - Hysteresis
       \/ ~Rising(ran.settings) /\ ran'.target.rule > ran.target.rule

(* The fan is fast enough after every step, and slows only when the rule it *)
(* follows is left behind (fan-control.ts:24-57, fan-controller.ts:31-69).  *)
FanKept == [][FanTypeOK' /\ FastEnough' /\ SlowsInTime]_fanVars

\* A fixed speed the owner chose is not, or not yet, reached, whatever reports
\* and writes failed (main.ts:76, 94).
SpeedUnreached ==
    chosen.mode = "MANUAL" /\ ~(fan.by = "agent" /\ fan.level = levelOf(chosen.manual))
=============================================================================
