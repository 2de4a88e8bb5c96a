-------------------------- MODULE NotificationChoices --------------------------
(***************************************************************************)
(* A user's notification choices (notifications/notification-settings.ts,   *)
(* notification-settings.service.ts) and the page that shows them           *)
(* (notifications/NotificationSettings.tsx): a switch is shown at once and  *)
(* saved as a patch; the server reads the user's row, lays the patch over   *)
(* it and writes the whole; the answer replaces what is shown.              *)
(***************************************************************************)
EXTENDS Integers, FiniteSets

CONSTANTS
    Alerts,        \* NotificationKind: kinds of alerts
    Leads,         \* values outageLeadMinutes may have, or be asked for
    ValidLeads,    \* isLeadMinutes
    MaxChoices     \* bound of the choices made

ASSUME ChoiceConstants ==
    /\ Alerts # {} /\ "outageLeadMinutes" \notin Alerts
    /\ ValidLeads \subseteq Leads /\ ValidLeads # {}
    /\ MaxChoices \in Nat

VARIABLES
    row,       \* the user's NotificationSettings row; none is the empty function
    view,      \* the page: what it shows, or Unloaded
    saves,     \* saves under way: [id, patch, at, result, turn]
    counted,   \* choices made; and, for history, saves stored, and the last of
               \* them whose answer is shown
    chosen,    \* history: each choice as last stored
    trouble    \* history: a save failed, read a row another was about to write
               \* ("overtaken"), or was answered after a later one ("crossed")

choiceVars == <<row, view, saves, counted, chosen, trouble>>

Channels == {"inApp", "telegram"}
Switches == Alerts \X Channels
Choices == Switches \union ({"quietHours", "possibleOutages", "outageLeadMinutes"} \X {"of all"})
Values(c) == IF c[1] = "outageLeadMinutes" THEN Leads ELSE BOOLEAN
Valid(c) == IF c[1] = "outageLeadMinutes" THEN ValidLeads ELSE BOOLEAN

DEFAULT_SETTINGS ==
    [c \in Choices |-> IF c[1] = "outageLeadMinutes" THEN CHOOSE v \in ValidLeads : TRUE
                       ELSE c \in Switches]

\* A plausible bug: a change of one channel of a kind replaces the kind.
KindReplaced(base, patch) ==
    [c \in Choices |->
        IF c \in DOMAIN patch /\ patch[c] \in Valid(c) THEN patch[c]
        ELSE IF c \in Switches /\ \E d \in DOMAIN patch \intersect Switches : d[1] = c[1]
        THEN DEFAULT_SETTINGS[c] ELSE base[c]]
\* mergeSettings: whatever the patch does not say, or says wrong, is kept.
mergeSettings(base, patch) ==
    [c \in Choices |-> IF c \in DOMAIN patch /\ patch[c] \in Valid(c) THEN patch[c] ELSE base[c]]

\* get: a row saved before a kind existed has no choice for it.
Stored == mergeSettings(DEFAULT_SETTINGS, row)

-----------------------------------------------------------------------------
Unloaded == [c \in {} |-> TRUE]

\* Rows of before: none, or one without the newer choices and with a lead that
\* was in range once.
Lead == <<"outageLeadMinutes", "of all">>
OldRows ==
    {[c \in {} |-> TRUE]}
        \union [{Lead} -> Leads]
        \union [{<<k, "telegram">> : k \in Alerts} -> {FALSE}]

ChoicesInit ==
    /\ row \in OldRows /\ view = Unloaded /\ saves = {}
    /\ counted = [asked |-> 0, stored |-> 0, shown |-> 0]
    /\ chosen = mergeSettings(DEFAULT_SETTINGS, row) /\ trouble = {}

OpenChoices == view = Unloaded /\ view' = Stored
               /\ UNCHANGED <<row, saves, counted, chosen, trouble>>

\* set and saveLead: the page refuses a lead that is out of range.
Choose(c, value) ==
    /\ view # Unloaded /\ counted.asked < MaxChoices
    /\ value \in Valid(c) \ {view[c]}
    /\ counted' = [counted EXCEPT !.asked = @ + 1]
    /\ view' = [view EXCEPT ![c] = value]
    /\ saves' = saves \union {[id |-> counted'.asked, patch |-> [d \in {c} |-> value],
                               at |-> "sent", result |-> DEFAULT_SETTINGS, turn |-> 0]}
    /\ UNCHANGED <<row, chosen, trouble>>

With(s, t) == saves' = (saves \ {s}) \union {t}

\* update reads the row, and writes what comes of it in a later statement.
ReadRow(s) ==
    /\ s.at = "sent"
    /\ With(s, [s EXCEPT !.at = "read", !.result = mergeSettings(Stored, s.patch)])
    /\ UNCHANGED <<row, view, counted, chosen, trouble>>

WriteRow(s) ==
    /\ s.at = "read"
    /\ row' = s.result
    /\ chosen' = [c \in Choices |-> IF c \in DOMAIN s.patch THEN s.patch[c] ELSE chosen[c]]
    /\ counted' = [counted EXCEPT !.stored = @ + 1]
    /\ With(s, [s EXCEPT !.at = "stored", !.turn = counted'.stored])
    /\ trouble' = trouble \union
         (IF \E t \in saves \ {s} : t.at = "read" THEN {"overtaken"} ELSE {})
    /\ UNCHANGED view

\* A plausible bug: the answer has the change, and defaults beside it.
ShownOverDefaults(s) == mergeSettings(DEFAULT_SETTINGS, s.patch)
\* The saved settings replace what is shown when the server answers.
ShownAfter(s) == s.result

SaveAnswered(s) ==
    /\ s.at = "stored" /\ saves' = saves \ {s}
    /\ view' = ShownAfter(s)
    /\ counted' = [counted EXCEPT !.shown = s.turn]
    /\ trouble' = trouble \union (IF s.turn < counted.shown THEN {"crossed"} ELSE {})
    /\ UNCHANGED <<row, chosen>>

\* What the page showed at once stays shown, with a message.
SaveFails(s) ==
    /\ s.at \in {"sent", "stored"} /\ saves' = saves \ {s}
    /\ trouble' = trouble \union {"failed"} /\ UNCHANGED <<row, view, counted, chosen>>

ChoicesNext ==
    \/ OpenChoices
    \/ \E c \in Choices : \E value \in Values(c) : Choose(c, value)
    \/ \E s \in saves : ReadRow(s) \/ WriteRow(s) \/ SaveAnswered(s) \/ SaveFails(s)

ChoicesTypeOK ==
    /\ DOMAIN row \subseteq Choices /\ \A c \in DOMAIN row : row[c] \in Values(c)
    /\ view = Unloaded \/ (DOMAIN view = Choices /\ \A c \in Choices : view[c] \in Valid(c))
    /\ counted.asked \in 0..MaxChoices /\ trouble \subseteq {"failed", "overtaken", "crossed"}

(* Saving one choice keeps every other as it was last stored ("any part of  *)
(* the settings; the rest stays", update-notification-settings.dto.ts:11):  *)
(* an alert that was switched off stays off.  Two saves that read the row   *)
(* before either wrote it lose one of the two.                              *)
RestStays == "overtaken" \notin trouble => Stored = chosen

(* With nothing under way the page shows what is stored                     *)
(* (NotificationSettings.tsx:109).  Not after a failed save, which stays    *)
(* shown, nor after answers that arrived in another order than the saves.   *)
ShownIsStored ==
    saves = {} /\ view # Unloaded /\ trouble = {} => view = Stored
=============================================================================
