---------------------------- MODULE SettingsForm ----------------------------
(***************************************************************************)
(* The form of an inverter's settings in the web app                        *)
(* (pages/InverterSettings.tsx, settings/settingsForm.ts, settingsRules.ts) *)
(* against the server, which others use too.                                *)
(*                                                                          *)
(* Two settings, "low" and "high", are bound by one rule, that low be less  *)
(* than high.  The form holds the text of each; what differs from the last  *)
(* reading it was given is a change.  A reload of the page's registers and  *)
(* the button to refresh both read again and put the form back.             *)
(***************************************************************************)
EXTENDS Integers, FiniteSets

CONSTANTS
    Numbers,        \* what a setting can be; a text that is none is Blank
    FormReads,      \* bound of the readings asked for
    FormWrites,     \* bound of the writes
    FormEdits,      \* bound of the edits
    FormOthers      \* bound of the changes others make

ASSUME FormConstants ==
    Numbers \subseteq Nat \ {0} /\ {FormReads, FormWrites, FormEdits, FormOthers} \subseteq Nat

VARIABLES
    held,       \* what the inverter holds
    serverHas,  \* the reading the server holds in its cache
    snapshot,   \* the reading the form was last given
    form,       \* the text of each setting
    typed,      \* history: what the user typed since the form was put back
    dialog,     \* "none", "review", "writing", "done" or "error"
    sent,       \* the changes of the write under way, then those of them that did not stick
    answer,     \* its answer: [was, values], "refused", "failed" or "read" back
    asked,      \* readings asked for: [id, for, live, values]
    checked,    \* history: what the server checked the write against
    reviewed,   \* history: the reading shown when the review was opened
    spent       \* counts of the bounds: [reads, writes, edits, others]

formVars == <<held, serverHas, snapshot, form, typed, dialog, sent, answer, asked,
              checked, reviewed, spent>>

Fields == {"low", "high"}
BlankText == 0
NoReading == [f \in Fields |-> BlankText]
NoAnswer == [was |-> "none", values |-> NoReading]

InitForm ==
    /\ held \in {v \in [Fields -> Numbers] : v.low < v.high} /\ serverHas = held
    /\ snapshot = NoReading /\ form = NoReading /\ typed = NoReading
    /\ dialog = "none" /\ sent = NoReading /\ answer = NoAnswer
    /\ asked = {[id |-> 0, for |-> "page", live |-> TRUE, values |-> NoReading]}
    /\ checked = NoReading /\ reviewed = NoReading
    /\ spent = [reads |-> 0, writes |-> 0, edits |-> 0, others |-> 0]

Spend(what, bound) == spent[what] < bound /\ spent' = [spent EXCEPT ![what] = @ + 1]

-----------------------------------------------------------------------------
(* collectChanges and checkSettings.                                        *)

\* The settings edited, as numbers; BlankText where a setting is as it was.
ChangesOf(text, original) ==
    [f \in Fields |-> IF text[f] = original[f] THEN BlankText ELSE text[f]]
Edited == {f \in Fields : form[f] # snapshot[f]}

\* A rule none of whose settings is changed, or one of whose values is
\* missing, cannot fail.
Breaks(current, changes) ==
    LET value(f) == IF changes[f] # BlankText THEN changes[f] ELSE current[f]
    IN /\ changes # NoReading
       /\ BlankText \notin {value("low"), value("high")}
       /\ value("low") >= value("high")

\* A plausible bug: a rule is checked only when all its settings are edited.
HasErrorsOfEdited == \/ \E f \in Edited : form[f] = BlankText
                     \/ Edited = Fields /\ Breaks(snapshot, ChangesOf(form, snapshot))
HasErrors == \/ \E f \in Edited : form[f] = BlankText
             \/ Breaks(snapshot, ChangesOf(form, snapshot))

-----------------------------------------------------------------------------
(* Readings, for the page and for the button.                               *)

AskAgain(for) ==
    /\ Spend("reads", FormReads)
    /\ asked' = {IF for = "page" /\ r.for = "page" THEN [r EXCEPT !.live = FALSE] ELSE r :
                   r \in asked} \union
                {[id |-> spent'.reads, for |-> for, live |-> TRUE, values |-> NoReading]}
    /\ UNCHANGED <<held, serverHas, snapshot, form, typed, dialog, sent, answer, checked, reviewed>>

\* The language changes and the registers with it: the page reads again.
ReloadPage == AskAgain("page")

\* The button is disabled while it refreshes, and behind a dialog.
RefreshForm ==
    /\ dialog = "none" /\ \A r \in asked : r.for # "refresh"
    /\ AskAgain("refresh")

\* The page's reading may come from the server's cache, the button's never.
ServeReading(r) ==
    /\ r.values = NoReading
    /\ \/ serverHas' = held
       \/ r.for = "page" /\ UNCHANGED serverHas
    /\ asked' = (asked \ {r}) \union {[r EXCEPT !.values = serverHas']}
    /\ UNCHANGED <<held, snapshot, form, typed, dialog, sent, answer, checked, reviewed, spent>>

\* A plausible bug: the new reading is put beside the form and not into it.
BesideForm(values) == snapshot' = values /\ UNCHANGED <<form, typed>>
IntoForm(values) == snapshot' = values /\ form' = values /\ typed' = NoReading

ReadingCame(r) ==
    /\ r.values # NoReading
    /\ asked' = asked \ {r}
    /\ IF r.live THEN IntoForm(r.values) ELSE UNCHANGED <<snapshot, form, typed>>
    /\ UNCHANGED <<held, serverHas, dialog, sent, answer, checked, reviewed, spent>>

ReadingFails(r) ==
    /\ asked' = asked \ {r}
    /\ UNCHANGED <<held, serverHas, snapshot, form, typed, dialog, sent, answer, checked,
                   reviewed, spent>>

-----------------------------------------------------------------------------
(* Editing and writing.                                                     *)

Edit(f, text) ==
    /\ dialog = "none" /\ snapshot # NoReading /\ text # form[f]
    /\ Spend("edits", FormEdits)
    /\ form' = [form EXCEPT ![f] = text] /\ typed' = [typed EXCEPT ![f] = text]
    /\ UNCHANGED <<held, serverHas, snapshot, dialog, sent, answer, asked, checked, reviewed>>

Discard ==
    /\ dialog = "none" /\ Edited # {}
    /\ IntoForm(snapshot)
    /\ UNCHANGED <<held, serverHas, dialog, sent, answer, asked, checked, reviewed, spent>>

\* Also to try again what failed or did not stick.
Review ==
    /\ \/ dialog = "none" /\ Edited # {} /\ ~HasErrors
       \/ dialog = "error" \/ (dialog = "done" /\ sent # NoReading)
    /\ dialog' = "review" /\ reviewed' = snapshot /\ sent' = NoReading
    /\ UNCHANGED <<held, serverHas, snapshot, form, typed, answer, asked, checked, spent>>

CloseDialog ==
    /\ dialog \in {"review", "done", "error"} /\ dialog' = "none" /\ sent' = NoReading
    /\ UNCHANGED <<held, serverHas, snapshot, form, typed, answer, asked, checked,
                   reviewed, spent>>

\* The button of the review is not disabled: what is written are the changes
\* by now, those the client finds nothing wrong with.
WriteForm ==
    /\ dialog = "review" /\ Spend("writes", FormWrites)
    /\ dialog' = "writing"
    /\ sent' = ChangesOf(form, snapshot)
    /\ UNCHANGED <<held, serverHas, snapshot, form, typed, answer, asked, checked, reviewed>>

\* apply: checked against the cache or a fresh reading, written, read back; a
\* setting may not stick.
ServeForm ==
    /\ dialog = "writing" /\ answer = NoAnswer
    /\ checked' \in {held, serverHas}
    /\ IF sent = NoReading \/ Breaks(checked', sent)
       THEN /\ answer' = [NoAnswer EXCEPT !.was = "refused"] /\ serverHas' = checked' /\ UNCHANGED held
       ELSE /\ \E stuck \in SUBSET {f \in Fields : sent[f] # BlankText} :
                  held' = [f \in Fields |-> IF f \in stuck THEN sent[f] ELSE held[f]]
            /\ serverHas' = held' /\ answer' = [was |-> "read", values |-> held']
    /\ UNCHANGED <<snapshot, form, typed, dialog, sent, asked, reviewed, spent>>

\* The link fails on the way: some settings may be written all the same.
FormFails ==
    /\ dialog = "writing" /\ answer = NoAnswer
    /\ answer' = [NoAnswer EXCEPT !.was = "failed"]
    /\ \E stuck \in SUBSET {f \in Fields : sent[f] # BlankText} :
          held' = [f \in Fields |-> IF f \in stuck THEN sent[f] ELSE held[f]]
    /\ UNCHANGED <<serverHas, snapshot, form, typed, dialog, sent, asked, checked, reviewed, spent>>

\* What the inverter confirmed is the new baseline; what did not stick stays
\* as an edit.
WriteDone ==
    /\ answer.was = "read"
    /\ LET lost == {f \in Fields : sent[f] # BlankText /\ answer.values[f] # sent[f]} IN
       /\ snapshot' = answer.values
       /\ form' = [f \in Fields |-> IF f \in lost THEN sent[f] ELSE answer.values[f]]
       /\ typed' = [f \in Fields |-> IF f \in lost THEN sent[f] ELSE BlankText]
       /\ sent' = typed'
    /\ dialog' = "done" /\ answer' = NoAnswer
    /\ UNCHANGED <<held, serverHas, asked, checked, reviewed, spent>>

WriteError ==
    /\ answer.was \in {"refused", "failed"}
    /\ dialog' = "error" /\ answer' = NoAnswer /\ sent' = NoReading
    /\ UNCHANGED <<held, serverHas, snapshot, form, typed, asked, checked, reviewed, spent>>

\* Another member, the panel or the refresher.
OthersChange(f, v) ==
    /\ Spend("others", FormOthers)
    /\ v # held[f] /\ held' = [held EXCEPT ![f] = v]
    /\ \/ serverHas' = held' \/ UNCHANGED serverHas
    /\ UNCHANGED <<snapshot, form, typed, dialog, sent, answer, asked, checked, reviewed>>

FormNext ==
    \/ ReloadPage \/ RefreshForm
    \/ \E r \in asked : ServeReading(r) \/ ReadingCame(r) \/ ReadingFails(r)
    \/ \E f \in Fields : \/ \E text \in Numbers \union {BlankText} : Edit(f, text)
                         \/ \E v \in Numbers : OthersChange(f, v)
    \/ Discard \/ Review \/ CloseDialog \/ WriteForm
    \/ ServeForm \/ FormFails \/ WriteDone \/ WriteError

-----------------------------------------------------------------------------
Readings == [Fields -> Numbers \union {BlankText}]

(* Type correctness.                                                        *)
FormTypeOK ==
    /\ held \in [Fields -> Numbers] /\ serverHas \in [Fields -> Numbers]
    /\ {snapshot, form, typed, sent, checked, reviewed} \subseteq Readings
    /\ dialog \in {"none", "review", "writing", "done", "error"}
    /\ answer.was \in {"none", "refused", "failed", "read"} /\ answer.values \in Readings
    /\ \A r \in asked : r.for \in {"page", "refresh"} /\ r.values \in Readings

(* No setting is written that the user did not type since the form was last *)
(* put back, and none with another value, though readings come in while the *)
(* user edits, reviews and writes (InverterSettings.tsx:180-229).           *)
NothingUnasked ==
    \A f \in Fields : /\ form[f] # snapshot[f] => typed[f] = form[f]
                      /\ dialog = "review" => ChangesOf(form, snapshot)[f] \in {BlankText, typed[f]}

(* The client's check mirrors the server's (settingsRules.ts:1-8): the      *)
(* server refuses what the review let through only when it checked other    *)
(* values than those shown then, or a reading came in under the review, or  *)
(* it is tried again.                                                       *)
MirrorsServer ==
    (answer.was = "refused" /\ sent # NoReading) => (checked # reviewed \/ snapshot # reviewed \/ spent.writes > 1)
=============================================================================
