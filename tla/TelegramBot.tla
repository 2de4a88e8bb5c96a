---------------------------- MODULE TelegramBot ----------------------------
(***************************************************************************)
(* The Telegram bot (telegram/telegram-bot.ts), the links of chats to       *)
(* accounts (telegram-links.service.ts) and the evening summary             *)
(* (telegram-summary.ts).                                                   *)
(*                                                                          *)
(* Telegram keeps the updates until the bot asks for later ones.  The bot   *)
(* takes a batch and handles it one by one; meanwhile accounts make codes   *)
(* and unlink in the app, and the summary goes round the linked chats.  A   *)
(* failed statement ends an update's handling and drops the batch in hand.  *)
(***************************************************************************)
EXTENDS Integers, FiniteSetsExt

CONSTANTS
    Chats, Accounts,
    Codes,          \* the codes that may be made
    MaxUpdates,     \* bound of the messages written to the bot
    MaxUnlinks,     \* bound of the unlinks in the app
    MaxEvenings,    \* bound of the evenings
    BotFaults       \* bound of failures and restarts

ASSUME BotConstants ==
    {MaxUpdates, MaxUnlinks, MaxEvenings, BotFaults} \subseteq Nat

VARIABLES
    codes,      \* the codes made: [user, live]
    links,      \* telegram_links: [chat, user]
    inbox,      \* updates Telegram keeps: [id, chat, text, code], in the order of their ids
    bot,        \* the poll loop: [offset, batch, doing]
    rounds,     \* summaries under way: sets of the chats left
    sentOn, evening,
    taken,      \* history: updates the bot has started on
    uses,       \* history: chats each code linked
    summaries,  \* history: chats sent this evening's summary since the bot started
    written, unlinks, botFaults

botVars == <<codes, links, inbox, bot, rounds, sentOn, evening, taken, uses,
             summaries, written, unlinks, botFaults>>

Nothing == [id |-> 0, chat |-> "none", text |-> "none", code |-> "none"]
NewBot == [offset |-> 0, batch |-> {}, doing |-> Nothing]

InitBot ==
    /\ codes = [k \in {} |-> Nothing] /\ links = {} /\ inbox = {} /\ bot = NewBot
    /\ rounds = {} /\ sentOn = 0 /\ evening = 0
    /\ taken = {} /\ uses = [k \in Codes |-> 0] /\ summaries = {}
    /\ written = 0 /\ unlinks = 0 /\ botFaults = 0

BotFault == botFaults < BotFaults /\ botFaults' = botFaults + 1

-----------------------------------------------------------------------------
(* The app and the chats.                                                   *)

\* createCode: the user's earlier code goes.
CreateCode(u, k) ==
    /\ k \notin DOMAIN codes
    /\ codes' = [i \in DOMAIN codes \union {k} |->
                    IF i = k THEN [user |-> u, live |-> TRUE]
                    ELSE [codes[i] EXCEPT !.live = @ /\ codes[i].user # u]]
    /\ UNCHANGED <<links, inbox, bot, rounds, sentOn, evening, taken, uses, summaries,
                   written, unlinks, botFaults>>

\* Ten minutes pass before the code is used.
Lapse(k) ==
    /\ codes[k].live /\ codes' = [codes EXCEPT ![k].live = FALSE]
    /\ UNCHANGED <<links, inbox, bot, rounds, sentOn, evening, taken, uses, summaries,
                   written, unlinks, botFaults>>

UnlinkUser(u) ==
    /\ unlinks < MaxUnlinks /\ unlinks' = unlinks + 1
    /\ links' = {l \in links : l.user # u}
    /\ UNCHANGED <<codes, inbox, bot, rounds, sentOn, evening, taken, uses, summaries,
                   written, botFaults>>

\* A message, with the code it carries; a code is known once it was made.
WriteTo(c, text, code) ==
    /\ written < MaxUpdates /\ written' = written + 1
    /\ inbox' = inbox \union {[id |-> written + 1, chat |-> c, text |-> text, code |-> code]}
    /\ UNCHANGED <<codes, links, bot, rounds, sentOn, evening, taken, uses, summaries,
                   unlinks, botFaults>>

-----------------------------------------------------------------------------
(* poll: the batch from the offset on; asking for it confirms the earlier.  *)

BetweenUpdates == bot.doing = Nothing /\ bot.batch = {}

GetUpdates ==
    /\ BetweenUpdates
    /\ inbox # {}
    /\ inbox' = {u \in inbox : u.id >= bot.offset}
    /\ bot' = [bot EXCEPT !.batch = inbox']
    /\ UNCHANGED <<codes, links, rounds, sentOn, evening, taken, uses, summaries,
                   written, unlinks, botFaults>>

First(batch) == CHOOSE u \in batch : \A v \in batch : u.id <= v.id

\* A plausible bug: the whole batch is confirmed when its first update is taken.
OffsetOfBatch(batch) == Max({u.id : u \in batch}) + 1
OffsetAfter(batch) == First(batch).id + 1

Take ==
    /\ bot.doing = Nothing /\ bot.batch # {}
    /\ LET first == First(bot.batch)
       IN  /\ bot' = [offset |-> OffsetAfter(bot.batch), batch |-> bot.batch \ {first},
                      doing |-> first]
           /\ taken' = taken \union {first.id}
    /\ UNCHANGED <<codes, links, inbox, rounds, sentOn, evening, uses, summaries,
                   written, unlinks, botFaults>>

Done(b) == [b EXCEPT !.doing = Nothing]

-----------------------------------------------------------------------------
(* handleUpdate.                                                            *)

\* A plausible bug: the code is left for its ten minutes.
KeepCode(k) == UNCHANGED codes
SpendCode(k) == codes' = [codes EXCEPT ![k].live = FALSE]

(* /start CODE: linkChat in one transaction.                                *)
StartCommand ==
    LET u == bot.doing IN
    /\ u.text = "start"
    /\ IF u.code \in DOMAIN codes /\ codes[u.code].live
       THEN LET user == codes[u.code].user
            IN /\ SpendCode(u.code)
               /\ links' = {l \in links : l.chat # u.chat /\ l.user # user}
                              \union {[chat |-> u.chat, user |-> user]}
               /\ uses' = [uses EXCEPT ![u.code] = @ + 1]
       ELSE UNCHANGED <<codes, links, uses>>
    /\ bot' = Done(bot)
    /\ UNCHANGED <<inbox, rounds, sentOn, evening, taken, summaries,
                   written, unlinks, botFaults>>

StopCommand ==
    /\ bot.doing.text = "stop"
    /\ links' = {l \in links : l.chat # bot.doing.chat}
    /\ bot' = Done(bot)
    /\ UNCHANGED <<codes, inbox, rounds, sentOn, evening, taken, uses, summaries,
                   written, unlinks, botFaults>>

\* A command or a pressed button: the account is read, its card rendered and sent.
ShowCard ==
    /\ bot.doing.text = "card"
    /\ bot' = Done(bot)
    /\ UNCHANGED <<codes, links, inbox, rounds, sentOn, evening, taken, uses, summaries,
                   written, unlinks, botFaults>>

\* A statement throws: out of handleUpdate and of the loop over the batch.
UpdateFails ==
    /\ bot.doing # Nothing /\ BotFault
    /\ bot' = [Done(bot) EXCEPT !.batch = {}]
    /\ UNCHANGED <<codes, links, inbox, rounds, sentOn, evening, taken, uses, summaries,
                   written, unlinks>>

-----------------------------------------------------------------------------
(* The summary: a tick every half minute, while earlier ones may still send.*)

Dusk ==
    /\ evening < MaxEvenings /\ evening' = evening + 1
    /\ rounds = {}
    /\ summaries' = {}
    /\ UNCHANGED <<codes, links, inbox, bot, rounds, sentOn, taken, uses,
                   written, unlinks, botFaults>>

\* A plausible bug: the day is marked when its summaries are out.
MarkedAfter == UNCHANGED sentOn
MarkDay == sentOn' = evening

SendSummaries ==
    /\ evening > 0 /\ sentOn # evening
    /\ MarkDay
    /\ rounds' = rounds \union ({{l.chat : l \in links}} \ {{}})
    /\ UNCHANGED <<codes, links, inbox, bot, evening, taken, uses, summaries,
                   written, unlinks, botFaults>>

SendSummary(left, c) ==
    /\ rounds' = (rounds \ {left}) \union ({left \ {c}} \ {{}})
    /\ summaries' = summaries \union {<<c, IF \E s \in summaries : s[1] = c THEN 2 ELSE 1>>}
    /\ UNCHANGED <<codes, links, inbox, bot, sentOn, evening, taken, uses,
                   written, unlinks, botFaults>>

SummaryFails(left) ==
    /\ BotFault /\ rounds' = rounds \ {left}
    /\ UNCHANGED <<codes, links, inbox, bot, sentOn, evening, taken, uses, summaries,
                   written, unlinks>>

(* The server starts again and knows no offset and no day.                  *)
RestartBot ==
    /\ BotFault
    /\ bot' = NewBot /\ rounds' = {} /\ sentOn' = 0 /\ summaries' = {}
    /\ UNCHANGED <<codes, links, inbox, evening, taken, uses, written, unlinks>>

BotNext ==
    \/ \E u \in Accounts : UnlinkUser(u) \/ \E k \in Codes : CreateCode(u, k)
    \/ \E k \in DOMAIN codes : Lapse(k)
    \/ \E c \in Chats : \/ \E text \in {"stop", "card"} : WriteTo(c, text, "none")
                        \/ \E k \in DOMAIN codes : WriteTo(c, "start", k)
    \/ GetUpdates \/ Take \/ StartCommand \/ StopCommand \/ ShowCard \/ UpdateFails
    \/ Dusk \/ SendSummaries
    \/ \E left \in rounds : SummaryFails(left) \/ \E c \in left : SendSummary(left, c)
    \/ RestartBot

\* The loop of the bot: it never ends, and what it awaits comes back.
Handle == GetUpdates \/ Take \/ StartCommand \/ StopCommand \/ ShowCard

-----------------------------------------------------------------------------
(* Type correctness.                                                        *)
BotTypeOK ==
    /\ DOMAIN codes \subseteq Codes
    /\ \A k \in DOMAIN codes : codes[k].user \in Accounts /\ codes[k].live \in BOOLEAN
    /\ \A l \in links : l.chat \in Chats /\ l.user \in Accounts
    /\ bot.offset \in 0..(MaxUpdates + 1) /\ bot.batch \subseteq inbox
    /\ taken \subseteq 1..MaxUpdates /\ sentOn \in 0..evening

(* Telegram lets an update go only once the bot has started on it, whatever *)
(* fails and whenever the bot is started again (telegram-bot.ts:487-494).   *)
NoneDropped ==
    \A i \in 1..written : i \in taken \/ \E u \in inbox : u.id = i

\* Messages written that the bot has not started on.
Untaken == 1..written \ taken

(* A code links one chat once, though a restart brings the same update again*)
(* and another chat may send it (telegram-links.service.ts:57-67).          *)
CodeOnce == \A k \in DOMAIN uses : uses[k] <= 1

(* Each chat gets one summary an evening from a bot that is not restarted,  *)
(* though ticks go on while it is sent (telegram-summary.ts:73-74).         *)
SummaryOnce == \A s \in summaries : s[2] = 1
=============================================================================
