# easun_monitor in TLA+

A formal model of easun_monitor, the self-hosted dashboard that polls EASUN
inverters through Wi-Fi loggers, reads and writes their settings, collects a
battery's readings, follows the power operator's outage schedule and alerts a
household: of its server, of the processes and the firmware around it, and of
the web app's traffic with it. The modules are TLA+ specifications translated
from the sources; TLC checks them on small instances, and TLAPS proves
the main properties of the Logger link, of polling, of the alerts, the notices,
the bot and the fan, of the settings service, of the outage checks, of the
households, of the sessions and of the serial logger for every instance. Paths below are relative to `eam_server/src` unless they say
otherwise.

`PROJECT.json` holds the machine-readable part: the components, the runs, the
lines each definition translates (`map`), one plausible bug per property
(`mutants`), what the runs found (`findings`) and everything in the code that
is hard to test (`hazards`).

## 1. The system

One Node process (NestJS) runs the pollers, the API and the bot on a single
event loop, over PostgreSQL through Prisma. Hence the unit of atomicity in all
models: code between two `await`s is one step; every `await` on a device, the
database or another promise is a place where any other step may come between.
Database statements are atomic; an interactive `$transaction` runs at
PostgreSQL's default isolation, READ COMMITTED. A few satellites run as
processes of their own and talk to the server over HTTP: the outage reader, the
BMS reader, the server agent; an ESP proxy sits on a logger's serial line; the
web app runs in tabs, several at once.

| Component | State it keeps | Operations | What is hard about it | Correct when |
| --- | --- | --- | --- | --- |
| **Logger link** `inverter/link/logger-link.ts`, `tcp-logger-transport.ts` | promise queue, connection, failures, retry time, last error, last success | `read`, `write`, `command`, `probe`, `status`, `close` | replies name no request; timeouts, late replies, drops, backoff, queueing of calls made during any of them | calls are served in order, replies are never crossed, every call settles, a dead logger is not hammered |
| **Logger's wire** `inverter/protocol/logger-frame.ts`, `link/logger-server.ts`, `in-memory-logger.ts` | buffers, the register bank | frames out and in | frames cut and altered on the way | what is taken for an answer is whole and answers what was asked |
| **Registers** `inverter/registers/*` | none once loaded | blocks, encode, decode | gaps bridged, 32-bit values over two words, limits | every wanted register read once; a written value reads back |
| **Logger links** `link/logger-links.ts` | one link per address | `get`, `remove` | removal while a link is in use or still connecting | one link, so one connection, per logger |
| **Polling** `inverter/polling.service.ts` | `tracked` loops, `pollingInFlight`, timers | boot, `syncProfiles`, poll tick, settings tick | overlapping syncs, loops restarted while their poll is out | loops are those of the profile table; no loop is silenced |
| **Inverter profiles** `inverter/inverter.controller.ts` | InverterProfile rows | pair, update, un-pair | the sync after a change is best effort | every change reaches the loops |
| **Settings** `inverter/settings.service.ts`, `settings-rules/*`, `telemetry/settings-history.ts` | cache, shared reads, history rows | `get`, `refresh`, `apply`, `record` | check-then-write, read-backs overtaking shared reads, recordings overlapping | read-backs follow their write; cache and history do not go back |
| **Settings page** `eam_front/src/pages/InverterSettings.tsx` | readings, texts, review | load, refresh, edit, review, apply | readings land while one edits | only what was typed and reviewed is written |
| **Outage checks** `outage/outage-checks.service.ts`, `event-matching.ts` | checks, patterns, days, events, the source's state | `ingest` | posts late, twice, out of order, at once; address changed meanwhile; windows over midnight | each check counts once; live events are those of the check last applied |
| **Outage sources** `outage/outage-sources.*`, `outage-availability.service.ts` | the source row | `put`, `requestRefresh`, `remove`, the watch | the reader may hold the old address; clocks differ | a check asked for is made; silence is told truly |
| **Outage reader** `outage-reader/*` | cadence, browser, street list | read, post, wait | site failures at every request, a browser that may not start, restarts, clock changes | checks at the cadence, and soon after a request; the browser only when needed, and closed |
| **Outage forecast, reminders** `outage/forecast.ts`, `reminders.ts`, `outage-reminders.service.ts` | sent marks | rounds | marks set before the message is sent; windows revised after their reminder | a reminder in time, and not twice of one window |
| **Households** `households/*` | households, memberships, invites | create, invite, redeem, change role, remove, leave | counts read before updates in concurrent transactions | always an admin; an invite used once |
| **Accounts, sessions** `auth/*`, `eam_front/src/auth/*`, `apiClient.ts` | users, refresh tokens; a tab's access token | register, sign in, refresh, sign out | rotation against sign-out and between tabs; answers lost | a session that was ended stays so; a waiting tab goes on |
| **ESP proxy** `esp_proxy/lib/proxy` | held bytes, state of the line | pass through, inject | two clients on one half-duplex line | each gets its own answer |
| **Serial logger** `serial-logger/*` | register bank, freshness, queue | proxied reads and writes | late replies, stale registers | what is served was read after the last write |
| **BMS** `bms/*`, `bms-reader/*` | session, queue, last stored time, hourly rows | session with watchdog, post, store, roll up | hung radio, concurrent posts, late rows | a session that is set up ends when its battery falls silent; one reading per interval; nothing lost unnoticed |
| **Telemetry** `telemetry/*` | readings, hourly rows | store, roll up, pages, exports | rows arriving while they are taken out | what is taken out is whole |
| **Serial capture** `inverter/serial-sniff/*`, `DevSerialSniff.tsx` | taps, files, recent records | start, stop, retry, polls of the page | overlapping starts and stops, late answers | a capture holds what its taps caught; the page shows it in order |
| **Telegram, alerts** `telegram/*` | links, codes, offset, offline marks | updates, logger events, timers | alert and recovery racing, redelivery | every "down" is followed by its "back"; a code links once |
| **Server agent, monitor** `server-agent/*`, `server-monitor/*` | fan's owner and speed, samples, notices | report, set the fan, tell | writes that fail, reports that overlap | the fan is given back; notices are paired |
| **Notifications** `notifications/*` | a user's row | get, update | read-then-write of the whole row | the rest of the row stays |
| **Web app** `eam_front/src` | what each page shows | loads, polls, actions | answers out of order, rights lost, another member's changes | what is shown is of what is chosen |
| Others (weather and solar, mock inverter) | caches | | little interleaving | |

Who calls whom: a *request* or a *timer* of Polling takes a link from Logger
links and awaits it; Settings does the same through its shared reads; both are
served by the one queue of that link. Inverter profiles calls Polling's sync
after it has written its row. The Outage reader asks Outage sources which
address to read, and posts the result to Outage checks, which writes the
events and tells the household through Telegram after its commit. Polling's
outcomes and the BMS's readings go to the alerts. The serial logger answers the
same wire a Wi-Fi logger does, out of a bank filled through the ESP proxy.

## 2. The modules

| Module | Models | Uses |
| --- | --- | --- |
| `FifoService` | what a link promises: calls accepted in order, served one at a time in that order, each answered once | |
| `LoggerLink` | `LoggerLink` and `TcpLoggerTransport` against a device that may do anything | implements `FifoService` |
| `Polling` | the profile requests, `syncProfiles`, the poll and settings jobs, `LoggerLinks`; a link's answer is one step | relies on `EveryCallSettles` |
| `SettingsService` | cache, shared reads, `apply`, history, over a link reduced to the queue that `FifoService` promises | relies on what `LoggerLink` shows |
| `SettingsForm` | the settings page and its copy of the rules, against the server | relies on `SettingsService` |
| `Registers` | `register-map.ts`: overlap checks, blocks, encode, decode | |
| `LoggerWire` | `logger-frame.ts` cell by cell, the TCP server and its bank | |
| `FrameStreams` | the four parsers that find frames in a stream cut anywhere | |
| `OutageChecks` | the reader's checks, their delivery, and `ingest` | |
| `OutageReader` | the reader's loop, requested checks, the watch on a silent source | a check is `ReadStreet` |
| `SiteCheck` | one check, request by request, with retries and browser | comes to `ReadStreet` |
| `OutageWindows` | windows of outages: a slot's piece of its hour, windows joined and cut | |
| `WallClock` | the site's hours as instants, on the days the clocks change | extends `OutageWindows` |
| `OutageReminders` | the forecast and the reminders of each round | extends `OutageWindows` |
| `Households` | members, roles, invites, sign-up and the inverters of a household, as transactions of single statements | |
| `Sessions` | the tabs of a browser, their refreshes and the server's tokens | |
| `Pages`, `WebApp` | the server's routes with their rights and each component of the web app as a row; one component on screen | `WebApp` extends `Pages` |
| `NotificationChoices` | a user's notification row and its page | |
| `EspProxy`, `SerialLogger` | the firmware between plug and inverter; the emulated logger behind it | `SerialLogger` extends `EspProxy` |
| `BmsReader`, `BmsIngest` | Bluetooth sessions; a reading's way to the hourly rows | |
| `StoredReadings` | pages and exports while rows are stored | |
| `SerialCapture`, `DevSerialSniff` | a two-tap capture and the page that follows it | |
| `Alerts`, `ServerNotices`, `ServerFan`, `TelegramBot` | alerts of a household; notices of the host; the fan; the bot | |
| `LoggerLinkProofs`, `SettingsServiceProofs`, `LiveProofs`, `OutageProofs`, `PeopleProofs`, `DevicesProofs` | the theorems of section 4 | the first two extend their component, the others the sums `MCLive`, `MCOutage`, `MCPeople` and `MCDevices` |
| `StreamProofs` | what `DevicesProofs` needs of frames, captures, the page of a capture and stored readings | extends these four |
| `DataInduction` | lemmas of the proofs: induction over numbers, stated for sets; the extremes of a set of numbers; the ranks of a finite set in a strict order | |
| `MC...` | instances for TLC: symmetry sets, pages, changes, and the sums below; `household_admins`, `polling_races` and `settings_races` run `Households`, `Polling` and `SettingsService` themselves | |

A definition written for a mutant only stands directly before the one it
replaces and its comment begins with "A plausible bug:" or "Mutant:". No
specification uses it.

**Sums.** `MCInverter`, `MCSettings`, `MCPeople`, `MCOutage`, `MCDevices` and
`MCLive` each put several components into one run. Between the components of
a sum no state is shared: they meet by an answer (a link's to Polling), by
a fixed table, or by a result that one module states and another shows
(`ReadsAsPromised`: a check of `SiteCheck` ends as the `ReadStreet` of
`OutageReader` says). A variable `part`, picked by the initial state, says which
component runs while the others rest in one initial state of theirs. The states
are then the sum and not the product of the components' states, and no
interleaving is lost: steps of two components that share nothing commute.

### LoggerLink

A *task* is one call of `read`, `write`, `command` or `probe`. `Call` chains
it on `tail` (the field `queue`); its `Turn` comes when the task it was chained
behind has settled. `StartRefused`, `StartConnected` and `StartConnecting` are
the three ways through `ensureConnected`; `ConnectOk` and `ConnectFail` are the
handshake and TCP connect with their timers; `Send` is `transport.exchange`.
`Reply` and `ExchangeFail` end an exchange: the first with a frame (which may be
a refusal or garbage), the second by timeout, reset or close. `Fail` is the
code's `fail`: drop the connection, count, set the retry time. `IdleDeath` is an
error on an idle socket, `Close` is `close()`. `DeviceHandle` is external: the
device takes any request still on its way, also of a connection given up, stores
a write or does not, and answers well, badly or later; one that never takes it
is a device that stays silent. `PanelEdit` is a person at the inverter.

A value is abstracted to who wrote it, so `log[s]` is the history of a setting,
and "the value read back" can be compared with "a value held since my write".
Registers, frames and byte counts are left out: a frame's own request cannot be
told from it, which is the reason for `RepliesMatch`. What the bytes do is in
`LoggerWire`, `FrameStreams` and `Registers`.

### Polling

`PairInverter`, `Update`, `UnpairInverter` and `Duplicate` are the controller's
routes; `Query`, `QueryFails` and `Apply` are the three outcomes and the two
halves of `syncProfiles`, whose second half has no `await` and so is one step
however many profiles it moves. It walks the rows in the order the query
returns, which names none: `Orders` is all of them. `PollTick` and
`SettingsTick` are the intervals, `PollRead`, `PollStored`, `PollFails`,
`SettingsRead` and `SettingsFail` the ends of what they start. A link is its
address and a *generation*: `get` after `remove` makes the next one. `remove`
cuts an exchange under way; a link that is still connecting is spared, which is
the subset `spared`.

### SettingsService, SettingsForm, Registers, LoggerWire, FrameStreams

`SettingsService`: one inverter at one address. `Get`, `ForcedRefresh` and
`Apply` are the calls; `Resume` continues a call whose read has settled;
`ReadServed`, `ReadFails`, `WriteOne`, `WriteServed` and `WriteFails` are the
link serving the head of its queue; `Look`, `Store` and `RecordFails` are the
two database calls of `SettingsHistory.record` and their failure, inside the
promise of the read. `stale` stands for the age of the cache. Two settings and
one rule, "the first is greater than the second", stand for the tables of
`settings-rules`.

`SettingsForm` is the page on the other side of those answers: a reading that
lands puts the form back, an edit is text which may be no number (`Blank`), the
review lists what differs and what the page's own copy of the rules objects to.

`Registers` starts from every layout of three registers (`MCSettings`) over five
addresses, with words of four values, and loads it as `loadRegisterMap` does;
`blocks` is compared with the smallest set of reads there is, `encode` with
what `decode` gives later. `LoggerWire` sends requests and replies as cells
through a line that cuts them in two and alters one cell. Only a timeout or a
broken link closes the connection (`GiveUpReply`); a reply that is malformed fails
its call and keeps the socket (`TakeReply`), as `logger-link.ts:209-231` and the
module `LoggerLink` do, and what was not yet there of it stands before the reply
to the next request. `FrameStreams` gives a
parser each stream in every chunking and compares with the frames found in the
whole.

### OutageChecks, OutageReader, SiteCheck, OutageWindows, WallClock, OutageReminders

`OutageChecks`: time is counted in slots of the site's schedule and a check is
named by its time, as in the table's unique key. `ReadSite` and `ReadFails`
make a check of the address the source has then; `Lookup` is a copy of it
reaching `ingest`, up to the first two reads of the transaction; `Insert`
creates the row, whose unique key blocks a copy until the first ends; `Commit`
is the rest of `apply` with the commit; `Abort` is a failure or a stop that rolls
back; `Move` is `put` with another address. `Commit` is one step since `apply`
first updates the source's row and PostgreSQL holds that row's lock to the end:
what one transaction does after it cannot be interleaved with another's. What
`ingest` read *before* it (whether the check is known, whether a newer one is
stored, the house's state) is in `request` and may be out of date.
`mergeWindows`, `planEvents`, `InScope` and `updateEvents` are the pure
functions of the same names in the source, over slots instead of instants.

`OutageReader` is the loop: a check when the cadence is due, sooner when the
poll of the server shows that one was asked for, a long pause after the site
blocked it; the server's side of it (`requestRefresh`, the source switched off
and on, `check` of the availability watch) runs by a clock of its own, behind
or ahead of the reader's. `SiteCheck` opens one such check into its requests:
plain ones with their retries, a browser that may not start, the street list,
the report. `OutageWindows` is what both clocks share of `windows.ts`. There
`joinWindows` says `mergeWindows` without its loop: a window that touches no
earlier one of its status and source begins a joined one, and all that start
before the next such one go into it. TLC found it equal to the loop, said as a fold
over the windows in order, on every small set of windows. `WallClock` is the rest
of `windows.ts` over half hours for a day on which an
hour is skipped or run twice; it compares the windows with what the site's slots
say of each half hour. `OutageReminders` makes the forecast of confirmed days
and the weekly pattern and compares it with the schedule it stands for. A round is
one `tick`: it marks what is due and then sends it, window by window, any of
which may fail; or it fails before it marks anything (`RoundFails`). Each telling is kept
in `reminded` with the round it was of, the days confirmed by then (`known`) and how
many first rounds had failed by then (`blind`), so that a second one can be told
from the first.

### Households, Sessions, WebApp, NotificationChoices

`Households`: a request is a check of what its caller may do (`Ask...`,
`requireMember`, `requireProfile` or `adminHouseholdId`) and then a transaction:
each read that decides something is a step (`ReadTarget`, `CountAdmins`,
`CountElsewhere`, `ReadMemberships`), since at READ COMMITTED it sees what is
committed then; its writes and commit are one step (`WriteRole`, `Claim`,
`CreateAccount`, ...) since they lock the rows they touch, and its conditional
writes look again: the membership is updated by the id that was read, the invite
only where it is unused, and the foreign keys and cascades of `schema.prisma`
hold. A refused or failed request, or one cut by a stop, changes nothing.
`member` keeps the row's id beside the role, so that a member who left and came
back is another row. The checks before a transaction are one step: where they
are two reads (a profile and its membership, the number of users and the e-mail)
what the first found can only be deleted since, or the write's own unique key
looks again. `Init` is *every* state that requests made one after the other lead
to. So two requests suffice for what two can do to each other in any state: no
long sequence has to be replayed. `stale` records that a transaction wrote after
another had changed a household or user it had read about. `KeptInTurn` states
the rules of members.service and invites.service for behaviours without that;
`AlwaysAnAdmin` states the README's promise without the restriction, and fails.

`Sessions`: a refresh is three statements, each a step (find, revoke, store the
successor); a tab's calls share one refresh and are sent again once; the jar is
the browser's and shared by its tabs; an answer may be lost after the server
acted.

`Pages` gives each component of the web app that talks to the server one row:
what it loads, whether what it shows is kept when its key changes, what happens
to late answers, what follows an action, who is offered it; and each route of
the server the rights its handler asks. `WebApp` runs one row against a
server whose data others change, whose answers come in any order, and whose user
may lose rights. That every action a row offers is taken by its route
(`OfferedIsTaken`) compares the two tables.

### EspProxy, SerialLogger, BMS, captures and stored readings

`EspProxy` has bytes in bursts, `PlugBytes`, `Inject`, `Answer` and the three
timers of `proxy.cpp`; `crossed` marks a behaviour in which a timer came before
the answer it waited for, from where on an answer can be taken for another's
(the protocol cannot tell): the properties say nothing of what is crossed.
`SerialLogger` adds the USB link's queue, the freshness memos of the refresher
and the taps' pairing.

`BmsReader` is the loop and every session it ever began, since one that is
stopped may still own a timer. `Setup` is the return of one of the setup's two
awaits, well or not; that it returns at all is nowhere assumed, and the timer
begins only after the second (`WatchFromNow`). `BmsIngest` follows a reading from the bounded
queue through the post, the storing interval and the row to the hour.
`StoredReadings` is keyset pagination beside inserts. `SerialCapture` is two
callers who start and stop one capture; `DevSerialSniff` the page's overlapping
polls.

### Alerts, ServerNotices, ServerFan, TelegramBot

Each ends a step at each `await`, so that two handlings of overlapping events are
interleaved; marks are in memory and a restart forgets them. `ServerFan` has
both writes of a speed, each of which may fail, and the firmware as the owner
of the fan when the agent is gone. `TelegramBot` keeps Telegram's queue and the
offset that is asked for; updates are a set, whose ids give the order.

## 3. The runs

Six runs pass, and six each show one disagreement between code and comment.

| Run | Parts | Shows |
| --- | --- | --- |
| `inverter` | `LoggerLink`, `Polling` | `RepliesMatch`: whatever can still arrive on the open connection answers the one request waited for. `ConfirmedHeld`: a write that succeeded was applied, and it returns values held since. `StatusHonest`: "online" and "backoff" tell how the last contact went. `OneProfilePerLogger`: no overlap of syncs makes two loops poll one logger. `FlagHasPoll`: a profile marked in flight has a poll at its address, so its loop is not silenced. `SyncRepairs`: a change made alone leaves the loops of the table, whatever earlier syncs missed. |
| `settings` | `SettingsService`, `SettingsForm`, `Registers`, `LoggerWire` | `ReadBackFollowsWrite`: a write answers with values read after it. `ReadsInTurn`: a shared read is one still pending, and the cache moves to later reads only. `HistoryEndsWithLastRead`. `EnteredIsWritten`: the page writes only what was typed and what the server takes (`NothingUnasked`, `MirrorsServer`), the registers are read once each, in the fewest reads, and give back what was encoded (`RegistersKept`), and what a client takes from the wire is what the bank held (`WireKept`). |
| `people` | `Households`, `Sessions`, `WebApp`, `NotificationChoices` | `SingleUse`: however many redeem one code or sign up with it, one joins. `KeptInTurn`: unless somebody acts on what another changed, each household keeps an admin, nobody runs two, no inverter goes with a household. `SessionsKept`: an ended session gives no access again, and every tab that waits has a refresh under way. `PagesHonest`: what is shown is of what is chosen, a change of one's own shows, what is offered is taken, a save leaves the other choices. |
| `outage` | `OutageChecks`, `OutageReader`, `SiteCheck`, `WallClock`, `OutageReminders` | `OnceEach`, `EventsFollowLastApplied`, `NoDoubleBooking`, `PatternsChange` of the checks. `RefreshServed`: a check asked for is made. `ReaderHonest`: the pause after a block is kept, the household is told "unavailable" and "back" as checks went, the browser is closed and only for blocks, the list is stored. `Reminded`: the forecast is the schedule; whoever wants to hear of an outage is reminded in time, not twice of one window, and again of what begins then only when a day was confirmed in between; the windows are the site's on the days clocks change, but for the half hour of section 5. |
| `devices` | `SerialLogger` with `EspProxy`, `BmsReader`, `BmsIngest`, `FrameStreams`, `SerialCapture`, `DevSerialSniff`, `StoredReadings` | `EachGetsItsOwn`: each client of the line is answered what it asked. `BankFollowsWrites`: the registers served are no older than the last write. `ReadingsKept`: no reading, frame or record is lost, doubled or taken for another's. `DevicesSettle` (liveness): a read on the line and a queue of readings come to an end; so does a session whose link is lost, and one that is set up and not heard again. A session hung in its setup with the link up is left only of a radio that answers (`RadioAnswers`). |
| `live` | `LoggerLink`, `Polling`, `Alerts`, `ServerNotices`, `ServerFan`, `TelegramBot` | `ServesInOrder`: the link implements `FifoService`. `Paced`: failures are at least the backoff apart. `EveryCallSettles`, `FlagsClear`, `CaughtUp` (liveness). `AlertsPaired`, `NoticesPaired`, `BotPromises`. `FanKept`: a speed set under AUTO is one the owner's rules ask for, and the fan slows only once the rule in force is left behind. |
| `household_admins` | `Households` | *violated*: `AlwaysAnAdmin` |
| `settings_races` | `SettingsService` | *violated*: `ConcurrentWritesKeepRules` |
| `polling_races` | `Polling` | *violated*: `QuietMeansSynced` |
| `outage_moved` | `OutageChecks` | *violated*: `GroupsAreOfTheAddress` |
| `outage_midnight` | `OutageChecks` | *violated*: `OtherDaysKept` |
| `reminders_end` | `OutageReminders` | *violated*: `RemindersNameTheEnd` |

The passing runs also have the types (`TypeOK`, `PollingTypeOK`,
`DevicesTypeOK`; those of `live`'s, `people`'s and `outage`'s other parts are in
the property of the part). Section 6 tells what the six violated ones show.

**Why the bounds are enough.**
*Tasks, calls and requests*: the properties relate two calls, and in `live` a
third is needed for "earlier than earlier"; in `settings` a read-back, a shared
read and a later call, with two changes, applied by the app or made on the
panel. *Requests per task*: 2 blocks and 2 settings make a first,
a middle and a last request, hence a write that fails halfway. *Clock*: delays
of 1 and 2 ticks with limit 2 make the doubling, the cap and the reset happen
within 4 ticks. *Polling*: two syncs and the boot overtake each other, and two
addresses can be swapped; three jobs are the poll of an old loop, the one of its
successor and a settings read. *Form*: one reading that lands during two edits
and a write, and one change by others. *Registers*: three registers over five
addresses make touching, bridged and unbridged gaps and a block at its limit of
three. *Wire*: two requests on one socket and one cell altered by one, or one frame cut
in two: a reply whose length says one less leaves a late cell before the next. A
length altered by more, and several late cells, are not modelled.
*Households*: the rules relate two admins of one household, one user of two
households, two users and one invite, each met by 3 users and 2 households, from
every valid state. *Sessions*: two tabs of one browser, three tokens: a refresh,
another from the other tab, and a sign-out between. *Pages*: two keys, one move,
two versions and two requests under way are an old answer after a new one, about
another key; every row of `Pages` is an initial state. *Outage*: two days of two
slots are enough for a window over midnight, one cut by it, and one that ends
before the next check; one cancelled; three times give three checks in any order
of delivery.
*Reader*: five ticks hold a pause of three, a browser check and an evening; one
fault is a restart, an unreachable server or a failed send at any place.
*SiteCheck*: three retries, and three checks: one that uploads the list, one that
loses its answer, one after. *WallClock*: a six-hour day whose third hour jumps,
with every status in that hour and its neighbours. *Reminders*: two days of two
hours; two users, the one who hears early of possible outages too, so that a day
confirmed between the two leads is told again to one and for the first time to the
other, and whoever is told three units ahead can be told again after the two faults
there are, a restart and a first round that fails. Either day or both are confirmed. *Devices*: one request of the plug with two
clients; two sessions, of which the first outlives its end; one BMS device (the proof covers
any number; of the modelled state devices share the clock and the roll-up's window), a queue of two with
storing interval and hour of two, so that the queue overflows and an hour closes
late; streams of seven cells with frames of four, cut in chunks of two; two
callers; an export of rows twice the batch. *Alerts, notices*: two spells, two
overlapping checks. *Fan*: six temperatures around two rules and a hysteresis of
two, with rules that rise and rules that fall. *Bot*: one code, sent twice.

All bounds are CONSTANTS and in the guards of the actions that would exceed
them. TLC stops where the bounded calls are used up, so the configurations do
not ask for the absence of deadlock.

**Symmetry** is used on the tasks, calls, requests, profiles, addresses and jobs
that no definition orders, in safety runs only.

**Fairness.** `LiveFairness` (`MCLive`) and `DevicesFairness` (`MCDevices`) give
each part weak fairness of what the event loops, timers and interfaces owe, and
of nothing else. Promise callbacks run (`Start`, `Handle`, `Resume`); every
handshake, connect and exchange has a timer that fires (`Connect`,
`ExchangeFail`, `LinkTimeout`, `Check`, `Wake`); a database statement or a send
returns, well or not (`Query \/ QueryFails`, `CheckStep`, `HandlerStep`, `Store`,
`StoreFails`); intervals tick (`PollTick`); a broken Bluetooth connection is
heard (`HearDisconnect`), a connecting one can be stopped (`StopConnecting`) and the
close of a stopped session settles (`Resume`, `bms-session.ts:73-83`). The awaits of a
session's setup (`bms-session.ts:97,101`) have no timeout and the watchdog starts
after them, so `Setup` is *not* fair: `DevicesSettle` leaves a session that hangs
there to the radio, except where it assumes of it, as its premise `RadioAnswers`,
that every setup ends. Nothing is asked of the logger, the inverter, a reply, the
panel, the clock, the owner, or a failure. A tick is weakly fair since nothing
else of the profile can disable it for ever but a poll in flight, whose end is
fair too. Failures are bounded by constants: "once faults are over" is what the
liveness properties say. The other four runs are of safety.

**Mutants.** Every property of every passing run has one or more definitions of
the model changed the way a bug would change them, each then violated in the same
run: a link that keeps its connection after a failed exchange crosses replies, a
queue that starts a task when the one before it *starts* breaks the refinement,
a read-back that shares the read in flight returns values from before the write,
an upsert in place of the insert applies a check twice, a browser left open, a
page that takes the answer of another profile, and so on. A property that is a
conjunction over parts has a mutant for each part.

## 4. What is proved

Every theorem is of the component's own specification, for every value of its
constants that its assumption allows: any number of callers, calls, settings,
users, profiles, blocks, days; any backoff, any queue, any page of the site. The
bounds on time and on the number of calls are arbitrary numbers there. A step of
a run's sum is a step of one component, so the theorems speak of the runs'
behaviours too. TLC checked the invariants on the runs before they were proved.

**`LoggerLinkProofs`**, from `LinkConstants`:

| Theorem | Statement |
| --- | --- |
| `TypeCorrect` | `Spec => []TypeOK`: among others that no task runs past its program |
| `NoCrossedReplies` | `Spec => []RepliesMatch` |
| `ImplementsFifo` | `Spec => ServesInOrder`, the refinement of `FifoService` |
| `StatusIsHonest` | `Spec => []StatusHonest` |
| `FailuresArePaced` | `Spec => []Paced` |
| `WritesAreConfirmed` | `Spec => []ConfirmedHeld` |

The invariant is `IInv`, in parts, each needed by another:

* `ChainInv`: positions in the chain are unique and consecutive and `tail` is
  the last. Without it "the task before mine has settled" says nothing of the
  tasks before *that*.
* `Serialized`: a task that left the queue has only settled tasks before it;
  by `ChainInv`, from the one before it by one step of the chain.
* `ProgramInv`: request numbers and connections stay in range; a new connection
  has a number no message carries.
* `RepliesMatch` with `WireInv`: every message on the open connection is of the
  request waited for, and there is one at most. Needs `Serialized` (only one task
  waits) and that every failure drops the connection.

`Invariance` puts together one lemma per action. `ImplementsFifo` maps a task's
`pc` to the phase of its call and its position to its place; `Serialized` is what
makes the service's guard `First` true at each start and each answer.

`BackoffInv` carries the other two sides of a failure. No task is past its start
while the retry time is ahead, which is what makes "backoff" true; and after *n*
failures in a row the clock has passed the sum of the first *n - 1* delays and
the retry time is the sum of all *n*. That sum, `Elapsed`, is a recursive
function, so the proof first shows that such a function exists and what its next
value is. `WriteInv` follows a write through its requests: what it has sent
before the one waited for is in the device's history, a good reply on its way
says that its own request is there too, and what it has read back was there then.
The history only grows, and `RepliesMatch` says whose reply it is.

**`LiveProofs`**, from `PollingConstants`, `AlertsConstants`, `NoticesConstants`,
`BotConstants` and `FanConstants`:

| Theorem | Statement |
| --- | --- |
| `PollingTypes` | `PollingSpec => []PollingTypeOK` |
| `OneLoopPerLogger` | `PollingSpec => []OneProfilePerLogger` |
| `FlagsHavePolls` | `PollingSpec => []FlagHasPoll` |
| `SyncsRepair` | `PollingSpec => []SyncRepairs` |
| `AlertsInTurn` | `LiveSpec => []AlertsPaired` |
| `NoticesInTurn` | `LiveSpec => []NoticesPaired` |
| `BotKeepsPromises` | `LiveSpec => []BotPromises` |
| `FanObeys` | `LiveSpec => FanKept`, an action property |

Those of Polling rest on `ApplyReconciles`: applying a sync makes `tracked` exactly what the
sync has read, whatever it was before. `UniqueInv` then carries the table's
unique addresses over the snapshots to the loops. `RepairInv` says that while
the last change came alone its sync is the only one under way and its snapshot
is still the table; `QuietMeansSynced`, which drops "alone", is not provable
since it is false. `FlagHasPoll` is inductive with the types: a sync that stops a
loop takes its flag back, and one that starts it starts a poll.

`AlertsInv` and `NoticesInv` are balances, of which the properties are the case
with nothing on its way: alerts recorded, with those being sent to be recorded
still, are as many "offline" as "back", and one more while the thing is marked.
Every step changes both sides alike; what takes a proof is that the sends of a
set of checks or handlings change by one when one of them does (`Recount`,
`Recounted`), and that a step which starts no send leaves them.

`BotInv`: `UpdatesKept`, what Telegram keeps was taken, is in the batch or is
later than all of the batch, and what the offset lets go was taken; `CodesSpent`, a live code has linked nobody and a
spent one at most one chat; `OneRound`, there is one round of the summary at
most, and it has not written to whom it has left.

`FanInv`: the agent remembers the target last written, the fan is at its speed,
and a target with a rule is at that rule of the settings it was made of
(`Remembered`). `TargetIs` says what `fanTarget` owes the settings: that the
hottest rule passed exists and is one (`HottestRule`), and that a rule held is
left upwards or below its hysteresis only. `Levels` says that rounding to the
fan's speeds keeps the order. The first attempt at this proof failed, and showed
what the property had wrong: see "Fan and notices" in section 5.

**`SettingsServiceProofs`**, from `SettingsConstants`:

| Theorem | Statement |
| --- | --- |
| `TypeCorrect` | `Spec => []TypeOK` |
| `ReadsAreInTurn` | `Spec => ReadsInTurn`, an action property |
| `ReadBacksFollowWrites` | `Spec => []ReadBackFollowsWrite` |
| `HistoryKeepsLastRead` | `Spec => []HistoryEndsWithLastRead` |

* `Base` joins the types to `QueueInv`: the link's queue holds exactly the reads
  and writes that are under way, once each; the read that is shared is the last
  of its reads; and only the first of the queue may be a plain read that others
  wait for. Without it a call that resumes could find a read that never was.
  `TimeInv` orders the times of reads, writes and the cache.
* `ReadBackInv`: a write in the queue has written a prefix of its changes
  (`Wrote`); the read a call takes back starts behind its write in the queue, so
  what it will find was held after (`Backed`).
* `ReadAtInv` says of each read when it was served (`Timed`), that no two were
  at once (`Distinct`), what it found (`Sourced`) and that a recording stores one
  row (`OneRow`). `HistoryInv` follows the chain of recordings: each starts after
  the ones before it, and the row it finds latest is that of the last that
  settled, unless a read failed; so at rest the last row is that of the last read.

**`OutageProofs`**, from `OutageConstants`, `ReaderConstants`, `SiteConstants`,
`ForecastConstants` and `ClockConstants`:

| Theorem | Statement |
| --- | --- |
| `OutageTyped` | `Spec => []TypeOK` |
| `ChecksAreOnceEach` | `Spec => []OnceEach` |
| `EventsAreLastApplied` | `Spec => []EventsFollowLastApplied` |
| `NothingBookedTwice` | `Spec => []NoDoubleBooking` |
| `PatternsAreChanges` | `Spec => []PatternsChange` |
| `RefreshesAreServed` | `OutageSpec => []RefreshServed` |
| `ReaderIsHonest` | `OutageSpec => []ReaderHonest`, of the loop, its watch and the checks at the site |
| `OutagesAreReminded` | `OutageSpec => []Reminded`, of the forecast, the reminders and the windows on the days the clocks change |

*The checks.* The invariant is `OInv`. `KeyHeld` is the unique key of the checks: while a
request is past its insert, no row of the same time is committed and no other
request is past its own. `Baseline` and `Versions` tell what of the house and of
the patterns belongs to which applied check. The rest is about one commit:
`Planned` says what `matching` gives (a known event is matched once, and to a
window of its kind and status that it overlaps), by induction over the steps of
that recursive function; `Revised` what is left after it (everything still to
end in the scope of the check is matched or withdrawn); `WindowsAre` and
`WindowsSeparate` what `mergeWindows` gives (windows of one status cover the slots
of that status, and there is a slot between any two). From these follow both
that the live events are what the page shows and that none overlap.

*The reader.* `ReaderInv` has the times of two clocks to relate. `Dated`: nothing
is dated ahead of the clock that dated it, and a check asked for is read within a
unit of the reader's clock. `Rested`: the next check lies behind the pause a
block asked for. `Awaited` is what `RefreshServed` needs: for each place of the
loop, how long ago a check that nothing hindered can have been asked for and not
be answered: one poll, and none while the reader has not slept since it asked;
in a check, counted to the time it is dated with; and later by what the reader's
clock is behind, since a check then made is dated before the request. `Told`: what the household
was told last is what the watch has marked, and after a round the mark is what
the checks say.

*The site.* `SiteInv` follows one check through its requests. `Counted`: the
browser that runs is the one the check has, so none is left when it ends. `Came`:
how a check came to be where it is, with which tries left and whether something
blocked it. `Over`: what a finished check comes to is one of the results that
the loop's action `ReadStreet` allows, with the same report and the same use of
the browser; and a list it was given is stored.

*Windows.* `JoinedWindows` and `JoinedApart`: what `joinWindows` gives of any set of
windows lies within the same bounds, is of the same sources, and two windows of a
kind neither meet nor touch. `JoiningShows` and `CuttingShows`: an instant lies in a
window of a kind after the joining, or the cutting, exactly when it did before. The
argument is about the last window that begins a joined one at or before the instant;
it and the latest end exist since a set of whole numbers within bounds has a least
and a greatest member.

*Reminders.* `RemindersInv` is about the marks of what was sent, since these decide
who is told. `MarksAreTold`: a mark is made only once its user's
lead time has begun, and if all was calm by then the user was told. `StartsAreMarked`: an outage that
a user wants to hear of and whose lead time has begun, all having been calm since,
is marked. Neither holds of a set of windows as such: it is the instant at which an
outage *begins*, said of the schedule unit by unit (`Says`), that is marked, and
`ForecastSays` shows that the windows of each round say the same of it however far
the round looks ahead. A round forgets only marks of windows that began over a day ago, never
one that is still to begin. That nobody is told twice needs more of every
telling (`TellingsKept`): that it was due when it was made (`WasDue`), and that, while
its window is still to begin and no first round failed since, the mark is still
there or the window is gone, and until another day is confirmed everything else that
begins then is marked too (`Remembered`). `RemindedOnce` follows since
a round tells only what is not marked, and no two windows of one round share their
source, status and start.

*The clock.* Each answer is computed afresh, so `ClockInv` says of the last one
that it is right. `UtcIs` gives `wallToUtc` in closed form, the skipped and the
repeated hour apart; `DayPiecesShow` what the pieces of a date show; `Answer`
follows for a date, and for a range from the dates it spans, for any number of them
and any even number of hours in a day.

**`PeopleProofs`**, from `HouseholdConstants`, `SessionsAssumption`, `WebConstants` and
`ChoiceConstants`:

| Theorem | Statement |
| --- | --- |
| `HouseholdTypes` | `Spec => []TypeOK`: among others that members, open invites and inverters refer to users and households that exist, and that a server with an account has an owner |
| `InvitesAreSingleUse` | `Spec => []SingleUse` |
| `HouseholdsAreKept` | `Spec => []KeptInTurn` |
| `SessionsAreKept` | `SessionsSpec => []SessionsKept` |
| `PagesAreHonest` | `PeopleSpec => []PagesHonest`, of every row of `Pages` and of the notification choices |

*The households.* The first two are inductive together: `SingleUse` says of an invite still open
that nobody has joined by it, which is what `Claim` needs when it finds the invite
unused; `TypeOK` says what a request in each `pc` consists of. What a household
given up takes with it (`ClaimStep`) is the longest part: every membership,
invite and inverter of it must go in the same step, or a row would refer to
nothing. The third needs what requests know, `KeptInv`: what a transaction has
read (`RoleRead`: another admin is there, or the household may do without this
one; `ClaimRead`: the household to be given up is the caller's alone and has no
inverter) still holds for as long as nobody touched that household and that user,
which `touched` records; and then its write keeps the rules.

*The sessions.* `SInv`: `Rows`, a refresh past its lookup has a token; `Over`, the sessions that
ended are ones that began, all their tokens are revoked, and no refresh is
halfway in one of them (a sign-out with one halfway ends nothing, as the code
does not promise it); `Refreshes`, a tab has exactly one refresh under way while
one of its calls waits for one, and a booting page likewise.

*The pages.* `Table` says what the rows of `Pages` have that the properties rest
on: among others that no component offers what its routes would refuse, that only
pages about nothing but themselves wait for an answer with their form disabled,
and that those that drop late answers are emptied when their key changes. The
invariant is `WebInv`. `KeyInv`: what such a page shows, and every load of it
that still counts, is of its key. `OneThing`: a form disabled until its answer is
shown has one thing under way, its first load, an action, or the reload after
it, whose answer is no older than the last change saved; that is what makes
"shows one's own change" inductive. `Entitled`: an action under way was offered to
who had the rights for it.

*The choices.* `ChoicesInv`: while no save was overtaken, what a save read is
what is stored (`ReadsHold`); the last save stored is what is stored, and it is
shown or its answer is still to come (`LastShows`).

**`DevicesProofs`** with **`StreamProofs`**, from `ProxyAssumption`, `LoggerAssumption`,
`ReaderAssumption`, `IngestAssumption`, `StreamAssumption`, `CaptureAssumption`,
`PageAssumption` and `ReadingsAssumption`:

| Theorem | Statement |
| --- | --- |
| `LoggerTyped` | `LoggerSpec => []TypeOK` |
| `LoggerKeepsEachToItsOwn` | `LoggerSpec => []EachGetsItsOwn` |
| `BankKeepsWrites` | `LoggerSpec => []BankFollowsWrites` |
| `DevicesAreTyped` | `DevicesSpec => []DevicesTypeOK` |
| `DevicesKeepReadings` | `DevicesSpec => []ReadingsKept`, of all the parts at once |

`DevicesInv` joins the invariants of the seven parts. Each holds whether its part
runs or rests, so a step of the sum is a step of one of them or a stutter.

*The serial logger.* No reply names its request, so the invariant has to say why they still agree,
as long as nothing `crossed`. `OneExchange`: on the line is the plug's exchange,
whose two halves follow each other, or ours, during which the plug's pieces are
held. `OneRequest`: the request the link waits for is the one in the proxy's
queue or on the line, and there is no other of ours. `LinesTell`: a line on its
way is of the exchange that just ended, and a value it carries is the one the
inverter has now. `HeardAsked`: what the pairer has heard is what the inverter
was asked. `Followed` is the property of the bank for every block. What happens
to the plug's held pieces (`hearing`, a recursive function) is again shown by
induction over its steps.

*The BMS.* `ReaderInv`: sessions follow each other (`InTurn`), the ones before the
newest are over and those after it have not begun, so what closes a link is of
the session that has it. `IngestInv`: `LastIsLast`, until one handler overtook another
a device has one handler at most and what it takes for the last row is no older
than any row, from which `StoredApart` follows. `AccountedFor` needs what each post
carries and each answer admits (`ProducerMoves`), `HourlyCatchesUp` that no row and
no count is of an hour still to come (`NoneAhead`), and what `Since` says of the hour a
roll-up begins at (`SinceIs`).

*Frames.* A parser gives the same frames however its stream is cut. Where the
loop stopped on what had come, it goes on as if it began with everything: a round
that does not wait comes out the same with more bytes behind it (`RoundKept`), and one
that waits is resumed from the bytes it kept (`RoundResumed`). For the BMS's frames,
which begin at a preamble and are cut by the next, the bytes let go before the
first preamble must not hold the start of one (`BmsShift`); that fails for a
preamble that crosses a frame's end, which `FramesAreOfTheStream` exempts
(`Crossed`). `LoopResumed` is this for the loop, by induction on what is left of the buffer, and
`FramesPush` for a chunk. That no frame is missed is `LoopCovers`: whole frames
that a round passes over lie in one it takes (`RoundPasses`). The loop is a
recursive function, of which `LoopLeaves` shows that it has stopped after as
many rounds as there are bytes, and one.

*Capture and page.* `CaptureInv`: `Serially`, while no calls overlapped, the taps are those of the
running capture or of the close under way; `OneWay`, a port of the running
capture is on one way to be opened: by the start, a timer, or an open not ended;
`RecordsTell`, the last state recorded of a port is the one it has; so each
record of a state is a change. `SniffInv`: the page's records climb and end with
the last number it has seen, and until a capture was mixed with another the page
and each of its polls are behind the capture and miss nothing the server still
had (`PageBehind`).

*Stored readings.* `ReadingsInv`: what was present when an export began is taken
or still to come (`StillToCome`), since every page continues in the order where the
last one ended; of pages asked by time, those that share the time of one shown are
passed over (`PagedPast`). The order of rows, and of numbers in `DevSerialSniff`, is
that of their ranks: `Ranked` of `DataInduction` says that each rank is of one element.

**Induction over data.** The library's induction theorems take an operator, which
no installed prover instantiates. `DataInduction` states induction for *sets*:
a set of numbers that holds 0 and, with each number, the next is all of them;
a bounded set of numbers has a greatest. It follows from well-foundedness. With
it each recursive function of the proved modules (`Elapsed`, `matching`,
`hearing`, the rounds of a parser) is shown to exist and its steps are unfolded one at a time.

**Only model-checked:** the liveness properties, since fairness and ENABLED are
out of the prover's reach; what `LoggerWire` says, whose parsing is a RECURSIVE
operator, and with it `EnteredIsWritten`.

## 5. What is abstracted, and what is not modelled

* Values: a setting's value is who wrote it, or one of three numbers where a
  rule compares two. Words and bytes are small, checksums catch any single
  altered cell, and the header's ids, which the code does not compare, are one
  cell.
* Time: a logical clock, in backoff ticks in one module, in schedule slots or
  half hours in another. `Date.now()` goes backwards only where a module says so
  (skewed clocks in `OutageReader` and `BmsIngest`, set back in `StoredReadings`).
* The wording of alerts, errors, logs; HTTP itself, validation of bodies; the
  telegram cards, charts and translations; what the web app draws.
* The outage site's HTML and JSON: an answer is what it says, or a kind of error.
* Components left out: **weather and solar** (floating-point forecasts and a
  fetch with a cache; only who may call their routes is modelled), the **mock
  inverter** (a script for development whose server and bank are `LoggerWire`).
* Parts of modelled components left out, by component in `PROJECT.json`: text
  registers, choices and the JSON of the device files; the energy totals, which
  are SQL; the tabs' network failures and the mobile client's copy of the token;
  password hashing; notices of disks and updates, which follow the pattern of the
  modelled ones; reading the host's figures; loading the settings' constraints;
  the UDP handshake of the simulator.

What the modules themselves exempt, since the code does not promise it, and a
reader should know:

* **Links.** `remove` forgets a link that is still connecting
  (`logger-links.ts:43`), and a settings read chained to a first poll may remake
  a link to an address just left (`polling.service.ts:144`): for a while a logger
  may have two connections. Modelled, claimed by no property. A write that throws
  after some of its settings were taken is not read back
  (`settings.service.ts:142`).
* **Form.** A refresh landing while one edits discards the edits; the button of
  the review is not disabled when a reading landing brings errors.
* **Sessions.** Logging out beside a refresh in flight leaves the successor
  token alive; of two tabs refreshing at once one may be sent to the login page,
  which restores the session; a wrong current password reloads the login page.
  Read in the code and not checked: with an expired access token "sign out
  everywhere" is answered 401, and since `/api/auth/` routes are not retried
  (`apiClient.ts:88-96`) nothing is revoked.
* **Notification choices.** Two overlapping saves lose one (`overtaken`), where
  `update-notification-settings.dto.ts:11` says "the rest stays"; a failed save
  stays shown.
* **Web.** One household: an action may be offered for another household, and
  refused. Rows that are not "held" may show the older of two overlapping
  answers. In `ReadingsBrowser`, changing the day or the source while "Load more"
  is under way leaves its button disabled (`MoreComesBack` says exactly when). In
  `AlertsPage` a failure stays shown; `NoticesPanel` puts back the notices of the
  old language after a save; `SetupWizard` keeps a test's result when the address
  is edited after it.
* **Outage.** A message due after a commit may be lost with a restart. A blocked
  read whose report is not delivered, or a reader restarted, forgets the long
  pause; a source enabled again after 12 hours is reported unavailable at once.
  An uploaded street list whose answer is lost, the site then going back to the
  list before, leaves the server the other list (`doubtful`); a forced browser
  check reports a browser though none could start. On the day the clocks skip an
  hour, half an hour *after* it may show as an outage when the site's skipped
  hour says "first half" (`Skipped`), while `outage-reader/dnem/windows.ts:6-7` says that hour
  "has no length and drops out", and `:205` that its minutes are the moment of the
  jump: the code disagrees with its comments, and the property allows what the code does. So does `RemindedOnce`, where
  `outage-reminders.service.ts:15-18` has each outage told once: a mark carries the
  window's source and status, so a weekly window told of and then confirmed within
  the lead is told again, and so is a confirmed day that starts another window then.
  When the first round after a restart fails before it marks, there is no silent
  baseline, and what was told before may be told again (`blind`).
* **BMS.** A session whose radio hangs in `subscribe` or in the write of the device-info
  request holds the loop until the link is lost or the process is stopped (see
  Fairness). The roll-up's window is placed by the newest row of
  any device: a row stamped ahead of the hour, by a producer's clock that is ahead, moves the window
  past late rows, which are then left out of their hour's average. `HourlyCatchesUp`
  says nothing once a row was stored outside the server's present hour and the one
  before it (`outOfHour`). Two posts at once may store readings closer than the interval
  (`overtook`); a frame that is up to three bytes short, the next one's preamble
  crossing byte 300, gives other frames when cut otherwise (`Crossed`), where
  `frame-assembler.ts:10-13` says that any chunking gives the same; the timer of
  a session disconnected during setup lives on. The ingest's rate limit is left out.
* **Stored readings.** Pages are asked by time alone and skip a row that shares
  the time of the last one shown; a row stored behind the cursor, the clock having
  been set back, may be missed; access is checked at the start of an export only.
* **Capture.** Overlapping starts and stops may silence a new capture, close its
  tx port or leak a tap (`overlapped`). The page does not begin again at 1 for a
  second capture, and since the answers to start and stop lack `defaults` it
  shows a failure for a start that succeeded. A stop between creating a file and
  its header makes the list of captures fail.
* **Fan and notices.** A speed is two writes: when the second fails the agent has
  the fan while reporting the firmware. Nothing checks that a hotter rule asks for
  more (`parseFanSettings`), and the agent follows the hottest rule passed alone:
  with rules that fall, "above T at least S percent" does not hold of a cooler one,
  and getting hotter slows the fan. `FastEnough` and `SlowsInTime` say what holds
  of rules that rise (`Rising`) and of others. Two overlapping samples may tell one
  notice twice. **Bot.** An update that comes again after a restart may be
  answered "bad code"; a restart in the evening may send the summary again; a
  failed update is not handled again.
* **ESP line.** Once a timer came before its answer, an answer may meet another
  question; the protocol carries nothing to tell by (`crossed`).

## 6. What the runs found

1. `settings_races`. Rules are to be enforced on every write. `apply` checks
   against values read before its write is queued: "first to 1" and "second to
   3" may each be allowed and together not.
2. `polling_races`. Of two overlapping syncs the one that read the table first
   may apply last; a moved or deleted profile is then polled at its old address
   until the next change. `SyncRepairs` shows that the next change made alone
   mends it.
3. `household_admins`. "A household always keeps at least one admin." Two admins
   who step down or leave at once each count the other, which no lock prevents,
   and none is left; nobody can then invite, pair or promote.
4. `outage_moved`. A check does not name its address. One made of the old address
   and delivered after the change marks the new one found with the old groups.
5. `outage_midnight`. A window over midnight is in the scope of a check that
   shows either of its days, and is cut or withdrawn for what that day shows;
   the part on the other day is lost.
6. `reminders_end`. The reminder is to name the outage's hours. The forecast is
   asked for only up to a minute past the lead, and a weekly window is cut there:
   the end it names is about a minute after the start.

## 7. The plan

The system is modelled as far as section 5 says. What is left is proof:

`EnteredIsWritten`: the form's part and the registers' can be proved in modules
of their own; the frames of `LoggerWire` need their parsing said as a recursive
function.

Of the model: a statement about the connections open to one logger, for
the links of section 5; tabs that lose the network; several households in
`WebApp`.
