----------------------------- MODULE LoggerLink -----------------------------
(***************************************************************************)
(* One Logger link: everything the server does with one physical logger.   *)
(* Callers' tasks are chained on a promise (serialize), the connection is  *)
(* opened on demand, every register request is one exchange on it, and a   *)
(* failed exchange closes it and backs off.                                *)
(*                                                                         *)
(* The device at the other end is external: it applies register writes,    *)
(* answers, refuses, garbles or stays silent, and somebody may change a    *)
(* setting on its panel.  A value is abstracted to who wrote it.           *)
(***************************************************************************)
EXTENDS Integers, FiniteSets, Sequences

CONSTANTS
    Tasks,           \* calls of read, write, command and probe, each made once
    NoTask,
    Panel,           \* whoever presses the inverter's own buttons
    Calls,           \* the kinds of call that are made
    PanelEdits,      \* bound of the changes made on the panel, per setting
    NBlocks,         \* register blocks one read asks for
    NWrites,         \* settings one write changes
    BackoffInitial,  \* LOGGER_BACKOFF.initialMs, in clock ticks
    BackoffMax,      \* LOGGER_BACKOFF.maxMs
    MaxTime          \* bound of the clock

ASSUME LinkConstants ==
    /\ NoTask \notin Tasks /\ Panel \notin Tasks /\ Panel # NoTask
    /\ Calls \subseteq {"read", "write", "command", "probe"}
    /\ PanelEdits \in Nat
    /\ NBlocks \in Nat \ {0} /\ NWrites \in Nat \ {0}
    /\ BackoffInitial \in Nat \ {0} /\ BackoffMax \in Nat \ {0}
    /\ MaxTime \in Nat

VARIABLES
    pc,          \* where each task is
    kind,        \* what each task is
    step,        \* the request of its program a task is at
    outcome,     \* how a task's promise settled
    tail,        \* LoggerLink.queue: the last task chained
    after,       \* the task each task was chained behind
    ord,         \* history: the position of each chained task, 0 if none
    count,       \* history: the tasks chained so far
    failures, retryAt, lastError, lastSuccess,
    now,
    socket,      \* the open connection, 0 when there is none
    sockets,     \* connections opened so far
    requests,    \* frames on their way to the device
    replies,     \* frames on their way back
    log,         \* per setting, who wrote it, oldest first
    confirmed,   \* per write task, the values it read back
    contact,     \* history: how the last contact with the logger went
    closed       \* history: close() was called

chainVars  == <<tail, after, ord, count>>
statusVars == <<failures, retryAt, lastError, lastSuccess, contact>>
wireVars   == <<requests, replies>>
vars == <<pc, kind, step, outcome, chainVars, statusVars, now, socket,
          sockets, wireVars, log, confirmed, closed>>

Kinds    == {"read", "write", "command", "probe"}
Settings == 1..NWrites
Writers  == Tasks \cup {Panel}
Null     == 0      \* retryAt and lastSuccess: no time; the clock starts at 1

\* A plausible bug: a write reads one register too many back.
LengthOffByOne(k) == IF k = "write" THEN 2 * NWrites + 1 ELSE NBlocks

\* How many requests a task of kind k sends: a read its blocks, a write each
\* setting and then each of their read-backs, a command and a probe one.
Length(k) ==
    IF k = "read" THEN NBlocks ELSE IF k = "write" THEN 2 * NWrites ELSE 1

\* Request i of a task of kind k writes to the device.
Writes(k, i) == k = "command" \/ (k = "write" /\ i <= NWrites)

\* min(initialMs * 2 ** (failures - 1), maxMs)
Delay(n) ==
    LET doubled == BackoffInitial * 2^(n - 1)
    IN  IF doubled < BackoffMax THEN doubled ELSE BackoffMax

Settled(t) == pc[t] = "done"
Running(t) == pc[t] \in {"connecting", "waiting"}
Connected  == socket # 0

\* A plausible bug: the backoff ends a tick early.
InBackoffShort == retryAt # Null /\ now + 1 < retryAt

InBackoff  == retryAt # Null /\ now < retryAt

\* LoggerLink.status().state
Status ==
    IF lastError
    THEN IF InBackoff THEN "backoff" ELSE "offline"
    ELSE IF lastSuccess = Null THEN "offline" ELSE "online"

-----------------------------------------------------------------------------

Init ==
    /\ pc = [t \in Tasks |-> "idle"]
    /\ kind = [t \in Tasks |-> "read"]
    /\ step = [t \in Tasks |-> 0]
    /\ outcome = [t \in Tasks |-> "none"]
    /\ tail = NoTask
    /\ after = [t \in Tasks |-> NoTask]
    /\ ord = [t \in Tasks |-> 0]
    /\ count = 0
    /\ failures = 0 /\ retryAt = Null /\ lastError = FALSE /\ lastSuccess = Null
    /\ contact = "never"
    /\ now = 1
    /\ socket = 0 /\ sockets = 0
    /\ requests = {} /\ replies = {}
    /\ log = [s \in Settings |-> <<Panel>>]
    /\ confirmed = [t \in Tasks |-> [s \in Settings |-> Panel]]
    /\ closed = FALSE

\* read, write, command or probe is called: the task is chained behind the
\* last one, whether that has settled or not.
Call(t, k) ==
    /\ pc[t] = "idle"
    /\ pc' = [pc EXCEPT ![t] = "queued"]
    /\ kind' = [kind EXCEPT ![t] = k]
    /\ after' = [after EXCEPT ![t] = tail]
    /\ tail' = t
    /\ count' = count + 1
    /\ ord' = [ord EXCEPT ![t] = count + 1]
    /\ UNCHANGED <<step, outcome, statusVars, now, socket, sockets, wireVars,
                   log, confirmed, closed>>

\* A write or a command with a value the Register map refuses throws before
\* anything is chained.
CallInvalid(t, k) ==
    /\ pc[t] = "idle"
    /\ k \in {"write", "command"}
    /\ pc' = [pc EXCEPT ![t] = "done"]
    /\ kind' = [kind EXCEPT ![t] = k]
    /\ outcome' = [outcome EXCEPT ![t] = "invalid"]
    /\ UNCHANGED <<step, chainVars, statusVars, now, socket, sockets, wireVars,
                   log, confirmed, closed>>

-----------------------------------------------------------------------------
(* Steps shared by the actions below.                                      *)

Settle(t, how) ==
    /\ pc' = [pc EXCEPT ![t] = "done"]
    /\ outcome' = [outcome EXCEPT ![t] = how]

\* transport.exchange: task t writes request i on connection c and waits.
Send(t, i, c) ==
    /\ pc' = [pc EXCEPT ![t] = "waiting"]
    /\ step' = [step EXCEPT ![t] = i]
    /\ requests' = requests \cup {[conn |-> c, task |-> t, step |-> i]}

\* A plausible bug: a failed exchange leaves the connection open.
FailKeepsSocket(t) ==
    /\ failures' = failures + 1
    /\ retryAt' = now + Delay(failures + 1)
    /\ lastError' = TRUE
    /\ contact' = "failed"
    /\ Settle(t, "unavailable")
    /\ UNCHANGED <<lastSuccess, socket>>

\* A plausible bug: the error of a failure is not recorded.
FailWithoutError(t) ==
    /\ socket' = 0
    /\ failures' = failures + 1
    /\ retryAt' = now + Delay(failures + 1)
    /\ contact' = "failed"
    /\ Settle(t, "unavailable")
    /\ UNCHANGED <<lastSuccess, lastError>>

\* LoggerLink.fail on a TransportError.
Fail(t) ==
    /\ socket' = 0
    /\ failures' = failures + 1
    /\ retryAt' = now + Delay(failures + 1)
    /\ lastError' = TRUE
    /\ contact' = "failed"
    /\ Settle(t, "unavailable")
    /\ UNCHANGED lastSuccess

\* LoggerLink.markSuccess
MarkSuccess ==
    /\ failures' = 0 /\ retryAt' = Null /\ lastError' = FALSE
    /\ lastSuccess' = now

-----------------------------------------------------------------------------

\* A plausible bug: the queue waits for the last task to start, not to settle.
TurnEarly(t) ==
    pc[t] = "queued" /\ (after[t] # NoTask => pc[after[t]] # "queued")

\* Every task chained earlier has settled: t runs and ensures the connection.
Turn(t) == pc[t] = "queued" /\ (after[t] # NoTask => Settled(after[t]))

StartRefused(t) ==
    /\ Turn(t)
    /\ InBackoff
    /\ Settle(t, "unavailable")
    /\ UNCHANGED <<kind, step, chainVars, statusVars, now, socket, sockets,
                   wireVars, log, confirmed, closed>>

StartConnected(t) ==
    /\ Turn(t)
    /\ ~InBackoff /\ Connected
    /\ Send(t, 1, socket)
    /\ UNCHANGED <<kind, outcome, chainVars, statusVars, now, socket, sockets,
                   replies, log, confirmed, closed>>

StartConnecting(t) ==
    /\ Turn(t)
    /\ ~InBackoff /\ ~Connected
    /\ pc' = [pc EXCEPT ![t] = "connecting"]
    /\ UNCHANGED <<kind, step, outcome, chainVars, statusVars, now, socket,
                   sockets, wireVars, log, confirmed, closed>>

\* The handshake was answered and the TCP connection opened; the task's first
\* request follows at once.
ConnectOk(t) ==
    /\ pc[t] = "connecting"
    /\ sockets' = sockets + 1
    /\ socket' = sockets + 1
    /\ Send(t, 1, sockets + 1)
    /\ UNCHANGED <<kind, outcome, chainVars, statusVars, now, replies, log,
                   confirmed, closed>>

\* The handshake or the connection failed or timed out.
ConnectFail(t) ==
    /\ pc[t] = "connecting"
    /\ Fail(t)
    /\ UNCHANGED <<kind, step, chainVars, now, sockets, wireVars, log,
                   confirmed, closed>>

\* A plausible bug: an exchange has no timer and only notices a closed connection.
ExchangeFailNoTimer(t) ==
    /\ pc[t] = "waiting" /\ ~Connected
    /\ Fail(t)
    /\ UNCHANGED <<kind, step, chainVars, now, sockets, wireVars, log,
                   confirmed, closed>>

\* Timed out, reset or closed by the logger during an exchange.
ExchangeFail(t) ==
    /\ pc[t] = "waiting"
    /\ Fail(t)
    /\ UNCHANGED <<kind, step, chainVars, now, sockets, wireVars, log,
                   confirmed, closed>>

\* A plausible bug: every task skips what the logger refuses.
SurvivesRefusal(t, r) == r.ok \in BOOLEAN

\* A refused or garbled reply ends a task with LoggerFrameError, except that a
\* read leaves that block out.
Survives(t, r) == kind[t] = "read" \/ r.ok

\* A reply frame arrives while t waits.  After the last request the task marks
\* the success.
Reply(t) ==
    /\ pc[t] = "waiting"
    /\ \E r \in replies :
         LET kept == Survives(t, r)
             last == step[t] = Length(kind[t])
             back == step[t] - NWrites
         IN  /\ Connected /\ r.conn = socket
             /\ replies' = replies \ {r}
             /\ contact' = "worked"
             /\ confirmed' =
                  IF kind[t] = "write" /\ r.ok /\ back \in Settings
                  THEN [confirmed EXCEPT ![t][back] = r.value]
                  ELSE confirmed
             /\ \/ /\ kept /\ ~last
                   /\ Send(t, step[t] + 1, socket)
                   /\ UNCHANGED <<outcome, failures, retryAt, lastError,
                                  lastSuccess>>
                \/ /\ kept /\ last
                   /\ Settle(t, "ok")
                   /\ MarkSuccess
                   /\ UNCHANGED <<step, requests>>
                \/ /\ ~kept
                   /\ Settle(t, "refused")
                   /\ UNCHANGED <<step, requests, failures, retryAt,
                                  lastError, lastSuccess>>
    /\ UNCHANGED <<kind, chainVars, now, socket, sockets, log, closed>>

\* An error on the idle connection marks it dead.
IdleDeath ==
    /\ Connected
    /\ \A t \in Tasks : ~Running(t)
    /\ socket' = 0
    /\ UNCHANGED <<pc, kind, step, outcome, chainVars, statusVars, now,
                   sockets, wireVars, log, confirmed, closed>>

\* close(), by LoggerLinks.remove: an exchange under way loses its listeners
\* and ends by its timer, a connect under way goes on.
Close ==
    /\ ~closed
    /\ closed' = TRUE
    /\ socket' = 0
    /\ UNCHANGED <<pc, kind, step, outcome, chainVars, statusVars, now,
                   sockets, wireVars, log, confirmed>>

\* The device handles a request, even of a connection given up meanwhile.  A
\* write it applies may still be answered by a garbled frame.
DeviceHandle ==
    /\ \E m \in requests, applied, ok \in BOOLEAN :
         LET k == kind[m.task]
             stored == applied /\ Writes(k, m.step)
             s == IF m.step <= NWrites THEN m.step ELSE m.step - NWrites
         IN  /\ Writes(k, m.step) /\ ok => applied
             /\ requests' = requests \ {m}
             /\ log' = IF stored /\ k = "write"
                       THEN [log EXCEPT ![s] = Append(@, m.task)] ELSE log
             /\ replies' = replies \cup
                  {[conn |-> m.conn, task |-> m.task, step |-> m.step,
                    ok |-> ok,
                    value |-> IF k = "write" THEN log[s][Len(log[s])]
                              ELSE Panel]}
    /\ UNCHANGED <<pc, kind, step, outcome, chainVars, statusVars, now, socket,
                   sockets, confirmed, closed>>

\* A setting is changed on the inverter's panel.
PanelEdit ==
    /\ \E s \in Settings :
         /\ Cardinality({i \in DOMAIN log[s] : log[s][i] = Panel}) <= PanelEdits
         /\ log' = [log EXCEPT ![s] = Append(@, Panel)]
    /\ UNCHANGED <<pc, kind, step, outcome, chainVars, statusVars, now, socket,
                   sockets, wireVars, confirmed, closed>>

Tick ==
    /\ now < MaxTime
    /\ now' = now + 1
    /\ UNCHANGED <<pc, kind, step, outcome, chainVars, statusVars, socket,
                   sockets, wireVars, log, confirmed, closed>>

Start(t)   == StartRefused(t) \/ StartConnected(t) \/ StartConnecting(t)
Connect(t) == ConnectOk(t) \/ ConnectFail(t)

Next ==
    \/ \E t \in Tasks :
         \/ \E k \in Calls : Call(t, k) \/ CallInvalid(t, k)
         \/ Start(t) \/ Connect(t) \/ ExchangeFail(t) \/ Reply(t)
    \/ IdleDeath \/ Close \/ DeviceHandle \/ PanelEdit \/ Tick

Spec == Init /\ [][Next]_vars

\* Promise callbacks run, and every handshake, connect and exchange has a
\* timer of its own; nothing is assumed of the device.
Fairness ==
    \A t \in Tasks :
        WF_vars(Start(t)) /\ WF_vars(Connect(t)) /\ WF_vars(ExchangeFail(t))

FairSpec == Spec /\ Fairness
-----------------------------------------------------------------------------
(* Properties.                                                             *)

Longest    == IF NBlocks < 2 * NWrites THEN 2 * NWrites ELSE NBlocks
Frame      == [conn : Nat, task : Tasks, step : 1..Longest]
ReplyFrame == [conn : Nat, task : Tasks, step : 1..Longest, ok : BOOLEAN,
               value : Writers]

\* The state has the shape the code gives it.
TypeOK ==
    /\ pc \in [Tasks -> {"idle", "queued", "connecting", "waiting", "done"}]
    /\ kind \in [Tasks -> Kinds]
    /\ step \in [Tasks -> 0..Longest]
    /\ outcome \in [Tasks -> {"none", "ok", "refused", "unavailable", "invalid"}]
    /\ tail \in Tasks \cup {NoTask}
    /\ after \in [Tasks -> Tasks \cup {NoTask}]
    /\ ord \in [Tasks -> Nat]
    /\ count \in Nat
    /\ failures \in Nat /\ retryAt \in Int /\ lastError \in BOOLEAN
    /\ lastSuccess \in Nat /\ contact \in {"never", "worked", "failed"}
    /\ now \in Nat
    /\ socket \in Nat /\ sockets \in Nat
    /\ requests \subseteq Frame
    /\ replies \subseteq ReplyFrame
    /\ log \in [Settings -> Seq(Writers)]
    /\ confirmed \in [Tasks -> [Settings -> Writers]]
    /\ closed \in BOOLEAN

\* serialize: no task touches the wire or settles before every task called
\* earlier has settled, however those ended; in particular two never run at
\* the same time.
Serialized ==
    \A t, u \in Tasks :
        0 < ord[u] /\ ord[u] < ord[t] /\ pc[t] # "queued" => Settled(u)

\* The link implements the service its callers rely on: calls are served one
\* at a time in the order they were made, each answered once.
Phase ==
    [t \in Tasks |->
        CASE pc[t] = "idle"   -> "new"
          [] pc[t] = "queued" -> "waiting"
          [] Running(t)       -> "active"
          [] Settled(t)       -> "answered"]

Fifo == INSTANCE FifoService WITH place <- ord, phase <- Phase

ServesInOrder == Fifo!FifoSpec

\* The protocol cannot tell which request a reply belongs to.  Whatever may
\* still arrive on the open connection, after timeouts, late answers, idle
\* errors and reconnects, answers the one request being waited for.
RepliesMatch ==
    \A m \in requests \cup replies :
        Connected /\ m.conn = socket =>
            /\ pc[m.task] = "waiting"
            /\ m.step = step[m.task]

\* The backoff delays of the first n failures in a row, together.
Elapsed[n \in Nat] == IF n = 0 THEN 0 ELSE Elapsed[n - 1] + Delay(n)

\* An unreachable logger is not hammered: n failures in a row take at least
\* the n - 1 backoff delays between them, whichever tasks ran into them.
Paced == failures > 0 => now >= 1 + Elapsed[failures - 1]

\* A write that succeeds was applied, every setting of it, and the values it
\* returns are ones the device held afterwards.
ConfirmedHeld ==
    \A t \in Tasks :
        kind[t] = "write" /\ outcome[t] = "ok" =>
            \A s \in Settings :
                \E i \in DOMAIN log[s] :
                    /\ log[s][i] = t
                    /\ \E j \in i..Len(log[s]) : log[s][j] = confirmed[t][s]

\* status(): "online" is only said after contact that worked and "backoff"
\* only after contact that failed.
StatusHonest ==
    /\ Status = "online" => contact = "worked"
    /\ Status = "backoff" => contact = "failed"

\* Every call settles, whatever the logger does.
EveryCallSettles == \A t \in Tasks : pc[t] = "queued" ~> Settled(t)
=============================================================================
