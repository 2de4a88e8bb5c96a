----------------------------- MODULE BmsReader -----------------------------
(***************************************************************************)
(* The Bluetooth reader of a JK battery (bms-reader/): a loop that connects,*)
(* runs one session until it ends and connects again with a growing delay,  *)
(* and the session, which subscribes, asks for device info, then for cell   *)
(* info until the battery streams it, and watches for silence.              *)
(*                                                                          *)
(* A session's `end` and `stop` clear its timer, but the timer starts only  *)
(* when the setup's awaits are over: a connection lost in between ends the  *)
(* session first and its timer then runs on.  Every session of the process  *)
(* closes the same peripheral.  One unit of time is the time between two    *)
(* checks of a timer that matter.                                           *)
(***************************************************************************)
EXTENDS Integers, FiniteSets

CONSTANTS
    MaxSessions,   \* connections made
    FirstInfo,     \* FIRST_CELL_INFO_MS, in units
    MaxBackoff     \* RECONNECT_MAX_MS, in first delays

ASSUME ReaderAssumption ==
    /\ MaxSessions \in Nat \ {0} /\ FirstInfo \in Nat \ {0} /\ MaxBackoff \in Nat \ {0}

VARIABLES
    loop,      \* where the reconnect loop waits
    delay,     \* its next delay, in first delays
    cur,       \* the newest session, 0 before any
    session,   \* per session: its own state
    linkUp,    \* whether the peripheral is connected
    aborted,   \* a stop signal came
    cut        \* history: sessions whose connection another session closed

readerVars == <<loop, delay, cur, session, linkUp, aborted, cut>>

Sessions == 1..MaxSessions
\* `quiet`: nothing was heard since the last check, or since it began.
NewSession == [done |-> FALSE, setup |-> "subscribing", timer |-> FALSE,
               streaming |-> FALSE, resent |-> FALSE, quiet |-> 1, age |-> 0]

ReaderInit ==
    /\ loop = "connect" /\ delay = 1 /\ cur = 0
    /\ session = [i \in Sessions |-> [NewSession EXCEPT !.setup = "none"]]
    /\ linkUp = FALSE /\ aborted = FALSE /\ cut = {}

(***************************************************************************)
(* connectBms finds the peripheral, connects and discovers within its       *)
(* timeouts, or throws; a connection that comes too late is closed.  A      *)
(* session that starts after the stop signal stops at once.                 *)
(***************************************************************************)
Connect ==
    /\ loop = "connect" /\ ~aborted /\ cur < MaxSessions
    /\ cur' = cur + 1
    /\ session' = [session EXCEPT ![cur + 1] = NewSession]
    /\ linkUp' = TRUE /\ loop' = "session"
    /\ UNCHANGED <<delay, aborted, cut>>

ConnectFails ==
    /\ loop = "connect" /\ ~aborted
    /\ loop' = "sleep" /\ linkUp' = FALSE
    /\ UNCHANGED <<delay, cur, session, aborted, cut>>

\* A plausible bug: every reason to end closes, whether or not it already ended.
EndAgain(i, s, close) ==
    /\ session' = [session EXCEPT ![i] = [s EXCEPT !.done = TRUE, !.timer = FALSE]]
    /\ linkUp' = (linkUp /\ ~close)
    /\ cut' = IF close /\ i # cur THEN cut \union {cur} ELSE cut

(* `end`: a session ends once; the connection it closes is the peripheral's. *)
End(i, s, close) ==
    IF s.done
    THEN session' = [session EXCEPT ![i] = s] /\ UNCHANGED <<linkUp, cut>>
    ELSE /\ session' = [session EXCEPT ![i] = [s EXCEPT !.done = TRUE, !.timer = FALSE]]
         /\ linkUp' = (linkUp /\ ~close)
         /\ cut' = IF close /\ i # cur THEN cut \union {cur} ELSE cut

InSetup(i) == session[i].setup \in {"subscribing", "asking"}

\* A plausible bug: the watch is left to the first frame.
SetUnwatched(s) == [s EXCEPT !.setup = "set"]
WatchFromNow(s) == [s EXCEPT !.setup = "set", !.timer = TRUE]

(***************************************************************************)
(* The setup's awaits settle: subscribing, then the device-info request,    *)
(* after which the timer starts, whatever happened to the session meanwhile.*)
(* Neither has a timeout: the radio may leave a session here for ever.      *)
(***************************************************************************)
Setup(i) ==
    LET s == session[i] IN
    /\ InSetup(i)
    /\ \/ /\ s.setup = "subscribing"
          /\ session' = [session EXCEPT ![i].setup = "asking"]
          /\ UNCHANGED <<linkUp, cut>>
       \/ /\ s.setup = "asking"
          /\ session' = [session EXCEPT ![i] = WatchFromNow(s)]
          /\ UNCHANGED <<linkUp, cut>>
       \/ End(i, [s EXCEPT !.setup = "failed"], TRUE)
    /\ UNCHANGED <<loop, delay, cur, aborted>>

(* A frame reaches the session of the connection: any whole frame counts as *)
(* heard, and a cell-info frame as streaming even when it cannot be decoded.*)
HearFrame(i, cellInfo) ==
    LET s == session[i] IN
    /\ i = cur /\ linkUp /\ s.setup \in {"asking", "set"}
    /\ session' = [session EXCEPT ![i] = [s EXCEPT !.quiet = 0, !.resent = FALSE,
                                                  !.streaming = s.streaming \/ cellInfo]]
    /\ UNCHANGED <<loop, delay, cur, linkUp, aborted, cut>>

AskAgain(i, s, sent) ==
    IF sent THEN session' = [session EXCEPT ![i] = s] /\ UNCHANGED <<linkUp, cut>>
            ELSE End(i, s, TRUE)

\* A plausible bug: that it asked again already is not remembered.
ForeverAsking(i, sent) ==
    LET s == [session[i] EXCEPT !.quiet = 1,
                                !.age = IF @ < FirstInfo THEN @ + 1 ELSE @] IN
    /\ session[i].timer
    /\ IF ~s.streaming
       THEN IF s.age >= FirstInfo THEN End(i, s, TRUE) ELSE AskAgain(i, s, sent)
       ELSE AskAgain(i, s, sent)
    /\ UNCHANGED <<loop, delay, cur, aborted>>

(***************************************************************************)
(* The timer's check.  Before streaming: give up after FirstInfo units, ask *)
(* for cell info again until then.  While streaming: a unit of silence asks *)
(* again once, a second one ends the session.                               *)
(***************************************************************************)
Check(i, sent) ==
    LET s == [session[i] EXCEPT !.quiet = 1,
                                !.age = IF @ < FirstInfo THEN @ + 1 ELSE @] IN
    /\ session[i].timer
    /\ IF ~s.streaming
       THEN IF s.age >= FirstInfo THEN End(i, s, TRUE) ELSE AskAgain(i, s, sent)
       ELSE IF s.resent THEN End(i, s, TRUE)
            ELSE AskAgain(i, [s EXCEPT !.resent = TRUE], sent)
    /\ UNCHANGED <<loop, delay, cur, aborted>>

(* The peripheral goes away; the session hears of it in a later step.       *)
Disconnect ==
    /\ linkUp /\ linkUp' = FALSE
    /\ UNCHANGED <<loop, delay, cur, session, aborted, cut>>

HearDisconnect(i) ==
    /\ i = cur /\ ~linkUp /\ ~session[i].done
    /\ End(i, session[i], FALSE)
    /\ UNCHANGED <<loop, delay, cur, aborted>>

(* The stop signal: the session in hand closes and resolves.                *)
Abort ==
    /\ ~aborted /\ aborted' = TRUE
    /\ IF loop = "session" THEN End(cur, session[cur], TRUE)
                           ELSE UNCHANGED <<session, linkUp, cut>>
    /\ UNCHANGED <<loop, delay, cur>>

(* The loop goes on when the session is over: a session of a unit or more   *)
(* is healthy and starts the delays over.                                   *)
Resume ==
    /\ loop = "session" /\ session[cur].done
    /\ delay' = IF session[cur].age > 0 THEN 1 ELSE delay
    /\ loop' = IF aborted THEN "stopped" ELSE "sleep"
    /\ UNCHANGED <<cur, session, linkUp, aborted, cut>>

Wake ==
    /\ loop = "sleep"
    /\ delay' = IF 2 * delay < MaxBackoff THEN 2 * delay ELSE MaxBackoff
    /\ loop' = IF aborted THEN "stopped" ELSE "connect"
    /\ UNCHANGED <<cur, session, linkUp, aborted, cut>>

StopConnecting ==
    /\ loop = "connect" /\ aborted
    /\ loop' = "stopped"
    /\ UNCHANGED <<delay, cur, session, linkUp, aborted, cut>>

ReaderNext ==
    \/ Connect \/ ConnectFails \/ Disconnect \/ Abort \/ Resume \/ Wake \/ StopConnecting
    \/ \E i \in Sessions :
          Setup(i) \/ HearDisconnect(i) \/ \E b \in BOOLEAN : Check(i, b) \/ HearFrame(i, b)

(* Type correctness.                                                        *)
ReaderTypeOK ==
    /\ loop \in {"connect", "session", "sleep", "stopped"}
    /\ delay \in 1..MaxBackoff /\ cur \in 0..MaxSessions
    /\ session \in [Sessions -> [done : BOOLEAN, timer : BOOLEAN, streaming : BOOLEAN,
                                 setup : {"none", "subscribing", "asking", "set", "failed"},
                                 resent : BOOLEAN, quiet : 0..1, age : 0..FirstInfo]]
    /\ linkUp \in BOOLEAN /\ aborted \in BOOLEAN /\ cut \subseteq Sessions

(***************************************************************************)
(* A session that ended, with a timer that outlived it or a setup that      *)
(* failed late, never closes the connection of the session that follows     *)
(* (bms-session.ts `end`, whose close is the shared peripheral's).          *)
(***************************************************************************)
OwnClose == cut = {}

\* The loop is held by a session whose battery is silent, or gone; and by one
\* that knows: its connection is lost, or its timer runs.
Silent == loop = "session" /\ (~linkUp \/ session[cur].quiet = 1)
Watched == loop = "session" /\ (~linkUp \/ session[cur].timer)
=============================================================================
