-------------------------- MODULE SettingsService ---------------------------
(***************************************************************************)
(* The settings of one inverter at one logger address: the cache, the      *)
(* shared reads, the checked writes with their read-back, and the history  *)
(* of what was read.  The Logger link is the queue FifoService promises.   *)
(*                                                                         *)
(* Two settings stand for a pair that a settings rule relates, "the first  *)
(* must be greater than the second".                                       *)
(***************************************************************************)
EXTENDS Integers, Sequences, FiniteSets

CONSTANTS
    Ops,          \* calls of get, refresh and apply, each made once
    None,
    Values,       \* values a setting can have
    Changes,      \* what apply is called with: per setting its value, or
                  \* Missing where it is not changed
    Garbled,      \* the sets of settings whose block the logger may garble
    PanelEdits,   \* bound of the changes made on the inverter's panel
    MaxWrites     \* bound of the calls of apply

ASSUME SettingsConstants ==
    /\ None \notin Ops /\ None \notin Ops \X {"plain", "written"}
    /\ Values \subseteq Nat \ {0}
    /\ Changes \subseteq [1..2 -> Values \cup {0}] \ {[s \in 1..2 |-> 0]}
    /\ {} \in Garbled /\ Garbled \subseteq SUBSET (1..2)
    /\ PanelEdits \in Nat /\ MaxWrites \in Nat

VARIABLES
    pc,        \* per call: "idle", "reading", "writing", "rereading" or "done"
    kind,      \* per call: "read" (get and refresh) or "apply"
    changes,   \* per apply: setting -> value, Missing where not changed
    awaits,    \* per call: the read whose promise it awaits
    result,    \* per call: the snapshot's values it returned
    outcome,   \* per call: "none", "ok", "failed" or "rule"
    read,      \* per read: where it is, what it read and when
    inFlight,  \* SettingsService.inFlight for this key
    cache,     \* SettingsService.cache for this key
    stale,     \* the cached snapshot is older than maxAgeMs
    queue,     \* the link's tasks, the first being served
    written,   \* settings the write being served has written
    device,    \* per setting: every value it had, with who wrote it
    clock,     \* reads completed so far: the readAt of the last one
    rows       \* the settings history table

callVars == <<pc, kind, changes, awaits, result, outcome>>
readVars == <<read, inFlight, cache, stale>>
linkVars == <<queue, written, device, clock>>
vars == <<callVars, readVars, linkVars, rows>>

Settings == 1..2
Missing  == 0           \* a value left out of a reading
Nothing  == [s \in Settings |-> Missing]
Panel    == None        \* who writes what no call of the app wrote
Reading  == [Settings -> Values \cup {Missing}]

\* Everything apply may be called with: a change of one setting or both.
AnyChange == Reading \ {Nothing}

\* An operation may start a shared read, and an apply a read-back of its own.
ReadIds == Ops \X {"plain", "written"}
Written(r) == r[2] = "written"

Pending(r) == read[r].at \in {"link", "look", "store"}
OnLink(r)  == read[r].at = "link"
Done(r)    == read[r].at \in {"settled", "unrecorded"}

Held(s) == device[s][Len(device[s])].value

\* checkSettings for the one rule: a value the reading lacks is not checked.
Obeys(values) ==
    \/ values[1] = Missing \/ values[2] = Missing
    \/ values[1] > values[2]

Merge(values, ch) ==
    [s \in Settings |-> IF ch[s] = Missing THEN values[s] ELSE ch[s]]

-----------------------------------------------------------------------------

Init ==
    /\ pc = [o \in Ops |-> "idle"]
    /\ kind = [o \in Ops |-> "read"]
    /\ changes = [o \in Ops |-> Nothing]
    /\ awaits = [o \in Ops |-> <<None, "plain">>]
    /\ result = [o \in Ops |-> Nothing]
    /\ outcome = [o \in Ops |-> "none"]
    /\ read = [r \in ReadIds |->
                 [at |-> "none", values |-> Nothing, readAt |-> 0, row |-> 0]]
    /\ inFlight = None
    /\ cache = [values |-> Nothing, readAt |-> 0]
    /\ stale = TRUE
    /\ queue = <<>> /\ written = {} /\ clock = 0
    /\ \E v \in [Settings -> Values] :
         /\ Obeys(v)
         /\ device = [s \in Settings |-> <<[value |-> v[s], by |-> Panel]>>]
    /\ rows = <<>>

Finish(o, how, values) ==
    /\ pc' = [pc EXCEPT ![o] = "done"]
    /\ outcome' = [outcome EXCEPT ![o] = how]
    /\ result' = [result EXCEPT ![o] = values]

\* Starts a read: it becomes the shared one, whichever was before it.
StartRead(o, r) ==
    /\ read' = [read EXCEPT ![r].at = "link"]
    /\ inFlight' = r
    /\ awaits' = [awaits EXCEPT ![o] = r]

\* refresh without `written`: shares the read in flight, or starts one.
Refresh(o) ==
    /\ pc' = [pc EXCEPT ![o] = "reading"]
    /\ IF inFlight # None
       THEN /\ awaits' = [awaits EXCEPT ![o] = inFlight]
            /\ UNCHANGED <<read, inFlight, queue>>
       ELSE /\ StartRead(o, <<o, "plain">>)
            /\ queue' = Append(queue, [task |-> "read", read |-> <<o, "plain">>])

\* apply, once get has answered: the rules refuse the changes or the write is
\* chained on the link.
CheckAndWrite(o, values, ch) ==
    \/ /\ ~Obeys(Merge(values, ch))
       /\ Finish(o, "rule", Nothing)
       /\ UNCHANGED queue
    \/ /\ Obeys(Merge(values, ch))
       /\ pc' = [pc EXCEPT ![o] = "writing"]
       /\ queue' = Append(queue, [task |-> "write", op |-> o])
       /\ UNCHANGED <<outcome, result>>

-----------------------------------------------------------------------------
(* The calls.                                                              *)

Get(o) ==
    /\ pc[o] = "idle"
    /\ IF stale
       THEN Refresh(o) /\ UNCHANGED <<result, outcome>>
       ELSE /\ Finish(o, "ok", cache.values)
            /\ UNCHANGED <<awaits, read, inFlight, queue>>
    /\ UNCHANGED <<kind, changes, cache, stale, written, device, clock, rows>>

ForcedRefresh(o) ==
    /\ pc[o] = "idle"
    /\ Refresh(o)
    /\ UNCHANGED <<kind, changes, result, outcome, cache, stale, written, device,
                   clock, rows>>

Apply(o, ch) ==
    /\ pc[o] = "idle"
    /\ Cardinality({p \in Ops : kind[p] = "apply"}) < MaxWrites
    /\ kind' = [kind EXCEPT ![o] = "apply"]
    /\ changes' = [changes EXCEPT ![o] = ch]
    /\ IF stale
       THEN Refresh(o) /\ UNCHANGED <<result, outcome>>
       ELSE /\ CheckAndWrite(o, cache.values, ch)
            /\ UNCHANGED <<awaits, read, inFlight>>
    /\ UNCHANGED <<cache, stale, written, device, clock, rows>>

\* The read a call awaits has settled, its finally included.
Resume(o) ==
    /\ pc[o] \in {"reading", "rereading"} /\ ~Pending(awaits[o])
    /\ LET r == awaits[o] IN
         \/ /\ read[r].at = "failed"
            /\ Finish(o, "failed", Nothing)
            /\ UNCHANGED queue
         \/ /\ Done(r)
            /\ kind[o] = "read" \/ pc[o] = "rereading"
            /\ Finish(o, "ok", read[r].values)
            /\ UNCHANGED queue
         \/ /\ Done(r)
            /\ kind[o] = "apply" /\ pc[o] = "reading"
            /\ CheckAndWrite(o, read[r].values, changes[o])
    /\ UNCHANGED <<kind, changes, awaits, readVars, written, device, clock, rows>>

-----------------------------------------------------------------------------
(* The link serves its first task.                                         *)

Serving(task) == queue # <<>> /\ Head(queue).task = task

\* The read of the settings group ends; blocks the logger garbled are left
\* out of it.  The cache is set before the history is.
ReadServed ==
    /\ Serving("read")
    /\ \E lost \in Garbled :
         LET r == Head(queue).read
             values == [s \in Settings |-> IF s \in lost THEN Missing ELSE Held(s)]
         IN  /\ read' = [read EXCEPT ![r] =
                           [@ EXCEPT !.at = "look", !.values = values,
                                     !.readAt = clock + 1]]
             /\ cache' = [values |-> values, readAt |-> clock + 1]
    /\ stale' = FALSE
    /\ clock' = clock + 1
    /\ queue' = Tail(queue)
    /\ UNCHANGED <<callVars, inFlight, written, device, rows>>

\* The link is down or backing off: the read's promise is rejected.
ReadFails ==
    /\ Serving("read")
    /\ LET r == Head(queue).read IN
         /\ read' = [read EXCEPT ![r].at = "failed"]
         /\ inFlight' = IF inFlight = r THEN None ELSE inFlight
    /\ queue' = Tail(queue)
    /\ UNCHANGED <<callVars, cache, stale, written, device, clock, rows>>

\* The next changed setting is written to the device.
WriteOne ==
    /\ Serving("write")
    /\ LET o == Head(queue).op
           left == {s \in Settings : changes[o][s] # Missing} \ written
       IN \E s \in left :
            /\ \A other \in left : s <= other
            /\ device' = [device EXCEPT ![s] =
                            Append(@, [value |-> changes[o][s], by |-> o])]
            /\ written' = written \cup {s}
    /\ UNCHANGED <<callVars, readVars, queue, clock, rows>>

\* A plausible bug: the read after a write shares the read in flight.
WriteServedShared ==
    /\ Serving("write")
    /\ LET o == Head(queue).op IN
         /\ \A s \in Settings : changes[o][s] # Missing => s \in written
         /\ pc' = [pc EXCEPT ![o] = "rereading"]
         /\ IF inFlight = None
            THEN /\ StartRead(o, <<o, "written">>)
                 /\ queue' = Append(Tail(queue),
                                    [task |-> "read", read |-> <<o, "written">>])
            ELSE /\ awaits' = [awaits EXCEPT ![o] = inFlight]
                 /\ queue' = Tail(queue)
                 /\ UNCHANGED <<read, inFlight>>
    /\ written' = {}
    /\ UNCHANGED <<kind, changes, result, outcome, cache, stale, device, clock,
                   rows>>

\* Every change is written and was read back: apply re-reads all settings.
WriteServed ==
    /\ Serving("write")
    /\ LET o == Head(queue).op
           r == <<o, "written">>
       IN  /\ \A s \in Settings : changes[o][s] # Missing => s \in written
           /\ pc' = [pc EXCEPT ![o] = "rereading"]
           /\ StartRead(o, r)
           /\ queue' = Append(Tail(queue), [task |-> "read", read |-> r])
    /\ written' = {}
    /\ UNCHANGED <<kind, changes, result, outcome, cache, stale, device, clock,
                   rows>>

\* A plausible bug: the position in the list of changes survives the failure.
WriteFailsKeepingPlace ==
    /\ Serving("write")
    /\ Finish(Head(queue).op, "failed", Nothing)
    /\ queue' = Tail(queue)
    /\ UNCHANGED <<kind, changes, awaits, readVars, written, device, clock, rows>>

\* The link fails, or the inverter refuses, after any of the writes.
WriteFails ==
    /\ Serving("write")
    /\ Finish(Head(queue).op, "failed", Nothing)
    /\ queue' = Tail(queue)
    /\ written' = {}
    /\ UNCHANGED <<kind, changes, awaits, readVars, device, clock, rows>>

-----------------------------------------------------------------------------
(* SettingsHistory.record: the latest row is looked up, then updated or    *)
(* followed by a new one.                                                  *)

\* A plausible bug: the row added last, by id.
LatestById == Len(rows)

\* The row with the latest readAt, 0 when there is none.
Latest ==
    IF rows = <<>> THEN 0
    ELSE CHOOSE i \in DOMAIN rows :
           \A j \in DOMAIN rows : rows[j].readAt <= rows[i].readAt

Look(r) ==
    /\ read[r].at = "look"
    /\ read' = [read EXCEPT ![r].at = "store", ![r].row = Latest]
    /\ UNCHANGED <<callVars, inFlight, cache, stale, linkVars, rows>>

\* The read's promise settles; its finally forgets it if it is still shared.
Settle(r, how) ==
    /\ read' = [read EXCEPT ![r].at = how, ![r].row = 0]
    /\ inFlight' = IF inFlight = r THEN None ELSE inFlight

\* A plausible bug: the snapshot is cached again once its history is stored.
StoreThenCache(r) ==
    /\ read[r].at = "store"
    /\ cache' = [values |-> read[r].values, readAt |-> read[r].readAt]
    /\ Settle(r, "settled")
    /\ UNCHANGED <<callVars, stale, linkVars, rows>>

Store(r) ==
    /\ read[r].at = "store"
    /\ LET row == read[r].row IN
         IF ~Written(r) /\ row # 0 /\ rows[row].values = read[r].values
         THEN rows' = [rows EXCEPT ![row].lastSeenAt = read[r].readAt]
         ELSE rows' = Append(rows, [values |-> read[r].values,
                                    readAt |-> read[r].readAt,
                                    lastSeenAt |-> read[r].readAt])
    /\ Settle(r, "settled")
    /\ UNCHANGED <<callVars, cache, stale, linkVars>>

\* A history error is logged; the read succeeds all the same.
RecordFails(r) ==
    /\ read[r].at \in {"look", "store"}
    /\ Settle(r, "unrecorded")
    /\ UNCHANGED <<callVars, cache, stale, linkVars, rows>>

-----------------------------------------------------------------------------

\* maxAgeMs passes.
Expire ==
    /\ ~stale
    /\ stale' = TRUE
    /\ UNCHANGED <<callVars, read, inFlight, cache, linkVars, rows>>

PanelEdit ==
    /\ LET OnPanel(s) ==
               Cardinality({i \in 2..Len(device[s]) : device[s][i].by = Panel})
       IN  OnPanel(1) + OnPanel(2) < PanelEdits
    /\ \E s \in Settings, v \in Values :
         /\ v # Held(s)
         /\ device' = [device EXCEPT ![s] = Append(@, [value |-> v, by |-> Panel])]
    /\ UNCHANGED <<callVars, readVars, queue, written, clock, rows>>

LinkServes == ReadServed \/ ReadFails \/ WriteOne \/ WriteServed \/ WriteFails
Record(r)  == Look(r) \/ Store(r) \/ RecordFails(r)

Next ==
    \/ \E o \in Ops :
         \/ Get(o) \/ ForcedRefresh(o) \/ Resume(o)
         \/ \E ch \in Changes : Apply(o, ch)
    \/ LinkServes
    \/ \E r \in ReadIds : Record(r)
    \/ Expire \/ PanelEdit

Spec == Init /\ [][Next]_vars

-----------------------------------------------------------------------------
(* Properties.                                                             *)

NoOrRead  == ReadIds \cup {None}
LinkTask  == [task : {"read"}, read : ReadIds] \cup [task : {"write"}, op : Ops]

\* The state has the shape the code gives it: the read that is shared, if any,
\* is in progress, so that nobody joins one that is over, and the place in a
\* write's list of changes exists only while that write is served.
TypeOK ==
    /\ pc \in [Ops -> {"idle", "reading", "writing", "rereading", "done"}]
    /\ kind \in [Ops -> {"read", "apply"}]
    /\ changes \in [Ops -> Reading] /\ result \in [Ops -> Reading]
    /\ outcome \in [Ops -> {"none", "ok", "failed", "rule"}]
    /\ awaits \in [Ops -> ReadIds \cup {<<None, "plain">>}]
    /\ read \in [ReadIds ->
         [at : {"none", "link", "look", "store", "settled", "unrecorded", "failed"},
          values : Reading, readAt : Nat, row : 0..Len(rows)]]
    /\ inFlight \in NoOrRead /\ (inFlight # None => Pending(inFlight))
    /\ cache \in [values : Reading, readAt : Nat] /\ stale \in BOOLEAN
    /\ queue \in Seq(LinkTask)
    /\ device \in [Settings -> Seq([value : Values, by : Ops \cup {Panel}])]
    /\ clock \in Nat
    /\ rows \in Seq([values : Reading, readAt : Nat, lastSeenAt : Nat])
    /\ IF Serving("write")
       THEN \A s \in written : changes[Head(queue).op][s] # Missing
       ELSE written = {}

\* apply: the settings an apply returns were read after its own write, so each
\* changed one is a value the inverter held then or later.
ReadBackFollowsWrite ==
    \A o \in Ops :
        changes[o] # Nothing /\ outcome[o] = "ok" =>
            \A s \in Settings :
                changes[o][s] = Missing \/ result[o][s] = Missing \/
                \E i \in DOMAIN device[s] :
                    /\ device[s][i].by = o
                    /\ \E j \in i..Len(device[s]) :
                         device[s][j].value = result[o][s]

\* refresh: the cache never goes back to an older reading, although read-backs
\* overtake shared reads and histories are stored in any order; and a read to
\* share is only started when no read of this logger waits on the link.
ReadsInTurn ==
    [][/\ cache' # cache => cache.readAt < cache'.readAt
       /\ \A o \in Ops :
             OnLink(<<o, "plain">>)' /\ ~OnLink(<<o, "plain">>) =>
                \A r \in ReadIds : ~OnLink(r)]_vars

\* SettingsHistory: once every read has been recorded, the latest row holds
\* what the inverter answered last, however the recordings overlapped.  (When
\* a read-back fails, two shared reads may be recorded at once and the later
\* one be lost on the row before the earlier one's.)
HistoryEndsWithLastRead ==
    (\A r \in ReadIds : read[r].at \in {"none", "settled"}) =>
        \A r \in ReadIds :
            read[r].at = "settled" /\ read[r].readAt = clock =>
                rows[Latest].values = read[r].values

(* What the comments promise and the code does not keep.                   *)

Unfailing == \A o \in Ops : outcome[o] # "failed"
Complete  == \A r \in ReadIds : Done(r) => \A s \in Settings : read[r].values[s] # Missing

\* settings-rules: the server "enforces them on every write", so with nobody
\* at the panel, no failure and nothing garbled the inverter obeys them.
ConcurrentWritesKeepRules ==
    Unfailing /\ Complete /\ written = {} => Obeys([s \in Settings |-> Held(s)])

=============================================================================
