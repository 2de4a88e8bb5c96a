----------------------------- MODULE BmsIngest -----------------------------
(***************************************************************************)
(* Battery readings on their way to storage: the producer's bounded queue   *)
(* with retries (bms-reader/ingest-client.ts), the ingest of the server     *)
(* (bms-ingest.service.ts) with what it keeps in memory, the stored rows    *)
(* and their hourly roll-up (bms.store.ts, time-series.ts).                 *)
(*                                                                          *)
(* A reading is its timestamp by the producer's clock, which may be ahead   *)
(* of the server's.  A unit of time is the producer's send interval.  The   *)
(* handler of a post awaits the database between reading the last stored    *)
(* time and inserting; the producer may by then have given the post up.     *)
(***************************************************************************)
EXTENDS Integers, Sequences, FiniteSets, SequencesExt, FiniteSetsExt

CONSTANTS
    Devices,
    Nothing,
    MaxTime,        \* the clock stops here
    Skews,          \* how far a producer's clock may be ahead
    MaxQueue,       \* readings waiting for the server
    StoreInterval,  \* BMS_STORE_INTERVAL_MS
    MaxFuture,      \* MAX_FUTURE_MS
    MaxAge,         \* MAX_AGE_MS
    HourLength,
    MaxFaults       \* restarts, abandoned posts, lost answers, new tokens

ASSUME IngestAssumption ==
    /\ Nothing \notin Int
    /\ {MaxTime, MaxFuture, MaxAge, MaxFaults} \subseteq Nat /\ Skews \subseteq Nat
    /\ {MaxQueue, StoreInterval, HourLength} \subseteq Nat \ {0}
    /\ MaxAge <= HourLength /\ HourLength <= MaxTime

VARIABLES
    now,        \* the server's clock
    producer,   \* per device: [skew, queue, offered (all queued so far), posting]
    handlers,   \* per device: posts in hand at the server, [at, last]
    memory,     \* per device: [latest, last] of the running server
    token,      \* per device: "current", "replaced" or "removed"
    rows,       \* per device: timestamps stored
    hourly,     \* per device: samples counted per hour, of the rolled-up hours
    replied,   \* history: per device, readings the server answered for good
    pushedOut,  \* history: per device, readings newer ones pushed out
    overtook,    \* history: devices two of whose posts were in hand at once
    outOfHour,  \* history: a row was stored outside its hour and the next
    faults

ingestVars == <<now, producer, handlers, memory, token, rows, hourly,
                replied, pushedOut, overtook, outOfHour, faults>>

IngestInit ==
    /\ now = HourLength
    /\ producer \in [Devices -> {[skew |-> k, queue |-> <<>>, offered |-> {},
                                  posting |-> Nothing] : k \in Skews}]
    /\ handlers = [d \in Devices |-> {}]
    /\ memory = [d \in Devices |-> [latest |-> Nothing, last |-> Nothing]]
    /\ token = [d \in Devices |-> "current"]
    /\ rows = [d \in Devices |-> {}]
    /\ hourly = [d \in Devices |-> <<>>]
    /\ replied = [d \in Devices |-> {}]
    /\ pushedOut = [d \in Devices |-> {}]
    /\ overtook = {} /\ outOfHour = FALSE /\ faults = 0

Newest(S) == IF S = {} THEN Nothing ELSE Max(S)
HourOf(at) == at \div HourLength
InHour(d, h) == {at \in rows[d] : HourOf(at) = h}
Fault == faults < MaxFaults /\ faults' = faults + 1

Tick ==
    /\ now < MaxTime /\ now' = now + 1
    /\ UNCHANGED <<producer, handlers, memory, token, rows, hourly,
                   replied, pushedOut, overtook, outOfHour, faults>>

(* A reading is queued once per send interval; the oldest make room.        *)
Offer(d) ==
    LET p == producer[d]
        at == now + p.skew
        queued == Append(p.queue, at)
        over == Len(queued) > MaxQueue IN
    /\ \A o \in p.offered : at - o >= 1
    /\ producer' = [producer EXCEPT ![d].offered = @ \union {at},
                                    ![d].queue = IF over THEN Tail(queued) ELSE queued]
    /\ pushedOut' = [pushedOut EXCEPT ![d] = IF over THEN @ \union {queued[1]} ELSE @]
    /\ UNCHANGED <<now, handlers, memory, token, rows, hourly,
                   replied, overtook, outOfHour, faults>>

(* The pump's answer: one for good takes the reading off the queue, if it   *)
(* still leads it; a failure leaves it there to be posted again.            *)

\* A plausible bug: whatever leads the queue by then is taken off.
AnsweredUnchecked(d, at, final) ==
    /\ producer' = [producer EXCEPT ![d].posting = Nothing,
                      ![d].queue = IF final /\ @ # <<>> THEN Tail(@) ELSE @]
    /\ replied' = [replied EXCEPT ![d] = IF final THEN @ \union {at} ELSE @]

\* A plausible bug: the post is still taken to be under way.
AnsweredStuck(d, at, final) ==
    /\ producer' = [producer EXCEPT ![d].queue =
                      IF final /\ @ # <<>> /\ @[1] = at THEN Tail(@) ELSE @]
    /\ replied' = [replied EXCEPT ![d] = IF final THEN @ \union {at} ELSE @]

Answered(d, at, final) ==
    /\ producer' = [producer EXCEPT ![d].posting = Nothing,
                      ![d].queue = IF final /\ @ # <<>> /\ @[1] = at THEN Tail(@) ELSE @]
    /\ replied' = [replied EXCEPT ![d] = IF final THEN @ \union {at} ELSE @]

(* The last stored time: this process's, or else the newest row's.          *)

\* A plausible bug: only what this process stored counts.
LastRemembered(d) == memory[d].last
LastStored(d) == IF memory[d].last # Nothing THEN memory[d].last ELSE Newest(rows[d])

(***************************************************************************)
(* A post arrives.  An unknown token, a reading from the future or over an  *)
(* hour old is refused for good.  Else the newest reading is kept for the   *)
(* live view and the last stored time is read, from memory or the database. *)
(***************************************************************************)
ReceiveBatch(d) ==
    LET at == producer[d].queue[1]
        last == LastStored(d) IN
    /\ producer[d].posting = Nothing /\ producer[d].queue # <<>>
    /\ IF token[d] # "current" \/ at > now + MaxFuture \/ at < now - MaxAge
       THEN Answered(d, at, TRUE) /\ UNCHANGED <<handlers, memory, overtook>>
       ELSE /\ producer' = [producer EXCEPT ![d].posting = at]
            /\ handlers' = [handlers EXCEPT ![d] = @ \union {[at |-> at, last |-> last]}]
            /\ memory' = [memory EXCEPT ![d].latest =
                             IF @ # Nothing /\ @ >= at THEN @ ELSE at]
            /\ overtook' = IF handlers[d] # {} THEN overtook \union {d} ELSE overtook
            /\ UNCHANGED replied
    /\ UNCHANGED <<now, token, rows, hourly, pushedOut, outOfHour, faults>>

(* At most one row per StoreInterval; a row already there is not an error.  *)
TooSoon(at, last) == last # Nothing /\ at - last < StoreInterval

HandlerEnds(d, h, reached) ==
    LET stored == ~TooSoon(h.at, h.last)
        isNew == stored /\ h.at \notin rows[d] IN
    /\ handlers' = [handlers EXCEPT ![d] = @ \ {h}]
    /\ rows' = [rows EXCEPT ![d] = IF stored THEN @ \union {h.at} ELSE @]
    /\ memory' = [memory EXCEPT ![d].last =
                    IF isNew THEN IF h.last = Nothing THEN h.at ELSE Max({h.at, h.last}) ELSE @]
    /\ outOfHour' = (outOfHour \/ (isNew /\ HourOf(h.at) \notin {HourOf(now) - 1, HourOf(now)}))
    /\ IF reached /\ producer[d].posting = h.at
       THEN Answered(d, h.at, TRUE)
       ELSE UNCHANGED <<producer, replied>>

(***************************************************************************)
(* The insert, and the answer, which the network may lose.  The post of a   *)
(* removed device fails in the database.                                    *)
(***************************************************************************)
Store(d) == \E h \in handlers[d] :
    /\ token[d] # "removed"
    /\ \/ HandlerEnds(d, h, TRUE) /\ UNCHANGED faults
       \/ HandlerEnds(d, h, FALSE) /\ Fault
    /\ UNCHANGED <<now, token, hourly, pushedOut, overtook>>

StoreFails(d) == \E h \in handlers[d] :
    /\ token[d] = "removed"
    /\ handlers' = [handlers EXCEPT ![d] = @ \ {h}]
    /\ IF producer[d].posting = h.at THEN Answered(d, h.at, FALSE)
                                     ELSE UNCHANGED <<producer, replied>>
    /\ UNCHANGED <<now, memory, token, rows, hourly, pushedOut, overtook, outOfHour, faults>>

(* The producer gives a post up while the server may still have it in hand. *)
GiveUp(d) ==
    /\ producer[d].posting # Nothing
    /\ \/ Fault
       \/ UNCHANGED faults /\ ~\E h \in handlers[d] : h.at = producer[d].posting
    /\ Answered(d, producer[d].posting, FALSE)
    /\ UNCHANGED <<now, handlers, memory, token, rows, hourly, pushedOut, overtook, outOfHour>>

(* The server restarts: what it remembered and had in hand is gone.         *)
RestartIngest ==
    /\ Fault
    /\ handlers' = [d \in Devices |-> {}]
    /\ memory' = [d \in Devices |-> [latest |-> Nothing, last |-> Nothing]]
    /\ UNCHANGED <<now, producer, token, rows, hourly, replied, pushedOut, overtook, outOfHour>>

(* The owner makes a new token, or removes the device and its rows.         *)
ReplaceToken(d) ==
    /\ Fault /\ token[d] = "current"
    /\ token' = [token EXCEPT ![d] = "replaced"]
    /\ UNCHANGED <<now, producer, handlers, memory, rows, hourly,
                   replied, pushedOut, overtook, outOfHour>>

RemoveDevice(d) ==
    /\ Fault /\ token[d] # "removed"
    /\ token' = [token EXCEPT ![d] = "removed"]
    /\ rows' = [rows EXCEPT ![d] = {}]
    /\ hourly' = [hourly EXCEPT ![d] = <<>>]
    /\ UNCHANGED <<now, producer, handlers, memory, replied, pushedOut, overtook, outOfHour>>

(***************************************************************************)
(* The roll-up recomputes, for every device, the hours from one before the  *)
(* newest hour in the table, whoever's that is, or all of them.             *)
(***************************************************************************)
RolledUp == UNION {DOMAIN hourly[d] : d \in Devices}

\* A plausible bug: the newest hour alone is taken to be unfinished.
SinceNewest == IF RolledUp = {} THEN 0 ELSE Max(RolledUp)
Since == IF RolledUp = {} THEN 0 ELSE Max(RolledUp) - 1

RollUp ==
    LET touched(d) == {HourOf(at) : at \in {r \in rows[d] : HourOf(r) >= Since}} IN
    /\ hourly' = [d \in Devices |->
                    [h \in DOMAIN hourly[d] \union touched(d) |->
                       IF h \in touched(d) THEN Cardinality(InHour(d, h)) ELSE hourly[d][h]]]
    /\ UNCHANGED <<now, producer, handlers, memory, token, rows,
                   replied, pushedOut, overtook, outOfHour, faults>>

IngestNext ==
    \/ Tick \/ RestartIngest \/ RollUp
    \/ \E d \in Devices : \/ Offer(d) \/ ReceiveBatch(d) \/ Store(d) \/ StoreFails(d)
                          \/ GiveUp(d) \/ ReplaceToken(d) \/ RemoveDevice(d)

(* Type correctness.                                                        *)
IngestTypeOK ==
    /\ now \in 0..MaxTime
    /\ \A d \in Devices :
          /\ producer[d].skew \in Skews
          /\ producer[d].queue \in Seq(Nat) /\ Len(producer[d].queue) <= MaxQueue
          /\ producer[d].offered \subseteq Nat
          /\ producer[d].posting \in Nat \union {Nothing}
          /\ handlers[d] \subseteq [at : Nat, last : Nat \union {Nothing}]
          /\ memory[d] \in [latest : Nat \union {Nothing}, last : Nat \union {Nothing}]
          /\ token[d] \in {"current", "replaced", "removed"}
          /\ rows[d] \subseteq Nat /\ replied[d] \subseteq Nat /\ pushedOut[d] \subseteq Nat
          /\ DOMAIN hourly[d] \subseteq Nat
    /\ overtook \subseteq Devices /\ outOfHour \in BOOLEAN /\ faults \in 0..MaxFaults

(***************************************************************************)
(* Stored readings of a device lie at least the store interval apart across *)
(* restarts, retries, lost answers and late readings, as long as its posts  *)
(* were handled one after another (bms-ingest.service.ts "at most one       *)
(* reading per BMS_STORE_INTERVAL_MS"; it reads the last stored time and    *)
(* inserts in two steps, so overlapping posts can both pass).               *)
(***************************************************************************)
StoredApart == \A d \in Devices \ overtook : \A a, b \in rows[d] :
                  a < b => b - a >= StoreInterval

(***************************************************************************)
(* A queued reading waits, was answered for good, or was pushed out by      *)
(* newer ones: no answer takes a reading off the queue that was never sent, *)
(* also when the queue overflowed while a post was under way                *)
(* (ingest-client.ts pump).                                                 *)
(***************************************************************************)
AccountedFor == \A d \in Devices :
    producer[d].offered \subseteq ToSet(producer[d].queue) \union replied[d] \union pushedOut[d]

(***************************************************************************)
(* Every row's hour is counted as it is, or the next roll-up recounts it,   *)
(* as long as rows were stored in their own hour or the next one            *)
(* (time-series.ts rollUpSeries: the window is placed by the newest hour of *)
(* any device; MAX_AGE_MS is the hour it allows).                           *)
(***************************************************************************)
HourlyCatchesUp == outOfHour \/ \A d \in Devices : \A at \in rows[d] :
    \/ HourOf(at) >= Since
    \/ HourOf(at) \in DOMAIN hourly[d] /\ hourly[d][HourOf(at)] = Cardinality(InHour(d, HourOf(at)))

\* A reading of the device waits in the producer.
Queued(d) == producer[d].queue # <<>>
=============================================================================
