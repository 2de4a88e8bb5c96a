---------------------------- MODULE DevicesProofs ----------------------------
(* The devices and what stands between them and the server (MCDevices):      *)
(* the logger on its serial line, the readings of a BMS, and the sum of all  *)
(* parts.                                                                    *)
EXTENDS MCDevices, StreamProofs, DataInduction, SequenceTheorems

(* The reader of a BMS (BmsReader).                                          *)

ASession == [done : BOOLEAN, timer : BOOLEAN, streaming : BOOLEAN,
             setup : {"none", "subscribing", "asking", "set", "failed"},
             resent : BOOLEAN, quiet : 0..1, age : 0..FirstInfo]

\* Every session before the newest is over, none after it has begun, and the
\* loop leaves a session only when it is over.
InTurn ==
    /\ loop = "session" => cur # 0
    /\ loop # "session" => cur = 0 \/ session[cur].done
    /\ \A i \in Sessions : /\ i < cur => session[i].done
                           /\ i > cur => session[i].setup = "none" /\ ~session[i].timer

ReaderInv == ReaderTypeOK /\ InTurn /\ OwnClose

LEMMA Fields ==
    ASSUME NEW o \in ASession
    PROVE  /\ \A a \in 0..FirstInfo :
                /\ [o EXCEPT !.quiet = 1, !.age = a] \in ASession
                /\ [o EXCEPT !.quiet = 1, !.age = a].done = o.done
           /\ \A b \in BOOLEAN :
                /\ [o EXCEPT !.quiet = 0, !.resent = FALSE, !.streaming = b] \in ASession
                /\ [o EXCEPT !.quiet = 0, !.resent = FALSE, !.streaming = b].done = o.done
<1>1. ASSUME NEW a \in 0..FirstInfo
      PROVE  /\ [o EXCEPT !.quiet = 1, !.age = a] \in ASession
             /\ [o EXCEPT !.quiet = 1, !.age = a].done = o.done
  <2> DEFINE q == [o EXCEPT !.quiet = 1]
  <2>1. q \in ASession /\ q.done = o.done
    BY DEF ASession
  <2>2. [o EXCEPT !.quiet = 1, !.age = a] = [q EXCEPT !.age = a]
    OBVIOUS
  <2> HIDE DEF q
  <2>3. [q EXCEPT !.age = a] \in ASession /\ [q EXCEPT !.age = a].done = q.done
    BY <2>1 DEF ASession
  <2> QED BY <2>1, <2>2, <2>3
<1>2. ASSUME NEW b \in BOOLEAN
      PROVE  /\ [o EXCEPT !.quiet = 0, !.resent = FALSE, !.streaming = b] \in ASession
             /\ [o EXCEPT !.quiet = 0, !.resent = FALSE, !.streaming = b].done = o.done
  <2> DEFINE q == [o EXCEPT !.quiet = 0]
  <2>1. q \in ASession /\ q.done = o.done
    BY DEF ASession
  <2>2. [o EXCEPT !.quiet = 0, !.resent = FALSE, !.streaming = b] =
          [q EXCEPT !.resent = FALSE, !.streaming = b]
    OBVIOUS
  <2> HIDE DEF q
  <2>3. /\ [q EXCEPT !.resent = FALSE, !.streaming = b] \in ASession
        /\ [q EXCEPT !.resent = FALSE, !.streaming = b].done = q.done
    BY <2>1 DEF ASession
  <2> QED BY <2>1, <2>2, <2>3
<1> QED BY <1>1, <1>2

\* What a step does to the one session it changes.
Becomes(i, s) ==
    /\ session' = [session EXCEPT ![i] = s]
    /\ s \in ASession
    /\ session[i].done => s.done

LEMMA EndIsOwn ==
    ASSUME ReaderInv, NEW i \in Sessions, i <= cur, NEW s \in ASession, NEW close \in BOOLEAN,
           s.done = session[i].done, End(i, s, close)
    PROVE  /\ \E t : Becomes(i, t)
           /\ linkUp' \in BOOLEAN /\ cut' = {}
<1> USE ReaderAssumption DEF ReaderInv, OwnClose
<1>0. cut = {} /\ linkUp \in BOOLEAN /\ cur \in Nat /\ i \in Nat
  BY DEF ReaderTypeOK, Sessions
<1>1. CASE s.done
  <2>1. Becomes(i, s) /\ UNCHANGED <<linkUp, cut>>
    BY <1>1 DEF End, Becomes
  <2> QED BY <1>0, <2>1
<1>2. CASE ~s.done
  <2> DEFINE t == [s EXCEPT !.done = TRUE, !.timer = FALSE]
  <2>1. t \in ASession /\ t.done
    BY DEF ASession
  <2>2. session' = [session EXCEPT ![i] = t]
    BY <1>2 DEF End
  <2>3. linkUp' \in BOOLEAN
    BY <1>0, <1>2 DEF End
  <2>4. i = cur
    BY <1>0, <1>2 DEF InTurn
  <2>5. cut' = {}
    BY <1>0, <1>2, <2>4 DEF End
  <2>6. Becomes(i, t)
    BY <2>1, <2>2 DEF Becomes
  <2> HIDE DEF t
  <2> QED BY <2>3, <2>5, <2>6
<1> QED BY <1>1, <1>2 DEF ASession

LEMMA BecomesKeeps ==
    ASSUME ReaderInv, NEW i \in Sessions, i <= cur, NEW t, Becomes(i, t),
           linkUp' \in BOOLEAN, cut' = {}, aborted' \in BOOLEAN,
           UNCHANGED <<loop, delay, cur>>
    PROVE  ReaderInv'
<1> USE ReaderAssumption
<1>1. session' \in [Sessions -> ASession]
  BY DEF ReaderInv, ReaderTypeOK, Becomes, ASession
<1>2. ReaderTypeOK'
  BY <1>1 DEF ReaderInv, ReaderTypeOK, ASession
<1>3. \A j \in Sessions : session'[j] = IF j = i THEN t ELSE session[j]
  BY DEF ReaderInv, ReaderTypeOK, Becomes
<1>4. \A j \in Sessions : session[j].done => session'[j].done
  BY <1>3 DEF Becomes
<1>5. cur \in 0..MaxSessions
  BY DEF ReaderInv, ReaderTypeOK
<1>6. \A j \in Sessions : j > cur => session'[j] = session[j]
  BY <1>3, <1>5 DEF Sessions
<1>7. InTurn'
  BY <1>4, <1>5, <1>6 DEF ReaderInv, InTurn, Sessions
<1> QED BY <1>2, <1>7 DEF ReaderInv, OwnClose

LEMMA ReaderInvInit == ReaderInit => ReaderInv
<1> SUFFICES ASSUME ReaderInit PROVE ReaderInv
  OBVIOUS
<1> USE ReaderAssumption
<1>1. [NewSession EXCEPT !.setup = "none"] \in ASession
      /\ [NewSession EXCEPT !.setup = "none"].setup = "none"
      /\ ~[NewSession EXCEPT !.setup = "none"].timer
  <2>1. NewSession \in ASession /\ NewSession.timer = FALSE
    BY DEF NewSession, ASession
  <2> QED BY <2>1 DEF ASession
<1>2. session \in [Sessions -> ASession]
      /\ \A i \in Sessions : session[i].setup = "none" /\ ~session[i].timer
  BY <1>1 DEF ReaderInit
<1>3. InTurn
  <2>1. loop = "connect" /\ cur = 0
    BY DEF ReaderInit
  <2>2. \A i \in Sessions : ~(i < cur)
    BY <2>1 DEF Sessions
  <2> QED BY <1>2, <2>1, <2>2 DEF InTurn
<1>4. ReaderTypeOK
  <2>1. delay \in 1..MaxBackoff /\ cur \in 0..MaxSessions
    BY DEF ReaderInit
  <2>2. session \in [Sessions -> ASession]
    BY <1>2
  <2> QED BY <2>1, <2>2 DEF ReaderInit, ReaderTypeOK, ASession
<1> QED BY <1>3, <1>4 DEF ReaderInit, ReaderInv, OwnClose

LEMMA ReaderInvStep == ReaderInv /\ [ReaderNext]_readerVars => ReaderInv'
<1> SUFFICES ASSUME ReaderInv, [ReaderNext]_readerVars
             PROVE  ReaderInv'
  OBVIOUS
<1> USE ReaderAssumption
<1>0. /\ session \in [Sessions -> ASession] /\ cur \in 0..MaxSessions
      /\ linkUp \in BOOLEAN /\ aborted \in BOOLEAN /\ cut = {}
      /\ \A i \in Sessions : i \in Nat \ {0}
      /\ \A i \in Sessions : i > cur => session[i].setup = "none" /\ ~session[i].timer
  BY DEF ReaderInv, ReaderTypeOK, OwnClose, InTurn, ASession, Sessions
<1>1. CASE Connect
  <2>1. cur + 1 \in Sessions /\ cur' = cur + 1
    BY <1>0, <1>1 DEF Connect, Sessions
  <2>2. session' = [session EXCEPT ![cur + 1] = NewSession]
    BY <1>1 DEF Connect
  <2>3. NewSession \in ASession
    BY DEF NewSession, ASession
  <2>4. ReaderTypeOK'
    BY <1>0, <1>1, <2>1, <2>2, <2>3 DEF ReaderInv, ReaderTypeOK, Connect, ASession, Sessions
  <2>5. \A j \in Sessions : j # cur + 1 => session'[j] = session[j]
    BY <1>0, <2>2
  <2>6. cur # 0 => session[cur].done
    BY <1>1 DEF ReaderInv, InTurn, Connect
  <2>7. \A j \in Sessions : j < cur + 1 => session[j].done
    BY <1>0, <2>6 DEF ReaderInv, InTurn
  <2>8. InTurn'
    BY <1>0, <1>1, <2>1, <2>5, <2>7 DEF ReaderInv, InTurn, Connect
  <2> QED BY <1>1, <2>4, <2>8 DEF ReaderInv, OwnClose, Connect
<1>2. CASE ConnectFails
  BY <1>2 DEF ReaderInv, ReaderTypeOK, InTurn, OwnClose, ConnectFails
<1>3. CASE Disconnect
  BY <1>3 DEF ReaderInv, ReaderTypeOK, InTurn, OwnClose, Disconnect
<1>4. CASE Abort
  <2>1. CASE loop = "session"
    <3>1. cur \in Sessions /\ cur <= cur
      BY <1>0, <2>1 DEF ReaderInv, InTurn, Sessions
    <3>2. End(cur, session[cur], TRUE) /\ aborted' \in BOOLEAN /\ UNCHANGED <<loop, delay, cur>>
      BY <1>4, <2>1 DEF Abort
    <3>3. session[cur] \in ASession
      BY <1>0, <3>1
    <3>4. (\E t : Becomes(cur, t)) /\ linkUp' \in BOOLEAN /\ cut' = {}
      BY <3>1, <3>2, <3>3, EndIsOwn
    <3> QED BY <3>1, <3>2, <3>4, BecomesKeeps
  <2>2. CASE loop # "session"
    BY <1>4, <2>2 DEF ReaderInv, ReaderTypeOK, InTurn, OwnClose, Abort
  <2> QED BY <2>1, <2>2
<1>5. CASE Resume
  BY <1>5 DEF ReaderInv, ReaderTypeOK, InTurn, OwnClose, Resume
<1>6. CASE Wake
  <2>1. delay' \in 1..MaxBackoff
    BY <1>6 DEF ReaderInv, ReaderTypeOK, Wake
  <2> QED BY <1>6, <2>1 DEF ReaderInv, ReaderTypeOK, InTurn, OwnClose, Wake
<1>7. CASE StopConnecting
  BY <1>7 DEF ReaderInv, ReaderTypeOK, InTurn, OwnClose, StopConnecting
<1>8. ASSUME NEW i \in Sessions, Setup(i)
      PROVE  ReaderInv'
  <2>1. i <= cur /\ session[i] \in ASession /\ UNCHANGED <<loop, delay, cur, aborted>>
    BY <1>0, <1>8 DEF Setup, InSetup
  <2>2. CASE End(i, [session[i] EXCEPT !.setup = "failed"], TRUE)
    <3>1. [session[i] EXCEPT !.setup = "failed"] \in ASession
          /\ [session[i] EXCEPT !.setup = "failed"].done = session[i].done
      BY <2>1 DEF ASession
    <3>2. (\E t : Becomes(i, t)) /\ linkUp' \in BOOLEAN /\ cut' = {}
      BY <2>1, <2>2, <3>1, EndIsOwn
    <3> QED BY <1>0, <2>1, <3>2, BecomesKeeps
  <2>3. CASE /\ session' = [session EXCEPT ![i].setup = "asking"]
             /\ UNCHANGED <<linkUp, cut>>
    <3>1. Becomes(i, [session[i] EXCEPT !.setup = "asking"])
      BY <1>0, <2>1, <2>3 DEF Becomes, ASession
    <3> QED BY <1>0, <2>1, <2>3, <3>1, BecomesKeeps
  <2>4. CASE /\ session' = [session EXCEPT ![i] = WatchFromNow(session[i])]
             /\ UNCHANGED <<linkUp, cut>>
    <3>1. Becomes(i, WatchFromNow(session[i]))
      BY <1>0, <2>1, <2>4 DEF Becomes, ASession, WatchFromNow
    <3> QED BY <1>0, <2>1, <2>4, <3>1, BecomesKeeps
  <2> QED BY <1>8, <2>2, <2>3, <2>4 DEF Setup
<1>9. ASSUME NEW i \in Sessions, HearDisconnect(i)
      PROVE  ReaderInv'
  <2>1. i <= cur /\ session[i] \in ASession /\ UNCHANGED <<loop, delay, cur, aborted>>
    BY <1>0, <1>9 DEF HearDisconnect
  <2>2. (\E t : Becomes(i, t)) /\ linkUp' \in BOOLEAN /\ cut' = {}
    BY <1>9, <2>1, EndIsOwn DEF HearDisconnect
  <2> QED BY <1>0, <2>1, <2>2, BecomesKeeps
<1>10. ASSUME NEW i \in Sessions, NEW b \in BOOLEAN, Check(i, b)
       PROVE  ReaderInv'
  <2> DEFINE a == IF session[i].age < FirstInfo THEN session[i].age + 1 ELSE session[i].age
             s == [session[i] EXCEPT !.quiet = 1, !.age = a]
             r == [s EXCEPT !.resent = TRUE]
  <2>1. i <= cur /\ session[i] \in ASession /\ UNCHANGED <<loop, delay, cur, aborted>>
    BY <1>0, <1>10 DEF Check
  <2>2. s \in ASession /\ s.done = session[i].done
    <3>1. a \in 0..FirstInfo
      BY <2>1 DEF ASession
    <3> QED BY <2>1, <3>1, Fields
  <2>3. r \in ASession /\ r.done = session[i].done
    BY <2>1, <2>2 DEF ASession
  <2>4. \/ End(i, s, TRUE) \/ End(i, r, TRUE)
        \/ session' = [session EXCEPT ![i] = s] /\ UNCHANGED <<linkUp, cut>>
        \/ session' = [session EXCEPT ![i] = r] /\ UNCHANGED <<linkUp, cut>>
    BY <1>10 DEF Check, AskAgain
  <2> HIDE DEF s, r
  <2>5. CASE End(i, s, TRUE)
    <3>1. (\E t : Becomes(i, t)) /\ linkUp' \in BOOLEAN /\ cut' = {}
      BY <2>1, <2>2, <2>5, EndIsOwn
    <3> QED BY <1>0, <2>1, <3>1, BecomesKeeps
  <2>6. CASE End(i, r, TRUE)
    <3>1. (\E t : Becomes(i, t)) /\ linkUp' \in BOOLEAN /\ cut' = {}
      BY <2>1, <2>3, <2>6, EndIsOwn
    <3> QED BY <1>0, <2>1, <3>1, BecomesKeeps
  <2>7. CASE session' = [session EXCEPT ![i] = s] /\ UNCHANGED <<linkUp, cut>>
    <3>1. Becomes(i, s)
      BY <2>2, <2>7 DEF Becomes
    <3> QED BY <1>0, <2>1, <2>7, <3>1, BecomesKeeps
  <2>8. CASE session' = [session EXCEPT ![i] = r] /\ UNCHANGED <<linkUp, cut>>
    <3>1. Becomes(i, r)
      BY <2>3, <2>8 DEF Becomes
    <3> QED BY <1>0, <2>1, <2>8, <3>1, BecomesKeeps
  <2> QED BY <2>4, <2>5, <2>6, <2>7, <2>8
<1>11. ASSUME NEW i \in Sessions, NEW b \in BOOLEAN, HearFrame(i, b)
       PROVE  ReaderInv'
  <2> DEFINE isHeard == session[i].streaming \/ b
             s == [session[i] EXCEPT !.quiet = 0, !.resent = FALSE, !.streaming = isHeard]
  <2>1. i <= cur /\ session[i] \in ASession
        /\ UNCHANGED <<loop, delay, cur, aborted, linkUp, cut>>
    BY <1>0, <1>11 DEF HearFrame
  <2>3. session' = [session EXCEPT ![i] = s]
    BY <1>11 DEF HearFrame
  <2>2. s \in ASession /\ s.done = session[i].done
    <3>1. isHeard \in BOOLEAN
      OBVIOUS
    <3> QED BY <2>1, <3>1, Fields
  <2>4. Becomes(i, s)
    BY <2>2, <2>3 DEF Becomes
  <2> QED BY <1>0, <2>1, <2>4, BecomesKeeps
<1>12. CASE UNCHANGED readerVars
  BY <1>12 DEF readerVars, ReaderInv, ReaderTypeOK, InTurn, OwnClose
<1> QED BY <1>1, <1>2, <1>3, <1>4, <1>5, <1>6, <1>7, <1>8, <1>9, <1>10, <1>11, <1>12
        DEF ReaderNext

------------------------------------------------------------------------------
(* The readings of a BMS stored (BmsIngest).                                 *)

LEMMA IngestNumbers ==
    /\ Nothing \notin Int
    /\ MaxTime \in Nat /\ MaxFuture \in Nat /\ MaxAge \in Nat /\ MaxFaults \in Nat /\ Skews \subseteq Nat
    /\ MaxQueue \in Nat \ {0} /\ StoreInterval \in Nat \ {0} /\ HourLength \in Nat \ {0}
    /\ HourLength <= MaxTime
  BY IngestAssumption

(* Hours.                                                                  *)
LEMMA Quotient ==
    ASSUME NEW a \in Nat, NEW n \in Nat \ {0}
    PROVE  /\ a \div n \in Nat
           /\ n * (a \div n) <= a
           /\ a < n * (a \div n) + n
  OBVIOUS

LEMMA HourFacts ==
    /\ \A a \in Nat : HourOf(a) \in Nat /\ HourOf(a) <= a
    /\ \A a, b \in Nat : a <= b => HourOf(a) <= HourOf(b)
<1> USE IngestNumbers
<1>1. ASSUME NEW a \in Nat
      PROVE  HourOf(a) \in Nat /\ HourOf(a) <= a
  <2>1. a \div HourLength \in Nat /\ HourLength * (a \div HourLength) <= a
    BY Quotient
  <2> DEFINE q == a \div HourLength
  <2> HIDE DEF q
  <2>2. q \in Nat /\ HourLength * q <= a
    BY <2>1 DEF q
  <2>3. q <= HourLength * q
    BY <2>2
  <2> QED BY <2>2, <2>3 DEF q, HourOf
<1>2. ASSUME NEW a \in Nat, NEW b \in Nat, a <= b
      PROVE  HourOf(a) <= HourOf(b)
  <2> DEFINE p == a \div HourLength
             q == b \div HourLength
  <2>1. /\ p \in Nat /\ HourLength * p <= a
        /\ q \in Nat /\ b < HourLength * q + HourLength
    BY Quotient
  <2> HIDE DEF p, q
  <2>2. ~(q + 1 <= p)
    <3>1. SUFFICES ASSUME q + 1 <= p PROVE FALSE
      OBVIOUS
    <3>2. HourLength * (q + 1) <= HourLength * p
      BY <2>1, <3>1
    <3>3. HourLength * (q + 1) = HourLength * q + HourLength
      BY <2>1
    <3> QED BY <1>2, <2>1, <3>2, <3>3
  <2>3. p <= q
    BY <2>1, <2>2
  <2> QED BY <2>3 DEF p, q, HourOf
<1> QED BY <1>1, <1>2

-----------------------------------------------------------------------------
(* The states.                                                             *)
Horizon == MaxTime + MaxFuture
TimeOrNothing == Nat \union {Nothing}
Producers == [skew : Skews, queue : Seq(Nat), offered : SUBSET Nat, posting : TimeOrNothing]
Handlers == [at : 0..Horizon, last : TimeOrNothing]

IngestTyped ==
    /\ now \in 0..MaxTime
    /\ producer \in [Devices -> Producers]
    /\ \A d \in Devices : Len(producer[d].queue) <= MaxQueue
    /\ handlers \in [Devices -> SUBSET Handlers]
    /\ memory \in [Devices -> [latest : TimeOrNothing, last : TimeOrNothing]]
    /\ token \in [Devices -> {"current", "replaced", "removed"}]
    /\ rows \in [Devices -> SUBSET (0..Horizon)]
    /\ hourly = [d \in Devices |-> hourly[d]]
    /\ \A d \in Devices : DOMAIN hourly[d] \subseteq 0..Horizon
    /\ replied \in [Devices -> SUBSET Nat] /\ pushedOut \in [Devices -> SUBSET Nat]
    /\ overtook \subseteq Devices /\ outOfHour \in BOOLEAN /\ faults \in 0..MaxFaults

\* What a device's one handler found last stored, and what the server
\* remembers, is no older than any row.
LastIsLast == \A d \in Devices \ overtook :
    /\ \A h, g \in handlers[d] : h = g
    /\ \A h \in handlers[d], a \in rows[d] : h.last # Nothing /\ a <= h.last
    /\ memory[d].last # Nothing => \A a \in rows[d] : a <= memory[d].last

\* Rows and their counts are of this hour or an earlier one.
NoneAhead == ~outOfHour =>
    /\ \A d \in Devices : \A at \in rows[d] : HourOf(at) <= HourOf(now)
    /\ \A h \in RolledUp : h <= HourOf(now)

IngestInv == IngestTyped /\ LastIsLast /\ StoredApart /\ AccountedFor /\ NoneAhead /\ HourlyCatchesUp

-----------------------------------------------------------------------------
(* The queue.                                                              *)
LEMMA QueueTail ==
    ASSUME NEW q \in Seq(Nat), q # <<>>
    PROVE  /\ q[1] \in Nat /\ Tail(q) \in Seq(Nat) /\ Len(Tail(q)) = Len(q) - 1
           /\ ToSet(q) \subseteq ToSet(Tail(q)) \union {q[1]}
<1>1. Len(q) \in Nat \ {0} /\ DOMAIN q = 1..Len(q)
  OBVIOUS
<1>2. /\ Tail(q) \in Seq(Nat) /\ Len(Tail(q)) = Len(q) - 1
      /\ \A i \in 1..(Len(q) - 1) : Tail(q)[i] = q[i + 1]
      /\ DOMAIN Tail(q) = 1..(Len(q) - 1)
  BY <1>1
<1>3. ASSUME NEW i \in DOMAIN q, i # 1
      PROVE  q[i] \in ToSet(Tail(q))
  <2>1. i - 1 \in 1..(Len(q) - 1) /\ Tail(q)[i - 1] = q[i]
    BY <1>1, <1>2, <1>3
  <2> QED BY <1>2, <2>1 DEF ToSet
<1> QED BY <1>1, <1>2, <1>3 DEF ToSet

LEMMA QueueAppend ==
    ASSUME NEW q \in Seq(Nat), NEW at \in Nat
    PROVE  /\ Append(q, at) \in Seq(Nat) /\ Append(q, at) # <<>>
           /\ Len(Append(q, at)) = Len(q) + 1
           /\ ToSet(q) \union {at} \subseteq ToSet(Append(q, at))
<1>1. /\ Append(q, at) \in Seq(Nat) /\ Len(Append(q, at)) = Len(q) + 1
      /\ \A i \in 1..Len(q) : Append(q, at)[i] = q[i]
      /\ Append(q, at)[Len(q) + 1] = at
      /\ DOMAIN Append(q, at) = 1..(Len(q) + 1) /\ DOMAIN q = 1..Len(q) /\ Len(q) \in Nat
  OBVIOUS
<1>2. Append(q, at) # <<>>
  BY <1>1
<1>3. \A i \in DOMAIN q : q[i] \in ToSet(Append(q, at))
  BY <1>1 DEF ToSet
<1>4. at \in ToSet(Append(q, at))
  BY <1>1 DEF ToSet
<1> QED BY <1>1, <1>2, <1>3, <1>4 DEF ToSet

\* What a producer may do: its readings stay accounted for.
ProducerMoves(d) ==
    /\ producer' \in [Devices -> Producers]
    /\ Len(producer'[d].queue) <= MaxQueue
    /\ replied' \in [Devices -> SUBSET Nat] /\ pushedOut' \in [Devices -> SUBSET Nat]
    /\ producer'[d].offered \subseteq ToSet(producer'[d].queue) \union replied'[d] \union pushedOut'[d]
    /\ \A e \in Devices \ {d} : /\ producer'[e] = producer[e]
                                /\ replied'[e] = replied[e] /\ pushedOut'[e] = pushedOut[e]

LEMMA MovesAccount ==
    ASSUME IngestTyped, AccountedFor, NEW d \in Devices, ProducerMoves(d)
    PROVE  AccountedFor' /\ \A e \in Devices : Len(producer'[e].queue) <= MaxQueue
<1>1. ASSUME NEW e \in Devices
      PROVE  /\ producer'[e].offered \subseteq ToSet(producer'[e].queue) \union replied'[e] \union pushedOut'[e]
             /\ Len(producer'[e].queue) <= MaxQueue
  <2>1. CASE e = d
    BY <2>1 DEF ProducerMoves
  <2>2. CASE e # d
    BY <2>2 DEF ProducerMoves, AccountedFor, IngestTyped
  <2> QED BY <2>1, <2>2
<1> QED BY <1>1 DEF AccountedFor

LEMMA AnsweredMoves ==
    ASSUME IngestTyped, AccountedFor, NEW d \in Devices, NEW at \in Nat, NEW final \in BOOLEAN,
           Answered(d, at, final), UNCHANGED pushedOut
    PROVE  ProducerMoves(d)
<1> DEFINE p == producer[d]
           q == IF final /\ p.queue # <<>> /\ p.queue[1] = at THEN Tail(p.queue) ELSE p.queue
           r == [p EXCEPT !.posting = Nothing, !.queue = q]
<1>1. /\ p \in Producers /\ p.queue \in Seq(Nat) /\ Len(p.queue) <= MaxQueue
      /\ p.offered \subseteq ToSet(p.queue) \union replied[d] \union pushedOut[d]
      /\ replied \in [Devices -> SUBSET Nat] /\ producer \in [Devices -> Producers]
      /\ pushedOut' = pushedOut /\ pushedOut \in [Devices -> SUBSET Nat]
  BY DEF IngestTyped, AccountedFor, Producers
<1>2. /\ producer' = [producer EXCEPT ![d] = r]
      /\ replied' = [replied EXCEPT ![d] = IF final THEN @ \union {at} ELSE @]
  BY DEF Answered
<1>3. /\ q \in Seq(Nat) /\ Len(q) <= MaxQueue
      /\ ToSet(p.queue) \subseteq ToSet(q) \union (IF final THEN {at} ELSE {})
  <2>1. CASE final /\ p.queue # <<>> /\ p.queue[1] = at
    <3>1. q = Tail(p.queue)
      BY <2>1
    <3>2. /\ Tail(p.queue) \in Seq(Nat) /\ Len(Tail(p.queue)) = Len(p.queue) - 1
          /\ ToSet(p.queue) \subseteq ToSet(Tail(p.queue)) \union {at}
      BY <1>1, <2>1, QueueTail
    <3>3. Len(p.queue) \in Nat
      BY <1>1
    <3> HIDE DEF q, p
    <3> QED BY <1>1, <2>1, <3>1, <3>2, <3>3, IngestNumbers
  <2>2. CASE ~(final /\ p.queue # <<>> /\ p.queue[1] = at)
    <3>1. q = p.queue
      BY <2>2
    <3> HIDE DEF q
    <3> QED BY <1>1, <3>1
  <2> QED BY <2>1, <2>2
<1> HIDE DEF q
<1>4. r \in Producers /\ r.queue = q /\ r.offered = p.offered
  <2>1. p \in Producers
    BY <1>1
  <2> HIDE DEF p
  <2> QED BY <1>3, <2>1 DEF Producers, TimeOrNothing
<1> HIDE DEF r
<1>5. /\ producer' \in [Devices -> Producers] /\ producer'[d] = r
      /\ \A e \in Devices \ {d} : producer'[e] = producer[e]
  BY <1>1, <1>2, <1>4
<1>6. /\ replied' \in [Devices -> SUBSET Nat]
      /\ replied'[d] = replied[d] \union (IF final THEN {at} ELSE {})
      /\ \A e \in Devices \ {d} : replied'[e] = replied[e]
  BY <1>1, <1>2
<1>7. r.offered \subseteq ToSet(r.queue) \union replied'[d] \union pushedOut'[d]
  BY <1>1, <1>3, <1>4, <1>6
<1> QED BY <1>1, <1>3, <1>4, <1>5, <1>6, <1>7 DEF ProducerMoves

-----------------------------------------------------------------------------
(* The newest row.                                                         *)
LEMMA GreatestOf ==
    ASSUME NEW S \in SUBSET Nat, S # {}, NEW b \in Nat, \A n \in S : n <= b
    PROVE  Max(S) \in S /\ \A n \in S : n <= Max(S)
<1>1. PICK x \in S : \A y \in S : y <= x
  BY GreatestNumber
<1>2. Max(S) = CHOOSE m \in S : \A n \in S : n <= m
  BY DEF Max
<1> QED BY <1>1, <1>2

LEMMA LastStoredIs ==
    ASSUME IngestTyped, NEW d \in Devices
    PROVE  /\ LastStored(d) \in TimeOrNothing
           /\ d \notin overtook /\ LastIsLast =>
                \A a \in rows[d] : LastStored(d) # Nothing /\ a <= LastStored(d)
<1>0. /\ rows[d] \subseteq 0..Horizon /\ Horizon \in Nat /\ memory[d].last \in TimeOrNothing
  BY IngestNumbers DEF IngestTyped, Horizon
<1>1. CASE memory[d].last # Nothing
  <2>1. LastStored(d) = memory[d].last
    BY <1>1 DEF LastStored
  <2> QED BY <1>0, <1>1, <2>1 DEF LastIsLast
<1>2. CASE memory[d].last = Nothing /\ rows[d] = {}
  <2>1. LastStored(d) = Nothing
    BY <1>2 DEF LastStored, Newest
  <2> QED BY <1>2, <2>1 DEF TimeOrNothing
<1>3. CASE memory[d].last = Nothing /\ rows[d] # {}
  <2>1. LastStored(d) = Max(rows[d])
    BY <1>3 DEF LastStored, Newest
  <2>2. rows[d] \in SUBSET Nat /\ \A n \in rows[d] : n <= Horizon
    BY <1>0
  <2>3. Max(rows[d]) \in rows[d] /\ \A n \in rows[d] : n <= Max(rows[d])
    BY <1>0, <1>3, <2>2, GreatestOf
  <2>4. Max(rows[d]) \in Nat /\ Max(rows[d]) # Nothing
    BY <2>2, <2>3, IngestNumbers
  <2> QED BY <2>1, <2>3, <2>4 DEF TimeOrNothing
<1> QED BY <1>1, <1>2, <1>3

LEMMA SinceIs ==
    ASSUME IngestTyped
    PROVE  /\ RolledUp \subseteq 0..Horizon
           /\ RolledUp = {} => Since = 0
           /\ RolledUp # {} => /\ Since + 1 \in RolledUp
                               /\ \A h \in RolledUp : h <= Since + 1
<1>0. Horizon \in Nat
  BY IngestNumbers DEF Horizon
<1>1. RolledUp \subseteq 0..Horizon
  BY DEF IngestTyped, RolledUp
<1>2. ASSUME RolledUp # {}
      PROVE  Since + 1 \in RolledUp /\ \A h \in RolledUp : h <= Since + 1
  <2> DEFINE R == RolledUp
  <2>1. R \in SUBSET Nat /\ R # {} /\ \A n \in R : n <= Horizon
    BY <1>0, <1>1, <1>2
  <2>2. Since = Max(R) - 1
    BY <1>2 DEF Since
  <2> HIDE DEF R
  <2>3. Max(R) \in R /\ \A h \in R : h <= Max(R)
    BY <1>0, <2>1, GreatestOf
  <2>4. Max(R) \in Nat
    BY <2>1, <2>3
  <2>5. Since + 1 = Max(R)
    BY <2>2, <2>4
  <2> QED BY <2>3, <2>5 DEF R
<1> QED BY <1>1, <1>2 DEF Since

\* Steps that touch neither rows nor their counts.
LEMMA HoursStay ==
    ASSUME IngestInv, IngestTyped', UNCHANGED <<rows, hourly, outOfHour>>, now <= now'
    PROVE  NoneAhead' /\ HourlyCatchesUp'
<1>1. now \in Nat /\ now' \in Nat /\ rows \in [Devices -> SUBSET (0..Horizon)]
  BY DEF IngestInv, IngestTyped
<1>2. HourOf(now) <= HourOf(now') /\ HourOf(now) \in Nat /\ HourOf(now') \in Nat
  BY <1>1, HourFacts
<1>3. RolledUp' = RolledUp /\ RolledUp \subseteq Nat
  <2>1. RolledUp \subseteq 0..Horizon
    BY SinceIs DEF IngestInv
  <2> QED BY <2>1 DEF RolledUp
<1>4. \A d \in Devices : \A at \in rows[d] : HourOf(at) \in Nat
  BY <1>1, HourFacts DEF HourOf
<1>5. NoneAhead'
  <2> SUFFICES ASSUME ~outOfHour
               PROVE  /\ \A d \in Devices : \A at \in rows[d] : HourOf(at) <= HourOf(now')
                      /\ \A h \in RolledUp : h <= HourOf(now')
    BY <1>3 DEF NoneAhead, HourOf
  <2> QED BY <1>2, <1>3, <1>4 DEF IngestInv, NoneAhead
<1>6. HourlyCatchesUp'
  BY <1>3 DEF IngestInv, HourlyCatchesUp, Since, InHour, HourOf
<1> QED BY <1>5, <1>6

\* Steps that touch neither handlers, what is remembered, nor rows.
LEMMA LastStays ==
    ASSUME IngestInv, UNCHANGED <<handlers, memory, rows, overtook>>
    PROVE  LastIsLast' /\ StoredApart'
  BY DEF IngestInv, LastIsLast, StoredApart

LEMMA IngestInvInit == IngestInit => IngestInv
<1> SUFFICES ASSUME IngestInit PROVE IngestInv
  OBVIOUS
<1>1. \A k \in Skews : [skew |-> k, queue |-> <<>>, offered |-> {}, posting |-> Nothing] \in Producers
  BY DEF Producers, TimeOrNothing
<1>2. producer \in [Devices -> Producers] /\ \A d \in Devices : producer[d].queue = <<>> /\ producer[d].offered = {}
  BY <1>1 DEF IngestInit
<1>3. /\ \A d \in Devices : handlers[d] = {} /\ rows[d] = {} /\ hourly[d] = <<>> /\ memory[d].last = Nothing
      /\ \A d \in Devices : memory[d] = [latest |-> Nothing, last |-> Nothing]
  BY DEF IngestInit
<1>4. IngestTyped
  <2>1. \A d \in Devices : Len(producer[d].queue) <= MaxQueue
    BY <1>2, IngestNumbers
  <2>2. memory \in [Devices -> [latest : TimeOrNothing, last : TimeOrNothing]]
    BY DEF IngestInit, TimeOrNothing
  <2>3. /\ handlers \in [Devices -> SUBSET Handlers] /\ rows \in [Devices -> SUBSET (0..Horizon)]
        /\ token \in [Devices -> {"current", "replaced", "removed"}]
        /\ replied \in [Devices -> SUBSET Nat] /\ pushedOut \in [Devices -> SUBSET Nat]
    BY DEF IngestInit
  <2>4. hourly = [d \in Devices |-> hourly[d]] /\ \A d \in Devices : DOMAIN hourly[d] \subseteq 0..Horizon
    BY <1>3 DEF IngestInit
  <2>5. now \in 0..MaxTime /\ faults \in 0..MaxFaults /\ overtook \subseteq Devices /\ outOfHour \in BOOLEAN
    <3>1. now = HourLength /\ faults = 0 /\ overtook = {} /\ outOfHour = FALSE
      BY DEF IngestInit
    <3>2. now \in 0..MaxTime /\ faults \in 0..MaxFaults
      BY <3>1, IngestNumbers
    <3> QED BY <3>1, <3>2
  <2> QED BY <1>2, <2>1, <2>2, <2>3, <2>4, <2>5 DEF IngestTyped
<1>5. LastIsLast /\ StoredApart /\ AccountedFor /\ HourlyCatchesUp
  BY <1>2, <1>3 DEF LastIsLast, StoredApart, AccountedFor, HourlyCatchesUp
<1>6. RolledUp = {}
  BY <1>3 DEF RolledUp
<1>7. NoneAhead
  BY <1>3, <1>6 DEF NoneAhead
<1> QED BY <1>4, <1>5, <1>7 DEF IngestInv

-----------------------------------------------------------------------------
(* The steps.                                                              *)
LEMMA FaultCounts == ASSUME IngestTyped, Fault PROVE faults' \in 0..MaxFaults
  BY IngestNumbers DEF IngestTyped, Fault

LEMMA TickKeeps == IngestInv /\ Tick => IngestInv'
<1> SUFFICES ASSUME IngestInv, Tick PROVE IngestInv'
  OBVIOUS
<1>1. now' \in 0..MaxTime /\ now <= now'
  BY IngestNumbers DEF IngestInv, IngestTyped, Tick
<1>2. IngestTyped'
  BY <1>1 DEF IngestInv, IngestTyped, Tick
<1>3. NoneAhead' /\ HourlyCatchesUp'
  BY <1>1, <1>2, HoursStay DEF Tick
<1>4. LastIsLast' /\ StoredApart'
  BY LastStays DEF Tick
<1>5. AccountedFor'
  BY DEF IngestInv, AccountedFor, Tick
<1> QED BY <1>2, <1>3, <1>4, <1>5 DEF IngestInv

LEMMA OfferKeeps == ASSUME IngestInv, NEW d \in Devices, Offer(d) PROVE IngestInv'
<1> DEFINE p == producer[d]
           at == now + p.skew
           queued == Append(p.queue, at)
           over == Len(queued) > MaxQueue
           q == IF over THEN Tail(queued) ELSE queued
           o == p.offered \union {at}
           r == [p EXCEPT !.offered = o, !.queue = q]
<1>1. /\ p \in Producers /\ Len(p.queue) <= MaxQueue /\ producer \in [Devices -> Producers]
      /\ pushedOut \in [Devices -> SUBSET Nat] /\ replied \in [Devices -> SUBSET Nat]
      /\ now \in Nat
      /\ p.offered \subseteq ToSet(p.queue) \union replied[d] \union pushedOut[d]
  BY DEF IngestInv, IngestTyped, AccountedFor
<1>2. p.queue \in Seq(Nat) /\ at \in Nat /\ p.offered \subseteq Nat
  <2>1. p \in Producers
    BY <1>1
  <2> HIDE DEF p
  <2>2. p.skew \in Skews /\ p.queue \in Seq(Nat) /\ p.offered \subseteq Nat
    BY <2>1 DEF Producers
  <2>3. p.skew \in Nat
    BY <2>2, IngestNumbers
  <2> QED BY <1>1, <2>2, <2>3
<1>3. /\ producer' = [producer EXCEPT ![d] = r]
      /\ pushedOut' = [pushedOut EXCEPT ![d] = IF over THEN @ \union {queued[1]} ELSE @]
      /\ UNCHANGED <<now, handlers, memory, token, rows, hourly, replied, overtook, outOfHour, faults>>
  BY DEF Offer
<1>4. /\ queued \in Seq(Nat) /\ queued # <<>> /\ Len(queued) = Len(p.queue) + 1
      /\ ToSet(p.queue) \union {at} \subseteq ToSet(queued)
  BY <1>2, QueueAppend
<1>5. Len(p.queue) \in Nat
  BY <1>2
<1> HIDE DEF queued, at, p
<1>6. /\ q \in Seq(Nat) /\ Len(q) <= MaxQueue
      /\ ToSet(queued) \subseteq ToSet(q) \union (IF over THEN {queued[1]} ELSE {})
      /\ over => queued[1] \in Nat
  <2>1. CASE over
    <3>1. queued[1] \in Nat /\ Tail(queued) \in Seq(Nat) /\ Len(Tail(queued)) = Len(queued) - 1
          /\ ToSet(queued) \subseteq ToSet(Tail(queued)) \union {queued[1]}
      BY <1>4, QueueTail
    <3> QED BY <1>1, <1>4, <1>5, <2>1, <3>1
  <2>2. CASE ~over
    BY <1>4, <1>5, <2>2, IngestNumbers
  <2> QED BY <2>1, <2>2
<1>7. o \in SUBSET Nat
  BY <1>2
<1> HIDE DEF q, over, o
<1>8. r \in Producers /\ r.queue = q /\ r.offered = o
  BY <1>1, <1>6, <1>7 DEF Producers
<1> HIDE DEF r
<1>9. /\ producer' \in [Devices -> Producers] /\ producer'[d] = r
      /\ \A e \in Devices \ {d} : producer'[e] = producer[e]
  BY <1>1, <1>3, <1>8
<1>10. /\ pushedOut' \in [Devices -> SUBSET Nat]
       /\ pushedOut'[d] = pushedOut[d] \union (IF over THEN {queued[1]} ELSE {})
       /\ \A e \in Devices \ {d} : pushedOut'[e] = pushedOut[e]
  BY <1>1, <1>3, <1>6
<1>11. o \subseteq ToSet(q) \union replied[d] \union pushedOut'[d]
  BY <1>1, <1>4, <1>6, <1>10 DEF o
<1>12. ProducerMoves(d)
  BY <1>1, <1>3, <1>6, <1>8, <1>9, <1>10, <1>11 DEF ProducerMoves
<1>13. AccountedFor' /\ \A e \in Devices : Len(producer'[e].queue) <= MaxQueue
  BY <1>12, MovesAccount DEF IngestInv
<1>14. IngestTyped'
  BY <1>3, <1>9, <1>10, <1>13 DEF IngestInv, IngestTyped
<1>15. NoneAhead' /\ HourlyCatchesUp'
  BY <1>1, <1>3, <1>14, HoursStay
<1>16. LastIsLast' /\ StoredApart'
  BY <1>3, LastStays
<1> QED BY <1>13, <1>14, <1>15, <1>16 DEF IngestInv

\* A step that is only an answer to the producer, and what it leaves alone.
LEMMA AnswerKeeps ==
    ASSUME IngestInv, NEW d \in Devices, NEW at \in Nat, NEW final \in BOOLEAN,
           Answered(d, at, final), faults' \in 0..MaxFaults,
           UNCHANGED <<now, handlers, memory, token, rows, hourly, pushedOut, overtook, outOfHour>>
    PROVE  IngestInv'
<1>1. ProducerMoves(d)
  BY AnsweredMoves DEF IngestInv
<1>2. AccountedFor' /\ \A e \in Devices : Len(producer'[e].queue) <= MaxQueue
  BY <1>1, MovesAccount DEF IngestInv
<1>3. IngestTyped'
  BY <1>1, <1>2 DEF IngestInv, IngestTyped, ProducerMoves
<1>4. now \in Nat
  BY DEF IngestInv, IngestTyped
<1>5. NoneAhead' /\ HourlyCatchesUp'
  BY <1>3, <1>4, HoursStay
<1>6. LastIsLast' /\ StoredApart'
  BY LastStays
<1> QED BY <1>2, <1>3, <1>5, <1>6 DEF IngestInv

LEMMA ReceiveKeeps == ASSUME IngestInv, NEW d \in Devices, ReceiveBatch(d) PROVE IngestInv'
<1> DEFINE at == producer[d].queue[1]
           last == LastStored(d)
           h == [at |-> at, last |-> last]
<1>1. /\ producer[d] \in Producers /\ producer[d].queue \in Seq(Nat) /\ producer[d].queue # <<>>
      /\ now \in 0..MaxTime /\ producer \in [Devices -> Producers]
      /\ handlers \in [Devices -> SUBSET Handlers] /\ faults \in 0..MaxFaults
      /\ memory \in [Devices -> [latest : TimeOrNothing, last : TimeOrNothing]]
  BY DEF IngestInv, IngestTyped, ReceiveBatch, Producers
<1>2. at \in Nat
  BY <1>1, QueueTail
<1>3. /\ last \in TimeOrNothing
      /\ d \notin overtook => \A a \in rows[d] : last # Nothing /\ a <= last
  BY LastStoredIs DEF IngestInv
<1>4. CASE token[d] # "current" \/ at > now + MaxFuture \/ at < now - MaxAge
  <2>1. /\ Answered(d, at, TRUE)
        /\ UNCHANGED <<now, handlers, memory, overtook, token, rows, hourly, pushedOut, outOfHour, faults>>
    BY <1>4 DEF ReceiveBatch
  <2> HIDE DEF at
  <2> QED BY <1>1, <1>2, <2>1, AnswerKeeps
<1>5. CASE ~(token[d] # "current" \/ at > now + MaxFuture \/ at < now - MaxAge)
  <2>1. /\ producer' = [producer EXCEPT ![d].posting = at]
        /\ handlers' = [handlers EXCEPT ![d] = @ \union {h}]
        /\ overtook' = IF handlers[d] # {} THEN overtook \union {d} ELSE overtook
        /\ UNCHANGED <<now, token, rows, hourly, replied, pushedOut, outOfHour, faults>>
    BY <1>5 DEF ReceiveBatch
  <2>2. memory' = [memory EXCEPT ![d].latest = IF @ # Nothing /\ @ >= at THEN @ ELSE at]
    BY <1>5 DEF ReceiveBatch
  <2>3. at \in 0..Horizon /\ ~(at > now + MaxFuture)
    <3>1. ~(at > now + MaxFuture)
      BY <1>5
    <3> HIDE DEF at
    <3> QED BY <1>1, <1>2, <3>1, IngestNumbers DEF Horizon
  <2>4. h \in Handlers /\ h.last = last
    BY <1>3, <2>3 DEF Handlers
  <2> HIDE DEF at, last
  <2>5. /\ handlers' \in [Devices -> SUBSET Handlers] /\ handlers'[d] = handlers[d] \union {h}
        /\ \A e \in Devices \ {d} : handlers'[e] = handlers[e]
    BY <1>1, <2>1, <2>4
  <2>6. /\ producer' \in [Devices -> Producers]
        /\ \A e \in Devices : producer'[e].queue = producer[e].queue /\ producer'[e].offered = producer[e].offered
    <3>1. [producer[d] EXCEPT !.posting = at] \in Producers
          /\ [producer[d] EXCEPT !.posting = at].queue = producer[d].queue
          /\ [producer[d] EXCEPT !.posting = at].offered = producer[d].offered
      BY <1>1, <1>2 DEF Producers, TimeOrNothing
    <3> QED BY <1>1, <2>1, <3>1
  <2>7. /\ memory' \in [Devices -> [latest : TimeOrNothing, last : TimeOrNothing]]
        /\ \A e \in Devices : memory'[e].last = memory[e].last
    <3> DEFINE l == IF memory[d].latest # Nothing /\ memory[d].latest >= at
                    THEN memory[d].latest ELSE at
               m == [memory[d] EXCEPT !.latest = l]
    <3>1. memory[d] \in [latest : TimeOrNothing, last : TimeOrNothing]
      BY <1>1
    <3>2. l \in TimeOrNothing
      BY <1>2, <3>1 DEF TimeOrNothing
    <3>3. memory' = [memory EXCEPT ![d] = m]
      BY <2>2
    <3> HIDE DEF l
    <3>4. m \in [latest : TimeOrNothing, last : TimeOrNothing] /\ m.last = memory[d].last
      BY <3>1, <3>2
    <3> HIDE DEF m
    <3> QED BY <1>1, <3>3, <3>4
  <2>8. IngestTyped'
    BY <2>1, <2>5, <2>6, <2>7 DEF IngestInv, IngestTyped
  <2>9. AccountedFor'
    BY <2>1, <2>6 DEF IngestInv, AccountedFor
  <2>10. NoneAhead' /\ HourlyCatchesUp'
    BY <1>1, <2>1, <2>8, HoursStay
  <2>11. StoredApart'
    <3>1. Devices \ overtook' \subseteq Devices \ overtook
      BY <2>1
    <3> QED BY <2>1, <3>1 DEF IngestInv, StoredApart
  <2>12. LastIsLast'
    <3> SUFFICES ASSUME NEW e \in Devices \ overtook'
                 PROVE  /\ \A f, g \in handlers'[e] : f = g
                        /\ \A f \in handlers'[e], a \in rows[e] : f.last # Nothing /\ a <= f.last
                        /\ memory'[e].last # Nothing => \A a \in rows[e] : a <= memory'[e].last
      BY <2>1 DEF LastIsLast
    <3>0. e \in Devices \ overtook
      BY <2>1
    <3>1. CASE e = d
      <4>1. handlers[d] = {}
        BY <2>1, <3>1
      <4>2. handlers'[d] = {h}
        BY <2>5, <4>1
      <4> HIDE DEF h
      <4> QED BY <1>3, <2>4, <2>7, <3>0, <3>1, <4>2 DEF IngestInv, LastIsLast
    <3>2. CASE e # d
      BY <2>5, <2>7, <3>0, <3>2 DEF IngestInv, LastIsLast
    <3> QED BY <3>1, <3>2
  <2> QED BY <2>8, <2>9, <2>10, <2>11, <2>12 DEF IngestInv
<1> QED BY <1>4, <1>5

LEMMA HandlerKeeps ==
    ASSUME IngestInv, NEW d \in Devices, NEW h \in handlers[d], NEW reached \in BOOLEAN,
           HandlerEnds(d, h, reached), faults' \in 0..MaxFaults,
           UNCHANGED <<now, token, hourly, pushedOut, overtook>>
    PROVE  IngestInv'
<1> DEFINE stored == ~TooSoon(h.at, h.last)
           isNew == stored /\ h.at \notin rows[d]
           last == IF h.last = Nothing THEN h.at ELSE Max({h.at, h.last})
<1>1. /\ h \in Handlers /\ h.at \in 0..Horizon /\ h.last \in TimeOrNothing /\ Horizon \in Nat
      /\ rows \in [Devices -> SUBSET (0..Horizon)] /\ handlers \in [Devices -> SUBSET Handlers]
      /\ memory \in [Devices -> [latest : TimeOrNothing, last : TimeOrNothing]]
      /\ now \in Nat /\ outOfHour \in BOOLEAN
  <2>1. IngestTyped
    BY DEF IngestInv
  <2>2. /\ rows \in [Devices -> SUBSET (0..Horizon)] /\ handlers \in [Devices -> SUBSET Handlers]
        /\ memory \in [Devices -> [latest : TimeOrNothing, last : TimeOrNothing]]
        /\ now \in Nat /\ outOfHour \in BOOLEAN
    BY <2>1, IngestNumbers DEF IngestTyped
  <2>3. h \in Handlers
    BY <2>2
  <2>4. h.at \in 0..Horizon /\ h.last \in TimeOrNothing
    BY <2>3 DEF Handlers
  <2>5. Horizon \in Nat
    BY IngestNumbers DEF Horizon
  <2> QED BY <2>2, <2>3, <2>4, <2>5
<1>2. /\ handlers' = [handlers EXCEPT ![d] = @ \ {h}]
      /\ rows' = [rows EXCEPT ![d] = IF stored THEN @ \union {h.at} ELSE @]
      /\ memory' = [memory EXCEPT ![d].last = IF isNew THEN last ELSE @]
  BY DEF HandlerEnds
<1>3. outOfHour' <=> (outOfHour \/ (isNew /\ HourOf(h.at) \notin {HourOf(now) - 1, HourOf(now)}))
  BY DEF HandlerEnds
<1>3a. outOfHour' \in BOOLEAN
  BY <1>1 DEF HandlerEnds
<1>4. \/ Answered(d, h.at, TRUE)
      \/ UNCHANGED <<producer, replied>>
  BY DEF HandlerEnds
<1>5. isNew => /\ last = h.at
               /\ h.last # Nothing => h.last + StoreInterval <= h.at
  <2>1. SUFFICES ASSUME isNew
                 PROVE  /\ last = h.at
                        /\ h.last # Nothing => h.last + StoreInterval <= h.at
    OBVIOUS
  <2>2. CASE h.last = Nothing
    BY <2>2
  <2>3. CASE h.last # Nothing
    <3>1. h.last \in Nat /\ h.at \in Nat
      BY <1>1, <2>3 DEF TimeOrNothing
    <3>2. ~(h.at - h.last < StoreInterval)
      BY <2>1, <2>3 DEF TooSoon
    <3>3. h.last + StoreInterval <= h.at
      BY <3>1, <3>2, IngestNumbers
    <3>4. Max({h.at, h.last}) = CHOOSE x \in {h.at, h.last} : \A y \in {h.at, h.last} : y <= x
      BY DEF Max
    <3>5. \A x \in {h.at, h.last} : (\A y \in {h.at, h.last} : y <= x) <=> x = h.at
      BY <3>1, <3>3, IngestNumbers
    <3>6. Max({h.at, h.last}) = h.at
      BY <3>4, <3>5
    <3> QED BY <2>3, <3>3, <3>6
  <2> QED BY <2>2, <2>3
<1>6. /\ handlers' \in [Devices -> SUBSET Handlers] /\ handlers'[d] = handlers[d] \ {h}
      /\ \A e \in Devices \ {d} : handlers'[e] = handlers[e]
  BY <1>1, <1>2
<1>7. /\ rows' \in [Devices -> SUBSET (0..Horizon)]
      /\ rows'[d] = IF isNew THEN rows[d] \union {h.at} ELSE rows[d]
      /\ \A e \in Devices \ {d} : rows'[e] = rows[e]
  <2> HIDE DEF last
  <2> QED BY <1>1, <1>2
<1> HIDE DEF isNew, last, stored
<1>8. /\ memory' \in [Devices -> [latest : TimeOrNothing, last : TimeOrNothing]]
      /\ memory'[d].last = IF isNew THEN h.at ELSE memory[d].last
      /\ \A e \in Devices \ {d} : memory'[e] = memory[e]
  <2>1. h.at \in TimeOrNothing
    BY <1>1 DEF TimeOrNothing
  <2> DEFINE m == [memory[d] EXCEPT !.last = IF isNew THEN last ELSE memory[d].last]
  <2>2. memory[d] \in [latest : TimeOrNothing, last : TimeOrNothing]
    BY <1>1
  <2>3. m \in [latest : TimeOrNothing, last : TimeOrNothing]
        /\ m.last = IF isNew THEN h.at ELSE memory[d].last
    BY <1>5, <2>1, <2>2
  <2>4. memory' = [memory EXCEPT ![d] = m]
    BY <1>2
  <2> HIDE DEF m
  <2> QED BY <1>1, <2>3, <2>4
<1>9. /\ AccountedFor' /\ producer' \in [Devices -> Producers]
      /\ replied' \in [Devices -> SUBSET Nat] /\ \A e \in Devices : Len(producer'[e].queue) <= MaxQueue
  <2>1. CASE Answered(d, h.at, TRUE)
    <3>1. ProducerMoves(d)
      <4>1. h.at \in Nat /\ UNCHANGED pushedOut /\ IngestTyped /\ AccountedFor
        BY <1>1 DEF IngestInv
      <4> QED BY <2>1, <4>1, AnsweredMoves
    <3> QED BY <3>1, MovesAccount DEF IngestInv, ProducerMoves
  <2>2. CASE UNCHANGED <<producer, replied>>
    BY <2>2 DEF IngestInv, IngestTyped, AccountedFor
  <2> QED BY <1>4, <2>1, <2>2
<1>10. IngestTyped'
  BY <1>3a, <1>6, <1>7, <1>8, <1>9 DEF IngestInv, IngestTyped
\* A new row is later than all others, when it was alone in hand.
<1>11. ASSUME d \notin overtook, isNew, NEW a \in rows[d]
       PROVE  a + StoreInterval <= h.at
  <2>1. h.last # Nothing /\ a <= h.last
    BY <1>11 DEF IngestInv, LastIsLast
  <2>2. h.last + StoreInterval <= h.at /\ h.last \in Nat
    BY <1>1, <1>5, <1>11, <2>1 DEF TimeOrNothing
  <2>3. a \in Nat
    BY <1>1
  <2> QED BY <1>1, <2>1, <2>2, <2>3, IngestNumbers
<1>12. StoredApart'
  <2> SUFFICES ASSUME NEW e \in Devices \ overtook, NEW a \in rows'[e], NEW b \in rows'[e], a < b
               PROVE  b - a >= StoreInterval
    BY DEF StoredApart
  <2>1. CASE e # d \/ ~isNew
    BY <1>7, <2>1 DEF IngestInv, StoredApart
  <2>2. CASE e = d /\ isNew
    <3>1. a \in 0..Horizon /\ b \in 0..Horizon
      BY <1>7
    <3>2. CASE a \in rows[d] /\ b \in rows[d]
      BY <2>2, <3>2 DEF IngestInv, StoredApart
    <3>3. CASE a \in rows[d] /\ b = h.at
      BY <1>1, <1>11, <2>2, <3>1, <3>3, IngestNumbers
    <3>4. CASE a = h.at /\ b \in rows[d]
      BY <1>1, <1>11, <2>2, <3>1, <3>4, IngestNumbers
    <3>5. CASE a = h.at /\ b = h.at
      BY <3>1, <3>5
    <3> QED BY <1>7, <2>2, <3>2, <3>3, <3>4, <3>5
  <2> QED BY <2>1, <2>2
<1>13. LastIsLast'
  <2> SUFFICES ASSUME NEW e \in Devices \ overtook
               PROVE  /\ \A f, g \in handlers'[e] : f = g
                      /\ \A f \in handlers'[e], a \in rows'[e] : f.last # Nothing /\ a <= f.last
                      /\ memory'[e].last # Nothing => \A a \in rows'[e] : a <= memory'[e].last
    BY DEF LastIsLast
  <2>1. CASE e # d
    BY <1>6, <1>7, <1>8, <2>1 DEF IngestInv, LastIsLast
  <2>2. CASE e = d
    <3>1. handlers'[d] = {}
      <4>1. \A f \in handlers[d] : f = h
        BY <2>2 DEF IngestInv, LastIsLast
      <4> QED BY <1>6, <4>1
    <3>2. CASE isNew
      <4>1. \A a \in rows[d] : a <= h.at
        <5> TAKE a \in rows[d]
        <5>1. a + StoreInterval <= h.at /\ a \in Nat
          BY <1>1, <1>11, <2>2, <3>2
        <5> QED BY <1>1, <5>1, IngestNumbers
      <4>2. h.at <= h.at
        BY <1>1
      <4> QED BY <1>7, <1>8, <2>2, <3>1, <3>2, <4>1, <4>2
    <3>3. CASE ~isNew
      BY <1>7, <1>8, <2>2, <3>1, <3>3 DEF IngestInv, LastIsLast
    <3> QED BY <3>2, <3>3
  <2> QED BY <2>1, <2>2
\* A new row within its hour and the next is not before the window.
<1>14. RolledUp' = RolledUp /\ Since' = Since /\ \A a : HourOf(a)' = HourOf(a)
  BY DEF RolledUp, Since, HourOf
<1>15. HourOf(now) \in Nat /\ HourOf(h.at) \in Nat
  BY <1>1, HourFacts
<1>16. ~outOfHour' /\ isNew => HourOf(h.at) <= HourOf(now) /\ HourOf(h.at) >= HourOf(now) - 1
  BY <1>3, <1>15
<1>17. ~outOfHour' => ~outOfHour
  BY <1>3
<1>18. NoneAhead'
  <2> SUFFICES ASSUME ~outOfHour'
               PROVE  /\ \A e \in Devices : \A at \in rows'[e] : HourOf(at) <= HourOf(now)
                      /\ \A k \in RolledUp : k <= HourOf(now)
    BY <1>14 DEF NoneAhead, HourOf
  <2> QED BY <1>7, <1>16, <1>17 DEF IngestInv, NoneAhead
<1>19. Since \in Int /\ (~outOfHour => Since <= HourOf(now) - 1 \/ Since = 0)
  <2>1. CASE RolledUp = {}
    BY <2>1, SinceIs DEF IngestInv
  <2>2. CASE RolledUp # {}
    <3>1. Since + 1 \in RolledUp /\ RolledUp \subseteq Nat
      BY <1>1, <2>2, SinceIs DEF IngestInv
    <3>2. Since = Max(RolledUp) - 1 /\ Since + 1 \in Nat
      BY <2>2, <3>1 DEF Since
    <3>3. Since \in Int
      <4>1. Max(RolledUp) \in Nat
        <5>1. RolledUp \in SUBSET Nat /\ \A n \in RolledUp : n <= Horizon
          BY <1>1, SinceIs DEF IngestInv
        <5> QED BY <1>1, <2>2, <5>1, GreatestOf
      <4> QED BY <3>2, <4>1
    <3>4. ~outOfHour => Since + 1 <= HourOf(now)
      BY <3>1 DEF IngestInv, NoneAhead
    <3> QED BY <1>15, <3>3, <3>4
  <2> QED BY <2>1, <2>2
<1>21. HourlyCatchesUp'
  <2> SUFFICES ASSUME ~outOfHour', NEW e \in Devices, NEW at \in rows'[e]
               PROVE  \/ HourOf(at) >= Since
                      \/ /\ HourOf(at) \in DOMAIN hourly[e]
                         /\ hourly[e][HourOf(at)] = Cardinality({a \in rows'[e] : HourOf(a) = HourOf(at)})
    BY <1>14 DEF HourlyCatchesUp, InHour
  <2>0. isNew => HourOf(h.at) >= Since
    BY <1>15, <1>16, <1>17, <1>19
  <2>1. CASE e # d \/ ~isNew
    BY <1>7, <1>17, <2>1 DEF IngestInv, HourlyCatchesUp, InHour
  <2>2. CASE e = d /\ isNew
    <3>1. CASE HourOf(at) = HourOf(h.at)
      BY <2>0, <2>2, <3>1
    <3>2. CASE HourOf(at) # HourOf(h.at)
      <4>1. at \in rows[d]
        BY <1>7, <2>2, <3>2
      <4>2. {a \in rows'[e] : HourOf(a) = HourOf(at)} = {a \in rows[d] : HourOf(a) = HourOf(at)}
        BY <1>7, <2>2, <3>2
      <4> QED BY <1>17, <2>2, <4>1, <4>2 DEF IngestInv, HourlyCatchesUp, InHour
    <3> QED BY <3>1, <3>2
  <2> QED BY <2>1, <2>2
<1> QED BY <1>9, <1>10, <1>12, <1>13, <1>18, <1>21 DEF IngestInv

LEMMA RestartKeeps == IngestInv /\ RestartIngest => IngestInv'
<1> SUFFICES ASSUME IngestInv, RestartIngest PROVE IngestInv'
  OBVIOUS
<1>1. /\ handlers' \in [Devices -> SUBSET Handlers] /\ \A d \in Devices : handlers'[d] = {}
      /\ memory' \in [Devices -> [latest : TimeOrNothing, last : TimeOrNothing]]
      /\ \A d \in Devices : memory'[d].last = Nothing
  BY DEF RestartIngest, TimeOrNothing
<1>2. /\ faults' \in 0..MaxFaults /\ now \in Nat
      /\ UNCHANGED <<now, producer, token, rows, hourly, replied, pushedOut, overtook, outOfHour>>
  BY FaultCounts DEF RestartIngest, IngestInv, IngestTyped
<1>3. IngestTyped'
  BY <1>1, <1>2 DEF IngestInv, IngestTyped
<1>4. NoneAhead' /\ HourlyCatchesUp'
  BY <1>2, <1>3, HoursStay
<1>5. LastIsLast' /\ StoredApart' /\ AccountedFor'
  BY <1>1, <1>2 DEF IngestInv, LastIsLast, StoredApart, AccountedFor
<1> QED BY <1>3, <1>4, <1>5 DEF IngestInv

LEMMA ReplaceKeeps == ASSUME IngestInv, NEW d \in Devices, ReplaceToken(d) PROVE IngestInv'
<1>1. /\ faults' \in 0..MaxFaults /\ now \in Nat
      /\ token' \in [Devices -> {"current", "replaced", "removed"}]
      /\ UNCHANGED <<now, producer, handlers, memory, rows, hourly, replied, pushedOut, overtook, outOfHour>>
  BY FaultCounts DEF ReplaceToken, IngestInv, IngestTyped
<1>2. IngestTyped'
  BY <1>1 DEF IngestInv, IngestTyped
<1>3. NoneAhead' /\ HourlyCatchesUp'
  BY <1>1, <1>2, HoursStay
<1>4. LastIsLast' /\ StoredApart' /\ AccountedFor'
  BY <1>1, LastStays DEF IngestInv, AccountedFor
<1> QED BY <1>2, <1>3, <1>4 DEF IngestInv

LEMMA FailsKeeps == ASSUME IngestInv, NEW d \in Devices, StoreFails(d) PROVE IngestInv'
<1>1. PICK h \in handlers[d] :
        /\ handlers' = [handlers EXCEPT ![d] = @ \ {h}]
        /\ Answered(d, h.at, FALSE) \/ UNCHANGED <<producer, replied>>
        /\ UNCHANGED <<now, memory, token, rows, hourly, pushedOut, overtook, outOfHour, faults>>
  BY DEF StoreFails
<1>2. /\ handlers' \in [Devices -> SUBSET Handlers]
      /\ \A e \in Devices : handlers'[e] \subseteq handlers[e]
      /\ h.at \in Nat /\ now \in Nat
  BY <1>1, IngestNumbers DEF IngestInv, IngestTyped, Handlers, Horizon
<1>3. /\ AccountedFor' /\ producer' \in [Devices -> Producers]
      /\ replied' \in [Devices -> SUBSET Nat] /\ \A e \in Devices : Len(producer'[e].queue) <= MaxQueue
  <2>1. CASE Answered(d, h.at, FALSE)
    <3>1. ProducerMoves(d)
      <4>1. UNCHANGED pushedOut /\ IngestTyped /\ AccountedFor /\ h.at \in Nat
        BY <1>1, <1>2 DEF IngestInv
      <4> QED BY <2>1, <4>1, AnsweredMoves
    <3> QED BY <3>1, MovesAccount DEF IngestInv, ProducerMoves
  <2>2. CASE UNCHANGED <<producer, replied>>
    BY <1>1, <2>2 DEF IngestInv, IngestTyped, AccountedFor
  <2> QED BY <1>1, <2>1, <2>2
<1>4. IngestTyped'
  BY <1>1, <1>2, <1>3 DEF IngestInv, IngestTyped
<1>5. NoneAhead' /\ HourlyCatchesUp'
  BY <1>1, <1>2, <1>4, HoursStay
<1>6. StoredApart'
  BY <1>1 DEF IngestInv, StoredApart
<1>7. LastIsLast'
  BY <1>1, <1>2 DEF IngestInv, LastIsLast
<1> QED BY <1>3, <1>4, <1>5, <1>6, <1>7 DEF IngestInv

LEMMA GiveUpKeeps == ASSUME IngestInv, NEW d \in Devices, GiveUp(d) PROVE IngestInv'
<1>1. /\ Answered(d, producer[d].posting, FALSE)
      /\ producer[d].posting # Nothing
      /\ UNCHANGED <<now, handlers, memory, token, rows, hourly, pushedOut, overtook, outOfHour>>
      /\ Fault \/ UNCHANGED faults
  BY DEF GiveUp
<1>2. producer[d].posting \in Nat
  BY <1>1 DEF IngestInv, IngestTyped, Producers, TimeOrNothing
<1>3. faults' \in 0..MaxFaults
  BY <1>1, FaultCounts DEF IngestInv, IngestTyped
<1> QED BY <1>1, <1>2, <1>3, AnswerKeeps

LEMMA RemoveKeeps == ASSUME IngestInv, NEW d \in Devices, RemoveDevice(d) PROVE IngestInv'
<1>1. /\ faults' \in 0..MaxFaults /\ now \in Nat
      /\ token' \in [Devices -> {"current", "replaced", "removed"}]
      /\ rows' = [rows EXCEPT ![d] = {}] /\ hourly' = [hourly EXCEPT ![d] = <<>>]
      /\ UNCHANGED <<now, producer, handlers, memory, replied, pushedOut, overtook, outOfHour>>
  BY FaultCounts DEF RemoveDevice, IngestInv, IngestTyped
<1>2. /\ rows' \in [Devices -> SUBSET (0..Horizon)] /\ rows'[d] = {}
      /\ \A e \in Devices \ {d} : rows'[e] = rows[e]
      /\ \A e \in Devices : rows'[e] \subseteq rows[e]
  BY <1>1 DEF IngestInv, IngestTyped
<1>3. /\ hourly' = [e \in Devices |-> hourly'[e]] /\ hourly'[d] = <<>>
      /\ \A e \in Devices \ {d} : hourly'[e] = hourly[e]
  BY <1>1 DEF IngestInv, IngestTyped
<1>4. DOMAIN <<>> = {}
  OBVIOUS
<1>5. \A e \in Devices : DOMAIN hourly'[e] \subseteq DOMAIN hourly[e]
  BY <1>3, <1>4
<1>6. IngestTyped'
  BY <1>1, <1>2, <1>3, <1>5 DEF IngestInv, IngestTyped
<1>7. LastIsLast' /\ StoredApart' /\ AccountedFor'
  BY <1>1, <1>2 DEF IngestInv, LastIsLast, StoredApart, AccountedFor
<1>8. RolledUp' \subseteq RolledUp
  BY <1>5 DEF RolledUp
<1>9. NoneAhead'
  BY <1>1, <1>2, <1>8 DEF IngestInv, NoneAhead, HourOf
<1>10. RolledUp' # {} => Since' <= Since /\ Since' \in Int /\ Since \in Int
  <2> SUFFICES ASSUME RolledUp' # {} PROVE Since' <= Since /\ Since' \in Int /\ Since \in Int
    OBVIOUS
  <2>1. Since + 1 \in RolledUp /\ (\A h \in RolledUp : h <= Since + 1) /\ RolledUp \subseteq 0..Horizon
    BY <1>8, SinceIs DEF IngestInv
  <2>2. Since' = Max(RolledUp') - 1 /\ Since = Max(RolledUp) - 1
    BY <1>8 DEF Since
  <2> DEFINE R == RolledUp
             Q == RolledUp'
  <2>3. Horizon \in Nat /\ R \in SUBSET Nat /\ Q \in SUBSET Nat /\ R # {} /\ Q # {}
        /\ (\A n \in R : n <= Horizon) /\ (\A n \in Q : n <= Horizon) /\ Q \subseteq R
    BY <1>8, <2>1, IngestNumbers DEF Horizon
  <2> HIDE DEF R, Q
  <2>4. /\ Max(R) \in R /\ \A n \in R : n <= Max(R)
        /\ Max(Q) \in Q
    BY <2>3, GreatestOf
  <2>5. Max(Q) <= Max(R) /\ Max(Q) \in Nat /\ Max(R) \in Nat
    BY <2>3, <2>4
  <2> QED BY <2>2, <2>5 DEF R, Q
<1>11. HourlyCatchesUp'
  <2> SUFFICES ASSUME ~outOfHour, NEW e \in Devices, NEW at \in rows'[e]
               PROVE  \/ HourOf(at) >= Since'
                      \/ /\ HourOf(at) \in DOMAIN hourly'[e]
                         /\ hourly'[e][HourOf(at)] = Cardinality({a \in rows'[e] : HourOf(a) = HourOf(at)})
    BY <1>1 DEF HourlyCatchesUp, InHour, HourOf
  <2>1. e # d /\ at \in rows[e] /\ at \in Nat
    BY <1>2
  <2>2. HourOf(at) \in Nat
    BY <2>1, HourFacts
  <2>3. CASE RolledUp' = {}
    BY <2>2, <2>3 DEF Since
  <2>4. CASE RolledUp' # {} /\ HourOf(at) >= Since
    BY <1>10, <2>2, <2>4
  <2>5. CASE ~(HourOf(at) >= Since)
    BY <1>2, <1>3, <2>1, <2>5 DEF IngestInv, HourlyCatchesUp, InHour
  <2> QED BY <2>3, <2>4, <2>5
<1> QED BY <1>6, <1>7, <1>9, <1>11 DEF IngestInv

LEMMA RollUpKeeps == IngestInv /\ RollUp => IngestInv'
<1> SUFFICES ASSUME IngestInv, RollUp PROVE IngestInv'
  OBVIOUS
<1> DEFINE touched(d) == {HourOf(at) : at \in {r \in rows[d] : HourOf(r) >= Since}}
           count(d) == [h \in DOMAIN hourly[d] \union touched(d) |->
                           IF h \in touched(d) THEN Cardinality(InHour(d, h)) ELSE hourly[d][h]]
<1>1. /\ hourly' = [d \in Devices |-> count(d)]
      /\ UNCHANGED <<now, producer, handlers, memory, token, rows,
                     replied, pushedOut, overtook, outOfHour, faults>>
  BY DEF RollUp
<1>2. /\ now \in Nat /\ rows \in [Devices -> SUBSET (0..Horizon)] /\ Horizon \in Nat
      /\ \A d \in Devices : DOMAIN hourly[d] \subseteq 0..Horizon
  BY IngestNumbers DEF IngestInv, IngestTyped, Horizon
<1>3. \A d \in Devices : \A at \in rows[d] : HourOf(at) \in 0..Horizon
  <2> TAKE d \in Devices
  <2> TAKE at \in rows[d]
  <2>1. at \in Nat /\ at <= Horizon
    BY <1>2
  <2> QED BY <1>2, <2>1, HourFacts
<1>4. \A d \in Devices : touched(d) \subseteq 0..Horizon
  BY <1>3
<1>5. \A d \in Devices : /\ hourly'[d] = count(d)
                         /\ DOMAIN hourly'[d] = DOMAIN hourly[d] \union touched(d)
  BY <1>1
<1>6. hourly' = [d \in Devices |-> hourly'[d]]
  BY <1>1
<1>7. IngestTyped'
  BY <1>1, <1>2, <1>4, <1>5, <1>6 DEF IngestInv, IngestTyped
<1>8. LastIsLast' /\ StoredApart' /\ AccountedFor'
  BY <1>1, LastStays DEF IngestInv, AccountedFor
<1>9. \A k \in RolledUp' : k \in RolledUp \/ \E d \in Devices : k \in touched(d)
  <2> TAKE k \in RolledUp'
  <2>1. PICK d \in Devices : k \in DOMAIN hourly'[d]
    BY DEF RolledUp
  <2> HIDE DEF touched
  <2>2. k \in DOMAIN hourly[d] \/ k \in touched(d)
    BY <1>5, <2>1
  <2> QED BY <2>2 DEF RolledUp
<1>10. NoneAhead'
  <2> SUFFICES ASSUME ~outOfHour
               PROVE  /\ \A d \in Devices : \A at \in rows[d] : HourOf(at) <= HourOf(now)
                      /\ \A k \in RolledUp' : k <= HourOf(now)
    BY <1>1 DEF NoneAhead, HourOf
  <2>1. \A d \in Devices : \A k \in touched(d) : k <= HourOf(now)
    BY DEF IngestInv, NoneAhead
  <2> QED BY <1>9, <2>1 DEF IngestInv, NoneAhead
<1>11. HourlyCatchesUp'
  <2> SUFFICES ASSUME ~outOfHour, NEW d \in Devices, NEW at \in rows[d], ~(HourOf(at) >= Since')
               PROVE  /\ HourOf(at) \in DOMAIN hourly'[d]
                      /\ hourly'[d][HourOf(at)] = Cardinality(InHour(d, HourOf(at)))
    BY <1>1 DEF HourlyCatchesUp, InHour, HourOf
  <2>1. CASE HourOf(at) \in touched(d)
    <3> HIDE DEF touched
    <3> QED BY <1>5, <2>1
  <2>2. CASE HourOf(at) \notin touched(d)
    <3>1. ~(HourOf(at) >= Since)
      BY <2>2
    <3>2. /\ HourOf(at) \in DOMAIN hourly[d]
          /\ hourly[d][HourOf(at)] = Cardinality(InHour(d, HourOf(at)))
      BY <3>1 DEF IngestInv, HourlyCatchesUp
    <3> HIDE DEF touched
    <3> QED BY <1>5, <2>2, <3>2
  <2> QED BY <2>1, <2>2
<1> QED BY <1>7, <1>8, <1>10, <1>11 DEF IngestInv

LEMMA IngestInvStep == IngestInv /\ [IngestNext]_ingestVars => IngestInv'
<1> SUFFICES ASSUME IngestInv, [IngestNext]_ingestVars PROVE IngestInv'
  OBVIOUS
<1>1. ASSUME NEW d \in Devices, Store(d)
      PROVE  IngestInv'
  <2>1. PICK h \in handlers[d] :
          /\ \/ HandlerEnds(d, h, TRUE) /\ UNCHANGED faults
             \/ HandlerEnds(d, h, FALSE) /\ Fault
          /\ UNCHANGED <<now, token, hourly, pushedOut, overtook>>
    BY <1>1 DEF Store
  <2>2. faults' \in 0..MaxFaults
    BY <2>1, FaultCounts DEF IngestInv, IngestTyped
  <2> QED BY <2>1, <2>2, HandlerKeeps
<1>2. CASE UNCHANGED ingestVars
  <2>1. UNCHANGED <<now, producer, handlers, memory, token, rows, hourly,
                    replied, pushedOut, overtook, outOfHour, faults>>
    BY <1>2 DEF ingestVars
  <2>2. IngestTyped' /\ now \in Nat
    BY <2>1 DEF IngestInv, IngestTyped
  <2>3. NoneAhead' /\ HourlyCatchesUp'
    BY <2>1, <2>2, HoursStay
  <2> QED BY <2>1, <2>2, <2>3, LastStays DEF IngestInv, AccountedFor
<1> QED BY <1>1, <1>2, TickKeeps, RestartKeeps, RollUpKeeps, OfferKeeps, ReceiveKeeps, FailsKeeps,
           GiveUpKeeps, ReplaceKeeps, RemoveKeeps DEF IngestNext

LEMMA IngestTypes == IngestInv => IngestTypeOK
<1> SUFFICES ASSUME IngestInv PROVE IngestTypeOK
  OBVIOUS
<1>1. IngestTyped /\ Horizon \in Nat
  BY IngestNumbers DEF IngestInv, Horizon
<1>2. ASSUME NEW d \in Devices
      PROVE  /\ producer[d].skew \in Skews
             /\ producer[d].queue \in Seq(Nat) /\ Len(producer[d].queue) <= MaxQueue
             /\ producer[d].offered \subseteq Nat
             /\ producer[d].posting \in Nat \union {Nothing}
             /\ handlers[d] \subseteq [at : Nat, last : Nat \union {Nothing}]
             /\ memory[d] \in [latest : Nat \union {Nothing}, last : Nat \union {Nothing}]
             /\ token[d] \in {"current", "replaced", "removed"}
             /\ rows[d] \subseteq Nat /\ replied[d] \subseteq Nat /\ pushedOut[d] \subseteq Nat
             /\ DOMAIN hourly[d] \subseteq Nat
  <2>1. Handlers \subseteq [at : Nat, last : Nat \union {Nothing}]
    BY <1>1 DEF Handlers, TimeOrNothing
  <2>2. producer[d] \in Producers /\ handlers[d] \subseteq Handlers
    BY <1>1 DEF IngestTyped
  <2>3. producer[d].skew \in Skews /\ producer[d].queue \in Seq(Nat)
        /\ producer[d].offered \subseteq Nat /\ producer[d].posting \in Nat \union {Nothing}
    BY <2>2 DEF Producers, TimeOrNothing
  <2>4. rows[d] \subseteq Nat /\ DOMAIN hourly[d] \subseteq Nat
    BY <1>1 DEF IngestTyped
  <2> QED BY <1>1, <2>1, <2>2, <2>3, <2>4 DEF IngestTyped, TimeOrNothing
<1> QED BY <1>1, <1>2 DEF IngestTypeOK, IngestTyped

------------------------------------------------------------------------------
(* The logger on its serial line (SerialLogger) and the proxy it asks, for    *)
(* any number of blocks, sockets and requests, any queue and any hold of the  *)
(* plug's bytes.                                                              *)

USE ProxyAssumption, LoggerAssumption

Ours == [who : {"ours"}, op : {"read", "write"}, b : Blocks, v : Values]
Plugs == {PlugRead(b) : b \in Blocks}
Piece == [b : Blocks, half : {1, 2}]
Answers == [tag : {"reply", "answer"}, who : {"ours", "plug"}, op : {"read", "write"},
            b : Blocks, kind : {"ok", "exception"}, v : Values]
Lines == Answers \cup [tag : {"ask"}, b : Blocks] \cup [tag : {"timeout", "busy"}]

LineTyped ==
    /\ pst \in {"idle", "plug", "ours"} /\ answered \in BOOLEAN
    /\ plugGot \in {None, "plug", "ours"}
    /\ held \in Seq(Piece) /\ Len(held) <= HeldMax
    /\ queue \in Seq(Ours) /\ Len(queue) <= QueueDepth
    /\ plug \in [mid : Blocks \cup {None}, asks : 0..MaxPlug]
    /\ piece \in Blocks \cup {None}
    /\ inv \in Seq(Ours \cup Plugs)
    /\ up \in Seq(Lines)
    /\ hist \in [Blocks -> Seq(Values)] /\ \A b \in Blocks : hist[b] # <<>>

BankTyped ==
    /\ port \in BOOLEAN
    /\ waiting \in Seq(Ours) /\ pending \in Ours \cup {None}
    /\ client \in [Clients -> Ours \cup {None}]
    /\ heard \in Seq(Blocks)
    /\ memo \in [Blocks -> SUBSET {"fresh", "failed", "refused"}]
    /\ bank \in [Blocks -> Values \cup {None}]
    /\ rejected \in [reads : SUBSET Blocks, writes : SUBSET Blocks]
    /\ confirmed \in [Blocks -> Nat \ {0}]
    /\ \A b \in Blocks : confirmed[b] <= Len(hist[b])
    /\ budget \in [asks : 0..MaxAsks, outages : 0..MaxOutages, expiries : 0..MaxExpiries]

Typed == crossed \in BOOLEAN /\ LineTyped /\ BankTyped

\* One exchange at a time is on the line: the plug's, whose halves follow each
\* other, or ours, while which the plug's pieces are held.
OneExchange ==
    /\ pst = "idle" => inv = <<>> /\ piece = None /\ plug.mid = None
    /\ pst # "ours" => held = <<>>
    /\ pst = "plug" =>
         /\ answered => inv = <<>> /\ piece = None
         /\ plug.mid # None => piece = plug.mid
         /\ \/ inv = <<>>
            \/ \E b \in Blocks : inv = <<PlugRead(b)>> /\ piece = None
    /\ pst = "ours" =>
         /\ piece = None
         /\ \/ inv = <<>>
            \/ \E f \in Ours : inv = <<f>> /\ ~answered
         /\ \/ held = <<>> /\ plug.mid = None
            \/ \E b \in Blocks : held = <<[b |-> b, half |-> 1]>> /\ plug.mid \in {b, None}
            \/ \E b \in Blocks : /\ held = <<[b |-> b, half |-> 1], [b |-> b, half |-> 2]>>
                                 /\ plug.mid = None
    /\ plugGot # "ours"

\* Nothing of ours is on its way, and no line will say that it timed out.
Cleared == queue = <<>> /\ inv \notin {<<f>> : f \in Ours} /\ (pst = "ours" => answered)

\* The request on the link is the one on the proxy's queue or on the line.
OneRequest ==
    /\ pending = None => Cleared
    /\ queue # <<>> =>
         queue = <<pending>> /\ inv \notin {<<f>> : f \in Ours} /\ (pst = "ours" => answered)
    /\ \A f \in Ours : inv = <<f>> => f = pending /\ queue = <<>>
    /\ ~port => pending = None /\ pst # "ours" /\ heard = <<>>

\* A line on its way is of the exchange just ended, and tells what still is.
LinesTell ==
    \A i \in DOMAIN up :
      /\ up[i].tag \in {"reply", "timeout", "busy"} => i = 1 /\ Cleared /\ port
      /\ up[i].tag \in {"reply", "answer"} =>
           /\ Len(up) = 1
           /\ up[i].kind = "ok" /\ up[i].op = "read" => up[i].v = Last(hist[up[i].b])
      /\ up[i].tag = "reply" =>
           /\ up[i].who = "ours"
           /\ pending # None /\ up[i].op = pending.op /\ up[i].b = pending.b
           /\ up[i].kind = "ok" /\ up[i].op = "write" =>
                \E k \in DOMAIN hist[up[i].b] : hist[up[i].b][k] = pending.v
      /\ up[i].tag = "ask" => i = Len(up) /\ inv = <<PlugRead(up[i].b)>>
      /\ up[i].tag = "answer" =>
           up[i].op = "read" /\ inv = <<>> /\ heard \in {<<>>, <<up[i].b>>}

\* What the pairer has heard is what the inverter was asked.
HeardAsked ==
    \A b \in Blocks :
      inv = <<PlugRead(b)>> /\ (\A i \in DOMAIN up : up[i].tag # "ask") => heard \in {<<>>, <<b>>}

\* Each block of the bank holds a value of the inverter, of its last write told
\* as taken or later.
Followed ==
    \A b \in Blocks : bank[b] # None =>
        \E i \in confirmed[b]..Len(hist[b]) : hist[b][i] = bank[b]

OnLine == OneExchange /\ OneRequest /\ LinesTell /\ HeardAsked
IInv == Typed /\ (~crossed => OnLine /\ Followed)

-----------------------------------------------------------------------------
(* What the line hears.                                                    *)

Heard == [piece : Blocks \cup {None}, inv : Seq(Ours \cup Plugs), up : Seq(Lines)]
Base(lines) == [piece |-> piece, inv |-> inv, up |-> lines]

LEMMA HearsTyped ==
    ASSUME NEW line \in Heard, NEW p \in Piece
    PROVE  Hears(line, p) \in Heard
<1>1. PlugRead(p.b) \in Ours \cup Plugs /\ [tag |-> "ask", b |-> p.b] \in Lines
  BY DEF Plugs, Lines, Piece
<1>2. /\ Append(line.inv, PlugRead(p.b)) \in Seq(Ours \cup Plugs)
      /\ Append(line.up, [tag |-> "ask", b |-> p.b]) \in Seq(Lines)
  BY <1>1 DEF Heard
<1> HIDE DEF Plugs, Lines
<1> QED BY <1>2 DEF Hears, Heard, Piece

LEMMA HearingRuns ==
    ASSUME NEW pieces \in Seq(Piece), NEW lines
    PROVE  \E g : /\ hearing(pieces, lines) = g[Len(pieces)]
                  /\ g[0] = Base(lines)
                  /\ \A n \in 1..Len(pieces) : g[n] = Hears(g[n - 1], pieces[n])
<1> DEFINE N == Len(pieces)
           base == Base(lines)
           Run(m) == \E g : g = [n \in 0..m |-> IF n = 0 THEN base ELSE Hears(g[n - 1], pieces[n])]
           line == CHOOSE g : g = [n \in 0..N |-> IF n = 0 THEN base ELSE Hears(g[n - 1], pieces[n])]
<1>1. N \in Nat
  OBVIOUS
<1>2. hearing(pieces, lines) = line[N]
  BY DEF hearing, Base
<1> HIDE DEF base, N
<1>3. Run(0)
  <2>1. PICK g : g = [n \in 0..0 |-> base]
    OBVIOUS
  <2> QED BY <2>1
<1>4. ASSUME NEW m \in Nat, Run(m)
      PROVE  Run(m + 1)
  <2>1. PICK g : g = [n \in 0..m |-> IF n = 0 THEN base ELSE Hears(g[n - 1], pieces[n])]
    BY <1>4
  <2> DEFINE h == [n \in 0..(m + 1) |-> IF n = 0 THEN base ELSE Hears(g[n - 1], pieces[n])]
  <2>2. ASSUME NEW n \in 0..m
        PROVE  h[n] = g[n]
    <3>1. n \in 0..(m + 1)
      OBVIOUS
    <3>2. h[n] = IF n = 0 THEN base ELSE Hears(g[n - 1], pieces[n])
      BY <3>1
    <3>3. g[n] = IF n = 0 THEN base ELSE Hears(g[n - 1], pieces[n])
      BY <2>1
    <3> HIDE DEF h
    <3> QED BY <3>2, <3>3
  <2>3. ASSUME NEW n \in 0..(m + 1), n # 0
        PROVE  h[n - 1] = g[n - 1]
    <3>1. n - 1 \in 0..m
      BY <2>3
    <3> QED BY <2>2, <3>1
  <2> QED BY <2>3
<1>5. Run(N)
  <2> DEFINE S == {m \in Nat : Run(m)}
  <2> HIDE DEF Run
  <2>1. 0 \in S /\ \A m \in Nat : m \in S => m + 1 \in S
    BY <1>3, <1>4
  <2>2. Nat \subseteq S
    BY <2>1, Numbers
  <2> QED BY <1>1, <2>2
<1>6. line = [n \in 0..N |-> IF n = 0 THEN base ELSE Hears(line[n - 1], pieces[n])]
  BY <1>5
<1> HIDE DEF line
<1>7. line[0] = base /\ \A n \in 1..N : line[n] = Hears(line[n - 1], pieces[n])
  BY <1>1, <1>6
<1> QED BY <1>2, <1>7 DEF base, N

LEMMA HearingNone ==
    ASSUME NEW lines
    PROVE  hearing(<<>>, lines) = Base(lines)
<1>1. <<>> \in Seq(Piece) /\ Len(<<>>) = 0
  OBVIOUS
<1> QED BY <1>1, HearingRuns

\* None, one or two pieces.
LEMMA HearingFew ==
    ASSUME NEW lines, NEW p \in Piece, NEW q \in Piece
    PROVE  /\ hearing(<<>>, lines) = Base(lines)
           /\ hearing(<<p>>, lines) = Hears(Base(lines), p)
           /\ hearing(<<p, q>>, lines) = Hears(Hears(Base(lines), p), q)
<1>1. hearing(<<>>, lines) = Base(lines)
  BY HearingNone
<1>2. hearing(<<p>>, lines) = Hears(Base(lines), p)
  <2>1. <<p>> \in Seq(Piece) /\ Len(<<p>>) = 1 /\ <<p>>[1] = p
    OBVIOUS
  <2> DEFINE s == <<p>>
  <2> HIDE DEF s
  <2>a. s \in Seq(Piece)
    BY <2>1 DEF s
  <2>b. PICK g : /\ hearing(s, lines) = g[Len(s)] /\ g[0] = Base(lines)
                 /\ \A n \in 1..Len(s) : g[n] = Hears(g[n - 1], s[n])
    BY <2>a, HearingRuns
  <2>2. /\ hearing(<<p>>, lines) = g[1] /\ g[0] = Base(lines)
        /\ \A n \in 1..1 : g[n] = Hears(g[n - 1], <<p>>[n])
    BY <2>1, <2>b DEF s
  <2>3. g[1] = Hears(g[1 - 1], <<p>>[1])
    BY <2>2
  <2> QED BY <2>1, <2>2, <2>3
<1>3. hearing(<<p, q>>, lines) = Hears(Hears(Base(lines), p), q)
  <2>1. <<p, q>> \in Seq(Piece) /\ Len(<<p, q>>) = 2 /\ <<p, q>>[1] = p /\ <<p, q>>[2] = q
    OBVIOUS
  <2> DEFINE s == <<p, q>>
  <2> HIDE DEF s
  <2>a. s \in Seq(Piece)
    BY <2>1 DEF s
  <2>b. PICK g : /\ hearing(s, lines) = g[Len(s)] /\ g[0] = Base(lines)
                 /\ \A n \in 1..Len(s) : g[n] = Hears(g[n - 1], s[n])
    BY <2>a, HearingRuns
  <2>2. /\ hearing(<<p, q>>, lines) = g[2] /\ g[0] = Base(lines)
        /\ \A n \in 1..2 : g[n] = Hears(g[n - 1], <<p, q>>[n])
    BY <2>1, <2>b DEF s
  <2>3. g[1] = Hears(g[1 - 1], <<p, q>>[1]) /\ g[2] = Hears(g[2 - 1], <<p, q>>[2])
    BY <2>2
  <2> QED BY <2>1, <2>2, <2>3
<1> QED BY <1>1, <1>2, <1>3

LEMMA HearingTyped ==
    ASSUME NEW pieces \in Seq(Piece), NEW lines \in Seq(Lines), Typed
    PROVE  hearing(pieces, lines) \in Heard
<1> DEFINE N == Len(pieces)
<1>1. PICK g : /\ hearing(pieces, lines) = g[N] /\ g[0] = Base(lines)
               /\ \A n \in 1..N : g[n] = Hears(g[n - 1], pieces[n])
  BY HearingRuns
<1> DEFINE S == {n \in Nat : n <= N => g[n] \in Heard}
<1>2. N \in Nat /\ \A n \in 1..N : pieces[n] \in Piece
  OBVIOUS
<1>3. 0 \in S
  <2>1. Base(lines) \in Heard
    BY DEF Base, Heard, Typed, LineTyped
  <2> QED BY <1>1, <2>1
<1>4. ASSUME NEW n \in Nat, n \in S
      PROVE  n + 1 \in S
  <2>1. CASE n + 1 <= N
    <3>1. n + 1 \in 1..N /\ (n + 1) - 1 = n /\ g[n] \in Heard
      BY <1>2, <1>4, <2>1
    <3>2. g[n + 1] = Hears(g[n], pieces[n + 1])
      BY <1>1, <3>1
    <3> HIDE DEF N
    <3>3. g[n + 1] \in Heard
      BY <1>2, <3>1, <3>2, HearsTyped
    <3> QED BY <3>3
  <2> QED BY <1>2, <2>1
<1>5. N \in S
  BY <1>2, <1>3, <1>4, Numbers
<1> QED BY <1>1, <1>2, <1>5

LEMMA ForwardTyped ==
    ASSUME Typed, NEW pieces \in Seq(Piece), NEW lines \in Seq(Lines), Forward(pieces, lines)
    PROVE  /\ piece' \in Blocks \cup {None} /\ inv' \in Seq(Ours \cup Plugs)
           /\ up' \in Seq(Lines)
<1>1. hearing(pieces, lines) \in Heard
  BY HearingTyped
<1> QED BY <1>1 DEF Forward, Heard

-----------------------------------------------------------------------------
(* Types.                                                                  *)

LEMMA LineFrames ==
    /\ 0 \in Values /\ None \notin Blocks
    /\ \A b \in Blocks : PlugRead(b) \in Ours \cup Plugs
    /\ \A b \in Blocks, v \in Values :
         /\ Frame("read", b, v) \in Ours /\ Frame("write", b, v) \in Ours
BY DEF Values, Plugs, Frame, Ours

LEMMA Tails ==
    ASSUME NEW S, NEW s \in Seq(S), s # <<>>
    PROVE  /\ Head(s) \in S /\ Tail(s) \in Seq(S) /\ Len(Tail(s)) = Len(s) - 1
           /\ Len(s) \in Nat /\ Len(s) # 0 /\ s[1] = Head(s)
OBVIOUS

LEMMA PlugByteTyped ==
    ASSUME Typed, NEW p \in Piece, PlugByte(p)
    PROVE  /\ pst' \in {"idle", "plug", "ours"} /\ answered' \in BOOLEAN
           /\ held' \in Seq(Piece) /\ Len(held') <= HeldMax
           /\ piece' \in Blocks \cup {None} /\ inv' \in Seq(Ours \cup Plugs)
           /\ up' \in Seq(Lines)
<1>1. CASE pst = "ours"
  <2>1. UNCHANGED <<pst, answered, up, piece, inv>>
    BY <1>1 DEF PlugByte
  <2>2. held' = IF Len(held) < HeldMax THEN Append(held, p) ELSE held
    BY <1>1 DEF PlugByte
  <2>3. held' \in Seq(Piece) /\ Len(held') <= HeldMax
    <3>1. held \in Seq(Piece) /\ Len(held) <= HeldMax
      BY DEF Typed, LineTyped
    <3>2. /\ Append(held, p) \in Seq(Piece) /\ Len(Append(held, p)) = Len(held) + 1
          /\ Len(held) \in Nat
      BY <3>1
    <3> QED BY <2>2, <3>1, <3>2
  <2> QED BY <2>1, <2>3 DEF Typed, LineTyped
<1>2. CASE pst # "ours"
  <2>1. Forward(<<p>>, up) /\ pst' = "plug" /\ answered' = FALSE /\ UNCHANGED held
    BY <1>2 DEF PlugByte
  <2>2. <<p>> \in Seq(Piece) /\ up \in Seq(Lines)
    BY DEF Typed, LineTyped
  <2> QED BY <2>1, <2>2, ForwardTyped DEF Typed, LineTyped
<1> QED BY <1>1, <1>2

LEMMA PlugTyped ==
    ASSUME Typed, UNCHANGED hostVars, (\E b \in Blocks : PlugStarts(b)) \/ PlugEnds
    PROVE  Typed'
<1>1. \E p \in Piece : PlugByte(p)
  <2>1. CASE \E b \in Blocks : PlugStarts(b)
    <3>1. PICK b \in Blocks : PlugStarts(b)
      BY <2>1
    <3>2. [b |-> b, half |-> 1] \in Piece
      BY DEF Piece
    <3> QED BY <3>1, <3>2 DEF PlugStarts
  <2>2. CASE PlugEnds
    <3>1. plug.mid \in Blocks
      BY <2>2 DEF PlugEnds, Typed, LineTyped
    <3>2. [b |-> plug.mid, half |-> 2] \in Piece
      BY <3>1 DEF Piece
    <3> QED BY <2>2, <3>2 DEF PlugEnds
  <2> QED BY <2>1, <2>2
<1>2. /\ plug' \in [mid : Blocks \cup {None}, asks : 0..MaxPlug]
      /\ crossed' \in BOOLEAN /\ UNCHANGED <<queue, hist, plugGot>>
  <2>1. CASE \E b \in Blocks : PlugStarts(b)
    <3>1. PICK b \in Blocks : PlugStarts(b)
      BY <2>1
    <3>2. plug.asks + 1 \in 0..MaxPlug
      <4>1. plug.asks \in 0..MaxPlug /\ plug.asks < MaxPlug /\ MaxPlug \in Nat
        BY <3>1 DEF PlugStarts, Typed, LineTyped
      <4> QED BY <4>1
    <3>3. plug' = [mid |-> b, asks |-> plug.asks + 1] /\ UNCHANGED <<queue, hist, plugGot>>
      BY <3>1 DEF PlugStarts
    <3>4. crossed' \in BOOLEAN
      BY <3>1 DEF PlugStarts
    <3> QED BY <3>2, <3>3, <3>4
  <2>2. CASE PlugEnds
    BY <2>2 DEF PlugEnds, Typed, LineTyped
  <2> QED BY <2>1, <2>2
<1>3. PICK p \in Piece : PlugByte(p)
  BY <1>1
<1>4. /\ pst' \in {"idle", "plug", "ours"} /\ answered' \in BOOLEAN
      /\ held' \in Seq(Piece) /\ Len(held') <= HeldMax
      /\ piece' \in Blocks \cup {None} /\ inv' \in Seq(Ours \cup Plugs)
      /\ up' \in Seq(Lines)
  BY <1>3, PlugByteTyped
<1> QED BY <1>2, <1>4 DEF Typed, LineTyped, BankTyped, hostVars

LEMMA OursTyped ==
    ASSUME Typed, UNCHANGED hostVars, PlugOver \/ OursOver \/ SendOurs
    PROVE  Typed'
<1>1. CASE PlugOver
  <2>1. crossed' \in BOOLEAN
    BY <1>1 DEF PlugOver
  <2> QED BY <1>1, <2>1 DEF PlugOver, Typed, LineTyped, BankTyped, hostVars
<1>2. CASE OursOver
  <2> DEFINE lines == IF answered THEN up ELSE Append(up, [tag |-> "timeout"])
  <2>1. lines \in Seq(Lines)
    <3>1. [tag |-> "timeout"] \in Lines /\ up \in Seq(Lines)
      BY DEF Lines, Typed, LineTyped
    <3> HIDE DEF Lines
    <3> QED BY <3>1
  <2>2. Forward(held, lines)
    BY <1>2 DEF OursOver
  <2> HIDE DEF lines
  <2>3. /\ piece' \in Blocks \cup {None} /\ inv' \in Seq(Ours \cup Plugs)
        /\ up' \in Seq(Lines)
    BY <2>1, <2>2, ForwardTyped DEF Typed, LineTyped
  <2>4. /\ held' = <<>> /\ pst' \in {"idle", "plug"} /\ answered' \in BOOLEAN
        /\ crossed' \in BOOLEAN /\ UNCHANGED <<queue, plug, hist, plugGot>>
    BY <1>2 DEF OursOver
  <2>5. <<>> \in Seq(Piece) /\ Len(<<>>) <= HeldMax
    OBVIOUS
  <2> QED BY <2>3, <2>4, <2>5 DEF Typed, LineTyped, BankTyped, hostVars
<1>3. CASE SendOurs
  <2>1. /\ queue # <<>> /\ queue' = Tail(queue)
        /\ inv' = IF piece = None THEN Append(inv, Head(queue)) ELSE inv
        /\ piece' = None /\ pst' = "ours" /\ answered' = FALSE
        /\ UNCHANGED <<held, up, plug, hist, plugGot, crossed>>
    BY <1>3 DEF SendOurs
  <2>2. queue \in Seq(Ours) /\ inv \in Seq(Ours \cup Plugs) /\ Len(queue) <= QueueDepth
    BY DEF Typed, LineTyped
  <2>3. /\ Head(queue) \in Ours /\ Tail(queue) \in Seq(Ours)
        /\ Len(Tail(queue)) = Len(queue) - 1 /\ Len(queue) \in Nat
    BY <2>1, <2>2, Tails
  <2>4. inv' \in Seq(Ours \cup Plugs)
    BY <2>1, <2>2, <2>3
  <2>5. Len(queue') <= QueueDepth /\ queue' \in Seq(Ours)
    BY <2>1, <2>2, <2>3
  <2> QED BY <2>1, <2>4, <2>5 DEF Typed, LineTyped, BankTyped, hostVars
<1> QED BY <1>1, <1>2, <1>3

\* What the inverter has been asked, and what it may say.
LEMMA InverterAsked ==
    ASSUME Typed, inv # <<>>, NEW k \in {"ok", "exception"}, NEW t \in {"reply", "answer"}
    PROVE  LET f == Head(inv)
               v == IF f.op = "read" THEN Last(hist[f.b]) ELSE f.v
           IN  /\ f \in Ours \cup Plugs /\ Tail(inv) \in Seq(Ours \cup Plugs)
               /\ f.b \in Blocks /\ f.v \in Values /\ f.who \in {"ours", "plug"}
               /\ [tag |-> t, who |-> f.who, op |-> f.op, b |-> f.b, kind |-> k, v |-> v]
                    \in Answers
               /\ Obeyed(f) \in [Blocks -> Seq(Values)]
               /\ \A b \in Blocks : Obeyed(f)[b] # <<>> /\ Len(hist[b]) <= Len(Obeyed(f)[b])
<1> DEFINE f == Head(inv)
           v == IF f.op = "read" THEN Last(hist[f.b]) ELSE f.v
<1>1. f \in Ours \cup Plugs /\ Tail(inv) \in Seq(Ours \cup Plugs)
  BY Tails DEF Typed, LineTyped
<1> HIDE DEF f
<1>2. /\ f.who \in {"ours", "plug"} /\ f.op \in {"read", "write"}
      /\ f.b \in Blocks /\ f.v \in Values
  BY <1>1, LineFrames DEF Ours, Plugs, PlugRead
<1>3. \A b \in Blocks : hist[b] \in Seq(Values) /\ hist[b] # <<>>
  BY DEF Typed, LineTyped
<1>4. v \in Values
  <2>1. hist[f.b] \in Seq(Values) /\ hist[f.b] # <<>>
    BY <1>2, <1>3
  <2>2. Last(hist[f.b]) \in Values
    BY <2>1 DEF Last
  <2> QED BY <1>2, <2>2
<1> HIDE DEF v
<1>5. [tag |-> t, who |-> f.who, op |-> f.op, b |-> f.b, kind |-> k, v |-> v] \in Answers
  BY <1>2, <1>4 DEF Answers
<1>6. /\ Obeyed(f) \in [Blocks -> Seq(Values)]
      /\ \A b \in Blocks : Obeyed(f)[b] # <<>> /\ Len(hist[b]) <= Len(Obeyed(f)[b])
  <2>1. /\ Append(hist[f.b], f.v) \in Seq(Values) /\ Append(hist[f.b], f.v) # <<>>
        /\ Len(hist[f.b]) <= Len(Append(hist[f.b], f.v))
    BY <1>2, <1>3
  <2>2. /\ hist \in [Blocks -> Seq(Values)]
        /\ \A b \in Blocks : hist[b] # <<>> /\ Len(hist[b]) <= Len(hist[b])
    BY <1>3 DEF Typed, LineTyped
  <2>3. Obeyed(f) = IF f.op = "write"
                    THEN [b \in Blocks |-> IF b = f.b THEN Append(hist[f.b], f.v) ELSE hist[b]]
                    ELSE hist
    BY <1>2, <2>2 DEF Obeyed
  <2> QED BY <1>2, <2>1, <2>2, <2>3
<1> QED BY <1>1, <1>2, <1>5, <1>6 DEF f, v

LEMMA InverterTyped ==
    ASSUME Typed, UNCHANGED hostVars, InverterReplies \/ InverterSilent
    PROVE  Typed'
<1> DEFINE f == Head(inv)
<1>1. inv # <<>> /\ inv' = Tail(inv) /\ hist' \in {hist, Obeyed(f)}
      /\ UNCHANGED <<pst, held, queue, plug, piece, crossed>>
  BY DEF InverterReplies, InverterSilent
<1>2. /\ inv' \in Seq(Ours \cup Plugs)
      /\ hist' \in [Blocks -> Seq(Values)]
      /\ \A b \in Blocks : hist'[b] # <<>> /\ Len(hist[b]) <= Len(hist'[b])
  <2>1. /\ Tail(inv) \in Seq(Ours \cup Plugs)
        /\ Obeyed(f) \in [Blocks -> Seq(Values)]
        /\ \A b \in Blocks : Obeyed(f)[b] # <<>> /\ Len(hist[b]) <= Len(Obeyed(f)[b])
    BY <1>1, InverterAsked
  <2>2. /\ hist \in [Blocks -> Seq(Values)]
        /\ \A b \in Blocks : hist[b] # <<>> /\ Len(hist[b]) \in Nat
    <3>1. hist \in [Blocks -> Seq(Values)] /\ \A b \in Blocks : hist[b] # <<>>
      BY DEF Typed, LineTyped
    <3>2. \A b \in Blocks : hist[b] \in Seq(Values)
      BY <3>1
    <3> QED BY <3>1, <3>2
  <2> HIDE DEF f
  <2> QED BY <1>1, <2>1, <2>2
<1>3. \A b \in Blocks : confirmed[b] <= Len(hist'[b])
  <2>1. \A b \in Blocks : /\ confirmed[b] \in Nat /\ confirmed[b] <= Len(hist[b])
                           /\ Len(hist[b]) \in Nat /\ Len(hist'[b]) \in Nat
    <3>1. \A b \in Blocks : hist[b] \in Seq(Values) /\ hist'[b] \in Seq(Values)
      BY <1>2 DEF Typed, LineTyped
    <3>2. \A b \in Blocks : confirmed[b] \in Nat /\ confirmed[b] <= Len(hist[b])
      BY DEF Typed, BankTyped
    <3> QED BY <3>1, <3>2
  <2> QED BY <1>2, <2>1
<1>4. /\ answered' \in BOOLEAN /\ plugGot' \in {None, "plug", "ours"} /\ up' \in Seq(Lines)
  <2>1. CASE InverterSilent
    BY <2>1 DEF InverterSilent, Typed, LineTyped
  <2>2. CASE InverterReplies
    <3> DEFINE line(k) == [tag |-> IF pst = "ours" THEN "reply" ELSE "answer",
                           who |-> f.who, op |-> f.op, b |-> f.b, kind |-> k,
                           v |-> IF f.op = "read" THEN Last(hist[f.b]) ELSE f.v]
    <3>1. InverterByte(line("ok")) \/ InverterByte(line("exception"))
      BY <2>2 DEF InverterReplies
    <3>2. \A k \in {"ok", "exception"} : line(k) \in Lines /\ line(k).who \in {"ours", "plug"}
      <4> TAKE k \in {"ok", "exception"}
      <4>1. line(k) \in Answers /\ line(k).who \in {"ours", "plug"}
        <5>1. CASE pst = "ours"
          BY <1>1, <5>1, InverterAsked
        <5>2. CASE pst # "ours"
          BY <1>1, <5>2, InverterAsked
        <5> QED BY <5>1, <5>2
      <4> QED BY <4>1 DEF Lines
    <3> HIDE DEF line, Lines
    <3>3. PICK k \in {"ok", "exception"} : InverterByte(line(k))
      BY <3>1
    <3>4. up \in Seq(Lines) /\ plugGot \in {None, "plug", "ours"} /\ answered \in BOOLEAN
      BY DEF Typed, LineTyped
    <3>5. line(k) \in Lines /\ line(k).who \in {"ours", "plug"}
      BY <3>2
    <3> QED BY <3>3, <3>4, <3>5 DEF InverterByte
  <2> QED BY <2>1, <2>2
<1> HIDE DEF f
<1> QED BY <1>1, <1>2, <1>3, <1>4 DEF Typed, LineTyped, BankTyped, hostVars

LEMMA SettleTyped ==
    ASSUME Typed, NEW job \in Ours, NEW reply \in Lines \cup {None}, Settle(job, reply),
           reply = None \/ reply \in Answers
    PROVE  /\ client' \in [Clients -> Ours \cup {None}]
           /\ memo' \in [Blocks -> SUBSET {"fresh", "failed", "refused"}]
           /\ rejected' \in [reads : SUBSET Blocks, writes : SUBSET Blocks]
           /\ bank' \in [Blocks -> Values \cup {None}]
           /\ confirmed' \in [Blocks -> Nat \ {0}]
           /\ \A b \in Blocks : confirmed'[b] <= Len(hist[b])
<1> DEFINE b == job.b
           kind == IF reply = None THEN "none" ELSE reply.kind
           waits == \E c \in Clients : client[c] = job
           obeyed == waits /\ Taken(job, kind)
<1>1. b \in Blocks /\ job.v \in Values /\ (kind = "ok" => reply.v \in Values)
  BY DEF Ours, Answers
<1>2. /\ client \in [Clients -> Ours \cup {None}]
      /\ memo \in [Blocks -> SUBSET {"fresh", "failed", "refused"}]
      /\ rejected \in [reads : SUBSET Blocks, writes : SUBSET Blocks]
      /\ bank \in [Blocks -> Values \cup {None}]
      /\ confirmed \in [Blocks -> Nat \ {0}]
      /\ \A c \in Blocks : confirmed[c] <= Len(hist[c])
      /\ hist \in [Blocks -> Seq(Values)]
  BY DEF Typed, LineTyped, BankTyped
<1>3. client' \in [Clients -> Ours \cup {None}]
  BY <1>2 DEF Settle
<1>4. CASE job.op = "read"
  <2>1. /\ memo' = [memo EXCEPT ![b] =
              CASE kind = "ok" -> {"fresh"}
                [] kind = "none" -> @ \union {"failed"}
                [] OTHER -> (@ \ {"failed"}) \union {"refused"}]
        /\ rejected' = [rejected EXCEPT !.reads =
              CASE kind = "ok" -> @ \ {b} [] kind = "none" -> @ [] OTHER -> @ \union {b}]
        /\ bank' = IF kind = "ok" THEN [bank EXCEPT ![b] = reply.v] ELSE bank
        /\ UNCHANGED confirmed
    BY <1>4 DEF Settle
  <2> HIDE DEF b, kind
  <2>2. memo' \in [Blocks -> SUBSET {"fresh", "failed", "refused"}]
    BY <1>1, <1>2, <2>1
  <2>3. rejected' \in [reads : SUBSET Blocks, writes : SUBSET Blocks]
    BY <1>1, <1>2, <2>1
  <2>4. bank' \in [Blocks -> Values \cup {None}]
    BY <1>1, <1>2, <2>1
  <2> QED BY <1>2, <1>3, <2>1, <2>2, <2>3, <2>4
<1>5. CASE job.op = "write"
  <2>1. /\ bank' = IF obeyed THEN [bank EXCEPT ![b] = job.v] ELSE bank
        /\ confirmed' = IF obeyed /\ \E i \in DOMAIN hist[b] : hist[b][i] = job.v
                        THEN [confirmed EXCEPT ![b] = Place(b, job.v)] ELSE confirmed
        /\ rejected' = IF waits /\ kind # "ok"
                       THEN [rejected EXCEPT !.writes = @ \union {b}] ELSE rejected
        /\ UNCHANGED memo
    BY <1>5 DEF Settle
  <2> HIDE DEF b, kind, waits, obeyed
  <2>2. ASSUME \E i \in DOMAIN hist[b] : hist[b][i] = job.v
        PROVE  Place(b, job.v) \in Nat \ {0} /\ Place(b, job.v) <= Len(hist[b])
    <3>1. hist[b] \in Seq(Values)
      BY <1>1, <1>2
    <3>2. Place(b, job.v) \in DOMAIN hist[b]
      BY <2>2 DEF Place
    <3> QED BY <3>1, <3>2
  <2>3. rejected' \in [reads : SUBSET Blocks, writes : SUBSET Blocks]
    BY <1>1, <1>2, <2>1
  <2>4. bank' \in [Blocks -> Values \cup {None}]
    BY <1>1, <1>2, <2>1
  <2>5. CASE obeyed /\ \E i \in DOMAIN hist[b] : hist[b][i] = job.v
    <3>1. confirmed' = [confirmed EXCEPT ![b] = Place(b, job.v)]
      BY <2>1, <2>5
    <3>2. Place(b, job.v) \in Nat \ {0} /\ Place(b, job.v) <= Len(hist[b])
      BY <2>2, <2>5
    <3>3. confirmed' \in [Blocks -> Nat \ {0}]
      BY <1>1, <1>2, <3>1, <3>2
    <3>4. \A c \in Blocks : confirmed'[c] = IF c = b THEN Place(b, job.v) ELSE confirmed[c]
      BY <1>2, <3>1
    <3>5. \A c \in Blocks : confirmed'[c] <= Len(hist[c])
      BY <1>2, <3>2, <3>4
    <3> QED BY <1>2, <1>3, <2>1, <2>3, <2>4, <3>3, <3>5
  <2>6. CASE ~(obeyed /\ \E i \in DOMAIN hist[b] : hist[b][i] = job.v)
    BY <1>2, <1>3, <2>1, <2>3, <2>4, <2>6
  <2> QED BY <2>5, <2>6
<1> QED BY <1>4, <1>5 DEF Ours

LEMMA FinishTyped ==
    ASSUME Typed, NEW reply \in Lines \cup {None}, Finish(reply),
           reply = None \/ reply \in Answers
    PROVE  /\ pending' \in Ours \cup {None}
           /\ client' \in [Clients -> Ours \cup {None}]
           /\ memo' \in [Blocks -> SUBSET {"fresh", "failed", "refused"}]
           /\ rejected' \in [reads : SUBSET Blocks, writes : SUBSET Blocks]
           /\ bank' \in [Blocks -> Values \cup {None}]
           /\ confirmed' \in [Blocks -> Nat \ {0}]
           /\ \A b \in Blocks : confirmed'[b] <= Len(hist[b])
<1>1. CASE pending # None /\ Settle(pending, reply) /\ pending' = None
  <2>1. pending \in Ours
    BY <1>1 DEF Typed, BankTyped
  <2> QED BY <1>1, <2>1, SettleTyped
<1>2. CASE UNCHANGED <<pending, memo, rejected, bank, confirmed, client>>
  BY <1>2 DEF Typed, BankTyped
<1> QED BY <1>1, <1>2 DEF Finish

LEMMA AskTyped ==
    ASSUME Typed, NEW c \in Clients, Ask(c)
    PROVE  Typed'
<1>1. /\ budget.asks < MaxAsks /\ budget' = [budget EXCEPT !.asks = @ + 1]
      /\ UNCHANGED <<proxyVars, port, pending, bank, heard, confirmed>>
  BY DEF Ask
<1>2. budget' \in [asks : 0..MaxAsks, outages : 0..MaxOutages, expiries : 0..MaxExpiries]
      /\ budget.asks + 1 \in Values
  <2>1. /\ budget \in [asks : 0..MaxAsks, outages : 0..MaxOutages, expiries : 0..MaxExpiries]
        /\ MaxAsks \in Nat
    BY DEF Typed, BankTyped
  <2>2. budget.asks + 1 \in 0..MaxAsks
    BY <1>1, <2>1
  <2> QED BY <1>1, <2>1, <2>2 DEF Values
<1>3. PICK b \in Blocks : AskRead(c, b) \/ AskWrite(c, b) \/ AskUnwritable(b)
  BY DEF Ask
<1>4. Frame("read", b, 0) \in Ours /\ Frame("write", b, budget.asks + 1) \in Ours
  BY <1>2, LineFrames
<1>5. /\ client \in [Clients -> Ours \cup {None}] /\ waiting \in Seq(Ours)
      /\ memo \in [Blocks -> SUBSET {"fresh", "failed", "refused"}]
      /\ rejected \in [reads : SUBSET Blocks, writes : SUBSET Blocks]
  BY DEF Typed, BankTyped
<1>6. /\ client' \in [Clients -> Ours \cup {None}] /\ waiting' \in Seq(Ours)
      /\ memo' \in [Blocks -> SUBSET {"fresh", "failed", "refused"}]
      /\ rejected' \in [reads : SUBSET Blocks, writes : SUBSET Blocks]
  <2>1. CASE AskRead(c, b)
    BY <1>4, <1>5, <2>1 DEF AskRead
  <2>2. CASE AskWrite(c, b)
    BY <1>4, <1>5, <2>2 DEF AskWrite
  <2>3. CASE AskUnwritable(b)
    BY <1>4, <1>5, <2>3 DEF AskUnwritable
  <2> QED BY <1>3, <2>1, <2>2, <2>3
<1>7. LineTyped' /\ UNCHANGED <<hist, crossed>>
  BY <1>1 DEF Typed, LineTyped, proxyVars
<1> QED BY <1>1, <1>2, <1>6, <1>7 DEF Typed, BankTyped

LEMMA StartTyped ==
    ASSUME Typed, StartExchange
    PROVE  Typed'
<1>1. /\ waiting # <<>> /\ waiting' = Tail(waiting)
      /\ UNCHANGED <<pst, answered, held, plug, piece, inv, hist, plugGot, crossed,
                     port, heard, budget>>
  BY DEF StartExchange
<1>2. Head(waiting) \in Ours /\ waiting' \in Seq(Ours)
  <2>1. waiting \in Seq(Ours)
    BY DEF Typed, BankTyped
  <2> QED BY <1>1, <2>1, Tails
<1>3. CASE port /\ pending' = Head(waiting) /\ UsbLine(Head(waiting), up)
           /\ UNCHANGED <<memo, rejected, bank, confirmed, client>>
  <2>1. /\ queue \in Seq(Ours) /\ Len(queue) <= QueueDepth /\ up \in Seq(Lines)
        /\ Len(queue) \in Nat /\ QueueDepth \in Nat
    BY DEF Typed, LineTyped
  <2>2. [tag |-> "busy"] \in Lines
    BY DEF Lines
  <2> HIDE DEF Lines
  <2>3. /\ Append(queue, Head(waiting)) \in Seq(Ours)
        /\ Len(Append(queue, Head(waiting))) = Len(queue) + 1
        /\ Append(up, [tag |-> "busy"]) \in Seq(Lines)
    BY <1>2, <2>1, <2>2
  <2>4. queue' \in Seq(Ours) /\ Len(queue') <= QueueDepth /\ up' \in Seq(Lines)
    <3>1. CASE Len(queue) = QueueDepth
      BY <1>3, <2>1, <2>3, <3>1 DEF UsbLine
    <3>2. CASE Len(queue) # QueueDepth
      <4>1. queue' = Append(queue, Head(waiting)) /\ up' = up
        BY <1>3, <3>2 DEF UsbLine
      <4>2. Len(queue) + 1 <= QueueDepth
        BY <2>1, <3>2
      <4> QED BY <2>1, <2>3, <4>1, <4>2
    <3> QED BY <3>1, <3>2
  <2> QED BY <1>1, <1>2, <1>3, <2>4 DEF Typed, LineTyped, BankTyped
<1>4. CASE Settle(Head(waiting), None) /\ UNCHANGED <<pending, queue, up>>
  <2>1. /\ client' \in [Clients -> Ours \cup {None}]
        /\ memo' \in [Blocks -> SUBSET {"fresh", "failed", "refused"}]
        /\ rejected' \in [reads : SUBSET Blocks, writes : SUBSET Blocks]
        /\ bank' \in [Blocks -> Values \cup {None}]
        /\ confirmed' \in [Blocks -> Nat \ {0}]
        /\ \A b \in Blocks : confirmed'[b] <= Len(hist[b])
    BY <1>2, <1>4, SettleTyped
  <2> QED BY <1>1, <1>2, <1>4, <2>1 DEF Typed, LineTyped, BankTyped
<1> QED BY <1>3, <1>4 DEF StartExchange

LEMMA ReceiveTyped ==
    ASSUME Typed, Receive
    PROVE  Typed'
<1> DEFINE line == Head(up)
<1>1. /\ up # <<>> /\ up' = Tail(up)
      /\ UNCHANGED <<pst, answered, held, queue, plug, piece, inv, hist, plugGot,
                     port, waiting, budget>>
  BY DEF Receive
<1>2. line \in Lines /\ up' \in Seq(Lines)
  <2>1. up \in Seq(Lines)
    BY DEF Typed, LineTyped
  <2> QED BY <1>1, <2>1, Tails
<1>3. \/ line.tag = "reply" /\ Reply(line)
      \/ line.tag \in {"timeout", "busy"} /\ GaveUp
      \/ line.tag = "ask" /\ HearsAsk(line)
      \/ line.tag = "answer" /\ HearsAnswer(line)
  BY DEF Receive
<1> HIDE DEF line
<1>4. /\ line.tag \in {"reply", "answer"} => line \in Answers
      /\ line.tag = "ask" => line.b \in Blocks
  BY <1>2 DEF Lines, Answers
<1>10. LineTyped'
  BY <1>1, <1>2 DEF Typed, LineTyped
<1>5. ASSUME NEW reply \in Lines \cup {None}, Finish(reply), reply = None \/ reply \in Answers,
             UNCHANGED <<heard, crossed>>
      PROVE  Typed'
  <2>1. /\ pending' \in Ours \cup {None}
        /\ client' \in [Clients -> Ours \cup {None}]
        /\ memo' \in [Blocks -> SUBSET {"fresh", "failed", "refused"}]
        /\ rejected' \in [reads : SUBSET Blocks, writes : SUBSET Blocks]
        /\ bank' \in [Blocks -> Values \cup {None}]
        /\ confirmed' \in [Blocks -> Nat \ {0}]
        /\ \A b \in Blocks : confirmed'[b] <= Len(hist[b])
    BY <1>5, FinishTyped
  <2> QED BY <1>1, <1>5, <1>10, <2>1 DEF Typed, BankTyped
<1>6. CASE line.tag = "reply" /\ Reply(line)
  <2>1. CASE Fits(pending, line)
    BY <1>2, <1>4, <1>5, <1>6, <2>1 DEF Reply
  <2>2. CASE ~Fits(pending, line)
    BY <1>1, <1>6, <1>10, <2>2 DEF Reply, Typed, BankTyped
  <2> QED BY <2>1, <2>2
<1>7. CASE line.tag \in {"timeout", "busy"} /\ GaveUp
  BY <1>5, <1>7 DEF GaveUp
<1>8. CASE line.tag = "ask" /\ HearsAsk(line)
  <2>1. heard \in Seq(Blocks)
    BY DEF Typed, BankTyped
  <2>2. heard' \in Seq(Blocks) /\ crossed' \in BOOLEAN
    BY <1>4, <1>8, <2>1 DEF HearsAsk
  <2> QED BY <1>1, <1>8, <1>10, <2>2 DEF HearsAsk, Typed, BankTyped
<1>9. CASE line.tag = "answer" /\ HearsAnswer(line)
  <2>1. CASE line.kind = "ok" /\ heard # <<>>
    <3>1. /\ heard' = Tail(heard)
          /\ bank' = [bank EXCEPT ![Head(heard)] = line.v]
          /\ memo' = [memo EXCEPT ![Head(heard)] = @ \union {"fresh"}]
          /\ rejected' = [rejected EXCEPT !.reads = @ \ {Head(heard)}]
          /\ UNCHANGED <<pending, confirmed, client, crossed>>
      BY <1>9, <2>1 DEF HearsAnswer
    <3>2. heard \in Seq(Blocks) /\ line.v \in Values
      BY <1>4, <1>9 DEF Typed, BankTyped, Answers
    <3>3. Head(heard) \in Blocks /\ heard' \in Seq(Blocks)
      BY <2>1, <3>1, <3>2, Tails
    <3>4. memo' \in [Blocks -> SUBSET {"fresh", "failed", "refused"}]
      BY <3>1, <3>3 DEF Typed, BankTyped
    <3>5. bank' \in [Blocks -> Values \cup {None}]
      BY <3>1, <3>2, <3>3 DEF Typed, BankTyped
    <3>6. rejected' \in [reads : SUBSET Blocks, writes : SUBSET Blocks]
      BY <3>1, <3>3 DEF Typed, BankTyped
    <3> QED BY <1>1, <1>10, <3>1, <3>3, <3>4, <3>5, <3>6 DEF Typed, BankTyped
  <2>2. CASE ~(line.kind = "ok" /\ heard # <<>>)
    BY <1>1, <1>9, <1>10, <2>2 DEF HearsAnswer, Typed, BankTyped
  <2> QED BY <2>1, <2>2
<1> QED BY <1>3, <1>6, <1>7, <1>8, <1>9

LEMMA HostTyped ==
    ASSUME Typed, \/ Lost \/ (\E c \in Clients : Deadline(c)) \/ LinkTimeout
                  \/ Expire \/ PortFails \/ Reopen \/ Restart
    PROVE  Typed'
<1>1. CASE Lost
  <2>1. <<>> \in Seq(Lines)
    OBVIOUS
  <2> QED BY <1>1, <2>1 DEF Lost, Typed, LineTyped, BankTyped, hostVars
<1>2. CASE \E c \in Clients : Deadline(c)
  <2>1. PICK c \in Clients : Deadline(c)
    BY <1>2
  <2>2. client[c] \in Ours
    BY <2>1 DEF Deadline, Typed, BankTyped
  <2>3. client' \in [Clients -> Ours \cup {None}]
    BY <2>1 DEF Deadline, Typed, BankTyped
  <2>4. rejected' \in [reads : SUBSET Blocks, writes : SUBSET Blocks]
    <3>1. client[c].b \in Blocks
      BY <2>2 DEF Ours
    <3> QED BY <2>1, <3>1 DEF Deadline, Typed, BankTyped
  <2>5. LineTyped' /\ UNCHANGED <<hist, crossed>>
    BY <2>1 DEF Deadline, Typed, LineTyped, proxyVars
  <2> QED BY <2>1, <2>3, <2>4, <2>5 DEF Deadline, Typed, BankTyped
<1>3. ASSUME Finish(None), UNCHANGED <<pst, answered, held, queue, up, plug, piece, inv,
                                       hist, plugGot, waiting, heard>>,
             crossed' \in BOOLEAN, port' \in BOOLEAN,
             budget' \in [asks : 0..MaxAsks, outages : 0..MaxOutages, expiries : 0..MaxExpiries]
      PROVE  Typed'
  <2>1. /\ pending' \in Ours \cup {None}
        /\ client' \in [Clients -> Ours \cup {None}]
        /\ memo' \in [Blocks -> SUBSET {"fresh", "failed", "refused"}]
        /\ rejected' \in [reads : SUBSET Blocks, writes : SUBSET Blocks]
        /\ bank' \in [Blocks -> Values \cup {None}]
        /\ confirmed' \in [Blocks -> Nat \ {0}]
        /\ \A b \in Blocks : confirmed'[b] <= Len(hist[b])
    BY <1>3, FinishTyped
  <2> QED BY <1>3, <2>1 DEF Typed, LineTyped, BankTyped
<1>4. CASE LinkTimeout
  <2>1. crossed' \in BOOLEAN
    BY <1>4 DEF LinkTimeout
  <2> QED BY <1>3, <1>4, <2>1 DEF LinkTimeout, Typed, BankTyped
<1>5. budget \in [asks : 0..MaxAsks, outages : 0..MaxOutages, expiries : 0..MaxExpiries]
      /\ MaxOutages \in Nat /\ MaxExpiries \in Nat
  BY DEF Typed, BankTyped
<1>6. budget.outages < MaxOutages => [budget EXCEPT !.outages = @ + 1] \in
        [asks : 0..MaxAsks, outages : 0..MaxOutages, expiries : 0..MaxExpiries]
  <2>1. budget.outages < MaxOutages => budget.outages + 1 \in 0..MaxOutages
    BY <1>5
  <2> QED BY <1>5, <2>1
<1>7. CASE Expire
  <2>1. budget' \in [asks : 0..MaxAsks, outages : 0..MaxOutages, expiries : 0..MaxExpiries]
    <3>1. budget.expiries < MaxExpiries => budget.expiries + 1 \in 0..MaxExpiries
      BY <1>5
    <3> QED BY <1>5, <1>7, <3>1 DEF Expire
  <2>2. memo' \in [Blocks -> SUBSET {"fresh", "failed", "refused"}] /\ heard' \in Seq(Blocks)
    <3>1. /\ memo \in [Blocks -> SUBSET {"fresh", "failed", "refused"}] /\ heard \in Seq(Blocks)
          /\ <<>> \in Seq(Blocks)
      BY DEF Typed, BankTyped
    <3>2. \/ UNCHANGED heard /\ \E b \in Blocks : memo' = [memo EXCEPT ![b] = {}]
          \/ UNCHANGED memo /\ heard' = <<>>
      BY <1>7 DEF Expire
    <3> QED BY <3>1, <3>2
  <2> QED BY <1>7, <2>1, <2>2 DEF Expire, Typed, LineTyped, BankTyped, proxyVars
<1>8. CASE PortFails
  <2>1. crossed' \in BOOLEAN
    BY <1>8 DEF PortFails
  <2> QED BY <1>3, <1>6, <1>8, <2>1 DEF PortFails
<1>9. CASE Reopen
  <2>1. crossed' \in BOOLEAN
    BY <1>9 DEF Reopen
  <2> QED BY <1>9, <2>1 DEF Reopen, Typed, LineTyped, BankTyped
<1>10. CASE Restart
  <2>1. crossed' \in BOOLEAN
    BY <1>10 DEF Restart, BoardRestarts
  <2>2. /\ pst' = "idle" /\ answered' = FALSE /\ held' = <<>> /\ queue' = <<>>
        /\ UNCHANGED <<up, plug, piece, inv, hist, plugGot>>
    BY <1>10 DEF Restart, BoardRestarts
  <2>3. <<>> \in Seq(Piece) /\ <<>> \in Seq(Ours) /\ Len(<<>>) <= HeldMax /\ Len(<<>>) <= QueueDepth
    OBVIOUS
  <2> QED BY <1>6, <1>10, <2>1, <2>2, <2>3 DEF Restart, Typed, LineTyped, BankTyped
<1> QED BY <1>1, <1>2, <1>4, <1>7, <1>8, <1>9, <1>10

LEMMA TypedInit == LoggerInit => Typed
<1> SUFFICES ASSUME LoggerInit PROVE Typed
  OBVIOUS
<1>1. 0 \in Values
  BY LineFrames
<1>2. hist \in [Blocks -> Seq(Values)] /\ \A b \in Blocks : hist[b] # <<>> /\ Len(hist[b]) = 1
  BY <1>1 DEF LoggerInit, ProxyInit
<1>3. confirmed \in [Blocks -> Nat \ {0}] /\ \A b \in Blocks : confirmed[b] <= Len(hist[b])
  BY <1>2 DEF LoggerInit
<1>4. /\ held = <<>> /\ queue = <<>> /\ up = <<>> /\ inv = <<>> /\ waiting = <<>> /\ heard = <<>>
      /\ held \in Seq(Piece) /\ queue \in Seq(Ours) /\ inv \in Seq(Ours \cup Plugs)
      /\ up \in Seq(Lines) /\ waiting \in Seq(Ours) /\ heard \in Seq(Blocks)
      /\ Len(held) <= HeldMax /\ Len(queue) <= QueueDepth
  BY DEF LoggerInit, ProxyInit
<1>5. /\ plug \in [mid : Blocks \cup {None}, asks : 0..MaxPlug]
      /\ budget \in [asks : 0..MaxAsks, outages : 0..MaxOutages, expiries : 0..MaxExpiries]
      /\ rejected \in [reads : SUBSET Blocks, writes : SUBSET Blocks]
  BY DEF LoggerInit, ProxyInit
<1> QED BY <1>2, <1>3, <1>4, <1>5 DEF LoggerInit, ProxyInit, Typed, LineTyped, BankTyped

LEMMA TypedStep ==
    ASSUME Typed, [LoggerNext]_vars
    PROVE  Typed'
<1>1. CASE UNCHANGED vars
  <2>1. UNCHANGED proxyVars /\ UNCHANGED hostVars
    BY <1>1 DEF vars
  <2>2. LineTyped'
    BY <2>1 DEF Typed, LineTyped, proxyVars
  <2>3. BankTyped'
    BY <2>1 DEF Typed, BankTyped, proxyVars, hostVars
  <2> QED BY <2>1, <2>2, <2>3 DEF Typed, proxyVars
<1>2. CASE LoggerNext
  BY <1>2, PlugTyped, OursTyped, InverterTyped, AskTyped, StartTyped, ReceiveTyped, HostTyped
     DEF LoggerNext, ProxyStep
<1> QED BY <1>1, <1>2

LEMMA TypedIs == Typed => TypeOK
<1> SUFFICES ASSUME Typed PROVE TypeOK
  OBVIOUS
<1>1. \A b \in Blocks : bank[b] \in Values \union {None} /\ confirmed[b] \in DOMAIN hist[b]
  <2>1. /\ bank \in [Blocks -> Values \cup {None}] /\ confirmed \in [Blocks -> Nat \ {0}]
        /\ \A b \in Blocks : confirmed[b] <= Len(hist[b])
        /\ hist \in [Blocks -> Seq(Values)]
    BY DEF Typed, LineTyped, BankTyped
  <2>2. \A b \in Blocks : DOMAIN hist[b] = 1..Len(hist[b]) /\ Len(hist[b]) \in Nat
    BY <2>1
  <2> QED BY <2>1, <2>2
<1> QED BY <1>1 DEF Typed, LineTyped, BankTyped, TypeOK, Ours

(* Every reachable state of the serial logger and of the proxy it asks has   *)
(* its type: what the proxy holds and queues stays within its limits         *)
(* (proxy.cpp:18-22 and 52-55), and the bank holds values of the registers.  *)
THEOREM LoggerTyped == LoggerSpec => []TypeOK
BY TypedIs, TypedInit, TypedStep, PTL DEF LoggerSpec

-----------------------------------------------------------------------------
(* What is on the line.                                                    *)

LEMMA Whose ==
    /\ \A f \in Ours : f # None /\ f.who = "ours" /\ f.b \in Blocks
    /\ \A b \in Blocks : PlugRead(b).who = "plug" /\ PlugRead(b).b = b /\ PlugRead(b).op = "read"
    /\ \A b \in Blocks, f \in Ours : <<PlugRead(b)>> # <<f>>
    /\ \A b, c \in Blocks : <<PlugRead(b)>> = <<PlugRead(c)>> => b = c
    /\ \A f, g \in Ours : <<f>> = <<g>> => f = g
    /\ inv = <<>> => ~Awaiting("ours") /\ ~Awaiting("plug")
    /\ \A x, w : inv = <<x>> => (Awaiting(w) <=> x.who = w)
<1>1. \A f \in Ours : f # None /\ f.who = "ours" /\ f.b \in Blocks
  BY DEF Ours, Values
<1>2. \A b \in Blocks : PlugRead(b).who = "plug" /\ PlugRead(b).b = b /\ PlugRead(b).op = "read"
  BY DEF PlugRead
<1>3. \A x, y : <<x>> = <<y>> => x = y
  OBVIOUS
<1>4. \A x, w : inv = <<x>> => (Awaiting(w) <=> x.who = w)
  <2> SUFFICES ASSUME NEW x, NEW w, inv = <<x>>
               PROVE  Awaiting(w) <=> x.who = w
    OBVIOUS
  <2>1. DOMAIN inv = {1} /\ inv[1] = x
    OBVIOUS
  <2> QED BY <2>1 DEF Awaiting
<1>5. inv = <<>> => ~Awaiting("ours") /\ ~Awaiting("plug")
  <2>1. DOMAIN <<>> = {}
    OBVIOUS
  <2> QED BY <2>1 DEF Awaiting
<1> QED BY <1>1, <1>2, <1>3, <1>4, <1>5

LEMMA Halves ==
    ASSUME NEW line, NEW b \in Blocks, line = [piece |-> line.piece, inv |-> line.inv, up |-> line.up]
    PROVE  /\ Hears(line, [b |-> b, half |-> 1]) = [piece |-> b, inv |-> line.inv, up |-> line.up]
           /\ line.piece = b => Hears(line, [b |-> b, half |-> 2]) =
                [piece |-> None, inv |-> Append(line.inv, PlugRead(b)),
                 up |-> Append(line.up, [tag |-> "ask", b |-> b])]
<1>1. [line EXCEPT !.piece = b] = [piece |-> b, inv |-> line.inv, up |-> line.up]
  OBVIOUS
<1>2. Hears(line, [b |-> b, half |-> 1]) = [line EXCEPT !.piece = b]
  BY DEF Hears
<1>3. line.piece = b => Hears(line, [b |-> b, half |-> 2]) =
        [piece |-> None, inv |-> Append(line.inv, PlugRead(b)),
         up |-> Append(line.up, [tag |-> "ask", b |-> b])]
  BY DEF Hears
<1> QED BY <1>1, <1>2, <1>3

LEMMA Cuts ==
    ASSUME NEW lines, NEW b \in Blocks
    PROVE  LET h1 == [b |-> b, half |-> 1]
               h2 == [b |-> b, half |-> 2]
               ask == [tag |-> "ask", b |-> b]
           IN  /\ Forward(<<>>, lines) => piece' = piece /\ inv' = inv /\ up' = lines
               /\ Forward(<<h1>>, lines) => piece' = b /\ inv' = inv /\ up' = lines
               /\ Forward(<<h2>>, lines) /\ piece = b =>
                    /\ piece' = None /\ inv' = Append(inv, PlugRead(b))
                    /\ up' = Append(lines, ask)
               /\ Forward(<<h1, h2>>, lines) =>
                    /\ piece' = None /\ inv' = Append(inv, PlugRead(b))
                    /\ up' = Append(lines, ask)
<1> DEFINE h1 == [b |-> b, half |-> 1]
           h2 == [b |-> b, half |-> 2]
           ask == [tag |-> "ask", b |-> b]
<1>1. h1 \in Piece /\ h2 \in Piece
  BY DEF Piece
<1>2. /\ Hears(Base(lines), h1) = [piece |-> b, inv |-> inv, up |-> lines]
      /\ piece = b => Hears(Base(lines), h2) =
           [piece |-> None, inv |-> Append(inv, PlugRead(b)), up |-> Append(lines, ask)]
  <2> DEFINE line == Base(lines)
  <2>1. /\ line.piece = piece /\ line.inv = inv /\ line.up = lines
        /\ line = [piece |-> line.piece, inv |-> line.inv, up |-> line.up]
    BY DEF Base
  <2> HIDE DEF line
  <2>2. /\ Hears(line, h1) = [piece |-> b, inv |-> inv, up |-> lines]
        /\ piece = b => Hears(line, h2) =
             [piece |-> None, inv |-> Append(inv, PlugRead(b)), up |-> Append(lines, ask)]
    BY <2>1, Halves
  <2> QED BY <2>2 DEF line
<1>8. Hears(Hears(Base(lines), h1), h2) =
        [piece |-> None, inv |-> Append(inv, PlugRead(b)), up |-> Append(lines, ask)]
  <2> DEFINE line == Hears(Base(lines), h1)
  <2>1. /\ line.piece = b /\ line.inv = inv /\ line.up = lines
        /\ line = [piece |-> line.piece, inv |-> line.inv, up |-> line.up]
    BY <1>2
  <2> HIDE DEF line
  <2>2. Hears(line, h2) =
          [piece |-> None, inv |-> Append(inv, PlugRead(b)), up |-> Append(lines, ask)]
    BY <2>1, Halves
  <2> QED BY <2>2 DEF line
<1> HIDE DEF h1, h2, ask
<1>3. /\ hearing(<<>>, lines) = Base(lines)
      /\ hearing(<<h1>>, lines) = Hears(Base(lines), h1)
      /\ hearing(<<h2>>, lines) = Hears(Base(lines), h2)
      /\ hearing(<<h1, h2>>, lines) = Hears(Hears(Base(lines), h1), h2)
  BY <1>1, HearingFew
<1>4. Forward(<<>>, lines) => piece' = piece /\ inv' = inv /\ up' = lines
  BY <1>3 DEF Forward, Base
<1>5. Forward(<<h1>>, lines) => piece' = b /\ inv' = inv /\ up' = lines
  BY <1>2, <1>3 DEF Forward
<1>6. ASSUME Forward(<<h2>>, lines), piece = b
      PROVE  piece' = None /\ inv' = Append(inv, PlugRead(b)) /\ up' = Append(lines, ask)
  BY <1>2, <1>3, <1>6 DEF Forward
<1>7. ASSUME Forward(<<h1, h2>>, lines)
      PROVE  piece' = None /\ inv' = Append(inv, PlugRead(b)) /\ up' = Append(lines, ask)
  <2>1. hearing(<<h1, h2>>, lines) =
          [piece |-> None, inv |-> Append(inv, PlugRead(b)), up |-> Append(lines, ask)]
    BY <1>3, <1>8
  <2> DEFINE both == <<h1, h2>>
  <2> HIDE DEF both
  <2>2. Forward(both, lines)
    BY <1>7 DEF both
  <2>3. hearing(both, lines) =
          [piece |-> None, inv |-> Append(inv, PlugRead(b)), up |-> Append(lines, ask)]
    BY <2>1 DEF both
  <2> QED BY <2>2, <2>3 DEF Forward
<1> QED BY <1>4, <1>5, <1>6, <1>7 DEF h1, h2, ask

LEMMA NoLines == DOMAIN <<>> = {} /\ Len(<<>>) = 0
OBVIOUS

LEMMA OneLine ==
    ASSUME NEW x
    PROVE  /\ <<x>> # <<>> /\ DOMAIN <<x>> = {1} /\ Len(<<x>>) = 1 /\ <<x>>[1] = x
           /\ Append(<<>>, x) = <<x>> /\ Tail(<<x>>) = <<>> /\ Head(<<x>>) = x
OBVIOUS

LEMMA TwoLines ==
    ASSUME NEW x, NEW y
    PROVE  /\ Append(<<x>>, y) = <<x, y>> /\ DOMAIN <<x, y>> = {1, 2} /\ Len(<<x, y>>) = 2
           /\ <<x, y>>[1] = x /\ <<x, y>>[2] = y /\ <<x, y>> # <<>>
<1>1. DOMAIN <<x, y>> = {1, 2} /\ Len(<<x, y>>) = 2 /\ <<x, y>>[1] = x /\ <<x, y>>[2] = y
  OBVIOUS
<1>2. Append(<<x>>, y) = <<x, y>>
  <2> DEFINE S == {x, y}
             s == <<x>>
  <2>0. \A t \in Seq(S) : /\ Append(t, y) \in Seq(S) /\ Len(Append(t, y)) = Len(t) + 1
                           /\ Append(t, y)[Len(t) + 1] = y
                           /\ \A i \in 1..Len(t) : Append(t, y)[i] = t[i]
    OBVIOUS
  <2>1. s \in Seq(S) /\ Len(s) = 1 /\ s[1] = x
    OBVIOUS
  <2>3. <<x, y>> \in Seq(S)
    OBVIOUS
  <2> HIDE DEF S, s
  <2>4. Append(s, y) \in Seq(S) /\ Len(Append(s, y)) = 2
        /\ Append(s, y)[1] = x /\ Append(s, y)[2] = y
    <3>1. /\ Append(s, y) \in Seq(S) /\ Len(Append(s, y)) = Len(s) + 1
          /\ Append(s, y)[Len(s) + 1] = y
          /\ \A i \in 1..Len(s) : Append(s, y)[i] = s[i]
      BY <2>0, <2>1
    <3>2. Len(s) + 1 = 2 /\ 1 \in 1..Len(s)
      BY <2>1
    <3> QED BY <2>1, <3>1, <3>2
  <2>5. Append(s, y) = <<x, y>>
    <3>1. \A i \in 1..2 : Append(s, y)[i] = <<x, y>>[i]
      BY <1>1, <2>4
    <3> QED BY <1>1, <2>3, <2>4, <3>1, SeqEqual
  <2> QED BY <2>5 DEF s
<1>3. <<x, y>> # <<>>
  BY <1>1, NoLines
<1> QED BY <1>1, <1>2, <1>3

LEMMA PlugStartsLine ==
    ASSUME Typed, OnLine, up = <<>>, ~crossed', UNCHANGED hostVars,
           NEW b \in Blocks, PlugStarts(b)
    PROVE  OnLine'
<1> DEFINE h1 == [b |-> b, half |-> 1]
<1>1. /\ plug' = [mid |-> b, asks |-> plug.asks + 1] /\ PlugByte(h1)
      /\ ~crossed /\ ~Awaiting("plug") /\ held = <<>> /\ UNCHANGED <<queue, hist, plugGot>>
  BY DEF PlugStarts
<1>2. CASE pst = "ours"
  <2>1. UNCHANGED <<pst, answered, up, piece, inv>>
    BY <1>1, <1>2 DEF PlugByte
  <2>2. held' = <<h1>>
    <3>1. Len(held) < HeldMax
      BY <1>1, NoLines
    <3> QED BY <1>1, <1>2, <3>1, OneLine DEF PlugByte
  <2>3. OneExchange'
    BY <1>1, <1>2, <2>1, <2>2 DEF OnLine, OneExchange
  <2> QED BY <1>1, <2>1, <2>3 DEF OnLine, OneRequest, Cleared, LinesTell, HeardAsked, hostVars
<1>3. CASE pst # "ours"
  <2>1. Forward(<<h1>>, up) /\ pst' = "plug" /\ answered' = FALSE /\ UNCHANGED held
    BY <1>1, <1>3 DEF PlugByte
  <2>2. piece' = b /\ inv' = inv /\ up' = up
    BY <2>1, Cuts
  <2>3. inv = <<>>
    <3>1. \A c \in Blocks : inv # <<PlugRead(c)>>
      BY <1>1, Whose
    <3> QED BY <1>3, <3>1 DEF OnLine, OneExchange, Typed, LineTyped
  <2>4. OneExchange'
    BY <1>1, <2>1, <2>2, <2>3 DEF OnLine, OneExchange
  <2>5. OneRequest'
    BY <1>1, <2>1, <2>2, <2>3, OneLine DEF OnLine, OneRequest, Cleared, hostVars
  <2> QED BY <2>2, <2>3, <2>4, <2>5, NoLines, OneLine DEF OnLine, LinesTell, HeardAsked
<1> QED BY <1>2, <1>3

LEMMA PlugEndsLine ==
    ASSUME Typed, OnLine, up = <<>>, ~crossed', UNCHANGED hostVars, PlugEnds
    PROVE  OnLine'
<1> DEFINE b == plug.mid
           h2 == [b |-> b, half |-> 2]
           ask == [tag |-> "ask", b |-> b]
<1>1. /\ b # None /\ b \in Blocks /\ plug'.mid = None /\ PlugByte(h2)
      /\ UNCHANGED <<queue, hist, plugGot>>
  BY DEF PlugEnds, Typed, LineTyped
<1>2. CASE pst = "ours"
  <2>1. UNCHANGED <<pst, answered, up, piece, inv>>
    BY <1>1, <1>2 DEF PlugByte
  <2>2. held = <<[b |-> b, half |-> 1]>>
    BY <1>1, <1>2 DEF OnLine, OneExchange
  <2>3. held' = held \/ held' = <<[b |-> b, half |-> 1], h2>>
    <3>1. held' = IF Len(held) < HeldMax THEN Append(held, h2) ELSE held
      BY <1>1, <1>2 DEF PlugByte
    <3>2. Append(held, h2) = <<[b |-> b, half |-> 1], h2>>
      BY <2>2, TwoLines
    <3> QED BY <3>1, <3>2
  <2>4. OneExchange'
    BY <1>1, <1>2, <2>1, <2>2, <2>3 DEF OnLine, OneExchange
  <2> QED BY <1>1, <2>1, <2>4 DEF OnLine, OneRequest, Cleared, LinesTell, HeardAsked, hostVars
<1>3. CASE pst # "ours"
  <2>1. Forward(<<h2>>, up) /\ pst' = "plug" /\ answered' = FALSE /\ UNCHANGED held
    BY <1>1, <1>3 DEF PlugByte
  <2>2. piece = b /\ inv = <<>>
    BY <1>1, <1>3 DEF OnLine, OneExchange, Typed, LineTyped
  <2> HIDE DEF b
  <2>3. piece' = None /\ inv' = <<PlugRead(b)>> /\ up' = <<ask>>
    BY <1>1, <2>1, <2>2, Cuts, OneLine
  <2>4. OneExchange'
    BY <1>1, <1>3, <2>1, <2>3 DEF OnLine, OneExchange
  <2>5. OneRequest'
    BY <1>1, <2>1, <2>2, <2>3, Whose DEF OnLine, OneRequest, Cleared, hostVars
  <2>6. LinesTell' /\ HeardAsked'
    <3>1. DOMAIN up' = {1} /\ Len(up') = 1 /\ up'[1].tag = "ask" /\ up'[1].b = b
      BY <2>3, OneLine
    <3> QED BY <2>3, <3>1 DEF LinesTell, HeardAsked
  <2> QED BY <2>4, <2>5, <2>6 DEF OnLine
<1> QED BY <1>2, <1>3

LEMMA PlugOverLine ==
    ASSUME Typed, OnLine, up = <<>>, ~crossed', UNCHANGED hostVars, PlugOver
    PROVE  OnLine'
<1>1. /\ pst = "plug" /\ pst' = "idle" /\ (answered \/ (~Awaiting("plug") /\ piece = None))
      /\ UNCHANGED <<answered, held, queue, up, plug, piece, inv, hist, plugGot>>
  BY DEF PlugOver
<1>2. inv = <<>> /\ piece = None /\ plug.mid = None
  <2>1. answered \/ \A c \in Blocks : inv # <<PlugRead(c)>>
    BY <1>1, Whose
  <2>2. inv = <<>> /\ piece = None
    BY <1>1, <2>1 DEF OnLine, OneExchange
  <2> QED BY <1>1, <2>2 DEF OnLine, OneExchange
<1>3. OneExchange'
  BY <1>1, <1>2 DEF OnLine, OneExchange
<1> QED BY <1>1, <1>3 DEF OnLine, OneRequest, Cleared, LinesTell, HeardAsked, hostVars

LEMMA OursOverLine ==
    ASSUME Typed, OnLine, up = <<>>, ~crossed', UNCHANGED hostVars, OursOver
    PROVE  OnLine'
<1> DEFINE lines == IF answered THEN up ELSE Append(up, [tag |-> "timeout"])
<1>1. /\ pst = "ours" /\ Forward(held, lines) /\ held' = <<>>
      /\ pst' = (IF held = <<>> THEN "idle" ELSE "plug") /\ answered' = (held = <<>> /\ answered)
      /\ (answered \/ ~Awaiting("ours")) /\ UNCHANGED <<queue, plug, hist, plugGot>>
  BY DEF OursOver
<1>2. inv = <<>> /\ piece = None
  BY <1>1, Whose DEF OnLine, OneExchange
<1>3. port /\ (~answered => queue = <<>> /\ pending # None)
  BY <1>1 DEF OnLine, OneRequest, Cleared, Typed, BankTyped
<1>4. lines = (IF answered THEN <<>> ELSE <<[tag |-> "timeout"]>>)
  BY OneLine
<1> HIDE DEF lines
<1>5. \/ held = <<>> /\ piece' = None /\ inv' = <<>> /\ up' = lines /\ plug.mid = None
      \/ \E b \in Blocks : /\ held # <<>> /\ piece' = b /\ inv' = <<>> /\ up' = lines
                            /\ plug.mid \in {b, None}
      \/ \E b \in Blocks : /\ held # <<>> /\ piece' = None /\ inv' = <<PlugRead(b)>>
                            /\ up' = Append(lines, [tag |-> "ask", b |-> b]) /\ plug.mid = None
  <2>1. CASE held = <<>> /\ plug.mid = None
    <3>1. piece' = piece /\ inv' = inv /\ up' = lines
      BY <1>1, <2>1, HearingNone DEF Forward, Base
    <3> QED BY <1>2, <2>1, <3>1
  <2>2. ASSUME NEW b \in Blocks, held = <<[b |-> b, half |-> 1]>>, plug.mid \in {b, None}
        PROVE  held # <<>> /\ piece' = b /\ inv' = <<>> /\ up' = lines /\ plug.mid \in {b, None}
    BY <1>1, <1>2, <2>2, Cuts, OneLine
  <2>3. ASSUME NEW b \in Blocks, plug.mid = None,
               held = <<[b |-> b, half |-> 1], [b |-> b, half |-> 2]>>
        PROVE  /\ held # <<>> /\ piece' = None /\ inv' = <<PlugRead(b)>>
               /\ up' = Append(lines, [tag |-> "ask", b |-> b]) /\ plug.mid = None
    BY <1>1, <1>2, <2>3, Cuts, OneLine, TwoLines
  <2> QED BY <1>1, <2>1, <2>2, <2>3 DEF OnLine, OneExchange
<1>6. OneExchange'
  BY <1>1, <1>5 DEF OnLine, OneExchange
<1>7. inv' \notin {<<f>> : f \in Ours} /\ pst' # "ours"
  <2>1. inv' = <<>> \/ \E b \in Blocks : inv' = <<PlugRead(b)>>
    BY <1>5
  <2>2. \A f \in Ours : <<f>> # <<>>
    BY OneLine
  <2>3. pst' # "ours"
    BY <1>1
  <2> QED BY <2>1, <2>2, <2>3, Whose
<1>8. OneRequest'
  BY <1>1, <1>3, <1>7 DEF OnLine, OneRequest, Cleared, hostVars
<1>9. ~answered => Cleared' /\ port'
  BY <1>1, <1>3, <1>7 DEF Cleared, hostVars
<1>10. CASE up' = lines /\ inv' = <<>>
  <2>1. HeardAsked'
    BY <1>10, OneLine DEF HeardAsked
  <2>2. CASE answered
    <3>1. DOMAIN up' = {}
      BY <1>4, <1>10, <2>2, NoLines
    <3>2. LinesTell'
      BY <3>1 DEF LinesTell
    <3> QED BY <1>6, <1>8, <2>1, <3>2 DEF OnLine
  <2>3. CASE ~answered
    <3>1. DOMAIN up' = {1} /\ up'[1].tag = "timeout"
      BY <1>4, <1>10, <2>3, OneLine
    <3>2. LinesTell'
      BY <1>9, <2>3, <3>1 DEF LinesTell
    <3> QED BY <1>6, <1>8, <2>1, <3>2 DEF OnLine
  <2> QED BY <2>2, <2>3
<1>11. ASSUME NEW b \in Blocks, inv' = <<PlugRead(b)>>,
              up' = Append(lines, [tag |-> "ask", b |-> b])
       PROVE  LinesTell' /\ HeardAsked'
  <2>1. CASE answered
    <3>1. DOMAIN up' = {1} /\ Len(up') = 1 /\ up'[1].tag = "ask" /\ up'[1].b = b
      BY <1>4, <1>11, <2>1, OneLine
    <3> QED BY <1>11, <3>1 DEF LinesTell, HeardAsked
  <2>2. CASE ~answered
    <3>1. /\ DOMAIN up' = {1, 2} /\ Len(up') = 2 /\ up'[1].tag = "timeout"
          /\ up'[2].tag = "ask" /\ up'[2].b = b
      BY <1>4, <1>11, <2>2, OneLine, TwoLines
    <3> QED BY <1>9, <1>11, <2>2, <3>1 DEF LinesTell, HeardAsked
  <2> QED BY <2>1, <2>2
<1> QED BY <1>5, <1>6, <1>8, <1>10, <1>11 DEF OnLine

\* A request that is sent is the one on the link.
LEMMA SendOursLine ==
    ASSUME Typed, OnLine, up = <<>>, ~crossed', UNCHANGED hostVars, SendOurs
    PROVE  OnLine'
<1>1. /\ pst = "idle" /\ queue # <<>> /\ queue' = Tail(queue) /\ piece' = None
      /\ inv' = (IF piece = None THEN Append(inv, Head(queue)) ELSE inv)
      /\ pst' = "ours" /\ answered' = FALSE
      /\ UNCHANGED <<held, up, plug, hist, plugGot, crossed>>
  BY DEF SendOurs
<1>2. inv = <<>> /\ piece = None /\ plug.mid = None /\ held = <<>> /\ plugGot # "ours"
  BY <1>1 DEF OnLine, OneExchange
<1>3. queue = <<pending>> /\ pending \in Ours
  <2>1. queue = <<pending>> /\ Head(queue) \in Ours
    BY <1>1, Tails DEF OnLine, OneRequest, Typed, LineTyped
  <2> QED BY <2>1, OneLine
<1>4. queue' = <<>> /\ inv' = <<pending>>
  BY <1>1, <1>2, <1>3, OneLine
<1>5. OneExchange'
  BY <1>1, <1>2, <1>3, <1>4 DEF OneExchange
<1>6. OneRequest'
  <2>1. pending # None /\ port
    BY <1>3, Whose DEF OnLine, OneRequest
  <2>2. \A g \in Ours : inv' = <<g>> => g = pending
    BY <1>3, <1>4, Whose
  <2> QED BY <1>4, <2>1, <2>2 DEF OneRequest, hostVars
<1>7. HeardAsked'
  BY <1>3, <1>4, Whose DEF HeardAsked
<1>8. LinesTell'
  BY <1>1, NoLines DEF LinesTell
<1> QED BY <1>5, <1>6, <1>7, <1>8 DEF OnLine

\* What the inverter is asked is the plug's question or ours, and the proxy
\* knows whose.
LEMMA LineAsks ==
    ASSUME Typed, OnLine, inv # <<>>
    PROVE  /\ ~answered /\ pst # "idle" /\ piece = None
           /\ \/ pst = "plug" /\ \E b \in Blocks : inv = <<PlugRead(b)>>
              \/ pst = "ours" /\ inv = <<pending>> /\ pending \in Ours /\ queue = <<>>
<1>1. pst \in {"idle", "plug", "ours"}
  BY DEF Typed, LineTyped
<1>2. \A g \in Ours : inv = <<g>> => g = pending /\ queue = <<>>
  BY DEF OnLine, OneRequest
<1> QED BY <1>1, <1>2 DEF OnLine, OneExchange

\* The plug's answer goes to the plug.
LEMMA PlugAnswered ==
    ASSUME Typed, OnLine, up = <<>>, ~crossed', UNCHANGED hostVars, InverterReplies,
           pst = "plug", NEW b \in Blocks, inv = <<PlugRead(b)>>
    PROVE  OnLine' /\ UNCHANGED hist
<1> DEFINE f == Head(inv)
           reply(kind) == [tag |-> IF pst = "ours" THEN "reply" ELSE "answer",
                           who |-> f.who, op |-> f.op, b |-> f.b, kind |-> kind,
                           v |-> IF f.op = "read" THEN Last(hist[f.b]) ELSE f.v]
<1>1. f.who = "plug" /\ f.op = "read" /\ f.b = b /\ Tail(inv) = <<>>
  BY Whose, OneLine
<1>2. PICK kind \in {"ok", "exception"} :
        /\ up' = <<reply(kind)>> /\ plugGot' = "plug" /\ answered' = TRUE
        /\ inv' = <<>> /\ UNCHANGED <<pst, held, queue, plug, piece, crossed>>
        /\ hist' = hist
  <2>1. PICK kind \in {"ok", "exception"} :
          InverterByte(reply(kind)) /\ hist' = (IF kind = "ok" THEN Obeyed(f) ELSE hist)
    BY DEF InverterReplies
  <2>2. inv' = Tail(inv) /\ UNCHANGED <<pst, held, queue, plug, piece, crossed>>
    BY DEF InverterReplies
  <2>3. reply(kind).who = f.who
    OBVIOUS
  <2> HIDE DEF f, reply
  <2>4. Obeyed(f) = hist
    BY <1>1 DEF Obeyed
  <2> QED BY <1>1, <2>1, <2>2, <2>3, <2>4, OneLine DEF InverterByte
<1> HIDE DEF f
<1> DEFINE line == reply(kind)
<1>3. /\ line.tag = "answer" /\ line.op = "read" /\ line.b = b
      /\ line.v = Last(hist[b])
  BY <1>1
<1> HIDE DEF reply, line
<1>4. DOMAIN up' = {1} /\ Len(up') = 1 /\ up'[1] = line
  BY <1>2, OneLine DEF line
<1>5. OneExchange'
  BY <1>2, LineAsks DEF OnLine, OneExchange
<1>6. OneRequest'
  BY <1>2, Whose, OneLine DEF OnLine, OneRequest, Cleared, hostVars
<1>7. heard \in {<<>>, <<b>>}
  BY NoLines DEF OnLine, HeardAsked
<1>8. LinesTell'
  <2>1. heard' = heard
    BY DEF hostVars
  <2> QED BY <1>2, <1>3, <1>4, <1>7, <2>1 DEF LinesTell
<1>9. HeardAsked'
  BY <1>2, OneLine DEF HeardAsked
<1> QED BY <1>2, <1>5, <1>6, <1>8, <1>9 DEF OnLine

\* Our answer goes to USB.
LEMMA OursAnswered ==
    ASSUME Typed, OnLine, up = <<>>, ~crossed', UNCHANGED hostVars, InverterReplies,
           pst = "ours"
    PROVE  OnLine'
<1> DEFINE f == Head(inv)
           reply(kind) == [tag |-> IF pst = "ours" THEN "reply" ELSE "answer",
                           who |-> f.who, op |-> f.op, b |-> f.b, kind |-> kind,
                           v |-> IF f.op = "read" THEN Last(hist[f.b]) ELSE f.v]
<1>1. /\ inv = <<f>> /\ f \in Ours /\ queue = <<>> /\ ~answered /\ piece = None
      /\ f = pending /\ Tail(inv) = <<>>
  <2>1. inv # <<>>
    BY DEF InverterReplies
  <2>2. inv = <<pending>> /\ pending \in Ours /\ queue = <<>> /\ ~answered /\ piece = None
    BY <2>1, LineAsks
  <2>3. f = pending /\ Tail(inv) = <<>>
    BY <2>2, OneLine
  <2> QED BY <2>2, <2>3
<1>2. f.who = "ours" /\ f.b \in Blocks /\ f.op \in {"read", "write"} /\ f.v \in Values /\ f # None
  BY <1>1, Whose DEF Ours
<1>3. PICK kind \in {"ok", "exception"} :
        /\ up' = <<reply(kind)>> /\ plugGot' = plugGot /\ answered' = TRUE
        /\ inv' = <<>> /\ UNCHANGED <<pst, held, queue, plug, piece, crossed>>
        /\ hist' = IF kind = "ok" THEN Obeyed(f) ELSE hist
  <2>1. PICK kind \in {"ok", "exception"} :
          InverterByte(reply(kind)) /\ hist' = (IF kind = "ok" THEN Obeyed(f) ELSE hist)
    BY DEF InverterReplies
  <2>2. inv' = Tail(inv) /\ UNCHANGED <<pst, held, queue, plug, piece, crossed>>
    BY DEF InverterReplies
  <2> HIDE DEF f, reply
  <2> QED BY <1>1, <2>1, <2>2, OneLine DEF InverterByte
<1> HIDE DEF f
<1> DEFINE line == reply(kind)
<1>4. /\ line.tag = "reply" /\ line.who = "ours" /\ line.op = f.op /\ line.b = f.b
      /\ line.kind = kind
      /\ f.op = "read" => line.v = Last(hist[f.b])
  BY <1>2
<1> HIDE DEF reply, line
<1>5. DOMAIN up' = {1} /\ Len(up') = 1 /\ up'[1] = line
  BY <1>3, OneLine DEF line
<1>6. OneExchange'
  BY <1>1, <1>3 DEF OnLine, OneExchange
<1>7. Cleared' /\ port'
  <2>1. port' = port /\ \A g \in Ours : <<>> # <<g>>
    BY OneLine DEF hostVars
  <2> QED BY <1>1, <1>3, <2>1 DEF OnLine, OneRequest, Cleared
<1>8. OneRequest'
  <2>1. \A g \in Ours : inv' # <<g>>
    BY <1>3, OneLine
  <2> QED BY <1>1, <1>3, <1>7, <2>1 DEF OneRequest
<1>9. f.op = "read" => hist' = hist
  BY <1>3 DEF Obeyed
<1>10. f.op = "write" /\ kind = "ok" =>
         \E k \in DOMAIN hist'[f.b] : hist'[f.b][k] = f.v
  <2> SUFFICES ASSUME f.op = "write", kind = "ok"
               PROVE  \E k \in DOMAIN hist'[f.b] : hist'[f.b][k] = f.v
    OBVIOUS
  <2>1. hist'[f.b] = Append(hist[f.b], f.v) /\ hist[f.b] \in Seq(Values)
    BY <1>2, <1>3 DEF Obeyed, Typed, LineTyped
  <2>2. /\ Len(hist[f.b]) + 1 \in DOMAIN Append(hist[f.b], f.v)
        /\ Append(hist[f.b], f.v)[Len(hist[f.b]) + 1] = f.v
    BY <2>1
  <2> QED BY <2>1, <2>2
<1>11. LinesTell'
  <2>1. pending' = f /\ f # None
    BY <1>1, <1>2 DEF hostVars
  <2> QED BY <1>4, <1>5, <1>7, <1>9, <1>10, <2>1 DEF LinesTell
<1>12. HeardAsked'
  BY <1>3, OneLine DEF HeardAsked
<1> QED BY <1>6, <1>8, <1>11, <1>12 DEF OnLine

LEMMA RepliesLine ==
    ASSUME Typed, OnLine, up = <<>>, ~crossed', UNCHANGED hostVars, InverterReplies
    PROVE  OnLine'
<1>1. inv # <<>>
  BY DEF InverterReplies
<1>2. CASE pst = "plug" /\ \E b \in Blocks : inv = <<PlugRead(b)>>
  BY <1>2, PlugAnswered
<1>3. CASE pst = "ours"
  BY <1>3, OursAnswered
<1> QED BY <1>1, <1>2, <1>3, LineAsks

LEMMA SilentLine ==
    ASSUME Typed, OnLine, up = <<>>, ~crossed', UNCHANGED hostVars, InverterSilent
    PROVE  OnLine'
<1>1. /\ inv # <<>> /\ inv' = Tail(inv)
      /\ UNCHANGED <<pst, answered, held, queue, up, plug, piece, plugGot, crossed>>
  BY DEF InverterSilent
<1>2. inv' = <<>> /\ pst # "idle"
  BY <1>1, LineAsks, OneLine
<1>3. \A x : inv' # <<x>>
  BY <1>2, OneLine
<1>4. OneExchange'
  BY <1>1, <1>2 DEF OnLine, OneExchange
<1>5. OneRequest'
  BY <1>1, <1>3 DEF OnLine, OneRequest, Cleared, hostVars
<1>6. LinesTell' /\ HeardAsked'
  BY <1>1, <1>3, NoLines DEF LinesTell, HeardAsked
<1> QED BY <1>4, <1>5, <1>6 DEF OnLine

\* What the line does not see.
LEMMA OffLine ==
    ASSUME OnLine, UNCHANGED <<pst, answered, held, queue, up, plug, piece, inv, hist, plugGot,
                               port, pending, heard>>
    PROVE  OnLine'
<1>1. OneExchange'
  BY DEF OnLine, OneExchange
<1>2. OneRequest'
  BY DEF OnLine, OneRequest, Cleared
<1>3. LinesTell' /\ HeardAsked'
  BY DEF OnLine, LinesTell, HeardAsked, Cleared
<1> QED BY <1>1, <1>2, <1>3 DEF OnLine

LEMMA StartLine ==
    ASSUME Typed, OnLine, up = <<>>, StartExchange
    PROVE  OnLine'
<1>1. /\ pending = None /\ waiting # <<>>
      /\ UNCHANGED <<pst, answered, held, plug, piece, inv, hist, plugGot, port, heard>>
  BY DEF StartExchange
<1>2. CASE ~port
  BY <1>1, <1>2, OffLine DEF StartExchange
<1>3. CASE port
  <2> DEFINE f == Head(waiting)
  <2>1. pending' = f /\ UsbLine(f, up)
    BY <1>3 DEF StartExchange
  <2>2. f \in Ours
    BY <1>1, Tails DEF Typed, BankTyped
  <2> HIDE DEF f
  <2>3. Cleared
    BY <1>1 DEF OnLine, OneRequest
  <2>4. queue' = <<f>> /\ up' = up
    <3>1. queue = <<>> /\ Len(queue) # QueueDepth
      BY <2>3, NoLines DEF Cleared
    <3> QED BY <2>1, <3>1, OneLine DEF UsbLine
  <2>5. OneExchange'
    BY <1>1 DEF OnLine, OneExchange
  <2>6. OneRequest'
    <3>1. pending' # None
      BY <2>1, <2>2, Whose
    <3> QED BY <1>1, <1>3, <2>1, <2>3, <2>4, <3>1 DEF OneRequest, Cleared
  <2>7. LinesTell' /\ HeardAsked'
    BY <1>1, <2>4, NoLines DEF OnLine, LinesTell, HeardAsked
  <2> QED BY <2>5, <2>6, <2>7 DEF OnLine
<1> QED BY <1>2, <1>3

\* A link that gives up while nothing lingers leaves the line clear.
LEMMA NothingLingers ==
    ASSUME Typed, OnLine, ~Lingers
    PROVE  Cleared /\ pst # "ours"
<1>1. queue = <<>> /\ ~Awaiting("ours") /\ pst # "ours"
  BY DEF Lingers
<1>2. \A g \in Ours : inv # <<g>>
  BY <1>1, Whose
<1> QED BY <1>1, <1>2 DEF Cleared

LEMMA TimersLine ==
    ASSUME Typed, OnLine, up = <<>>, ~crossed', LinkTimeout \/ PortFails
    PROVE  OnLine'
<1>1. /\ UNCHANGED <<pst, answered, held, queue, up, plug, piece, inv, hist, plugGot, heard>>
      /\ ~Lingers /\ pending' = None
      /\ UNCHANGED port \/ (pst # "plug" /\ heard = <<>>)
  BY DEF LinkTimeout, PortFails, Finish
<1>2. Cleared /\ pst # "ours"
  BY <1>1, NothingLingers
<1>3. OneExchange'
  BY <1>1 DEF OnLine, OneExchange
<1>4. OneRequest'
  BY <1>1, <1>2 DEF OnLine, OneRequest, Cleared
<1>5. LinesTell' /\ HeardAsked'
  BY <1>1, NoLines DEF OnLine, LinesTell, HeardAsked
<1> QED BY <1>3, <1>4, <1>5 DEF OnLine

LEMMA ExpireLine ==
    ASSUME Typed, OnLine, up = <<>>, Expire
    PROVE  OnLine'
<1>1. /\ UNCHANGED <<pst, answered, held, queue, up, plug, piece, inv, hist, plugGot,
                     port, pending>>
      /\ heard' \in {heard, <<>>}
  BY DEF Expire, proxyVars
<1>2. OneExchange'
  BY <1>1 DEF OnLine, OneExchange
<1>3. OneRequest'
  BY <1>1 DEF OnLine, OneRequest, Cleared
<1>4. LinesTell'
  BY <1>1, NoLines DEF LinesTell
<1>5. HeardAsked'
  BY <1>1 DEF OnLine, HeardAsked
<1> QED BY <1>2, <1>3, <1>4, <1>5 DEF OnLine

LEMMA ReopenLine ==
    ASSUME Typed, OnLine, up = <<>>, Reopen
    PROVE  OnLine'
<1>1. /\ port' = TRUE
      /\ UNCHANGED <<pst, answered, held, queue, up, plug, piece, inv, hist, plugGot,
                     pending, heard>>
  BY DEF Reopen
<1>2. OneExchange' /\ HeardAsked'
  BY <1>1 DEF OnLine, OneExchange, HeardAsked
<1>3. OneRequest'
  BY <1>1 DEF OnLine, OneRequest, Cleared
<1>4. LinesTell'
  BY <1>1, NoLines DEF LinesTell
<1> QED BY <1>2, <1>3, <1>4 DEF OnLine

LEMMA RestartLine ==
    ASSUME Typed, OnLine, up = <<>>, ~crossed', Restart
    PROVE  OnLine'
<1>1. /\ pst' = "idle" /\ answered' = FALSE /\ held' = <<>> /\ queue' = <<>>
      /\ inv = <<>> /\ piece = None /\ held = <<>>
      /\ UNCHANGED <<up, plug, piece, inv, hist, plugGot, port, pending, heard>>
  BY DEF Restart, BoardRestarts
<1>2. plug.mid = None /\ plugGot # "ours"
  <2>1. pst \in {"idle", "plug", "ours"}
    BY DEF Typed, LineTyped
  <2>2. plug.mid # None => plug.mid \in Blocks
    BY DEF Typed, LineTyped
  <2> QED BY <1>1, <2>1, <2>2, OneLine, TwoLines DEF OnLine, OneExchange
<1>3. OneExchange'
  BY <1>1, <1>2 DEF OneExchange
<1>4. OneRequest'
  <2>1. \A g \in Ours : <<>> # <<g>>
    BY OneLine
  <2> QED BY <1>1, <2>1 DEF OnLine, OneRequest, Cleared
<1>5. LinesTell' /\ HeardAsked'
  BY <1>1, NoLines, OneLine DEF LinesTell, HeardAsked
<1> QED BY <1>3, <1>4, <1>5 DEF OnLine

LEMMA LostLine ==
    ASSUME Typed, OnLine, Lost
    PROVE  OnLine'
<1>1. /\ ~port /\ up' = <<>>
      /\ UNCHANGED <<pst, answered, held, queue, plug, piece, inv, hist, plugGot, hostVars>>
  BY DEF Lost
<1>2. heard = <<>>
  BY <1>1 DEF OnLine, OneRequest
<1>3. OneExchange'
  BY <1>1 DEF OnLine, OneExchange
<1>4. OneRequest'
  BY <1>1 DEF OnLine, OneRequest, Cleared, hostVars
<1>5. LinesTell' /\ HeardAsked'
  BY <1>1, <1>2, NoLines DEF LinesTell, HeardAsked, hostVars
<1> QED BY <1>3, <1>4, <1>5 DEF OnLine

-----------------------------------------------------------------------------
(* The host reads a line.                                                  *)

\* What a request's end without an answer leaves alone.
LEMMA NoAnswer ==
    ASSUME Finish(None)
    PROVE  pending' = None /\ UNCHANGED <<bank, confirmed>>
<1>1. CASE pending = None
  BY <1>1 DEF Finish
<1>2. CASE pending # None
  BY <1>2 DEF Finish, Settle, Taken
<1> QED BY <1>1, <1>2

LEMMA LineRests ==
    ASSUME Typed, up # <<>>
    PROVE  /\ Head(up) = up[1] /\ 1 \in DOMAIN up /\ Head(up) \in Lines
           /\ Len(up) = 1 => Tail(up) = <<>>
           /\ Len(Tail(up)) = Len(up) - 1
           /\ \A i \in DOMAIN Tail(up) : /\ i \in Nat \ {0} /\ i + 1 \in DOMAIN up
                                         /\ Tail(up)[i] = up[i + 1] /\ i < Len(up)
<1>1. up \in Seq(Lines)
  BY DEF Typed, LineTyped
<1> HIDE DEF Lines
<1>2. Len(up) \in Nat \ {0} /\ DOMAIN up = 1..Len(up)
  BY <1>1
<1>3. /\ Tail(up) \in Seq(Lines) /\ Len(Tail(up)) = Len(up) - 1
      /\ DOMAIN Tail(up) = 1..(Len(up) - 1)
      /\ \A i \in 1..(Len(up) - 1) : Tail(up)[i] = up[i + 1]
  BY <1>1
<1>4. Head(up) = up[1] /\ Head(up) \in Lines
  BY <1>1
<1>5. Len(up) = 1 => Tail(up) = <<>>
  <2>1. Tail(up) # <<>> => Len(Tail(up)) # 0
    BY <1>3, EmptySeq
  <2> QED BY <1>2, <1>3, <2>1
<1> QED BY <1>2, <1>3, <1>4, <1>5

LEMMA ReplyLine ==
    ASSUME Typed, OnLine, Receive, Head(up).tag = "reply"
    PROVE  OnLine' /\ Finish(Head(up))
<1> DEFINE line == Head(up)
<1>1. /\ port /\ up # <<>> /\ up' = Tail(up) /\ Reply(line)
      /\ UNCHANGED <<pst, answered, held, queue, plug, piece, inv, hist, plugGot, port>>
  BY DEF Receive
<1>2. line = up[1] /\ 1 \in DOMAIN up
  BY <1>1, LineRests
<1>3. /\ Cleared /\ Len(up) = 1 /\ pending # None /\ line.op = pending.op /\ line.b = pending.b
  BY <1>2 DEF OnLine, LinesTell
<1>4. up' = <<>> /\ Finish(line) /\ UNCHANGED heard
  <2>1. Fits(pending, line)
    BY <1>3 DEF Fits
  <2> QED BY <1>1, <1>3, <2>1, LineRests DEF Reply
<1> HIDE DEF line
<1>5. pending' = None
  BY <1>3, <1>4 DEF Finish
<1>6. OneExchange'
  BY <1>1 DEF OnLine, OneExchange
<1>7. OneRequest'
  BY <1>1, <1>3, <1>5 DEF OneRequest, Cleared
<1>8. HeardAsked'
  <2>1. \A i \in DOMAIN up : up[i].tag # "ask"
    <3>1. \A i \in DOMAIN up : i = 1
      BY <1>1, <1>3 DEF Typed, BankTyped
    <3> QED BY <1>2, <3>1 DEF line
  <2> QED BY <1>1, <1>4, <2>1 DEF OnLine, HeardAsked
<1>9. LinesTell'
  BY <1>4, NoLines DEF LinesTell
<1> QED BY <1>4, <1>6, <1>7, <1>8, <1>9 DEF OnLine, line

LEMMA GaveUpLine ==
    ASSUME Typed, OnLine, Receive, Head(up).tag \in {"timeout", "busy"}
    PROVE  OnLine' /\ UNCHANGED <<bank, confirmed>>
<1>1. /\ port /\ up # <<>> /\ up' = Tail(up) /\ Finish(None) /\ UNCHANGED heard
      /\ UNCHANGED <<pst, answered, held, queue, plug, piece, inv, hist, plugGot, port>>
  BY DEF Receive, GaveUp
<1>2. Head(up) = up[1] /\ 1 \in DOMAIN up
  BY <1>1, LineRests
<1>3. Cleared /\ up[1].tag \notin {"ask", "reply", "answer"}
  BY <1>2 DEF OnLine, LinesTell
<1>4. pending' = None /\ UNCHANGED <<bank, confirmed>>
  BY <1>1, NoAnswer
<1>5. OneExchange'
  BY <1>1 DEF OnLine, OneExchange
<1>6. OneRequest'
  BY <1>1, <1>3, <1>4 DEF OneRequest, Cleared
<1>7. ASSUME NEW i \in DOMAIN up'
      PROVE  /\ i \in Nat \ {0} /\ i + 1 \in DOMAIN up /\ up'[i] = up[i + 1]
             /\ Len(up) # 1 /\ i + 1 # 1 /\ (i + 1 = Len(up) => i = Len(up'))
  <2>1. /\ i \in Nat \ {0} /\ i + 1 \in DOMAIN up /\ up'[i] = up[i + 1] /\ i < Len(up)
        /\ Len(up') = Len(up) - 1
    BY <1>1, LineRests
  <2>2. Len(up) \in Nat
    BY DEF Typed, BankTyped
  <2> QED BY <2>1, <2>2
<1>8. LinesTell'
  <2>1. ASSUME NEW i \in DOMAIN up'
        PROVE  /\ up'[i].tag \notin {"reply", "timeout", "busy", "answer"}
               /\ up'[i].tag = "ask" => i = Len(up') /\ inv = <<PlugRead(up'[i].b)>>
    BY <1>7 DEF OnLine, LinesTell
  <2> QED BY <1>1, <2>1 DEF LinesTell
<1>9. HeardAsked'
  <2> SUFFICES ASSUME NEW b \in Blocks, inv = <<PlugRead(b)>>,
                      \A i \in DOMAIN up' : up'[i].tag # "ask"
               PROVE  heard \in {<<>>, <<b>>}
    BY <1>1 DEF HeardAsked
  <2>1. \A i \in DOMAIN up : up[i].tag # "ask"
    <3> SUFFICES ASSUME NEW i \in DOMAIN up, i # 1
                 PROVE  up[i].tag # "ask"
      BY <1>3
    <3>1. up \in Seq(Lines) /\ DOMAIN up = 1..Len(up) /\ Len(up) \in Nat
      BY DEF Typed, LineTyped
    <3>2. i - 1 \in 1..(Len(up) - 1) /\ (i - 1) + 1 = i
      BY <3>1
    <3>3. DOMAIN up' = 1..(Len(up) - 1)
      BY <1>1, <3>1 DEF Lines
    <3> QED BY <1>7, <3>2, <3>3
  <2> QED BY <2>1 DEF OnLine, HeardAsked
<1> QED BY <1>4, <1>5, <1>6, <1>8, <1>9 DEF OnLine

LEMMA AskLine ==
    ASSUME Typed, OnLine, ~crossed', Receive, Head(up).tag = "ask"
    PROVE  OnLine' /\ UNCHANGED <<bank, confirmed>>
<1> DEFINE line == Head(up)
<1>1. /\ port /\ up # <<>> /\ up' = Tail(up) /\ heard' = Append(heard, line.b) /\ heard = <<>>
      /\ UNCHANGED <<pst, answered, held, queue, plug, piece, inv, hist, plugGot, port>>
      /\ UNCHANGED <<pending, bank, confirmed>>
  BY DEF Receive, HearsAsk
<1>2. line = up[1] /\ 1 \in DOMAIN up
  BY <1>1, LineRests
<1>3. Len(up) = 1 /\ inv = <<PlugRead(line.b)>>
  BY <1>2 DEF OnLine, LinesTell
<1> HIDE DEF line
<1>4. up' = <<>> /\ heard' = <<line.b>>
  BY <1>1, <1>3, LineRests, OneLine
<1>5. OneExchange'
  BY <1>1 DEF OnLine, OneExchange
<1>6. OneRequest'
  BY <1>1 DEF OnLine, OneRequest, Cleared
<1>7. LinesTell'
  BY <1>4, NoLines DEF LinesTell
<1>8. HeardAsked'
  <2>1. \A b : inv = <<PlugRead(b)>> => b = line.b
    <3>1. \A b : PlugRead(b).b = b
      BY DEF PlugRead
    <3>2. \A x, y : <<x>> = <<y>> => x = y
      OBVIOUS
    <3> QED BY <1>3, <3>1, <3>2
  <2> QED BY <1>1, <1>4, <2>1 DEF HeardAsked
<1> QED BY <1>1, <1>5, <1>6, <1>7, <1>8 DEF OnLine

LEMMA AnswerLine ==
    ASSUME Typed, OnLine, Receive, Head(up).tag = "answer"
    PROVE  OnLine'
<1> DEFINE line == Head(up)
<1>1. /\ port /\ up # <<>> /\ up' = Tail(up)
      /\ UNCHANGED <<pst, answered, held, queue, plug, piece, inv, hist, plugGot, port>>
      /\ UNCHANGED pending
  BY DEF Receive, HearsAnswer
<1>2. line = up[1] /\ 1 \in DOMAIN up
  BY <1>1, LineRests
<1>3. Len(up) = 1 /\ inv = <<>>
  BY <1>2 DEF OnLine, LinesTell
<1>4. up' = <<>>
  BY <1>1, <1>3, LineRests
<1>5. OneExchange'
  BY <1>1 DEF OnLine, OneExchange
<1>6. OneRequest'
  BY <1>1 DEF OnLine, OneRequest, Cleared
<1>7. LinesTell' /\ HeardAsked'
  BY <1>1, <1>3, <1>4, NoLines, OneLine DEF LinesTell, HeardAsked
<1> QED BY <1>5, <1>6, <1>7 DEF OnLine

LEMMA ReceiveLine ==
    ASSUME Typed, OnLine, ~crossed', Receive
    PROVE  OnLine'
<1>1. Head(up).tag \in {"reply", "timeout", "busy", "ask", "answer"}
  BY DEF Receive
<1> QED BY <1>1, ReplyLine, GaveUpLine, AskLine, AnswerLine

-----------------------------------------------------------------------------
(* What the bank holds.                                                    *)

\* A value the inverter has now, or the write just confirmed, may enter it.
LEMMA Enters ==
    ASSUME Typed, Followed, UNCHANGED hist, NEW b \in Blocks, NEW v, NEW n,
           bank' = [bank EXCEPT ![b] = v], confirmed' = [confirmed EXCEPT ![b] = n],
           \E i \in n..Len(hist[b]) : hist[b][i] = v
    PROVE  Followed'
<1>1. bank \in [Blocks -> Values \cup {None}] /\ confirmed \in [Blocks -> Nat \ {0}]
  BY DEF Typed, BankTyped
<1>2. ASSUME NEW c \in Blocks, bank'[c] # None
      PROVE  \E i \in confirmed'[c]..Len(hist[c]) : hist[c][i] = bank'[c]
  <2>1. CASE c = b
    BY <1>1, <2>1
  <2>2. CASE c # b
    <3>1. bank'[c] = bank[c] /\ confirmed'[c] = confirmed[c]
      BY <1>1, <2>2
    <3> QED BY <1>2, <3>1 DEF Followed
  <2> QED BY <2>1, <2>2
<1> QED BY <1>2 DEF Followed

LEMMA LastHas ==
    ASSUME Typed, NEW b \in Blocks
    PROVE  /\ Len(hist[b]) \in confirmed[b]..Len(hist[b]) /\ confirmed[b] \in Nat
           /\ hist[b][Len(hist[b])] = Last(hist[b])
<1>1. hist[b] \in Seq(Values) /\ hist[b] # <<>> /\ confirmed[b] \in Nat
      /\ confirmed[b] <= Len(hist[b])
  BY DEF Typed, LineTyped, BankTyped
<1>2. Len(hist[b]) \in Nat
  BY <1>1
<1> QED BY <1>1, <1>2 DEF Last

LEMMA FollowedKept ==
    ASSUME Followed, UNCHANGED <<bank, confirmed, hist>>
    PROVE  Followed'
BY DEF Followed

\* The answer to the request on the link.
LEMMA ReplyFollows ==
    ASSUME Typed, OnLine, Followed, Receive, Head(up).tag = "reply"
    PROVE  Followed'
<1> DEFINE line == Head(up)
           b == pending.b
<1>1. /\ up # <<>> /\ UNCHANGED hist /\ Finish(line)
  BY ReplyLine DEF Receive
<1>2. line = up[1] /\ 1 \in DOMAIN up /\ line \in Lines
  BY <1>1, LineRests
<1>3. /\ pending # None /\ line.op = pending.op /\ line.b = b
      /\ line.kind = "ok" /\ line.op = "read" => line.v = Last(hist[line.b])
      /\ line.kind = "ok" /\ line.op = "write" =>
           \E k \in DOMAIN hist[line.b] : hist[line.b][k] = pending.v
  BY <1>2 DEF OnLine, LinesTell
<1>4. pending \in Ours /\ b \in Blocks /\ pending.op \in {"read", "write"}
  <2>1. pending \in Ours
    BY <1>3 DEF Typed, BankTyped
  <2> QED BY <2>1 DEF Ours
<1> HIDE DEF b, line
<1>5. /\ bank \in [Blocks -> Values \cup {None}] /\ confirmed \in [Blocks -> Nat \ {0}]
  BY DEF Typed, BankTyped
<1>6. Settle(pending, line)
  BY <1>1, <1>3 DEF Finish
<1>7. CASE UNCHANGED <<bank, confirmed>>
  BY <1>1, <1>7, FollowedKept
<1>8. CASE /\ pending.op = "read" /\ line.kind = "ok"
           /\ bank' = [bank EXCEPT ![b] = line.v] /\ UNCHANGED confirmed
  <2>1. confirmed' = [confirmed EXCEPT ![b] = confirmed[b]]
    BY <1>4, <1>5, <1>8
  <2>2. \E i \in confirmed[b]..Len(hist[b]) : hist[b][i] = line.v
    BY <1>3, <1>4, <1>8, LastHas
  <2> QED BY <1>1, <1>4, <1>8, <2>1, <2>2, Enters
<1>9. CASE /\ pending.op = "write" /\ line.kind = "ok"
           /\ bank' = [bank EXCEPT ![b] = pending.v]
           /\ confirmed' = [confirmed EXCEPT ![b] = Place(b, pending.v)]
  <2>1. \E k \in DOMAIN hist[b] : hist[b][k] = pending.v
    BY <1>3, <1>9
  <2>2. Place(b, pending.v) \in DOMAIN hist[b] /\ hist[b][Place(b, pending.v)] = pending.v
    BY <2>1 DEF Place
  <2>3. Place(b, pending.v) \in Place(b, pending.v)..Len(hist[b])
    <3>1. hist[b] \in Seq(Values)
      BY <1>4 DEF Typed, LineTyped
    <3>2. DOMAIN hist[b] = 1..Len(hist[b]) /\ Len(hist[b]) \in Nat
      BY <3>1
    <3> QED BY <2>2, <3>2
  <2> QED BY <1>1, <1>4, <1>9, <2>2, <2>3, Enters
<1>10. \/ UNCHANGED <<bank, confirmed>>
       \/ /\ pending.op = "read" /\ line.kind = "ok"
          /\ bank' = [bank EXCEPT ![b] = line.v] /\ UNCHANGED confirmed
       \/ /\ pending.op = "write" /\ line.kind = "ok"
          /\ bank' = [bank EXCEPT ![b] = pending.v]
          /\ confirmed' = [confirmed EXCEPT ![b] = Place(b, pending.v)]
  <2>1. CASE pending.op = "read"
    BY <1>6, <2>1 DEF Settle, b
  <2>2. CASE pending.op = "write"
    <3>1. line.kind = "ok" => \E k \in DOMAIN hist[b] : hist[b][k] = pending.v
      BY <1>3, <2>2
    <3> QED BY <1>6, <2>2, <3>1 DEF Settle, Taken, b
  <2> QED BY <1>4, <2>1, <2>2
<1> QED BY <1>7, <1>8, <1>9, <1>10

\* The plug's conversation.
LEMMA AnswerFollows ==
    ASSUME Typed, OnLine, Followed, Receive, Head(up).tag = "answer"
    PROVE  Followed'
<1> DEFINE line == Head(up)
           b == line.b
<1>1. up # <<>> /\ UNCHANGED <<hist, confirmed>> /\ HearsAnswer(line)
  BY DEF Receive, HearsAnswer
<1>2. line = up[1] /\ 1 \in DOMAIN up
  BY <1>1, LineRests
<1>3. /\ line.op = "read" /\ heard \in {<<>>, <<b>>}
      /\ line.kind = "ok" => line.v = Last(hist[b])
  BY <1>2 DEF OnLine, LinesTell
<1> HIDE DEF b, line
<1>4. CASE line.kind = "ok" /\ heard # <<>>
  <2>1. heard = <<b>> /\ Head(heard) = b
    BY <1>3, <1>4, OneLine
  <2>2. b \in Blocks
    BY <1>4, <2>1, Tails DEF Typed, BankTyped
  <2>3. bank' = [bank EXCEPT ![b] = line.v]
    BY <1>1, <1>4, <2>1 DEF HearsAnswer
  <2>4. confirmed' = [confirmed EXCEPT ![b] = confirmed[b]]
    BY <1>1, <2>2 DEF Typed, BankTyped
  <2>5. \E i \in confirmed[b]..Len(hist[b]) : hist[b][i] = line.v
    BY <1>3, <1>4, <2>2, LastHas
  <2> QED BY <1>1, <2>2, <2>3, <2>4, <2>5, Enters
<1>5. CASE ~(line.kind = "ok" /\ heard # <<>>)
  BY <1>1, <1>5, FollowedKept DEF HearsAnswer
<1> QED BY <1>4, <1>5

LEMMA ReceiveFollows ==
    ASSUME Typed, OnLine, Followed, ~crossed', Receive
    PROVE  Followed'
<1>1. UNCHANGED hist /\ Head(up).tag \in {"reply", "timeout", "busy", "ask", "answer"}
  BY DEF Receive
<1> QED BY <1>1, ReplyFollows, AnswerFollows, GaveUpLine, AskLine, FollowedKept

\* The inverter only adds to what it held.
LEMMA InverterFollows ==
    ASSUME Typed, Followed, UNCHANGED hostVars, InverterReplies \/ InverterSilent
    PROVE  Followed'
<1>1. inv # <<>> /\ hist' \in {hist, Obeyed(Head(inv))}
  BY DEF InverterReplies, InverterSilent
<1> DEFINE f == Head(inv)
<1>2. f \in Ours \cup Plugs
  BY <1>1, Tails DEF Typed, LineTyped
<1>3. CASE UNCHANGED hist
  BY <1>3, FollowedKept DEF hostVars
<1>4. CASE f.op = "write" /\ hist' = [hist EXCEPT ![f.b] = Append(@, f.v)]
  <2>1. ASSUME NEW b \in Blocks, bank[b] # None
        PROVE  \E i \in confirmed[b]..Len(hist'[b]) : hist'[b][i] = bank[b]
    <3>1. PICK i \in confirmed[b]..Len(hist[b]) : hist[b][i] = bank[b]
      BY <2>1 DEF Followed
    <3>2. hist[b] \in Seq(Values) /\ confirmed[b] \in Nat \ {0} /\ hist \in [Blocks -> Seq(Values)]
      BY DEF Typed, LineTyped, BankTyped
    <3>3. CASE hist'[b] = hist[b]
      BY <3>1, <3>3
    <3>4. CASE hist'[b] = Append(hist[b], f.v)
      <4> DEFINE h == hist[b]
                 v == f.v
      <4> HIDE DEF h, v
      <4>1. h \in Seq(Values) /\ confirmed[b] \in Nat \ {0} /\ i \in confirmed[b]..Len(h)
        BY <3>1, <3>2 DEF h
      <4>2. Len(h) \in Nat /\ i \in 1..Len(h)
        BY <4>1
      <4>3. Append(h, v)[i] = h[i] /\ Len(Append(h, v)) = Len(h) + 1
        BY <4>1, <4>2
      <4>4. i \in confirmed[b]..Len(Append(h, v))
        BY <4>1, <4>2, <4>3
      <4> QED BY <3>1, <3>4, <4>3, <4>4 DEF h, v
    <3> QED BY <1>4, <3>2, <3>3, <3>4
  <2> QED BY <2>1 DEF Followed, hostVars
<1> QED BY <1>1, <1>3, <1>4 DEF Obeyed

LEMMA HostFollows ==
    ASSUME Typed, Followed,
           \/ \E c \in Clients : Ask(c) \/ Deadline(c)
           \/ StartExchange \/ LinkTimeout \/ Expire \/ PortFails \/ Reopen \/ Restart \/ Lost
    PROVE  Followed'
<1>1. UNCHANGED hist
  BY DEF Ask, Deadline, proxyVars, StartExchange, LinkTimeout, Expire, PortFails, Reopen,
         Restart, BoardRestarts, Lost
<1>2. UNCHANGED <<bank, confirmed>>
  <2>1. CASE StartExchange
    BY <2>1 DEF StartExchange, Settle, Taken
  <2>2. CASE LinkTimeout \/ PortFails
    BY <2>2, NoAnswer DEF LinkTimeout, PortFails
  <2>3. CASE Lost
    BY <2>3 DEF Lost, hostVars
  <2>4. CASE \E c \in Clients : Ask(c) \/ Deadline(c)
    BY <2>4 DEF Ask, Deadline
  <2>5. CASE Expire \/ Reopen \/ Restart
    BY <2>5 DEF Expire, Reopen, Restart
  <2> QED BY <2>1, <2>2, <2>3, <2>4, <2>5
<1> QED BY <1>1, <1>2, FollowedKept

-----------------------------------------------------------------------------
(* The inductive invariant.                                                *)

LEMMA IInvInit == LoggerInit => IInv
<1> SUFFICES ASSUME LoggerInit PROVE IInv
  OBVIOUS
<1>1. /\ pst = "idle" /\ inv = <<>> /\ piece = None /\ plug.mid = None /\ held = <<>>
      /\ plugGot = None /\ queue = <<>> /\ pending = None /\ port /\ up = <<>> /\ heard = <<>>
  BY DEF LoggerInit, ProxyInit
<1>2. OneExchange
  BY <1>1 DEF OneExchange
<1>3. OneRequest
  BY <1>1, OneLine DEF OneRequest, Cleared
<1>4. LinesTell /\ HeardAsked
  BY <1>1, NoLines, OneLine DEF LinesTell, HeardAsked
<1>5. Followed
  BY DEF LoggerInit, Followed
<1> QED BY <1>2, <1>3, <1>4, <1>5, TypedInit DEF IInv, OnLine

LEMMA CrossedStays ==
    ASSUME LoggerNext, crossed
    PROVE  crossed'
BY DEF LoggerNext, ProxyStep, PlugStarts, PlugEnds, PlugOver, OursOver, SendOurs,
       InverterReplies, InverterSilent, Ask, Deadline, StartExchange, LinkTimeout, Expire,
       PortFails, Reopen, Restart, BoardRestarts, Receive, Reply, GaveUp, HearsAsk,
       HearsAnswer, Lost, proxyVars

LEMMA IInvStep ==
    ASSUME IInv, [LoggerNext]_vars
    PROVE  IInv'
<1>1. Typed'
  BY TypedStep DEF IInv
<1>2. CASE UNCHANGED vars
  <2>1. OnLine => OnLine'
    BY <1>2, OffLine DEF vars, proxyVars, hostVars
  <2>2. Followed => Followed'
    BY <1>2, FollowedKept DEF vars, proxyVars, hostVars
  <2> QED BY <1>1, <1>2, <2>1, <2>2 DEF IInv, vars, proxyVars
<1>3. ASSUME LoggerNext, ~crossed'
      PROVE  OnLine' /\ Followed'
  <2>1. Typed /\ OnLine /\ Followed
    BY <1>3, CrossedStays DEF IInv
  <2>2. CASE Receive
    BY <1>3, <2>1, <2>2, ReceiveLine, ReceiveFollows
  <2>3. CASE Lost
    BY <2>1, <2>3, LostLine, HostFollows
  <2>4. CASE up = <<>> /\ ProxyStep /\ UNCHANGED hostVars
    <3>1. CASE (\E b \in Blocks : PlugStarts(b)) \/ PlugEnds
      <4>1. UNCHANGED hist
        BY <3>1 DEF PlugStarts, PlugEnds
      <4> QED BY <1>3, <2>1, <2>4, <3>1, <4>1, PlugStartsLine, PlugEndsLine, FollowedKept
              DEF hostVars
    <3>2. CASE PlugOver \/ OursOver \/ SendOurs
      <4>1. UNCHANGED hist
        BY <3>2 DEF PlugOver, OursOver, SendOurs
      <4> QED BY <1>3, <2>1, <2>4, <3>2, <4>1, PlugOverLine, OursOverLine, SendOursLine,
                 FollowedKept DEF hostVars
    <3>3. CASE InverterReplies \/ InverterSilent
      BY <1>3, <2>1, <2>4, <3>3, RepliesLine, SilentLine, InverterFollows
    <3> QED BY <2>4, <3>1, <3>2, <3>3 DEF ProxyStep
  <2>5. CASE up = <<>> /\ \E c \in Clients : Ask(c) \/ Deadline(c)
    <3>1. UNCHANGED <<proxyVars, port, pending, heard>>
      BY <2>5 DEF Ask, Deadline
    <3> QED BY <2>1, <2>5, <3>1, OffLine, HostFollows DEF proxyVars
  <2>6. CASE up = <<>> /\ (StartExchange \/ LinkTimeout \/ Expire \/ PortFails \/ Reopen
                           \/ Restart)
    BY <1>3, <2>1, <2>6, StartLine, TimersLine, ExpireLine, ReopenLine, RestartLine, HostFollows
  <2> QED BY <1>3, <2>2, <2>3, <2>4, <2>5, <2>6 DEF LoggerNext
<1> QED BY <1>1, <1>2, <1>3 DEF IInv

\* The shape of what is read through names alone.
LEMMA OwnFollows ==
    ASSUME IInv
    PROVE  EachGetsItsOwn /\ BankFollowsWrites
<1>1. ASSUME ~crossed
      PROVE  /\ plugGot # "ours"
             /\ \A i \in DOMAIN up : up[i].tag = "reply" => up[i].who = "ours"
             /\ pst = "ours" => ~Awaiting("plug") /\ piece = None
             /\ \A i \in 1..Len(inv) - 1 : inv[i].who # "ours"
  <2>1. OneExchange /\ LinesTell
    BY <1>1 DEF IInv, OnLine
  <2>2. inv = <<>> \/ \E x : inv = <<x>>
    BY <2>1 DEF OneExchange, IInv, Typed, LineTyped
  <2>3. ASSUME NEW i \in 1..Len(inv) - 1
        PROVE  inv[i].who # "ours"
    <3>1. Len(inv) = 0 \/ Len(inv) = 1
      BY <2>2, NoLines, OneLine
    <3>2. i \in Int /\ i >= 1 /\ i <= Len(inv) - 1
      BY <2>3, <3>1
    <3> DEFINE n == Len(inv)
    <3> HIDE DEF n
    <3>3. (n = 0 \/ n = 1) /\ i \in Int /\ i >= 1 /\ i <= n - 1
      BY <3>1, <3>2 DEF n
    <3>4. FALSE
      BY <3>3
    <3> QED BY <3>4
  <2>4. pst = "ours" => ~Awaiting("plug") /\ piece = None
    BY <2>1, Whose DEF OneExchange
  <2> QED BY <2>1, <2>3, <2>4 DEF OneExchange, LinesTell
<1> QED BY <1>1 DEF IInv, EachGetsItsOwn, BankFollowsWrites, Followed

(* While no answer was given up that still came, a question of the app never *)
(* cuts into one of the plug's, the reply to it goes to USB and the plug is  *)
(* given the answers to its own questions alone (proxy.h:20-22: "requests    *)
(* from USB go to the inverter only between the plug's exchanges, and their  *)
(* replies go back to USB alone").                                           *)
THEOREM LoggerKeepsEachToItsOwn == LoggerSpec => []EachGetsItsOwn
BY IInvInit, IInvStep, OwnFollows, PTL DEF LoggerSpec

(* While no answer was given up that still came, the emulated bank never     *)
(* holds a value older than the last write the app was told was taken,       *)
(* although replies name no address: the request on the link, the proxy's    *)
(* exchange and the pairer's oldest question are the same one throughout.    *)
THEOREM BankKeepsWrites == LoggerSpec => []BankFollowsWrites
BY IInvInit, IInvStep, OwnFollows, PTL DEF LoggerSpec

------------------------------------------------------------------------------
(* The sum of the parts (MCDevices): each part has its invariant whether it  *)
(* runs or rests, for only its own steps change what it is about.            *)

LEMMA ReaderRests == ReaderInv /\ UNCHANGED readerVars => ReaderInv'
BY ReaderInvStep

LEMMA IngestRests == IngestInv /\ UNCHANGED ingestVars => IngestInv'
BY IngestInvStep

LEMMA StreamRests == FramesInv /\ UNCHANGED streamVars => FramesInv'
BY DEF FramesInv, streamVars, Crossed

LEMMA CaptureRests == CaptureInv /\ UNCHANGED captureVars => CaptureInv'
<1> SUFFICES ASSUME CaptureInv, UNCHANGED captureVars PROVE CaptureInv'
  OBVIOUS
<1>1. /\ run' = run /\ capture' = capture /\ file' = file /\ ports' = ports /\ taps' = taps
      /\ reopening' = reopening /\ unmatched' = unmatched /\ calls' = calls /\ caught' = caught
      /\ asked' = asked /\ forgotten' = forgotten /\ overlapped' = overlapped /\ trouble' = trouble
  BY DEF captureVars
<1>2. CaptureTyped' <=> CaptureTyped
  BY <1>1 DEF CaptureTyped
<1>3. Numbered' <=> Numbered
  BY <1>1 DEF Numbered
<1>4. \A n : StartsOn(n)' <=> StartsOn(n)
  BY <1>1 DEF StartsOn
<1>5. \A n : PortServed(n)' <=> PortServed(n)
  BY <1>1, <1>4 DEF PortServed
<1>6. OneWay' <=> OneWay
  BY <1>1, <1>4, <1>5 DEF OneWay
<1>7. RecordsTell' <=> RecordsTell
  BY <1>1, <1>5 DEF RecordsTell
<1>8. \A k : Frames(k)' = Frames(k)
  BY <1>1 DEF Frames
<1>9. RetryPending' <=> RetryPending
  BY <1>1, <1>8 DEF RetryPending
<1>10. (Closing' <=> Closing) /\ \A c : UnderWay(c)' <=> UnderWay(c)
  BY <1>1 DEF Closing, UnderWay
<1>11. Serially' <=> Serially
  BY <1>1, <1>5, <1>10 DEF Serially
<1>12. (RecordsItsOwn' <=> RecordsItsOwn) /\ (NoFrameLost' <=> NoFrameLost)
  BY <1>1, <1>8 DEF RecordsItsOwn, NoFrameLost
<1> QED BY <1>2, <1>3, <1>6, <1>7, <1>9, <1>11, <1>12 DEF CaptureInv

LEMMA SniffRests == SniffInv /\ UNCHANGED sniffVars => SniffInv'
<1> SUFFICES ASSUME SniffInv, UNCHANGED sniffVars PROVE SniffInv'
  OBVIOUS
<1>1. /\ taken' = taken /\ live' = live /\ kept' = kept /\ view' = view /\ polls' = polls
      /\ mixed' = mixed /\ upsets' = upsets
  BY DEF sniffVars
<1>2. SniffTyped' <=> SniffTyped
  BY <1>1 DEF SniffTyped
<1>3. RecordCount' = RecordCount
  BY <1>1 DEF RecordCount
<1>4. PageBehind' <=> PageBehind
  BY <1>1, <1>3 DEF PageBehind
<1> QED BY <1>1, <1>2, <1>4 DEF SniffInv

LEMMA ReadingsRest == ReadingsInv /\ UNCHANGED readingsVars => ReadingsInv'
<1> SUFFICES ASSUME ReadingsInv, UNCHANGED readingsVars PROVE ReadingsInv'
  OBVIOUS
<1>1. /\ series' = series /\ table' = table /\ clock' = clock /\ setBacks' = setBacks /\ gone' = gone
      /\ exported' = exported /\ browsed' = browsed
  BY DEF readingsVars
<1>2. ExportRows' = ExportRows
  BY <1>1 DEF ExportRows
<1>3. ReadingsTyped' <=> ReadingsTyped
  BY <1>1, <1>2 DEF ReadingsTyped
<1>4. \A x, y : Before(x, y)' <=> Before(x, y)
  BY <1>1 DEF Before
<1>5. \A x, y : Past(x, y)' <=> Past(x, y)
  BY <1>1, <1>4 DEF Past
<1>6. \A id : StillToCome(id)' <=> StillToCome(id)
  BY <1>1, <1>5 DEF StillToCome
<1>7. \A id : PagedPast(id)' <=> PagedPast(id)
  BY <1>1 DEF PagedPast
<1> QED BY <1>1, <1>3, <1>4, <1>6, <1>7 DEF ReadingsInv

DevicesInv ==
    /\ IInv /\ ReaderInv /\ IngestInv
    /\ FramesInv /\ CaptureInv /\ SniffInv /\ ReadingsInv

LEMMA DevicesInvInit == DevicesInit => DevicesInv
BY IInvInit, ReaderInvInit, IngestInvInit, FramesInvInit, CaptureInvInit, SniffInvInit,
   ReadingsInvInit DEF DevicesInit, DevicesInv

LEMMA DevicesInvStep ==
    DevicesInv /\ [DevicesNext]_<<part, vars, readerVars, ingestVars, bytesAndRows>> => DevicesInv'
<1> SUFFICES ASSUME DevicesInv, [DevicesNext]_<<part, vars, readerVars, ingestVars, bytesAndRows>>
             PROVE  DevicesInv'
  OBVIOUS
<1> USE DEF bytesAndRows
<1>1. IInv'
  <2>1. [LoggerNext]_vars
    BY DEF DevicesNext
  <2> QED BY <2>1, IInvStep DEF DevicesInv
<1>2. ReaderInv'
  <2>1. [ReaderNext]_readerVars
    BY DEF DevicesNext
  <2> QED BY <2>1, ReaderInvStep DEF DevicesInv
<1>3. IngestInv'
  <2>1. [IngestNext]_ingestVars
    BY DEF DevicesNext
  <2> QED BY <2>1, IngestInvStep DEF DevicesInv
<1>4. FramesInv'
  <2>1. [StreamNext]_streamVars
    BY DEF DevicesNext
  <2> QED BY <2>1, FramesInvStep, StreamRests DEF DevicesInv
<1>5. CaptureInv'
  <2>1. [CaptureNext]_captureVars
    BY DEF DevicesNext
  <2> QED BY <2>1, CaptureInvStep, CaptureRests DEF DevicesInv
<1>6. SniffInv'
  <2>1. [SniffNext]_sniffVars
    BY DEF DevicesNext
  <2> QED BY <2>1, SniffInvStep, SniffRests DEF DevicesInv
<1>7. ReadingsInv'
  <2>1. [ReadingsNext]_readingsVars
    BY DEF DevicesNext
  <2> QED BY <2>1, ReadingsInvStep, ReadingsRest DEF DevicesInv
<1> QED BY <1>1, <1>2, <1>3, <1>4, <1>5, <1>6, <1>7 DEF DevicesInv

LEMMA DevicesHold == DevicesSpec => []DevicesInv
BY DevicesInvInit, DevicesInvStep, PTL DEF DevicesSpec

(* In every reachable state of the sum each part's state has its type, for   *)
(* any number of blocks, devices, sessions, callers and polls, any limits of *)
(* queues, streams and pages, and any bytes.                                 *)
THEOREM DevicesAreTyped == DevicesSpec => []DevicesTypeOK
<1>1. DevicesInv => DevicesTypeOK
  <2> SUFFICES ASSUME DevicesInv PROVE DevicesTypeOK
    OBVIOUS
  <2>1. TypeOK
    BY TypedIs DEF DevicesInv, IInv
  <2>2. ReaderTypeOK /\ IngestTypeOK
    BY IngestTypes DEF DevicesInv, ReaderInv
  <2>3. CaptureTypeOK /\ SniffTypeOK
    BY CaptureKeeps, SniffKeeps DEF DevicesInv
  <2> QED BY <2>1, <2>2, <2>3 DEF DevicesTypeOK
<1> QED BY <1>1, DevicesHold, PTL

(* Readings are kept on every way from the devices to what is taken out:     *)
(* none of a BMS is stored too soon after another, each one offered waits,   *)
(* was answered or was pushed out, the hourly averages catch up with rows    *)
(* that come late, and a session closes only its own link                    *)
(* (bms-ingest.service.ts:52-124, ingest-client.ts:34-96,                    *)
(* time-series.ts:124-160, bms-session.ts:62-142); the frames found are      *)
(* those of the stream, however it was cut into chunks                       *)
(* (frame-assembler.ts:41-75); a capture holds what its taps caught and      *)
(* leaks no tap, and its page shows it in turn (serial-capture.ts:100-246,   *)
(* DevSerialSniff.tsx:180-233); and what is exported or browsed is whole     *)
(* (telemetry.store.ts:106-163).                                             *)
THEOREM DevicesKeepReadings == DevicesSpec => []ReadingsKept
<1>1. DevicesInv => ReadingsKept
  <2> SUFFICES ASSUME DevicesInv PROVE ReadingsKept
    OBVIOUS
  <2>1. OwnClose
    BY DEF DevicesInv, ReaderInv
  <2>2. StoredApart /\ AccountedFor /\ HourlyCatchesUp
    BY DEF DevicesInv, IngestInv
  <2>3. FramesAreOfTheStream
    BY FramesKeep DEF DevicesInv
  <2>4. CaptureKept /\ ShownInTurn /\ TakenOutWhole
    BY CaptureKeeps, SniffKeeps, ReadingsKeep DEF DevicesInv
  <2> QED BY <2>1, <2>2, <2>3, <2>4 DEF ReadingsKept
<1> QED BY <1>1, DevicesHold, PTL
==============================================================================
