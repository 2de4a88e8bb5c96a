------------------------ MODULE SettingsServiceProofs ------------------------
(* Proofs about SettingsService, for any number of calls, of settings'       *)
(* values and of changes on the panel.                                       *)
EXTENDS SettingsService, DataInduction

USE SettingsConstants

\* The shared read and the read-back that a call may start.
Plain(o)      == <<o, "plain">>
AfterWrite(o) == <<o, "written">>

Served(r)    == read[r].at \in {"look", "store", "settled", "unrecorded"}
Recording(r) == read[r].at \in {"look", "store"}

IsRead(task, r)  == task.task = "read" /\ task.read = r
IsWrite(task, o) == task.task = "write" /\ task.op = o
ReadAt(i, r)     == IsRead(queue[i], r)
WriteAt(i, o)    == IsWrite(queue[i], o)

(* The inductive invariant, part by part.                                  *)

DeviceInv == \A s \in Settings : device[s] # <<>>

\* How far a call has come, and the reads it may have started.
CallInv ==
    \A o \in Ops :
      /\ pc[o] = "idle" => /\ kind[o] = "read" /\ outcome[o] = "none"
                           /\ read[Plain(o)].at = "none"
      /\ pc[o] \in {"idle", "reading", "writing"} => read[AfterWrite(o)].at = "none"
      /\ kind[o] = "read" => changes[o] = Nothing
      /\ pc[o] \in {"writing", "rereading"} => kind[o] = "apply"
      /\ pc[o] \in {"reading", "rereading"} => awaits[o] \in ReadIds
      /\ pc[o] = "rereading" => awaits[o] = AfterWrite(o)

\* A queue that holds exactly the reads and writes that are under way: the
\* shared read is the last of its reads, and only the first can be a plain one.
Lined(q, reads, writers, shared) ==
    /\ \A i \in DOMAIN q :
         /\ q[i].task = "read" => q[i].read \in reads
         /\ q[i].task = "write" => q[i].op \in writers
    /\ \A i, j \in DOMAIN q :
         /\ \A r : IsRead(q[i], r) /\ IsRead(q[j], r) => i = j
         /\ \A o : IsWrite(q[i], o) /\ IsWrite(q[j], o) => i = j
    /\ \A r \in reads : \E i \in DOMAIN q : IsRead(q[i], r)
    /\ \A i \in DOMAIN q : q[i].task = "read" =>
         \E j \in DOMAIN q : i <= j /\ IsRead(q[j], shared)
    /\ \A i, j \in DOMAIN q :
         i < j /\ q[i].task = "read" /\ q[j].task = "read" => Written(q[j].read)

QueueInv ==
    Lined(queue, {r \in ReadIds : OnLink(r)}, {o \in Ops : pc[o] = "writing"}, inFlight)

\* Nothing was read later than the last read.
TimeInv ==
    /\ cache.readAt <= clock
    /\ \A r \in ReadIds : read[r].readAt <= clock
    /\ \A i \in DOMAIN rows : rows[i].readAt <= clock

Base == TypeOK /\ DeviceInv /\ CallInv /\ QueueInv /\ TimeInv

-----------------------------------------------------------------------------
(* Facts about the operators.                                              *)

\* The two reads a call may start.
LEMMA ReadNames ==
    /\ \A o \in Ops : /\ Plain(o) \in ReadIds /\ AfterWrite(o) \in ReadIds
                      /\ ~Written(Plain(o)) /\ Written(AfterWrite(o))
                      /\ Plain(o) # None /\ AfterWrite(o) # None
    /\ \A r \in ReadIds : r # None
    /\ \A o, p \in Ops : /\ Plain(o) # AfterWrite(p)
                         /\ Plain(o) = Plain(p) => o = p
                         /\ AfterWrite(o) = AfterWrite(p) => o = p
BY DEF ReadIds, Written, Plain, AfterWrite

LEMMA Readings ==
    /\ Nothing \in Reading
    /\ \A ch \in Changes : ch \in Reading /\ ch # Nothing
    /\ \A values \in Reading, ch \in Reading : Merge(values, ch) \in Reading
BY DEF Nothing, Reading, Settings, Missing, Merge

\* What the queue becomes when its first task has been served.
LEMMA QueueTail ==
    ASSUME TypeOK, queue # <<>>
    PROVE  /\ Tail(queue) \in Seq(LinkTask) /\ Head(queue) = queue[1]
           /\ Head(queue) \in LinkTask
           /\ Len(queue) \in Nat \ {0} /\ Len(Tail(queue)) = Len(queue) - 1
           /\ DOMAIN queue = 1..Len(queue) /\ DOMAIN Tail(queue) = 1..(Len(queue) - 1)
           /\ \A i \in 1..(Len(queue) - 1) : Tail(queue)[i] = queue[i + 1]
BY DEF TypeOK

\* What the queue becomes when a task is chained.
LEMMA QueueAppend ==
    ASSUME TypeOK, NEW x \in LinkTask
    PROVE  /\ Append(queue, x) \in Seq(LinkTask)
           /\ Len(queue) \in Nat /\ Len(Append(queue, x)) = Len(queue) + 1
           /\ DOMAIN queue = 1..Len(queue)
           /\ DOMAIN Append(queue, x) = 1..(Len(queue) + 1)
           /\ \A i \in 1..Len(queue) : Append(queue, x)[i] = queue[i]
           /\ Append(queue, x)[Len(queue) + 1] = x
BY DEF TypeOK

LEMMA LinkTasks ==
    /\ \A r \in ReadIds : [task |-> "read", read |-> r] \in LinkTask
    /\ \A o \in Ops : [task |-> "write", op |-> o] \in LinkTask
    /\ \A x \in LinkTask : /\ x.task = "read" => x.read \in ReadIds
                           /\ x.task = "write" => x.op \in Ops
                           /\ x.task \in {"read", "write"}
BY DEF LinkTask

\* The task being served.
LEMMA FirstTask ==
    ASSUME TypeOK, NEW task, Serving(task)
    PROVE  /\ 1 \in DOMAIN queue /\ queue[1] = Head(queue) /\ queue[1].task = task
           /\ task = "read" => Head(queue).read \in ReadIds
           /\ task = "write" => Head(queue).op \in Ops
BY QueueTail, LinkTasks DEF Serving

\* Serving the first task does not change when another is chained.
LEMMA ServingAppend ==
    ASSUME TypeOK, NEW x \in LinkTask, queue # <<>>
    PROVE  Append(queue, x) # <<>> /\ Head(Append(queue, x)) = Head(queue)
<1> DEFINE a == Append(queue, x)
<1>1. a \in Seq(LinkTask) /\ Len(a) # 0 /\ a[1] = queue[1] /\ queue[1] = Head(queue)
  BY QueueAppend, QueueTail
<1> HIDE DEF a
<1>2. a # <<>> /\ Head(a) = a[1]
  BY <1>1
<1> QED BY <1>1, <1>2 DEF a

-----------------------------------------------------------------------------
(* The shape of the state.                                                 *)

ReadRecord(n) ==
    [at : {"none", "link", "look", "store", "settled", "unrecorded", "failed"},
     values : Reading, readAt : Nat, row : 0..n]

LEMMA ReadTypes ==
    ASSUME TypeOK
    PROVE  Len(rows) \in Nat /\ read \in [ReadIds -> ReadRecord(Len(rows))]
<1>1. Len(rows) \in Nat
  BY DEF TypeOK
<1>2. read \in [ReadIds -> ReadRecord(Len(rows))]
  BY DEF TypeOK, ReadRecord
<1> QED BY <1>1, <1>2

\* One read's state changes.
LEMMA ReadMoves ==
    ASSUME NEW n \in Nat, NEW m \in Nat, n <= m, NEW r \in ReadIds,
           read \in [ReadIds -> ReadRecord(n)],
           NEW x \in ReadRecord(m), read' = [read EXCEPT ![r] = x]
    PROVE  read' \in [ReadIds -> ReadRecord(m)]
<1>1. \A q \in ReadIds : read[q] \in ReadRecord(m)
  BY DEF ReadRecord
<1> QED BY <1>1


\* A call that shares a read or starts one: what it leaves of the types.
LEMMA RefreshTypes ==
    ASSUME Base, NEW o \in Ops, pc[o] = "idle", Refresh(o), UNCHANGED rows
    PROVE  /\ pc' = [pc EXCEPT ![o] = "reading"]
           /\ awaits' \in [Ops -> ReadIds \cup {<<None, "plain">>}]
           /\ read' \in [ReadIds -> ReadRecord(Len(rows))]
           /\ inFlight' \in NoOrRead /\ (inFlight' # None => Pending(inFlight)')
           /\ queue' \in Seq(LinkTask)
           /\ queue' = queue \/ queue' = Append(queue, [task |-> "read", read |-> Plain(o)])
<1> USE DEF Base, TypeOK, NoOrRead
<1> DEFINE r == Plain(o)
<1>1. pc' = [pc EXCEPT ![o] = "reading"]
  BY DEF Refresh
<1>2. CASE inFlight # None
  <2>1. awaits' = [awaits EXCEPT ![o] = inFlight] /\ UNCHANGED <<read, inFlight, queue>>
    BY <1>2 DEF Refresh
  <2>2. read' \in [ReadIds -> ReadRecord(Len(rows))]
    BY <2>1 DEF ReadRecord
  <2> QED BY <1>1, <1>2, <2>1, <2>2 DEF Pending
<1>3. CASE inFlight = None
  <2>1. /\ read' = [read EXCEPT ![r] = [@ EXCEPT !.at = "link"]] /\ inFlight' = r
        /\ awaits' = [awaits EXCEPT ![o] = r]
        /\ queue' = Append(queue, [task |-> "read", read |-> r])
    BY <1>3 DEF Refresh, StartRead, Plain
  <2>2. r \in ReadIds /\ read[r] \in ReadRecord(Len(rows)) /\ Len(rows) \in Nat
    BY ReadNames, ReadTypes
  <2>3. [read[r] EXCEPT !.at = "link"] \in ReadRecord(Len(rows))
    BY <2>2 DEF ReadRecord
  <2>4. read' \in [ReadIds -> ReadRecord(Len(rows))]
    BY <2>1, <2>2, <2>3 DEF ReadRecord
  <2>5. read'[r].at = "link"
    BY <2>1, <2>2
  <2>6. queue' \in Seq(LinkTask)
    BY <2>1, <2>2, LinkTasks, QueueAppend
  <2> QED BY <1>1, <2>1, <2>2, <2>4, <2>5, <2>6 DEF Pending
<1> QED BY <1>2, <1>3

\* A longer queue is served as before.
LEMMA ServedAsBefore ==
    ASSUME TypeOK, NEW x \in LinkTask, queue' = queue \/ queue' = Append(queue, x),
           UNCHANGED written,
           \A o \in Ops : Serving("write") /\ Head(queue).op = o => changes'[o] = changes[o]
    PROVE  IF Serving("write")'
           THEN \A s \in written' : changes'[Head(queue').op][s] # Missing
           ELSE written' = {}
<1>1. CASE queue # <<>>
  <2>1. queue' # <<>> /\ Head(queue') = Head(queue)
    BY <1>1, ServingAppend
  <2>2. Serving("write")' <=> Serving("write")
    BY <1>1, <2>1 DEF Serving
  <2>3. CASE Serving("write")
    <3>1. Head(queue).op \in Ops /\ changes'[Head(queue).op] = changes[Head(queue).op]
      BY <2>3, FirstTask
    <3>2. \A s \in written : changes[Head(queue).op][s] # Missing
      BY <2>3 DEF TypeOK
    <3> QED BY <2>1, <2>2, <2>3, <3>1, <3>2
  <2>4. CASE ~Serving("write")
    BY <2>2, <2>4 DEF TypeOK
  <2> QED BY <2>3, <2>4
<1>2. CASE queue = <<>>
  BY <1>2 DEF TypeOK, Serving
<1> QED BY <1>1, <1>2

\* A call that ends, or whose write is chained.
LEMMA CheckTypes ==
    ASSUME Base, NEW o \in Ops, NEW values \in Reading, NEW ch \in Reading,
           CheckAndWrite(o, values, ch)
    PROVE  /\ pc' \in [Ops -> {"idle", "reading", "writing", "rereading", "done"}]
           /\ outcome' \in [Ops -> {"none", "ok", "failed", "rule"}]
           /\ result' \in [Ops -> Reading]
           /\ queue' \in Seq(LinkTask)
           /\ queue' = queue \/ queue' = Append(queue, [task |-> "write", op |-> o])
<1>1. CASE Finish(o, "rule", Nothing) /\ UNCHANGED queue
  BY <1>1, Readings DEF Finish, Base, TypeOK
<1>2. CASE /\ pc' = [pc EXCEPT ![o] = "writing"] /\ UNCHANGED <<outcome, result>>
           /\ queue' = Append(queue, [task |-> "write", op |-> o])
  BY <1>2, LinkTasks, QueueAppend DEF Base, TypeOK
<1> QED BY <1>1, <1>2 DEF CheckAndWrite

LEMMA FinishTypes ==
    ASSUME TypeOK, NEW o \in Ops, NEW values \in Reading,
           NEW how \in {"none", "ok", "failed", "rule"}, Finish(o, how, values)
    PROVE  /\ pc' \in [Ops -> {"idle", "reading", "writing", "rereading", "done"}]
           /\ outcome' \in [Ops -> {"none", "ok", "failed", "rule"}]
           /\ result' \in [Ops -> Reading]
BY DEF Finish, TypeOK

\* The types a step of the calls may touch, and those it leaves alone.
LEMMA CallTypeStep ==
    ASSUME Base, NEW o \in Ops,
           Get(o) \/ ForcedRefresh(o) \/ Resume(o) \/ \E ch \in Changes : Apply(o, ch)
    PROVE  TypeOK'
<1> USE DEF Base, TypeOK
<1>1. \A x \in Ops : Serving("write") /\ Head(queue).op = x => pc[x] = "writing"
  BY FirstTask DEF QueueInv, Lined
<1>2. [task |-> "read", read |-> Plain(o)] \in LinkTask
      /\ [task |-> "write", op |-> o] \in LinkTask
  BY LinkTasks, ReadNames
<1>3. ASSUME pc[o] = "idle", Refresh(o),
             UNCHANGED <<result, outcome, cache, stale, written, device, clock, rows>>,
             kind' \in [Ops -> {"read", "apply"}], changes' \in [Ops -> Reading],
             \A x \in Ops : x # o => changes'[x] = changes[x]
      PROVE  TypeOK'
  <2>1. /\ pc' = [pc EXCEPT ![o] = "reading"]
        /\ awaits' \in [Ops -> ReadIds \cup {<<None, "plain">>}]
        /\ read' \in [ReadIds -> ReadRecord(Len(rows))]
        /\ inFlight' \in NoOrRead /\ (inFlight' # None => Pending(inFlight)')
        /\ queue' \in Seq(LinkTask)
        /\ queue' = queue \/ queue' = Append(queue, [task |-> "read", read |-> Plain(o)])
    BY <1>3, RefreshTypes
  <2>2. IF Serving("write")'
        THEN \A s \in written' : changes'[Head(queue').op][s] # Missing
        ELSE written' = {}
    BY <1>1, <1>2, <1>3, <2>1, ServedAsBefore
  <2>3. pc' \in [Ops -> {"idle", "reading", "writing", "rereading", "done"}]
    BY <2>1
  <2> QED BY <1>3, <2>1, <2>2, <2>3 DEF ReadRecord
<1>4. ASSUME pc' \in [Ops -> {"idle", "reading", "writing", "rereading", "done"}],
             outcome' \in [Ops -> {"none", "ok", "failed", "rule"}],
             result' \in [Ops -> Reading], queue' \in Seq(LinkTask),
             queue' = queue \/ queue' = Append(queue, [task |-> "write", op |-> o]),
             pc[o] # "writing",
             kind' \in [Ops -> {"read", "apply"}], changes' \in [Ops -> Reading],
             \A x \in Ops : x # o => changes'[x] = changes[x],
             UNCHANGED <<awaits, readVars, written, device, clock, rows>>
      PROVE  TypeOK'
  <2>1. IF Serving("write")'
        THEN \A s \in written' : changes'[Head(queue').op][s] # Missing
        ELSE written' = {}
    BY <1>1, <1>2, <1>4, ServedAsBefore
  <2> QED BY <1>4, <2>1 DEF readVars, Pending
<1>5. CASE Get(o)
  <2>1. CASE stale
    BY <1>3, <1>5, <2>1 DEF Get
  <2>2. CASE ~stale
    BY <1>4, <1>5, <2>2, FinishTypes DEF Get, readVars
  <2> QED BY <2>1, <2>2
<1>6. CASE ForcedRefresh(o)
  BY <1>3, <1>6 DEF ForcedRefresh
<1>7. ASSUME NEW ch \in Changes, Apply(o, ch)
      PROVE  TypeOK'
  <2>1. /\ pc[o] = "idle" /\ ch \in Reading
        /\ kind' \in [Ops -> {"read", "apply"}] /\ changes' \in [Ops -> Reading]
        /\ \A x \in Ops : x # o => changes'[x] = changes[x]
    BY <1>7, Readings DEF Apply
  <2>2. CASE stale
    BY <1>3, <1>7, <2>1, <2>2 DEF Apply
  <2>3. CASE ~stale
    BY <1>4, <1>7, <2>1, <2>3, CheckTypes DEF Apply, readVars
  <2> QED BY <2>2, <2>3
<1>8. CASE Resume(o)
  <2>1. awaits[o] \in ReadIds /\ pc[o] # "writing"
    BY <1>8 DEF Resume, CallInv
  <2>2. read[awaits[o]].values \in Reading
    BY <2>1
  <2>3. CASE \E how \in {"ok", "failed"}, values \in Reading :
               Finish(o, how, values) /\ UNCHANGED queue
    <3>1. PICK how \in {"ok", "failed"}, values \in Reading :
            Finish(o, how, values) /\ UNCHANGED queue
      BY <2>3
    <3>2. /\ pc' \in [Ops -> {"idle", "reading", "writing", "rereading", "done"}]
          /\ outcome' \in [Ops -> {"none", "ok", "failed", "rule"}]
          /\ result' \in [Ops -> Reading]
      BY <3>1 DEF Finish
    <3> QED BY <1>4, <1>8, <2>1, <3>1, <3>2 DEF Resume
  <2>4. CASE CheckAndWrite(o, read[awaits[o]].values, changes[o])
    BY <1>4, <1>8, <2>1, <2>2, <2>4, CheckTypes DEF Resume
  <2> QED BY <1>8, <2>2, <2>3, <2>4, Readings DEF Resume
<1> QED BY <1>5, <1>6, <1>7, <1>8

\* The reads that end or move on: what they leave of the types.
LEMMA ReadMoveTypes ==
    ASSUME TypeOK, NEW r \in ReadIds, NEW x \in ReadRecord(Len(rows)),
           x.at \in {"link", "look", "store"} \/ inFlight' # r,
           inFlight' = inFlight \/ inFlight' = None \/ inFlight' = r,
           read' = [read EXCEPT ![r] = x],
           Len(rows') \in Nat, Len(rows) <= Len(rows')
    PROVE  /\ read' \in [ReadIds -> ReadRecord(Len(rows'))]
           /\ inFlight' \in NoOrRead /\ (inFlight' # None => Pending(inFlight)')
<1>1. Len(rows) \in Nat /\ read \in [ReadIds -> ReadRecord(Len(rows))]
  BY ReadTypes
<1>2. x \in ReadRecord(Len(rows'))
  BY <1>1 DEF ReadRecord
<1>3. read' \in [ReadIds -> ReadRecord(Len(rows'))]
  BY <1>1, <1>2, ReadMoves
<1>4. read'[r] = x /\ \A q \in ReadIds : q # r => read'[q] = read[q]
  BY <1>1
<1>5. inFlight' \in NoOrRead
  BY DEF TypeOK, NoOrRead
<1>6. ASSUME inFlight' # None PROVE Pending(inFlight)'
  <2>1. CASE inFlight' = r
    BY <1>4, <2>1 DEF Pending
  <2>2. CASE inFlight' # r
    <3>1. inFlight' = inFlight /\ inFlight \in ReadIds
      BY <1>6, <2>2 DEF TypeOK, NoOrRead
    <3> QED BY <1>4, <1>6, <2>2, <3>1 DEF TypeOK, Pending
  <2> QED BY <2>1, <2>2
<1> QED BY <1>3, <1>5, <1>6

\* One value of a setting and who wrote it.
Entry == [value : Values, by : Ops \cup {Panel}]

\* A setting gets one more value.
LEMMA DeviceGrows ==
    ASSUME TypeOK, DeviceInv, NEW s \in Settings, NEW e \in Entry,
           device' = [device EXCEPT ![s] = Append(@, e)]
    PROVE  device' \in [Settings -> Seq(Entry)] /\ DeviceInv'
<1>1. device \in [Settings -> Seq(Entry)]
  BY DEF TypeOK, Entry
<1>2. \A z \in Settings : Append(device[z], e) \in Seq(Entry) /\ Append(device[z], e) # <<>>
  BY <1>1
<1> QED BY <1>1, <1>2 DEF DeviceInv

LEMMA LinkTypeStep ==
    ASSUME Base, LinkServes
    PROVE  TypeOK' /\ DeviceInv'
<1>. TypeOK /\ DeviceInv
  BY DEF Base
<1>0. /\ Len(rows) \in Nat /\ read \in [ReadIds -> ReadRecord(Len(rows))]
      /\ \A s \in Settings : Held(s) \in Values
  <2>1. \A s \in Settings : Held(s) \in Values
    <3> TAKE s \in Settings
    <3>1. device[s] \in Seq(Entry) /\ device[s] # <<>>
      BY DEF TypeOK, DeviceInv, Entry
    <3>2. device[s][Len(device[s])] \in Entry
      BY <3>1
    <3> QED BY <3>2 DEF Held, Entry
  <2> QED BY <2>1, ReadTypes
\* The next task starts with nothing written.
<1>1. ASSUME Serving("read") \/ Serving("write"), queue' = Tail(queue), written' = {}
      PROVE  /\ queue' \in Seq(LinkTask)
             /\ IF Serving("write")'
                THEN \A s \in written' : changes'[Head(queue').op][s] # Missing
                ELSE written' = {}
  BY <1>1, QueueTail DEF Serving
<1>7. rows' = rows => Len(rows') \in Nat /\ Len(rows) <= Len(rows')
  BY <1>0
<1>2. CASE ReadServed
  <2> DEFINE r == Head(queue).read
  <2>1. PICK lost \in Garbled : ReadServed!2!(lost)
    BY <1>2 DEF ReadServed
  <2> DEFINE values == [s \in Settings |-> IF s \in lost THEN Missing ELSE Held(s)]
             x == [read[r] EXCEPT !.at = "look", !.values = values, !.readAt = clock + 1]
  <2>2. r \in ReadIds /\ written = {}
    BY <1>2, FirstTask DEF ReadServed, Serving, TypeOK
  <2>3. values \in Reading
    BY <1>0 DEF Reading
  <2>4. read' = [read EXCEPT ![r] = x] /\ cache' = [values |-> values, readAt |-> clock + 1]
    BY <2>1
  <2>5. x \in ReadRecord(Len(rows)) /\ x.at = "look"
    <3>1. read[r] \in ReadRecord(Len(rows)) /\ clock + 1 \in Nat
      BY <1>0, <2>2 DEF TypeOK
    <3> HIDE DEF values
    <3> QED BY <2>3, <3>1 DEF ReadRecord
  <2>6. cache' \in [values : Reading, readAt : Nat]
    <3>1. clock + 1 \in Nat
      BY DEF TypeOK
    <3> HIDE DEF values
    <3> QED BY <2>3, <2>4, <3>1
  <2>7. /\ UNCHANGED <<callVars, inFlight, written, device, rows>> /\ clock' \in Nat
        /\ queue' = Tail(queue) /\ stale' = FALSE
    BY <1>2 DEF ReadServed, TypeOK
  <2> HIDE DEF x, r, values
  <2>8. /\ read' \in [ReadIds -> ReadRecord(Len(rows'))]
        /\ inFlight' \in NoOrRead /\ (inFlight' # None => Pending(inFlight)')
    BY <1>7, <2>2, <2>4, <2>5, <2>7, ReadMoveTypes
  <2>9. /\ queue' \in Seq(LinkTask)
        /\ IF Serving("write")'
           THEN \A s \in written' : changes'[Head(queue').op][s] # Missing
           ELSE written' = {}
    BY <1>1, <1>2, <2>2, <2>7 DEF ReadServed
  <2> QED BY <2>6, <2>7, <2>8, <2>9 DEF callVars, ReadRecord, TypeOK, DeviceInv
<1>3. CASE ReadFails
  <2> DEFINE r == Head(queue).read
             x == [read[r] EXCEPT !.at = "failed"]
  <2>1. r \in ReadIds /\ written = {}
    BY <1>3, FirstTask DEF ReadFails, Serving, TypeOK
  <2>2. read' = [read EXCEPT ![r] = x] /\ inFlight' = IF inFlight = r THEN None ELSE inFlight
    BY <1>3 DEF ReadFails
  <2>3. x \in ReadRecord(Len(rows))
    <3>1. read[r] \in ReadRecord(Len(rows))
      BY <1>0, <2>1
    <3> QED BY <3>1 DEF ReadRecord
  <2>4. inFlight' # r
    BY <2>1, <2>2, ReadNames
  <2>5. UNCHANGED <<callVars, cache, stale, written, device, clock, rows>>
        /\ queue' = Tail(queue)
    BY <1>3 DEF ReadFails
  <2> HIDE DEF x, r
  <2>6. /\ read' \in [ReadIds -> ReadRecord(Len(rows'))]
        /\ inFlight' \in NoOrRead /\ (inFlight' # None => Pending(inFlight)')
    BY <1>7, <2>1, <2>2, <2>3, <2>4, <2>5, ReadMoveTypes
  <2>7. /\ queue' \in Seq(LinkTask)
        /\ IF Serving("write")'
           THEN \A s \in written' : changes'[Head(queue').op][s] # Missing
           ELSE written' = {}
    BY <1>1, <1>3, <2>1, <2>5 DEF ReadFails
  <2> QED BY <2>5, <2>6, <2>7 DEF callVars, ReadRecord, TypeOK, DeviceInv
<1>4. CASE WriteOne
  <2> DEFINE o == Head(queue).op
  <2>1. o \in Ops
    BY <1>4, FirstTask DEF WriteOne
  <2>2. PICK s \in Settings :
          /\ changes[o][s] # Missing /\ written' = written \cup {s}
          /\ device' = [device EXCEPT ![s] = Append(@, [value |-> changes[o][s], by |-> o])]
    BY <1>4 DEF WriteOne
  <2>3. changes[o][s] \in Values
    BY <2>1, <2>2 DEF Reading, TypeOK
  <2>4. [value |-> changes[o][s], by |-> o] \in Entry
    BY <2>1, <2>3 DEF Entry
  <2>6. device' \in [Settings -> Seq(Entry)] /\ DeviceInv'
    BY <2>2, <2>4, DeviceGrows
  <2>7. UNCHANGED <<callVars, readVars, queue, clock, rows>> /\ Serving("write")
    BY <1>4 DEF WriteOne
  <2>8. Serving("write")' /\ \A z \in written' : changes'[Head(queue').op][z] # Missing
    BY <2>2, <2>7 DEF callVars, Serving, TypeOK
  <2> QED BY <2>6, <2>7, <2>8 DEF callVars, readVars, Pending, TypeOK, Entry
<1>5. CASE WriteServed
  <2> DEFINE o == Head(queue).op
             r == AfterWrite(o)
             x == [read[r] EXCEPT !.at = "link"]
  <2>1. o \in Ops /\ r \in ReadIds
    BY <1>5, FirstTask, ReadNames DEF WriteServed
  <2>2. /\ pc' = [pc EXCEPT ![o] = "rereading"]
        /\ read' = [read EXCEPT ![r] = x] /\ inFlight' = r
        /\ awaits' = [awaits EXCEPT ![o] = r] /\ written' = {}
        /\ queue' = Append(Tail(queue), [task |-> "read", read |-> r])
        /\ UNCHANGED <<kind, changes, result, outcome, cache, stale, device, clock, rows>>
    BY <1>5 DEF WriteServed, StartRead, AfterWrite
  <2>3. x \in ReadRecord(Len(rows)) /\ x.at = "link"
    <3>1. read[r] \in ReadRecord(Len(rows))
      BY <1>0, <2>1
    <3> QED BY <3>1 DEF ReadRecord
  <2>4. queue' \in Seq(LinkTask)
    <3>1. Tail(queue) \in Seq(LinkTask) /\ [task |-> "read", read |-> r] \in LinkTask
      BY <1>5, <2>1, QueueTail, LinkTasks DEF WriteServed, Serving
    <3> QED BY <2>2, <3>1
  <2> HIDE DEF x, r
  <2>5. /\ read' \in [ReadIds -> ReadRecord(Len(rows'))]
        /\ inFlight' \in NoOrRead /\ (inFlight' # None => Pending(inFlight)')
    BY <1>7, <2>1, <2>2, <2>3, ReadMoveTypes
  <2> QED BY <2>1, <2>2, <2>4, <2>5 DEF ReadRecord, TypeOK, DeviceInv, Serving
<1>6. CASE WriteFails
  <2> DEFINE o == Head(queue).op
  <2>1. o \in Ops
    BY <1>6, FirstTask DEF WriteFails
  <2>2. /\ pc' \in [Ops -> {"idle", "reading", "writing", "rereading", "done"}]
        /\ outcome' \in [Ops -> {"none", "ok", "failed", "rule"}]
        /\ result' \in [Ops -> Reading]
    BY <1>6, <2>1, FinishTypes, Readings DEF WriteFails
  <2>3. /\ queue' \in Seq(LinkTask)
        /\ IF Serving("write")'
           THEN \A s \in written' : changes'[Head(queue').op][s] # Missing
           ELSE written' = {}
    BY <1>1, <1>6 DEF WriteFails
  <2> QED BY <1>6, <2>2, <2>3 DEF WriteFails, readVars, Pending, TypeOK, DeviceInv
<1> QED BY <1>2, <1>3, <1>4, <1>5, <1>6 DEF LinkServes

Row == [values : Reading, readAt : Nat, lastSeenAt : Nat]

LEMMA RowTypes ==
    ASSUME TypeOK
    PROVE  /\ rows \in Seq(Row) /\ Len(rows) \in Nat /\ DOMAIN rows = 1..Len(rows)
           /\ \A i \in DOMAIN rows : rows[i] \in Row /\ rows[i].readAt \in Nat
<1>1. rows \in Seq(Row)
  BY DEF TypeOK, Row
<1>2. \A i \in DOMAIN rows : rows[i] \in Row
  BY <1>1
<1> QED BY <1>1, <1>2 DEF Row

\* A sequence after one of its elements is replaced, or one is added.
LEMMA OneElement ==
    ASSUME NEW S, NEW l \in Seq(S), NEW y \in S
    PROVE  /\ Append(l, y) \in Seq(S) /\ Len(Append(l, y)) = Len(l) + 1
           /\ Append(l, y)[Len(l) + 1] = y
           /\ DOMAIN Append(l, y) = 1..(Len(l) + 1)
           /\ \A i \in DOMAIN l : Append(l, y)[i] = l[i]
           /\ \A k \in DOMAIN l :
                /\ [l EXCEPT ![k] = y] \in Seq(S)
                /\ Len([l EXCEPT ![k] = y]) = Len(l)
                /\ DOMAIN [l EXCEPT ![k] = y] = DOMAIN l
OBVIOUS

\* A table with rows has a latest one.
LEMMA LatestRow ==
    ASSUME TypeOK, TimeInv, rows # <<>>
    PROVE  /\ Latest \in DOMAIN rows /\ DOMAIN rows = 1..Len(rows)
           /\ \A j \in DOMAIN rows : rows[j].readAt <= rows[Latest].readAt
<1> DEFINE S == {rows[i].readAt : i \in DOMAIN rows}
<1>1. rows \in Seq(Row) /\ clock \in Nat /\ Len(rows) \in Nat
  BY RowTypes DEF TypeOK
<1>2. \A i \in DOMAIN rows : rows[i].readAt \in Nat /\ rows[i].readAt <= clock
  BY RowTypes DEF TimeInv
<1>3. 1 \in DOMAIN rows /\ DOMAIN rows = 1..Len(rows)
  BY <1>1
<1>4. S \in SUBSET Nat /\ S # {} /\ \A n \in S : n <= clock
  BY <1>2, <1>3
<1>5. PICK n \in S : \A m \in S : m <= n
  <2> HIDE DEF S
  <2> QED BY <1>1, <1>4, GreatestNumber
<1>6. \E i \in DOMAIN rows : \A j \in DOMAIN rows : rows[j].readAt <= rows[i].readAt
  BY <1>5
<1> QED BY <1>3, <1>6 DEF Latest

\* What a recorded read leaves in the table: a row of its own, or the row it
\* looked up seen again.
LEMMA RowsStored ==
    ASSUME TypeOK, NEW r \in ReadIds, Store(r)
    PROVE  /\ rows' \in Seq(Row)
           /\ Len(rows) \in Nat /\ DOMAIN rows = 1..Len(rows)
           /\ \/ /\ ~Written(r) /\ read[r].row \in DOMAIN rows
                 /\ rows[read[r].row].values = read[r].values
                 /\ Len(rows') = Len(rows) /\ DOMAIN rows' = DOMAIN rows
                 /\ \A i \in DOMAIN rows : /\ rows'[i].values = rows[i].values
                                           /\ rows'[i].readAt = rows[i].readAt
              \/ /\ Len(rows') = Len(rows) + 1 /\ DOMAIN rows' = 1..(Len(rows) + 1)
                 /\ \A i \in DOMAIN rows : rows'[i] = rows[i]
                 /\ rows'[Len(rows) + 1].values = read[r].values
                 /\ rows'[Len(rows) + 1].readAt = read[r].readAt
<1> DEFINE row == read[r].row
           new == [values |-> read[r].values, readAt |-> read[r].readAt,
                   lastSeenAt |-> read[r].readAt]
<1>1. rows \in Seq(Row) /\ Len(rows) \in Nat /\ DOMAIN rows = 1..Len(rows)
  BY RowTypes
<1>2. read[r] \in ReadRecord(Len(rows))
  BY ReadTypes
<1>3. new \in Row /\ read[r].readAt \in Nat /\ row \in 0..Len(rows)
  BY <1>2 DEF ReadRecord, Row
<1>4. CASE ~Written(r) /\ row # 0 /\ rows[row].values = read[r].values
  <2>1. row \in DOMAIN rows
    BY <1>1, <1>3, <1>4
  <2> DEFINE y == [rows[row] EXCEPT !.lastSeenAt = read[r].readAt]
  <2>2. rows' = [rows EXCEPT ![row] = y]
    BY <1>4 DEF Store
  <2>3. y \in Row /\ y.values = rows[row].values /\ y.readAt = rows[row].readAt
    <3>1. rows[row] \in Row
      BY <2>1, RowTypes
    <3> QED BY <1>3, <3>1 DEF Row
  <2> HIDE DEF y
  <2>4. rows' \in Seq(Row) /\ Len(rows') = Len(rows) /\ DOMAIN rows' = DOMAIN rows
    BY <1>1, <2>1, <2>2, <2>3, OneElement
  <2>5. \A i \in DOMAIN rows : rows'[i] = IF i = row THEN y ELSE rows[i]
    BY <1>1, <2>2
  <2> QED BY <1>1, <1>4, <2>1, <2>3, <2>4, <2>5
<1>5. CASE ~(~Written(r) /\ row # 0 /\ rows[row].values = read[r].values)
  <2>1. rows' = Append(rows, new)
    BY <1>5 DEF Store
  <2>2. new.values = read[r].values /\ new.readAt = read[r].readAt
    OBVIOUS
  <2> HIDE DEF new
  <2>3. /\ rows' \in Seq(Row) /\ Len(rows') = Len(rows) + 1
        /\ rows'[Len(rows) + 1] = new /\ DOMAIN rows' = 1..(Len(rows) + 1)
        /\ \A i \in DOMAIN rows : rows'[i] = rows[i]
    BY <1>1, <1>3, <2>1, OneElement
  <2> QED BY <1>1, <2>2, <2>3
<1> QED BY <1>4, <1>5

LEMMA RecordTypeStep ==
    ASSUME Base, NEW r \in ReadIds, Record(r)
    PROVE  TypeOK' /\ DeviceInv'
<1>. TypeOK /\ DeviceInv /\ TimeInv
  BY DEF Base
<1>0. Len(rows) \in Nat /\ read \in [ReadIds -> ReadRecord(Len(rows))]
      /\ read[r] \in ReadRecord(Len(rows))
  BY ReadTypes
<1>1. ASSUME NEW x \in ReadRecord(Len(rows)), read' = [read EXCEPT ![r] = x],
             inFlight' = inFlight \/ inFlight' = None,
             x.at \in {"link", "look", "store"} \/ inFlight' # r,
             UNCHANGED <<callVars, cache, stale, linkVars>>,
             rows' \in Seq([values : Reading, readAt : Nat, lastSeenAt : Nat]),
             Len(rows') \in Nat, Len(rows) <= Len(rows')
      PROVE  TypeOK' /\ DeviceInv'
  <2>1. /\ read' \in [ReadIds -> ReadRecord(Len(rows'))]
        /\ inFlight' \in NoOrRead /\ (inFlight' # None => Pending(inFlight)')
    BY <1>1, ReadMoveTypes
  <2> QED BY <1>1, <2>1 DEF TypeOK, DeviceInv, callVars, linkVars, ReadRecord, Serving
<1>2. CASE Look(r)
  <2> DEFINE x == [read[r] EXCEPT !.at = "store", !.row = Latest]
  <2>1. Latest \in 0..Len(rows)
    BY <1>0, LatestRow DEF Latest
  <2>2. x \in ReadRecord(Len(rows)) /\ x.at = "store"
    BY <1>0, <2>1 DEF ReadRecord
  <2>3. read' = [read EXCEPT ![r] = x]
    BY <1>2 DEF Look
  <2>4. UNCHANGED <<callVars, inFlight, cache, stale, linkVars, rows>>
    BY <1>2 DEF Look
  <2>5. rows' \in Seq([values : Reading, readAt : Nat, lastSeenAt : Nat])
        /\ Len(rows') \in Nat /\ Len(rows) <= Len(rows')
    BY <1>0, <2>4 DEF TypeOK
  <2> HIDE DEF x
  <2> QED BY <1>1, <2>2, <2>3, <2>4, <2>5
\* A read's promise settles.
<1>3. ASSUME NEW how \in {"settled", "unrecorded"}, Settle(r, how)
      PROVE  \E x \in ReadRecord(Len(rows)) :
                /\ read' = [read EXCEPT ![r] = x]
                /\ inFlight' = inFlight \/ inFlight' = None
                /\ inFlight' # r
  <2> DEFINE x == [read[r] EXCEPT !.at = how, !.row = 0]
  <2>1. x \in ReadRecord(Len(rows))
    <3>1. 0 \in 0..Len(rows)
      BY <1>0
    <3> QED BY <1>0, <3>1 DEF ReadRecord
  <2>2. read' = [read EXCEPT ![r] = x]
    BY <1>3 DEF Settle
  <2>3. inFlight' = inFlight \/ inFlight' = None
    BY <1>3 DEF Settle
  <2>4. inFlight' # r
    BY <1>3, ReadNames DEF Settle
  <2> QED BY <2>1, <2>2, <2>3, <2>4
<1>4. CASE RecordFails(r)
  <2>1. /\ Settle(r, "unrecorded")
        /\ UNCHANGED <<callVars, cache, stale, linkVars, rows>>
    BY <1>4 DEF RecordFails
  <2>2. rows' \in Seq([values : Reading, readAt : Nat, lastSeenAt : Nat])
        /\ Len(rows') \in Nat /\ Len(rows) <= Len(rows')
    BY <1>0, <2>1 DEF TypeOK
  <2> QED BY <1>1, <1>3, <2>1, <2>2
<1>5. CASE Store(r)
  <2>1. /\ Settle(r, "settled") /\ UNCHANGED <<callVars, cache, stale, linkVars>>
    BY <1>5 DEF Store
  <2>2. rows' \in Seq([values : Reading, readAt : Nat, lastSeenAt : Nat])
        /\ Len(rows') \in Nat /\ Len(rows) <= Len(rows')
    <3>1. rows' \in Seq(Row)
      BY <1>5, RowsStored
    <3>2. Len(rows') = Len(rows) \/ Len(rows') = Len(rows) + 1
      BY <1>5, RowsStored
    <3> QED BY <1>0, <3>1, <3>2 DEF Row
  <2> QED BY <1>1, <1>3, <2>1, <2>2
<1> QED BY <1>2, <1>4, <1>5 DEF Record

LEMMA OtherTypeStep ==
    ASSUME Base, Expire \/ PanelEdit \/ UNCHANGED vars
    PROVE  TypeOK' /\ DeviceInv'
<1>. TypeOK /\ DeviceInv
  BY DEF Base
<1>1. CASE Expire
  BY <1>1 DEF Expire, TypeOK, DeviceInv, callVars, linkVars, Pending, Serving
<1>2. CASE PanelEdit
  <2>1. PICK s \in Settings, v \in Values :
          device' = [device EXCEPT ![s] = Append(@, [value |-> v, by |-> Panel])]
    BY <1>2 DEF PanelEdit
  <2>2. [value |-> v, by |-> Panel] \in Entry
    BY DEF Entry
  <2>3. device' \in [Settings -> Seq(Entry)] /\ DeviceInv'
    BY <2>1, <2>2, DeviceGrows
  <2> QED
    BY <1>2, <2>3
    DEF PanelEdit, TypeOK, callVars, readVars, Pending, Serving, Entry
<1>3. CASE UNCHANGED vars
  BY <1>3
  DEF vars, TypeOK, DeviceInv, callVars, readVars, linkVars, Pending, Serving
<1> QED BY <1>1, <1>2, <1>3

-----------------------------------------------------------------------------
(* The queue and the calls.                                                *)

\* How a step of recording moves its read.
LEMMA RecordMoves ==
    ASSUME TypeOK, NEW r \in ReadIds, Record(r)
    PROVE  /\ \A q \in ReadIds : q # r => read'[q] = read[q]
           /\ read'[r].values = read[r].values /\ read'[r].readAt = read[r].readAt
           /\ Recording(r)
           /\ \/ Look(r) /\ read'[r].at = "store" /\ read'[r].row = Latest
              \/ Store(r) /\ read'[r].at = "settled"
              \/ RecordFails(r) /\ read'[r].at = "unrecorded"
           /\ UNCHANGED <<callVars, cache, stale, linkVars>>
           /\ Look(r) \/ RecordFails(r) => UNCHANGED rows
           /\ Look(r) => UNCHANGED inFlight
           /\ ~Look(r) => inFlight' = IF inFlight = r THEN None ELSE inFlight
<1>0. read \in [ReadIds -> ReadRecord(Len(rows))]
  BY ReadTypes
<1>1. CASE Look(r)
  BY <1>0, <1>1 DEF Look, Recording, ReadRecord
<1>2. ASSUME NEW how, Settle(r, how)
      PROVE  /\ \A q \in ReadIds : q # r => read'[q] = read[q]
             /\ read'[r].values = read[r].values /\ read'[r].readAt = read[r].readAt
             /\ read'[r].at = how
             /\ inFlight' = IF inFlight = r THEN None ELSE inFlight
  BY <1>0, <1>2 DEF Settle, ReadRecord
<1>5. Look(r) => read'[r].at = "store" /\ read[r].at = "look"
  BY <1>0 DEF Look, ReadRecord
<1>3. CASE Store(r)
  <2>1. /\ Settle(r, "settled") /\ read[r].at = "store"
        /\ UNCHANGED <<callVars, cache, stale, linkVars>>
    BY <1>3 DEF Store
  <2>2. ~Look(r)
    BY <1>5, <2>1
  <2>3. ~RecordFails(r)
    BY <1>2, <2>1 DEF RecordFails
  <2> QED BY <1>2, <1>3, <2>1, <2>2, <2>3 DEF Recording
<1>4. CASE RecordFails(r)
  <2>1. ~Look(r)
    BY <1>2, <1>4, <1>5 DEF RecordFails
  <2> QED BY <1>2, <1>4, <2>1 DEF RecordFails, Recording
<1> QED BY <1>1, <1>3, <1>4 DEF Record

LEMMA TimeStep ==
    ASSUME Base, [Next]_vars
    PROVE  TimeInv'
<1>. TypeOK /\ TimeInv
  BY DEF Base
<1>0. clock \in Nat /\ read \in [ReadIds -> ReadRecord(Len(rows))]
      /\ \A r \in ReadIds : read[r].readAt \in Nat
  BY ReadTypes DEF TypeOK, ReadRecord
<1>1. ASSUME UNCHANGED <<cache, clock, rows>>,
             \A r \in ReadIds : read'[r].readAt = read[r].readAt
      PROVE  TimeInv'
  BY <1>1 DEF TimeInv
<1>2. ASSUME NEW r \in ReadIds, read' = [read EXCEPT ![r].at = "link"]
      PROVE  \A q \in ReadIds : read'[q].readAt = read[q].readAt
  BY <1>0, <1>2 DEF ReadRecord
<1>3. ASSUME NEW o \in Ops, Refresh(o)
      PROVE  \A q \in ReadIds : read'[q].readAt = read[q].readAt
  BY <1>2, <1>3, ReadNames DEF Refresh, StartRead, Plain
<1>4. ASSUME NEW o \in Ops,
             Get(o) \/ ForcedRefresh(o) \/ Resume(o) \/ \E ch \in Changes : Apply(o, ch)
      PROVE  TimeInv'
  BY <1>1, <1>3, <1>4 DEF Get, ForcedRefresh, Resume, Apply, readVars
<1>5. CASE ReadServed
  <2>1. PICK lost \in Garbled : ReadServed!2!(lost)
    BY <1>5 DEF ReadServed
  <2>2. Head(queue).read \in ReadIds
    BY <1>5, FirstTask DEF ReadServed
  <2>3. \A r \in ReadIds : read'[r].readAt \in {clock + 1, read[r].readAt}
    BY <1>0, <2>1, <2>2 DEF ReadRecord
  <2>4. cache'.readAt = clock + 1
    BY <2>1
  <2>5. clock' = clock + 1 /\ UNCHANGED rows
    BY <1>5 DEF ReadServed
  <2>6. \A i \in DOMAIN rows : rows[i].readAt <= clock + 1
    BY <1>0, RowTypes DEF TimeInv
  <2> QED BY <1>0, <2>3, <2>4, <2>5, <2>6 DEF TimeInv
<1>6. CASE ReadFails
  <2>1. \A r \in ReadIds : read'[r].readAt = read[r].readAt
    BY <1>0, <1>6, FirstTask DEF ReadFails, ReadRecord
  <2> QED BY <1>1, <1>6, <2>1 DEF ReadFails
<1>7. CASE WriteServed
  <2>1. \A r \in ReadIds : read'[r].readAt = read[r].readAt
    BY <1>2, <1>7, FirstTask, ReadNames DEF WriteServed, StartRead, AfterWrite
  <2> QED BY <1>1, <1>7, <2>1 DEF WriteServed
<1>8. CASE WriteOne \/ WriteFails \/ Expire \/ PanelEdit \/ UNCHANGED vars
  <2>1. UNCHANGED <<read, cache, clock, rows>>
    BY <1>8 DEF WriteOne, WriteFails, Expire, PanelEdit, vars, readVars, linkVars
  <2> QED BY <1>1, <2>1
<1>9. ASSUME NEW r \in ReadIds, Record(r)
      PROVE  TimeInv'
  <2>1. UNCHANGED <<cache, clock>>
    BY <1>9, RecordMoves DEF linkVars
  <2>2. \A q \in ReadIds : read'[q].readAt = read[q].readAt
    BY <1>9, RecordMoves
  <2>3. \A i \in DOMAIN rows' : rows'[i].readAt <= clock
    <3>1. CASE Store(r)
      <4>1. /\ Len(rows) \in Nat /\ DOMAIN rows = 1..Len(rows)
            /\ \/ /\ DOMAIN rows' = DOMAIN rows
                  /\ \A i \in DOMAIN rows : rows'[i].readAt = rows[i].readAt
               \/ /\ DOMAIN rows' = 1..(Len(rows) + 1)
                  /\ \A i \in DOMAIN rows : rows'[i] = rows[i]
                  /\ rows'[Len(rows) + 1].readAt = read[r].readAt
        BY <1>0, <3>1, RowsStored
      <4>2. \A i \in DOMAIN rows : rows[i].readAt <= clock
        BY DEF TimeInv
      <4>3. read[r].readAt <= clock
        BY DEF TimeInv
      <4> QED BY <4>1, <4>2, <4>3
    <3>2. CASE UNCHANGED rows
      BY <3>2 DEF TimeInv
    <3> QED BY <1>9, <3>1, <3>2 DEF Record, Look, RecordFails
  <2> QED BY <2>1, <2>2, <2>3 DEF TimeInv
<1> QED
  BY <1>4, <1>5, <1>6, <1>7, <1>8, <1>9 DEF Next, LinkServes

\* What a step of a call changes, in five kinds of step: it shares a read,
\* starts one, ends, or chains its write.
Shares(o) ==
    /\ pc[o] = "idle" /\ pc' = [pc EXCEPT ![o] = "reading"] /\ inFlight # None
    /\ awaits' = [awaits EXCEPT ![o] = inFlight]
    /\ UNCHANGED <<read, inFlight, queue, outcome, result>>

Starts(o) ==
    /\ pc[o] = "idle" /\ pc' = [pc EXCEPT ![o] = "reading"] /\ inFlight = None
    /\ StartRead(o, Plain(o))
    /\ queue' = Append(queue, [task |-> "read", read |-> Plain(o)])
    /\ UNCHANGED <<outcome, result>>

Ends(o) ==
    /\ pc[o] \in {"idle", "reading", "rereading"} /\ pc' = [pc EXCEPT ![o] = "done"]
    /\ UNCHANGED <<awaits, read, inFlight, queue>>
    /\ outcome' = [outcome EXCEPT ![o] = outcome'[o]]
    /\ result' = [result EXCEPT ![o] = result'[o]]
    /\ outcome'[o] = "ok" /\ changes'[o] # Nothing =>
          /\ pc[o] = "rereading" /\ Done(awaits[o])
          /\ result'[o] = read[awaits[o]].values

Chains(o) ==
    /\ pc[o] \in {"idle", "reading"} /\ pc' = [pc EXCEPT ![o] = "writing"]
    /\ queue' = Append(queue, [task |-> "write", op |-> o])
    /\ kind'[o] = "apply"
    /\ UNCHANGED <<awaits, read, inFlight, outcome, result>>

LEMMA CallMoves ==
    ASSUME Base, NEW o \in Ops,
           Get(o) \/ ForcedRefresh(o) \/ Resume(o) \/ \E ch \in Changes : Apply(o, ch)
    PROVE  /\ Shares(o) \/ Starts(o) \/ Ends(o) \/ Chains(o)
           /\ UNCHANGED <<cache, stale, written, device, clock, rows>>
           /\ \/ UNCHANGED <<kind, changes>>
              \/ /\ pc[o] = "idle" /\ kind' = [kind EXCEPT ![o] = "apply"]
                 /\ changes' = [changes EXCEPT ![o] = changes'[o]]
<1>. TypeOK /\ CallInv
  BY DEF Base
<1>1. ASSUME pc[o] = "idle", Refresh(o), UNCHANGED <<outcome, result>>
      PROVE  Shares(o) \/ Starts(o)
  BY <1>1 DEF Refresh, Shares, Starts, Plain
<1>2. ASSUME NEW values, NEW ch, CheckAndWrite(o, values, ch), pc[o] \in {"idle", "reading"},
             UNCHANGED <<awaits, read, inFlight>>, kind'[o] = "apply"
      PROVE  Ends(o) \/ Chains(o)
  BY <1>2 DEF CheckAndWrite, Finish, Ends, Chains, TypeOK
<1>3. CASE Get(o)
  <2>1. CASE stale
    BY <1>1, <1>3, <2>1 DEF Get
  <2>2. CASE ~stale
    <3>1. Ends(o)
      BY <1>3, <2>2 DEF Get, Finish, Ends, TypeOK, CallInv
    <3> QED BY <1>3, <3>1 DEF Get
  <2>3. UNCHANGED <<kind, changes, cache, stale, written, device, clock, rows>>
    BY <1>3 DEF Get
  <2> QED BY <2>1, <2>2, <2>3 DEF TypeOK
<1>4. CASE ForcedRefresh(o)
  BY <1>1, <1>4 DEF ForcedRefresh
<1>5. ASSUME NEW ch \in Changes, Apply(o, ch)
      PROVE  /\ Shares(o) \/ Starts(o) \/ Ends(o) \/ Chains(o)
             /\ UNCHANGED <<cache, stale, written, device, clock, rows>>
             /\ pc[o] = "idle" /\ kind' = [kind EXCEPT ![o] = "apply"]
             /\ changes' = [changes EXCEPT ![o] = changes'[o]]
  <2>1. /\ pc[o] = "idle" /\ kind' = [kind EXCEPT ![o] = "apply"]
        /\ changes' = [changes EXCEPT ![o] = ch] /\ kind'[o] = "apply"
        /\ UNCHANGED <<cache, stale, written, device, clock, rows>>
    BY <1>5 DEF Apply, TypeOK
  <2>2. changes' = [changes EXCEPT ![o] = changes'[o]]
    BY <2>1 DEF TypeOK
  <2>3. CASE stale
    BY <1>1, <1>5, <2>1, <2>2, <2>3 DEF Apply
  <2>4. CASE ~stale
    BY <1>2, <1>5, <2>1, <2>2, <2>4 DEF Apply
  <2> QED BY <2>3, <2>4
<1>6. CASE Resume(o)
  <2>1. UNCHANGED <<kind, changes, awaits, read, inFlight, cache, stale, written, device, clock, rows>>
        /\ pc[o] \in {"reading", "rereading"}
    BY <1>6 DEF Resume, readVars
  <2>2. CASE read[awaits[o]].at = "failed" /\ Finish(o, "failed", Nothing) /\ UNCHANGED queue
    BY <2>1, <2>2 DEF Finish, Ends, TypeOK
  <2>3. CASE /\ Done(awaits[o])
             /\ kind[o] = "read" \/ pc[o] = "rereading"
             /\ Finish(o, "ok", read[awaits[o]].values) /\ UNCHANGED queue
    BY <2>1, <2>3 DEF Finish, Ends, TypeOK, CallInv
  <2>4. CASE /\ kind[o] = "apply" /\ pc[o] = "reading"
             /\ CheckAndWrite(o, read[awaits[o]].values, changes[o])
    BY <1>2, <2>1, <2>4
  <2> QED BY <1>6, <2>1, <2>2, <2>3, <2>4 DEF Resume
<1> QED BY <1>3, <1>4, <1>5, <1>6

\* What serving the first task changes, by how it ends.
ServesRead(r) ==
    /\ r \in ReadIds /\ OnLink(r) /\ ReadAt(1, r) /\ queue # <<>>
    /\ read'[r].at = "look" /\ read'[r].readAt = clock + 1
    /\ \A q \in ReadIds : q # r => read'[q] = read[q]
    /\ queue' = Tail(queue) /\ clock' = clock + 1 /\ cache'.readAt = clock + 1
    /\ \A s \in Settings : read'[r].values[s] \in {Missing, Held(s)}
    /\ UNCHANGED <<callVars, inFlight, written, device, rows>>

FailsRead(r) ==
    /\ r \in ReadIds /\ OnLink(r) /\ ReadAt(1, r) /\ queue # <<>>
    /\ read'[r].at = "failed"
    /\ \A q \in ReadIds : q # r => read'[q] = read[q]
    /\ inFlight' = IF inFlight = r THEN None ELSE inFlight
    /\ queue' = Tail(queue)
    /\ UNCHANGED <<callVars, cache, written, device, clock, rows>>

ServesWrite(o) ==
    /\ o \in Ops /\ pc[o] = "writing" /\ WriteAt(1, o) /\ queue # <<>>
    /\ pc' = [pc EXCEPT ![o] = "rereading"]
    /\ \A s \in Settings : changes[o][s] # Missing => s \in written
    /\ StartRead(o, AfterWrite(o))
    /\ queue' = Append(Tail(queue), [task |-> "read", read |-> AfterWrite(o)])
    /\ written' = {}
    /\ UNCHANGED <<kind, changes, result, outcome, cache, stale, device, clock, rows>>

FailsWrite(o) ==
    /\ o \in Ops /\ pc[o] = "writing" /\ WriteAt(1, o) /\ queue # <<>>
    /\ Finish(o, "failed", Nothing) /\ queue' = Tail(queue) /\ written' = {}
    /\ UNCHANGED <<kind, changes, awaits, readVars, device, clock, rows>>

LEMMA LinkMoves ==
    ASSUME Base, LinkServes
    PROVE  \/ \E r : ServesRead(r) \/ FailsRead(r)
           \/ WriteOne
           \/ \E o : ServesWrite(o) \/ FailsWrite(o)
<1>0. read \in [ReadIds -> ReadRecord(Len(rows))] /\ TypeOK /\ QueueInv
  BY ReadTypes DEF Base
<1> DEFINE r == Head(queue).read
           o == Head(queue).op
<1>1. ASSUME Serving("read")
      PROVE  r \in ReadIds /\ OnLink(r) /\ ReadAt(1, r) /\ queue # <<>>
  BY <1>0, <1>1, FirstTask DEF QueueInv, Lined, ReadAt, IsRead, Serving
<1>2. ASSUME Serving("write")
      PROVE  o \in Ops /\ pc[o] = "writing" /\ WriteAt(1, o) /\ queue # <<>>
  BY <1>0, <1>2, FirstTask DEF QueueInv, Lined, WriteAt, IsWrite, Serving
<1>3. CASE ReadServed
  <2>1. PICK lost \in Garbled : ReadServed!2!(lost)
    BY <1>3 DEF ReadServed
  <2>2. r \in ReadIds /\ OnLink(r) /\ ReadAt(1, r) /\ queue # <<>>
    BY <1>1, <1>3 DEF ReadServed
  <2>3. /\ read'[r].at = "look" /\ read'[r].readAt = clock + 1
        /\ \A q \in ReadIds : q # r => read'[q] = read[q]
        /\ read'[r].values = [s \in Settings |-> IF s \in lost THEN Missing ELSE Held(s)]
    BY <1>0, <2>1, <2>2 DEF ReadRecord
  <2>4. /\ queue' = Tail(queue) /\ clock' = clock + 1 /\ cache'.readAt = clock + 1
        /\ UNCHANGED <<callVars, inFlight, written, device, rows>>
    BY <1>3, <2>1 DEF ReadServed
  <2> HIDE DEF r
  <2>5. ServesRead(r)
    BY <2>2, <2>3, <2>4 DEF ServesRead
  <2> QED BY <2>5
<1>4. CASE ReadFails
  <2>1. r \in ReadIds /\ OnLink(r) /\ ReadAt(1, r) /\ queue # <<>>
    BY <1>1, <1>4 DEF ReadFails
  <2>2. read'[r].at = "failed" /\ \A q \in ReadIds : q # r => read'[q] = read[q]
    BY <1>0, <1>4, <2>1 DEF ReadFails, ReadRecord
  <2>3. FailsRead(r)
    BY <1>4, <2>1, <2>2 DEF ReadFails, FailsRead
  <2> QED BY <2>3
<1>5. CASE WriteServed
  <2>1. ServesWrite(o)
    BY <1>2, <1>5 DEF WriteServed, ServesWrite, AfterWrite
  <2> QED BY <2>1
<1>6. CASE WriteFails
  <2>1. FailsWrite(o)
    BY <1>2, <1>6 DEF WriteFails, FailsWrite
  <2> QED BY <2>1
<1> QED BY <1>3, <1>4, <1>5, <1>6 DEF LinkServes

\* Starting a read changes that read only.
LEMMA StartMoves ==
    ASSUME TypeOK, NEW o \in Ops, NEW r \in ReadIds, StartRead(o, r)
    PROVE  /\ read'[r].at = "link" /\ inFlight' = r
           /\ read'[r].readAt = read[r].readAt /\ read'[r].values = read[r].values
           /\ \A q \in ReadIds : q # r => read'[q] = read[q]
           /\ awaits'[o] = r /\ \A p \in Ops : p # o => awaits'[p] = awaits[p]
BY ReadTypes DEF StartRead, ReadRecord, TypeOK

LEMMA CallStep ==
    ASSUME Base, [Next]_vars
    PROVE  CallInv'
<1>. TypeOK /\ CallInv /\ QueueInv
  BY DEF Base
<1>0. /\ pc \in [Ops -> {"idle", "reading", "writing", "rereading", "done"}]
      /\ awaits \in [Ops -> ReadIds \cup {<<None, "plain">>}]
      /\ kind \in [Ops -> {"read", "apply"}]
      /\ outcome \in [Ops -> {"none", "ok", "failed", "rule"}]
      /\ changes \in [Ops -> Reading]
  BY DEF TypeOK
\* Steps that start no read and touch no call.
<1>1. ASSUME \A r \in ReadIds : read[r].at = "none" => read'[r].at = "none", UNCHANGED callVars
      PROVE  CallInv'
  BY <1>1, ReadNames DEF CallInv, callVars
<1>2. ASSUME NEW o \in Ops,
             Get(o) \/ ForcedRefresh(o) \/ Resume(o) \/ \E ch \in Changes : Apply(o, ch)
      PROVE  CallInv'
  <2>1. /\ Shares(o) \/ Starts(o) \/ Ends(o) \/ Chains(o)
        /\ \/ UNCHANGED <<kind, changes>>
           \/ /\ pc[o] = "idle" /\ kind' = [kind EXCEPT ![o] = "apply"]
              /\ changes' = [changes EXCEPT ![o] = changes'[o]]
    BY <1>2, CallMoves
  <2>2. \A p \in Ops : p # o => kind'[p] = kind[p] /\ changes'[p] = changes[p]
    BY <1>0, <2>1
  <2>3. kind'[o] = "read" => changes'[o] = Nothing
    BY <1>0, <2>1 DEF CallInv
  <2>4. kind[o] = "apply" => kind'[o] = "apply"
    BY <1>0, <2>1
  <2>5. CASE Shares(o)
    <3>1. inFlight \in ReadIds
      BY <2>5 DEF Shares, TypeOK, NoOrRead
    <3>2. \A p \in Ops : p # o => pc'[p] = pc[p] /\ awaits'[p] = awaits[p]
      BY <1>0, <2>5 DEF Shares
    <3>3. pc'[o] = "reading" /\ awaits'[o] = inFlight /\ pc[o] = "idle"
          /\ UNCHANGED <<read, outcome>>
      BY <1>0, <2>5 DEF Shares
    <3> QED BY <2>2, <2>3, <3>1, <3>2, <3>3 DEF CallInv
  <2>6. CASE Starts(o)
    <3>1. \A p \in Ops : p # o => pc'[p] = pc[p]
      BY <1>0, <2>6 DEF Starts
    <3>2. pc'[o] = "reading" /\ pc[o] = "idle" /\ UNCHANGED outcome
      BY <1>0, <2>6 DEF Starts
    <3>3. awaits'[o] = Plain(o) /\ \A p \in Ops : p # o => awaits'[p] = awaits[p]
      BY <2>6, StartMoves, ReadNames DEF Starts
    <3>4. \A q \in ReadIds : q # Plain(o) => read'[q] = read[q]
      BY <2>6, StartMoves, ReadNames DEF Starts
    <3>5. ASSUME NEW p \in Ops
          PROVE  read'[AfterWrite(p)] = read[AfterWrite(p)]
      <4>1. AfterWrite(p) \in ReadIds /\ AfterWrite(p) # Plain(o)
        BY ReadNames
      <4> QED BY <3>4, <4>1
    <3>6. ASSUME NEW p \in Ops, p # o
          PROVE  read'[Plain(p)] = read[Plain(p)]
      <4>1. Plain(p) \in ReadIds /\ Plain(p) # Plain(o)
        BY <3>6, ReadNames
      <4> QED BY <3>4, <4>1
    <3>7. awaits'[o] \in ReadIds
      BY <3>3, ReadNames
    <3> QED BY <2>2, <2>3, <3>1, <3>2, <3>3, <3>5, <3>6, <3>7 DEF CallInv
  <2>7. CASE Ends(o)
    <3>1. \A p \in Ops : p # o => pc'[p] = pc[p] /\ outcome'[p] = outcome[p]
      BY <1>0, <2>7 DEF Ends
    <3>2. pc'[o] = "done" /\ UNCHANGED <<read, awaits>>
      BY <1>0, <2>7 DEF Ends
    <3> QED BY <2>2, <2>3, <3>1, <3>2 DEF CallInv
  <2>8. CASE Chains(o)
    <3>1. \A p \in Ops : p # o => pc'[p] = pc[p]
      BY <1>0, <2>8 DEF Chains
    <3>2. pc'[o] = "writing" /\ kind'[o] = "apply" /\ pc[o] \in {"idle", "reading"}
          /\ UNCHANGED <<read, awaits, outcome>>
      BY <1>0, <2>8 DEF Chains
    <3> QED BY <2>2, <2>3, <3>1, <3>2 DEF CallInv
  <2> QED BY <2>1, <2>5, <2>6, <2>7, <2>8
<1>3. ASSUME NEW r, ServesRead(r) \/ FailsRead(r)
      PROVE  CallInv'
  BY <1>1, <1>3 DEF ServesRead, FailsRead, OnLink
<1>4. CASE WriteOne
  BY <1>1, <1>4 DEF WriteOne, readVars
<1>5. ASSUME NEW o, ServesWrite(o)
      PROVE  CallInv'
  <2> DEFINE r == AfterWrite(o)
  <2>1. /\ o \in Ops /\ pc[o] = "writing"
        /\ pc' = [pc EXCEPT ![o] = "rereading"] /\ StartRead(o, r)
        /\ UNCHANGED <<kind, changes, result, outcome>>
    BY <1>5 DEF ServesWrite
  <2>4. r \in ReadIds
    BY <2>1, ReadNames
  <2>5. /\ awaits'[o] = r /\ \A p \in Ops : p # o => awaits'[p] = awaits[p]
        /\ \A q \in ReadIds : q # r => read'[q] = read[q]
    BY <2>1, <2>4, StartMoves
  <2>2. pc'[o] = "rereading" /\ \A p \in Ops : p # o => pc'[p] = pc[p]
    BY <1>0, <2>1
  <2>3. \A p \in Ops : p # o => AfterWrite(p) # r /\ AfterWrite(p) \in ReadIds
                                /\ Plain(p) # r /\ Plain(p) \in ReadIds
    BY <2>1, ReadNames
  <2>6. Plain(o) # r /\ Plain(o) \in ReadIds
    BY <2>1, ReadNames
  <2> HIDE DEF r
  <2>7. ASSUME NEW p \in Ops, p # o
        PROVE  /\ read'[Plain(p)] = read[Plain(p)]
               /\ read'[AfterWrite(p)] = read[AfterWrite(p)]
    BY <2>3, <2>5, <2>7
  <2>8. kind[o] = "apply" /\ awaits'[o] = AfterWrite(o)
    BY <2>1, <2>5 DEF CallInv, r
  <2> QED BY <2>1, <2>2, <2>4, <2>5, <2>7, <2>8 DEF CallInv
<1>8. ASSUME NEW o, FailsWrite(o)
      PROVE  CallInv'
  <2>1. /\ o \in Ops /\ pc[o] = "writing" /\ Finish(o, "failed", Nothing)
        /\ UNCHANGED <<kind, changes, awaits, read>>
    BY <1>8 DEF FailsWrite, readVars
  <2>2. /\ \A p \in Ops : p # o => pc'[p] = pc[p] /\ outcome'[p] = outcome[p]
        /\ pc'[o] = "done"
    BY <1>0, <2>1 DEF Finish
  <2> QED BY <2>1, <2>2 DEF CallInv
<1>6. ASSUME NEW r \in ReadIds, Record(r)
      PROVE  CallInv'
  BY <1>1, <1>6, RecordMoves DEF Recording
<1>7. CASE Expire \/ PanelEdit \/ UNCHANGED vars
  BY <1>1, <1>7 DEF Expire, PanelEdit, vars, readVars
<1> QED BY <1>2, <1>3, <1>4, <1>5, <1>6, <1>7, <1>8, LinkMoves DEF Next

-----------------------------------------------------------------------------
(* The queue.                                                              *)

\* The first task is over.
LEMMA LinedTail ==
    ASSUME NEW q \in Seq(LinkTask), q # <<>>, NEW reads, NEW writers, NEW shared, NEW next,
           Lined(q, reads, writers, shared), next = shared \/ IsRead(q[1], shared)
    PROVE  Lined(Tail(q), {r \in reads : ~IsRead(q[1], r)},
                 {o \in writers : ~IsWrite(q[1], o)}, next)
<1> DEFINE t == Tail(q)
<1>1. /\ Len(q) \in Nat \ {0} /\ DOMAIN q = 1..Len(q) /\ DOMAIN t = 1..(Len(q) - 1)
      /\ \A i \in 1..(Len(q) - 1) : t[i] = q[i + 1]
  OBVIOUS
<1> HIDE DEF t
<1>2. \A i \in DOMAIN t : i + 1 \in DOMAIN q /\ t[i] = q[i + 1] /\ i + 1 # 1 /\ 1 \in DOMAIN q
  BY <1>1
<1>3. ASSUME NEW i \in DOMAIN t
      PROVE  /\ t[i].task = "read" => t[i].read \in reads /\ ~IsRead(q[1], t[i].read)
             /\ t[i].task = "write" => t[i].op \in writers /\ ~IsWrite(q[1], t[i].op)
  <2>1. /\ t[i].task = "read" => IsRead(q[i + 1], t[i].read) /\ t[i].read \in reads
        /\ t[i].task = "write" => IsWrite(q[i + 1], t[i].op) /\ t[i].op \in writers
    BY <1>2 DEF Lined, IsRead, IsWrite
  <2>2. /\ \A r : IsRead(q[i + 1], r) => ~IsRead(q[1], r)
        /\ \A o : IsWrite(q[i + 1], o) => ~IsWrite(q[1], o)
    BY <1>2 DEF Lined
  <2> QED BY <2>1, <2>2
<1>4. ASSUME NEW i \in DOMAIN t, NEW j \in DOMAIN t
      PROVE  /\ \A r : IsRead(t[i], r) /\ IsRead(t[j], r) => i = j
             /\ \A o : IsWrite(t[i], o) /\ IsWrite(t[j], o) => i = j
             /\ i < j /\ t[i].task = "read" /\ t[j].task = "read" => Written(t[j].read)
  <2>1. \A r : IsRead(t[i], r) /\ IsRead(t[j], r) => i + 1 = j + 1
    BY <1>2 DEF Lined
  <2>2. \A o : IsWrite(t[i], o) /\ IsWrite(t[j], o) => i + 1 = j + 1
    BY <1>2 DEF Lined
  <2>3. i + 1 < j + 1 /\ t[i].task = "read" /\ t[j].task = "read" => Written(t[j].read)
    BY <1>2 DEF Lined
  <2> QED BY <1>1, <2>1, <2>2, <2>3
<1>5. ASSUME NEW r \in reads, ~IsRead(q[1], r)
      PROVE  \E i \in DOMAIN t : IsRead(t[i], r)
  <2>1. PICK i \in DOMAIN q : IsRead(q[i], r)
    BY DEF Lined
  <2>2. i # 1 /\ i - 1 \in DOMAIN t /\ (i - 1) + 1 = i
    BY <1>1, <1>5, <2>1
  <2> QED BY <1>2, <2>1, <2>2
<1>6. ASSUME NEW i \in DOMAIN t, t[i].task = "read"
      PROVE  \E j \in DOMAIN t : i <= j /\ IsRead(t[j], next)
  <2>1. PICK j \in DOMAIN q : i + 1 <= j /\ IsRead(q[j], shared)
    BY <1>2, <1>6 DEF Lined
  <2>2. j # 1 /\ j - 1 \in DOMAIN t /\ (j - 1) + 1 = j /\ i <= j - 1
    BY <1>1, <2>1
  <2>3. ~IsRead(q[1], shared)
    BY <1>2, <2>1, <2>2 DEF Lined
  <2> QED BY <1>2, <2>1, <2>2, <2>3
<1>7. Lined(t, {r \in reads : ~IsRead(q[1], r)}, {o \in writers : ~IsWrite(q[1], o)}, next)
  BY <1>3, <1>4, <1>5, <1>6 DEF Lined
<1> QED BY <1>7 DEF t

\* A read is chained: a read-back, or any read when the queue has none.
LEMMA LinedRead ==
    ASSUME NEW q \in Seq(LinkTask), NEW reads, NEW writers, NEW shared, NEW r \in ReadIds,
           Lined(q, reads, writers, shared), r \notin reads, Written(r) \/ reads = {}
    PROVE  Lined(Append(q, [task |-> "read", read |-> r]), reads \cup {r}, writers, r)
<1> DEFINE x == [task |-> "read", read |-> r]
           a == Append(q, x)
<1>1. /\ Len(q) \in Nat /\ DOMAIN q = 1..Len(q) /\ DOMAIN a = 1..(Len(q) + 1)
      /\ \A i \in 1..Len(q) : a[i] = q[i]
      /\ a[Len(q) + 1] = x
  OBVIOUS
<1>2. \A v : IsRead(x, v) => v = r
  BY DEF IsRead
<1>3. x.task = "read" /\ x.read = r /\ IsRead(x, r) /\ \A o : ~IsWrite(x, o)
  BY DEF IsRead, IsWrite
<1> HIDE DEF x, a
<1> DEFINE n == Len(q) + 1
<1>4. /\ \A i \in DOMAIN q : i \in DOMAIN a /\ a[i] = q[i] /\ i < n
      /\ n \in DOMAIN a /\ a[n] = x /\ \A i \in DOMAIN a : i \in DOMAIN q \/ i = n
      /\ \A i \in DOMAIN a : i <= n /\ ~(n < i)
  BY <1>1
<1> HIDE DEF n
<1>5. \A i \in DOMAIN q : ~IsRead(q[i], r)
  BY DEF Lined, IsRead
<1>6. \A i \in DOMAIN a : /\ a[i].task = "read" => a[i].read \in reads \cup {r}
                          /\ a[i].task = "write" => a[i].op \in writers
  BY <1>3, <1>4 DEF Lined
<1>7. ASSUME NEW i \in DOMAIN a, NEW j \in DOMAIN a
      PROVE  /\ \A v : IsRead(a[i], v) /\ IsRead(a[j], v) => i = j
             /\ \A o : IsWrite(a[i], o) /\ IsWrite(a[j], o) => i = j
             /\ i < j /\ a[i].task = "read" /\ a[j].task = "read" => Written(a[j].read)
  <2>1. CASE i \in DOMAIN q /\ j \in DOMAIN q
    BY <1>4, <2>1 DEF Lined
  <2>2. CASE i = n \/ j = n
    <3>1. \A v : IsRead(a[i], v) /\ IsRead(a[j], v) => i = j
      BY <1>2, <1>4, <1>5, <2>2
    <3>2. \A o : IsWrite(a[i], o) /\ IsWrite(a[j], o) => i = j
      BY <1>3, <1>4, <2>2
    <3>3. i < j /\ a[i].task = "read" /\ a[j].task = "read" => Written(a[j].read)
      BY <1>3, <1>4, <2>2 DEF Lined
    <3> QED BY <3>1, <3>2, <3>3
  <2> QED BY <1>4, <2>1, <2>2
<1>8. \A v \in reads \cup {r} : \E i \in DOMAIN a : IsRead(a[i], v)
  BY <1>3, <1>4 DEF Lined
<1>9. \A i \in DOMAIN a : a[i].task = "read" => \E j \in DOMAIN a : i <= j /\ IsRead(a[j], r)
  BY <1>3, <1>4
<1>10. Lined(a, reads \cup {r}, writers, r)
  BY <1>6, <1>7, <1>8, <1>9 DEF Lined
<1> QED BY <1>10 DEF a, x

\* A write is chained.
LEMMA LinedWrite ==
    ASSUME NEW q \in Seq(LinkTask), NEW reads, NEW writers, NEW shared, NEW o \in Ops,
           Lined(q, reads, writers, shared), o \notin writers
    PROVE  Lined(Append(q, [task |-> "write", op |-> o]), reads, writers \cup {o}, shared)
<1> DEFINE x == [task |-> "write", op |-> o]
           a == Append(q, x)
<1>1. /\ Len(q) \in Nat /\ DOMAIN q = 1..Len(q) /\ DOMAIN a = 1..(Len(q) + 1)
      /\ \A i \in 1..Len(q) : a[i] = q[i]
      /\ a[Len(q) + 1] = x
  OBVIOUS
<1>2. \A v : IsWrite(x, v) => v = o
  BY DEF IsWrite
<1>3. x.task # "read" /\ x.op = o /\ \A v : ~IsRead(x, v)
  BY DEF IsRead
<1> HIDE DEF x, a
<1> DEFINE n == Len(q) + 1
<1>4. /\ \A i \in DOMAIN q : i \in DOMAIN a /\ a[i] = q[i] /\ i < n
      /\ n \in DOMAIN a /\ a[n] = x /\ \A i \in DOMAIN a : i \in DOMAIN q \/ i = n
      /\ \A i \in DOMAIN a : i <= n /\ ~(n < i)
  BY <1>1
<1> HIDE DEF n
<1>5. \A i \in DOMAIN q : ~IsWrite(q[i], o)
  BY DEF Lined, IsWrite
<1>6. \A i \in DOMAIN a : /\ a[i].task = "read" => a[i].read \in reads
                          /\ a[i].task = "write" => a[i].op \in writers \cup {o}
  BY <1>3, <1>4 DEF Lined
<1>7. ASSUME NEW i \in DOMAIN a, NEW j \in DOMAIN a
      PROVE  /\ \A v : IsRead(a[i], v) /\ IsRead(a[j], v) => i = j
             /\ \A v : IsWrite(a[i], v) /\ IsWrite(a[j], v) => i = j
             /\ i < j /\ a[i].task = "read" /\ a[j].task = "read" => Written(a[j].read)
  <2>1. CASE i \in DOMAIN q /\ j \in DOMAIN q
    BY <1>4, <2>1 DEF Lined
  <2>2. CASE i = n \/ j = n
    <3>1. \A v : IsRead(a[i], v) /\ IsRead(a[j], v) => i = j
      BY <1>3, <1>4, <2>2
    <3>2. \A v : IsWrite(a[i], v) /\ IsWrite(a[j], v) => i = j
      BY <1>2, <1>4, <1>5, <2>2
    <3>3. ~(a[i].task = "read" /\ a[j].task = "read")
      BY <1>3, <1>4, <2>2
    <3> QED BY <3>1, <3>2, <3>3
  <2> QED BY <1>4, <2>1, <2>2
<1>8. \A v \in reads : \E i \in DOMAIN a : IsRead(a[i], v)
  BY <1>4 DEF Lined
<1>9. \A i \in DOMAIN a : a[i].task = "read" => \E j \in DOMAIN a : i <= j /\ IsRead(a[j], shared)
  BY <1>3, <1>4 DEF Lined
<1>10. Lined(a, reads, writers \cup {o}, shared)
  BY <1>6, <1>7, <1>8, <1>9 DEF Lined
<1> QED BY <1>10 DEF a, x

LEMMA QueueStep ==
    ASSUME Base, [Next]_vars
    PROVE  QueueInv'
<1>. TypeOK /\ CallInv /\ QueueInv
  BY DEF Base
<1> DEFINE reads   == {r \in ReadIds : OnLink(r)}
           writers == {o \in Ops : pc[o] = "writing"}
<1>0. /\ pc \in [Ops -> {"idle", "reading", "writing", "rereading", "done"}]
      /\ queue \in Seq(LinkTask) /\ Lined(queue, reads, writers, inFlight)
      /\ inFlight \in ReadIds \cup {None}
  BY DEF TypeOK, QueueInv, NoOrRead
<1>1. ASSUME Lined(queue', reads', writers', inFlight')
      PROVE  QueueInv'
  BY <1>1 DEF QueueInv
\* A read that settles was not on the link, so it is not shared with the queue.
<1>2. ASSUME UNCHANGED <<queue, inFlight>>, reads' = reads, writers' = writers
      PROVE  QueueInv'
  BY <1>0, <1>1, <1>2
<1>3. ASSUME UNCHANGED queue, inFlight \notin reads, reads' = reads, writers' = writers
      PROVE  QueueInv'
  <2>1. \A i \in DOMAIN queue : queue[i].task # "read"
    <3> SUFFICES ASSUME NEW i \in DOMAIN queue, queue[i].task = "read" PROVE FALSE
      OBVIOUS
    <3> HIDE DEF reads, writers
    <3>1. PICK j \in DOMAIN queue : IsRead(queue[j], inFlight)
      BY <1>0 DEF Lined
    <3>2. queue[j].task = "read" /\ queue[j].read = inFlight
      BY <3>1 DEF IsRead
    <3>3. queue[j].read \in reads
      BY <1>0, <3>2 DEF Lined
    <3> QED BY <1>3, <3>2, <3>3
  <2>2. Lined(queue, reads, writers, inFlight')
    BY <1>0, <2>1 DEF Lined
  <2> QED BY <1>1, <1>3, <2>2
<1>4. ASSUME NEW o \in Ops,
             Get(o) \/ ForcedRefresh(o) \/ Resume(o) \/ \E ch \in Changes : Apply(o, ch)
      PROVE  QueueInv'
  <2>1. Shares(o) \/ Starts(o) \/ Ends(o) \/ Chains(o)
    BY <1>4, CallMoves
  <2>2. CASE Shares(o) \/ Ends(o)
    <3>1. UNCHANGED <<queue, read, inFlight>> /\ pc[o] # "writing" /\ pc'[o] # "writing"
          /\ \A p \in Ops : p # o => pc'[p] = pc[p]
      BY <1>0, <2>2 DEF Shares, Ends
    <3>2. reads' = reads /\ writers' = writers
      BY <3>1 DEF OnLink
    <3> QED BY <1>2, <3>1, <3>2
  <2>3. CASE Starts(o)
    <3> DEFINE r == Plain(o)
    <3>1. /\ pc[o] = "idle" /\ pc'[o] = "reading" /\ \A p \in Ops : p # o => pc'[p] = pc[p]
          /\ inFlight = None /\ StartRead(o, r)
          /\ queue' = Append(queue, [task |-> "read", read |-> r])
      BY <1>0, <2>3 DEF Starts
    <3>2. r \in ReadIds /\ read[r].at = "none" /\ None \notin ReadIds
      BY <3>1, ReadNames DEF CallInv
    <3> HIDE DEF r
    <3>3. /\ read'[r].at = "link" /\ inFlight' = r
          /\ \A q \in ReadIds : q # r => read'[q] = read[q]
      BY <3>1, <3>2, StartMoves
    <3>4. writers' = writers /\ reads' = reads \cup {r} /\ r \notin reads
      BY <3>1, <3>2, <3>3 DEF OnLink
    <3>5. reads = {}
      BY <1>0, <3>1, <3>2 DEF Lined, IsRead
    <3>6. Lined(queue', reads', writers', inFlight')
      <4>1. Lined(Append(queue, [task |-> "read", read |-> r]), reads \cup {r}, writers, r)
        <5> HIDE DEF reads, writers
        <5> QED BY <1>0, <3>2, <3>4, <3>5, LinedRead
      <4> QED BY <3>1, <3>3, <3>4, <4>1
    <3> QED BY <1>1, <3>6
  <2>4. CASE Chains(o)
    <3>1. /\ pc[o] # "writing" /\ pc'[o] = "writing" /\ \A p \in Ops : p # o => pc'[p] = pc[p]
          /\ UNCHANGED <<read, inFlight>>
          /\ queue' = Append(queue, [task |-> "write", op |-> o])
      BY <1>0, <2>4 DEF Chains
    <3>2. writers' = writers \cup {o} /\ o \notin writers /\ reads' = reads
      BY <3>1 DEF OnLink
    <3>3. Lined(queue', reads', writers', inFlight')
      <4>1. Lined(Append(queue, [task |-> "write", op |-> o]), reads, writers \cup {o}, inFlight)
        <5> HIDE DEF reads, writers
        <5> QED BY <1>0, <3>2, LinedWrite
      <4> QED BY <3>1, <3>2, <4>1
    <3> QED BY <1>1, <3>3
  <2> QED BY <2>1, <2>2, <2>3, <2>4
\* The first task is over.
<1>5. ASSUME NEW r, ServesRead(r) \/ FailsRead(r)
      PROVE  QueueInv'
  <2>1. /\ r \in ReadIds /\ OnLink(r) /\ IsRead(queue[1], r) /\ queue # <<>>
        /\ read'[r].at # "link" /\ \A q \in ReadIds : q # r => read'[q] = read[q]
        /\ queue' = Tail(queue) /\ UNCHANGED pc
        /\ inFlight' = inFlight \/ r = inFlight
    BY <1>5 DEF ServesRead, FailsRead, ReadAt, callVars
  <2>2. (\A q : IsRead(queue[1], q) <=> q = r) /\ \A o : ~IsWrite(queue[1], o)
    BY <2>1 DEF IsRead, IsWrite
  <2>3. reads' = {q \in reads : ~IsRead(queue[1], q)}
    BY <2>1, <2>2 DEF OnLink
  <2>4. writers' = {o \in writers : ~IsWrite(queue[1], o)}
    BY <2>1, <2>2
  <2>5. inFlight' = inFlight \/ IsRead(queue[1], inFlight)
    BY <2>1
  <2>6. Lined(queue', reads', writers', inFlight')
    <3>1. Lined(Tail(queue), {q \in reads : ~IsRead(queue[1], q)},
                {o \in writers : ~IsWrite(queue[1], o)}, inFlight')
      <4> HIDE DEF reads, writers
      <4> QED BY <1>0, <2>1, <2>5, LinedTail
    <3> QED BY <2>1, <2>3, <2>4, <3>1
  <2> QED BY <1>1, <2>6
<1>6. ASSUME NEW o, FailsWrite(o) \/ ServesWrite(o)
      PROVE  QueueInv'
  <2>1. /\ o \in Ops /\ pc[o] = "writing" /\ IsWrite(queue[1], o) /\ queue # <<>>
        /\ pc'[o] # "writing" /\ \A p \in Ops : p # o => pc'[p] = pc[p]
    BY <1>0, <1>6 DEF ServesWrite, FailsWrite, Finish, WriteAt
  <2>2. (\A p : IsWrite(queue[1], p) <=> p = o) /\ \A q : ~IsRead(queue[1], q)
    BY <2>1 DEF IsRead, IsWrite
  <2>3. writers' = {p \in writers : ~IsWrite(queue[1], p)}
    BY <2>1, <2>2
  <2>4. reads = {q \in reads : ~IsRead(queue[1], q)}
    BY <2>2
  <2>5. Lined(Tail(queue), reads, writers', inFlight)
    BY <1>0, <2>1, <2>3, <2>4, LinedTail
  <2>6. CASE FailsWrite(o)
    <3>1. queue' = Tail(queue) /\ UNCHANGED <<read, inFlight>>
      BY <2>6 DEF FailsWrite, readVars
    <3>2. reads' = reads
      BY <3>1 DEF OnLink
    <3> QED BY <1>1, <2>5, <3>1, <3>2
  <2>7. CASE ServesWrite(o)
    <3> DEFINE r == AfterWrite(o)
    <3>1. StartRead(o, r) /\ queue' = Append(Tail(queue), [task |-> "read", read |-> r])
      BY <2>7 DEF ServesWrite
    <3>2. r \in ReadIds /\ read[r].at = "none" /\ Written(r)
      BY <2>1, ReadNames DEF CallInv
    <3> HIDE DEF r
    <3>3. /\ read'[r].at = "link" /\ inFlight' = r
          /\ \A q \in ReadIds : q # r => read'[q] = read[q]
      BY <2>1, <3>1, <3>2, StartMoves
    <3>4. reads' = reads \cup {r} /\ r \notin reads
      BY <3>2, <3>3 DEF OnLink
    <3>5. Tail(queue) \in Seq(LinkTask)
      BY <2>1, QueueTail
    <3>6. Lined(queue', reads', writers', inFlight')
      <4>1. Lined(Append(Tail(queue), [task |-> "read", read |-> r]), reads \cup {r}, writers', r)
        <5> HIDE DEF reads, writers
        <5> QED BY <2>5, <3>2, <3>4, <3>5, LinedRead
      <4> QED BY <3>1, <3>3, <3>4, <4>1
    <3> QED BY <1>1, <3>6
  <2> QED BY <1>6, <2>6, <2>7
<1>7. CASE WriteOne
  <2>1. UNCHANGED <<queue, read, inFlight, pc>>
    BY <1>7 DEF WriteOne, readVars, callVars
  <2>2. reads' = reads /\ writers' = writers
    BY <2>1 DEF OnLink
  <2> QED BY <1>2, <2>1, <2>2
<1>8. ASSUME NEW r \in ReadIds, Record(r)
      PROVE  QueueInv'
  <2>1. Recording(r) /\ read'[r].at # "link" /\ (\A q \in ReadIds : q # r => read'[q] = read[q])
        /\ UNCHANGED <<queue, pc>> /\ (inFlight' = inFlight \/ inFlight = r)
    BY <1>8, RecordMoves DEF callVars, linkVars
  <2>2. reads' = reads /\ writers' = writers /\ r \notin reads
    BY <2>1 DEF OnLink, Recording
  <2> QED BY <1>2, <1>3, <2>1, <2>2
<1>9. CASE Expire \/ PanelEdit \/ UNCHANGED vars
  <2>1. UNCHANGED <<queue, read, inFlight, pc>>
    BY <1>9 DEF Expire, PanelEdit, vars, readVars, callVars, linkVars
  <2>2. reads' = reads /\ writers' = writers
    BY <2>1 DEF OnLink
  <2> QED BY <1>2, <2>1, <2>2
<1> QED BY <1>4, <1>5, <1>6, <1>7, <1>8, <1>9, LinkMoves DEF Next

-----------------------------------------------------------------------------
(* The type invariant.                                                     *)

LEMMA InitBase == Init => Base
<1> SUFFICES ASSUME Init PROVE Base
  OBVIOUS
<1>1. /\ pc = [o \in Ops |-> "idle"] /\ kind = [o \in Ops |-> "read"]
      /\ changes = [o \in Ops |-> Nothing] /\ awaits = [o \in Ops |-> <<None, "plain">>]
      /\ result = [o \in Ops |-> Nothing] /\ outcome = [o \in Ops |-> "none"]
      /\ inFlight = None /\ cache = [values |-> Nothing, readAt |-> 0] /\ stale = TRUE
      /\ queue = <<>> /\ written = {} /\ clock = 0 /\ rows = <<>>
  BY DEF Init
<1>2. \A r \in ReadIds : read[r] = [at |-> "none", values |-> Nothing, readAt |-> 0, row |-> 0]
  BY DEF Init
<1>3. read \in [ReadIds -> ReadRecord(Len(rows))]
  <2>1. [at |-> "none", values |-> Nothing, readAt |-> 0, row |-> 0] \in ReadRecord(0)
    BY Readings DEF ReadRecord
  <2>2. read \in [ReadIds -> ReadRecord(0)]
    BY <2>1 DEF Init
  <2> QED BY <1>1, <2>2
<1>4. /\ device \in [Settings -> Seq([value : Values, by : Ops \cup {Panel}])]
      /\ DeviceInv
  <2>1. PICK v \in [Settings -> Values] :
          device = [s \in Settings |-> <<[value |-> v[s], by |-> Panel]>>]
    BY DEF Init
  <2>2. \A s \in Settings : [value |-> v[s], by |-> Panel] \in
                             [value : Values, by : Ops \cup {Panel}]
    OBVIOUS
  <2> QED BY <2>1, <2>2 DEF DeviceInv
<1>5. TypeOK
  <2>1. /\ pc \in [Ops -> {"idle", "reading", "writing", "rereading", "done"}]
        /\ kind \in [Ops -> {"read", "apply"}]
        /\ changes \in [Ops -> Reading] /\ result \in [Ops -> Reading]
        /\ outcome \in [Ops -> {"none", "ok", "failed", "rule"}]
        /\ awaits \in [Ops -> ReadIds \cup {<<None, "plain">>}]
    BY <1>1, Readings
  <2>2. /\ inFlight \in NoOrRead /\ (inFlight # None => Pending(inFlight))
        /\ cache \in [values : Reading, readAt : Nat] /\ stale \in BOOLEAN
        /\ queue \in Seq(LinkTask) /\ clock \in Nat
        /\ rows \in Seq([values : Reading, readAt : Nat, lastSeenAt : Nat])
        /\ ~Serving("write") /\ written = {}
    BY <1>1, Readings DEF NoOrRead, Serving
  <2> QED BY <1>3, <1>4, <2>1, <2>2 DEF TypeOK, ReadRecord
<1>6. CallInv
  BY <1>1, <1>2, ReadNames DEF CallInv
<1>7. QueueInv
  BY <1>1, <1>2 DEF QueueInv, Lined, OnLink
<1>8. TimeInv
  BY <1>1, <1>2 DEF TimeInv
<1> QED BY <1>4, <1>5, <1>6, <1>7, <1>8 DEF Base

LEMMA BaseStep ==
    ASSUME Base, [Next]_vars
    PROVE  Base'
<1>1. TypeOK' /\ DeviceInv'
  <2>1. ASSUME NEW o \in Ops,
               Get(o) \/ ForcedRefresh(o) \/ Resume(o) \/ \E ch \in Changes : Apply(o, ch)
        PROVE  TypeOK' /\ DeviceInv'
    <3>1. UNCHANGED device
      BY <2>1, CallMoves
    <3> QED BY <2>1, <3>1, CallTypeStep DEF Base, DeviceInv
  <2> QED BY <2>1, LinkTypeStep, RecordTypeStep, OtherTypeStep DEF Next
<1>2. CallInv'
  BY CallStep
<1>3. QueueInv'
  BY QueueStep
<1>4. TimeInv'
  BY TimeStep
<1> QED BY <1>1, <1>2, <1>3, <1>4 DEF Base

\* Every state has its type, however calls of get, refresh and apply overlap: a
\* read that is shared is one that is under way, a call waits for a read or a
\* write that is queued or has settled, and what is read or stored is of the
\* inverter's past (SettingsService.get, read, apply).
THEOREM TypeCorrect == Spec => []TypeOK
<1>1. Base => TypeOK
  BY DEF Base
<1> QED BY InitBase, BaseStep, <1>1, PTL DEF Spec

-----------------------------------------------------------------------------
(* The cache and the shared reads.                                         *)

\* The cache only ever takes a later reading, though read-backs overtake shared
\* reads and their recordings end in any order, and a read to share is begun only
\* when no read waits on the link (SettingsService.refresh).
THEOREM ReadsAreInTurn == Spec => ReadsInTurn
<1>1. ASSUME Base, [Next]_vars
      PROVE  cache' # cache => cache.readAt < cache'.readAt
  <2>1. cache.readAt <= clock /\ cache.readAt \in Nat /\ clock \in Nat
    BY <1>1 DEF Base, TimeInv, TypeOK
  <2>2. ASSUME NEW r, ServesRead(r) \/ FailsRead(r)
        PROVE  cache' # cache => cache.readAt < cache'.readAt
    BY <2>1, <2>2 DEF ServesRead, FailsRead
  <2>3. ASSUME NEW o, ServesWrite(o) \/ FailsWrite(o)
        PROVE  UNCHANGED cache
    BY <2>3 DEF ServesWrite, FailsWrite, readVars
  <2>4. WriteOne \/ Expire \/ PanelEdit \/ UNCHANGED vars => UNCHANGED cache
    BY DEF WriteOne, Expire, PanelEdit, vars, readVars
  <2>5. ASSUME NEW r \in ReadIds, Record(r)
        PROVE  UNCHANGED cache
    BY <1>1, <2>5, RecordMoves DEF Base
  <2> QED BY <1>1, <2>2, <2>3, <2>4, <2>5, LinkMoves, CallMoves DEF Next
<1>2. ASSUME Base, [Next]_vars, NEW o \in Ops, read[Plain(o)].at # "link",
             read'[Plain(o)].at = "link"
      PROVE  inFlight = None
  <2> DEFINE q == Plain(o)
  <2>1. q \in ReadIds /\ \A p \in Ops : AfterWrite(p) # q /\ (Plain(p) = q => p = o)
        /\ Plain(p) \in ReadIds /\ AfterWrite(p) \in ReadIds
    BY ReadNames
  <2> HIDE DEF q
  <2>2. TypeOK /\ read[q].at # "link" /\ read'[q].at = "link"
    BY <1>2 DEF q, Base
  <2>3. ASSUME NEW p \in Ops,
               Get(p) \/ ForcedRefresh(p) \/ Resume(p) \/ \E ch \in Changes : Apply(p, ch)
        PROVE  inFlight = None
    <3>1. Starts(p)
      BY <1>2, <2>2, <2>3, CallMoves DEF Shares, Ends, Chains
    <3> QED BY <3>1 DEF Starts
  <2>4. ASSUME NEW r, ServesRead(r) \/ FailsRead(r)
        PROVE  FALSE
    BY <2>1, <2>2, <2>4 DEF ServesRead, FailsRead, OnLink
  <2>5. ASSUME NEW p, ServesWrite(p)
        PROVE  FALSE
    <3>1. p \in Ops /\ StartRead(p, AfterWrite(p))
      BY <2>5 DEF ServesWrite
    <3>2. AfterWrite(p) \in ReadIds /\ AfterWrite(p) # q
      BY <2>1, <3>1
    <3> QED BY <2>1, <2>2, <3>1, <3>2, StartMoves
  <2>6. ASSUME NEW p, FailsWrite(p)
        PROVE  FALSE
    BY <2>2, <2>6 DEF FailsWrite, readVars
  <2>7. ~(WriteOne \/ Expire \/ PanelEdit \/ UNCHANGED vars)
    BY <2>2 DEF WriteOne, Expire, PanelEdit, vars, readVars
  <2>8. ASSUME NEW r \in ReadIds, Record(r)
        PROVE  FALSE
    BY <2>1, <2>2, <2>8, RecordMoves
  <2> QED BY <1>2, <2>3, <2>4, <2>5, <2>6, <2>7, <2>8, LinkMoves DEF Next
<1>3. ASSUME Base, inFlight = None
      PROVE  \A r \in ReadIds : ~OnLink(r)
  BY <1>3, ReadNames DEF Base, QueueInv, Lined, IsRead
<1>4. ASSUME Base, [Next]_vars
      PROVE  \A o \in Ops : OnLink(<<o, "plain">>)' /\ ~OnLink(<<o, "plain">>) =>
                           \A r \in ReadIds : ~OnLink(r)
  <2> SUFFICES ASSUME NEW o \in Ops, OnLink(<<o, "plain">>)', ~OnLink(<<o, "plain">>)
               PROVE  \A r \in ReadIds : ~OnLink(r)
    OBVIOUS
  <2>1. read[Plain(o)].at # "link" /\ read'[Plain(o)].at = "link"
    BY DEF OnLink, Plain
  <2> QED BY <1>2, <1>3, <1>4, <2>1
<1> QED BY InitBase, BaseStep, <1>1, <1>4, PTL DEF Spec, ReadsInTurn

-----------------------------------------------------------------------------
(* The read-back.                                                          *)

\* Of the values a setting had: o wrote one of them; v is one it had then or
\* later.
WroteIt(d, o)      == \E i \in DOMAIN d : d[i].by = o
HeldSince(d, o, v) ==
    \E i \in DOMAIN d : d[i].by = o /\ \E j \in i..Len(d) : d[j].value = v

\* What the read-back of o may rest on: the settings the write being served
\* has written, the writes a read-back was started after, and what it read.
Wrote ==
    Serving("write") => \A s \in Settings : s \in written => WroteIt(device[s], Head(queue).op)

Backed(o, s) ==
    changes[o][s] # Missing =>
      /\ read[AfterWrite(o)].at # "none" => WroteIt(device[s], o)
      /\ Served(AfterWrite(o)) /\ read[AfterWrite(o)].values[s] # Missing =>
           HeldSince(device[s], o, read[AfterWrite(o)].values[s])
      /\ outcome[o] = "ok" /\ result[o][s] # Missing =>
           HeldSince(device[s], o, result[o][s])

ReadBackInv == Wrote /\ \A o \in Ops : \A s \in Settings : Backed(o, s)

\* What was written or held stays so when another value follows.
LEMMA MoreValues ==
    ASSUME NEW d \in Seq(Entry), NEW e \in Entry, NEW o, NEW v
    PROVE  /\ WroteIt(d, o) => WroteIt(Append(d, e), o)
           /\ HeldSince(d, o, v) => HeldSince(Append(d, e), o, v)
           /\ WroteIt(Append(d, e), e.by)
<1> DEFINE k == Append(d, e)
<1>1. /\ Len(d) \in Nat /\ Len(k) = Len(d) + 1 /\ k[Len(d) + 1] = e
      /\ DOMAIN d = 1..Len(d) /\ DOMAIN k = 1..Len(k)
      /\ \A i \in DOMAIN d : k[i] = d[i]
  OBVIOUS
<1> HIDE DEF k
<1>2. WroteIt(d, o) => WroteIt(k, o)
  BY <1>1 DEF WroteIt
<1>3. ASSUME HeldSince(d, o, v)
      PROVE  HeldSince(k, o, v)
  <2>1. PICK i \in DOMAIN d : d[i].by = o /\ \E j \in i..Len(d) : d[j].value = v
    BY <1>3 DEF HeldSince
  <2>2. PICK j \in i..Len(d) : d[j].value = v
    BY <2>1
  <2>3. i \in DOMAIN k /\ j \in i..Len(k) /\ k[i].by = o /\ k[j].value = v
    BY <1>1, <2>1, <2>2
  <2> QED BY <2>3 DEF HeldSince
<1>4. WroteIt(k, e.by)
  BY <1>1 DEF WroteIt
<1> QED BY <1>2, <1>3, <1>4 DEF k

\* The value held now is one held since any write.
LEMMA HeldNow ==
    ASSUME NEW d \in Seq(Entry), NEW o, WroteIt(d, o)
    PROVE  HeldSince(d, o, d[Len(d)].value)
BY DEF WroteIt, HeldSince

LEMMA InitReadBack == Init => ReadBackInv
<1> SUFFICES ASSUME Init PROVE ReadBackInv
  OBVIOUS
<1>1. queue = <<>> /\ \A o \in Ops : changes[o] = Nothing
  BY DEF Init
<1> QED BY <1>1 DEF ReadBackInv, Wrote, Backed, Serving, Nothing

\* The device changes one setting at a time, and by a value added.
LEMMA DeviceMoves ==
    ASSUME Base, [Next]_vars
    PROVE  /\ UNCHANGED device \/ WriteOne \/ PanelEdit
           /\ \A s \in Settings : \/ device'[s] = device[s]
                                \/ \E e \in Entry : device'[s] = Append(device[s], e)
<1>. TypeOK
  BY DEF Base
<1>1. UNCHANGED device \/ WriteOne \/ PanelEdit
  <2>1. ASSUME NEW r \in ReadIds, Record(r)
        PROVE  UNCHANGED device
    BY <2>1, RecordMoves DEF linkVars
  <2>2. ASSUME NEW r, ServesRead(r) \/ FailsRead(r)
        PROVE  UNCHANGED device
    BY <2>2 DEF ServesRead, FailsRead
  <2>3. ASSUME NEW o, ServesWrite(o) \/ FailsWrite(o)
        PROVE  UNCHANGED device
    BY <2>3 DEF ServesWrite, FailsWrite
  <2>4. Expire \/ UNCHANGED vars => UNCHANGED device
    BY DEF Expire, vars, linkVars
  <2> QED BY <2>1, <2>2, <2>3, <2>4, LinkMoves, CallMoves DEF Next
<1>2. device \in [Settings -> Seq(Entry)]
  BY DEF TypeOK, Entry
<1>3. CASE UNCHANGED device
  BY <1>3
<1>5. CASE WriteOne
  <2> DEFINE o == Head(queue).op
  <2>1. o \in Ops
    BY <1>5, FirstTask DEF WriteOne
  <2>2. PICK s \in Settings :
          /\ changes[o][s] # Missing
          /\ device' = [device EXCEPT ![s] = Append(@, [value |-> changes[o][s], by |-> o])]
    BY <1>5 DEF WriteOne
  <2> DEFINE e == [value |-> changes[o][s], by |-> o]
  <2>3. e \in Entry
    BY <2>1, <2>2 DEF TypeOK, Reading, Entry
  <2>4. device'[s] = Append(device[s], e) /\ \A t \in Settings : t # s => device'[t] = device[t]
    BY <1>2, <2>2
  <2> HIDE DEF e
  <2> QED BY <1>1, <2>3, <2>4
<1>6. CASE PanelEdit
  <2>1. PICK s \in Settings, v \in Values :
          device' = [device EXCEPT ![s] = Append(@, [value |-> v, by |-> Panel])]
    BY <1>6 DEF PanelEdit
  <2> DEFINE e == [value |-> v, by |-> Panel]
  <2>2. e \in Entry
    BY DEF Entry
  <2>3. device'[s] = Append(device[s], e) /\ \A t \in Settings : t # s => device'[t] = device[t]
    BY <1>2, <2>1
  <2> HIDE DEF e
  <2> QED BY <1>1, <2>2, <2>3
<1> QED BY <1>1, <1>3, <1>5, <1>6

LEMMA ReadBackStep ==
    ASSUME Base, Base', ReadBackInv, [Next]_vars
    PROVE  ReadBackInv'
<1>. TypeOK /\ TypeOK' /\ CallInv /\ QueueInv
  BY DEF Base
<1>0. /\ pc \in [Ops -> {"idle", "reading", "writing", "rereading", "done"}]
      /\ outcome \in [Ops -> {"none", "ok", "failed", "rule"}]
      /\ changes \in [Ops -> Reading] /\ result \in [Ops -> Reading]
      /\ kind \in [Ops -> {"read", "apply"}]
      /\ \A s \in Settings : device[s] \in Seq(Entry)
      /\ device \in [Settings -> Seq(Entry)]
  BY DEF TypeOK, Entry
<1>1. \A o \in Ops : \A s \in Settings : Backed(o, s)
  BY DEF ReadBackInv
\* The values a setting had only grow.
<1>2. \A s \in Settings : \/ device'[s] = device[s]
                         \/ \E e \in Entry : device'[s] = Append(device[s], e)
  BY DeviceMoves
<1>3. ASSUME NEW s \in Settings, NEW o, NEW v
      PROVE  /\ WroteIt(device[s], o) => WroteIt(device'[s], o)
             /\ HeldSince(device[s], o, v) => HeldSince(device'[s], o, v)
  <2>1. device[s] \in Seq(Entry)
    BY <1>0
  <2>2. CASE device'[s] = device[s]
    BY <2>2
  <2>3. ASSUME NEW e \in Entry, device'[s] = Append(device[s], e)
        PROVE  /\ WroteIt(device[s], o) => WroteIt(device'[s], o)
               /\ HeldSince(device[s], o, v) => HeldSince(device'[s], o, v)
    BY <2>1, <2>3, MoreValues
  <2> QED BY <1>2, <2>2, <2>3
\* A call whose read-back has not moved, and that has not ended.
<1>4. ASSUME NEW o \in Ops, NEW s \in Settings, changes'[o] = changes[o],
             read'[AfterWrite(o)] = read[AfterWrite(o)],
             outcome'[o] = "ok" => outcome[o] = "ok" /\ result'[o] = result[o]
      PROVE  Backed(o, s)'
  <2>1. Backed(o, s)
    BY <1>1
  <2> QED BY <1>3, <1>4, <2>1 DEF Backed, Served
\* No write is served, or the same one with nothing more written.
<1>5. ASSUME written' = {} \/ (/\ Serving("write") /\ Head(queue') = Head(queue)
                               /\ written' = written)
      PROVE  Wrote'
  <2>1. CASE written' = {}
    BY <2>1 DEF Wrote
  <2>2. CASE Serving("write") /\ Head(queue') = Head(queue) /\ written' = written
    BY <1>3, <2>2 DEF Wrote, ReadBackInv
  <2> QED BY <1>5, <2>1, <2>2
<1>6. UNCHANGED <<queue, written>> => Wrote'
  BY <1>5 DEF TypeOK
\* Calls.
<1>7. ASSUME NEW o \in Ops,
             Get(o) \/ ForcedRefresh(o) \/ Resume(o) \/ \E ch \in Changes : Apply(o, ch)
      PROVE  ReadBackInv'
  <2>1. /\ Shares(o) \/ Starts(o) \/ Ends(o) \/ Chains(o)
        /\ UNCHANGED <<written, device>>
        /\ \/ UNCHANGED <<kind, changes>>
           \/ /\ pc[o] = "idle" /\ changes' = [changes EXCEPT ![o] = changes'[o]]
    BY <1>7, CallMoves
  <2>2. Wrote'
    <3>1. ASSUME NEW x \in LinkTask, queue' = Append(queue, x)
          PROVE  written' = {} \/ (Serving("write") /\ Head(queue') = Head(queue) /\ written' = written)
      BY <2>1, <3>1, ServingAppend DEF TypeOK, Serving
    <3>2. UNCHANGED queue \/ \E x \in LinkTask : queue' = Append(queue, x)
      BY <2>1, LinkTasks, ReadNames DEF Shares, Starts, Ends, Chains
    <3> QED BY <1>5, <1>6, <2>1, <3>1, <3>2
  <2>3. \A p \in Ops : read'[AfterWrite(p)] = read[AfterWrite(p)]
    BY <2>1, StartMoves, ReadNames DEF Shares, Starts, Ends, Chains
  <2>4. ASSUME NEW p \in Ops, p # o
        PROVE  changes'[p] = changes[p] /\ outcome'[p] = outcome[p] /\ result'[p] = result[p]
    BY <1>0, <2>1, <2>4 DEF Shares, Starts, Ends, Chains
  <2>5. ASSUME NEW s \in Settings
        PROVE  Backed(o, s)'
    <3>1. CASE outcome'[o] = "ok" => outcome[o] = "ok" /\ result'[o] = result[o]
      <4>1. CASE UNCHANGED changes
        BY <1>4, <2>3, <3>1, <4>1
      <4>2. CASE pc[o] = "idle"
        <5>1. read'[AfterWrite(o)].at = "none" /\ outcome'[o] # "ok"
          BY <2>3, <3>1, <4>2 DEF CallInv
        <5> QED BY <5>1 DEF Backed, Served
      <4> QED BY <2>1, <4>1, <4>2
    <3>2. CASE Ends(o) /\ outcome'[o] = "ok" /\ changes'[o] # Nothing
      <4>1. /\ pc[o] = "rereading" /\ Done(AfterWrite(o)) /\ UNCHANGED changes
            /\ result'[o] = read[AfterWrite(o)].values
        BY <2>1, <3>2 DEF Ends, CallInv
      <4>2. Backed(o, s) /\ Served(AfterWrite(o))
        BY <1>1, <4>1 DEF Done, Served
      <4> QED BY <1>3, <2>3, <4>1, <4>2 DEF Backed, Served
    <3>3. CASE changes'[o] = Nothing
      BY <3>3 DEF Backed, Nothing
    <3> QED BY <2>1, <3>1, <3>2, <3>3 DEF Shares, Starts, Chains
  <2> QED BY <1>4, <2>2, <2>3, <2>4, <2>5 DEF ReadBackInv
\* The link.
<1>8. ASSUME NEW r, ServesRead(r) \/ FailsRead(r)
      PROVE  ReadBackInv'
  <2>1. /\ r \in ReadIds /\ OnLink(r) /\ IsRead(queue[1], r) /\ queue # <<>>
        /\ \A q \in ReadIds : q # r => read'[q] = read[q]
        /\ UNCHANGED <<changes, outcome, result, written, device>>
    BY <1>8 DEF ServesRead, FailsRead, ReadAt, callVars
  <2>2. Wrote'
    <3>1. ~Serving("write")
      BY <2>1, QueueTail DEF Serving, IsRead
    <3> QED BY <1>5, <2>1, <3>1 DEF TypeOK
  <2>3. ASSUME NEW o \in Ops, NEW s \in Settings
        PROVE  Backed(o, s)'
    <3>1. AfterWrite(o) \in ReadIds /\ Backed(o, s) /\ device[s] \in Seq(Entry)
      BY <1>0, <1>1, ReadNames
    <3>2. CASE AfterWrite(o) # r
      BY <1>4, <2>1, <3>1, <3>2
    <3>3. CASE AfterWrite(o) = r /\ FailsRead(r)
      BY <2>1, <3>1, <3>3 DEF FailsRead, Backed, Served, OnLink
    <3>4. CASE AfterWrite(o) = r /\ ServesRead(r)
      <4>1. read'[r].values[s] \in {Missing, device[s][Len(device[s])].value}
        BY <3>4 DEF ServesRead, Held
      <4>2. changes[o][s] # Missing => WroteIt(device[s], o)
        BY <2>1, <3>1, <3>4 DEF Backed, OnLink
      <4>3. changes[o][s] # Missing /\ read'[r].values[s] # Missing =>
              HeldSince(device[s], o, read'[r].values[s])
        BY <3>1, <4>1, <4>2, HeldNow
      <4> QED BY <2>1, <3>1, <3>4, <4>2, <4>3 DEF Backed
    <3> QED BY <1>8, <3>2, <3>3, <3>4
  <2> QED BY <2>2, <2>3 DEF ReadBackInv
<1>9. CASE WriteOne
  <2>1. /\ UNCHANGED <<changes, outcome, result, queue, read>> /\ Serving("write")
    BY <1>9 DEF WriteOne, callVars, readVars
  <2>2. PICK s \in Settings :
          /\ written' = written \cup {s}
          /\ device' = [device EXCEPT ![s] = Append(@, [value |-> changes[Head(queue).op][s], by |-> Head(queue).op])]
    BY <1>9 DEF WriteOne
  <2>3. WroteIt(device'[s], Head(queue).op)
    <3> DEFINE o == Head(queue).op
               e == [value |-> changes[o][s], by |-> o]
    <3>1. device'[s] = Append(device[s], e) /\ Len(device[s]) \in Nat
      BY <1>0, <2>2
    <3>2. Len(device'[s]) = Len(device[s]) + 1 /\ device'[s][Len(device[s]) + 1].by = o
          /\ DOMAIN device'[s] = 1..Len(device'[s])
      BY <1>0, <3>1
    <3> QED BY <3>1, <3>2 DEF WroteIt
  <2>4. Wrote'
    BY <1>3, <2>1, <2>2, <2>3 DEF Wrote, ReadBackInv
  <2> QED BY <1>4, <2>1, <2>4 DEF ReadBackInv
<1>10. ASSUME NEW o, FailsWrite(o)
       PROVE  ReadBackInv'
  <2>1. o \in Ops /\ Finish(o, "failed", Nothing) /\ written' = {} /\ UNCHANGED <<changes, read>>
    BY <1>10 DEF FailsWrite, readVars
  <2>2. \A p \in Ops : outcome'[p] = "ok" => outcome[p] = "ok" /\ result'[p] = result[p]
    BY <1>0, <2>1 DEF Finish
  <2> QED BY <1>4, <1>5, <2>1, <2>2 DEF ReadBackInv
<1>11. ASSUME NEW o, ServesWrite(o)
       PROVE  ReadBackInv'
  <2>1. /\ o \in Ops /\ StartRead(o, AfterWrite(o)) /\ IsWrite(queue[1], o) /\ queue # <<>>
        /\ UNCHANGED <<changes, outcome, result, device>> /\ written' = {}
        /\ \A s \in Settings : changes[o][s] # Missing => s \in written
    BY <1>11 DEF ServesWrite, WriteAt
  <2>2. Wrote'
    BY <1>5, <2>1
  <2>3. /\ AfterWrite(o) \in ReadIds /\ read'[AfterWrite(o)].at = "link"
        /\ \A p \in Ops : p # o => read'[AfterWrite(p)] = read[AfterWrite(p)]
    BY <2>1, StartMoves, ReadNames
  <2>4. ASSUME NEW p \in Ops, NEW s \in Settings, p # o
        PROVE  Backed(p, s)'
    BY <1>4, <2>1, <2>3, <2>4
  <2>5. ASSUME NEW s \in Settings
        PROVE  Backed(o, s)'
    <3>1. Serving("write") /\ Head(queue).op = o
      BY <2>1, QueueTail DEF IsWrite, Serving
    <3>2. changes[o][s] # Missing => WroteIt(device[s], o)
      BY <2>1, <3>1 DEF Wrote, ReadBackInv
    <3> QED BY <1>1, <2>1, <2>3, <3>2 DEF Backed, Served
  <2> QED BY <2>2, <2>4, <2>5 DEF ReadBackInv
\* The history, and the rest.
<1>12. ASSUME NEW r \in ReadIds, Record(r)
       PROVE  ReadBackInv'
  <2>1. /\ \A q \in ReadIds : q # r => read'[q] = read[q]
        /\ read'[r].values = read[r].values /\ Recording(r)
        /\ UNCHANGED <<changes, outcome, result, queue, written, device>>
    BY <1>12, RecordMoves DEF callVars, linkVars
  <2>2. ASSUME NEW o \in Ops, NEW s \in Settings
        PROVE  Backed(o, s)'
    <3>1. AfterWrite(o) \in ReadIds /\ Backed(o, s)
      BY <1>1, ReadNames
    <3>2. CASE AfterWrite(o) # r
      BY <1>4, <2>1, <3>1, <3>2
    <3>3. CASE AfterWrite(o) = r
      BY <2>1, <3>1, <3>3 DEF Backed, Served, Recording
    <3> QED BY <3>2, <3>3
  <2> QED BY <1>6, <2>1, <2>2 DEF ReadBackInv
<1>13. CASE Expire \/ PanelEdit \/ UNCHANGED vars
  <2>1. UNCHANGED <<changes, outcome, result, queue, written, read>>
    BY <1>13 DEF Expire, PanelEdit, vars, callVars, readVars, linkVars
  <2> QED BY <1>4, <1>6, <2>1 DEF ReadBackInv
<1> QED BY <1>7, <1>8, <1>9, <1>10, <1>11, <1>12, <1>13, LinkMoves DEF Next

\* An apply that succeeds returns, of each setting it changed, a value the
\* inverter held after its own write, and never that of a read already under way
\* when it wrote (the forced read of SettingsService.apply).
THEOREM ReadBacksFollowWrites == Spec => []ReadBackFollowsWrite
<1>1. ASSUME Base, ReadBackInv
      PROVE  ReadBackFollowsWrite
  <2> SUFFICES ASSUME NEW o \in Ops, outcome[o] = "ok", NEW s \in Settings,
                      changes[o][s] # Missing, result[o][s] # Missing
               PROVE  \E i \in DOMAIN device[s] :
                        /\ device[s][i].by = o
                        /\ \E j \in i..Len(device[s]) : device[s][j].value = result[o][s]
    BY DEF ReadBackFollowsWrite
  <2>1. HeldSince(device[s], o, result[o][s])
    BY <1>1 DEF ReadBackInv, Backed
  <2> QED BY <2>1 DEF HeldSince
<1>2. Init => Base /\ ReadBackInv
  BY InitBase, InitReadBack
<1>3. Base /\ ReadBackInv /\ [Next]_vars => (Base /\ ReadBackInv)'
  BY BaseStep, ReadBackStep
<1> QED BY <1>1, <1>2, <1>3, PTL DEF Spec

-----------------------------------------------------------------------------
(* The history.                                                            *)

\* A read to share begins when nothing is shared, a read-back at any time.
Begins(r) ==
    /\ r \in ReadIds /\ read[r].at = "none" /\ read'[r].at = "link" /\ inFlight' = r
    /\ Written(r) \/ inFlight = None
    /\ \A q \in ReadIds : q # r => read'[q] = read[q]
    /\ UNCHANGED <<rows, clock>>

Still == UNCHANGED <<read, inFlight, rows, clock>>

\* Every step, by what it does to the reads and the rows.
LEMMA HistoryMoves ==
    ASSUME Base, [Next]_vars
    PROVE  \/ Still
           \/ \E r : Begins(r) \/ ServesRead(r) \/ FailsRead(r)
           \/ \E r \in ReadIds : Record(r)
<1>. TypeOK /\ CallInv
  BY DEF Base
<1>1. ASSUME NEW o \in Ops,
             Get(o) \/ ForcedRefresh(o) \/ Resume(o) \/ \E ch \in Changes : Apply(o, ch)
      PROVE  Still \/ Begins(Plain(o))
  <2>1. Shares(o) \/ Starts(o) \/ Ends(o) \/ Chains(o)
    BY <1>1, CallMoves
  <2>2. UNCHANGED <<clock, rows>>
    BY <1>1, CallMoves
  <2>3. CASE Starts(o)
    <3> DEFINE r == Plain(o)
    <3>1. r \in ReadIds /\ read[r].at = "none" /\ inFlight = None /\ StartRead(o, r)
      BY <2>3, ReadNames DEF Starts, CallInv
    <3> HIDE DEF r
    <3>2. Begins(r)
      BY <2>2, <3>1, StartMoves DEF Begins
    <3> QED BY <3>2 DEF r
  <2> QED BY <2>1, <2>2, <2>3 DEF Shares, Ends, Chains, Still
<1>2. ASSUME NEW o, ServesWrite(o)
      PROVE  Begins(AfterWrite(o))
  <2> DEFINE r == AfterWrite(o)
  <2>1. /\ o \in Ops /\ r \in ReadIds /\ read[r].at = "none" /\ Written(r) /\ StartRead(o, r)
        /\ UNCHANGED <<rows, clock>>
    BY <1>2, ReadNames DEF ServesWrite, CallInv
  <2> HIDE DEF r
  <2>2. Begins(r)
    BY <2>1, StartMoves DEF Begins
  <2> QED BY <2>2 DEF r
<1>3. ASSUME NEW o, FailsWrite(o)
      PROVE  Still
  BY <1>3 DEF FailsWrite, readVars, Still
<1>4. WriteOne \/ Expire \/ PanelEdit \/ UNCHANGED vars => Still
  BY DEF WriteOne, Expire, PanelEdit, vars, readVars, linkVars, Still
<1> QED BY <1>1, <1>2, <1>3, <1>4, LinkMoves DEF Next

\* The read at the head of the queue has only read-backs behind it, and is the
\* shared one unless one of them is.
LEMMA HeadRead ==
    ASSUME Base, NEW r, ServesRead(r)
    PROVE  /\ \A q \in ReadIds : OnLink(q) /\ q # r => Written(q)
           /\ inFlight \in ReadIds
           /\ inFlight # r => OnLink(inFlight)
<1>1. Lined(queue, {q \in ReadIds : OnLink(q)}, {o \in Ops : pc[o] = "writing"}, inFlight)
  BY DEF Base, QueueInv
<1>2. /\ r \in ReadIds /\ OnLink(r) /\ IsRead(queue[1], r) /\ 1 \in DOMAIN queue
      /\ DOMAIN queue = 1..Len(queue) /\ Len(queue) \in Nat
  BY QueueTail DEF ServesRead, ReadAt, Base
<1>3. ASSUME NEW q \in ReadIds, OnLink(q), q # r
      PROVE  Written(q)
  <2>1. PICK j \in DOMAIN queue : IsRead(queue[j], q)
    BY <1>1, <1>3 DEF Lined
  <2>2. 1 < j
    BY <1>2, <1>3, <2>1 DEF IsRead
  <2> QED BY <1>1, <1>2, <2>1, <2>2 DEF Lined, IsRead
<1>4. PICK j \in DOMAIN queue : IsRead(queue[j], inFlight)
  BY <1>1, <1>2 DEF Lined, IsRead
<1>5. inFlight \in ReadIds /\ OnLink(inFlight)
  BY <1>1, <1>4 DEF Lined, IsRead
<1> QED BY <1>3, <1>5

\* Every read that was served was read at a time of its own, and every row
\* holds the time of a read of its own that was recorded.
Timed    == \A r \in ReadIds : Served(r) => 1 <= read[r].readAt
Distinct == \A r, q \in ReadIds :
              Served(r) /\ Served(q) /\ read[r].readAt = read[q].readAt => r = q
Sourced  == \A i \in DOMAIN rows :
              \E r \in ReadIds : read[r].at = "settled" /\ read[r].readAt = rows[i].readAt
OneRow   == \A i, j \in DOMAIN rows : rows[i].readAt = rows[j].readAt => i = j
ReadAtInv == Timed /\ Distinct /\ Sourced /\ OneRow

LEMMA InitReadAt == Init => ReadAtInv
<1> SUFFICES ASSUME Init PROVE ReadAtInv
  OBVIOUS
<1>1. rows = <<>> /\ \A r \in ReadIds : read[r].at = "none"
  BY DEF Init
<1> QED BY <1>1 DEF ReadAtInv, Timed, Distinct, Sourced, OneRow, Served

LEMMA ReadAtStep ==
    ASSUME Base, ReadAtInv, [Next]_vars
    PROVE  ReadAtInv'
<1>. TypeOK /\ TimeInv /\ Timed /\ Distinct /\ Sourced /\ OneRow
  BY DEF Base, ReadAtInv
<1>0. /\ read \in [ReadIds -> ReadRecord(Len(rows))] /\ clock \in Nat
      /\ \A r \in ReadIds : read[r].readAt \in Nat /\ read[r].readAt <= clock
      /\ DOMAIN rows = 1..Len(rows) /\ Len(rows) \in Nat
      /\ \A i \in DOMAIN rows : rows[i].readAt \in Nat
  <2>1. read \in [ReadIds -> ReadRecord(Len(rows))]
    BY ReadTypes
  <2>2. \A r \in ReadIds : read[r].readAt \in Nat
    BY <2>1 DEF ReadRecord
  <2> QED BY <2>1, <2>2, RowTypes DEF TypeOK, TimeInv
<1>1. CASE Still
  BY <1>1 DEF Still, ReadAtInv, Timed, Distinct, Sourced, OneRow, Served
\* Reads that are not served before or after.
<1>2. ASSUME NEW r \in ReadIds, \A q \in ReadIds : q # r => read'[q] = read[q],
             ~Served(r), read'[r].at \in {"link", "failed"}, UNCHANGED rows
      PROVE  ReadAtInv'
  <2>1. Timed'
    BY <1>2 DEF Timed, Served
  <2>2. Distinct'
    BY <1>2 DEF Distinct, Served
  <2>3. Sourced'
    BY <1>2 DEF Sourced, Served
  <2> QED BY <1>2, <2>1, <2>2, <2>3 DEF ReadAtInv, OneRow
<1>3. ASSUME NEW r, Begins(r) \/ FailsRead(r)
      PROVE  ReadAtInv'
  BY <1>2, <1>3 DEF Begins, FailsRead, Served, OnLink
<1>4. ASSUME NEW r, ServesRead(r)
      PROVE  ReadAtInv'
  <2>1. /\ r \in ReadIds /\ read[r].at = "link" /\ read'[r].at = "look"
        /\ read'[r].readAt = clock + 1 /\ UNCHANGED rows
        /\ \A q \in ReadIds : q # r => read'[q] = read[q]
    BY <1>4 DEF ServesRead, OnLink
  <2>2. Timed'
    BY <1>0, <2>1 DEF Timed, Served
  <2>3. Distinct'
    BY <1>0, <2>1 DEF Distinct, Served
  <2>4. Sourced'
    BY <2>1 DEF Sourced
  <2> QED BY <2>1, <2>2, <2>3, <2>4 DEF ReadAtInv, OneRow
<1>5. ASSUME NEW r \in ReadIds, Record(r)
      PROVE  ReadAtInv'
  <2>1. /\ \A q \in ReadIds : q # r => read'[q] = read[q]
        /\ read'[r].readAt = read[r].readAt /\ Recording(r)
        /\ read'[r].at \in {"store", "settled", "unrecorded"}
        /\ ~Store(r) => UNCHANGED rows
        /\ Store(r) => read'[r].at = "settled"
    <3>1. Store(r) => read'[r].at = "settled"
      BY <1>0 DEF Store, Settle, ReadRecord
    <3> QED BY <1>5, <3>1, RecordMoves
  <2>2. Served(r) /\ read[r].at # "settled"
    BY <2>1 DEF Recording, Served
  <2>3. \A q \in ReadIds : read'[q].readAt = read[q].readAt /\ (Served(q)' => Served(q))
    BY <2>1, <2>2 DEF Served
  <2>4. Timed' /\ Distinct'
    BY <2>3 DEF Timed, Distinct
  <2>5. \A i \in DOMAIN rows : \E q \in ReadIds : read'[q].at = "settled"
                               /\ read'[q].readAt = rows[i].readAt
    BY <2>1, <2>2 DEF Sourced
  <2>6. CASE UNCHANGED rows
    BY <2>4, <2>5, <2>6 DEF ReadAtInv, Sourced, OneRow
  <2>7. CASE Store(r)
    <3>1. CASE DOMAIN rows' = DOMAIN rows /\ \A i \in DOMAIN rows : rows'[i].readAt = rows[i].readAt
      BY <2>4, <2>5, <3>1 DEF ReadAtInv, Sourced, OneRow
    <3>2. CASE /\ DOMAIN rows' = 1..(Len(rows) + 1)
               /\ \A i \in DOMAIN rows : rows'[i] = rows[i]
               /\ rows'[Len(rows) + 1].readAt = read[r].readAt
      <4> DEFINE n == Len(rows) + 1
      <4>1. \A i \in DOMAIN rows' : i \in DOMAIN rows \/ i = n
        BY <1>0, <3>2
      <4>2. \A i \in DOMAIN rows : rows[i].readAt # read[r].readAt
        BY <2>2 DEF Sourced, Distinct, Served
      <4> HIDE DEF n
      <4>3. rows'[n].readAt = read[r].readAt /\ \A i \in DOMAIN rows : rows'[i] = rows[i]
        BY <3>2 DEF n
      <4>4. OneRow'
        BY <4>1, <4>2, <4>3 DEF OneRow
      <4>5. Sourced'
        BY <2>1, <2>5, <2>7, <4>1, <4>3 DEF Sourced
      <4> QED BY <2>4, <4>4, <4>5 DEF ReadAtInv
    <3> QED BY <2>7, <3>1, <3>2, RowsStored
  <2> QED BY <2>1, <2>6, <2>7
<1> QED BY <1>1, <1>3, <1>4, <1>5, HistoryMoves

\* The row with the latest time, of any table.
LatestOf(l) ==
    IF l = <<>> THEN 0
    ELSE CHOOSE i \in DOMAIN l : \A j \in DOMAIN l : l[j].readAt <= l[i].readAt

LEMMA LatestIs ==
    ASSUME NEW l \in Seq(Row), NEW i \in DOMAIN l,
           \A j \in DOMAIN l : j # i => l[j].readAt < l[i].readAt
    PROVE  LatestOf(l) = i
<1>1. \A j \in DOMAIN l : l[j].readAt \in Nat
  <2>1. \A j \in DOMAIN l : l[j] \in Row
    OBVIOUS
  <2> QED BY <2>1 DEF Row
<1>2. l # <<>>
  OBVIOUS
<1>3. \A j \in DOMAIN l : l[j].readAt <= l[i].readAt
  BY <1>1
<1>4. \A k \in DOMAIN l : (\A j \in DOMAIN l : l[j].readAt <= l[k].readAt) => k = i
  BY <1>1
<1> QED BY <1>2, <1>3, <1>4 DEF LatestOf

\* A row of a later reading exists already.
Follows(l, at) == \E i \in DOMAIN l : at < l[i].readAt
Overtaken(q)   == Follows(rows, read[q].readAt)

Unfailed == \A r \in ReadIds : read[r].at \notin {"failed", "unrecorded"}

\* No shared read goes to the link while a recording could still end last.
StartsAfter ==
    \A r, q \in ReadIds : OnLink(r) /\ ~Written(r) /\ Recording(q) => Overtaken(q)

\* A recording that is not the shared read's was overtaken, or will be by the
\* read-back that is shared.
FollowedBy ==
    \A q \in ReadIds : Recording(q) /\ q # inFlight =>
      \/ Overtaken(q)
      \/ /\ inFlight \in ReadIds /\ Written(inFlight)
         /\ OnLink(inFlight) \/ read[q].readAt < read[inFlight].readAt

\* The last read, while a shared one is recorded: it looked up the latest row.
LastRecorded ==
    \A r \in ReadIds : Recording(r) /\ ~Written(r) /\ read[r].readAt = clock =>
      /\ \A q \in ReadIds : Recording(q) /\ q # r => Overtaken(q)
      /\ read[r].at = "store" => read[r].row = Latest

\* The last read, once recorded: the latest row is its own.
LastSettled ==
    \A r \in ReadIds : read[r].at = "settled" /\ read[r].readAt = clock =>
      /\ rows # <<>> /\ rows[Latest].values = read[r].values
      /\ \A q \in ReadIds : Recording(q) => Overtaken(q)

HistoryParts == StartsAfter /\ FollowedBy /\ LastRecorded /\ LastSettled
HistoryInv   == Unfailed => HistoryParts

LEMMA InitHistory == Init => HistoryInv
<1> SUFFICES ASSUME Init PROVE HistoryInv
  OBVIOUS
<1>1. \A r \in ReadIds : read[r].at = "none"
  BY DEF Init
<1> QED BY <1>1 DEF HistoryInv, HistoryParts, StartsAfter, FollowedBy, LastRecorded, LastSettled,
                    Recording, OnLink

\* A reading once overtaken stays so, whatever is recorded.
LEMMA StaysOvertaken ==
    ASSUME TypeOK, NEW r \in ReadIds, Store(r) \/ UNCHANGED rows,
           NEW q \in ReadIds, read'[q].readAt = read[q].readAt, Overtaken(q)
    PROVE  Overtaken(q)'
<1>1. \A i \in DOMAIN rows : i \in DOMAIN rows' /\ rows'[i].readAt = rows[i].readAt
  <2>1. DOMAIN rows = 1..Len(rows) /\ Len(rows) \in Nat
    BY RowTypes
  <2> QED BY <2>1, RowsStored
<1> QED BY <1>1 DEF Overtaken, Follows

\* The types the steps below use.
LEMMA HistoryTypes ==
    ASSUME Base
    PROVE  /\ read \in [ReadIds -> ReadRecord(Len(rows))] /\ clock \in Nat
           /\ \A r \in ReadIds : read[r].readAt \in Nat /\ read[r].readAt <= clock
           /\ rows \in Seq(Row) /\ DOMAIN rows = 1..Len(rows) /\ Len(rows) \in Nat
           /\ \A i \in DOMAIN rows : rows[i].readAt \in Nat /\ rows[i].readAt <= clock
           /\ None \notin ReadIds
<1>. TypeOK /\ TimeInv
  BY DEF Base
<1>1. read \in [ReadIds -> ReadRecord(Len(rows))]
  BY ReadTypes
<1>2. \A r \in ReadIds : read[r].readAt \in Nat
  BY <1>1 DEF ReadRecord
<1> QED BY <1>1, <1>2, RowTypes, ReadNames DEF TypeOK, TimeInv

LEMMA HistoryBegins ==
    ASSUME Base, HistoryParts, NEW r, Begins(r)
    PROVE  HistoryParts'
<1>. StartsAfter /\ FollowedBy /\ LastRecorded /\ LastSettled
  BY DEF HistoryParts
<1>1. /\ r \in ReadIds /\ read[r].at = "none" /\ read'[r].at = "link" /\ inFlight' = r
      /\ Written(r) \/ inFlight = None
      /\ \A q \in ReadIds : q # r => read'[q] = read[q]
      /\ rows' = rows /\ clock' = clock /\ None \notin ReadIds
  BY HistoryTypes DEF Begins
<1>2. Latest' = Latest
  BY <1>1 DEF Latest
<1>3. ASSUME NEW q \in ReadIds, Recording(q)', inFlight = None
      PROVE  Overtaken(q)'
  BY <1>1, <1>3 DEF FollowedBy, Recording, Overtaken
<1>4. StartsAfter'
  <2> SUFFICES ASSUME NEW p \in ReadIds, NEW q \in ReadIds,
                      OnLink(p)', ~Written(p), Recording(q)'
               PROVE  Overtaken(q)'
    BY DEF StartsAfter
  <2>1. CASE p = r
    BY <1>1, <1>3, <2>1
  <2>2. CASE p # r
    BY <1>1, <2>2 DEF StartsAfter, OnLink, Recording, Overtaken
  <2> QED BY <2>1, <2>2
<1>5. FollowedBy'
  <2> SUFFICES ASSUME NEW q \in ReadIds, Recording(q)', ~Overtaken(q)'
               PROVE  inFlight' \in ReadIds /\ Written(inFlight') /\ OnLink(inFlight)'
    BY DEF FollowedBy
  <2> QED BY <1>1, <1>3 DEF OnLink
<1>6. LastRecorded'
  BY <1>1, <1>2 DEF LastRecorded, Recording, Overtaken
<1>7. LastSettled'
  BY <1>1, <1>2 DEF LastSettled, Recording, Overtaken
<1> QED BY <1>4, <1>5, <1>6, <1>7 DEF HistoryParts

LEMMA HistoryServes ==
    ASSUME Base, HistoryParts, NEW r, ServesRead(r)
    PROVE  HistoryParts'
<1>. StartsAfter /\ FollowedBy /\ LastRecorded /\ LastSettled
  BY DEF HistoryParts
<1>1. /\ r \in ReadIds /\ read[r].at = "link" /\ read'[r].at = "look"
      /\ read'[r].readAt = clock + 1 /\ clock' = clock + 1
      /\ \A q \in ReadIds : q # r => read'[q] = read[q]
      /\ rows' = rows /\ inFlight' = inFlight
      /\ clock \in Nat /\ \A q \in ReadIds : read[q].readAt \in Nat /\ read[q].readAt <= clock
  BY HistoryTypes DEF ServesRead, OnLink
<1>2. \A q \in ReadIds : q # r => read'[q].readAt # clock' /\ read'[q].readAt < clock + 1
  BY <1>1
<1>3. /\ \A q \in ReadIds : OnLink(q) /\ q # r => Written(q)
      /\ inFlight \in ReadIds
      /\ inFlight # r => OnLink(inFlight)
  BY HeadRead
<1>4. StartsAfter'
  BY <1>1, <1>3 DEF StartsAfter, OnLink
<1>5. ASSUME NEW q \in ReadIds, Recording(q)', q # inFlight, ~Overtaken(q)'
      PROVE  /\ Written(inFlight)
             /\ OnLink(inFlight)' \/ read'[q].readAt < read'[inFlight].readAt
  <2>1. CASE inFlight # r
    <3>1. OnLink(inFlight)' /\ Written(inFlight)
      BY <1>1, <1>3, <2>1 DEF OnLink
    <3> QED BY <3>1
  <2>2. CASE inFlight = r
    <3>1. Recording(q) /\ ~Overtaken(q)
      BY <1>1, <1>5, <2>2 DEF Recording, Overtaken
    <3>2. Written(inFlight)
      BY <1>5, <3>1 DEF FollowedBy
    <3> QED BY <1>1, <1>2, <1>5, <2>2, <3>2
  <2> QED BY <2>1, <2>2
<1>6. FollowedBy'
  BY <1>1, <1>3, <1>5 DEF FollowedBy
<1>7. LastRecorded'
  <2>1. ASSUME ~Written(r), NEW q \in ReadIds, Recording(q)', q # r
        PROVE  Overtaken(q)'
    BY <1>1, <2>1 DEF StartsAfter, OnLink, Recording, Overtaken
  <2> QED BY <1>1, <1>2, <2>1 DEF LastRecorded
<1>8. LastSettled'
  BY <1>1, <1>2 DEF LastSettled
<1> QED BY <1>4, <1>6, <1>7, <1>8 DEF HistoryParts

LEMMA HistoryLook ==
    ASSUME Base, HistoryParts, NEW r \in ReadIds, Look(r)
    PROVE  HistoryParts'
<1>. StartsAfter /\ FollowedBy /\ LastRecorded /\ LastSettled
  BY DEF HistoryParts
<1>1. /\ read[r].at = "look" /\ read'[r].at = "store" /\ read'[r].row = Latest
      /\ read'[r].readAt = read[r].readAt
      /\ \A q \in ReadIds : q # r => read'[q] = read[q]
      /\ rows' = rows /\ inFlight' = inFlight /\ clock' = clock
  BY HistoryTypes DEF Look, ReadRecord, linkVars
<1>2. ASSUME NEW q \in ReadIds
      PROVE  /\ read'[q].readAt = read[q].readAt
             /\ read'[q].at = "link" <=> read[q].at = "link"
             /\ read'[q].at \in {"look", "store"} <=> read[q].at \in {"look", "store"}
  BY <1>1
<1>3. Latest' = Latest
  BY <1>1 DEF Latest
<1>4. StartsAfter'
  BY <1>1, <1>2 DEF StartsAfter, OnLink, Recording, Overtaken
<1>5. FollowedBy'
  BY <1>1, <1>2 DEF FollowedBy, OnLink, Recording, Overtaken
<1>6. LastRecorded'
  BY <1>1, <1>2, <1>3 DEF LastRecorded, Recording, Overtaken
<1>7. LastSettled'
  BY <1>1, <1>2, <1>3 DEF LastSettled, Recording, Overtaken
<1> QED BY <1>4, <1>5, <1>6, <1>7 DEF HistoryParts

\* Where the latest row is once a read is recorded.
LEMMA LatestAfterStore ==
    ASSUME Base, ReadAtInv, NEW r \in ReadIds, Store(r)
    PROVE  /\ Overtaken(r) => /\ rows' # <<>> /\ Latest' = Latest
                              /\ rows'[Latest].values = rows[Latest].values
           /\ read[r].readAt = clock /\ (Written(r) \/ read[r].row = Latest) =>
                rows' # <<>> /\ rows'[Latest'].values = read[r].values
           /\ Written(r) => \A at \in Nat : at < read[r].readAt => Follows(rows', at)
<1>. TypeOK /\ TimeInv /\ Distinct /\ Sourced /\ OneRow
  BY DEF Base, ReadAtInv
<1>0. /\ rows \in Seq(Row) /\ DOMAIN rows = 1..Len(rows) /\ Len(rows) \in Nat
      /\ \A i \in DOMAIN rows : rows[i].readAt \in Nat /\ rows[i].readAt <= clock
      /\ read[r].readAt \in Nat /\ clock \in Nat /\ read[r].at = "store"
      /\ rows' \in Seq(Row)
  BY HistoryTypes, RowsStored DEF Store
<1>1. Latest = LatestOf(rows) /\ Latest' = LatestOf(rows')
  BY DEF Latest, LatestOf
<1>2. ASSUME rows # <<>>
      PROVE  /\ Latest \in DOMAIN rows
             /\ \A j \in DOMAIN rows : j # Latest => rows[j].readAt < rows[Latest].readAt
  <2>1. Latest \in DOMAIN rows /\ \A j \in DOMAIN rows : rows[j].readAt <= rows[Latest].readAt
    BY <1>2, LatestRow
  <2>2. \A j \in DOMAIN rows : j # Latest => rows[j].readAt # rows[Latest].readAt
    BY <2>1 DEF OneRow
  <2> QED BY <1>0, <2>1, <2>2
<1>3. CASE /\ ~Written(r) /\ read[r].row \in DOMAIN rows
           /\ rows[read[r].row].values = read[r].values
           /\ Len(rows') = Len(rows) /\ DOMAIN rows' = DOMAIN rows
           /\ \A i \in DOMAIN rows : /\ rows'[i].values = rows[i].values
                                     /\ rows'[i].readAt = rows[i].readAt
  <2>1. rows # <<>> /\ rows' # <<>>
    BY <1>0, <1>3
  <2> DEFINE l == Latest
  <2>2. l \in DOMAIN rows' /\ \A j \in DOMAIN rows' : j # l => rows'[j].readAt < rows'[l].readAt
    BY <1>2, <1>3, <2>1
  <2> HIDE DEF l
  <2>3. LatestOf(rows') = l
    BY <1>0, <2>2, LatestIs
  <2> QED BY <1>1, <1>2, <1>3, <2>1, <2>3 DEF l
<1>4. CASE /\ Len(rows') = Len(rows) + 1 /\ DOMAIN rows' = 1..(Len(rows) + 1)
           /\ \A i \in DOMAIN rows : rows'[i] = rows[i]
           /\ rows'[Len(rows) + 1].values = read[r].values
           /\ rows'[Len(rows) + 1].readAt = read[r].readAt
  <2> DEFINE n == Len(rows) + 1
             l == Latest
  <2>1. /\ n \in DOMAIN rows' /\ \A i \in DOMAIN rows' : i = n \/ i \in DOMAIN rows
        /\ \A i \in DOMAIN rows : i \in DOMAIN rows' /\ i # n /\ rows'[i] = rows[i]
        /\ rows'[n].readAt = read[r].readAt /\ rows'[n].values = read[r].values
    BY <1>0, <1>4
  <2> HIDE DEF n, l
  <2>2. ASSUME Overtaken(r)
        PROVE  /\ rows' # <<>> /\ Latest' = Latest
               /\ rows'[Latest].values = rows[Latest].values
    <3>1. PICK i \in DOMAIN rows : read[r].readAt < rows[i].readAt
      BY <2>2 DEF Overtaken, Follows
    <3>2. rows # <<>>
      BY <1>0, <3>1
    <3>3. l \in DOMAIN rows /\ \A j \in DOMAIN rows : j # l => rows[j].readAt < rows[l].readAt
      BY <1>2, <3>2 DEF l
    <3>4. read[r].readAt < rows[l].readAt
      BY <1>0, <3>1, <3>3
    <3>5. l \in DOMAIN rows' /\ \A j \in DOMAIN rows' : j # l => rows'[j].readAt < rows'[l].readAt
      BY <2>1, <3>3, <3>4
    <3>6. LatestOf(rows') = l
      BY <1>0, <3>5, LatestIs
    <3> QED BY <1>1, <2>1, <3>3, <3>5, <3>6 DEF l
  <2>3. ASSUME read[r].readAt = clock
        PROVE  rows' # <<>> /\ rows'[Latest'].values = read[r].values
    <3>1. \A j \in DOMAIN rows : rows[j].readAt # clock
      BY <1>0, <2>3 DEF Sourced, Distinct, Served
    <3>2. \A j \in DOMAIN rows' : j # n => rows'[j].readAt < rows'[n].readAt
      BY <1>0, <2>1, <2>3, <3>1
    <3>3. LatestOf(rows') = n
      BY <1>0, <2>1, <3>2, LatestIs
    <3> QED BY <1>1, <2>1, <3>3
  <2>4. \A at \in Nat : at < read[r].readAt => Follows(rows', at)
    BY <2>1 DEF Follows
  <2> QED BY <2>2, <2>3, <2>4
<1> QED BY <1>3, <1>4, RowsStored

LEMMA HistoryStore ==
    ASSUME Base, ReadAtInv, HistoryParts, NEW r \in ReadIds, Store(r)
    PROVE  HistoryParts'
<1>. StartsAfter /\ FollowedBy /\ LastRecorded /\ LastSettled
  BY DEF HistoryParts
<1>1. /\ read[r].at = "store" /\ read'[r].at = "settled"
      /\ read'[r].values = read[r].values /\ read'[r].readAt = read[r].readAt
      /\ \A q \in ReadIds : q # r => read'[q] = read[q]
      /\ inFlight' = IF inFlight = r THEN None ELSE inFlight
      /\ clock' = clock /\ Recording(r) /\ None \notin ReadIds
      /\ \A q \in ReadIds : read[q].readAt \in Nat /\ read[q].readAt <= clock
  <2>1. read'[r].at = "settled" /\ read[r].at = "store"
    BY HistoryTypes DEF Store, Settle, ReadRecord
  <2> QED BY <2>1, HistoryTypes, RecordMoves DEF Record, Base, linkVars, Look
<1>2. ASSUME NEW q \in ReadIds, Overtaken(q)
      PROVE  Overtaken(q)'
  BY <1>1, <1>2, StaysOvertaken DEF Base
<1>3. ASSUME NEW q \in ReadIds, Recording(q)'
      PROVE  Recording(q) /\ q # r /\ read'[q] = read[q]
  BY <1>1, <1>3 DEF Recording
<1>4. /\ Overtaken(r) => /\ rows' # <<>> /\ Latest' = Latest
                         /\ rows'[Latest].values = rows[Latest].values
      /\ read[r].readAt = clock /\ (Written(r) \/ read[r].row = Latest) =>
           rows' # <<>> /\ rows'[Latest'].values = read[r].values
  BY LatestAfterStore
<1>5. ASSUME NEW q \in ReadIds, q # r, Written(r), read[q].readAt < read[r].readAt
      PROVE  Overtaken(q)'
  BY <1>1, <1>5, LatestAfterStore DEF Overtaken
<1>6. StartsAfter'
  <2> SUFFICES ASSUME NEW p \in ReadIds, NEW q \in ReadIds,
                      OnLink(p)', ~Written(p), Recording(q)'
               PROVE  Overtaken(q)'
    BY DEF StartsAfter
  <2>1. OnLink(p) /\ Recording(q)
    BY <1>1, <1>3 DEF OnLink
  <2> QED BY <1>2, <2>1 DEF StartsAfter
<1>7. FollowedBy'
  <2> SUFFICES ASSUME NEW q \in ReadIds, Recording(q)', q # inFlight', ~Overtaken(q)'
               PROVE  /\ inFlight' \in ReadIds /\ Written(inFlight')
                      /\ OnLink(inFlight)' \/ read'[q].readAt < read'[inFlight'].readAt
    BY DEF FollowedBy, OnLink
  <2>1. Recording(q) /\ q # inFlight /\ ~Overtaken(q) /\ read'[q] = read[q] /\ q # r
    BY <1>1, <1>2, <1>3
  <2>2. /\ inFlight \in ReadIds /\ Written(inFlight)
        /\ OnLink(inFlight) \/ read[q].readAt < read[inFlight].readAt
    BY <2>1 DEF FollowedBy
  <2>3. inFlight # r
    BY <1>1, <1>5, <2>1, <2>2 DEF OnLink
  <2> QED BY <1>1, <2>1, <2>2, <2>3 DEF OnLink
<1>8. LastRecorded'
  <2> SUFFICES ASSUME NEW p \in ReadIds, Recording(p)', ~Written(p), read'[p].readAt = clock'
               PROVE  /\ \A q \in ReadIds : Recording(q)' /\ q # p => Overtaken(q)'
                      /\ read'[p].at = "store" => read'[p].row = Latest'
    BY DEF LastRecorded
  <2>1. Recording(p) /\ p # r /\ read'[p] = read[p] /\ read[p].readAt = clock
    BY <1>1, <1>3
  <2>2. ASSUME NEW q \in ReadIds, Recording(q), q # p
        PROVE  Overtaken(q)
    BY <2>1, <2>2 DEF LastRecorded
  <2>3. ASSUME NEW q \in ReadIds, Recording(q)', q # p
        PROVE  Overtaken(q)'
    BY <1>2, <1>3, <2>2, <2>3
  <2>4. read[p].at = "store" => read[p].row = Latest
    BY <2>1 DEF LastRecorded
  <2>5. Latest' = Latest
    BY <1>1, <1>4, <2>1, <2>2
  <2> QED BY <2>1, <2>3, <2>4, <2>5
<1>9. LastSettled'
  <2> SUFFICES ASSUME NEW p \in ReadIds, read'[p].at = "settled", read'[p].readAt = clock'
               PROVE  /\ rows' # <<>> /\ rows'[Latest'].values = read'[p].values
                      /\ \A q \in ReadIds : Recording(q)' => Overtaken(q)'
    BY DEF LastSettled
  <2>1. CASE p # r
    <3>1. /\ rows[Latest].values = read[p].values /\ read'[p] = read[p]
          /\ \A q \in ReadIds : Recording(q) => Overtaken(q)
      BY <1>1, <2>1 DEF LastSettled
    <3>2. rows' # <<>> /\ rows'[Latest'].values = read'[p].values
      BY <1>1, <1>4, <3>1
    <3>3. ASSUME NEW q \in ReadIds, Recording(q)'
          PROVE  Overtaken(q)'
      BY <1>2, <1>3, <3>1, <3>3
    <3> QED BY <3>2, <3>3
  <2>2. CASE p = r
    <3>1. read[r].readAt = clock
      BY <1>1, <2>2
    <3>2. rows' # <<>> /\ rows'[Latest'].values = read[r].values
      BY <1>1, <1>4, <3>1 DEF LastRecorded
    <3>3. ASSUME NEW q \in ReadIds, Recording(q)'
          PROVE  Overtaken(q)'
      <4>1. Recording(q) /\ q # r
        BY <1>3, <3>3
      <4>2. CASE Written(r)
        <5>1. Served(q) /\ Served(r)
          BY <1>1, <4>1 DEF Recording, Served
        <5>2. read[q].readAt < read[r].readAt
          BY <1>1, <3>1, <4>1, <5>1 DEF ReadAtInv, Distinct
        <5> QED BY <1>5, <4>1, <4>2, <5>2
      <4>3. CASE ~Written(r)
        BY <1>1, <1>2, <3>1, <4>1, <4>3 DEF LastRecorded
      <4> QED BY <4>2, <4>3
    <3> QED BY <1>1, <2>2, <3>2, <3>3
  <2> QED BY <2>1, <2>2
<1> QED BY <1>6, <1>7, <1>8, <1>9 DEF HistoryParts

LEMMA HistoryStep ==
    ASSUME Base, ReadAtInv, HistoryInv, [Next]_vars
    PROVE  HistoryInv'
<1> SUFFICES ASSUME Unfailed'
             PROVE  HistoryParts'
  BY DEF HistoryInv
<1>0. \A r \in ReadIds : read'[r].at \notin {"failed", "unrecorded"}
  BY DEF Unfailed
\* A read that failed stays so.
<1>1. ASSUME NEW r \in ReadIds, \A q \in ReadIds : q # r => read'[q] = read[q],
             read[r].at \notin {"failed", "unrecorded"}
      PROVE  HistoryParts
  BY <1>0, <1>1 DEF HistoryInv, Unfailed
<1>2. CASE Still
  <2>1. \A q \in ReadIds : Overtaken(q)' <=> Overtaken(q)
    BY <1>2 DEF Still, Overtaken
  <2>2. Latest' = Latest
    BY <1>2 DEF Still, Latest
  <2>3. HistoryParts
    BY <1>0, <1>2 DEF Still, HistoryInv, Unfailed
  <2> QED
    BY <1>2, <2>1, <2>2, <2>3
    DEF Still, HistoryParts, StartsAfter, FollowedBy, LastRecorded, LastSettled, OnLink, Recording
<1>3. ASSUME NEW r, Begins(r)
      PROVE  HistoryParts'
  BY <1>1, <1>3, HistoryBegins DEF Begins
<1>4. ASSUME NEW r, ServesRead(r)
      PROVE  HistoryParts'
  BY <1>1, <1>4, HistoryServes DEF ServesRead, OnLink
<1>5. ASSUME NEW r, FailsRead(r)
      PROVE  FALSE
  BY <1>0, <1>5 DEF FailsRead
<1>6. ASSUME NEW r \in ReadIds, Record(r)
      PROVE  HistoryParts'
  <2>1. /\ \A q \in ReadIds : q # r => read'[q] = read[q]
        /\ Recording(r)
        /\ Look(r) \/ Store(r) \/ (RecordFails(r) /\ read'[r].at = "unrecorded")
    BY <1>6, RecordMoves DEF Base
  <2>2. HistoryParts
    BY <1>1, <2>1 DEF Recording
  <2> QED BY <1>0, <2>1, <2>2, HistoryLook, HistoryStore
<1> QED BY <1>2, <1>3, <1>4, <1>5, <1>6, HistoryMoves

\* Once every read is recorded, the latest row of the history holds what the last
\* one read, in whichever order the recordings looked up the latest row and
\* stored theirs (SettingsHistory.record).
THEOREM HistoryKeepsLastRead == Spec => []HistoryEndsWithLastRead
<1>1. HistoryInv => HistoryEndsWithLastRead
  BY DEF HistoryInv, HistoryParts, Unfailed, LastSettled, HistoryEndsWithLastRead
<1>2. Init => Base /\ ReadAtInv /\ HistoryInv
  BY InitBase, InitReadAt, InitHistory
<1>3. Base /\ ReadAtInv /\ HistoryInv /\ [Next]_vars => (Base /\ ReadAtInv /\ HistoryInv)'
  BY BaseStep, ReadAtStep, HistoryStep
<1> QED BY <1>1, <1>2, <1>3, PTL DEF Spec
====
