-------------------------- MODULE LoggerLinkProofs --------------------------
(* Proofs about LoggerLink, for every set of tasks and every backoff.      *)
EXTENDS LoggerLink, DataInduction

USE LinkConstants

Messages == requests \cup replies
Current(m) == Connected /\ m.conn = socket

(* The inductive invariant, part by part.                                  *)

\* The promise chain: positions are unique, and each task was chained behind
\* the one with the position before its own.
ChainInv ==
    /\ \A t \in Tasks :
         /\ ord[t] <= count
         /\ pc[t] = "idle" => ord[t] = 0
         /\ pc[t] \in {"queued", "connecting", "waiting"} => 0 < ord[t]
         /\ 0 < ord[t] =>
              IF after[t] = NoTask THEN ord[t] = 1
              ELSE 0 < ord[after[t]] /\ ord[after[t]] = ord[t] - 1
    /\ \A t, u \in Tasks : 0 < ord[t] /\ ord[t] = ord[u] => t = u
    /\ IF tail = NoTask THEN count = 0 ELSE 0 < count /\ ord[tail] = count

\* A request stays within its task's program, on a connection that was opened.
ProgramInv ==
    /\ socket <= sockets
    /\ \A t \in Tasks : pc[t] = "waiting" => step[t] \in 1..Length(kind[t])
    /\ \A m \in Messages :
         /\ m.conn <= sockets /\ 1 <= m.conn
         /\ pc[m.task] # "idle"
         /\ m.step <= Length(kind[m.task])
    /\ \A s \in Settings : log[s] # <<>>

\* At most one message is on the open connection.
WireInv ==
    /\ \A m, n \in requests : Current(m) /\ Current(n) => m = n
    /\ \A m, n \in replies : Current(m) /\ Current(n) => m = n
    /\ \A m \in requests, n \in replies : ~(Current(m) /\ Current(n))

IInv ==
    TypeOK /\ ChainInv /\ Serialized /\ ProgramInv /\ RepliesMatch /\ WireInv

-----------------------------------------------------------------------------
(* Facts about the operators.                                              *)

\* The delay before a retry is a number, whatever the count of failures.
LEMMA DelayType == ASSUME NEW n \in Nat PROVE Delay(n + 1) \in Int
<1>1. 2^((n + 1) - 1) \in Int
  BY SMT
<1>2. BackoffInitial * 2^((n + 1) - 1) \in Int
  BY <1>1
<1> QED BY <1>2 DEF Delay

\* A program has at least one request and at most the longest's.
LEMMA LengthType ==
    ASSUME NEW k \in Kinds
    PROVE  Length(k) \in 1..Longest
BY DEF Length, Longest, Kinds

\* A task whose turn it is follows only settled tasks.
LEMMA TurnIsFirst ==
    ASSUME TypeOK, ChainInv, Serialized, NEW t \in Tasks, Turn(t)
    PROVE  \A u \in Tasks : 0 < ord[u] /\ ord[u] < ord[t] => Settled(u)
<1> SUFFICES ASSUME NEW u \in Tasks, 0 < ord[u], ord[u] < ord[t]
             PROVE  Settled(u)
  OBVIOUS
<1> DEFINE a == after[t]
<1>1. a \in Tasks /\ Settled(a) /\ 0 < ord[a] /\ ord[a] = ord[t] - 1
  BY DEF TypeOK, ChainInv, Turn
<1>2. CASE ord[u] = ord[a]
  BY <1>1, <1>2 DEF ChainInv
<1>3. CASE ord[u] < ord[a]
  BY <1>1, <1>3 DEF Serialized, Settled
<1> QED BY <1>1, <1>2, <1>3 DEF TypeOK

\* Nobody else runs beside a task that runs or whose turn it is.
LEMMA OneRuns ==
    ASSUME TypeOK, ChainInv, Serialized, NEW t \in Tasks,
           Turn(t) \/ Running(t), NEW u \in Tasks, Running(u)
    PROVE  u = t
<1>1. 0 < ord[t] /\ 0 < ord[u] /\ ~Settled(t) /\ ~Settled(u)
  BY DEF ChainInv, Turn, Running, Settled
<1>2. ~(ord[u] < ord[t])
  BY <1>1, TurnIsFirst DEF Serialized, Running
<1>3. ~(ord[t] < ord[u])
  BY <1>1 DEF Serialized, Running
<1> QED BY <1>1, <1>2, <1>3 DEF TypeOK, ChainInv

\* A task that is first in turn, or runs, sees no message but its own.
LEMMA QuietWire ==
    ASSUME TypeOK, ChainInv, Serialized, RepliesMatch, NEW t \in Tasks,
           Turn(t) \/ Running(t), NEW m \in Messages, Current(m)
    PROVE  m.task = t /\ pc[t] = "waiting" /\ m.step = step[t]
<1>1. m.task \in Tasks /\ pc[m.task] = "waiting" /\ m.step = step[m.task]
  BY DEF TypeOK, RepliesMatch, Messages, Current, Frame, ReplyFrame
<1>2. m.task = t
  BY <1>1, OneRuns DEF Running
<1> QED BY <1>1, <1>2
-----------------------------------------------------------------------------
(* The initial state, and one lemma for each part of the invariant.        *)

LEMMA InitInv == Init => IInv
<1> SUFFICES ASSUME Init PROVE IInv
  OBVIOUS
<1>1. TypeOK
  <2>1. <<Panel>> \in Seq(Writers)
    BY DEF Writers
  <2>2. log \in [Settings -> Seq(Writers)] /\ confirmed \in [Tasks -> [Settings -> Writers]]
    BY <2>1 DEF Init, Writers
  <2>3. step \in [Tasks -> 0..Longest]
    BY DEF Init, Longest
  <2>4. /\ pc \in [Tasks -> {"idle", "queued", "connecting", "waiting", "done"}]
        /\ kind \in [Tasks -> Kinds]
        /\ outcome \in [Tasks -> {"none", "ok", "refused", "unavailable", "invalid"}]
        /\ after \in [Tasks -> Tasks \cup {NoTask}]
        /\ ord \in [Tasks -> Nat]
    BY DEF Init, Kinds
  <2>5. lastError \in BOOLEAN /\ closed \in BOOLEAN
    BY Zenon DEF Init
  <2>6. /\ failures \in Nat /\ retryAt \in Int /\ lastSuccess \in Nat
        /\ contact \in {"never", "worked", "failed"}
        /\ now \in Nat /\ socket \in Nat /\ sockets \in Nat /\ count \in Nat
        /\ tail \in Tasks \cup {NoTask}
        /\ requests \subseteq Frame /\ replies \subseteq ReplyFrame
    BY DEF Init, Null
  <2> QED BY <2>2, <2>3, <2>4, <2>5, <2>6 DEF TypeOK
<1>2. ChainInv
  BY DEF Init, ChainInv
<1>3. Serialized
  BY DEF Init, Serialized
<1>4. ProgramInv /\ RepliesMatch /\ WireInv
  BY DEF Init, ProgramInv, RepliesMatch, WireInv, Messages
<1> QED BY <1>1, <1>2, <1>3, <1>4 DEF IInv

LEMMA TypeStep ==
    ASSUME TypeOK, ProgramInv, [Next]_vars
    PROVE  TypeOK'
<1> USE DEF TypeOK, Kinds
<1>1. CASE UNCHANGED vars
  BY <1>1 DEF vars, chainVars, statusVars, wireVars
<1>2. ASSUME NEW t \in Tasks, NEW k \in Calls, Call(t, k)
      PROVE  TypeOK'
  BY <1>2 DEF Call, statusVars, wireVars
<1>3. ASSUME NEW t \in Tasks, NEW k \in Calls, CallInvalid(t, k)
      PROVE  TypeOK'
  BY <1>3 DEF CallInvalid, chainVars, statusVars, wireVars
<1>4. ASSUME NEW t \in Tasks, StartRefused(t)
      PROVE  TypeOK'
  BY <1>4 DEF StartRefused, Settle, chainVars, statusVars, wireVars
<1>5. ASSUME NEW t \in Tasks, NEW i \in 1..Longest, NEW c \in Nat, Send(t, i, c)
      PROVE  /\ pc' \in [Tasks -> {"idle", "queued", "connecting", "waiting", "done"}]
             /\ step' \in [Tasks -> 0..Longest]
             /\ requests' \subseteq Frame
  BY <1>5 DEF Send, Frame
<1>6. ASSUME NEW t \in Tasks, StartConnected(t)
      PROVE  TypeOK'
  <2>1. 1 \in 1..Longest
    BY DEF Longest
  <2> QED BY <1>5, <1>6, <2>1 DEF StartConnected, chainVars, statusVars
<1>7. ASSUME NEW t \in Tasks, StartConnecting(t)
      PROVE  TypeOK'
  BY <1>7 DEF StartConnecting, chainVars, statusVars, wireVars
<1>8. ASSUME NEW t \in Tasks, ConnectOk(t)
      PROVE  TypeOK'
  <2>1. 1 \in 1..Longest
    BY DEF Longest
  <2> QED BY <1>5, <1>8, <2>1 DEF ConnectOk, chainVars, statusVars
<1>9. ASSUME NEW t \in Tasks, Fail(t)
      PROVE  /\ pc' \in [Tasks -> {"idle", "queued", "connecting", "waiting", "done"}]
             /\ outcome' \in [Tasks -> {"none", "ok", "refused", "unavailable", "invalid"}]
             /\ failures' \in Nat /\ retryAt' \in Int /\ lastError' \in BOOLEAN
             /\ lastSuccess' \in Nat /\ contact' \in {"never", "worked", "failed"}
             /\ socket' \in Nat
  BY <1>9, DelayType DEF Fail, Settle
<1>10. ASSUME NEW t \in Tasks, ConnectFail(t) \/ ExchangeFail(t)
       PROVE  TypeOK'
  BY <1>9, <1>10 DEF ConnectFail, ExchangeFail, chainVars, wireVars
<1>11. ASSUME NEW t \in Tasks, Reply(t)
       PROVE  TypeOK'
  <2>1. PICK r \in replies : Reply(t)!2!(r)
    BY <1>11 DEF Reply
  <2>2. replies' \subseteq ReplyFrame /\ contact' \in {"never", "worked", "failed"}
    BY <2>1
  <2>3. confirmed' \in [Tasks -> [Settings -> Writers]]
    BY <2>1 DEF ReplyFrame
  <2>4. CASE Send(t, step[t] + 1, socket) /\ step[t] # Length(kind[t])
             /\ UNCHANGED <<outcome, failures, retryAt, lastError, lastSuccess>>
    <3>1. step[t] \in 1..Length(kind[t]) /\ Length(kind[t]) \in 1..Longest
      BY <1>11, LengthType DEF Reply, ProgramInv
    <3>2. Longest \in Nat
      BY DEF Longest
    <3>3. step[t] + 1 \in 1..Longest /\ socket \in Nat
      BY <2>4, <3>1, <3>2
    <3> QED BY <1>5, <1>11, <2>2, <2>3, <2>4, <3>3 DEF Reply, chainVars
  <2>5. CASE Settle(t, "ok") /\ MarkSuccess /\ UNCHANGED <<step, requests>>
    <3>1. /\ pc' \in [Tasks -> {"idle", "queued", "connecting", "waiting", "done"}]
          /\ outcome' \in [Tasks -> {"none", "ok", "refused", "unavailable", "invalid"}]
      BY <2>5 DEF Settle
    <3>2. failures' \in Nat /\ retryAt' \in Int /\ lastSuccess' \in Nat
      BY <2>5 DEF MarkSuccess, Null
    <3>3. lastError' \in BOOLEAN
      BY <2>5, Zenon DEF MarkSuccess
    <3> QED BY <1>11, <2>2, <2>3, <2>5, <3>1, <3>2, <3>3 DEF Reply, chainVars
  <2>6. CASE Settle(t, "refused")
             /\ UNCHANGED <<step, requests, failures, retryAt, lastError, lastSuccess>>
    BY <1>11, <2>2, <2>3, <2>6 DEF Reply, Settle, chainVars
  <2> QED BY <2>1, <2>4, <2>5, <2>6
<1>12. CASE IdleDeath \/ Close \/ Tick
  <2>1. CASE IdleDeath
    BY <2>1 DEF IdleDeath, chainVars, statusVars, wireVars
  <2>2. CASE Close
    BY <2>2 DEF Close, chainVars, statusVars, wireVars
  <2>3. CASE Tick
    BY <2>3 DEF Tick, chainVars, statusVars, wireVars
  <2> QED BY <1>12, <2>1, <2>2, <2>3
<1>13. CASE DeviceHandle
  <2>1. PICK m \in requests, applied \in BOOLEAN, ok \in BOOLEAN :
          DeviceHandle!1!(m, applied, ok)
    BY <1>13 DEF DeviceHandle
  <2> DEFINE s == IF m.step <= NWrites THEN m.step ELSE m.step - NWrites
  <2>2. kind[m.task] = "write" => s \in Settings
    <3> SUFFICES ASSUME kind[m.task] = "write" PROVE s \in Settings
      OBVIOUS
    <3>1. m.step \in 1..Longest /\ m.step <= Length(kind[m.task])
      BY DEF Frame, ProgramInv, Messages
    <3>2. Length(kind[m.task]) = 2 * NWrites
      BY DEF Length
    <3> QED BY <3>1, <3>2 DEF Settings, Longest
  <2>3. kind[m.task] = "write" => log[s][Len(log[s])] \in Writers
    BY <2>2 DEF ProgramInv
  <2>4. log' \in [Settings -> Seq(Writers)]
    BY <2>1, <2>2 DEF Frame, Writers
  <2>5. requests' \subseteq Frame /\ replies' \subseteq ReplyFrame
    BY <2>1, <2>3 DEF Frame, ReplyFrame, Writers
  <2> QED BY <1>13, <2>4, <2>5 DEF DeviceHandle, chainVars, statusVars
<1>14. CASE PanelEdit
  BY <1>14 DEF PanelEdit, Writers, chainVars, statusVars, wireVars
<1> QED
  BY <1>1, <1>2, <1>3, <1>4, <1>6, <1>7, <1>8, <1>10, <1>11, <1>12, <1>13, <1>14
  DEF Next, Start, Connect

\* An action of a task that has been called moves only that task, and never
\* back to the queue.
LEMMA Moves ==
    ASSUME TypeOK, ChainInv, Serialized, NEW t \in Tasks,
           Start(t) \/ Connect(t) \/ ExchangeFail(t) \/ Reply(t)
    PROVE  /\ Turn(t) \/ Running(t)
           /\ UNCHANGED <<kind, chainVars>>
           /\ \E q \in {"connecting", "waiting", "done"} :
                pc' = [pc EXCEPT ![t] = q]
<1>1. CASE Start(t)
  BY <1>1 DEF Start, StartRefused, StartConnected, StartConnecting, Settle, Send
<1>2. CASE Connect(t)
  BY <1>2 DEF Connect, ConnectOk, ConnectFail, Fail, Settle, Send, Running
<1>3. CASE ExchangeFail(t)
  BY <1>3 DEF ExchangeFail, Fail, Settle, Running
<1>4. CASE Reply(t)
  BY <1>4 DEF Reply, Settle, Send, Running
<1> QED BY <1>1, <1>2, <1>3, <1>4

\* Steps of the idle connection, the device, the panel and the clock touch
\* neither a task nor the chain.
LEMMA OtherSteps ==
    ASSUME IdleDeath \/ Close \/ DeviceHandle \/ PanelEdit \/ Tick
    PROVE  UNCHANGED <<pc, kind, step, outcome, chainVars>>
BY DEF IdleDeath, Close, DeviceHandle, PanelEdit, Tick

LEMMA ChainStep ==
    ASSUME TypeOK, ChainInv, Serialized, [Next]_vars
    PROVE  ChainInv' /\ Serialized'
<1> USE DEF TypeOK, ChainInv, Serialized, Settled
<1>1. CASE UNCHANGED vars
  BY <1>1 DEF vars, chainVars
<1>2. ASSUME NEW t \in Tasks, NEW k \in Calls, Call(t, k)
      PROVE  ChainInv' /\ Serialized'
  <2>1. ord[t] = 0 /\ pc[t] = "idle"
    BY <1>2 DEF Call
  <2>2. /\ pc' = [pc EXCEPT ![t] = "queued"] /\ after' = [after EXCEPT ![t] = tail]
        /\ ord' = [ord EXCEPT ![t] = count + 1] /\ count' = count + 1 /\ tail' = t
    BY <1>2 DEF Call
  <2>3. ChainInv'
    BY <2>1, <2>2
  <2>4. Serialized'
    BY <2>1, <2>2
  <2> QED BY <2>3, <2>4
<1>3. ASSUME NEW t \in Tasks, NEW k \in Calls, CallInvalid(t, k)
      PROVE  ChainInv' /\ Serialized'
  BY <1>3 DEF CallInvalid, chainVars
<1>4. ASSUME NEW t \in Tasks,
             Start(t) \/ Connect(t) \/ ExchangeFail(t) \/ Reply(t)
      PROVE  ChainInv' /\ Serialized'
  <2>1. PICK q \in {"connecting", "waiting", "done"} : pc' = [pc EXCEPT ![t] = q]
    BY <1>4, Moves
  <2>2. UNCHANGED chainVars /\ (Turn(t) \/ Running(t))
    BY <1>4, Moves
  <2>3. ~Settled(t) /\ 0 < ord[t]
    BY <2>2 DEF Turn, Running
  <2>4. \A u \in Tasks : 0 < ord[u] /\ ord[u] < ord[t] => Settled(u)
    BY <2>2, TurnIsFirst DEF Running
  <2>5. ChainInv'
    BY <2>1, <2>2, <2>3 DEF chainVars
  <2>6. Serialized'
    BY <2>1, <2>2, <2>3, <2>4 DEF chainVars
  <2> QED BY <2>5, <2>6
<1>5. CASE IdleDeath \/ Close \/ DeviceHandle \/ PanelEdit \/ Tick
  BY <1>5, OtherSteps DEF chainVars
<1> QED
  BY <1>1, <1>2, <1>3, <1>4, <1>5 DEF Next

\* What the type invariant says of a message.
LEMMA MessageType ==
    ASSUME TypeOK, NEW m \in Messages
    PROVE  m.task \in Tasks /\ m.conn \in Nat /\ m.step \in Nat
<1>1. CASE m \in requests
  BY <1>1 DEF TypeOK, Frame
<1>2. CASE m \in replies
  BY <1>2 DEF TypeOK, ReplyFrame
<1> QED BY <1>1, <1>2 DEF Messages

\* Recording one more write leaves no setting without a writer.
LEMMA AppendIsLonger ==
    ASSUME TypeOK, ProgramInv, NEW s, NEW w \in Writers,
           log' = [log EXCEPT ![s] = Append(@, w)]
    PROVE  \A r \in Settings : log'[r] # <<>>
<1>1. log \in [Settings -> Seq(Writers)] /\ \A r \in Settings : log[r] # <<>>
  BY DEF TypeOK, ProgramInv
<1>2. \A r \in Settings : Append(log[r], w) # <<>>
  BY <1>1
<1> QED BY <1>1, <1>2

LEMMA ProgramStep ==
    ASSUME IInv, [Next]_vars
    PROVE  ProgramInv'
<1> USE DEF IInv, ProgramInv
<1>0. /\ \A m \in Messages : m.task \in Tasks /\ m.conn \in Nat /\ m.step \in Nat
      /\ \A k \in Kinds : Length(k) \in Nat /\ 1 <= Length(k)
      /\ \A u \in Tasks : kind[u] \in Kinds /\ step[u] \in Nat
      /\ socket \in Nat /\ sockets \in Nat
  <2>1. \A k \in Kinds : Length(k) \in 1..Longest
    BY LengthType
  <2>2. Longest \in Nat
    BY DEF Longest
  <2> QED BY <2>1, <2>2, MessageType DEF TypeOK
<1>1. CASE UNCHANGED vars
  BY <1>1 DEF vars, wireVars, Messages
<1>2. ASSUME NEW t \in Tasks, NEW k \in Calls, Call(t, k) \/ CallInvalid(t, k)
      PROVE  ProgramInv'
  <2>1. /\ pc[t] = "idle" /\ UNCHANGED <<step, socket, sockets, wireVars, log>>
        /\ kind' = [kind EXCEPT ![t] = k]
        /\ \E q \in {"queued", "done"} : pc' = [pc EXCEPT ![t] = q]
    BY <1>2 DEF Call, CallInvalid
  <2>2. \A m \in Messages : m.task # t
    BY <2>1
  <2>3. pc \in [Tasks -> {"idle", "queued", "connecting", "waiting", "done"}]
        /\ kind \in [Tasks -> Kinds]
    BY DEF TypeOK
  <2>4. Messages' = Messages
    BY <2>1 DEF wireVars, Messages
  <2> QED BY <1>0, <2>1, <2>2, <2>3, <2>4
\* The tasks that move, when the messages stay or some are received.
<1>3. ASSUME NEW t \in Tasks, NEW q \in {"connecting", "done"},
             pc' = [pc EXCEPT ![t] = q], UNCHANGED <<kind, step, log>>,
             Messages' \subseteq Messages,
             sockets' = sockets, socket' \in {0, socket}
      PROVE  ProgramInv'
  <2>1. pc \in [Tasks -> {"idle", "queued", "connecting", "waiting", "done"}]
    BY DEF TypeOK
  <2> QED BY <1>0, <1>3, <2>1
\* The task that sends its next request.
<1>4. ASSUME NEW t \in Tasks, NEW i \in Nat, NEW c \in Nat, Send(t, i, c),
             pc[t] # "idle", i \in 1..Length(kind[t]),
             1 <= c, c <= sockets', sockets' \in Nat, sockets <= sockets',
             socket' \in Nat, socket' <= sockets',
             replies' \subseteq replies, UNCHANGED <<kind, log>>
      PROVE  ProgramInv'
  <2>1. /\ pc \in [Tasks -> {"idle", "queued", "connecting", "waiting", "done"}]
        /\ step \in [Tasks -> 0..Longest]
    BY DEF TypeOK
  <2>2. \A u \in Tasks : pc'[u] = "waiting" => step'[u] \in 1..Length(kind'[u])
    BY <1>0, <1>4, <2>1 DEF Send
  <2> DEFINE sent == [conn |-> c, task |-> t, step |-> i]
  <2>3. \A m \in Messages' : m \in Messages \/ m = sent
    BY <1>4 DEF Send, Messages
  <2>4. \A m \in Messages : m.conn <= sockets' /\ 1 <= m.conn
                            /\ pc'[m.task] # "idle" /\ m.step <= Length(kind'[m.task])
    BY <1>0, <1>4, <2>1 DEF Send
  <2>5. sent.conn <= sockets' /\ 1 <= sent.conn
        /\ pc'[sent.task] # "idle" /\ sent.step <= Length(kind'[sent.task])
    BY <1>0, <1>4, <2>1 DEF Send
  <2>6. \A m \in Messages' : m.conn <= sockets' /\ 1 <= m.conn
                             /\ pc'[m.task] # "idle" /\ m.step <= Length(kind'[m.task])
    BY <2>3, <2>4, <2>5
  <2> QED BY <1>4, <2>2, <2>6
<1>5. ASSUME NEW t \in Tasks, StartConnected(t) \/ ConnectOk(t)
      PROVE  ProgramInv'
  <2>1. 1 \in 1..Length(kind[t])
    BY <1>0
  <2>2. CASE StartConnected(t)
    BY <1>0, <1>4, <2>1, <2>2 DEF StartConnected, Turn, Connected
  <2>3. CASE ConnectOk(t)
    BY <1>0, <1>4, <2>1, <2>3 DEF ConnectOk
  <2> QED BY <1>5, <2>2, <2>3
<1>6. ASSUME NEW t \in Tasks,
             StartRefused(t) \/ StartConnecting(t) \/ ConnectFail(t) \/ ExchangeFail(t)
      PROVE  ProgramInv'
  BY <1>3, <1>6 DEF StartRefused, StartConnecting, ConnectFail, ExchangeFail,
                    Fail, Settle, wireVars, Messages
<1>7. ASSUME NEW t \in Tasks, Reply(t)
      PROVE  ProgramInv'
  <2>1. /\ pc[t] = "waiting" /\ Connected /\ replies' \subseteq replies
        /\ UNCHANGED <<kind, socket, sockets, log>>
        /\ step[t] \in 1..Length(kind[t])
    BY <1>7 DEF Reply
  <2>2. CASE step[t] # Length(kind[t]) /\ Send(t, step[t] + 1, socket)
    <3>1. step[t] + 1 \in 1..Length(kind[t]) /\ 1 <= socket
      BY <1>0, <2>1, <2>2 DEF Connected
    <3> QED BY <1>0, <1>4, <2>1, <2>2, <3>1
  <2>3. CASE UNCHANGED <<step, requests>> /\ \E how \in {"ok", "refused"} : Settle(t, how)
    BY <1>3, <2>1, <2>3 DEF Settle, Messages
  <2> QED BY <1>7, <2>2, <2>3 DEF Reply
<1>8. CASE IdleDeath \/ Close \/ Tick
  <2>1. /\ UNCHANGED <<pc, kind, step, sockets, wireVars, log>>
        /\ socket' \in {0, socket}
    BY <1>8 DEF IdleDeath, Close, Tick
  <2> QED BY <1>0, <2>1 DEF wireVars, Messages
<1>9. CASE DeviceHandle
  <2>1. PICK m \in requests, applied \in BOOLEAN, ok \in BOOLEAN :
          DeviceHandle!1!(m, applied, ok)
    BY <1>9 DEF DeviceHandle
  <2>2. \A s \in Settings : log'[s] # <<>>
    <3>1. UNCHANGED log \/ \E s : log' = [log EXCEPT ![s] = Append(@, m.task)]
      BY <2>1
    <3>2. m.task \in Writers
      BY MessageType DEF Messages, Writers
    <3> QED BY <3>1, <3>2, AppendIsLonger
  <2>3. \A n \in Messages' : \E o \in Messages :
          n.conn = o.conn /\ n.task = o.task /\ n.step = o.step
    BY <2>1 DEF Messages
  <2>4. UNCHANGED <<pc, kind, step, socket, sockets>>
    BY <1>9 DEF DeviceHandle
  <2> QED BY <2>2, <2>3, <2>4
<1>10. CASE PanelEdit
  <2>1. \A s \in Settings : log'[s] # <<>>
    BY <1>10, AppendIsLonger DEF PanelEdit, Writers
  <2> QED BY <1>10, <2>1 DEF PanelEdit, wireVars, Messages
<1> QED
  BY <1>1, <1>2, <1>5, <1>6, <1>7, <1>8, <1>9, <1>10 DEF Next, Start, Connect

\* Every step leaves the open connection with at most the one message the
\* running task waits for.
LEMMA WireStep ==
    ASSUME IInv, [Next]_vars
    PROVE  RepliesMatch' /\ WireInv'
<1> USE DEF IInv
<1>0. \A m \in Messages : m.task \in Tasks /\ m.conn \in Nat /\ m.conn <= sockets
  BY MessageType DEF ProgramInv
\* Steps that add no message and keep every waiting task's request.
<1>1. ASSUME Messages' \subseteq Messages, requests' \subseteq requests,
             replies' \subseteq replies, socket' \in {0, socket},
             \A m \in Messages' : Current(m)' =>
                pc'[m.task] = pc[m.task] /\ step'[m.task] = step[m.task]
      PROVE  RepliesMatch' /\ WireInv'
  <2>1. \A m \in Messages' : Current(m)' => m \in Messages /\ Current(m)
    BY <1>1 DEF Current, Connected
  <2>2. RepliesMatch'
    BY <1>1, <2>1 DEF RepliesMatch, Messages, Current
  <2>3. WireInv'
    BY <1>1, <2>1 DEF WireInv, Messages
  <2> QED BY <2>2, <2>3
\* A task sends while no message is on the connection.
<1>2. ASSUME NEW t \in Tasks, NEW i, NEW c, Send(t, i, c), replies' \subseteq replies,
             socket' = c, \A m \in requests \cup replies' : m.conn # c,
             pc \in [Tasks -> {"idle", "queued", "connecting", "waiting", "done"}],
             step \in [Tasks -> 0..Longest]
      PROVE  RepliesMatch' /\ WireInv'
  <2> DEFINE sent == [conn |-> c, task |-> t, step |-> i]
  <2>1. \A m \in Messages' : Current(m)' => m = sent
    BY <1>2 DEF Send, Messages, Current
  <2>2. pc'[t] = "waiting" /\ step'[t] = i /\ sent \notin replies'
    BY <1>2 DEF Send
  <2>3. RepliesMatch'
    BY <2>1, <2>2 DEF RepliesMatch, Messages, Current
  <2>4. WireInv'
    BY <2>1, <2>2 DEF WireInv, Messages
  <2> QED BY <2>3, <2>4
<1>3. CASE UNCHANGED vars
  BY <1>1, <1>3 DEF vars, wireVars, Messages
<1>4. ASSUME NEW t \in Tasks, NEW k \in Calls, Call(t, k) \/ CallInvalid(t, k)
      PROVE  RepliesMatch' /\ WireInv'
  <2>1. \A m \in Messages : m.task # t
    BY <1>4 DEF Call, CallInvalid, ProgramInv
  <2>2. UNCHANGED <<step, wireVars, socket>>
        /\ \E q : pc' = [pc EXCEPT ![t] = q]
    BY <1>4 DEF Call, CallInvalid
  <2>3. \A m \in Messages : pc'[m.task] = pc[m.task]
    BY <1>0, <2>1, <2>2 DEF TypeOK
  <2> QED BY <1>1, <2>2, <2>3 DEF wireVars, Messages
<1>5. ASSUME NEW t \in Tasks, StartRefused(t) \/ StartConnecting(t)
      PROVE  RepliesMatch' /\ WireInv'
  <2>1. \A m \in Messages : ~Current(m)
    BY <1>5, QuietWire DEF StartRefused, StartConnecting, Turn
  <2> QED
    BY <1>1, <1>5, <2>1
    DEF StartRefused, StartConnecting, wireVars, Messages, Current, Connected
<1>6. ASSUME NEW t \in Tasks, StartConnected(t)
      PROVE  RepliesMatch' /\ WireInv'
  <2>1. \A m \in Messages : ~Current(m)
    BY <1>6, QuietWire DEF StartConnected, Turn
  <2> QED
    BY <1>2, <1>6, <2>1 DEF StartConnected, Messages, Current, TypeOK
<1>7. ASSUME NEW t \in Tasks, ConnectOk(t)
      PROVE  RepliesMatch' /\ WireInv'
  <2>1. \A m \in Messages : m.conn # sockets + 1
    BY <1>0 DEF TypeOK
  <2> QED
    BY <1>2, <1>7, <2>1 DEF ConnectOk, Messages, TypeOK
<1>8. ASSUME NEW t \in Tasks, ConnectFail(t) \/ ExchangeFail(t)
      PROVE  RepliesMatch' /\ WireInv'
  BY <1>1, <1>8
  DEF ConnectFail, ExchangeFail, Fail, wireVars, Messages, Current, Connected
<1>9. ASSUME NEW t \in Tasks, Reply(t)
      PROVE  RepliesMatch' /\ WireInv'
  <2>1. PICK r \in replies : Reply(t)!2!(r)
    BY <1>9 DEF Reply
  <2>2. pc[t] = "waiting" /\ Connected /\ r.conn = socket /\ replies' = replies \ {r}
        /\ socket' = socket
    BY <1>9, <2>1 DEF Reply
  <2>3. \A m \in requests \cup replies' : m.conn # socket
    BY <2>2 DEF WireInv, Current
  <2>4. CASE Send(t, step[t] + 1, socket)
    BY <1>2, <2>2, <2>3, <2>4 DEF TypeOK
  <2>5. CASE requests' = requests
    BY <1>1, <2>2, <2>3, <2>5 DEF Messages, Current
  <2> QED BY <2>1, <2>4, <2>5
<1>10. CASE IdleDeath \/ Close
  <2>1. UNCHANGED <<pc, step, wireVars>> /\ socket' = 0
    BY <1>10 DEF IdleDeath, Close
  <2> QED BY <1>1, <2>1 DEF wireVars, Messages
<1>11. CASE PanelEdit \/ Tick
  <2>1. UNCHANGED <<pc, step, wireVars, socket>>
    BY <1>11 DEF PanelEdit, Tick
  <2> QED BY <1>1, <2>1 DEF wireVars, Messages
<1>12. CASE DeviceHandle
  <2>1. PICK m \in requests, applied \in BOOLEAN, ok \in BOOLEAN :
          DeviceHandle!1!(m, applied, ok)
    BY <1>12 DEF DeviceHandle
  <2>2. PICK reply : /\ reply.conn = m.conn /\ reply.task = m.task /\ reply.step = m.step
                     /\ requests' = requests \ {m} /\ replies' = replies \cup {reply}
    BY <2>1
  <2>3. UNCHANGED <<pc, step, socket>>
    BY <1>12 DEF DeviceHandle
  <2>4. RepliesMatch'
    BY <2>2, <2>3 DEF RepliesMatch, Connected
  <2>5. WireInv'
    BY <2>2, <2>3 DEF WireInv, Current, Connected
  <2> QED BY <2>4, <2>5
<1> QED
  BY <1>3, <1>4, <1>5, <1>6, <1>7, <1>8, <1>9, <1>10, <1>11, <1>12
  DEF Next, Start, Connect

\* The parts together are inductive.
LEMMA Inductive == IInv /\ [Next]_vars => IInv'
BY TypeStep, ChainStep, ProgramStep, WireStep DEF IInv

LEMMA Invariance == Spec => []IInv
BY InitInv, Inductive, PTL DEF Spec

-----------------------------------------------------------------------------
(* The theorems.                                                           *)

\* Every state of the link has the declared shape: in particular a task never
\* runs past the last request of its program.
THEOREM TypeCorrect == Spec => []TypeOK
<1>1. IInv => TypeOK
  BY DEF IInv
<1> QED BY <1>1, Invariance, PTL

\* However many calls are made and however exchanges fail, time out and are
\* answered late, whatever can still arrive on the open connection answers the
\* one request that is being waited for (LoggerLink.request, TcpLoggerTransport).
THEOREM NoCrossedReplies == Spec => []RepliesMatch
<1>1. IInv => RepliesMatch
  BY DEF IInv
<1> QED BY <1>1, Invariance, PTL

-----------------------------------------------------------------------------
(* The link implements FifoService.                                        *)

\* Where each task is in the service's terms.
LEMMA PhaseOf ==
    ASSUME TypeOK
    PROVE  /\ Phase \in [Tasks -> {"new", "waiting", "active", "answered"}]
           /\ \A t \in Tasks :
                /\ Phase[t] = "new" <=> pc[t] = "idle"
                /\ Phase[t] = "waiting" <=> pc[t] = "queued"
                /\ Phase[t] = "active" <=> Running(t)
                /\ Phase[t] = "answered" <=> Settled(t)
<1>1. \A t \in Tasks : pc[t] \in {"idle", "queued", "connecting", "waiting", "done"}
  BY DEF TypeOK
<1> QED BY <1>1 DEF Phase, Running, Settled

\* A step of one task changes its phase only.
LEMMA PhaseMove ==
    ASSUME TypeOK, TypeOK', NEW t \in Tasks, NEW q, pc' = [pc EXCEPT ![t] = q]
    PROVE  Phase' = [Phase EXCEPT ![t] = Phase'[t]]
<1>1. pc \in [Tasks -> {"idle", "queued", "connecting", "waiting", "done"}]
  BY DEF TypeOK
<1>2. \A u \in Tasks : u # t => Phase'[u] = Phase[u]
  BY <1>1 DEF Phase, Running, Settled
<1>3. Phase \in [Tasks -> {"new", "waiting", "active", "answered"}]
      /\ Phase' \in [Tasks -> {"new", "waiting", "active", "answered"}]
  BY PhaseOf DEF TypeOK, Phase, Running, Settled
<1> QED BY <1>2, <1>3

LEMMA FifoInitial == Init => Fifo!FifoInit
<1> SUFFICES ASSUME Init PROVE Fifo!FifoInit
  OBVIOUS
<1>1. TypeOK
  BY InitInv DEF IInv
<1>2. \A t \in Tasks : Phase[t] = "new"
  BY <1>1, PhaseOf DEF Init
<1>3. Phase = [t \in Tasks |-> "new"]
  BY <1>1, <1>2, PhaseOf
<1> QED BY <1>3 DEF Init, Fifo!FifoInit

LEMMA FifoStep ==
    ASSUME IInv, IInv', [Next]_vars
    PROVE  [Fifo!FifoNext]_(Fifo!fifoVars)
<1> USE DEF IInv
<1>0. /\ \A t \in Tasks : /\ Phase[t] = "new" <=> pc[t] = "idle"
                          /\ Phase[t] = "waiting" <=> pc[t] = "queued"
                          /\ Phase[t] = "active" <=> Running(t)
                          /\ Phase[t] = "answered" <=> Settled(t)
      /\ \A t \in Tasks : /\ Phase'[t] = "waiting" <=> pc'[t] = "queued"
                          /\ Phase'[t] = "active" <=> Running(t)'
                          /\ Phase'[t] = "answered" <=> Settled(t)'
      /\ pc \in [Tasks -> {"idle", "queued", "connecting", "waiting", "done"}]
      /\ ord \in [Tasks -> Nat] /\ count \in Nat
  BY PhaseOf DEF TypeOK, Phase, Running, Settled
<1>1. ASSUME UNCHANGED <<pc, ord>>
      PROVE  UNCHANGED Fifo!fifoVars
  BY <1>1 DEF Fifo!fifoVars, Phase, Running, Settled
<1>2. ASSUME NEW t \in Tasks, NEW k \in Calls, Call(t, k)
      PROVE  Fifo!Accept(t)
  <2>1. /\ pc[t] = "idle" /\ pc' = [pc EXCEPT ![t] = "queued"]
        /\ ord' = [ord EXCEPT ![t] = count + 1]
    BY <1>2 DEF Call
  <2>2. Phase' = [Phase EXCEPT ![t] = "waiting"]
    BY <1>0, <2>1, PhaseMove
  <2>3. \A u \in Tasks : ord[u] < count + 1
    BY <1>0 DEF ChainInv
  <2> QED BY <1>0, <2>1, <2>2, <2>3 DEF Fifo!Accept
<1>3. ASSUME NEW t \in Tasks, NEW k \in Calls, CallInvalid(t, k)
      PROVE  Fifo!Reject(t)
  <2>1. pc[t] = "idle" /\ pc' = [pc EXCEPT ![t] = "done"] /\ UNCHANGED ord
    BY <1>3 DEF CallInvalid, chainVars
  <2>2. Phase' = [Phase EXCEPT ![t] = "answered"]
    <3>1. Phase' = [Phase EXCEPT ![t] = Phase'[t]]
      BY <2>1, PhaseMove
    <3>2. Settled(t)'
      BY <1>0, <2>1 DEF Settled
    <3> QED BY <1>0, <3>1, <3>2
  <2> QED BY <1>0, <2>1, <2>2 DEF Fifo!Reject
<1>4. ASSUME NEW t \in Tasks, Turn(t)
      PROVE  Fifo!First(t) /\ Phase[t] = "waiting"
  BY <1>0, <1>4, TurnIsFirst DEF Fifo!First, Turn
<1>5. ASSUME NEW t \in Tasks, Turn(t), NEW q \in {"connecting", "waiting"},
             pc' = [pc EXCEPT ![t] = q], UNCHANGED ord
      PROVE  Fifo!Begin(t)
  <2>1. Phase' = [Phase EXCEPT ![t] = "active"]
    <3>1. Phase' = [Phase EXCEPT ![t] = Phase'[t]]
      BY <1>5, PhaseMove
    <3>2. Running(t)'
      BY <1>0, <1>5 DEF Running
    <3> QED BY <1>0, <3>1, <3>2
  <2> QED BY <1>4, <1>5, <2>1 DEF Fifo!Begin
<1>6. ASSUME NEW t \in Tasks, Turn(t) \/ Running(t),
             pc' = [pc EXCEPT ![t] = "done"], UNCHANGED ord
      PROVE  Fifo!Answer(t)
  <2>1. Phase' = [Phase EXCEPT ![t] = "answered"]
    <3>1. Phase' = [Phase EXCEPT ![t] = Phase'[t]]
      BY <1>6, PhaseMove
    <3>2. Settled(t)'
      BY <1>0, <1>6 DEF Settled
    <3> QED BY <1>0, <3>1, <3>2
  <2> QED BY <1>0, <1>4, <1>6, <2>1 DEF Fifo!Answer
<1>7. ASSUME NEW t \in Tasks, Running(t), pc' = [pc EXCEPT ![t] = "waiting"],
             UNCHANGED ord
      PROVE  UNCHANGED Fifo!fifoVars
  <2>1. Phase' = [Phase EXCEPT ![t] = "active"]
    BY <1>0, <1>7, PhaseMove DEF Running
  <2>2. Phase \in [Tasks -> {"new", "waiting", "active", "answered"}]
    BY PhaseOf
  <2> QED BY <1>0, <1>7, <2>1, <2>2 DEF Fifo!fifoVars
<1>8. ASSUME NEW t \in Tasks,
             Start(t) \/ Connect(t) \/ ExchangeFail(t) \/ Reply(t)
      PROVE  [Fifo!FifoNext]_(Fifo!fifoVars)
  <2>1. (Turn(t) \/ Running(t)) /\ UNCHANGED ord
    BY <1>8, Moves DEF chainVars
  <2>2. PICK q \in {"connecting", "waiting", "done"} : pc' = [pc EXCEPT ![t] = q]
    BY <1>8, Moves
  <2>3. Running(t) => q # "connecting"
    BY <1>0, <1>8, <2>2
    DEF Start, StartRefused, StartConnected, StartConnecting, Connect, ConnectOk,
        ConnectFail, ExchangeFail, Reply, Fail, Settle, Send, Turn, Running
  <2> QED BY <1>5, <1>6, <1>7, <2>1, <2>2, <2>3 DEF Fifo!FifoNext
<1>9. CASE UNCHANGED vars
  BY <1>1, <1>9 DEF vars, chainVars
<1>10. CASE IdleDeath \/ Close \/ DeviceHandle \/ PanelEdit \/ Tick
  BY <1>1, <1>10, OtherSteps DEF chainVars
<1> QED
  BY <1>2, <1>3, <1>8, <1>9, <1>10 DEF Next, Fifo!FifoNext

\* The promise chain of LoggerLink.serialize gives callers first-come,
\* first-served, one at a time and one answer each, in every interleaving of
\* calls, failures and late answers.
THEOREM ImplementsFifo == Spec => ServesInOrder
<1>1. Init => Fifo!FifoInit
  BY FifoInitial
<1>2. IInv /\ IInv' /\ [Next]_vars => [Fifo!FifoNext]_(Fifo!fifoVars)
  BY FifoStep
<1> QED BY <1>1, <1>2, Invariance, PTL DEF Spec, ServesInOrder, Fifo!FifoSpec

-----------------------------------------------------------------------------
(* The delays of the backoff and their sum.                                *)

\* A power of two counts the subsets of a set, so it is positive.
LEMMA PowerOfTwo == ASSUME NEW n \in Nat PROVE 2^n \in Nat \ {0}
<1>1. IsFiniteSet(1..n) /\ Cardinality(1..n) = n
  BY FS_Interval
<1>2. IsFiniteSet(SUBSET (1..n)) /\ Cardinality(SUBSET (1..n)) = 2^n
  BY <1>1, FS_SUBSET
<1>3. SUBSET (1..n) # {}
  OBVIOUS
<1> QED BY <1>2, <1>3, FS_CardinalityType, FS_EmptySet

\* Every delay is at least a tick.
LEMMA DelayPositive == ASSUME NEW n \in Nat \ {0} PROVE Delay(n) \in Nat \ {0}
<1>1. PICK p \in Nat \ {0} : p = 2^(n - 1)
  BY PowerOfTwo
<1>2. \A a, b \in Nat \ {0} : a * b \in Nat \ {0}
  OBVIOUS
<1>3. BackoffInitial * p \in Nat \ {0}
  BY <1>2
<1> QED BY <1>1, <1>3 DEF Delay

\* The sums of the first delays, up to n of them.
Sums(n) ==
    {g \in [0..n -> Nat] :
       g[0] = 0 /\ \A i \in 1..n : g[i] = g[i - 1] + Delay(i)}

\* The definition of Elapsed defines a function.
LEMMA ElapsedStep ==
    /\ Elapsed[0] = 0
    /\ \A n \in Nat : Elapsed[n] \in Nat /\ Elapsed[n + 1] = Elapsed[n] + Delay(n + 1)
<1>1. \A n \in Nat : Sums(n) # {}
  <2> DEFINE S == {n \in Nat : Sums(n) # {}}
  <2>1. 0 \in S
    <3>1. [i \in 0..0 |-> 0] \in Sums(0)
      BY DEF Sums
    <3> QED BY <3>1
  <2>2. ASSUME NEW n \in Nat, n \in S
        PROVE  n + 1 \in S
    <3>1. PICK g \in Sums(n) : TRUE
      BY <2>2
    <3> DEFINE h == [i \in 0..(n + 1) |-> IF i = n + 1 THEN g[n] + Delay(n + 1) ELSE g[i]]
    <3>2. g \in [0..n -> Nat] /\ g[n] \in Nat /\ Delay(n + 1) \in Nat
      BY <3>1, DelayPositive DEF Sums
    <3>3. h \in [0..(n + 1) -> Nat]
      BY <3>2
    <3>4. h[0] = 0
      BY <3>1 DEF Sums
    <3>5. \A i \in 1..(n + 1) : h[i] = h[i - 1] + Delay(i)
      BY <3>1 DEF Sums
    <3>6. h \in Sums(n + 1)
      BY <3>3, <3>4, <3>5 DEF Sums
    <3> QED BY <3>6
  <2> HIDE DEF S
  <2>3. Nat \subseteq S
    BY <2>1, <2>2, Numbers
  <2> QED BY <2>3 DEF S
<1> DEFINE G(n) == CHOOSE g : g \in Sums(n)
<1>2. \A n \in Nat : G(n) \in Sums(n)
  BY <1>1
<1> HIDE DEF G
<1>3. ASSUME NEW m \in Nat, NEW n \in Nat, m <= n, NEW g \in Sums(m), NEW h \in Sums(n)
      PROVE  \A i \in 0..m : g[i] = h[i]
  <2> DEFINE S == {i \in Nat : i <= m => g[i] = h[i]}
  <2>1. 0 \in S
    BY DEF Sums
  <2>2. ASSUME NEW i \in Nat, i \in S
        PROVE  i + 1 \in S
    <3> SUFFICES ASSUME i + 1 <= m PROVE g[i + 1] = h[i + 1]
      OBVIOUS
    <3>1. i + 1 \in 1..m /\ i + 1 \in 1..n /\ (i + 1) - 1 = i /\ g[i] = h[i]
      BY <1>3, <2>2
    <3> QED BY <3>1 DEF Sums
  <2> HIDE DEF S
  <2>3. Nat \subseteq S
    BY <2>1, <2>2, Numbers
  <2> QED BY <2>3 DEF S
<1> DEFINE f == [n \in Nat |-> G(n)[n]]
<1>4. f[0] = 0
  BY <1>2 DEF Sums
<1>5. ASSUME NEW n \in Nat
      PROVE  f[n] \in Nat /\ f[n + 1] = f[n] + Delay(n + 1)
  <2>1. G(n + 1)[n] = G(n)[n]
    BY <1>2, <1>3
  <2>2. n + 1 \in Nat /\ n + 1 \in 1..(n + 1) /\ (n + 1) - 1 = n
    OBVIOUS
  <2>3. G(n + 1)[n + 1] = G(n + 1)[(n + 1) - 1] + Delay(n + 1)
    BY <1>2, <2>2 DEF Sums
  <2>4. G(n)[n] \in Nat
    BY <1>2 DEF Sums
  <2> QED BY <2>1, <2>2, <2>3, <2>4
<1>6. \A n \in Nat : f[n] = IF n = 0 THEN 0 ELSE f[n - 1] + Delay(n)
  <2> TAKE n \in Nat
  <2>1. CASE n = 0
    BY <1>4, <2>1
  <2>2. CASE n # 0
    <3>1. n - 1 \in Nat /\ (n - 1) + 1 = n
      BY <2>2
    <3> QED BY <1>5, <2>2, <3>1
  <2> QED BY <2>1, <2>2
<1> HIDE DEF f
<1>7. f = [n \in Nat |-> IF n = 0 THEN 0 ELSE f[n - 1] + Delay(n)]
  <2>1. f = [n \in Nat |-> f[n]]
    BY DEF f
  <2> QED BY <1>6, <2>1
<1>8. Elapsed = [n \in Nat |-> IF n = 0 THEN 0 ELSE Elapsed[n - 1] + Delay(n)]
  BY <1>7 DEF Elapsed
<1>9. Elapsed[0] = 0 /\ \A n \in Nat \ {0} : Elapsed[n] = Elapsed[n - 1] + Delay(n)
  BY <1>8
<1> DEFINE S == {n \in Nat : Elapsed[n] \in Nat}
<1>10. 0 \in S
  BY <1>9
<1>11. ASSUME NEW n \in Nat, n \in S
       PROVE  n + 1 \in S
  <2>1. n + 1 \in Nat \ {0} /\ (n + 1) - 1 = n
    OBVIOUS
  <2>2. Delay(n + 1) \in Nat
    BY <2>1, DelayPositive
  <2> QED BY <1>9, <1>11, <2>1, <2>2
<1> HIDE DEF S
<1>12. Nat \subseteq S
  BY <1>10, <1>11, Numbers
<1>13. \A n \in Nat : n + 1 \in Nat \ {0} /\ (n + 1) - 1 = n
  OBVIOUS
<1> QED BY <1>9, <1>12, <1>13 DEF S

-----------------------------------------------------------------------------
(* What the status says of the logger, and how long failures take.         *)

\* A task runs only outside the backoff, so contact that worked is never
\* followed by a backoff that an older failure started; and each failure adds
\* its delay to the time the failures before it took.
BackoffInv ==
    /\ ~lastError /\ lastSuccess # Null => contact = "worked"
    /\ lastError /\ InBackoff => contact = "failed"
    /\ \A t \in Tasks : Running(t) => ~InBackoff
    /\ 1 <= now
    /\ failures > 0 => /\ retryAt >= 1 + Elapsed[failures]
                       /\ now >= 1 + Elapsed[failures - 1]

LEMMA BackoffInit == Init => BackoffInv
BY DEF Init, BackoffInv, InBackoff, Running, Null

LEMMA BackoffStep ==
    ASSUME IInv, BackoffInv, [Next]_vars
    PROVE  BackoffInv'
<1> USE DEF IInv, BackoffInv, InBackoff, Null
<1>0. /\ now \in Nat /\ retryAt \in Int /\ failures \in Nat /\ lastError \in BOOLEAN
      /\ pc \in [Tasks -> {"idle", "queued", "connecting", "waiting", "done"}]
      /\ \A n \in Nat : Elapsed[n] \in Nat
  BY ElapsedStep DEF TypeOK
<1>1. ASSUME UNCHANGED <<statusVars, now>>,
             \A t \in Tasks : Running(t)' => Running(t) \/ ~InBackoff
      PROVE  BackoffInv'
  BY <1>1 DEF statusVars
<1>2. ASSUME NEW t \in Tasks, NEW k \in Calls, Call(t, k) \/ CallInvalid(t, k)
      PROVE  BackoffInv'
  BY <1>0, <1>1, <1>2 DEF Call, CallInvalid, Running
<1>3. ASSUME NEW t \in Tasks, Start(t)
      PROVE  BackoffInv'
  BY <1>0, <1>1, <1>3
  DEF Start, StartRefused, StartConnected, StartConnecting, Settle, Send, Running
<1>4. ASSUME NEW t \in Tasks, ConnectOk(t)
      PROVE  BackoffInv'
  BY <1>0, <1>1, <1>4 DEF ConnectOk, Send, Running
<1>5. ASSUME NEW t \in Tasks, Running(t), Fail(t), UNCHANGED now
      PROVE  BackoffInv'
  <2>1. \A u \in Tasks : ~Running(u)'
    BY <1>0, <1>5, OneRuns DEF Fail, Settle, Running
  <2>2. Elapsed[failures + 1] = Elapsed[failures] + Delay(failures + 1)
        /\ Elapsed[0] = 0 /\ Elapsed[failures] \in Nat /\ Delay(failures + 1) \in Nat
    BY <1>0, ElapsedStep, DelayPositive
  <2>3. now >= 1 + Elapsed[failures]
    <3>1. CASE failures = 0
      BY <1>0, <2>2, <3>1
    <3>2. CASE failures > 0
      BY <1>0, <1>5, <2>2, <3>2
    <3> QED BY <1>0, <3>1, <3>2
  <2>4. failures' = failures + 1 /\ retryAt' = now + Delay(failures + 1)
        /\ failures' - 1 = failures
    BY <1>0, <1>5 DEF Fail
  <2>5. retryAt' >= 1 + Elapsed[failures'] /\ now' >= 1 + Elapsed[failures' - 1]
    BY <1>0, <1>5, <2>2, <2>3, <2>4
  <2> QED BY <1>5, <2>1, <2>5 DEF Fail
<1>6. ASSUME NEW t \in Tasks, ConnectFail(t) \/ ExchangeFail(t)
      PROVE  BackoffInv'
  BY <1>5, <1>6 DEF ConnectFail, ExchangeFail, Running
<1>7. ASSUME NEW t \in Tasks, Reply(t)
      PROVE  BackoffInv'
  <2>1. Running(t) /\ contact' = "worked" /\ UNCHANGED now
    BY <1>7 DEF Reply, Running
  <2>2. \A u \in Tasks : Running(u)' => Running(u)
    BY <1>0, <1>7 DEF Reply, Settle, Send, Running
  <2>3. CASE UNCHANGED <<failures, retryAt, lastError, lastSuccess>>
    BY <2>1, <2>2, <2>3
  <2>4. CASE MarkSuccess
    BY <1>0, <2>1, <2>4 DEF MarkSuccess
  <2> QED BY <1>7, <2>3, <2>4 DEF Reply
<1>8. CASE IdleDeath \/ Close \/ DeviceHandle \/ PanelEdit
  BY <1>1, <1>8 DEF IdleDeath, Close, DeviceHandle, PanelEdit, Running
<1>9. CASE Tick
  BY <1>0, <1>9 DEF Tick, statusVars, Running
<1>10. CASE UNCHANGED vars
  BY <1>1, <1>10 DEF vars, Running
<1> QED
  BY <1>2, <1>3, <1>4, <1>6, <1>7, <1>8, <1>9, <1>10 DEF Next, Connect

LEMMA BackoffHolds == Spec => []BackoffInv
BY BackoffInit, BackoffStep, Invariance, PTL DEF Spec

\* status() says "online" only after contact that worked and "backoff" only
\* after contact that failed, whichever of the calls met the logger
\* (LoggerLink.status, markSuccess, fail).
THEOREM StatusIsHonest == Spec => []StatusHonest
<1>1. BackoffInv => StatusHonest
  BY DEF BackoffInv, StatusHonest, Status
<1> QED BY <1>1, BackoffHolds, PTL

\* Failures in a row are spread out by their backoff delays, however many
\* tasks are queued (LoggerLink.ensureConnected, fail).
THEOREM FailuresArePaced == Spec => []Paced
<1>1. BackoffInv => Paced
  BY DEF BackoffInv, Paced
<1> QED BY <1>1, BackoffHolds, PTL

-----------------------------------------------------------------------------
(* What a write confirms.                                                  *)

\* The writers l of a setting name task t.
Wrote(l, t) == \E i \in DOMAIN l : l[i] = t

\* A setting with the writers l had the value v when task t wrote it or later.
Held(l, t, v) == \E i \in DOMAIN l : l[i] = t /\ \E j \in i..Len(l) : l[j] = v

\* A write that waits has written every setting before its request and has
\* confirmed those it read back; the same goes for its messages, and a good
\* reply says that its request was done.
WriteInv ==
    /\ \A t \in Tasks : outcome[t] = "ok" => Settled(t)
    /\ \A t \in Tasks : kind[t] = "write" /\ pc[t] = "waiting" =>
         \A s \in Settings :
           /\ s < step[t] => Wrote(log[s], t)
           /\ NWrites + s < step[t] => Held(log[s], t, confirmed[t][s])
    /\ \A m \in requests : kind[m.task] = "write" =>
         \A s \in Settings : s < m.step => Wrote(log[s], m.task)
    /\ \A r \in replies : kind[r.task] = "write" /\ r.ok =>
         \A s \in Settings :
           /\ r.step = s => Wrote(log[s], r.task)
           /\ r.step = NWrites + s => Held(log[s], r.task, r.value)
    /\ \A t \in Tasks : kind[t] = "write" /\ outcome[t] = "ok" =>
         \A s \in Settings : Held(log[s], t, confirmed[t][s])

\* A longer log keeps what was written and what was held.
LEMMA LogGrows ==
    ASSUME NEW l \in Seq(Writers), NEW w \in Writers, NEW t, NEW v
    PROVE  /\ Wrote(l, t) => Wrote(Append(l, w), t)
           /\ Held(l, t, v) => Held(Append(l, w), t, v)
<1> DEFINE k == Append(l, w)
<1>1. /\ Len(l) \in Nat /\ Len(k) = Len(l) + 1
      /\ DOMAIN l = 1..Len(l) /\ DOMAIN k = 1..Len(k)
      /\ \A i \in DOMAIN l : k[i] = l[i]
  OBVIOUS
<1>2. Wrote(l, t) => Wrote(k, t)
  BY <1>1 DEF Wrote
<1>3. ASSUME Held(l, t, v)
      PROVE  Held(k, t, v)
  <2>1. PICK i \in DOMAIN l : l[i] = t /\ \E j \in i..Len(l) : l[j] = v
    BY <1>3 DEF Held
  <2>2. PICK j \in i..Len(l) : l[j] = v
    BY <2>1
  <2>3. i \in DOMAIN k /\ j \in i..Len(k) /\ k[i] = t /\ k[j] = v
    BY <1>1, <2>1, <2>2
  <2> QED BY <2>3 DEF Held
<1> QED BY <1>2, <1>3

\* The writer just added wrote the setting.
LEMMA LastWrote ==
    ASSUME NEW l \in Seq(Writers), NEW w \in Writers
    PROVE  Wrote(Append(l, w), w)
<1>1. Len(l) + 1 \in DOMAIN Append(l, w) /\ Append(l, w)[Len(l) + 1] = w
  OBVIOUS
<1> QED BY <1>1 DEF Wrote

\* The last value of a setting somebody has written was held since.
LEMMA LastIsHeld ==
    ASSUME NEW l \in Seq(Writers), NEW t, Wrote(l, t)
    PROVE  Held(l, t, l[Len(l)])
<1>1. PICK i \in DOMAIN l : l[i] = t
  BY DEF Wrote
<1>2. Len(l) \in i..Len(l)
  BY <1>1
<1> QED BY <1>1, <1>2 DEF Held

LEMMA WriteInit == Init => WriteInv
BY DEF Init, WriteInv

\* A step that leaves the logs, the outcomes and the kinds of called tasks
\* alone, sends nothing and puts no other task in wait.
LEMMA WriteKept ==
    ASSUME IInv, WriteInv, UNCHANGED <<kind, log, confirmed>>,
           requests' \subseteq requests, replies' \subseteq replies,
           \A t \in Tasks : outcome'[t] = "ok" => outcome[t] = "ok" /\ Settled(t)',
           \A t \in Tasks : pc'[t] = "waiting" => pc[t] = "waiting" /\ step'[t] = step[t]
    PROVE  WriteInv'
BY DEF WriteInv

LEMMA WriteStep ==
    ASSUME IInv, WriteInv, [Next]_vars
    PROVE  WriteInv'
<1> USE DEF IInv, Settled
<1>0. /\ pc \in [Tasks -> {"idle", "queued", "connecting", "waiting", "done"}]
      /\ outcome \in [Tasks -> {"none", "ok", "refused", "unavailable", "invalid"}]
      /\ kind \in [Tasks -> Kinds] /\ step \in [Tasks -> 0..Longest]
      /\ log \in [Settings -> Seq(Writers)]
      /\ \A t \in Tasks : outcome[t] = "ok" => pc[t] = "done"
      /\ \A t \in Tasks : pc[t] = "idle" => outcome[t] # "ok"
      /\ \A m \in requests \cup replies : m.task \in Tasks /\ pc[m.task] # "idle"
  BY MessageType DEF TypeOK, WriteInv, ProgramInv, Messages
<1>1. ASSUME NEW t \in Tasks, NEW k \in Calls, Call(t, k) \/ CallInvalid(t, k)
      PROVE  WriteInv'
  <2>1. /\ pc[t] = "idle" /\ outcome[t] # "ok" /\ outcome'[t] # "ok" /\ pc'[t] # "waiting"
        /\ UNCHANGED <<step, wireVars, log, confirmed>>
        /\ \A u \in Tasks \ {t} : /\ pc'[u] = pc[u] /\ kind'[u] = kind[u]
                                  /\ outcome'[u] = outcome[u]
    BY <1>0, <1>1 DEF Call, CallInvalid
  <2>2. \A m \in requests \cup replies : m.task \in Tasks \ {t}
    BY <1>0, <2>1
  <2>3. \A u \in Tasks : pc'[u] = "waiting" \/ outcome'[u] = "ok" => u \in Tasks \ {t}
    BY <2>1
  <2> QED BY <2>1, <2>2, <2>3 DEF WriteInv, wireVars
<1>2. ASSUME NEW t \in Tasks, StartRefused(t) \/ StartConnecting(t)
      PROVE  WriteInv'
  BY <1>0, <1>2, WriteKept DEF StartRefused, StartConnecting, Settle, wireVars, Turn
<1>3. ASSUME NEW t \in Tasks, NEW c, Send(t, 1, c), pc[t] # "waiting", pc[t] # "done",
             UNCHANGED <<kind, outcome, replies, log, confirmed>>
      PROVE  WriteInv'
  <2>1. \A s \in Settings : ~(s < 1) /\ ~(NWrites + s < 1)
    BY DEF Settings
  <2>2. /\ \A m \in requests' : m \in requests \/ m.step = 1
        /\ pc'[t] = "waiting" /\ step'[t] = 1
        /\ \A u \in Tasks \ {t} : pc'[u] = pc[u] /\ step'[u] = step[u]
    BY <1>0, <1>3 DEF Send
  <2>3. \A u \in Tasks : outcome'[u] = "ok" => pc'[u] = "done"
    BY <1>0, <1>3, <2>2
  <2> QED BY <1>3, <2>1, <2>2, <2>3 DEF WriteInv
<1>4. ASSUME NEW t \in Tasks, StartConnected(t) \/ ConnectOk(t)
      PROVE  WriteInv'
  BY <1>0, <1>3, <1>4 DEF StartConnected, ConnectOk, Turn
<1>5. ASSUME NEW t \in Tasks, ConnectFail(t) \/ ExchangeFail(t)
      PROVE  WriteInv'
  BY <1>0, <1>5, WriteKept DEF ConnectFail, ExchangeFail, Fail, Settle, wireVars
<1>6. ASSUME NEW t \in Tasks, Reply(t)
      PROVE  WriteInv'
  <2>1. PICK r \in replies : Reply(t)!2!(r)
    BY <1>6 DEF Reply
  <2>2. r.task = t /\ r.step = step[t]
    <3>1. Current(r) /\ r \in Messages
      BY <2>1 DEF Current, Messages
    <3>2. Running(t)
      BY <1>6 DEF Reply, Running
    <3> QED BY <3>1, <3>2, QuietWire
  <2>3. /\ pc[t] = "waiting" /\ UNCHANGED <<kind, log>> /\ replies' \subseteq replies
        /\ step[t] \in 1..Length(kind[t]) /\ outcome[t] # "ok"
    BY <1>0, <1>6, <2>1 DEF Reply, ProgramInv
\* What t has confirmed once this reply is in.
  <2>4. ASSUME kind[t] = "write", r.ok, NEW s \in Settings
        PROVE  /\ s <= step[t] => Wrote(log[s], t)
               /\ NWrites + s <= step[t] => Held(log[s], t, confirmed'[t][s])
    <3>1. /\ s < step[t] => Wrote(log[s], t)
          /\ NWrites + s < step[t] => Held(log[s], t, confirmed[t][s])
      BY <2>3, <2>4 DEF WriteInv
    <3>2. /\ step[t] = s => Wrote(log[s], t)
          /\ step[t] = NWrites + s => Held(log[s], t, r.value)
      BY <2>1, <2>2, <2>4 DEF WriteInv
    <3>3. /\ step[t] = NWrites + s => confirmed'[t][s] = r.value
          /\ step[t] # NWrites + s => confirmed'[t][s] = confirmed[t][s]
      <4>1. confirmed \in [Tasks -> [Settings -> Writers]] /\ s \in Int
            /\ step[t] \in Int /\ NWrites \in Int
        BY <1>0, <2>3 DEF TypeOK, Settings
      <4> QED BY <2>1, <2>4, <4>1
    <3>4. step[t] \in Int /\ s \in Int /\ NWrites \in Int
      BY <2>3 DEF Settings
    <3>5. s <= step[t] => Wrote(log[s], t)
      BY <3>1, <3>2, <3>4
    <3>6. NWrites + s <= step[t] => Held(log[s], t, confirmed'[t][s])
      BY <3>1, <3>2, <3>3, <3>4
    <3> QED BY <3>5, <3>6
  <2>5. \A u \in Tasks \ {t} : /\ confirmed'[u] = confirmed[u] /\ pc'[u] = pc[u]
                               /\ step'[u] = step[u] /\ outcome'[u] = outcome[u]
    BY <1>0, <1>6, <2>1 DEF Reply, Send, Settle, TypeOK
  <2>6. kind[t] = "write" => (Survives(t, r) <=> r.ok)
    BY DEF Survives
  <2>7. CASE Survives(t, r) /\ step[t] # Length(kind[t]) /\ Send(t, step[t] + 1, socket)
             /\ UNCHANGED outcome
    <3>1. /\ pc'[t] = "waiting" /\ step'[t] = step[t] + 1 /\ outcome'[t] # "ok"
          /\ \A m \in requests' : m \in requests \/ (m.task = t /\ m.step = step[t] + 1)
      BY <1>0, <2>3, <2>7 DEF Send
    <3>2. \A s \in Settings : /\ s < step[t] + 1 <=> s <= step[t]
                              /\ NWrites + s < step[t] + 1 <=> NWrites + s <= step[t]
      BY <1>0, <2>3 DEF Settings
    <3>3. kind[t] = "write" => \A s \in Settings :
             /\ s < step'[t] => Wrote(log[s], t)
             /\ NWrites + s < step'[t] => Held(log[s], t, confirmed'[t][s])
      BY <2>4, <2>6, <2>7, <3>1, <3>2
    <3> QED BY <2>3, <2>5, <3>1, <3>3 DEF WriteInv
  <2>8. CASE Survives(t, r) /\ step[t] = Length(kind[t]) /\ Settle(t, "ok")
             /\ UNCHANGED <<step, requests>>
    <3>1. pc'[t] = "done"
      BY <1>0, <2>8 DEF Settle
    <3>2. ASSUME kind[t] = "write", NEW s \in Settings
          PROVE  Held(log[s], t, confirmed'[t][s])
      <4>1. NWrites + s <= step[t]
        BY <2>8, <3>2 DEF Length, Settings
      <4> QED BY <2>4, <2>6, <2>8, <3>2, <4>1
    <3> QED BY <2>3, <2>5, <2>8, <3>1, <3>2 DEF WriteInv
  <2>9. CASE Settle(t, "refused") /\ UNCHANGED <<step, requests>>
    <3>1. pc'[t] = "done" /\ outcome'[t] = "refused"
      BY <1>0, <2>9 DEF Settle
    <3> QED BY <2>3, <2>5, <2>9, <3>1 DEF WriteInv
  <2> QED BY <2>1, <2>7, <2>8, <2>9
\* A log that grows.
<1>7. ASSUME NEW s \in Settings, NEW w \in Writers,
             log' = [log EXCEPT ![s] = Append(@, w)]
      PROVE  /\ \A r \in Settings : \A t, v :
                  /\ Wrote(log[r], t) => Wrote(log'[r], t)
                  /\ Held(log[r], t, v) => Held(log'[r], t, v)
             /\ Wrote(log'[s], w)
  BY <1>0, <1>7, LogGrows, LastWrote
<1>8. CASE PanelEdit
  <2>1. PICK s \in Settings : log' = [log EXCEPT ![s] = Append(@, Panel)]
    BY <1>8 DEF PanelEdit
  <2>2. UNCHANGED <<pc, kind, step, outcome, wireVars, confirmed>>
    BY <1>8 DEF PanelEdit
  <2>3. \A r \in Settings : \A t, v : /\ Wrote(log[r], t) => Wrote(log'[r], t)
                                      /\ Held(log[r], t, v) => Held(log'[r], t, v)
    BY <1>7, <2>1 DEF Writers
  <2> QED BY <2>2, <2>3 DEF WriteInv, wireVars
<1>9. CASE DeviceHandle
  <2>1. PICK m \in requests, applied \in BOOLEAN, ok \in BOOLEAN :
          DeviceHandle!1!(m, applied, ok)
    BY <1>9 DEF DeviceHandle
  <2> DEFINE k == kind[m.task]
             s == IF m.step <= NWrites THEN m.step ELSE m.step - NWrites
             value == IF k = "write" THEN log[s][Len(log[s])] ELSE Panel
             reply == [conn |-> m.conn, task |-> m.task, step |-> m.step,
                       ok |-> ok, value |-> value]
  <2>2. UNCHANGED <<pc, kind, step, outcome, confirmed>> /\ requests' \subseteq requests
        /\ replies' = replies \cup {reply}
    BY <1>9, <2>1 DEF DeviceHandle
  <2>3. m.task \in Tasks /\ m.step \in 1..Longest /\ m.step <= Length(k)
    BY DEF TypeOK, Frame, ProgramInv, Messages
  <2>4. k = "write" => /\ s \in Settings
                       /\ m.step \in 1..(2 * NWrites)
    BY <2>3 DEF Length, Settings, Longest
  <2>5. /\ \A r \in Settings : \A t, v :
             /\ Wrote(log[r], t) => Wrote(log'[r], t)
             /\ Held(log[r], t, v) => Held(log'[r], t, v)
        /\ k = "write" /\ ok /\ m.step <= NWrites => Wrote(log'[s], m.task)
    <3>1. CASE k = "write" /\ applied /\ Writes(k, m.step)
      <4>1. s \in Settings /\ m.task \in Writers /\ log' = [log EXCEPT ![s] = Append(@, m.task)]
        BY <2>1, <2>3, <2>4, <3>1 DEF Writers
      <4> QED BY <1>7, <4>1
    <3>2. CASE ~(k = "write" /\ applied /\ Writes(k, m.step))
      BY <2>1, <3>2 DEF Writes
    <3> QED BY <3>1, <3>2
  <2>6. ASSUME k = "write", ok, NEW r \in Settings
        PROVE  /\ m.step = r => Wrote(log'[r], m.task)
               /\ m.step = NWrites + r => Held(log'[r], m.task, value)
    <3>1. m.step = r => s = r /\ m.step <= NWrites
      BY DEF Settings
    <3>2. ASSUME m.step = NWrites + r
          PROVE  Held(log'[r], m.task, value)
      <4>1. s = r /\ r < m.step
        BY <3>2 DEF Settings
      <4>2. Wrote(log[r], m.task)
        BY <2>6, <4>1 DEF WriteInv
      <4>3. Held(log[r], m.task, log[r][Len(log[r])])
        BY <1>0, <4>2, LastIsHeld
      <4> QED BY <2>5, <2>6, <4>1, <4>3
    <3> QED BY <2>5, <2>6, <3>1, <3>2
  <2>7. reply.task = m.task /\ reply.step = m.step /\ reply.ok = ok /\ reply.value = value
    OBVIOUS
  <2> HIDE DEF reply, value, s
  <2>8. \A q \in replies' : kind[q.task] = "write" /\ q.ok =>
          \A r \in Settings :
            /\ q.step = r => Wrote(log'[r], q.task)
            /\ q.step = NWrites + r => Held(log'[r], q.task, q.value)
    <3> TAKE q \in replies'
    <3>1. CASE q \in replies
      BY <2>5, <3>1 DEF WriteInv
    <3>2. CASE q = reply
      BY <2>6, <2>7, <3>2
    <3> QED BY <2>2, <3>1, <3>2
  <2> QED BY <2>2, <2>5, <2>8 DEF WriteInv
<1>10. CASE IdleDeath \/ Close \/ Tick
  BY <1>0, <1>10, WriteKept DEF IdleDeath, Close, Tick, wireVars
<1>11. CASE UNCHANGED vars
  BY <1>0, <1>11, WriteKept DEF vars, wireVars
<1> QED
  BY <1>1, <1>2, <1>4, <1>5, <1>6, <1>8, <1>9, <1>10, <1>11 DEF Next, Start, Connect

\* A write that reports success was applied, every setting of it, and the
\* values it returns are ones the device held afterwards, through lost and
\* garbled replies, reconnects and changes on the panel
\* (LoggerLink.write, readBack).
THEOREM WritesAreConfirmed == Spec => []ConfirmedHeld
<1>1. WriteInv => ConfirmedHeld
  BY DEF WriteInv, ConfirmedHeld, Held
<1> QED BY <1>1, WriteInit, WriteStep, Invariance, PTL DEF Spec
=============================================================================
