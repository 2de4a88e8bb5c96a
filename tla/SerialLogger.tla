---------------------------- MODULE SerialLogger ----------------------------
(***************************************************************************)
(* The serial logger on the ESP proxy: the app asks an emulated Wi-Fi       *)
(* logger over TCP; what it asks is read or written through the proxy first *)
(* (register-refresher.ts, serial-logger.ts), over one USB link that asks   *)
(* one thing at a time (esp-link.ts), while the capture learns registers    *)
(* from the plug's own conversation (request-response-pairer.ts).           *)
(*                                                                          *)
(* A reply names neither a request nor, for a read, an address: the link    *)
(* takes any reply of the right size for the request it waits for, and the  *)
(* pairer any reply for the oldest request it has heard.  Blocks here all   *)
(* have one size.  A client is a TCP socket, which is answered in turn.     *)
(***************************************************************************)
EXTENDS EspProxy

CONSTANTS
    Clients,     \* the app's sockets
    MaxAsks,     \* requests the clients make
    MaxOutages,  \* failures of the USB port and restarts of the board
    MaxExpiries  \* times a memo of the refresher grows old

ASSUME LoggerAssumption ==
    /\ None \notin Clients
    /\ None \notin [who : {"ours"}, op : {"read", "write"}, b : Blocks, v : 0..MaxAsks]
    /\ MaxAsks \in Nat /\ MaxOutages \in Nat /\ MaxExpiries \in Nat

VARIABLES
    port,       \* whether the USB port is open
    pending,    \* the request on the link, or None
    waiting,    \* requests behind it, in order
    memo,       \* per block: {"fresh", "failed", "refused"} that still holds
    bank,       \* the emulated register values; None before any is heard
    rejected,   \* [reads, writes]: blocks that answer an exception
    client,     \* per socket: the request being prepared, or None
    heard,      \* plug requests the pairer has not matched
    confirmed,  \* per block: place in hist of the last write told as taken
    budget      \* [asks, outages, expiries] made so far

hostVars == <<port, pending, waiting, memo, bank, rejected, client, heard, confirmed, budget>>
vars == <<proxyVars, hostVars>>

LoggerInit ==
    /\ ProxyInit
    /\ port = TRUE /\ pending = None /\ waiting = <<>>
    /\ memo = [b \in Blocks |-> {}]
    /\ bank = [b \in Blocks |-> None]
    /\ rejected = [reads |-> {}, writes |-> {}]
    /\ client = [c \in Clients |-> None]
    /\ heard = <<>>
    /\ confirmed = [b \in Blocks |-> 1]
    /\ budget = [asks |-> 0, outages |-> 0, expiries |-> 0]

Frame(op, b, v) == [who |-> "ours", op |-> op, b |-> b, v |-> v]
OnLink == {waiting[i] : i \in DOMAIN waiting} \union ({pending} \ {None})
Place(b, v) == CHOOSE i \in DOMAIN hist[b] : hist[b][i] = v

(***************************************************************************)
(* A client asks.  A read joins the one in flight for its block, is         *)
(* answered at once where a memo holds, and else goes to the link; a write  *)
(* drops the memos first.  A write that reaches outside the registers the   *)
(* map lets be written is refused without being sent.                       *)
(***************************************************************************)
AskRead(c, b) ==
    /\ IF Frame("read", b, 0) \in OnLink \/ memo[b] = {}
       THEN client' = [client EXCEPT ![c] = Frame("read", b, 0)]
       ELSE UNCHANGED client
    /\ waiting' = IF Frame("read", b, 0) \in OnLink \/ memo[b] # {} THEN waiting
                  ELSE Append(waiting, Frame("read", b, 0))
    /\ UNCHANGED <<memo, rejected>>

AskWrite(c, b) ==
    LET job == Frame("write", b, budget.asks + 1)
    IN  /\ rejected' = [rejected EXCEPT !.writes = @ \ {b}]
        /\ memo' = [memo EXCEPT ![b] = {}]
        /\ client' = [client EXCEPT ![c] = job]
        /\ waiting' = Append(waiting, job)

AskUnwritable(b) ==
    /\ rejected' = [rejected EXCEPT !.writes = @ \union {b}]
    /\ UNCHANGED <<memo, client, waiting>>

Ask(c) ==
    /\ client[c] = None /\ budget.asks < MaxAsks /\ ~crossed
    /\ budget' = [budget EXCEPT !.asks = @ + 1]
    /\ \E b \in Blocks : AskRead(c, b) \/ AskWrite(c, b) \/ AskUnwritable(b)
    /\ UNCHANGED <<proxyVars, port, pending, bank, heard, confirmed>>

(***************************************************************************)
(* The link: the first request waiting goes out, or fails at once while     *)
(* the port is away.                                                        *)
(***************************************************************************)
(* A plausible bug: whatever the inverter answered counts as taken. *)
TakenAnyAnswer(job, kind) == kind # "none" /\ job.b \notin rejected.writes

(* A write is stored in the emulated bank, and confirmed, only when the     *)
(* inverter took it and no other refusal stands at its address.             *)
Taken(job, kind) == kind = "ok" /\ job.b \notin rejected.writes

(* What the request's answer (None: there was none) does, down to the reply *)
(* to each socket that still waits for it.                                  *)
Settle(job, reply) ==
    LET b == job.b
        kind == IF reply = None THEN "none" ELSE reply.kind
        waits == \E c \in Clients : client[c] = job
    IN  /\ client' = [c \in Clients |-> IF client[c] = job THEN None ELSE client[c]]
        /\ \/ /\ job.op = "read"
              /\ memo' = [memo EXCEPT ![b] =
                    CASE kind = "ok" -> {"fresh"}
                      [] kind = "none" -> @ \union {"failed"}
                      [] OTHER -> (@ \ {"failed"}) \union {"refused"}]
              /\ rejected' = [rejected EXCEPT !.reads =
                    CASE kind = "ok" -> @ \ {b} [] kind = "none" -> @ [] OTHER -> @ \union {b}]
              /\ bank' = IF kind = "ok" THEN [bank EXCEPT ![b] = reply.v] ELSE bank
              /\ UNCHANGED confirmed
           \/ /\ job.op = "write"
              /\ LET taken == waits /\ Taken(job, kind)
                 IN  /\ bank' = IF taken THEN [bank EXCEPT ![b] = job.v] ELSE bank
                     /\ confirmed' = IF taken /\ \E i \in DOMAIN hist[b] : hist[b][i] = job.v
                                     THEN [confirmed EXCEPT ![b] = Place(b, job.v)] ELSE confirmed
              /\ rejected' = IF waits /\ kind # "ok" THEN [rejected EXCEPT !.writes = @ \union {b}]
                             ELSE rejected
              /\ UNCHANGED memo

(* A plausible bug: a request waits for the port to come back. *)
StartWhenOpen ==
    /\ pending = None /\ waiting # <<>> /\ port
    /\ waiting' = Tail(waiting)
    /\ pending' = Head(waiting)
    /\ UsbLine(Head(waiting), up)
    /\ UNCHANGED <<memo, rejected, bank, confirmed, client>>
    /\ UNCHANGED <<pst, answered, held, plug, piece, inv, hist, plugGot, crossed,
                   port, heard, budget>>

StartExchange ==
    /\ pending = None /\ waiting # <<>>
    /\ waiting' = Tail(waiting)
    /\ \/ /\ port
          /\ pending' = Head(waiting)
          /\ UsbLine(Head(waiting), up)
          /\ UNCHANGED <<memo, rejected, bank, confirmed, client>>
       \/ /\ ~port
          /\ Settle(Head(waiting), None)
          /\ UNCHANGED <<pending, queue, up>>
    /\ UNCHANGED <<pst, answered, held, plug, piece, inv, hist, plugGot, crossed,
                   port, heard, budget>>

(* finish(): ends the request on the link, if there is one. *)
Finish(reply) ==
    \/ /\ pending # None
       /\ Settle(pending, reply)
       /\ pending' = None
    \/ /\ pending = None
       /\ UNCHANGED <<pending, memo, rejected, bank, confirmed, client>>

(***************************************************************************)
(* A line arrives.                                                          *)
(***************************************************************************)
(* parseReadReply and parseWriteReply: the kind and the size, and the       *)
(* address for a write alone.                                               *)
Fits(job, line) ==
    /\ job # None
    /\ job.op = line.op
    /\ job.op = "write" /\ line.kind = "ok" => job.b = line.b

Reply(line) ==
    /\ IF Fits(pending, line) THEN Finish(line)
       ELSE UNCHANGED <<pending, memo, rejected, bank, confirmed, client>>
    /\ UNCHANGED <<heard, crossed>>

GaveUp ==
    /\ Finish(None)
    /\ UNCHANGED <<heard, crossed>>

HearsAsk(line) ==
    /\ heard' = Append(heard, line.b)
    /\ crossed' = (crossed \/ heard # <<>>)
    /\ UNCHANGED <<pending, memo, rejected, bank, confirmed, client>>

(* A pair: the values are those of the oldest request heard. *)
HearsAnswer(line) ==
    /\ IF line.kind = "ok" /\ heard # <<>>
       THEN /\ heard' = Tail(heard)
            /\ bank' = [bank EXCEPT ![Head(heard)] = line.v]
            /\ memo' = [memo EXCEPT ![Head(heard)] = @ \union {"fresh"}]
            /\ rejected' = [rejected EXCEPT !.reads = @ \ {Head(heard)}]
       ELSE UNCHANGED <<heard, bank, memo, rejected>>
    /\ UNCHANGED <<pending, confirmed, client, crossed>>

Receive ==
    /\ port /\ up # <<>>
    /\ up' = Tail(up)
    /\ LET line == Head(up)
       IN \/ line.tag = "reply" /\ Reply(line)
          \/ line.tag \in {"timeout", "busy"} /\ GaveUp
          \/ line.tag = "ask" /\ HearsAsk(line)
          \/ line.tag = "answer" /\ HearsAnswer(line)
    /\ UNCHANGED <<pst, answered, held, queue, plug, piece, inv, hist, plugGot,
                   port, waiting, budget>>

Lost ==
    /\ ~port /\ up # <<>>
    /\ up' = <<>>
    /\ UNCHANGED <<pst, answered, held, queue, plug, piece, inv, hist, plugGot, crossed, hostVars>>

(***************************************************************************)
(* Timers.  A socket is answered from what is known once its own deadline   *)
(* passes, while its request stays on the link (a write is then refused     *)
(* with "no answer"); the link gives its request up after                   *)
(* ESP_REQUEST_TIMEOUT_MS; memos and unmatched requests grow old.           *)
(***************************************************************************)
Deadline(c) ==
    /\ client[c] # None
    /\ client' = [client EXCEPT ![c] = None]
    /\ rejected' = IF client[c].op = "write"
                   THEN [rejected EXCEPT !.writes = @ \union {client[c].b}] ELSE rejected
    /\ UNCHANGED <<proxyVars, port, pending, waiting, memo, bank, heard, confirmed, budget>>

(* Whether something of the request is still on its way. *)
Lingers == queue # <<>> \/ Awaiting("ours") \/ pst = "ours"

LinkTimeout ==
    /\ pending # None
    /\ Finish(None)
    /\ crossed' = (crossed \/ Lingers)
    /\ UNCHANGED <<pst, answered, held, queue, up, plug, piece, inv, hist, plugGot,
                   port, waiting, heard, budget>>

Expire ==
    /\ budget.expiries < MaxExpiries /\ ~crossed
    /\ budget' = [budget EXCEPT !.expiries = @ + 1]
    /\ \/ \E b \in Blocks : memo[b] # {} /\ memo' = [memo EXCEPT ![b] = {}] /\ UNCHANGED heard
       \/ heard # <<>> /\ heard' = <<>> /\ UNCHANGED memo
    /\ UNCHANGED <<proxyVars, port, pending, waiting, bank, rejected, client, confirmed>>

(***************************************************************************)
(* The port fails, with the lines it carried, and is opened again.          *)
(***************************************************************************)
PortFails ==
    /\ port /\ budget.outages < MaxOutages /\ ~crossed
    /\ budget' = [budget EXCEPT !.outages = @ + 1]
    /\ port' = FALSE
    /\ Finish(None)
    /\ crossed' = (crossed \/ Lingers \/ pst = "plug" \/ heard # <<>>)
    /\ UNCHANGED <<pst, answered, held, queue, up, plug, piece, inv, hist, plugGot, waiting, heard>>

Reopen ==
    /\ ~port
    /\ port' = TRUE
    /\ crossed' = (crossed \/ Lingers \/ pst = "plug")
    /\ UNCHANGED <<pst, answered, held, queue, up, plug, piece, inv, hist, plugGot, pending,
                   waiting, memo, bank, rejected, client, heard, confirmed, budget>>

Restart ==
    /\ budget.outages < MaxOutages
    /\ budget' = [budget EXCEPT !.outages = @ + 1]
    /\ BoardRestarts
    /\ UNCHANGED <<port, pending, waiting, memo, bank, rejected, client, heard, confirmed>>

(* A line takes no time next to the timers: the host reads the lines it has *)
(* been sent before anything else happens.                                  *)
LoggerNext ==
    \/ Receive \/ Lost
    \/ /\ up = <<>>
       /\ \/ ProxyStep /\ UNCHANGED hostVars
          \/ (\E c \in Clients : Ask(c) \/ Deadline(c))
          \/ StartExchange \/ LinkTimeout
          \/ Expire \/ PortFails \/ Reopen \/ Restart

LoggerSpec == LoggerInit /\ [][LoggerNext]_vars

-----------------------------------------------------------------------------
Values == 0..MaxAsks

TypeOK ==
    /\ pst \in {"idle", "plug", "ours"} /\ answered \in BOOLEAN /\ crossed \in BOOLEAN
    /\ Len(held) <= HeldMax /\ Len(queue) <= QueueDepth
    /\ \A b \in Blocks : bank[b] \in Values \union {None} /\ confirmed[b] \in DOMAIN hist[b]
    /\ pending \in {None} \union [who : {"ours"}, op : {"read", "write"}, b : Blocks, v : Values]

(* Until two questions have crossed, the bank holds for a block a value the *)
(* inverter had there, and none older than the last write the app was told  *)
(* was taken: neither a captured pair, nor a read that was in flight when   *)
(* the write was made, nor a write that failed brings an older one back.    *)
BankFollowsWrites ==
    ~crossed => \A b \in Blocks : bank[b] # None =>
        \E i \in confirmed[b]..Len(hist[b]) : hist[b][i] = bank[b]

\* A read of the block waits on the link or is in flight.
ReadWaits(b) == Frame("read", b, 0) \in OnLink
=============================================================================
