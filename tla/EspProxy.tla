------------------------------ MODULE EspProxy ------------------------------
(***************************************************************************)
(* The firmware between the inverter and its Wi-Fi plug                     *)
(* (esp_proxy/lib/proxy/proxy.cpp): the plug's bytes pass through at once,  *)
(* a request from USB goes to the inverter only between the plug's          *)
(* exchanges, and the plug's bytes that arrive meanwhile are held.          *)
(*                                                                          *)
(* A request of the plug is two pieces, so that its bytes can straddle a    *)
(* change of state; a request of ours and a reply are one piece.  The three *)
(* clocks of the code (the frame gap, the injection guard and the response  *)
(* timeout) are steps that may come at any moment they are armed.           *)
(* `crossed' remembers that one of them came while the answer it waited     *)
(* for was still to come: from then on an answer can meet another question, *)
(* since no frame of the protocol carries the address it answers; what is    *)
(* under way is then followed to its end and nothing new begins.            *)
(***************************************************************************)
EXTENDS Naturals, Sequences, SequencesExt

CONSTANTS
    Blocks,      \* register blocks of one size
    None,        \* no block, no value
    MaxPlug,     \* requests the plug makes
    HeldMax,     \* pieces the proxy can hold (HELD_MAX)
    QueueDepth   \* requests from USB it can queue (QUEUE_DEPTH)

ASSUME ProxyAssumption ==
    /\ None \notin Blocks \union {"ours", "plug"}
    /\ MaxPlug \in Nat /\ HeldMax \in Nat \ {0} /\ QueueDepth \in Nat \ {0}

VARIABLES
    pst,       \* "idle", "plug" or "ours"
    answered,  \* the exchange under way has had a byte of the inverter
    held,      \* the plug's pieces that wait for our exchange to end
    queue,     \* our requests that wait for the line
    up,        \* lines on their way to the host, oldest first
    plug,      \* what the plug is at: [mid, asks]
    piece,     \* the first half of a frame the inverter has got so far
    inv,       \* whole requests the inverter has got and not dealt with
    hist,      \* every value each block has had, the present one last
    plugGot,   \* whose answer the plug was last given
    crossed

proxyVars == <<pst, answered, held, queue, up, plug, piece, inv, hist, plugGot, crossed>>

PlugRead(b) == [who |-> "plug", op |-> "read", b |-> b, v |-> 0]

ProxyInit ==
    /\ pst = "idle" /\ answered = FALSE
    /\ held = <<>> /\ queue = <<>> /\ up = <<>>
    /\ plug = [mid |-> None, asks |-> 0]
    /\ piece = None /\ inv = <<>>
    /\ hist = [b \in Blocks |-> <<0>>]
    /\ plugGot = None /\ crossed = FALSE

(***************************************************************************)
(* The line: pieces reach the inverter in the order they are sent, and a    *)
(* second half is a request only right after its first.  A whole request    *)
(* of the plug is reported over USB as it is forwarded.                     *)
(***************************************************************************)
Hears(line, p) ==
    CASE p.half = 1 -> [line EXCEPT !.piece = p.b]
      [] p.half = 2 /\ line.piece = p.b ->
            [piece |-> None, inv |-> Append(line.inv, PlugRead(p.b)),
             up |-> Append(line.up, [tag |-> "ask", b |-> p.b])]
      [] OTHER -> [line EXCEPT !.piece = None]

hearing(pieces, lines) ==
    LET line[n \in 0..Len(pieces)] ==
            IF n = 0 THEN [piece |-> piece, inv |-> inv, up |-> lines]
            ELSE Hears(line[n - 1], pieces[n])
    IN  line[Len(pieces)]

Forward(pieces, lines) ==
    LET line == hearing(pieces, lines)
    IN  piece' = line.piece /\ inv' = line.inv /\ up' = line.up

(* A plausible bug: the plug's pieces pass while our exchange is under way. *)
PlugByteUnheld(p) ==
    /\ Forward(<<p>>, up)
    /\ pst' = "plug" /\ answered' = FALSE
    /\ UNCHANGED held

PlugByte(p) ==
    \/ /\ pst = "ours"
       /\ held' = IF Len(held) < HeldMax THEN Append(held, p) ELSE held
       /\ UNCHANGED <<pst, answered, up, piece, inv>>
    \/ /\ pst # "ours"
       /\ Forward(<<p>>, up)
       /\ pst' = "plug" /\ answered' = FALSE
       /\ UNCHANGED held

Awaiting(who) == \E i \in DOMAIN inv : inv[i].who = who

(* The plug, which may repeat itself before its last question is answered.  *)
PlugStarts(b) ==
    /\ plug.mid = None /\ plug.asks < MaxPlug /\ ~crossed
    /\ plug' = [mid |-> b, asks |-> plug.asks + 1]
    /\ PlugByte([b |-> b, half |-> 1])
    /\ crossed' = (crossed \/ Awaiting("plug") \/ held # <<>>)
    /\ UNCHANGED <<queue, hist, plugGot>>

PlugEnds ==
    /\ plug.mid # None
    /\ plug' = [plug EXCEPT !.mid = None]
    /\ PlugByte([b |-> plug.mid, half |-> 2])
    /\ UNCHANGED <<queue, hist, plugGot, crossed>>

(***************************************************************************)
(* A line from USB: queued, or refused when the queue is full.              *)
(***************************************************************************)
(* A plausible bug: one more than the queue holds. *)
UsbLineOver(frame, lines) ==
    IF Len(queue) > QueueDepth
    THEN queue' = queue /\ up' = Append(lines, [tag |-> "busy"])
    ELSE queue' = Append(queue, frame) /\ up' = lines

UsbLine(frame, lines) ==
    IF Len(queue) = QueueDepth
    THEN queue' = queue /\ up' = Append(lines, [tag |-> "busy"])
    ELSE queue' = Append(queue, frame) /\ up' = lines

(***************************************************************************)
(* tick(): the line goes idle behind an exchange, held pieces go out, and   *)
(* the first of our requests goes out on an idle line.                      *)
(***************************************************************************)
PlugOver ==
    /\ pst = "plug"
    /\ pst' = "idle"
    /\ crossed' = (crossed \/ (~answered /\ (Awaiting("plug") \/ piece # None)))
    /\ UNCHANGED <<answered, held, queue, up, plug, piece, inv, hist, plugGot>>

OursOver ==
    /\ pst = "ours"
    /\ Forward(held, IF answered THEN up ELSE Append(up, [tag |-> "timeout"]))
    /\ held' = <<>>
    /\ pst' = IF held = <<>> THEN "idle" ELSE "plug"
    /\ answered' = (held = <<>> /\ answered)
    /\ crossed' = (crossed \/ (~answered /\ Awaiting("ours")))
    /\ UNCHANGED <<queue, plug, hist, plugGot>>

SendOurs ==
    /\ pst = "idle" /\ queue # <<>>
    /\ queue' = Tail(queue)
    /\ inv' = IF piece = None THEN Append(inv, Head(queue)) ELSE inv
    /\ piece' = None
    /\ pst' = "ours" /\ answered' = FALSE
    /\ UNCHANGED <<held, up, plug, hist, plugGot, crossed>>

(***************************************************************************)
(* A reply of the inverter goes to whoever the line belongs to at that      *)
(* moment: to USB during our exchange, to the plug (and to the tap)         *)
(* otherwise.                                                               *)
(***************************************************************************)
InverterByte(reply) ==
    /\ answered' = (answered \/ pst # "idle")
    /\ up' = Append(up, reply)
    /\ plugGot' = IF pst = "ours" THEN plugGot ELSE reply.who

(* The inverter takes its requests in turn: it answers, refuses, or says    *)
(* nothing (having obeyed a write or not).                                  *)
Obeyed(f) == IF f.op = "write" THEN [hist EXCEPT ![f.b] = Append(@, f.v)] ELSE hist

InverterReplies ==
    /\ inv # <<>>
    /\ inv' = Tail(inv)
    /\ LET f == Head(inv)
           reply(kind) == [tag |-> IF pst = "ours" THEN "reply" ELSE "answer",
                           who |-> f.who, op |-> f.op, b |-> f.b, kind |-> kind,
                           v |-> IF f.op = "read" THEN Last(hist[f.b]) ELSE f.v]
       IN \/ /\ InverterByte(reply("ok"))
             /\ hist' = Obeyed(f)
          \/ /\ InverterByte(reply("exception"))
             /\ UNCHANGED hist
    /\ UNCHANGED <<pst, held, queue, plug, piece, crossed>>

InverterSilent ==
    /\ inv # <<>>
    /\ inv' = Tail(inv)
    /\ hist' \in {hist, Obeyed(Head(inv))}
    /\ UNCHANGED <<pst, answered, held, queue, up, plug, piece, plugGot, crossed>>

(* The watchdog or the power restarts the board: what it held is gone.      *)
BoardRestarts ==
    /\ ~crossed
    /\ pst' = "idle" /\ answered' = FALSE /\ held' = <<>> /\ queue' = <<>>
    /\ crossed' = (crossed \/ inv # <<>> \/ piece # None \/ held # <<>>)
    /\ UNCHANGED <<up, plug, piece, inv, hist, plugGot>>

ProxyStep ==
    \/ (\E b \in Blocks : PlugStarts(b)) \/ PlugEnds
    \/ PlugOver \/ OursOver \/ SendOurs
    \/ InverterReplies \/ InverterSilent

(* A question of ours never cuts into one of the plug's, and each side gets *)
(* the answers to its own questions (until two questions have crossed).     *)
EachGetsItsOwn ==
    ~crossed =>
        /\ plugGot # "ours"
        /\ \A i \in DOMAIN up : up[i].tag = "reply" => up[i].who = "ours"
        /\ pst = "ours" => ~Awaiting("plug") /\ piece = None
        /\ \A i \in 1..Len(inv) - 1 : inv[i].who # "ours"
=============================================================================
