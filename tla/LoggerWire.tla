------------------------------ MODULE LoggerWire -------------------------------
(***************************************************************************)
(* The logger's wire, cell by cell (protocol/logger-frame.ts), and the      *)
(* register bank that answers it, behind its TCP server, in the simulator   *)
(* and in the serial logger (link/in-memory-logger.ts, link/logger-server   *)
(* .ts): clients ask, the line cuts a request where it likes and may alter  *)
(* a cell, the server finds the frames and answers each in turn, and the    *)
(* client takes a reply only if it is whole and answers its request.        *)
(*                                                                          *)
(* A cell is a byte, or a word where the frame has one; a byte count counts *)
(* cells.  The header's two ids are one cell, which nobody checks but a      *)
(* reader a cell out of step takes for a length.                            *)
(***************************************************************************)
EXTENDS Integers, Sequences, SequencesExt

CONSTANTS
    Sockets,
    BankSize,     \* addresses 0..BankSize-1 of the bank
    WireValues,       \* of a register
    Writable,     \* isWritable
    Unset,        \* registers not set at the start; a read of one is an exception
    MaxCount,     \* MAX_REGISTERS_PER_REQUEST
    MaxAsked,     \* bounds: requests, cells altered, requests cut in two
    MaxAltered, MaxCut,
    Nobody

ASSUME WireConstants ==
    /\ BankSize \in Nat \ {0} /\ WireValues \subseteq Nat
    /\ {MaxCount, MaxAsked, MaxAltered, MaxCut} \subseteq Nat
    /\ Writable \union Unset \subseteq 0..(BankSize - 1)

VARIABLES
    bank,       \* InMemoryLogger.registers
    awaited,    \* per client: the request it waits for, or Nobody
    toLogger,   \* cells under way to the server
    received,   \* the server's buffer
    preparing,  \* frames whose `prepare` is awaited, in order
    toClient,   \* the reply under way
    taken,      \* what the client's request came to
    handled,    \* history: the request the bank handled, and what it current then
    trouble     \* how much was asked, altered, cut

wireVars == <<bank, awaited, toLogger, received, preparing, toClient, taken, handled, trouble>>

READ == 3
WRITE == 16
EXCEPTION == 128

-----------------------------------------------------------------------------
(* Frames.                                                                 *)

\* A checksum that no single altered cell passes, as no byte passes CRC-16.
crc16(cells) == FoldLeftDomain(LAMBDA sum, i : (sum + (i + 1) * cells[i]) % 257, 7, cells)
withCrc(body) == Append(body, crc16(body))

HEADER == 2         \* the ids, the length of what follows
INNER_OFFSET == 3   \* and the outer address
PROTOCOL_ID == 258  \* 0x0102: longer, as a length, than any frame
wrap(inner) == <<PROTOCOL_ID, Len(inner) + 1, 255>> \o inner

Requests ==
    [kind : {"read"}, address : 0..(BankSize - 1), count : 0..(MaxCount + 1)]
        \union {[kind |-> "write", address |-> a, values |-> v] :
                   a \in 0..(BankSize - 1),
                   v \in UNION {[1..n -> WireValues] : n \in 1..MaxCount}}
CountOf(r) == IF r.kind = "read" THEN r.count ELSE Len(r.values)
Touched(r) == r.address..(r.address + CountOf(r) - 1)

\* encodeRequest throws for a count out of range: nothing is sent.
CountInRange(r) == CountOf(r) \in 1..MaxCount
encodeRequest(r) ==
    wrap(withCrc(IF r.kind = "read" THEN <<1, READ, r.address, r.count>>
                 ELSE <<1, WRITE, r.address, Len(r.values), Len(r.values)>> \o r.values))

encodeReply(r, values) ==
    wrap(withCrc(IF r.kind = "write" THEN <<1, WRITE, r.address, Len(r.values)>>
                 ELSE <<1, READ, Len(values)>> \o values))
encodeErrorReply(r, code) ==
    wrap(withCrc(<<1, EXCEPTION + (IF r.kind = "read" THEN READ ELSE WRITE), code>>))

\* The cells of the first whole frame of a buffer, 0 while there is none.
frameLength(cells) ==
    IF Len(cells) < HEADER \/ Len(cells) < HEADER + cells[2] THEN 0 ELSE HEADER + cells[2]

\* unwrap: what is inside, by the declared length.  Too short a frame is
\* malformed, and shows as too few cells to every reader below.
unwrap(frame) == SubSeq(frame, INNER_OFFSET + 1, HEADER + frame[2])

\* A plausible bug: the checksum is not looked at.
Unchecked(inner, n) == Len(inner) >= n
\* checkLength and checkCrc: the first n cells are there, the last their checksum.
Checked(inner, n) == Len(inner) >= n /\ inner[n] = crc16(SubSeq(inner, 1, n - 1))

Malformed == [kind |-> "malformed"]

decodeRequest(frame) ==
    LET inner == unwrap(frame)
        count == inner[4]
    IN  IF Len(inner) < 2 THEN Malformed
        ELSE IF inner[2] = READ /\ Checked(inner, 5)
        THEN [kind |-> "read", address |-> inner[3], count |-> inner[4]]
        ELSE IF inner[2] = WRITE /\ Len(inner) >= 5 /\ inner[5] = count /\ Checked(inner, 6 + count)
        THEN [kind |-> "write", address |-> inner[3], values |-> SubSeq(inner, 6, 5 + count)]
        ELSE Malformed

\* What the client makes of a reply to its request.
decodeReply(r, frame) ==
    LET inner == unwrap(frame)
        function == IF r.kind = "read" THEN READ ELSE WRITE
    IN  IF Len(inner) < 2 THEN Malformed
        ELSE IF inner[2] = function + EXCEPTION /\ Checked(inner, 4)
        THEN [kind |-> "rejected", code |-> inner[3]]
        ELSE IF inner[2] # function THEN Malformed
        ELSE IF r.kind = "write"
        THEN IF Checked(inner, 5) /\ inner[3] = r.address /\ inner[4] = Len(r.values)
             THEN [kind |-> "ok", values |-> <<>>] ELSE Malformed
        ELSE IF Len(inner) >= 3 /\ Checked(inner, 4 + inner[3]) /\ inner[3] = r.count
        THEN [kind |-> "ok", values |-> SubSeq(inner, 4, 3 + r.count)] ELSE Malformed

-----------------------------------------------------------------------------
(* The bank.                                                               *)

NeverSet == -1

WireInit ==
    /\ bank = [a \in 0..(BankSize - 1) |-> IF a \in Unset THEN NeverSet ELSE 0]
    /\ awaited = [c \in Sockets |-> Nobody]
    /\ toLogger = [c \in Sockets |-> <<>>] /\ received = toLogger
    /\ preparing = toLogger /\ toClient = toLogger
    /\ taken = [c \in Sockets |-> [kind |-> "none"]] /\ handled = [c \in Sockets |-> Nobody]
    /\ trouble = [asked |-> 0, altered |-> 0, cut |-> 0]

\* A write is stored whole or not at all; a read of what was never set is
\* refused.  Addresses past the bank stand for registers nobody has set.
Accepted(r, current) ==
    IF r.kind = "write" THEN Touched(r) \subseteq Writable
    ELSE \A a \in Touched(r) : a \in DOMAIN current /\ current[a] # NeverSet

Stored(r) == [a \in DOMAIN bank |-> IF a \in Touched(r) THEN r.values[a - r.address + 1] ELSE bank[a]]

\* handle, of a bank that `prepare` may have brought up to date.
handle(r, current) ==
    IF ~Accepted(r, current)
    THEN [bank |-> current, reply |-> encodeErrorReply(r, IF r.kind = "write" THEN 1 ELSE 11)]
    ELSE IF r.kind = "write" THEN [bank |-> Stored(r), reply |-> encodeReply(r, <<>>)]
    ELSE [bank |-> current, reply |-> encodeReply(r, [i \in 1..r.count |-> current[r.address + i - 1]])]

\* `prepare` fetches the registers a request reads, and may fail to.
Prepared(r) ==
    {bank} \union {[bank EXCEPT ![a] = value] : a \in {b \in Touched(r) \intersect DOMAIN bank :
                                                        r.kind = "read"}, value \in WireValues}

-----------------------------------------------------------------------------
(* The client, which asks once at a time; the line; the server.            *)

\* A connection given up takes with it all that was under way.
Drop(c) ==
    /\ toLogger' = [toLogger EXCEPT ![c] = <<>>] /\ received' = [received EXCEPT ![c] = <<>>]
    /\ preparing' = [preparing EXCEPT ![c] = <<>>] /\ toClient' = [toClient EXCEPT ![c] = <<>>]

AskLogger(c, r) ==
    /\ awaited[c] = Nobody /\ trouble.asked < MaxAsked
    /\ trouble' = [trouble EXCEPT !.asked = @ + 1]
    /\ handled' = [handled EXCEPT ![c] = Nobody]
    /\ IF CountInRange(r)
       THEN /\ awaited' = [awaited EXCEPT ![c] = r]
            /\ toLogger' = [toLogger EXCEPT ![c] = encodeRequest(r)]
            /\ taken' = [taken EXCEPT ![c] = [kind |-> "none"]]
       ELSE /\ taken' = [taken EXCEPT ![c] = Malformed]
            /\ UNCHANGED <<awaited, toLogger>>
    /\ UNCHANGED <<bank, received, preparing, toClient>>

AlterRequest(c) ==
    /\ trouble.altered < MaxAltered /\ trouble' = [trouble EXCEPT !.altered = @ + 1]
    /\ \E i \in DOMAIN toLogger[c], by \in {-1, 1} :
         /\ toLogger[c][i] + by >= 0
         /\ toLogger' = [toLogger EXCEPT ![c][i] = @ + by]
    /\ UNCHANGED <<bank, awaited, received, preparing, toClient, taken, handled>>

AlterReply(c) ==
    /\ trouble.altered < MaxAltered /\ trouble' = [trouble EXCEPT !.altered = @ + 1]
    /\ \E i \in DOMAIN toClient[c], by \in {-1, 1} :
         /\ toClient[c][i] + by >= 0
         /\ toClient' = [toClient EXCEPT ![c][i] = @ + by]
    /\ UNCHANGED <<bank, awaited, toLogger, received, preparing, taken, handled>>

\* A plausible bug: what follows the first frame is thrown away, and what is no
\* whole frame yet with it.
FirstFrame(cells) ==
    [frames |-> IF frameLength(cells) = 0 THEN <<>> ELSE <<SubSeq(cells, 1, frameLength(cells))>>,
     rest |-> <<>>]

\* What a buffer holds once every whole frame is cut off it.
RECURSIVE FramesOf(_)
FramesOf(cells) ==
    LET n == frameLength(cells) IN
    IF n = 0 THEN [frames |-> <<>>, rest |-> cells]
    ELSE LET after == FramesOf(SubSeq(cells, n + 1, Len(cells)))
         IN  [frames |-> <<SubSeq(cells, 1, n)>> \o after.frames, rest |-> after.rest]

Deliver(c, n) ==
    /\ n \in DOMAIN toLogger[c]
    /\ n = Len(toLogger[c]) \/ trouble.cut < MaxCut
    /\ trouble' = IF n = Len(toLogger[c]) THEN trouble ELSE [trouble EXCEPT !.cut = @ + 1]
    /\ LET cut == FramesOf(received[c] \o SubSeq(toLogger[c], 1, n))
       IN  /\ received' = [received EXCEPT ![c] = cut.rest]
           /\ preparing' = [preparing EXCEPT ![c] = @ \o cut.frames]
    /\ toLogger' = [toLogger EXCEPT ![c] = SubSeq(@, n + 1, Len(@))]
    /\ UNCHANGED <<bank, awaited, toClient, taken, handled>>

\* Once its `prepare` has settled a frame is answered, or dropped when it is
\* malformed.
Answer(c) ==
    /\ preparing[c] # <<>>
    /\ preparing' = [preparing EXCEPT ![c] = Tail(@)]
    /\ LET r == decodeRequest(Head(preparing[c]))
       IN  IF r = Malformed THEN UNCHANGED <<bank, toClient, handled>>
           ELSE \E current \in Prepared(r) :
                  /\ bank' = handle(r, current).bank
                  /\ toClient' = [toClient EXCEPT ![c] = @ \o handle(r, current).reply]
                  /\ handled' = [handled EXCEPT ![c] = [request |-> r, before |-> current, after |-> bank']]
    /\ UNCHANGED <<awaited, toLogger, received, taken, trouble>>

\* The first whole frame is taken for the reply, and is decoded outside the
\* try: a malformed one fails the call but not the link.  What came with it, or
\* comes before the next exchange listens, is lost; what is later than that
\* stands before the next reply.
TakeReply(c) ==
    /\ awaited[c] # Nobody /\ frameLength(toClient[c]) # 0
    /\ taken' = [taken EXCEPT ![c] =
             decodeReply(awaited[c], SubSeq(toClient[c], 1, frameLength(toClient[c])))
                 @@ [request |-> awaited[c]]]
    /\ \E k \in frameLength(toClient[c])..Len(toClient[c]) :
         toClient' = [toClient EXCEPT ![c] = SubSeq(@, k + 1, Len(@))]
    /\ awaited' = [awaited EXCEPT ![c] = Nobody]
    /\ UNCHANGED <<bank, toLogger, received, preparing, handled, trouble>>

\* Timed out, or the link failed: a TransportError, which closes it.
GiveUpReply(c) ==
    /\ awaited[c] # Nobody /\ awaited' = [awaited EXCEPT ![c] = Nobody]
    /\ Drop(c) /\ taken' = [taken EXCEPT ![c] = [kind |-> "none"]]
    /\ UNCHANGED <<bank, handled, trouble>>

WireNext ==
    \E c \in Sockets :
        \/ \E r \in Requests : AskLogger(c, r)
        \/ \E n \in DOMAIN toLogger[c] : Deliver(c, n)
        \/ AlterRequest(c) \/ AlterReply(c) \/ Answer(c) \/ TakeReply(c) \/ GiveUpReply(c)

(* What a client takes is the truth: a read's values were the bank's when   *)
(* the request was answered, a confirmed write is in it, a rejected request *)
(* changed nothing, and the bank never answers a request that was not asked,*)
(* whatever the line cut or altered (logger-frame.ts decodeReply,           *)
(* decodeRequest).                                                          *)
TakenIsTrue ==
    \A c \in Sockets :
       LET t == taken[c] h == handled[c] IN
       /\ t.kind \in {"ok", "rejected"} => h # Nobody /\ h.request = t.request
       /\ t.kind = "rejected" => h.after = h.before
       /\ t.kind = "ok" /\ t.request.kind = "read" =>
             t.values = [i \in 1..t.request.count |-> h.before[t.request.address + i - 1]]
       /\ t.kind = "ok" /\ t.request.kind = "write" =>
             \A a \in Touched(t.request) : h.after[a] = t.request.values[a - t.request.address + 1]
       /\ awaited[c] # Nobody /\ h # Nobody => h.request = awaited[c]

(* On a line that alters nothing, every request is answered, however it was *)
(* cut (logger-frame.ts:219-227 "TCP may split or coalesce frames").        *)
EachIsAnswered ==
    trouble.altered = 0 => \A c \in Sockets :
       awaited[c] # Nobody /\ toLogger[c] = <<>> /\ preparing[c] = <<>> => toClient[c] # <<>>

WireKept == TakenIsTrue /\ EachIsAnswered
=============================================================================
