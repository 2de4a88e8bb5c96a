---------------------------- MODULE FrameStreams ----------------------------
(***************************************************************************)
(* Frames found in a stream of bytes that comes in chunks of any size: the *)
(* BMS's notifications (jk/frame-assembler.ts), the requests and responses *)
(* a serial tap hears (rtu-request-parser.ts, rtu-response-parser.ts) and  *)
(* the logger's TCP frames (logger-frame.ts, logger-server.ts,             *)
(* tcp-logger-transport.ts).                                               *)
(*                                                                         *)
(* Bytes are few and frames short: a check value is the sum of the bytes   *)
(* before it, a preamble two bytes, a BMS frame BmsLength bytes, and the   *)
(* fixed part of the others four.                                          *)
(***************************************************************************)
EXTENDS Integers, Sequences, FiniteSets, SequencesExt, FiniteSetsExt

CONSTANTS
    Bytes,       \* byte values
    BmsLength,   \* RESPONSE_LENGTH
    MaxStream,
    MaxChunk

ASSUME StreamAssumption ==
    /\ Bytes \in Nat \ 0..2 /\ BmsLength \in Nat \ 0..2
    /\ {MaxStream, MaxChunk} \subseteq Nat

VARIABLES
    parser,    \* "bms", "request", "response" or "logger"
    stream,    \* every byte that came
    buffer,    \* those kept
    found      \* [at, length] of the frames handed on, write requests not

streamVars == <<parser, stream, buffer, found>>

Byte == 0..(Bytes - 1)
Preamble == <<1, 2>>
READ == 1
WRITE == 2
Fixed == 4

Rest(s, i) == SubSeq(s, i, Len(s))
Sum(s) == FoldSeq(LAMBDA x, y : (x + y) % Bytes, 0, s)
Checks(s) == Sum(Front(s)) = Last(s)

\* What a round of a parser's loop does: leave `skip` bytes, hand the next
\* `take` on, pass over `over` more; or stop.
Round(skip, take, over) == [skip |-> skip, take |-> take, over |-> over, again |-> TRUE]
Wait(skip) == [skip |-> skip, take |-> 0, over |-> 0, again |-> FALSE]

PreamblesIn(s) == {i \in 1..(Len(s) - 1) : SubSeq(s, i, i + 1) = Preamble}

(* A plausible bug: a frame cut short by the next preamble is not noticed.  *)
BmsRoundUncut(s) ==
    LET at == PreamblesIn(s)
        start == Min(at)
        frame == SubSeq(s, start, start + BmsLength - 1)
    IN  IF at = {} THEN Wait(IF s = <<>> THEN 0 ELSE Len(s) - 1)
        ELSE IF Len(s) < start + BmsLength - 1 THEN Wait(start - 1)
        ELSE IF Checks(frame) THEN Round(start - 1, BmsLength, 0)
        ELSE Round(start - 1, 0, BmsLength)

BmsRound(s) ==
    LET at == PreamblesIn(s)
        start == Min(at)
        next == {i \in at : start < i /\ i < start + BmsLength}
        frame == SubSeq(s, start, start + BmsLength - 1)
    IN  IF at = {} THEN Wait(IF s = <<>> THEN 0 ELSE Len(s) - 1)
        ELSE IF next # {} THEN Round(Min(next) - 1, 0, 0)
        ELSE IF Len(s) < start + BmsLength - 1 THEN Wait(start - 1)
        ELSE IF Checks(frame) THEN Round(start - 1, BmsLength, 0)
        ELSE Round(start - 1, 0, BmsLength)

RequestRound(s) ==
    LET length == IF s[2] = WRITE THEN Fixed + s[3] ELSE Fixed
    IN  IF Len(s) < Fixed THEN Wait(0)
        ELSE IF s[1] = 0 \/ s[2] \notin {READ, WRITE} THEN Round(1, 0, 0)
        ELSE IF Len(s) < length THEN Wait(0)
        ELSE IF ~Checks(SubSeq(s, 1, length)) THEN Round(1, 0, 0)
        ELSE IF s[2] = READ THEN Round(0, length, 0)
        ELSE Round(0, 0, length)

(* A plausible bug: a frame whose check fails is skipped whole.             *)
ResponseRoundSkips(s) ==
    IF Len(s) < Fixed THEN Wait(0)
    ELSE IF s[1] = 0 \/ s[2] # READ \/ s[3] = 0 \/ s[3] % 2 # 0 THEN Round(1, 0, 0)
    ELSE IF Len(s) < Fixed + s[3] THEN Wait(0)
    ELSE IF Checks(SubSeq(s, 1, Fixed + s[3])) THEN Round(0, Fixed + s[3], 0)
    ELSE Round(Fixed + s[3], 0, 0)

ResponseRound(s) ==
    IF Len(s) < Fixed THEN Wait(0)
    ELSE IF s[1] = 0 \/ s[2] # READ \/ s[3] = 0 \/ s[3] % 2 # 0 THEN Round(1, 0, 0)
    ELSE IF Len(s) < Fixed + s[3] THEN Wait(0)
    ELSE IF Checks(SubSeq(s, 1, Fixed + s[3])) THEN Round(0, Fixed + s[3], 0)
    ELSE Round(1, 0, 0)

(* Two bytes of header, the second the length of what follows: no scanning. *)
frameLength(s) == IF Len(s) < 2 \/ Len(s) < 2 + s[2] THEN 0 ELSE 2 + s[2]
LoggerRound(s) == IF frameLength(s) = 0 THEN Wait(0) ELSE Round(0, frameLength(s), 0)

RoundOf(kind, s) ==
    CASE kind = "bms" -> BmsRound(s) [] kind = "request" -> RequestRound(s)
      [] kind = "response" -> ResponseRound(s) [] OTHER -> LoggerRound(s)

\* A round of the loop, which has left `done` bytes behind: none follows one
\* that stops.
AfterRound(kind, x) ==
    LET r == RoundOf(kind, x.rest)
        past == r.skip + r.take + r.over
    IN  IF ~x.again THEN x
        ELSE [rest |-> Rest(x.rest, past + 1), done |-> x.done + past, again |-> r.again,
              frames |-> IF r.take = 0 THEN x.frames
                         ELSE Append(x.frames, [at |-> x.done + r.skip + 1, length |-> r.take])]

Rounds(kind, x) ==
    LET after[n \in Nat] == IF n = 0 THEN x ELSE AfterRound(kind, after[n - 1]) IN after

\* The whole loop, from a buffer that begins after `done` bytes.  A round that
\* goes on leaves a byte at least, so it has stopped by then.
Loop(kind, s, done, frames) ==
    Rounds(kind, [rest |-> s, done |-> done, frames |-> frames, again |-> TRUE])[Len(s) + 1]

StreamInit ==
    /\ parser \in {"bms", "request", "response", "logger"}
    /\ stream = <<>> /\ buffer = <<>> /\ found = <<>>

push(chunk) ==
    LET after == Loop(parser, buffer \o chunk, Len(stream) - Len(buffer), found)
    IN  /\ Len(stream) + Len(chunk) <= MaxStream
        /\ stream' = stream \o chunk
        /\ buffer' = after.rest /\ found' = after.frames
        /\ UNCHANGED parser

StreamNext == \E n \in 1..MaxChunk : \E chunk \in [1..n -> Byte] : push(chunk)

-----------------------------------------------------------------------------
\* A frame of the BMS cut short by fewer bytes than a preamble, so that the
\* next one's preamble crosses where its end should be.
Crossed == parser = "bms" /\ \E p, q \in PreamblesIn(stream) : q = p + BmsLength - 1

At(p) == {f \in ToSet(found) : f.at <= p /\ p < f.at + f.length}
Whole(p, length) == p + length - 1 <= Len(stream) /\ Checks(SubSeq(stream, p, p + length - 1))

\* The length of a frame, or of a write request, whole in the stream at p; or 0.
FrameAt(p) ==
    LET has(n) == p + n - 1 <= Len(stream) IN
    IF parser = "bms"
    THEN IF /\ p \in PreamblesIn(stream) /\ Whole(p, BmsLength)
            /\ ~\E q \in PreamblesIn(stream) : p < q /\ q < p + BmsLength
         THEN BmsLength ELSE 0
    ELSE IF parser = "logger" \/ ~has(Fixed) THEN 0
    ELSE LET length == IF parser = "response" \/ stream[p + 1] = WRITE
                       THEN Fixed + stream[p + 2] ELSE Fixed
         IN  IF /\ stream[p] # 0
                /\ stream[p + 1] \in IF parser = "request" THEN {READ, WRITE} ELSE {READ}
                /\ parser = "response" => stream[p + 2] # 0 /\ stream[p + 2] % 2 = 0
                /\ Whole(p, length)
             THEN length ELSE 0

(* The same bytes give the same frames however they come, which             *)
(* frame-assembler.ts:10-13 says and a frame one byte short breaks; and no  *)
(* frame that is whole in what was looked at is missed: it is handed on, or *)
(* begins inside another.                                                   *)
FramesAreOfTheStream ==
    ~Crossed =>
       /\ buffer = Loop(parser, stream, 0, <<>>).rest
       /\ found = Loop(parser, stream, 0, <<>>).frames
       /\ \A p \in 1..(Len(stream) - Len(buffer)) : FrameAt(p) # 0 =>
             \/ At(p) # {}
             \/ parser = "request" /\ stream[p + 1] = WRITE
             \/ \E q \in 1..(p - 1) : FrameAt(q) # 0 /\ p < q + FrameAt(q)
=============================================================================
