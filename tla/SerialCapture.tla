--------------------------- MODULE SerialCapture ---------------------------
(***************************************************************************)
(* A two-tap capture of what the logger and the inverter say               *)
(* (serial-sniff/serial-capture.ts), its files (capture-store.ts), the     *)
(* requests that start and stop it (serial-sniff.controller.ts).           *)
(*                                                                         *)
(* Stopping awaits the close of each tap and starting awaits each open, so *)
(* two calls may be under way at once, from two tabs.  A run number tells  *)
(* late callbacks apart.  Port 1 is rx, port 2 is tx: the order in which   *)
(* calls take them.  A tap is the run that opened it, a frame the run that *)
(* caught it; whether a request and a response fit, and the backoff's       *)
(* delays, are left open.                                                  *)
(***************************************************************************)
EXTENDS Integers, Sequences, FiniteSets, SequencesExt, FiniteSetsExt

CONSTANTS
    Callers,      \* tabs that start and stop the capture
    MaxCalls,     \* starts and stops asked for
    MaxFrames,    \* frames caught
    MaxTrouble    \* port failures and restarts of the server

ASSUME CaptureAssumption == {MaxCalls, MaxFrames, MaxTrouble} \subseteq Nat

VARIABLES
    run,        \* bumped by every start and stop
    capture,    \* the capture running, or 0
    file,       \* per capture: [run, records]
    ports,      \* per port: [state, tap, timer], a run or 0 each
    taps,       \* taps open at the hardware: <<port, run>>
    reopening,  \* opens under way that a timer began: <<port, run>>
    unmatched,    \* frames the pairer has not matched, of one direction
    calls,      \* per caller: the start or stop under way
    caught,      \* frames caught so far
    asked,      \* calls so far
    forgotten,  \* history: frames that waited when the server stopped
    overlapped, \* history: two calls were under way at once
    trouble

captureVars == <<run, capture, file, ports, taps, reopening, unmatched, calls,
                 caught, asked, forgotten, overlapped, trouble>>

Ports == 1..2
NoPort == [state |-> "none", tap |-> 0, timer |-> 0]
newPort == [state |-> "closed", tap |-> 0, timer |-> 0]
Idle == [kind |-> "none", at |-> "idle", port |-> 0, of |-> 0]

CaptureInit ==
    /\ run = 0 /\ capture = 0 /\ file = <<>>
    /\ ports = [n \in Ports |-> NoPort] /\ taps = {} /\ reopening = {} /\ unmatched = <<>>
    /\ calls = [c \in Callers |-> Idle]
    /\ caught = 0 /\ asked = 0 /\ forgotten = {} /\ overlapped = FALSE /\ trouble = 0

Trouble == trouble < MaxTrouble /\ trouble' = trouble + 1
UnderWay(c) == calls[c].at # "idle"

(* Records, numbered by their place in the file of the running capture;     *)
(* without one nothing is recorded.                                         *)
PortRecord(n, state) == [port |-> n, state |-> state, frames |-> {}]
FrameRecord(frames) == [port |-> 0, state |-> "frames", frames |-> frames]
record(entries) ==
    IF capture = 0 THEN file ELSE [file EXCEPT ![capture].records = @ \o entries]
flush == [i \in DOMAIN unmatched |-> FrameRecord({unmatched[i]})]

(***************************************************************************)
(* Stop: the run ends, what the pairer holds is settled, and the ports are *)
(* closed one after the other, each close awaited, before the capture is    *)
(* forgotten.  Start stops first and then begins at once.                   *)
(***************************************************************************)
Closed(S) == [n \in Ports |-> IF n \in S /\ ports[n].state # "none" THEN newPort ELSE ports[n]]

Begin(c, r, f) ==
    /\ run' = r + 1
    /\ capture' = Len(file) + 1
    /\ file' = Append(f, [run |-> run', records |-> <<>>])
    /\ ports' = [n \in Ports |-> newPort] /\ unmatched' = <<>>
    /\ calls' = [calls EXCEPT ![c] = [kind |-> "start", at |-> "opening", port |-> 1, of |-> run']]

CloseFrom(c, kind, from, r, f, w) ==
    LET tapped == {n \in from..2 : ports[n].tap # 0} IN
    \/ /\ tapped # {}
       /\ ports' = Closed(from..Min(tapped))
       /\ calls' = [calls EXCEPT ![c] = [kind |-> kind, at |-> "closing", port |-> Min(tapped),
                                         of |-> ports[Min(tapped)].tap]]
       /\ run' = r /\ file' = f /\ unmatched' = w /\ UNCHANGED capture
    \/ /\ tapped = {} /\ kind = "stop"
       /\ ports' = Closed(from..2) /\ capture' = 0
       /\ calls' = [calls EXCEPT ![c] = Idle]
       /\ run' = r /\ file' = f /\ unmatched' = w
    \/ tapped = {} /\ kind = "start" /\ Begin(c, r, f)

Call(c, kind) ==
    /\ calls[c].at = "idle" /\ asked < MaxCalls /\ asked' = asked + 1
    /\ CloseFrom(c, kind, 1, run + 1, record(flush), IF capture = 0 THEN unmatched ELSE <<>>)
    /\ overlapped' = (overlapped \/ \E o \in Callers \ {c} : UnderWay(o))
    /\ UNCHANGED <<taps, reopening, caught, forgotten, trouble>>

TapCloses(c) ==
    LET k == calls[c] IN
    /\ k.at = "closing"
    /\ taps' = taps \ {<<k.port, k.of>>}
    /\ CloseFrom(c, k.kind, k.port + 1, run, file, unmatched)
    /\ UNCHANGED <<reopening, caught, asked, forgotten, overlapped, trouble>>

(***************************************************************************)
(* A port is opened by the start itself or again by its timer.  An open     *)
(* that ends after its run is over closes what it opened; one that fails,   *)
(* like a tap that fails later, is tried again after a while.               *)
(***************************************************************************)
Install(n, r) ==
    /\ ports' = [ports EXCEPT ![n] = [state |-> "open", tap |-> r, timer |-> 0]]
    /\ taps' = taps \union {<<n, r>>}
    /\ file' = record(<<PortRecord(n, "open")>>)

(* A plausible bug: every failure is recorded, not only the first. *)
RetryRecordsEach(n) ==
    /\ file' = record(<<PortRecord(n, "reconnecting")>>)
    /\ ports' = [ports EXCEPT ![n] = [state |-> "reconnecting", tap |-> 0, timer |-> run]]

retry(n) ==
    /\ file' = IF ports[n].state = "reconnecting" THEN file
               ELSE record(<<PortRecord(n, "reconnecting")>>)
    /\ ports' = [ports EXCEPT ![n] = [state |-> "reconnecting", tap |-> 0, timer |-> run]]

(* A plausible bug: a tap opened for a run that is over is not closed. *)
EndsUnchecked(n, r) ==
    \/ Install(n, r) /\ UNCHANGED trouble
    \/ r = run /\ Trouble /\ retry(n) /\ UNCHANGED taps
    \/ r # run /\ Trouble /\ UNCHANGED <<ports, taps, file>>

OpenEnds(n, r) ==
    \/ r = run /\ Install(n, r) /\ UNCHANGED trouble
    \/ r = run /\ Trouble /\ retry(n) /\ UNCHANGED taps
    \/ r # run /\ UNCHANGED <<ports, taps, file, trouble>>

StartOpens(c) ==
    LET k == calls[c] IN
    /\ k.at = "opening"
    /\ OpenEnds(k.port, k.of)
    /\ calls' = [calls EXCEPT ![c] = IF k.port = 1 THEN [k EXCEPT !.port = 2]
                                     ELSE Idle]
    /\ UNCHANGED <<run, capture, reopening, unmatched, caught, asked, forgotten, overlapped>>

RetryFires(n) ==
    /\ ports[n].timer # 0
    /\ reopening' = IF ports[n].timer = run THEN reopening \union {<<n, run>>} ELSE reopening
    /\ ports' = [ports EXCEPT ![n].timer = 0]
    /\ UNCHANGED <<run, capture, file, taps, unmatched, calls, caught, asked, forgotten, overlapped, trouble>>

Reopens(n, r) ==
    /\ <<n, r>> \in reopening /\ reopening' = reopening \ {<<n, r>>}
    /\ OpenEnds(n, r)
    /\ UNCHANGED <<run, capture, unmatched, calls, caught, asked, forgotten, overlapped>>

TapFails(n) ==
    /\ ports[n].tap = run /\ <<n, run>> \in taps /\ Trouble
    /\ taps' = taps \ {<<n, run>>}
    /\ retry(n)
    /\ UNCHANGED <<run, capture, reopening, unmatched, calls, caught, asked, forgotten, overlapped>>

(***************************************************************************)
(* Frames caught on a tap of this run: one is paired with a frame of the     *)
(* other tap that waits, or waits itself; the flush settles those that      *)
(* waited longer than the window.                                           *)
(***************************************************************************)
Hear(n) ==
    LET frame == [run |-> run, port |-> n, no |-> caught + 1]
        others == {i \in DOMAIN unmatched : unmatched[i].port # n}
    IN  /\ ports[n].tap = run /\ <<n, run>> \in taps /\ caught < MaxFrames
        /\ caught' = caught + 1
        /\ \/ \E i \in others :
                 /\ file' = record(<<FrameRecord({unmatched[i], frame})>>)
                 /\ unmatched' = RemoveAt(unmatched, i)
           \/ file' = file /\ unmatched' = Append(unmatched, frame)
        /\ UNCHANGED <<run, capture, ports, taps, reopening, calls, asked, forgotten, overlapped, trouble>>

FlushTimer ==
    /\ unmatched # <<>>
    /\ file' = record(flush) /\ unmatched' = <<>>
    /\ UNCHANGED <<run, capture, ports, taps, reopening, calls, caught, asked, forgotten, overlapped, trouble>>

(* The server stops: taps close with it, files stay.                        *)
CaptureLost ==
    /\ Trouble /\ run # 0
    /\ run' = 0 /\ capture' = 0
    /\ ports' = [n \in Ports |-> NoPort] /\ taps' = {} /\ reopening' = {} /\ unmatched' = <<>>
    /\ calls' = [c \in Callers |-> Idle]
    /\ forgotten' = forgotten \union ToSet(unmatched)
    /\ UNCHANGED <<file, caught, asked, overlapped>>

CaptureNext ==
    \/ \E c \in Callers : Call(c, "start") \/ Call(c, "stop") \/ TapCloses(c) \/ StartOpens(c)
    \/ \E n \in Ports : RetryFires(n) \/ TapFails(n) \/ Hear(n)
    \/ \E open \in reopening : Reopens(open[1], open[2])
    \/ FlushTimer \/ CaptureLost

-----------------------------------------------------------------------------
CaptureTypeOK ==
    /\ run \in Nat /\ capture \in 0..Len(file)
    /\ \A n \in Ports : ports[n].state \in {"none", "closed", "open", "reconnecting"}
    /\ taps \union reopening \subseteq Ports \X Nat
    /\ overlapped \in BOOLEAN

Frames(k) == UNION {file[k].records[i].frames : i \in DOMAIN file[k].records}

\* No frame is in two records; and of two changes of a port's state, one right
\* after the other, the second is a change.
OnceEach(records) == \A i, j \in DOMAIN records :
    i # j => records[i].frames \intersect records[j].frames = {}
RealChanges(records) == \A i, j \in DOMAIN records :
    /\ i < j /\ records[i].port = records[j].port /\ records[i].port # 0
    /\ \A m \in (i + 1)..(j - 1) : records[m].port # records[i].port
    => records[i].state # records[j].state

CaptureQuiet == \A c \in Callers : ~UnderWay(c)

(* Each record of a capture was caught by its own run, once; what its ports  *)
(* went through is told change by change (serial-capture.ts:177, 205-213).  *)
RecordsItsOwn ==
    \A k \in DOMAIN file :
       /\ \A frame \in Frames(k) : frame.run = file[k].run
       /\ OnceEach(file[k].records) /\ RealChanges(file[k].records)

(* While calls come one at a time: a tap is open only as the tap of a port  *)
(* of the running capture, and each such port is open or on its way to be   *)
(* (serial-capture.ts:100-140, 157-220).                                    *)
NoTapLeaks ==
    CaptureQuiet /\ ~overlapped =>
       /\ taps = IF capture = 0 THEN {}
                 ELSE {<<n, run>> : n \in {m \in Ports : ports[m].tap # 0}}
       /\ capture # 0 => \A n \in Ports :
             ports[n].tap = run \/ ports[n].timer = run \/ <<n, run>> \in reopening

(* Nor is a frame lost: each one waits for its other half, is recorded, or  *)
(* was forgotten with the server (serial-capture.ts:105-109, 124-128).      *)
NoFrameLost ==
    ~overlapped =>
       {f.no : f \in ToSet(unmatched) \union forgotten \union UNION {Frames(k) : k \in DOMAIN file}}
          = 1..caught

CaptureKept == RecordsItsOwn /\ NoTapLeaks /\ NoFrameLost
=============================================================================
