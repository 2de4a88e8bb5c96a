--------------------------- MODULE DevSerialSniff ---------------------------
(***************************************************************************)
(* The page that follows a serial capture (DevSerialSniff.tsx) and what it *)
(* asks of the server (serial-sniff.controller.ts): polls for the records  *)
(* numbered after the last it has, sent every second whether or not the    *)
(* earlier ones were answered, and its own start and stop.                 *)
(*                                                                         *)
(* Of the capture (SerialCapture.tla) only the number of records matters:  *)
(* record i of capture k.  Numbers begin again with each capture.          *)
(***************************************************************************)
EXTENDS Integers, Sequences, FiniteSets, SequencesExt, FiniteSetsExt

CONSTANTS
    MaxRecords,   \* records captured in all
    MaxStarts,    \* captures
    MaxRecent,    \* CAPTURE_MAX_RECENT: records kept for the live view
    MaxSlots,     \* polls of the page in flight
    MaxUpsets     \* failed requests, restarts of the server, reloads of the page

ASSUME PageAssumption ==
    {MaxRecords, MaxStarts, MaxSlots, MaxUpsets} \subseteq Nat /\ MaxRecent \in Nat \ {0}

VARIABLES
    taken,     \* per capture: records so far
    live,      \* whether the last capture is running
    kept,      \* the capture whose last records the server keeps, or 0
    view,      \* [running, busy, lastSeq, shown]
    polls,     \* per slot: a poll in flight, or NoPoll
    mixed,     \* history: a capture began, or was forgotten, after the page's first
    upsets

sniffVars == <<taken, live, kept, view, polls, mixed, upsets>>
captured == <<taken, live, kept, mixed>>

NoPoll == [since |-> -1, answered |-> FALSE, running |-> FALSE, records |-> {}]
NewPage == [running |-> FALSE, busy |-> "no", lastSeq |-> 0, shown |-> <<>>]

SniffInit ==
    /\ taken = <<>> /\ live = FALSE /\ kept = 0
    /\ view = NewPage /\ polls = [s \in 1..MaxSlots |-> NoPoll]
    /\ mixed = FALSE /\ upsets = 0

Upset == upsets < MaxUpsets /\ upsets' = upsets + 1

(***************************************************************************)
(* The capture: it records, begins (ending the one before) and ends, at     *)
(* the page's word or another's, and is forgotten when the server stops.    *)
(***************************************************************************)
Recorded ==
    /\ live /\ FoldSeq(+, 0, taken) < MaxRecords
    /\ taken' = [taken EXCEPT ![kept] = @ + 1]
    /\ UNCHANGED <<live, kept, mixed>>

Begun ==
    /\ Len(taken) < MaxStarts
    /\ taken' = Append(taken, 0)
    /\ live' = TRUE /\ kept' = Len(taken) + 1
    /\ mixed' = (mixed \/ taken # <<>>)

Ended == live' = FALSE /\ UNCHANGED <<taken, kept, mixed>>

Elsewhere ==
    /\ Recorded \/ Begun \/ (live /\ Ended)
    /\ UNCHANGED <<view, polls, upsets>>

(* What was asked of it fails with it.                                      *)
ServerStops ==
    /\ kept # 0 /\ Upset
    /\ live' = FALSE /\ kept' = 0 /\ mixed' = TRUE
    /\ polls' = [s \in 1..MaxSlots |-> IF polls[s].answered THEN polls[s] ELSE NoPoll]
    /\ view' = [view EXCEPT !.busy = IF @ \in {"start", "stop"} THEN "no" ELSE @]
    /\ UNCHANGED taken

(***************************************************************************)
(* The page: Start shows while the last answer says that nothing runs, Stop *)
(* while it says that something does, and neither works while one of them   *)
(* is unanswered.                                                           *)
(***************************************************************************)
handleStart ==
    /\ view.busy = "no" /\ ~view.running
    /\ view' = [view EXCEPT !.busy = "start"]
    /\ UNCHANGED <<captured, polls, upsets>>

handleStop ==
    /\ view.busy = "no" /\ view.running
    /\ view' = [view EXCEPT !.busy = "stop"]
    /\ UNCHANGED <<captured, polls, upsets>>

\* The call reaches the server; its answer holds the status by then.
CallServed ==
    /\ \/ view.busy = "start" /\ Begun
       \/ view.busy = "stop" /\ Ended
    /\ view' = [view EXCEPT !.busy = IF live' THEN "runs" ELSE "stopped"]
    /\ UNCHANGED <<polls, upsets>>

CallAnswered ==
    /\ view.busy \in {"runs", "stopped"}
    /\ view' = [view EXCEPT !.busy = "no", !.running = (view.busy = "runs")]
    /\ UNCHANGED <<captured, polls, upsets>>

CallFails ==
    /\ view.busy # "no" /\ Upset
    /\ view' = [view EXCEPT !.busy = "no"]
    /\ UNCHANGED <<captured, polls>>

(* A poll asks for what follows the last record shown when it was sent.     *)
Poll(s) ==
    /\ polls[s] = NoPoll
    /\ polls' = [polls EXCEPT ![s].since = view.lastSeq]
    /\ UNCHANGED <<captured, view, upsets>>

\* The numbers of the records kept.
Recent == IF kept = 0 THEN {} ELSE Max({1, taken[kept] - MaxRecent + 1})..taken[kept]

PollServed(s) ==
    /\ polls[s].since # -1 /\ ~polls[s].answered
    /\ polls' = [polls EXCEPT ![s] =
          [since |-> @.since, answered |-> TRUE, running |-> live,
           records |-> {q \in Recent : q > @.since}]]
    /\ UNCHANGED <<captured, view, upsets>>

\* Numbers in their order.
Ascending(S) == [i \in 1..Cardinality(S) |->
                    CHOOSE q \in S : Cardinality({o \in S : o < q}) = i - 1]

(* A plausible bug: all the records of an answer are shown.                 *)
FreshByAnswer(p) == Ascending(p.records)

Fresh(p) == Ascending({q \in p.records : q > view.lastSeq})

PollAnswered(s) ==
    /\ polls[s].answered
    /\ LET fresh == Fresh(polls[s])
           merged == view.shown \o fresh
       IN  view' = [view EXCEPT
             !.running = polls[s].running,
             !.lastSeq = IF fresh = <<>> THEN @ ELSE Last(fresh),
             !.shown = SubSeq(merged, Max({1, Len(merged) - MaxRecent + 1}), Len(merged))]
    /\ polls' = [polls EXCEPT ![s] = NoPoll]
    /\ UNCHANGED <<captured, upsets>>

PollFails(s) ==
    /\ polls[s] # NoPoll /\ Upset
    /\ polls' = [polls EXCEPT ![s] = NoPoll]
    /\ UNCHANGED <<captured, view>>

(* The page is opened anew; what it asked for before is not heard.          *)
SniffReload ==
    /\ Upset /\ view.busy = "no"
    /\ view' = NewPage /\ polls' = [s \in 1..MaxSlots |-> NoPoll]
    /\ mixed' = (taken # <<>> /\ kept # Len(taken))
    /\ UNCHANGED <<taken, live, kept>>

SniffNext ==
    \/ Elsewhere \/ ServerStops \/ SniffReload
    \/ handleStart \/ handleStop \/ CallServed \/ CallAnswered \/ CallFails
    \/ \E s \in 1..MaxSlots : Poll(s) \/ PollServed(s) \/ PollAnswered(s) \/ PollFails(s)

-----------------------------------------------------------------------------
SniffTypeOK ==
    /\ kept \in 0..Len(taken) /\ (live => kept = Len(taken))
    /\ view.busy \in {"no", "start", "stop", "runs", "stopped"} /\ view.lastSeq \in Nat
    /\ \A s \in 1..MaxSlots : polls[s].since \in Nat \union {-1}

(* Whatever order the polls are answered in, the page shows records in      *)
(* their order, none twice, and of the first capture it follows it misses   *)
(* none that the server still keeps (DevSerialSniff.tsx:193-210).  A        *)
(* capture begun later numbers its records from 1 again, and the page waits *)
(* until they pass the last it has.                                         *)
ShownInTurn ==
    /\ \A i \in 1..(Len(view.shown) - 1) : view.shown[i] < view.shown[i + 1]
    /\ ~mixed => {q \in Recent : q <= view.lastSeq} \subseteq ToSet(view.shown)
=============================================================================
