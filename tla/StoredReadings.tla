--------------------------- MODULE StoredReadings ---------------------------
(***************************************************************************)
(* Stored readings taken out while more are stored: the export of a range, *)
(* batch after batch, and the readings browser, page after page.  The      *)
(* inverter's rows (telemetry.store.ts) are read past the last one's time  *)
(* and id; a battery's (bms.store.ts), of which no two have one time, past *)
(* the last one's time.  Pages are always asked for by time alone.         *)
(*                                                                         *)
(* A row is its time; its id is its place in the table.  The clock that    *)
(* stamps rows may be set back.                                            *)
(***************************************************************************)
EXTENDS Integers, Sequences, FiniteSets, SequencesExt

CONSTANTS
    From, To,     \* the range asked for, [From, To)
    Batch,        \* rows of an export's batch, and of a page
    MaxRows,
    MaxSetBacks   \* times the clock is set back

ASSUME ReadingsAssumption ==
    {From, To, MaxRows, MaxSetBacks} \subseteq Nat /\ Batch \in Nat \ {0}

VARIABLES
    series,    \* "inverter" or "bms"
    table,     \* per id: the row's time
    clock,
    setBacks,
    gone,      \* the profile or device was deleted, and its rows with it
    exported,  \* [state, ids, present]: the export so far
    browsed    \* [state, ids, present]: the pages so far

readingsVars == <<series, table, clock, setBacks, gone, exported, browsed>>

NotAsked == [state |-> "no", ids |-> <<>>, present |-> {}]

ReadingsInit ==
    /\ series \in {"inverter", "bms"}
    /\ table = <<>> /\ clock = From /\ setBacks = 0 /\ gone = FALSE
    /\ exported = NotAsked /\ browsed = NotAsked

InRange == IF gone THEN {} ELSE {id \in DOMAIN table : From <= table[id] /\ table[id] < To}
Before(a, b) == table[a] < table[b] \/ (table[a] = table[b] /\ a < b)

\* The first n of S, or all there are, in the order a set of pairs gives.
FirstOf(S, n, order) ==
    [i \in 1..(IF n < Cardinality(S) THEN n ELSE Cardinality(S)) |->
        CHOOSE x \in S : Cardinality({y \in S : <<y, x>> \in order}) = i - 1]
OldestOf(S, n) == FirstOf(S, n, {p \in S \X S : Before(p[1], p[2])})
NewestOf(S, n) == FirstOf(S, n, {p \in S \X S : Before(p[2], p[1])})

(***************************************************************************)
(* Rows come, with the time of the clock; a battery's with the time of one  *)
(* already stored is left out.                                              *)
(***************************************************************************)
Record ==
    /\ Len(table) < MaxRows /\ ~gone
    /\ series = "bms" => clock \notin ToSet(table)
    /\ table' = Append(table, clock)
    /\ UNCHANGED <<series, clock, setBacks, gone, exported, browsed>>

ClockMoves ==
    /\ \/ clock < To /\ clock' = clock + 1 /\ UNCHANGED setBacks
       \/ clock > From /\ setBacks < MaxSetBacks
          /\ clock' = clock - 1 /\ setBacks' = setBacks + 1
    /\ UNCHANGED <<series, table, gone, exported, browsed>>

Deleted ==
    /\ ~gone /\ gone' = TRUE
    /\ UNCHANGED <<series, table, clock, setBacks, exported, browsed>>

(***************************************************************************)
(* The export: batches until one is not full.                               *)
(***************************************************************************)
exportReadings ==
    /\ exported.state = "no" /\ ~gone
    /\ exported' = [state |-> "reading", ids |-> <<>>, present |-> InRange]
    /\ UNCHANGED <<series, table, clock, setBacks, gone, browsed>>

(* A plausible bug: the inverter's rows, too, are read past a time.         *)
PastTime(id, last) == table[id] > table[last]

Past(id, last) == IF series = "bms" THEN table[id] > table[last] ELSE Before(last, id)

(* A plausible bug: a full page is taken for the last one.                  *)
NeverFull(ids) == FALSE

Full(ids) == Len(ids) = Batch

readingBatches ==
    LET left == IF exported.ids = <<>> THEN InRange
                ELSE {id \in InRange : Past(id, Last(exported.ids))}
        next == OldestOf(left, Batch)
    IN  /\ exported.state = "reading"
        /\ exported' = [exported EXCEPT
              !.ids = @ \o next,
              !.state = IF Full(next) THEN @ ELSE "done"]
        /\ UNCHANGED <<series, table, clock, setBacks, gone, browsed>>

(***************************************************************************)
(* The browser: the newest first, then what is older than the oldest shown. *)
(***************************************************************************)
FirstPage ==
    LET next == NewestOf(InRange, Batch)
    IN  /\ browsed.state = "no" /\ ~gone
        /\ browsed' = [ids |-> next, present |-> InRange,
                       state |-> IF Full(next) THEN "more" ELSE "done"]
        /\ UNCHANGED <<series, table, clock, setBacks, gone, exported>>

loadMore ==
    LET next == NewestOf({id \in InRange : table[id] < table[Last(browsed.ids)]}, Batch)
    IN  /\ browsed.state = "more" /\ ~gone
        /\ browsed' = [browsed EXCEPT
              !.ids = @ \o next,
              !.state = IF Full(next) THEN @ ELSE "done"]
        /\ UNCHANGED <<series, table, clock, setBacks, gone, exported>>

ReadingsNext ==
    \/ Record \/ ClockMoves \/ Deleted
    \/ exportReadings \/ readingBatches \/ FirstPage \/ loadMore

-----------------------------------------------------------------------------
(* What is taken out is in order and once each, and everything that was     *)
(* stored when it was asked for: but for the pages, a row that has the time *)
(* of one shown (telemetry.store.ts:106-163, bms.store.ts:45-96,            *)
(* inverter.controller.ts:448-454).                                         *)
TakenOutWhole ==
    /\ \A i \in 1..(Len(exported.ids) - 1) : Before(exported.ids[i], exported.ids[i + 1])
    /\ \A i \in 1..(Len(browsed.ids) - 1) : Before(browsed.ids[i + 1], browsed.ids[i])
    /\ exported.state = "done" /\ ~gone => exported.present \subseteq ToSet(exported.ids)
    /\ browsed.state = "done" => \A id \in browsed.present :
          \/ id \in ToSet(browsed.ids)
          \/ (series = "inverter" /\ \E s \in ToSet(browsed.ids) : table[s] = table[id])
=============================================================================
