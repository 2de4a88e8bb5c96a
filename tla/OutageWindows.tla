---------------------------- MODULE OutageWindows -----------------------------
(***************************************************************************)
(* Outage windows (outage-reader/dnem/windows.ts): what a slot's status     *)
(* says of its hour, and windows joined and cut.  An hour has two units.    *)
(***************************************************************************)
EXTENDS Integers

Window(start, end, status, source) ==
    [start |-> start, end |-> end, status |-> status, source |-> source]

Earlier(x, y) == IF x < y THEN x ELSE y
Later(x, y) == IF x < y THEN y ELSE x

SlotStatus == {"yes", "no", "first", "second", "maybe", "mfirst", "msecond", "unknown"}

\* PIECES: the part of its hour a slot's outage takes, and how sure it is.
Piece(slot) ==
    CASE slot = "no"      -> <<0, 2, "off">>
      [] slot = "first"   -> <<0, 1, "off">>
      [] slot = "second"  -> <<1, 2, "off">>
      [] slot = "maybe"   -> <<0, 2, "possible">>
      [] slot = "mfirst"  -> <<0, 1, "possible">>
      [] slot = "msecond" -> <<1, 2, "possible">>
      [] OTHER            -> <<0, 2, "unknown">>

SameKind(v, w) == v.status = w.status /\ v.source = w.source

\* A plausible bug: windows are joined only where they overlap.
TouchesOverlapping(w, last) == w.start < last.end
Touches(w, last) == w.start <= last.end

\* In order of their start, a window that touches no earlier one of its kind
\* begins a joined one, and those up to the next such go into it.
Beginning(windows) ==
    {w \in windows : \A v \in windows : SameKind(v, w) /\ v.start < w.start => ~Touches(w, v)}
JoinedTo(w, windows) ==
    LET next == {v \in Beginning(windows) : SameKind(v, w) /\ w.start < v.start}
    IN  {v \in windows : SameKind(v, w) /\ w.start <= v.start /\ \A n \in next : v.start < n.start}

\* mergeWindows.
joinWindows(windows) ==
    LET EndOf(w) == CHOOSE e \in {v.end : v \in JoinedTo(w, windows)} :
                        \A v \in JoinedTo(w, windows) : v.end <= e
    IN  {Window(w.start, EndOf(w), w.status, w.source) : w \in Beginning(windows)}

\* Windows cut at the ends of [from, to).
cutWindows(windows, from, to) ==
    {w \in {Window(Later(v.start, from), Earlier(v.end, to), v.status, v.source) : v \in windows} :
        w.start < w.end}
=============================================================================
