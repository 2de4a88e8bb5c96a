----------------------------- MODULE OutageProofs -----------------------------
(* Proofs about the outage checks: as the server applies them, for every set *)
(* of addresses, groups and pages, days of any length, and any number of     *)
(* checks, copies and moves; as the reader's loop makes them, for any        *)
(* cadence, clock and number of faults; as one of them goes, for any number  *)
(* of retries; and about what they leave: windows joined and cut, the        *)
(* forecast and the reminders for any members, days and lead times, and the  *)
(* windows of the days the clocks change for any hours of the day.           *)
EXTENDS MCOutage, DataInduction, FiniteSetTheorems

Events == [kind : {"SCHEDULE", "REPAIR"}, status : Statuses \cup {"OFF"},
           start : Nat, end : Nat, live : BOOLEAN]

\* The rows a matching has given to shown events, of the events it began with
\* and after them.
Taken(p, evs, known) == (known \ p.known) \cup ((Len(evs) + 1)..Len(p.evs))

\* A round takes one event.
TakesOne(p, q) == \E e \in p.shown : q.shown = p.shown \ {e}

\* Events, the rows a matching may reuse, and the events shown.
Given(evs, known, listed) ==
    evs \in Seq(Events) /\ known \subseteq 1..Len(evs) /\ listed \subseteq Events

\* A matching under way: the rows not taken are as they were, and the ones taken
\* hold the events shown so far, each of them once.
Matched(p, evs, known, listed) ==
    /\ p \in [evs : Seq(Events), known : SUBSET known, shown : SUBSET listed]
    /\ Len(p.evs) >= Len(evs)
    /\ \A i \in 1..Len(p.evs) : i \notin Taken(p, evs, known) => p.evs[i] = evs[i]
    /\ \A i \in Taken(p, evs, known) : p.evs[i] \in listed \ p.shown
    /\ \A e \in listed \ p.shown : \E i \in Taken(p, evs, known) : p.evs[i] = e
    /\ \A i, j \in Taken(p, evs, known) : p.evs[i] = p.evs[j] => i = j

-----------------------------------------------------------------------------
(* Matching.                                                               *)

\* Of events, and of rows that hold them, there is an earliest.
LEMMA EarliestEvent ==
    ASSUME NEW S, S # {}, \A e \in S : e.start \in Nat
    PROVE  \E e \in S : \A f \in S : e.start <= f.start
<1> DEFINE T == {e.start : e \in S}
<1>1. T \in SUBSET Nat /\ T # {}
  OBVIOUS
<1>2. PICK n \in T : \A m \in T : n <= m
  BY <1>1, LeastNumber
<1>3. PICK e \in S : e.start = n
  BY <1>2
<1>4. ASSUME NEW f \in S
      PROVE  e.start <= f.start
  BY <1>2, <1>3
<1> QED BY <1>4

LEMMA EarliestRow ==
    ASSUME NEW evs, NEW S, S # {}, \A i \in S : evs[i].start \in Nat
    PROVE  \E i \in S : \A j \in S : evs[i].start <= evs[j].start
<1> DEFINE T == {evs[i].start : i \in S}
<1>1. T \in SUBSET Nat /\ T # {}
  OBVIOUS
<1>2. PICK n \in T : \A m \in T : n <= m
  BY <1>1, LeastNumber
<1>3. PICK i \in S : evs[i].start = n
  BY <1>2
<1>4. ASSUME NEW j \in S
      PROVE  evs[i].start <= evs[j].start
  BY <1>2, <1>3
<1> QED BY <1>4

\* A round takes one shown event, and gives it a row of its own.
LEMMA MatchOne ==
    ASSUME NEW evs, NEW known, NEW listed, Given(evs, known, listed),
           NEW p, Matched(p, evs, known, listed), p.shown # {}
    PROVE  /\ Matched(matchNext(p), evs, known, listed)
           /\ TakesOne(p, matchNext(p))
<1> DEFINE q == matchNext(p)
           e == CHOOSE x \in p.shown : \A y \in p.shown : x.start <= y.start
           fit == {k \in p.known : p.evs[k].status = e.status /\ Overlap(p.evs[k], e)}
           k == CHOOSE i \in fit : \A j \in fit : p.evs[i].start <= p.evs[j].start
<1> evs \in Seq(Events) /\ known \in SUBSET (1..Len(evs)) /\ listed \in SUBSET Events
  BY DEF Given
<1>1. /\ p \in [evs : Seq(Events), known : SUBSET known, shown : SUBSET listed]
      /\ p.evs \in Seq(Events) /\ p.known \subseteq known /\ p.shown \subseteq listed
      /\ Len(evs) \in Nat /\ Len(p.evs) \in Nat /\ Len(p.evs) >= Len(evs)
  BY DEF Matched
<1>2. e \in p.shown /\ e \in Events
  <2>1. \A x \in p.shown : x.start \in Nat
    BY <1>1 DEF Events
  <2> QED BY <1>1, <2>1, EarliestEvent
<1>3. fit # {} => k \in fit
  <2>1. \A i \in fit : p.evs[i].start \in Nat
    <3>1. \A i \in fit : i \in 1..Len(p.evs)
      <4>1. fit \subseteq 1..Len(evs)
        BY <1>1
      <4> QED BY <1>1, <4>1
    <3>2. \A i \in fit : p.evs[i] \in Events
      BY <1>1, <3>1
    <3> QED BY <3>2 DEF Events
  <2> HIDE DEF fit, e
  <2> QED BY <2>1, EarliestRow
<1>4. q = IF fit = {}
          THEN [p EXCEPT !.shown = @ \ {e}, !.evs = Append(@, e)]
          ELSE [p EXCEPT !.shown = @ \ {e}, !.evs[k] = e, !.known = @ \ {k}]
  BY DEF matchNext
<1> HIDE DEF e, k, q
<1>5. PICK n \in 1..(Len(p.evs) + 1) :
        /\ q \in [evs : Seq(Events), known : SUBSET known, shown : SUBSET listed]
        /\ q.shown = p.shown \ {e}
        /\ Len(q.evs) >= Len(p.evs) /\ n \in 1..Len(q.evs)
        /\ q.evs[n] = e /\ \A i \in 1..Len(p.evs) : i # n => q.evs[i] = p.evs[i]
        /\ n \notin Taken(p, evs, known)
        /\ Taken(q, evs, known) = Taken(p, evs, known) \cup {n}
        /\ \A i \in 1..Len(q.evs) : i = n \/ i \in 1..Len(p.evs)
  <2>1. CASE fit = {}
    <3>0. Append(p.evs, e) \in Seq(Events)
      BY <1>1, <1>2
    <3>a. q = [p EXCEPT !.shown = @ \ {e}, !.evs = Append(@, e)]
      BY <1>4, <2>1
    <3>1. /\ q.shown = p.shown \ {e} /\ q.evs = Append(p.evs, e) /\ q.known = p.known
          /\ q \in [evs : Seq(Events), known : SUBSET known, shown : SUBSET listed]
      BY <1>1, <3>0, <3>a
    <3>2. /\ Len(q.evs) = Len(p.evs) + 1 /\ q.evs[Len(p.evs) + 1] = e
          /\ \A i \in 1..Len(p.evs) : q.evs[i] = p.evs[i]
      BY <1>1, <1>2, <3>1
    <3>3. Taken(q, evs, known) = Taken(p, evs, known) \cup {Len(p.evs) + 1}
      BY <1>1, <3>1, <3>2 DEF Taken
    <3>4. Len(p.evs) + 1 \notin Taken(p, evs, known)
      BY <1>1 DEF Taken
    <3> QED BY <1>1, <3>1, <3>2, <3>3, <3>4
  <2>2. CASE fit # {}
    <3>0. k \in p.known
      BY <1>3, <2>2
    <3>1. k \in p.known /\ k \in 1..Len(evs) /\ k \in 1..Len(p.evs)
      BY <1>1, <3>0
    <3>2. /\ q.shown = p.shown \ {e} /\ q.evs = [p.evs EXCEPT ![k] = e]
          /\ q.known = p.known \ {k}
      BY <1>1, <1>4, <2>2
    <3>3. /\ q.evs \in Seq(Events) /\ Len(q.evs) = Len(p.evs) /\ q.evs[k] = e
          /\ \A i \in 1..Len(p.evs) : i # k => q.evs[i] = p.evs[i]
      BY <1>1, <1>2, <3>1, <3>2
    <3>4. q \in [evs : Seq(Events), known : SUBSET known, shown : SUBSET listed]
      BY <1>1, <1>4, <2>2, <3>2, <3>3
    <3>5. Taken(q, evs, known) = Taken(p, evs, known) \cup {k}
      BY <1>1, <3>1, <3>2, <3>3 DEF Taken
    <3>6. k \notin Taken(p, evs, known)
      BY <1>1, <3>1 DEF Taken
    <3> QED BY <1>1, <3>1, <3>2, <3>3, <3>4, <3>5, <3>6
  <2> QED BY <2>1, <2>2
<1>6. Taken(p, evs, known) \subseteq 1..Len(p.evs)
  <2>1. ASSUME NEW i \in known
        PROVE  i \in 1..Len(p.evs)
    <3>1. i \in 1..Len(evs)
      OBVIOUS
    <3> QED BY <1>1, <3>1
  <2>2. (Len(evs) + 1)..Len(p.evs) \subseteq 1..Len(p.evs)
    BY <1>1
  <2> QED BY <2>1, <2>2 DEF Taken
<1>7. \A i \in Taken(p, evs, known) : q.evs[i] = p.evs[i] /\ i # n
  BY <1>5, <1>6
<1>8. Matched(q, evs, known, listed)
  <2>1. \A i \in 1..Len(q.evs) : i \notin Taken(q, evs, known) => q.evs[i] = evs[i]
    BY <1>5 DEF Matched
  <2>2. \A i \in Taken(q, evs, known) : q.evs[i] \in listed \ q.shown
    BY <1>1, <1>2, <1>5, <1>7 DEF Matched
  <2>3. ASSUME NEW f \in listed \ q.shown
        PROVE  \E i \in Taken(q, evs, known) : q.evs[i] = f
    <3>1. CASE f = e
      BY <1>5, <3>1
    <3>2. CASE f # e
      <4>1. PICK i \in Taken(p, evs, known) : p.evs[i] = f
        BY <1>5, <2>3, <3>2 DEF Matched
      <4> QED BY <1>5, <1>7, <4>1
    <3> QED BY <3>1, <3>2
  <2>4. \A i, j \in Taken(q, evs, known) : q.evs[i] = q.evs[j] => i = j
    <3>1. \A i \in Taken(p, evs, known) : q.evs[i] # e
      BY <1>2, <1>7 DEF Matched
    <3>2. \A i, j \in Taken(p, evs, known) : q.evs[i] = q.evs[j] => i = j
      BY <1>7 DEF Matched
    <3> QED BY <1>5, <3>1, <3>2
  <2> QED BY <1>1, <1>5, <2>1, <2>2, <2>3, <2>4 DEF Matched
<1> QED BY <1>2, <1>5, <1>8 DEF q, TakesOne

\* All rounds together give each shown event its row.
LEMMA MatchAll ==
    ASSUME NEW evs \in Seq(Events), NEW known \in SUBSET (1..Len(evs)),
           NEW listed \in SUBSET Events, IsFiniteSet(listed)
    PROVE  /\ Matched(matching(evs, known, listed), evs, known, listed)
           /\ matching(evs, known, listed).shown = {}
<1>0. ASSUME NEW p, Matched(p, evs, known, listed), p.shown # {}
      PROVE  /\ Matched(matchNext(p), evs, known, listed)
             /\ TakesOne(p, matchNext(p))
  <2>1. Given(evs, known, listed)
    BY DEF Given
  <2> QED BY <1>0, <2>1, MatchOne, Zenon
<1> DEFINE N == Cardinality(listed)
           base == [evs |-> evs, known |-> known, shown |-> listed]
           Taking(p, n) == /\ Matched(p, evs, known, listed)
                           /\ IsFiniteSet(p.shown) /\ Cardinality(p.shown) = N - n
           Run(m) == \E g : g = [n \in 0..m |-> IF n = 0 THEN base
                                                ELSE matchNext(g[n - 1])]
           plan[n \in 0..N] == IF n = 0 THEN base ELSE matchNext(plan[n - 1])
<1>1. N \in Nat
  BY FS_CardinalityType
<1>2. Taking(base, 0)
  <2>1. Taken(base, evs, known) = {}
    BY DEF Taken
  <2>2. base \in [evs : Seq(Events), known : SUBSET known, shown : SUBSET listed]
    OBVIOUS
  <2> QED BY <1>1, <2>1, <2>2 DEF Matched
<1>3. ASSUME NEW p, NEW n \in Nat, n + 1 <= N, Taking(p, n)
      PROVE  Taking(matchNext(p), n + 1)
  <2>1. p.shown # {}
    BY <1>1, <1>3, FS_EmptySet
  <2>2. /\ Matched(matchNext(p), evs, known, listed)
        /\ TakesOne(p, matchNext(p))
    <3> HIDE DEF Taking
    <3>1. Matched(p, evs, known, listed)
      BY <1>3 DEF Taking
    <3> QED BY <1>0, <2>1, <3>1
  <2>3. PICK e \in p.shown : matchNext(p).shown = p.shown \ {e}
    BY <2>2 DEF TakesOne
  <2>4. /\ IsFiniteSet(p.shown \ {e})
        /\ Cardinality(p.shown \ {e}) = Cardinality(p.shown) - 1
    BY <1>3, FS_RemoveElement
  <2>5. Cardinality(p.shown \ {e}) = N - (n + 1)
    <3> HIDE DEF N
    <3> QED BY <1>1, <1>3, <2>4
  <2> HIDE DEF N
  <2> QED BY <2>2, <2>3, <2>4, <2>5
<1> HIDE DEF base, Taking, N
<1>4. Run(0)
  <2>1. PICK g : g = [n \in 0..0 |-> base]
    OBVIOUS
  <2> QED BY <2>1
<1>5. ASSUME NEW m \in Nat, Run(m)
      PROVE  Run(m + 1)
  <2>1. PICK g : g = [n \in 0..m |-> IF n = 0 THEN base ELSE matchNext(g[n - 1])]
    BY <1>5
  <2> DEFINE h == [n \in 0..(m + 1) |-> IF n = 0 THEN base ELSE matchNext(g[n - 1])]
  <2>2. ASSUME NEW n \in 0..m
        PROVE  h[n] = g[n]
    BY <2>1
  <2>3. ASSUME NEW n \in 0..(m + 1), n # 0
        PROVE  h[n - 1] = g[n - 1]
    <3>1. n - 1 \in 0..m
      BY <2>3
    <3> QED BY <2>2, <3>1
  <2> QED BY <2>3
<1>6. Run(N)
  <2> DEFINE S == {m \in Nat : Run(m)}
  <2> HIDE DEF Run
  <2>1. 0 \in S /\ \A m \in Nat : m \in S => m + 1 \in S
    BY <1>4, <1>5
  <2>2. Nat \subseteq S
    BY <2>1, Numbers
  <2> QED BY <1>1, <2>2
<1>7. plan = [n \in 0..N |-> IF n = 0 THEN base ELSE matchNext(plan[n - 1])]
  BY <1>6
<1> HIDE DEF plan
<1>8. Taking(plan[N], N)
  <2> DEFINE S == {n \in Nat : n <= N => Taking(plan[n], n)}
  <2>1. 0 \in S
    BY <1>1, <1>2, <1>7
  <2>2. ASSUME NEW n \in Nat, n \in S
        PROVE  n + 1 \in S
    <3>1. CASE n + 1 <= N
      <4>1. plan[n + 1] = matchNext(plan[n])
        BY <1>1, <1>7, <3>1
      <4> QED BY <1>1, <1>3, <2>2, <3>1, <4>1
    <3> QED BY <1>1, <3>1
  <2>3. Nat \subseteq S
    BY <2>1, <2>2, Numbers
  <2> QED BY <1>1, <2>3
<1>9. matching(evs, known, listed) = plan[N]
  BY DEF matching, plan, base, N
<1>10. Matched(plan[N], evs, known, listed) /\ IsFiniteSet(plan[N].shown)
       /\ Cardinality(plan[N].shown) = 0
  BY <1>1, <1>8 DEF Taking
<1> QED BY <1>9, <1>10, FS_EmptySet

\* What planning leaves: the rows of F hold the events shown, each once; of the
\* others a known one is withdrawn, and the rest are as they were.
Planned(new, F, evs, known, listed) ==
    /\ new \in Seq(Events) /\ Len(new) >= Len(evs)
    /\ F \subseteq 1..Len(new) /\ F \cap 1..Len(evs) \subseteq known
    /\ \A i \in F : new[i] \in listed
    /\ \A e \in listed : \E i \in F : new[i] = e
    /\ \A i, j \in F : new[i] = new[j] => i = j
    /\ \A i \in (1..Len(new)) \ F :
         /\ i \in 1..Len(evs)
         /\ i \in known => new[i] = [evs[i] EXCEPT !.live = FALSE]
         /\ i \notin known => new[i] = evs[i]

LEMMA PlanEvents ==
    ASSUME NEW evs \in Seq(Events), NEW known \in SUBSET (1..Len(evs)),
           NEW listed \in SUBSET Events, IsFiniteSet(listed), \A e \in listed : e.live
    PROVE  \E F : Planned(planEvents(evs, known, listed), F, evs, known, listed)
<1> DEFINE plan == matching(evs, known, listed)
           F == Taken(plan, evs, known)
           new == planEvents(evs, known, listed)
<1>1. Matched(plan, evs, known, listed) /\ plan.shown = {}
  BY MatchAll
<1>2. new = [i \in DOMAIN plan.evs |->
                [plan.evs[i] EXCEPT !.live = @ /\ i \notin plan.known]]
  BY DEF planEvents
<1> HIDE DEF plan, new
<1>3. /\ plan.evs \in Seq(Events) /\ plan.known \in SUBSET known
      /\ Len(evs) \in Nat /\ Len(plan.evs) \in Nat /\ Len(plan.evs) >= Len(evs)
      /\ DOMAIN plan.evs = 1..Len(plan.evs)
  BY <1>1 DEF Matched
<1>4. ASSUME NEW i \in 1..Len(plan.evs)
      PROVE  /\ new[i] \in Events
             /\ plan.evs[i].live /\ i \notin plan.known => new[i] = plan.evs[i]
             /\ i \in plan.known => new[i] = [plan.evs[i] EXCEPT !.live = FALSE]
             /\ ~plan.evs[i].live => new[i] = plan.evs[i]
  <2>1. plan.evs[i] \in Events
    BY <1>3
  <2>2. new[i] = [plan.evs[i] EXCEPT !.live = @ /\ i \notin plan.known]
    BY <1>2, <1>3
  <2>3. plan.evs[i].live = TRUE \/ plan.evs[i].live = FALSE
    BY <2>1 DEF Events
  <2>4. CASE i \in plan.known
    <3>1. new[i] = [plan.evs[i] EXCEPT !.live = FALSE]
      BY <2>2, <2>4
    <3>2. plan.evs[i].live = FALSE => new[i] = plan.evs[i]
      BY <2>1, <3>1 DEF Events
    <3>3. new[i] \in Events
      BY <2>1, <3>1 DEF Events
    <3> QED BY <2>3, <2>4, <3>1, <3>2, <3>3
  <2>5. CASE i \notin plan.known
    <3>1. new[i] = [plan.evs[i] EXCEPT !.live = plan.evs[i].live]
      BY <2>2, <2>3, <2>5
    <3>2. new[i] = plan.evs[i]
      BY <2>1, <3>1 DEF Events
    <3> QED BY <2>1, <2>5, <3>2
  <2> QED BY <2>4, <2>5
<1>5. new \in Seq(Events) /\ Len(new) = Len(plan.evs)
  <2>1. new \in [1..Len(plan.evs) -> Events]
    BY <1>2, <1>3, <1>4
  <2> QED BY <1>3, <2>1
<1>6. F \subseteq 1..Len(new) /\ F \cap 1..Len(evs) \subseteq known
  <2>1. ASSUME NEW i \in known
        PROVE  i \in 1..Len(new)
    <3>1. i \in 1..Len(evs)
      OBVIOUS
    <3> QED BY <1>3, <1>5, <3>1
  <2>2. \A i \in (Len(evs) + 1)..Len(plan.evs) : i \in 1..Len(new) /\ i \notin 1..Len(evs)
    BY <1>3, <1>5
  <2> QED BY <2>1, <2>2 DEF Taken
<1>7. \A i \in F : i \notin plan.known
  <2>1. \A i \in known : i \in 1..Len(evs)
    OBVIOUS
  <2> QED BY <1>3, <2>1 DEF Taken
<1>8. \A i \in F : new[i] = plan.evs[i] /\ plan.evs[i] \in listed
  <2>1. \A i \in F : plan.evs[i] \in listed
    BY <1>1 DEF Matched
  <2> QED BY <1>4, <1>5, <1>6, <1>7, <2>1
<1>9. ASSUME NEW i \in (1..Len(new)) \ F
      PROVE  /\ i \in 1..Len(evs)
             /\ i \in known => new[i] = [evs[i] EXCEPT !.live = FALSE]
             /\ i \notin known => new[i] = evs[i]
  <2>1. i \in 1..Len(evs) /\ plan.evs[i] = evs[i]
    BY <1>1, <1>3, <1>5, <1>9 DEF Matched, Taken
  <2>2. i \in known => i \in plan.known
    BY <1>9 DEF Taken
  <2>3. i \notin known => i \notin plan.known
    BY <1>3
  <2>4. evs[i] \in Events
    BY <2>1
  <2>5. evs[i].live \in BOOLEAN
    BY <2>4 DEF Events
  <2> QED BY <1>4, <1>5, <1>9, <2>1, <2>2, <2>3, <2>5
<1>10. \A e \in listed : \E i \in F : new[i] = e
  BY <1>1, <1>8 DEF Matched
<1>11. \A i, j \in F : new[i] = new[j] => i = j
  BY <1>1, <1>8 DEF Matched
<1> HIDE DEF F
<1>12. Planned(new, F, evs, known, listed)
  BY <1>3, <1>5, <1>6, <1>8, <1>9, <1>10, <1>11 DEF Planned
<1> QED BY <1>12 DEF new

-----------------------------------------------------------------------------
(* Windows.                                                                *)

AllSlots == 0..(2 * DayLength - 1)

LEMMA SlotsInView ==
    /\ UNION {Slots(d) : d \in Days} = AllSlots
    /\ \A d \in Days : Slots(d) \subseteq AllSlots
    /\ DayLength \in Nat \ {0} /\ 2 * DayLength \in Nat
<1>1. DayLength \in Nat \ {0}
  BY OutageConstants
<1>2. Slots(0) = 0..(DayLength - 1) /\ Slots(1) = DayLength..(2 * DayLength - 1)
  BY <1>1 DEF Slots
<1>3. Slots(0) \cup Slots(1) = AllSlots
  BY <1>1, <1>2 DEF AllSlots
<1>4. \A d \in Days : d = 0 \/ d = 1
  BY DEF Days
<1>5. 0 \in Days /\ 1 \in Days
  BY DEF Days
<1> QED BY <1>1, <1>3, <1>4, <1>5

\* A window covers slots of its status, and ends where they do.
Covers(e, cells) ==
    /\ e \in Events /\ e.kind = "SCHEDULE" /\ e.live /\ e.status \in Statuses
    /\ e = Event("SCHEDULE", e.status, e.start, e.end)
    /\ e.start < e.end /\ \A h \in e.start..(e.end - 1) : <<h, e.status>> \in cells
    /\ <<e.start - 1, e.status>> \notin cells /\ <<e.end, e.status>> \notin cells

LEMMA WindowsAre ==
    ASSUME NEW cells, NEW e
    PROVE  /\ e \in mergeWindows(cells) => Covers(e, cells)
           /\ \A st \in Statuses, a \in AllSlots, b \in 1..(2 * DayLength) :
                e = Event("SCHEDULE", st, a, b) /\ Covers(e, cells)
                => e \in mergeWindows(cells)
<1> DEFINE All == {Event("SCHEDULE", st, a, b) :
                     st \in Statuses, a \in UNION {Slots(d) : d \in Days},
                     b \in 1..(2 * DayLength)}
<1>1. mergeWindows(cells) = {f \in All :
            /\ f.start < f.end
            /\ \A h \in f.start..(f.end - 1) : <<h, f.status>> \in cells
            /\ <<f.start - 1, f.status>> \notin cells /\ <<f.end, f.status>> \notin cells}
  BY DEF mergeWindows
<1>2. ASSUME NEW st \in Statuses, NEW a \in AllSlots, NEW b \in 1..(2 * DayLength),
             e = Event("SCHEDULE", st, a, b)
      PROVE  /\ e \in Events /\ e.kind = "SCHEDULE" /\ e.live /\ e.status \in Statuses
             /\ e = Event("SCHEDULE", e.status, e.start, e.end)
  <2>1. a \in Nat /\ b \in Nat
    BY SlotsInView DEF AllSlots
  <2> QED BY <1>2, <2>1 DEF Event, Events
<1>3. e \in All <=> \E st \in Statuses, a \in AllSlots, b \in 1..(2 * DayLength) :
                        e = Event("SCHEDULE", st, a, b)
  BY SlotsInView
<1> HIDE DEF All
<1>4. ASSUME e \in mergeWindows(cells)
      PROVE  Covers(e, cells)
  <2>1. e \in All
    BY <1>1, <1>4
  <2> QED BY <1>1, <1>2, <1>3, <1>4, <2>1 DEF Covers
<1> QED BY <1>1, <1>3, <1>4 DEF Covers

\* There are finitely many of them.
LEMMA WindowsFinite ==
    ASSUME NEW cells
    PROVE  IsFiniteSet(mergeWindows(cells))
<1> DEFINE D == (Statuses \X AllSlots) \X (1..(2 * DayLength))
           f == [x \in D |-> Event("SCHEDULE", x[1][1], x[1][2], x[2])]
<1>1. IsFiniteSet(D)
  <2>1. IsFiniteSet(Statuses)
    BY OutageConstants
  <2>2. 0 \in Int /\ 1 \in Int /\ 2 * DayLength \in Int /\ 2 * DayLength - 1 \in Int
    BY SlotsInView
  <2>3. IsFiniteSet(0..(2 * DayLength - 1)) /\ IsFiniteSet(1..(2 * DayLength))
    BY <2>2, FS_Interval
  <2> QED BY <2>1, <2>3, FS_Product DEF AllSlots
<1>2. IsFiniteSet({f[x] : x \in D})
  <2>1. f \in Surjection(D, {f[x] : x \in D})
    BY DEF Surjection
  <2> HIDE DEF D, f
  <2> QED BY <1>1, <2>1, FS_Surjection
<1>3. ASSUME NEW e \in mergeWindows(cells)
      PROVE  e \in {f[x] : x \in D}
  <2>1. PICK st \in Statuses, a \in AllSlots, b \in 1..(2 * DayLength) :
            e = Event("SCHEDULE", st, a, b)
    BY SlotsInView DEF mergeWindows
  <2>2. <<<<st, a>>, b>> \in D /\ f[<<<<st, a>>, b>>] = e
    BY <2>1
  <2> QED BY <2>2
<1> QED BY <1>2, <1>3, FS_Subset

\* Windows of a status that overlap are one.
LEMMA WindowsSeparate ==
    ASSUME NEW cells, NEW e, NEW f, Covers(e, cells), Covers(f, cells),
           e.status = f.status, Overlap(e, f)
    PROVE  e = f
<1>1. e.start \in Nat /\ e.end \in Nat /\ f.start \in Nat /\ f.end \in Nat
  BY DEF Covers, Events
<1>2. e.start = f.start
  <2>1. ~(e.start < f.start)
    <3>1. e.start < f.start => f.start - 1 \in e.start..(e.end - 1)
      BY <1>1 DEF Overlap
    <3> QED BY <3>1 DEF Covers
  <2>2. ~(f.start < e.start)
    <3>1. f.start < e.start => e.start - 1 \in f.start..(f.end - 1)
      BY <1>1 DEF Overlap
    <3> QED BY <3>1 DEF Covers
  <2> QED BY <1>1, <2>1, <2>2
<1>3. e.end = f.end
  <2>1. ~(e.end < f.end)
    <3>1. e.end < f.end => e.end \in f.start..(f.end - 1)
      BY <1>1 DEF Overlap
    <3> QED BY <3>1 DEF Covers
  <2>2. ~(f.end < e.end)
    <3>1. f.end < e.end => f.end \in e.start..(e.end - 1)
      BY <1>1 DEF Overlap
    <3> QED BY <3>1 DEF Covers
  <2> QED BY <1>1, <2>1, <2>2
<1> QED BY <1>2, <1>3 DEF Covers

\* Every slot is in one.
LEMMA WindowOf ==
    ASSUME NEW cells \in SUBSET (AllSlots \X Statuses), NEW h, NEW st,
           <<h, st>> \in cells
    PROVE  \E e \in mergeWindows(cells) : e.status = st /\ e.start <= h /\ h < e.end
<1> DEFINE B == {b \in Nat : h < b /\ \A x \in h..(b - 1) : <<x, st>> \in cells}
           A == {a \in Nat : a <= h /\ \A x \in a..h : <<x, st>> \in cells}
<1>1. h \in AllSlots /\ h \in Nat /\ st \in Statuses /\ h < 2 * DayLength
  BY SlotsInView DEF AllSlots
<1>2. h \in A /\ h + 1 \in B
  BY <1>1
<1>3. PICK a \in A : \A x \in A : a <= x
  BY <1>2, LeastNumber
<1>4. ASSUME NEW b \in B
      PROVE  b <= 2 * DayLength
  <2>1. b \in Nat /\ b - 1 \in h..(b - 1)
    BY <1>1
  <2>2. <<b - 1, st>> \in cells
    BY <2>1
  <2>3. b - 1 \in AllSlots
    BY <2>2
  <2> QED BY <2>1, <2>3, SlotsInView DEF AllSlots
<1>5. PICK b \in B : \A x \in B : x <= b
  BY <1>2, <1>4, SlotsInView, GreatestNumber
<1>6. a \in Nat /\ b \in Nat /\ a <= h /\ h < b /\ b <= 2 * DayLength
  BY <1>3, <1>4, <1>5
<1>7. \A x \in a..(b - 1) : <<x, st>> \in cells
  <2>1. \A x \in a..(b - 1) : x \in a..h \/ x \in h..(b - 1)
    BY <1>1, <1>6
  <2> QED BY <1>3, <1>5, <2>1
<1>8. <<a - 1, st>> \notin cells
  <2> SUFFICES ASSUME <<a - 1, st>> \in cells PROVE FALSE
    OBVIOUS
  <2>1. a - 1 \in Nat
    <3>1. a - 1 \in AllSlots
      OBVIOUS
    <3> QED BY <3>1, SlotsInView DEF AllSlots
  <2>2. \A x \in (a - 1)..h : x = a - 1 \/ x \in a..h
    BY <1>1, <1>6
  <2>3. \A x \in (a - 1)..h : <<x, st>> \in cells
    BY <1>3, <2>2
  <2>4. a - 1 \in A
    BY <1>1, <1>6, <2>1, <2>3
  <2> QED BY <1>3, <1>6, <2>4
<1>9. <<b, st>> \notin cells
  <2> SUFFICES ASSUME <<b, st>> \in cells PROVE FALSE
    OBVIOUS
  <2>1. \A x \in h..((b + 1) - 1) : x = b \/ x \in h..(b - 1)
    BY <1>1, <1>6
  <2>2. \A x \in h..((b + 1) - 1) : <<x, st>> \in cells
    BY <1>5, <2>1
  <2>3. b + 1 \in B
    BY <1>1, <1>6, <2>2
  <2> QED BY <1>5, <1>6, <2>3
<1> HIDE DEF A, B
<1> DEFINE e == Event("SCHEDULE", st, a, b)
<1>10. /\ e.kind = "SCHEDULE" /\ e.status = st /\ e.start = a /\ e.end = b
       /\ e.live /\ e \in Events
  BY <1>1, <1>6 DEF Event, Events
<1>11. a \in AllSlots /\ b \in 1..(2 * DayLength) /\ a < b
  BY <1>1, <1>6, SlotsInView DEF AllSlots
<1>12. Covers(e, cells)
  BY <1>1, <1>7, <1>8, <1>9, <1>10, <1>11 DEF Covers
<1>13. e \in mergeWindows(cells)
  BY <1>1, <1>11, <1>12, WindowsAre
<1> QED BY <1>6, <1>10, <1>13

-----------------------------------------------------------------------------
(* The events after a check.                                               *)

CheckRead(c) == c.address \in Addresses /\ c.page \in Pages

\* What a check shows are slots of the days it covers.
LEMMA ShownSlots ==
    ASSUME NEW c, CheckRead(c)
    PROVE  /\ Shown(c) \in SUBSET (AllSlots \X Statuses)
           /\ \A h, st : <<h, st>> \in Shown(c) => \E d \in Covered(c) : h \in Slots(d)
<1>1. ASSUME NEW d \in Covered(c), NEW g \in Published(c, d)
      PROVE  c.page.days[d][g] \subseteq Slots(d) \X Statuses
  <2>1. g \in Groups
    <3>1. GroupsOf[c.address] = None \/ GroupsOf[c.address] \subseteq Groups
      BY OutageConstants DEF CheckRead
    <3> QED BY <3>1 DEF Published, HouseGroups, Found
  <2>2. d \in Days /\ c.page.days[d][g] # None
    BY DEF Covered, Published
  <2> QED BY <2>1, <2>2, OutageConstants DEF CheckRead
<1>2. ASSUME NEW x \in Shown(c)
      PROVE  \E d \in Covered(c) : x \in Slots(d) \X Statuses
  <2>1. PICK d \in Covered(c) : x \in UNION {c.page.days[d][g] : g \in Published(c, d)}
    BY DEF Shown
  <2>2. PICK g \in Published(c, d) : x \in c.page.days[d][g]
    BY <2>1
  <2> QED BY <1>1, <2>2
<1>3. \A d \in Covered(c) : Slots(d) \subseteq AllSlots
  BY SlotsInView DEF Covered
<1> QED BY <1>2, <1>3

\* A page lists one repair at the most.
LEMMA RepairsAre ==
    ASSUME NEW c, CheckRead(c)
    PROVE  /\ RepairsOf(c) \in SUBSET Events /\ IsFiniteSet(RepairsOf(c))
           /\ \A e \in RepairsOf(c) : e.kind = "REPAIR" /\ e.live /\ e.start < e.end
           /\ \A e, f \in RepairsOf(c) : e = f
<1>1. CASE c.page.repair = None
  BY <1>1, FS_EmptySet DEF RepairsOf
<1>2. CASE c.page.repair # None
  <2> DEFINE e == Event("REPAIR", "OFF", c.page.repair[1], c.page.repair[2])
  <2>1. /\ c.page.repair[1] \in Nat /\ c.page.repair[2] \in Nat
        /\ c.page.repair[1] < c.page.repair[2]
    BY <1>2, OutageConstants DEF CheckRead
  <2>2. e \in Events /\ e.kind = "REPAIR" /\ e.live /\ e.start < e.end
    BY <2>1 DEF Events, Event
  <2> HIDE DEF e
  <2>3. RepairsOf(c) = {e}
    BY <1>2 DEF RepairsOf, e
  <2> QED BY <2>2, <2>3, FS_Singleton
<1> QED BY <1>1, <1>2

\* No event ends before it starts.
Forward(evs) == \A i \in 1..Len(evs) : evs[i].start < evs[i].end

LEMMA PlannedForward ==
    ASSUME NEW evs \in Seq(Events), NEW known \in SUBSET (1..Len(evs)), NEW listed,
           NEW new, NEW F, Planned(new, F, evs, known, listed), Forward(evs),
           \A e \in listed : e.start < e.end
    PROVE  Forward(new)
<1>1. ASSUME NEW i \in 1..Len(new)
      PROVE  new[i].start < new[i].end
  <2>1. CASE i \in F
    BY <2>1 DEF Planned
  <2>2. CASE i \notin F
    <3>0. i \in 1..Len(evs)
      BY <2>2 DEF Planned
    <3>1. evs[i] \in Events /\ evs[i].start < evs[i].end
      BY <3>0 DEF Forward
    <3>2. new[i] = evs[i] \/ new[i] = [evs[i] EXCEPT !.live = FALSE]
      BY <2>2 DEF Planned
    <3> QED BY <3>1, <3>2 DEF Events
  <2> QED BY <2>1, <2>2
<1> QED BY <1>1 DEF Forward

\* A found house's events after a check: W the rows of the windows it shows, R
\* of its repair; a live row of neither is an old one that the check does not
\* speak for.
Revised(new, W, R, made, c) ==
    /\ new \in Seq(Events) /\ Forward(new)
    /\ W \subseteq 1..Len(new) /\ R \subseteq 1..Len(new)
    /\ \A i \in W : new[i] \in mergeWindows(Shown(c)) /\ new[i].end > made
    /\ \A e \in mergeWindows(Shown(c)) : e.end > made => \E i \in W : new[i] = e
    /\ \A i, j \in W : new[i] = new[j] => i = j
    /\ \A i \in R : new[i] \in RepairsOf(c) /\ new[i].end > made
    /\ \A e \in RepairsOf(c) : e.end > made => \E i \in R : new[i] = e
    /\ \A i, j \in R : new[i] = new[j] => i = j
    /\ \A i \in (1..Len(new)) \ (W \cup R) : new[i].live =>
          /\ i \in 1..Len(events) /\ new[i] = events[i]
          /\ events[i].end <= made
             \/ (events[i].kind = "SCHEDULE" /\ ~InScope(events[i], c))

LEMMA EventsAfter ==
    ASSUME events \in Seq(Events), Forward(events), NEW made \in Nat,
           NEW c, CheckRead(c), Found(c)
    PROVE  \E W, R : Revised(eventsAfter(made, c), W, R, made, c)
<1> DEFINE mid == updateEvents(events, "REPAIR", made, c, RepairsOf(c))
           new == updateEvents(mid, "SCHEDULE", made, c, mergeWindows(Shown(c)))
           S1 == {e \in RepairsOf(c) : e.end > made}
           S2 == {e \in mergeWindows(Shown(c)) : e.end > made}
           K1 == Known(events, "REPAIR", made, c)
           K2 == Known(mid, "SCHEDULE", made, c)
<1>1. new = eventsAfter(made, c)
  BY DEF eventsAfter
<1>2. K1 \in SUBSET (1..Len(events))
  BY DEF Known
<1>3. /\ S1 \in SUBSET Events /\ IsFiniteSet(S1)
      /\ \A e \in S1 : e.live /\ e.start < e.end /\ e.kind = "REPAIR"
  BY RepairsAre, FS_Subset
<1>4. /\ S2 \in SUBSET Events /\ IsFiniteSet(S2)
      /\ \A e \in S2 : e.live /\ e.start < e.end /\ e.kind = "SCHEDULE"
  BY WindowsAre, WindowsFinite, FS_Subset DEF Covers
<1>5. PICK F : Planned(mid, F, events, K1, S1)
  <2>1. mid = planEvents(events, K1, S1)
    BY DEF updateEvents
  <2> HIDE DEF K1, S1
  <2> QED BY <1>2, <1>3, <2>1, PlanEvents
<1> HIDE DEF mid
<1>6. mid \in Seq(Events) /\ Forward(mid)
  <2>1. mid \in Seq(Events)
    BY <1>5 DEF Planned
  <2> HIDE DEF K1, S1
  <2> QED BY <1>2, <1>3, <1>5, <2>1, PlannedForward
<1>7. K2 \in SUBSET (1..Len(mid))
  BY <1>6 DEF Known
<1>8. PICK W : Planned(new, W, mid, K2, S2)
  <2>1. new = planEvents(mid, K2, S2)
    BY DEF updateEvents
  <2> HIDE DEF K2, S2, new
  <2> QED BY <1>4, <1>6, <1>7, <2>1, PlanEvents
<1> HIDE DEF new
<1>9. new \in Seq(Events) /\ Forward(new)
  <2>1. new \in Seq(Events)
    BY <1>8 DEF Planned
  <2> HIDE DEF K2, S2
  <2> QED BY <1>4, <1>6, <1>7, <1>8, <2>1, PlannedForward
<1>10. Len(new) \in Nat /\ Len(mid) \in Nat /\ Len(events) \in Nat /\ Len(new) >= Len(mid)
  BY <1>6, <1>8, <1>9 DEF Planned
<1>11. ASSUME NEW i \in F
       PROVE  /\ i \in 1..Len(new) /\ i \notin W /\ new[i] = mid[i]
              /\ new[i] \in RepairsOf(c) /\ new[i].end > made
  <2>1. i \in 1..Len(mid) /\ mid[i] \in S1 /\ mid[i].kind = "REPAIR"
    BY <1>3, <1>5 DEF Planned
  <2>2. i \notin K2
    BY <2>1 DEF Known
  <2>3. i \notin W
    BY <1>8, <2>1, <2>2 DEF Planned
  <2>4. i \in 1..Len(new)
    BY <1>10, <2>1
  <2>5. new[i] = mid[i]
    BY <1>8, <2>2, <2>3, <2>4 DEF Planned
  <2> QED BY <2>1, <2>3, <2>4, <2>5
<1>12. ASSUME NEW i \in (1..Len(new)) \ (W \cup F), new[i].live
       PROVE  /\ i \in 1..Len(events) /\ new[i] = events[i]
              /\ events[i].end <= made
                 \/ (events[i].kind = "SCHEDULE" /\ ~InScope(events[i], c))
  <2>1. i \in 1..Len(mid) /\ i \notin K2 /\ new[i] = mid[i]
    <3>1. i \in 1..Len(mid) /\ (i \notin K2 => new[i] = mid[i])
          /\ (i \in K2 => new[i] = [mid[i] EXCEPT !.live = FALSE])
      BY <1>8, <1>12 DEF Planned
    <3>2. mid[i] \in Events
      BY <1>6, <3>1
    <3>3. i \in K2 => new[i].live = FALSE
      BY <3>1, <3>2 DEF Events
    <3> QED BY <1>12, <3>1, <3>3
  <2>2. i \in 1..Len(events) /\ i \notin K1 /\ mid[i] = events[i]
    <3>1. i \in 1..Len(events) /\ (i \notin K1 => mid[i] = events[i])
          /\ (i \in K1 => mid[i] = [events[i] EXCEPT !.live = FALSE])
      BY <1>5, <1>12, <2>1 DEF Planned
    <3>2. events[i] \in Events
      BY <3>1
    <3>3. i \in K1 => mid[i].live = FALSE
      BY <3>1, <3>2 DEF Events
    <3> QED BY <1>12, <2>1, <3>1, <3>3
  <2>3. /\ events[i] \in Events /\ events[i].live
        /\ events[i].end \in Nat /\ events[i].kind \in {"SCHEDULE", "REPAIR"}
    <3>1. events[i] \in Events
      BY <2>2
    <3> QED BY <1>12, <2>1, <2>2, <3>1 DEF Events
  <2>4. i \in DOMAIN events /\ i \in DOMAIN mid
    BY <1>6, <2>1, <2>2
  <2>5. ~(events[i].kind = "REPAIR" /\ events[i].end > made)
    BY <2>2, <2>3, <2>4 DEF Known, InScope
  <2>6. ~(events[i].kind = "SCHEDULE" /\ events[i].end > made /\ InScope(events[i], c))
    BY <2>1, <2>2, <2>3, <2>4 DEF Known
  <2>7. events[i].end > made \/ events[i].end <= made
    BY <2>3
  <2>8. events[i].end <= made \/ (events[i].kind = "SCHEDULE" /\ ~InScope(events[i], c))
    BY <2>3, <2>5, <2>6, <2>7
  <2> QED BY <2>1, <2>2, <2>8
<1>13. /\ \A i \in W : new[i] \in mergeWindows(Shown(c)) /\ new[i].end > made
       /\ \A e \in mergeWindows(Shown(c)) : e.end > made => \E i \in W : new[i] = e
       /\ \A i, j \in W : new[i] = new[j] => i = j
  BY <1>8 DEF Planned
<1>14. /\ \A e \in RepairsOf(c) : e.end > made => \E i \in F : new[i] = e
       /\ \A i, j \in F : new[i] = new[j] => i = j
  BY <1>5, <1>11 DEF Planned
<1>15. W \subseteq 1..Len(new) /\ F \subseteq 1..Len(new)
  BY <1>8, <1>11 DEF Planned
<1>16. Revised(new, W, F, made, c)
  BY <1>9, <1>11, <1>12, <1>13, <1>14, <1>15 DEF Revised
<1> QED BY <1>1, <1>16

-----------------------------------------------------------------------------
(* The inductive invariant of the checks applied.                          *)

Typed ==
    /\ now \in Times /\ moves \in 0..MaxMoves
    /\ DOMAIN check \subseteq Times /\ stored \subseteq DOMAIN check
    /\ \A t \in DOMAIN check : /\ check[t].address \in Addresses
                               /\ check[t].ok => check[t].page \in Pages
    /\ request \in [Requests -> [pc     : {"none", "open", "held", "done"},
                                 newer  : BOOLEAN,
                                 before : {"PENDING", "FOUND", "NOT_FOUND"}]]
    /\ source \in [address    : Addresses,
                   houseState : {"PENDING", "FOUND", "NOT_FOUND"},
                   groups     : SUBSET Groups]
    /\ source.groups # {} => source.houseState = "FOUND"
    /\ DOMAIN days = Groups \X Days
    /\ events \in Seq(Events) /\ Forward(events)
    /\ applied \in Seq(Times) /\ told \in Seq(Times)
    /\ Range(told) \subseteq Range(applied) /\ Range(applied) \subseteq stored

\* A request that holds its check's key is the only one to, of a check the
\* reader made and the server has not stored.
KeyHeld ==
    \A r \in Requests :
        /\ request[r].pc \in {"open", "held"} => r[1] \in DOMAIN check
        /\ request[r].pc = "held" =>
              /\ r[1] \notin stored
              /\ \A k \in 1..Copies : k # r[2] => request[<<r[1], k>>].pc # "held"

\* A house is found by a check that was applied, and a request that read it as
\* found began after one.
Baseline ==
    /\ source.houseState = "FOUND" => applied # <<>>
    /\ \A r \in Requests :
          request[r].pc = "held" /\ request[r].before = "FOUND" => applied # <<>>

\* A version of a pattern is of a check applied, one per group and check.
Versions ==
    /\ \A w \in weekly : w.seenAt \in Range(applied)
    /\ \A v, w \in weekly : v.group = w.group /\ v.seenAt = w.seenAt => v = w

OInv == /\ Typed /\ KeyHeld /\ Baseline /\ OnceEach /\ Versions /\ PatternsChange
        /\ EventsFollowLastApplied /\ NoDoubleBooking

LEMMA Appended ==
    ASSUME NEW S, NEW s \in Seq(S), NEW x \in S
    PROVE  /\ Append(s, x) \in Seq(S) /\ Append(s, x) # <<>>
           /\ Len(Append(s, x)) = Len(s) + 1 /\ Append(s, x)[Len(s) + 1] = x
           /\ DOMAIN Append(s, x) = 1..(Len(s) + 1) /\ DOMAIN s = 1..Len(s)
           /\ \A i \in 1..Len(s) : Append(s, x)[i] = s[i]
           /\ Range(Append(s, x)) = Range(s) \cup {x}
           /\ Last(Append(s, x)) = x
           /\ s # <<>> => Head(Append(s, x)) = Head(s) /\ Head(s) \in Range(s)
           /\ IsInjective(s) /\ x \notin Range(s) => IsInjective(Append(s, x))
<1>1. /\ Append(s, x) \in Seq(S) /\ Append(s, x) # <<>>
      /\ Len(Append(s, x)) = Len(s) + 1 /\ Append(s, x)[Len(s) + 1] = x
      /\ DOMAIN Append(s, x) = 1..(Len(s) + 1) /\ DOMAIN s = 1..Len(s)
      /\ \A i \in 1..Len(s) : Append(s, x)[i] = s[i]
      /\ Len(s) \in Nat
  OBVIOUS
<1> DEFINE t == Append(s, x)
<1>2. \A i \in 1..(Len(s) + 1) : i \in 1..Len(s) \/ i = Len(s) + 1
  BY <1>1
<1>3. \A i \in 1..Len(s) : i \in 1..(Len(s) + 1) /\ i # Len(s) + 1
  BY <1>1
<1>4. Len(s) + 1 \in 1..(Len(s) + 1)
  BY <1>1
<1> HIDE DEF t
<1>5. Range(t) = Range(s) \cup {x}
  BY <1>1, <1>2, <1>3, <1>4 DEF Range, t
<1>6. Last(t) = x
  BY <1>1 DEF Last, t
<1>7. s # <<>> => Head(t) = Head(s) /\ Head(s) \in Range(s)
  BY <1>1 DEF Range, t
<1>8. IsInjective(s) /\ x \notin Range(s) => IsInjective(t)
  <2> SUFFICES ASSUME IsInjective(s), x \notin Range(s),
                      NEW i \in 1..(Len(s) + 1), NEW j \in 1..(Len(s) + 1), t[i] = t[j]
               PROVE  i = j
    BY <1>1 DEF IsInjective, t
  <2>1. \A k \in 1..Len(s) : t[k] = s[k] /\ s[k] # x
    BY <1>1 DEF Range, t
  <2>2. t[Len(s) + 1] = x
    BY <1>1 DEF t
  <2> QED BY <1>1, <1>2, <2>1, <2>2 DEF IsInjective
<1> QED BY <1>1, <1>5, <1>6, <1>7, <1>8 DEF t

-----------------------------------------------------------------------------
(* What applying a check leaves.                                           *)

LEMMA ApplyOnce ==
    ASSUME Typed, Baseline, OnceEach, NEW made \in Times, made \notin Range(applied),
           applied' = Append(applied, made),
           told' = told \/ (applied # <<>> /\ told' = Append(told, made))
    PROVE  OnceEach' /\ told' \in Seq(Times) /\ Range(told') \subseteq Range(applied')
<1>1. applied \in Seq(Times) /\ told \in Seq(Times) /\ Range(told) \subseteq Range(applied)
  BY DEF Typed
<1>2. /\ IsInjective(applied') /\ Range(applied') = Range(applied) \cup {made}
      /\ applied # <<>> => Head(applied') = Head(applied) /\ Head(applied) \in Range(applied)
  BY <1>1, Appended DEF OnceEach
<1>3. CASE told' = told
  <2>1. applied = <<>> => Range(told) = {}
    BY <1>1 DEF Range
  <2> QED BY <1>1, <1>2, <1>3, <2>1 DEF OnceEach
<1>4. CASE applied # <<>> /\ told' = Append(told, made)
  <2>1. /\ IsInjective(told') /\ Range(told') = Range(told) \cup {made}
        /\ told' \in Seq(Times)
    BY <1>1, <1>4, Appended DEF OnceEach
  <2> QED BY <1>1, <1>2, <1>4, <2>1 DEF OnceEach
<1> QED BY <1>3, <1>4

LEMMA ApplyWeekly ==
    ASSUME Typed, Versions, PatternsChange, NEW made \in Times, made \notin Range(applied),
           NEW c, weekly' = weeklyAfter(made, c), applied' = Append(applied, made)
    PROVE  Versions' /\ PatternsChange'
<1>1. applied \in Seq(Times) /\ \A t \in Times : t \in Nat
  BY OutageConstants DEF Typed, Times
<1>2. /\ Range(applied') = Range(applied) \cup {made} /\ DOMAIN applied = 1..Len(applied)
      /\ DOMAIN applied' = 1..(Len(applied) + 1) /\ applied'[Len(applied) + 1] = made
      /\ \A i \in 1..Len(applied) : applied'[i] = applied[i]
  BY <1>1, Appended
<1>3. ASSUME NEW w \in weekly', w \notin weekly
      PROVE  /\ w.seenAt = made /\ LatestPattern(w.group) # {w.pattern}
             /\ w = [group |-> w.group, seenAt |-> made, pattern |-> c.page.weekly]
  BY <1>3 DEF weeklyAfter
<1>4. \A w \in weekly : w.seenAt \in Range(applied) /\ w.seenAt # made
  BY DEF Versions
<1>5. Versions'
  <2>1. \A w \in weekly' : w.seenAt \in Range(applied')
    BY <1>2, <1>3, <1>4
  <2>2. ASSUME NEW v \in weekly', NEW w \in weekly', v.group = w.group, v.seenAt = w.seenAt
        PROVE  v = w
    <3>1. CASE v \in weekly /\ w \in weekly
      BY <2>2, <3>1 DEF Versions
    <3>2. CASE v \notin weekly /\ w \notin weekly
      BY <1>3, <2>2, <3>2
    <3> QED BY <1>3, <1>4, <2>2, <3>1, <3>2
  <2> QED BY <2>1, <2>2 DEF Versions
<1>6. ASSUME InOrder', NEW v \in weekly', NEW w \in weekly', v.group = w.group,
             v.seenAt < w.seenAt,
             \A u \in weekly' : u.group = v.group => u.seenAt <= v.seenAt \/ w.seenAt <= u.seenAt
      PROVE  v.pattern # w.pattern
  <2>1. \A t \in Range(applied) : t \in Nat /\ t < made
    <3>1. ASSUME NEW i \in 1..Len(applied)
          PROVE  applied[i] < made
      <4>1. Len(applied) + 1 \in DOMAIN applied' /\ i \in DOMAIN applied' /\ i < Len(applied) + 1
        BY <1>1, <1>2
      <4> QED BY <1>2, <1>6, <4>1 DEF InOrder
    <3> QED BY <1>1, <1>2, <3>1 DEF Range
  <2>2. InOrder
    <3>1. ASSUME NEW i \in DOMAIN applied, NEW j \in DOMAIN applied, i < j
          PROVE  applied[i] < applied[j]
      <4>1. i \in DOMAIN applied' /\ j \in DOMAIN applied'
        BY <1>1, <1>2
      <4> QED BY <1>2, <1>6, <3>1, <4>1 DEF InOrder
    <3> QED BY <3>1 DEF InOrder
  <2>3. v \in weekly
    <3>1. v \notin weekly => v.seenAt = made
      BY <1>3
    <3>2. w.seenAt = made \/ (w.seenAt \in Nat /\ w.seenAt < made)
      BY <1>3, <1>4, <2>1
    <3> QED BY <1>1, <1>6, <3>1, <3>2
  <2>4. weekly \subseteq weekly'
    BY DEF weeklyAfter
  <2>5. CASE w \in weekly
    BY <1>6, <2>2, <2>3, <2>4, <2>5 DEF PatternsChange
  <2>6. CASE w \notin weekly
    <3>1. w.seenAt = made /\ LatestPattern(w.group) # {w.pattern}
      BY <1>3, <2>6
    <3> DEFINE of == {u \in weekly : u.group = w.group}
    <3>2. v \in of /\ \A u \in of : u.seenAt <= v.seenAt
      <4>1. ASSUME NEW u \in of
            PROVE  u.seenAt <= v.seenAt
        <5>1. u.seenAt <= v.seenAt \/ made <= u.seenAt
          BY <1>6, <2>4, <3>1
        <5>2. u.seenAt \in Nat /\ u.seenAt < made
          BY <1>4, <2>1
        <5> QED BY <1>1, <5>1, <5>2
      <4> QED BY <1>6, <2>3, <4>1
    <3>3. ASSUME NEW u \in of, \A x \in of : x.seenAt <= u.seenAt
          PROVE  u = v
      <4>1. u.seenAt \in Nat /\ v.seenAt \in Nat
        BY <1>4, <2>1, <3>2
      <4>2. u.seenAt = v.seenAt
        BY <3>2, <3>3, <4>1
      <4> QED BY <1>6, <3>2, <4>2 DEF Versions
    <3>4. {u \in of : \A x \in of : x.seenAt <= u.seenAt} = {v}
      BY <3>2, <3>3
    <3>5. LatestPattern(w.group) = {u.pattern : u \in {v}}
      BY <3>4 DEF LatestPattern
    <3> QED BY <3>1, <3>5
  <2> QED BY <2>5, <2>6
<1>7. PatternsChange'
  BY <1>6 DEF PatternsChange
<1> QED BY <1>5, <1>7

\* The windows an event shares a slot with are of days its check covers.
LEMMA WindowInScope ==
    ASSUME NEW c, CheckRead(c), NEW e \in mergeWindows(Shown(c)), NEW f \in Events,
           f.kind = "SCHEDULE", f.start < f.end, Overlap(e, f)
    PROVE  InScope(f, c)
<1>1. Covers(e, Shown(c))
  BY WindowsAre
<1>2. /\ e.start \in Nat /\ e.end \in Nat /\ f.start \in Nat /\ f.end \in Nat
      /\ e.start < e.end
  BY <1>1 DEF Covers, Events
<1>3. PICK h \in Nat : h \in e.start..(e.end - 1) /\ f.start <= h /\ h < f.end
  <2>1. CASE e.start <= f.start
    BY <1>2, <2>1 DEF Overlap
  <2>2. CASE f.start < e.start
    BY <1>2, <2>2 DEF Overlap
  <2> QED BY <1>2, <2>1, <2>2
<1>4. PICK d \in Covered(c) : h \in Slots(d)
  BY <1>1, <1>3, ShownSlots DEF Covers
<1>5. d = 0 \/ d = 1
  BY <1>4 DEF Covered, Days
<1>6. d * DayLength <= h /\ h < (d + 1) * DayLength
  BY <1>3, <1>4, <1>5, SlotsInView DEF Slots
<1>7. f.start < (d + 1) * DayLength /\ d * DayLength < f.end
  BY <1>2, <1>3, <1>5, <1>6, SlotsInView
<1> QED BY <1>4, <1>7 DEF InScope

\* A covered slot is in scope of every event that holds it.
LEMMA SlotInScope ==
    ASSUME NEW c, NEW d \in Covered(c), NEW h \in Slots(d), NEW f \in Events,
           f.start <= h, h < f.end
    PROVE  InScope(f, c)
<1>1. d = 0 \/ d = 1
  BY DEF Covered, Days
<1>2. d * DayLength <= h /\ h < (d + 1) * DayLength /\ h \in Nat
  BY <1>1, SlotsInView DEF Slots
<1>3. f.start \in Nat /\ f.end \in Nat
  BY DEF Events
<1>4. f.start < (d + 1) * DayLength /\ d * DayLength < f.end
  BY <1>1, <1>2, <1>3, SlotsInView
<1> QED BY <1>4 DEF InScope

LEMMA ApplyFollows ==
    ASSUME Typed, NEW made \in Times, NEW c, CheckRead(c), check'[made] = c, Found(c),
           applied' = Append(applied, made), NEW W, NEW R, Revised(events', W, R, made, c)
    PROVE  EventsFollowLastApplied'
<1>1. applied \in Seq(Times) /\ made \in Nat
  BY OutageConstants DEF Typed, Times
<1>2. Last(applied') = made
  BY <1>1, Appended
<1>3. events' \in Seq(Events) /\ DOMAIN events' = 1..Len(events')
  BY DEF Revised
<1>4. \A i \in 1..Len(events') : events'[i] \in Events
  BY <1>3
<1>5. ASSUME NEW d \in Covered(c), NEW st \in Statuses, NEW h \in Slots(d), h >= made
      PROVE  LiveAt(h, st)' <=> <<h, st>> \in Shown(c)
  <2>0. h \in Nat
    BY SlotsInView DEF Covered, AllSlots
  <2>1. ASSUME <<h, st>> \in Shown(c)
        PROVE  LiveAt(h, st)'
    <3>1. PICK e \in mergeWindows(Shown(c)) : e.status = st /\ e.start <= h /\ h < e.end
      BY <2>1, ShownSlots, WindowOf
    <3>2. e.kind = "SCHEDULE" /\ e.live /\ e.end \in Nat
      <4>1. Covers(e, Shown(c))
        BY WindowsAre
      <4> QED BY <4>1 DEF Covers, Events
    <3>3. e.end > made
      BY <1>1, <1>5, <2>0, <3>1, <3>2
    <3>4. PICK i \in W : events'[i] = e
      BY <3>3 DEF Revised
    <3>5. i \in DOMAIN events'
      BY <1>3, <3>4 DEF Revised
    <3> QED BY <3>1, <3>2, <3>4, <3>5 DEF LiveAt
  <2>2. ASSUME LiveAt(h, st)'
        PROVE  <<h, st>> \in Shown(c)
    <3>1. PICK i \in 1..Len(events') :
            /\ events'[i].live /\ events'[i].kind = "SCHEDULE" /\ events'[i].status = st
            /\ events'[i].start <= h /\ h < events'[i].end
      BY <1>3, <2>2 DEF LiveAt
    <3>2. CASE i \in W
      <4>1. Covers(events'[i], Shown(c))
        BY <3>2, WindowsAre DEF Revised
      <4>2. events'[i].start \in Nat /\ events'[i].end \in Nat
        BY <1>4, <3>1 DEF Events
      <4>3. h \in events'[i].start..(events'[i].end - 1)
        BY <2>0, <3>1, <4>2
      <4> QED BY <3>1, <4>1, <4>3 DEF Covers
    <3>3. CASE i \in R
      BY <3>1, <3>3, RepairsAre DEF Revised
    <3>4. CASE i \notin W \cup R
      <4>1. /\ events'[i] \in Events
            /\ events'[i].end <= made \/ ~InScope(events'[i], c)
        BY <1>4, <3>1, <3>4 DEF Revised
      <4>2. InScope(events'[i], c)
        BY <3>1, <4>1, SlotInScope
      <4>3. events'[i].end \in Nat
        BY <4>1 DEF Events
      <4> QED BY <1>1, <1>5, <2>0, <3>1, <4>1, <4>2, <4>3
    <3> QED BY <3>2, <3>3, <3>4
  <2> QED BY <2>1, <2>2
<1>6. {e \in Range(events') : e.live /\ e.kind = "REPAIR" /\ e.end > made}
        = {e \in RepairsOf(c) : e.end > made}
  <2>1. ASSUME NEW e \in Range(events'), e.live, e.kind = "REPAIR", e.end > made
        PROVE  e \in RepairsOf(c)
    <3>1. PICK i \in 1..Len(events') : events'[i] = e
      BY <1>3 DEF Range
    <3>2. i \notin W
      BY <2>1, <3>1, WindowsAre DEF Revised, Covers
    <3>3. e.end \in Nat
      BY <1>4, <3>1 DEF Events
    <3>4. i \in R
      <4> SUFFICES ASSUME i \notin R PROVE FALSE
        OBVIOUS
      <4>1. e.end <= made \/ e.kind = "SCHEDULE"
        BY <2>1, <3>1, <3>2 DEF Revised
      <4> QED BY <1>1, <2>1, <3>3, <4>1
    <3> QED BY <3>1, <3>4 DEF Revised
  <2>2. ASSUME NEW e \in RepairsOf(c), e.end > made
        PROVE  e \in Range(events') /\ e.live /\ e.kind = "REPAIR"
    <3>1. PICK i \in R : events'[i] = e
      BY <2>2 DEF Revised
    <3>2. i \in DOMAIN events'
      BY <1>3, <3>1 DEF Revised
    <3> QED BY <3>1, <3>2, RepairsAre DEF Range
  <2> QED BY <2>1, <2>2
<1> QED BY <1>2, <1>5, <1>6 DEF EventsFollowLastApplied

LEMMA ApplyBooks ==
    ASSUME Typed, NoDoubleBooking, NEW made \in Times, NEW c, CheckRead(c), Found(c),
           applied' = Append(applied, made), NEW W, NEW R, Revised(events', W, R, made, c)
    PROVE  NoDoubleBooking'
<1>1. applied \in Seq(Times) /\ made \in Nat
  BY OutageConstants DEF Typed, Times
<1>2. events' \in Seq(Events) /\ DOMAIN events' = 1..Len(events')
  BY DEF Revised
<1>3. /\ DOMAIN applied = 1..Len(applied) /\ applied'[Len(applied) + 1] = made
      /\ Len(applied) + 1 \in DOMAIN applied'
      /\ \A k \in DOMAIN applied : k \in DOMAIN applied' /\ applied'[k] = applied[k]
  <2>1. /\ DOMAIN applied = 1..Len(applied) /\ applied'[Len(applied) + 1] = made
        /\ DOMAIN applied' = 1..(Len(applied) + 1)
        /\ \A k \in 1..Len(applied) : applied'[k] = applied[k]
    BY <1>1, Appended
  <2>2. Len(applied) \in Nat
    BY <1>1
  <2> QED BY <2>1, <2>2
<1> DEFINE Ahead(e) == \A k \in DOMAIN applied' : e.end > applied'[k]
<1>4. ASSUME NEW i \in 1..Len(events')
      PROVE  events'[i] \in Events /\ events'[i].start < events'[i].end
  BY <1>2 DEF Revised, Forward
<1>5. \A e \in Events : Ahead(e) => e.end > made /\ \A k \in DOMAIN applied : e.end > applied[k]
  BY <1>3
<1>6. ASSUME NEW i \in (1..Len(events')) \ W, events'[i].live, Ahead(events'[i]),
             i \notin R
      PROVE  /\ i \in DOMAIN events /\ events'[i] = events[i]
             /\ events'[i].kind = "SCHEDULE" /\ ~InScope(events'[i], c)
  <2>1. /\ i \in 1..Len(events) /\ events'[i] = events[i]
        /\ \/ events'[i].end <= made
           \/ events'[i].kind = "SCHEDULE" /\ ~InScope(events'[i], c)
    BY <1>6 DEF Revised
  <2>2. events'[i].end > made /\ events'[i].end \in Nat
    BY <1>4, <1>5, <1>6 DEF Events
  <2>3. ~(events'[i].end <= made)
    BY <1>1, <2>2
  <2>4. i \in DOMAIN events
    BY <2>1 DEF Typed
  <2> QED BY <2>1, <2>3, <2>4
<1>7. ASSUME NEW i \in 1..Len(events'), NEW j \in (1..Len(events')) \ W,
             i \in W, events'[j].live, Ahead(events'[j]),
             events'[i].kind = events'[j].kind
      PROVE  ~Overlap(events'[i], events'[j])
  <2>1. events'[i] \in mergeWindows(Shown(c))
    BY <1>7 DEF Revised
  <2>2. events'[i].kind = "SCHEDULE"
    BY <2>1, WindowsAre DEF Covers
  <2>3. j \notin R
    BY <1>7, <2>2, RepairsAre DEF Revised
  <2>4. ~InScope(events'[j], c)
    BY <1>6, <1>7, <2>3
  <2> HIDE DEF Ahead
  <2> QED BY <1>4, <1>7, <2>1, <2>2, <2>4, WindowInScope
<1>8. \A e, f : Overlap(e, f) <=> Overlap(f, e)
  BY DEF Overlap
<1>9. ASSUME NEW i \in 1..Len(events'), NEW j \in 1..Len(events'), i # j,
             events'[i].live, events'[j].live, events'[i].kind = events'[j].kind,
             events'[i].status = events'[j].status, Ahead(events'[i]), Ahead(events'[j])
      PROVE  ~Overlap(events'[i], events'[j])
  <2> HIDE DEF Ahead
  <2>1. CASE i \in W /\ j \in W
    <3>1. events'[i] # events'[j]
      BY <1>9, <2>1 DEF Revised
    <3>2. Covers(events'[i], Shown(c)) /\ Covers(events'[j], Shown(c))
      BY <2>1, WindowsAre DEF Revised
    <3> QED BY <1>9, <3>1, <3>2, WindowsSeparate
  <2>2. CASE i \in W /\ j \notin W
    BY <1>7, <1>9, <2>2
  <2>3. CASE i \notin W /\ j \in W
    BY <1>7, <1>8, <1>9, <2>3
  <2>4. CASE i \notin W /\ j \notin W
    <3>1. CASE i \in R /\ j \in R
      BY <1>9, <3>1, RepairsAre DEF Revised
    <3>2. CASE i \in R /\ j \notin R
      <4>1. events'[i].kind = "REPAIR"
        BY <3>2, RepairsAre DEF Revised
      <4> QED BY <1>6, <1>9, <2>4, <3>2, <4>1
    <3>3. CASE i \notin R /\ j \in R
      <4>1. events'[j].kind = "REPAIR"
        BY <3>3, RepairsAre DEF Revised
      <4> QED BY <1>6, <1>9, <2>4, <3>3, <4>1
    <3>4. CASE i \notin R /\ j \notin R
      <4>1. /\ i \in DOMAIN events /\ events'[i] = events[i]
            /\ j \in DOMAIN events /\ events'[j] = events[j]
        BY <1>6, <1>9, <2>4, <3>4
      <4>2. \A k \in DOMAIN applied : events[i].end > applied[k] /\ events[j].end > applied[k]
        BY <1>4, <1>5, <1>9, <4>1
      <4> QED BY <1>9, <4>1, <4>2 DEF NoDoubleBooking
    <3> QED BY <3>1, <3>2, <3>3, <3>4
  <2> QED BY <2>1, <2>2, <2>3, <2>4
<1>10. ASSUME NEW i \in 1..Len(events'), NEW j \in 1..Len(events'), i # j,
              events'[i].live, events'[j].live, events'[i].kind = events'[j].kind,
              events'[i].status = events'[j].status,
              \A k \in DOMAIN applied' : events'[i].end > applied'[k]
                                         /\ events'[j].end > applied'[k]
       PROVE  ~Overlap(events'[i], events'[j])
  BY <1>9, <1>10
<1> QED BY <1>2, <1>10 DEF NoDoubleBooking

-----------------------------------------------------------------------------
(* The steps.                                                              *)

OutageData == /\ OnceEach /\ Versions /\ PatternsChange
              /\ EventsFollowLastApplied /\ NoDoubleBooking

Request == [pc     : {"none", "open", "held", "done"},
            newer  : BOOLEAN,
            before : {"PENDING", "FOUND", "NOT_FOUND"}]

\* A step that applies no check keeps what holds of the ones applied.
LEMMA DataKept ==
    ASSUME Typed, OutageData,
           weekly' = weekly, events' = events, applied' = applied, told' = told,
           \A t \in DOMAIN check : check'[t] = check[t]
    PROVE  OutageData'
<1>1. OnceEach' /\ Versions' /\ PatternsChange' /\ NoDoubleBooking'
  BY DEF OutageData, OnceEach, Versions, PatternsChange, InOrder, NoDoubleBooking
<1>2. EventsFollowLastApplied'
  <2>1. applied # <<>> => check'[Last(applied)] = check[Last(applied)]
    <3>1. applied # <<>> => Last(applied) \in Range(applied)
      BY DEF Typed, Last, Range
    <3> QED BY <3>1 DEF Typed
  <2>2. \A h, st : LiveAt(h, st)' <=> LiveAt(h, st)
    BY DEF LiveAt
  <2> SUFFICES ASSUME applied # <<>>, Found(check[Last(applied)])
               PROVE  LET c == check[Last(applied)]
                          made == Last(applied)
                      IN  /\ \A d \in Covered(c), st \in Statuses : \A h \in Slots(d) :
                                h >= made => (LiveAt(h, st)' <=> <<h, st>> \in Shown(c))
                          /\ {e \in Range(events) : e.live /\ e.kind = "REPAIR" /\ e.end > made}
                                = {e \in RepairsOf(c) : e.end > made}
    BY <2>1 DEF EventsFollowLastApplied
  <2> QED BY <2>2 DEF OutageData, EventsFollowLastApplied
<1> QED BY <1>1, <1>2 DEF OutageData

\* A request that begins to hold its check's key is the only thing that can
\* disturb the keys held.
LEMMA KeysKept ==
    ASSUME KeyHeld, stored' = stored, DOMAIN check \subseteq DOMAIN check',
           \A q \in Requests :
              /\ request'[q].pc = "held" => request'[q] = request[q]
              /\ request'[q].pc = "open" => request[q].pc = "open" \/ q[1] \in DOMAIN check
    PROVE  KeyHeld'
<1> SUFFICES ASSUME NEW q \in Requests
             PROVE  /\ request'[q].pc \in {"open", "held"} => q[1] \in DOMAIN check'
                    /\ request'[q].pc = "held" =>
                         /\ q[1] \notin stored
                         /\ \A k \in 1..Copies : k # q[2] => request'[<<q[1], k>>].pc # "held"
  BY DEF KeyHeld
<1>1. \A k \in 1..Copies : <<q[1], k>> \in Requests
  BY DEF Requests
<1> QED BY <1>1 DEF KeyHeld

LEMMA TypedIs ==
    Typed => /\ request \in [Requests -> Request]
             /\ \A q \in Requests : request[q] \in Request
  BY DEF Typed, Request

\* Requests keep their type when one of them changes.
LEMMA RequestIs ==
    ASSUME Typed, NEW r \in Requests, NEW x \in Request, request' = [request EXCEPT ![r] = x]
    PROVE  /\ request' \in [Requests -> Request]
           /\ request'[r] = x
           /\ \A q \in Requests : q # r => request'[q] = request[q]
  BY TypedIs

LEMMA DoneIs == [Idle EXCEPT !.pc = "done"] \in Request
                /\ [Idle EXCEPT !.pc = "done"].pc = "done"
  BY DEF Idle, Request

\* Requests and keys after one that ends.
LEMMA Ended ==
    ASSUME Typed, KeyHeld, Baseline, NEW r \in Requests, End(r),
           stored' = stored, check' = check, source' = source, applied' = applied
    PROVE  request' \in [Requests -> Request] /\ KeyHeld' /\ Baseline'
<1>1. /\ request' \in [Requests -> Request] /\ request'[r].pc = "done"
      /\ \A q \in Requests : q # r => request'[q] = request[q]
  BY DoneIs, RequestIs DEF End
<1>2. KeyHeld'
  BY <1>1, KeysKept
<1>3. Baseline'
  BY <1>1 DEF Baseline
<1> QED BY <1>1, <1>2, <1>3

LEMMA InitStep == Init => OInv
<1> SUFFICES ASSUME Init PROVE OInv
  OBVIOUS
<1>1. MaxTime \in Nat /\ MaxMoves \in Nat
  BY OutageConstants
<1>2. Typed
  <2>1. request \in [Requests -> [pc     : {"none", "open", "held", "done"},
                                 newer  : BOOLEAN,
                                 before : {"PENDING", "FOUND", "NOT_FOUND"}]]
    BY DEF Init, Idle
  <2>2. DOMAIN check = {}
    BY DEF Init
  <2>3. /\ events \in Seq(Events) /\ Forward(events)
        /\ applied \in Seq(Times) /\ told \in Seq(Times)
        /\ Range(told) \subseteq Range(applied) /\ Range(applied) \subseteq stored
    BY DEF Init, Forward, Range
  <2>4. /\ source \in [address    : Addresses,
                      houseState : {"PENDING", "FOUND", "NOT_FOUND"},
                      groups     : SUBSET Groups]
        /\ source.groups = {}
    BY DEF Init
  <2>5. DOMAIN days = Groups \X Days /\ now \in Times /\ moves \in 0..MaxMoves /\ stored = {}
    BY <1>1 DEF Init, Times
  <2> QED BY <2>1, <2>2, <2>3, <2>4, <2>5 DEF Typed
<1>3. \A r \in Requests : request[r].pc = "none"
  BY DEF Init, Idle
<1>4. KeyHeld
  BY <1>3 DEF KeyHeld
<1>5. Baseline
  BY <1>3 DEF Baseline, Init
<1>6. OnceEach
  BY DEF OnceEach, Init, IsInjective
<1>7. Versions /\ PatternsChange /\ EventsFollowLastApplied /\ NoDoubleBooking
  BY DEF Versions, PatternsChange, EventsFollowLastApplied, NoDoubleBooking, Init
<1> QED BY <1>2, <1>4, <1>5, <1>6, <1>7 DEF OInv

\* The reader makes a check.
LEMMA CheckStep ==
    ASSUME OInv, NEW ok \in BOOLEAN, NEW page, ok => page \in Pages, Check(ok, page)
    PROVE  OInv'
<1>1. Typed /\ KeyHeld /\ Baseline /\ OutageData
  BY DEF OInv, OutageData
<1> DEFINE x == [address |-> source.address, ok |-> ok, page |-> page]
<1>2. /\ DOMAIN check' = DOMAIN check \cup {now} /\ check'[now] = x
      /\ \A t \in DOMAIN check : check'[t] = check[t]
  BY DEF Check
<1>3. /\ now' = now /\ request' = request /\ source' = source /\ moves' = moves
      /\ stored' = stored /\ weekly' = weekly /\ days' = days /\ events' = events
      /\ applied' = applied /\ told' = told
  BY DEF Check, rows
<1>4. Typed'
  <2>1. x.address \in Addresses /\ (x.ok => x.page \in Pages)
    BY <1>1 DEF Typed
  <2>2. \A t \in DOMAIN check' : /\ check'[t].address \in Addresses
                                 /\ check'[t].ok => check'[t].page \in Pages
    BY <1>1, <1>2, <2>1 DEF Typed
  <2>3. DOMAIN check' \subseteq Times /\ stored \subseteq DOMAIN check'
    BY <1>1, <1>2 DEF Typed
  <2> QED BY <1>1, <1>3, <2>2, <2>3 DEF Typed, Forward
<1>5. KeyHeld'
  BY <1>1, <1>2, <1>3, KeysKept
<1>6. Baseline'
  BY <1>1, <1>3 DEF Baseline
<1>7. OutageData'
  BY <1>1, <1>2, <1>3, DataKept
<1> QED BY <1>4, <1>5, <1>6, <1>7 DEF OInv, OutageData

\* A step that only changes what a request read.
LEMMA RequestStep ==
    ASSUME OInv, request' \in [Requests -> Request], KeyHeld', Baseline',
           UNCHANGED <<now, check, source, moves, rows, told>>
    PROVE  OInv'
<1>1. Typed /\ OutageData
  BY DEF OInv, OutageData
<1>2. /\ now' = now /\ check' = check /\ source' = source /\ moves' = moves
      /\ stored' = stored /\ weekly' = weekly /\ days' = days /\ events' = events
      /\ applied' = applied /\ told' = told
  BY DEF rows
<1>3. Typed'
  BY <1>1, <1>2 DEF Typed, Forward, Request
<1>4. OutageData'
  BY <1>1, <1>2, DataKept
<1> QED BY <1>3, <1>4 DEF OInv, OutageData

LEMMA LookupStep ==
    ASSUME OInv, NEW r \in Requests, Lookup(r)
    PROVE  OInv'
<1>1. Typed /\ KeyHeld /\ Baseline
  BY DEF OInv
<1>2. UNCHANGED <<now, check, source, moves, rows, told>>
  BY DEF Lookup
<1>3. stored' = stored /\ check' = check /\ source' = source /\ applied' = applied
  BY <1>2 DEF rows
<1>4. CASE End(r)
  BY <1>1, <1>2, <1>3, <1>4, Ended, RequestStep
<1>5. CASE ~End(r)
  <2> DEFINE x == [request[r] EXCEPT !.pc = "open", !.newer = Newer(r[1])]
  <2>1. request' = [request EXCEPT ![r] = x]
    BY <1>5 DEF Lookup
  <2>2. x \in Request /\ x.pc = "open"
    <3>1. request[r] \in Request
      BY <1>1, TypedIs
    <3>2. Newer(r[1]) \in BOOLEAN
      BY DEF Newer
    <3> QED BY <3>1, <3>2 DEF Request
  <2> HIDE DEF x
  <2>3. /\ request' \in [Requests -> Request] /\ request'[r].pc = "open"
        /\ \A q \in Requests : q # r => request'[q] = request[q]
    BY <1>1, <2>1, <2>2, RequestIs
  <2>4. KeyHeld'
    <3>1. r[1] \in DOMAIN check
      BY DEF Lookup
    <3> QED BY <1>1, <1>3, <2>3, <3>1, KeysKept
  <2>5. Baseline'
    BY <1>1, <1>3, <2>3 DEF Baseline
  <2> QED BY <1>2, <2>3, <2>4, <2>5, RequestStep
<1> QED BY <1>4, <1>5

LEMMA InsertStep ==
    ASSUME OInv, NEW r \in Requests, Insert(r)
    PROVE  OInv'
<1>1. Typed /\ KeyHeld /\ Baseline
  BY DEF OInv
<1>2. UNCHANGED <<now, check, source, moves, rows, told>>
  BY DEF Insert
<1>3. stored' = stored /\ check' = check /\ source' = source /\ applied' = applied
  BY <1>2 DEF rows
<1>4. CASE r[1] \in stored
  <2>1. End(r)
    BY <1>4 DEF Insert
  <2> QED BY <1>1, <1>2, <1>3, <2>1, Ended, RequestStep
<1>5. CASE r[1] \notin stored
  <2> DEFINE x == [request[r] EXCEPT !.pc = "held", !.before = source.houseState]
  <2>1. request' = [request EXCEPT ![r] = x]
    BY <1>5 DEF Insert
  <2>2. x \in Request /\ x.pc = "held" /\ x.before = source.houseState
    <3>1. request[r] \in Request
      BY <1>1, TypedIs
    <3>2. source.houseState \in {"PENDING", "FOUND", "NOT_FOUND"}
      BY <1>1 DEF Typed
    <3> QED BY <3>1, <3>2 DEF Request
  <2> HIDE DEF x
  <2>3. /\ request' \in [Requests -> Request] /\ request'[r] = x
        /\ \A q \in Requests : q # r => request'[q] = request[q]
    BY <1>1, <2>1, <2>2, RequestIs
  <2>4. /\ request[r].pc = "open" /\ r[1] \in DOMAIN check
        /\ \A k \in 1..Copies : request[<<r[1], k>>].pc # "held"
    BY <1>1 DEF Insert, KeyHeld
  <2>5. ASSUME NEW q \in Requests
        PROVE  /\ q[1] \in Times /\ q[2] \in 1..Copies /\ q = <<q[1], q[2]>>
               /\ \A k \in 1..Copies : <<q[1], k>> \in Requests
    BY DEF Requests
  <2>6. ASSUME NEW q \in Requests, request'[q].pc = "held", NEW k \in 1..Copies, k # q[2]
        PROVE  q[1] \notin stored /\ request'[<<q[1], k>>].pc # "held"
    <3>1. CASE q = r
      <4>1. <<q[1], k>> # r /\ <<q[1], k>> \in Requests
        BY <2>5, <2>6, <3>1
      <4> QED BY <1>5, <2>3, <2>4, <3>1, <4>1
    <3>2. CASE q # r
      <4>1. request[q].pc = "held" /\ q[1] \notin stored
            /\ request[<<q[1], k>>].pc # "held"
        BY <1>1, <2>3, <2>6, <3>2 DEF KeyHeld
      <4>2. <<q[1], k>> # r
        BY <2>4, <2>5, <4>1
      <4> QED BY <2>3, <2>5, <4>1, <4>2
    <3> QED BY <3>1, <3>2
  <2>7. ASSUME NEW q \in Requests, request'[q].pc \in {"open", "held"}
        PROVE  q[1] \in DOMAIN check /\ (request'[q].pc = "held" => q[1] \notin stored)
    BY <1>1, <1>5, <2>3, <2>4, <2>7 DEF KeyHeld
  <2>8. KeyHeld'
    BY <1>3, <2>6, <2>7 DEF KeyHeld
  <2>9. Baseline'
    BY <1>1, <1>3, <2>2, <2>3 DEF Baseline
  <2> QED BY <1>2, <2>3, <2>8, <2>9, RequestStep
<1> QED BY <1>4, <1>5

LEMMA AbortStep ==
    ASSUME OInv, NEW r \in Requests, Abort(r)
    PROVE  OInv'
<1>1. Typed /\ KeyHeld /\ Baseline
  BY DEF OInv
<1>2. UNCHANGED <<now, check, source, moves, rows, told>> /\ End(r)
  BY DEF Abort
<1>3. stored' = stored /\ check' = check /\ source' = source /\ applied' = applied
  BY <1>2 DEF rows
<1> QED BY <1>1, <1>2, <1>3, Ended, RequestStep

\* The address changes, or time passes.
LEMMA OtherStep ==
    ASSUME OInv, (\E a \in Addresses : Move(a)) \/ Tick
    PROVE  OInv'
<1>1. Typed /\ KeyHeld /\ Baseline /\ OutageData
  BY DEF OInv, OutageData
<1>2. /\ check' = check /\ request' = request
      /\ stored' = stored /\ weekly' = weekly /\ days' = days /\ events' = events
      /\ applied' = applied /\ told' = told
  BY DEF Move, Tick, rows
<1>3. now' \in Times /\ moves' \in 0..MaxMoves
  BY <1>1, OutageConstants DEF Typed, Move, Tick, Times
<1>4. /\ source' \in [address    : Addresses,
                      houseState : {"PENDING", "FOUND", "NOT_FOUND"},
                      groups     : SUBSET Groups]
      /\ source'.groups # {} => source'.houseState = "FOUND"
      /\ source'.houseState = "FOUND" => source.houseState = "FOUND"
  BY <1>1 DEF Typed, Move, Tick
<1>5. Typed'
  BY <1>1, <1>2, <1>3, <1>4 DEF Typed, Forward
<1>6. KeyHeld'
  BY <1>1, <1>2, KeysKept
<1>7. Baseline'
  BY <1>1, <1>2, <1>4 DEF Baseline
<1>8. OutageData'
  BY <1>1, <1>2, DataKept
<1> QED BY <1>5, <1>6, <1>7, <1>8 DEF OInv, OutageData

\* A check is applied.
LEMMA ApplyStep ==
    ASSUME OInv, NEW r \in Requests, Commit(r), NEW c, c = check[r[1]], c.ok,
           ~request[r].newer
    PROVE  /\ OutageData' /\ events' \in Seq(Events) /\ Forward(events')
           /\ applied' \in Seq(Times) /\ applied' # <<>> /\ told' \in Seq(Times)
           /\ Range(told') \subseteq Range(applied')
           /\ Range(applied') \subseteq stored \cup {r[1]}
<1> DEFINE made == r[1]
<1>1. Typed /\ KeyHeld /\ Baseline /\ OutageData
  BY DEF OInv, OutageData
<1>2. /\ request[r].pc = "held" /\ made \in DOMAIN check /\ made \notin stored
      /\ made \in Times /\ made \notin Range(applied)
  BY <1>1 DEF Commit, KeyHeld, Typed
<1>3. CheckRead(c) /\ made \in Nat
  BY <1>1, <1>2, OutageConstants DEF Typed, CheckRead, Times
<1>4. /\ weekly' = weeklyAfter(made, c) /\ events' = eventsAfter(made, c)
      /\ applied' = Append(applied, made) /\ check' = check
      /\ told' = IF request[r].before = "FOUND" /\ Changes(made, c)
                 THEN Append(told, made) ELSE told
  BY DEF Commit
<1> HIDE DEF made
<1>5. OnceEach' /\ told' \in Seq(Times) /\ Range(told') \subseteq Range(applied')
  <2>1. request[r].before = "FOUND" => applied # <<>>
    BY <1>1, <1>2 DEF Baseline
  <2>2. told' = told \/ (applied # <<>> /\ told' = Append(told, made))
    BY <1>4, <2>1
  <2> QED BY <1>1, <1>2, <1>4, <2>2, ApplyOnce DEF OutageData
<1>6. Versions' /\ PatternsChange'
  BY <1>1, <1>2, <1>4, ApplyWeekly DEF OutageData
<1>7. /\ applied \in Seq(Times) /\ applied' \in Seq(Times) /\ applied' # <<>>
      /\ Range(applied') = Range(applied) \cup {made} /\ Last(applied') = made
      /\ DOMAIN applied = 1..Len(applied) /\ DOMAIN applied' = 1..(Len(applied) + 1)
      /\ \A k \in 1..Len(applied) : applied'[k] = applied[k]
      /\ Range(applied) \subseteq stored
  <2>1. applied \in Seq(Times) /\ Range(applied) \subseteq stored
    BY <1>1 DEF Typed
  <2> QED BY <1>2, <1>4, <2>1, Appended
<1>8. EventsFollowLastApplied' /\ NoDoubleBooking'
      /\ events' \in Seq(Events) /\ Forward(events')
  <2>1. CASE ~Found(c)
    <3>1. events' = events
      BY <1>4, <2>1 DEF eventsAfter
    <3>2. EventsFollowLastApplied'
      <4>1. check'[Last(applied')] = c
        BY <1>4, <1>7 DEF made
      <4> QED BY <2>1, <4>1 DEF EventsFollowLastApplied
    <3>3. \A k \in DOMAIN applied : k \in DOMAIN applied' /\ applied'[k] = applied[k]
      <4>1. Len(applied) \in Nat
        BY <1>7
      <4> QED BY <1>7, <4>1
    <3>4. NoDoubleBooking'
      BY <1>1, <3>1, <3>3 DEF OutageData, NoDoubleBooking
    <3> QED BY <1>1, <3>1, <3>2, <3>4 DEF Typed, Forward
  <2>2. CASE Found(c)
    <3>1. PICK W, R : Revised(events', W, R, made, c)
      <4>1. events \in Seq(Events) /\ Forward(events)
        BY <1>1 DEF Typed
      <4> QED BY <1>3, <1>4, <2>2, <4>1, EventsAfter
    <3>2. check'[made] = c
      BY <1>4 DEF made
    <3>3. EventsFollowLastApplied'
      BY <1>1, <1>2, <1>3, <1>4, <2>2, <3>1, <3>2, ApplyFollows
    <3>4. NoDoubleBooking'
      BY <1>1, <1>2, <1>3, <1>4, <2>2, <3>1, ApplyBooks DEF OutageData
    <3> QED BY <3>1, <3>3, <3>4 DEF Revised
  <2> QED BY <2>1, <2>2
<1>9. Range(applied') \subseteq stored \cup {r[1]}
  BY <1>7 DEF made
<1> QED BY <1>5, <1>6, <1>7, <1>8, <1>9 DEF OutageData

LEMMA CommitStep ==
    ASSUME OInv, NEW r \in Requests, Commit(r)
    PROVE  OInv'
<1>1. Typed /\ KeyHeld /\ Baseline /\ OutageData
  BY DEF OInv, OutageData
<1>2. PICK c : c = check[r[1]]
  OBVIOUS
<1>3. /\ now' = now /\ check' = check /\ moves' = moves
      /\ stored' = stored \cup {r[1]} /\ request[r].pc = "held" /\ End(r)
  BY DEF Commit
<1>4. /\ request' \in [Requests -> Request] /\ request'[r].pc = "done"
      /\ \A q \in Requests : q # r => request'[q] = request[q]
  BY <1>1, <1>3, DoneIs, RequestIs DEF End
<1>5. KeyHeld'
  <2>1. ASSUME NEW q \in Requests, request'[q].pc = "held"
        PROVE  /\ q # r /\ request[q].pc = "held" /\ q[1] \notin stored /\ q[1] # r[1]
               /\ \A k \in 1..Copies : k # q[2] => request[<<q[1], k>>].pc # "held"
    <3>1. q # r /\ request[q].pc = "held"
      BY <1>4, <2>1
    <3>2. q[1] # r[1]
      <4>1. /\ q = <<q[1], q[2]>> /\ r = <<r[1], r[2]>>
            /\ q[2] \in 1..Copies /\ r[2] \in 1..Copies
        BY DEF Requests
      <4>2. q[1] = r[1] => q[2] # r[2] /\ request[<<r[1], q[2]>>].pc = "held"
        BY <3>1, <4>1
      <4> QED BY <1>1, <1>3, <4>1, <4>2 DEF KeyHeld
    <3> QED BY <1>1, <3>1, <3>2 DEF KeyHeld
  <2>2. ASSUME NEW q \in Requests, NEW k \in 1..Copies, request[<<q[1], k>>].pc # "held"
        PROVE  request'[<<q[1], k>>].pc # "held"
    <3>1. <<q[1], k>> \in Requests
      BY DEF Requests
    <3> QED BY <1>4, <2>2, <3>1
  <2>3. ASSUME NEW q \in Requests, request'[q].pc \in {"open", "held"}
        PROVE  q[1] \in DOMAIN check
    BY <1>1, <1>4, <2>3 DEF KeyHeld
  <2> QED BY <1>3, <2>1, <2>2, <2>3 DEF KeyHeld
<1>6. stored' \subseteq DOMAIN check /\ Range(applied) \subseteq stored'
  BY <1>1, <1>3 DEF KeyHeld, Typed
<1>7. CASE c.ok /\ ~request[r].newer
  <2>1. /\ OutageData' /\ events' \in Seq(Events) /\ Forward(events')
        /\ applied' \in Seq(Times) /\ applied' # <<>> /\ told' \in Seq(Times)
        /\ Range(told') \subseteq Range(applied')
        /\ Range(applied') \subseteq stored \cup {r[1]}
    BY <1>2, <1>7, ApplyStep
  <2>2. /\ source' = [source EXCEPT
                 !.houseState = IF Found(c) THEN "FOUND" ELSE "NOT_FOUND",
                 !.groups = HouseGroups(c)]
        /\ days' = daysAfter(c)
    BY <1>2, <1>7 DEF Commit
  <2>3. HouseGroups(c) \subseteq Groups /\ (HouseGroups(c) # {} => Found(c))
    <3>1. c.address \in Addresses
      BY <1>1, <1>2, <1>3 DEF KeyHeld, Typed
    <3>2. GroupsOf[c.address] = None \/ GroupsOf[c.address] \subseteq Groups
      BY <3>1, OutageConstants
    <3> QED BY <3>2 DEF HouseGroups, Found
  <2>4. /\ source' \in [address    : Addresses,
                        houseState : {"PENDING", "FOUND", "NOT_FOUND"},
                        groups     : SUBSET Groups]
        /\ source'.groups # {} => source'.houseState = "FOUND"
    BY <1>1, <2>2, <2>3 DEF Typed
  <2>5. DOMAIN days' = Groups \X Days
    BY <2>2 DEF daysAfter
  <2>6. Typed'
    BY <1>1, <1>3, <1>4, <1>6, <2>1, <2>4, <2>5 DEF Typed, Request
  <2>7. Baseline'
    BY <2>1 DEF Baseline
  <2> QED BY <1>5, <2>1, <2>6, <2>7 DEF OInv, OutageData
<1>8. CASE ~(c.ok /\ ~request[r].newer)
  <2>1. UNCHANGED <<source, weekly, days, events, applied, told>>
    BY <1>2, <1>8 DEF Commit
  <2>2. Typed'
    BY <1>1, <1>3, <1>4, <1>6, <2>1 DEF Typed, Forward, Request
  <2>3. Baseline'
    BY <1>1, <1>4, <2>1 DEF Baseline
  <2>4. OutageData'
    BY <1>1, <1>3, <2>1, DataKept
  <2> QED BY <1>5, <2>2, <2>3, <2>4 DEF OInv, OutageData
<1> QED BY <1>7, <1>8

LEMMA NextStep == OInv /\ [Next]_vars => OInv'
<1> SUFFICES ASSUME OInv, [Next]_vars PROVE OInv'
  OBVIOUS
<1>1. CASE \E p \in Pages : ReadSite(p)
  BY <1>1, CheckStep DEF ReadSite
<1>2. CASE ReadFails
  BY <1>2, CheckStep DEF ReadFails
<1>3. ASSUME NEW r \in Requests, Lookup(r) \/ Insert(r) \/ Commit(r) \/ Abort(r)
      PROVE  OInv'
  BY <1>3, LookupStep, InsertStep, CommitStep, AbortStep
<1>4. CASE (\E a \in Addresses : Move(a)) \/ Tick
  BY <1>4, OtherStep
<1>5. CASE UNCHANGED vars
  <2>1. UNCHANGED <<now, check, request, source, moves, stored, weekly, days, events,
                    applied, told>>
    BY <1>5 DEF vars, rows
  <2>2. Typed' /\ KeyHeld' /\ Baseline'
    BY <2>1 DEF OInv, Typed, Forward, KeyHeld, Baseline
  <2>3. OutageData'
    BY <2>1, DataKept DEF OInv, OutageData
  <2> QED BY <2>2, <2>3 DEF OInv, OutageData
<1> QED BY <1>1, <1>2, <1>3, <1>4, <1>5 DEF Next

LEMMA Invariant == Spec => []OInv
<1>1. Init => OInv
  BY InitStep
<1>2. OInv /\ [Next]_vars => OInv'
  BY NextStep
<1> QED BY <1>1, <1>2, PTL DEF Spec

-----------------------------------------------------------------------------
(* The reader's loop and the watch.                                        *)

ReaderTyped ==
    /\ clock \in 0..LastTick /\ skew \in Skews /\ faults \in 0..ReaderFaults
    /\ reader \in [at : {"ask", "read", "wait"}, started : Int, checkedAt : Int, forced : BOOLEAN,
                   blocked : BOOLEAN, until : Int, slept : BOOLEAN]
    /\ row \in [enabled : BOOLEAN, requested : Int] /\ watch \in [started : BOOLEAN, down : Int]
    /\ lastBrowser \in Int /\ lastCheck \in Int /\ lastOk \in Int
    /\ turnedAt \in Int /\ hindered \in Int
    /\ announced \in {"nothing", "unavailable", "back"} /\ quiet \in BOOLEAN /\ seen \in BOOLEAN

\* Nothing is dated ahead; asked and read in one unit, or the next.
Dated ==
    /\ reader.started <= Here /\ skew <= reader.checkedAt /\ reader.checkedAt <= Here
    /\ reader.at = "ask" => reader.started = Here
    /\ reader.at = "read" => reader.checkedAt = reader.started /\ Here <= reader.checkedAt + 1
    /\ Never <= lastOk /\ lastOk <= lastCheck /\ lastCheck <= Here /\ lastBrowser <= Here
    /\ row.requested <= clock /\ hindered <= clock

\* Once turned away, the reader's next check is past the pause.
Rested ==
    turnedAt # Never =>
        /\ reader.at = "wait" /\ reader.blocked
              => reader.until >= turnedAt + skew + BlockedPause - 1
        /\ ~(reader.at = "wait" /\ reader.blocked)
              => reader.started >= turnedAt + skew + BlockedPause - 1

\* How long ago a check that nothing hinders can have been asked for.
Awaited ==
    Pending /\ hindered < row.requested =>
        /\ row.enabled
        /\ reader.at = "ask" => clock - row.requested <= Behind + 1
        /\ reader.at = "read" => reader.checkedAt - skew - row.requested <= Behind + 1
        /\ reader.at = "wait" => clock - row.requested <= Behind + 1
        /\ reader.at = "wait" /\ ~reader.slept => clock - row.requested <= Behind

\* What the household was told is the watch's mark, and after a round the mark is
\* what the checks say.
Told ==
    /\ ~quiet => (announced = "unavailable" <=> Marked)
    /\ seen /\ row.enabled => (Marked <=> ~Fresh)

LoopInv == ReaderTyped /\ Dated /\ Rested /\ Awaited
ReaderInv == LoopInv /\ Told

LEMMA ReaderNumbers ==
    ASSUME ReaderConstants, ReaderTyped
    PROVE  /\ clock \in Nat /\ skew \in Int /\ skew > Never /\ Never \in Int /\ Here \in Int
           /\ Behind \in Nat /\ Behind >= -skew /\ BlockedPause \in Nat /\ BlockedPause >= 1
           /\ LastTick \in Nat /\ ReaderFaults \in Nat
<1>1. clock \in Nat /\ skew \in Int /\ skew > Never /\ Never \in Int
  BY DEF ReaderConstants, ReaderTyped, Never
<1> QED BY <1>1 DEF ReaderConstants, Here, Behind

LEMMA NextCheckType ==
    ASSUME ReaderConstants, NEW t \in Int, NEW b \in BOOLEAN
    PROVE  nextCheckAt(t, b) \in Int
<1>1. /\ DayUnits \in Nat \ {0} /\ Evening.from \in Nat /\ Interval \in Nat /\ EveningInterval \in Nat
      /\ BlockedPause \in Nat
  BY DEF ReaderConstants
<1>2. MinuteOf(t) \in Int
  BY <1>1 DEF MinuteOf
<1>3. NextEvening(t) \in Int
  BY <1>1, <1>2 DEF NextEvening
<1> QED BY <1>1, <1>3 DEF nextCheckAt

LEMMA ReaderInitial == ReaderConstants /\ InitReader => ReaderInv
<1> SUFFICES ASSUME ReaderConstants, InitReader PROVE ReaderInv
  OBVIOUS
<1>1. skew \in Int /\ skew > Never /\ Never \in Int /\ Never < 0
  BY DEF InitReader, ReaderConstants, Never
<1>2. ReaderTyped
  <2>1. 0 \in 0..LastTick /\ 0 \in 0..ReaderFaults
    BY DEF ReaderConstants
  <2>2. /\ reader \in [at : {"ask", "read", "wait"}, started : Int, checkedAt : Int, forced : BOOLEAN,
                        blocked : BOOLEAN, until : Int, slept : BOOLEAN]
        /\ row \in [enabled : BOOLEAN, requested : Int]
        /\ watch \in [started : BOOLEAN, down : Int]
    BY <1>1 DEF InitReader
  <2> QED BY <1>1, <2>1, <2>2 DEF InitReader, ReaderTyped
<1>3. Dated
  BY <1>1 DEF InitReader, Dated, Here
<1>4. Rested /\ Awaited
  BY DEF InitReader, Rested, Awaited, Pending
<1>5. Told
  BY DEF InitReader, Told, Marked, Unmarked
<1> QED BY <1>2, <1>3, <1>4, <1>5 DEF ReaderInv, LoopInv

\* The app and the owner.
LEMMA RefreshStep ==
    ASSUME ReaderConstants, LoopInv, RequestRefresh \/ Switch
    PROVE  LoopInv'
<1> USE DEF LoopInv
<1>1. /\ ReaderTyped /\ clock \in Nat /\ skew \in Int /\ Here \in Int /\ Behind \in Nat
      /\ ReaderFaults \in Nat
  BY ReaderNumbers
<1>2. /\ row' \in [enabled : BOOLEAN, requested : Int] /\ faults' \in 0..ReaderFaults
      /\ row'.requested <= clock /\ hindered' \in Int /\ hindered' <= clock
  <2>1. row \in [enabled : BOOLEAN, requested : Int] /\ row.requested <= clock /\ clock \in Int
    BY <1>1 DEF ReaderTyped, Dated
  <2>2. CASE RequestRefresh
    BY <1>1, <2>1, <2>2 DEF RequestRefresh, ReaderTyped, Dated
  <2>3. CASE Switch
    <3>1. PICK b \in BOOLEAN : b = ~row.enabled
      OBVIOUS
    <3>2. row' = [row EXCEPT !.enabled = b] /\ hindered' = clock
      BY <2>3, <3>1 DEF Switch
    <3>3. faults' \in 0..ReaderFaults
      BY <1>1, <2>3 DEF Switch, ReaderTyped
    <3> QED BY <2>1, <3>2, <3>3
  <2> QED BY <2>2, <2>3
<1>3. /\ UNCHANGED <<clock, skew, reader, lastBrowser, lastCheck, lastOk, turnedAt>>
      /\ announced' = announced /\ quiet' = quiet /\ watch' = watch /\ seen' \in BOOLEAN
      /\ Here' = Here /\ Behind' = Behind
  BY <1>1 DEF RequestRefresh, Switch, heard, ReaderTyped, Here, Behind
<1>4. ReaderTyped'
  BY <1>1, <1>2, <1>3 DEF ReaderTyped
<1>5. Dated' /\ Rested'
  BY <1>2, <1>3 DEF Dated, Rested
<1>6. Awaited'
  <2>1. CASE RequestRefresh
    <3>1. row'.requested = clock /\ row'.enabled
      BY <1>1, <2>1 DEF RequestRefresh, ReaderTyped
    <3>2. reader.at = "read" => reader.checkedAt - skew - clock <= 0
      BY <1>1 DEF Dated, Here, ReaderTyped
    <3>3. clock - clock = 0
      BY <1>1
    <3>4. reader \in [at : {"ask", "read", "wait"}, started : Int, checkedAt : Int,
                      forced : BOOLEAN, blocked : BOOLEAN, until : Int, slept : BOOLEAN]
      BY <1>1 DEF ReaderTyped
    <3> QED BY <1>1, <1>3, <3>1, <3>2, <3>3, <3>4 DEF Awaited
  <2>2. CASE Switch
    <3>1. hindered' = clock /\ row'.requested <= clock
      BY <1>2, <2>2 DEF Switch
    <3>2. ~(hindered' < row'.requested)
      BY <1>1, <1>2, <3>1
    <3> QED BY <3>2 DEF Awaited
  <2> QED BY <2>1, <2>2
<1> QED BY <1>4, <1>5, <1>6

\* The reader asks the server, and may wait instead of checking.
LEMMA AskStep ==
    ASSUME ReaderConstants, LoopInv, NEW answers \in BOOLEAN, AskSource(answers)
    PROVE  LoopInv'
<1> USE DEF LoopInv
<1>1. /\ ReaderTyped /\ clock \in Nat /\ skew \in Int /\ Here \in Int /\ Behind \in Nat
      /\ ReaderFaults \in Nat /\ reader.at = "ask"
  BY ReaderNumbers DEF AskSource
<1>2. /\ UNCHANGED <<clock, skew, lastBrowser, lastCheck, lastOk, row, turnedAt, watch, seen,
                     announced, quiet>>
      /\ Here' = Here /\ Behind' = Behind
  BY DEF AskSource, server, heard, Here, Behind
<1>3. CASE Wait(FALSE) /\ hindered' = clock /\ faults' \in 0..ReaderFaults
  <2>1. nextCheckAt(reader.started, FALSE) \in Int
    BY <1>1, NextCheckType DEF ReaderTyped
  <2>2. reader' = [reader EXCEPT !.at = "wait", !.blocked = FALSE, !.slept = FALSE,
                                 !.until = nextCheckAt(reader.started, FALSE)]
    BY <1>3 DEF Wait
  <2>3. ReaderTyped'
    <3>1. reader' \in [at : {"ask", "read", "wait"}, started : Int, checkedAt : Int, forced : BOOLEAN,
                       blocked : BOOLEAN, until : Int, slept : BOOLEAN]
      BY <1>1, <2>1, <2>2 DEF ReaderTyped
    <3>2. hindered' \in Int /\ faults' \in 0..ReaderFaults
      BY <1>1, <1>3
    <3> QED BY <1>1, <1>2, <3>1, <3>2 DEF ReaderTyped
  <2>4. Dated' /\ Rested'
    BY <1>1, <1>2, <1>3, <2>2 DEF ReaderTyped, Dated, Rested
  <2>5. ~(hindered' < row'.requested)
    BY <1>1, <1>2, <1>3 DEF ReaderTyped, Dated
  <2> QED BY <2>3, <2>4, <2>5 DEF Awaited
<1>4. CASE /\ row.enabled /\ UNCHANGED <<faults, hindered>>
           /\ \E forced \in BOOLEAN :
                 reader' = [reader EXCEPT !.at = "read", !.checkedAt = Here, !.forced = forced]
  <2>1. PICK forced \in BOOLEAN :
                 reader' = [reader EXCEPT !.at = "read", !.checkedAt = Here, !.forced = forced]
    BY <1>4
  <2>2. ReaderTyped'
    BY <1>1, <1>2, <1>4, <2>1 DEF ReaderTyped
  <2>3. skew <= Here /\ Here - skew = clock
    BY <1>1 DEF Here
  <2>4. Dated' /\ Rested'
    BY <1>1, <1>2, <1>4, <2>1, <2>3 DEF ReaderTyped, Dated, Rested
  <2>5. Awaited'
    BY <1>1, <1>2, <1>4, <2>1, <2>3 DEF ReaderTyped, Awaited, Pending
  <2> QED BY <2>2, <2>4, <2>5
<1>5. \/ Wait(FALSE) /\ hindered' = clock /\ faults' \in 0..ReaderFaults
      \/ /\ row.enabled /\ UNCHANGED <<faults, hindered>>
         /\ \E forced \in BOOLEAN :
               reader' = [reader EXCEPT !.at = "read", !.checkedAt = Here, !.forced = forced]
  <2>1. CASE ~answers /\ faults < ReaderFaults /\ faults' = faults + 1 /\ hindered' = clock /\ Wait(FALSE)
    <3>1. faults \in 0..ReaderFaults /\ faults < ReaderFaults /\ faults' = faults + 1
      BY <1>1, <2>1 DEF ReaderTyped
    <3>2. faults' \in 0..ReaderFaults
      BY <1>1, <3>1
    <3> QED BY <2>1, <3>2
  <2>2. CASE answers /\ ~row.enabled /\ hindered' = clock /\ Wait(FALSE) /\ UNCHANGED faults
    BY <1>1, <2>2 DEF ReaderTyped
  <2>3. CASE /\ answers /\ row.enabled
             /\ reader' = [reader EXCEPT !.at = "read", !.checkedAt = Here,
                             !.forced = lastBrowser = Never \/ Here - lastBrowser >= BrowserEvery]
             /\ UNCHANGED <<faults, hindered>>
    <3>1. PICK b \in BOOLEAN : b = (lastBrowser = Never \/ Here - lastBrowser >= BrowserEvery)
      OBVIOUS
    <3> QED BY <2>3, <3>1
  <2> QED BY <2>1, <2>2, <2>3 DEF AskSource
<1> QED BY <1>3, <1>4, <1>5

LEMMA ReadKind ==
    ASSUME NEW s \in Sites, NEW forced \in BOOLEAN
    PROVE  /\ ReadStreet(s, forced).kind \in {"ok", "turned", "down"}
           /\ ReadStreet(s, forced).browser \in BOOLEAN
BY DEF Sites, ReadStreet, PlainRead, BrowserRead

\* The check is made and reported; the wait begins.
LEMMA ReportStep ==
    ASSUME ReaderConstants, LoopInv, NEW s \in Sites, NEW delivered \in BOOLEAN,
           ReadAndReport(s, delivered)
    PROVE  LoopInv'
<1> USE DEF LoopInv
<1> DEFINE kind == ReadStreet(s, reader.forced).kind
           checked == reader.checkedAt
<1>1. /\ ReaderTyped /\ clock \in Nat /\ skew \in Int /\ Here \in Int /\ Behind \in Nat
      /\ Behind >= -skew /\ BlockedPause \in Nat /\ Never \in Int
      /\ ReaderFaults \in Nat /\ reader.at = "read" /\ reader.forced \in BOOLEAN
  BY ReaderNumbers DEF ReadAndReport, ReaderTyped
<1>2. /\ UNCHANGED <<clock, skew, row, watch, announced, quiet>> /\ seen' = FALSE
      /\ Here' = Here /\ Behind' = Behind
  BY DEF ReadAndReport, heard, Here, Behind
<1>3. PICK blocked \in BOOLEAN : blocked = (delivered /\ kind = "turned")
  OBVIOUS
<1>4. /\ reader' = [reader EXCEPT !.at = "wait", !.blocked = blocked, !.slept = FALSE,
                                  !.until = nextCheckAt(reader.started, blocked)]
      /\ nextCheckAt(reader.started, blocked) \in Int
      /\ blocked => nextCheckAt(reader.started, blocked) = reader.started + BlockedPause
      /\ turnedAt' = IF blocked THEN clock ELSE turnedAt
  BY <1>1, <1>3, NextCheckType DEF ReadAndReport, Wait, ReaderTyped, nextCheckAt
<1>5. lastBrowser' \in {checked, lastBrowser}
  BY DEF ReadAndReport
<1>6. /\ lastCheck' \in Int /\ lastOk' \in Int /\ lastCheck' <= Here /\ lastOk' <= lastCheck'
      /\ Never <= lastOk' /\ lastCheck' >= lastCheck /\ (delivered => lastCheck' >= checked)
  <2>1. checked \in Int /\ checked <= Here /\ lastCheck \in Int /\ lastOk \in Int
        /\ Never <= lastOk /\ lastOk <= lastCheck /\ lastCheck <= Here
    BY <1>1 DEF ReaderTyped, Dated
  <2>2. CASE delivered
    <3>1. /\ lastCheck' = IF lastCheck < checked THEN checked ELSE lastCheck
          /\ lastOk' \in {lastOk, IF lastOk < checked THEN checked ELSE lastOk}
      BY <2>2 DEF ReadAndReport
    <3> HIDE DEF checked
    <3> QED BY <1>1, <2>1, <3>1
  <2>3. CASE ~delivered
    BY <1>1, <2>1, <2>3 DEF ReadAndReport
  <2> QED BY <2>2, <2>3
<1>7. /\ hindered' \in Int /\ hindered' <= clock /\ faults' \in 0..ReaderFaults
      /\ (delivered => hindered' = hindered) /\ (~delivered => hindered' = clock)
  <2>1. CASE delivered
    BY <1>1, <2>1 DEF ReadAndReport, ReaderTyped, Dated
  <2>2. CASE ~delivered
    BY <1>1, <2>2 DEF ReadAndReport, ReaderTyped, Dated
  <2> QED BY <2>1, <2>2
<1> HIDE DEF kind
<1>8. ReaderTyped'
  <2>1. /\ reader' \in [at : {"ask", "read", "wait"}, started : Int, checkedAt : Int, forced : BOOLEAN,
                         blocked : BOOLEAN, until : Int, slept : BOOLEAN]
    BY <1>1, <1>4 DEF ReaderTyped
  <2>2. turnedAt' \in Int /\ lastBrowser' \in Int
    BY <1>1, <1>4, <1>5 DEF ReaderTyped
  <2> QED BY <1>1, <1>2, <1>6, <1>7, <2>1, <2>2 DEF ReaderTyped
<1>9. /\ reader'.at = "wait" /\ reader'.blocked = blocked /\ ~reader'.slept
      /\ reader'.until = nextCheckAt(reader.started, blocked)
      /\ reader'.started = reader.started /\ reader'.checkedAt = reader.checkedAt
  BY <1>1, <1>4 DEF ReaderTyped
<1>10. Dated'
  <2>1. lastBrowser' <= Here'
    BY <1>1, <1>2, <1>5 DEF ReaderTyped, Dated
  <2>2. /\ reader'.started <= Here' /\ skew' <= reader'.checkedAt /\ reader'.checkedAt <= Here'
        /\ reader'.at # "ask" /\ reader'.at # "read" /\ row'.requested <= clock'
    BY <1>2, <1>9 DEF Dated
  <2>3. Never <= lastOk' /\ lastOk' <= lastCheck' /\ lastCheck' <= Here' /\ hindered' <= clock'
    BY <1>2, <1>6, <1>7
  <2> QED BY <2>1, <2>2, <2>3 DEF Dated
<1>11. /\ reader.started \in Int /\ checked = reader.started /\ clock + skew <= checked + 1
       /\ checked <= clock + skew /\ turnedAt \in Int
  BY <1>1 DEF Dated, ReaderTyped, Here
<1>12. Rested'
  <2>1. CASE blocked
    <3>1. turnedAt' = clock /\ reader'.until = reader.started + BlockedPause /\ skew' = skew
      BY <1>2, <1>4, <1>9, <2>1
    <3>2. reader.started + BlockedPause >= clock + skew + BlockedPause - 1
      BY <1>1, <1>11
    <3> QED BY <1>9, <2>1, <3>1, <3>2 DEF Rested
  <2>2. CASE ~blocked
    BY <1>1, <1>2, <1>4, <1>9, <2>2 DEF Rested
  <2> QED BY <2>1, <2>2
<1>13. Awaited'
  <2>1. SUFFICES ASSUME Pending', hindered' < row'.requested
                 PROVE  row.enabled /\ clock - row.requested <= Behind
    BY <1>1, <1>2, <1>9 DEF Awaited, ReaderTyped
  <2>2. row.requested \in Int /\ row'.requested = row.requested /\ row.requested <= clock
    BY <1>1, <1>2 DEF ReaderTyped, Dated
  <2>3. delivered /\ hindered < row.requested
    BY <1>1, <1>7, <2>1, <2>2
  <2>4. lastCheck' < row.requested /\ row.requested # Never
    BY <2>1, <2>2 DEF Pending
  <2>5. lastCheck < row.requested /\ checked < row.requested
    <3>1. lastCheck \in Int /\ lastCheck' \in Int /\ lastCheck' >= lastCheck /\ lastCheck' >= checked
      BY <1>1, <1>6, <2>3 DEF ReaderTyped
    <3> HIDE DEF checked
    <3> QED BY <1>11, <2>2, <2>4, <3>1
  <2>6. row.enabled
    BY <2>3, <2>4, <2>5 DEF Awaited, Pending
  <2>7. clock - row.requested <= Behind
    <3> HIDE DEF checked
    <3> QED BY <1>1, <1>11, <2>2, <2>5
  <2> QED BY <2>6, <2>7
<1> QED BY <1>8, <1>10, <1>12, <1>13

\* The end of a wait: due, or asked for.
LEMMA AsksStep ==
    ASSUME ReaderConstants, LoopInv, Asks(Here), reader.at = "wait",
           UNCHANGED <<clock, skew, lastBrowser, server, watch, turnedAt, heard, seen, faults,
                       hindered>>,
           reader.blocked => Here >= reader.until
    PROVE  LoopInv'
<1> USE DEF LoopInv
<1>1. /\ ReaderTyped /\ clock \in Nat /\ skew \in Int /\ Here \in Int /\ Behind \in Nat
      /\ BlockedPause \in Nat
  BY ReaderNumbers
<1>2. /\ UNCHANGED <<clock, skew, lastBrowser, lastCheck, lastOk, row, watch, turnedAt, announced,
                     quiet, seen, faults, hindered>>
      /\ Here' = Here /\ Behind' = Behind /\ reader' = [reader EXCEPT !.at = "ask", !.started = Here]
  BY DEF server, heard, Asks, Here, Behind
<1>3. ReaderTyped'
  BY <1>1, <1>2 DEF ReaderTyped
<1>4. reader'.at = "ask" /\ reader'.started = Here /\ reader'.checkedAt = reader.checkedAt
  BY <1>1, <1>2 DEF ReaderTyped
<1>5. Dated'
  BY <1>1, <1>2, <1>4 DEF ReaderTyped, Dated
<1>6. Rested'
  BY <1>1, <1>2, <1>4 DEF ReaderTyped, Dated, Rested
<1>7. Awaited'
  BY <1>1, <1>2, <1>4 DEF ReaderTyped, Awaited, Pending
<1> QED BY <1>3, <1>5, <1>6, <1>7

\* The wait goes on: blocked, unanswered or with nothing asked for.
LEMMA SleepsOn ==
    ASSUME ReaderConstants, LoopInv, reader' = [reader EXCEPT !.slept = FALSE],
           reader.at = "wait", faults' \in 0..ReaderFaults,
           UNCHANGED <<clock, skew, lastBrowser, server, watch, turnedAt, heard, seen>>,
           \/ hindered' = clock
           \/ hindered' = hindered /\ ~(row.enabled /\ Pending)
    PROVE  LoopInv'
<1> USE DEF LoopInv
<1>1. /\ ReaderTyped /\ clock \in Nat /\ skew \in Int /\ Here \in Int /\ Behind \in Nat
      /\ BlockedPause \in Nat
  BY ReaderNumbers
<1>2. /\ UNCHANGED <<clock, skew, lastBrowser, lastCheck, lastOk, row, watch, turnedAt, announced,
                     quiet, seen>>
      /\ Here' = Here /\ Behind' = Behind /\ Pending' = Pending
  BY DEF server, heard, Here, Behind, Pending
<1>3. hindered' \in Int /\ hindered' <= clock
  BY <1>1 DEF ReaderTyped, Dated
<1>4. ReaderTyped'
  <2>1. reader' \in [at : {"ask", "read", "wait"}, started : Int, checkedAt : Int, forced : BOOLEAN,
                     blocked : BOOLEAN, until : Int, slept : BOOLEAN]
    BY <1>1 DEF ReaderTyped
  <2> QED BY <1>1, <1>2, <1>3, <2>1 DEF ReaderTyped
<1>5. /\ reader'.at = "wait" /\ reader'.started = reader.started /\ reader'.until = reader.until
      /\ reader'.checkedAt = reader.checkedAt /\ reader'.blocked = reader.blocked /\ ~reader'.slept
  BY <1>1 DEF ReaderTyped
<1>6. Dated'
  BY <1>1, <1>2, <1>3, <1>5 DEF Dated
<1>7. Rested'
  BY <1>1, <1>2, <1>5 DEF Rested
<1>8. Awaited'
  <2>1. SUFFICES ASSUME Pending, hindered' < row.requested PROVE FALSE
    BY <1>2 DEF Awaited
  <2>2. row.requested \in Int /\ row.requested <= clock
    BY <1>1 DEF ReaderTyped, Dated
  <2>3. hindered' = hindered /\ ~row.enabled
    BY <1>1, <2>1, <2>2
  <2> QED BY <2>1, <2>3 DEF Awaited
<1> QED BY <1>4, <1>6, <1>7, <1>8

LEMMA WakeStep ==
    ASSUME ReaderConstants, LoopInv, NEW answers \in BOOLEAN, Wake(answers)
    PROVE  LoopInv'
<1>1. ReaderTyped /\ ReaderFaults \in Nat /\ faults \in 0..ReaderFaults
  BY ReaderNumbers DEF LoopInv, ReaderTyped
<1>2. CASE Here >= reader.until
  BY <1>2, AsksStep DEF Wake
<1>3. CASE ~(Here >= reader.until) /\ reader.blocked
  <2>1. faults' \in 0..ReaderFaults
    BY <1>1, <1>3 DEF Wake
  <2> QED BY <1>3, <2>1, SleepsOn DEF Wake
<1>4. CASE ~(Here >= reader.until) /\ ~reader.blocked /\ ~answers
  <2>1. faults < ReaderFaults /\ faults' = faults + 1
    BY <1>4 DEF Wake
  <2>2. faults' \in 0..ReaderFaults
    BY <1>1, <2>1
  <2> QED BY <1>4, <2>2, SleepsOn DEF Wake
<1>5. CASE ~(Here >= reader.until) /\ ~reader.blocked /\ answers
  <2>1. CASE row.enabled /\ Pending
    BY <1>5, <2>1, AsksStep DEF Wake
  <2>2. CASE ~(row.enabled /\ Pending)
    BY <1>1, <1>5, <2>2, SleepsOn DEF Wake
  <2> QED BY <2>1, <2>2
<1> QED BY <1>2, <1>3, <1>4, <1>5

LEMMA OverdueStep ==
    ASSUME ReaderConstants, LoopInv, Overdue
    PROVE  LoopInv'
BY AsksStep DEF Overdue

LEMMA RestartStep ==
    ASSUME ReaderConstants, LoopInv, RestartReader
    PROVE  LoopInv'
<1> USE DEF LoopInv
<1>1. /\ ReaderTyped /\ clock \in Nat /\ skew \in Int /\ Here \in Int /\ Never \in Int
      /\ ReaderFaults \in Nat
  BY ReaderNumbers
<1>2. /\ UNCHANGED <<clock, skew, lastBrowser, lastCheck, lastOk, row, watch, announced, quiet, seen>>
      /\ Here' = Here /\ reader' = [reader EXCEPT !.at = "ask", !.started = Here]
      /\ turnedAt' = Never /\ hindered' = clock
  BY DEF RestartReader, server, heard, Asks, Here
<1>3. ReaderTyped'
  <2>1. faults' \in 0..ReaderFaults
    BY <1>1 DEF RestartReader, ReaderTyped
  <2>2. reader' \in [at : {"ask", "read", "wait"}, started : Int, checkedAt : Int, forced : BOOLEAN,
                     blocked : BOOLEAN, until : Int, slept : BOOLEAN]
    BY <1>1, <1>2 DEF ReaderTyped
  <2> QED BY <1>1, <1>2, <2>1, <2>2 DEF ReaderTyped
<1>4. reader'.at = "ask" /\ reader'.started = Here /\ reader'.checkedAt = reader.checkedAt
  BY <1>1, <1>2 DEF ReaderTyped
<1>5. Dated'
  BY <1>1, <1>2, <1>4 DEF ReaderTyped, Dated
<1>6. Rested'
  BY <1>2 DEF Rested
<1>7. ~(hindered' < row'.requested)
  BY <1>1, <1>2 DEF ReaderTyped, Dated
<1> QED BY <1>3, <1>5, <1>6, <1>7 DEF Awaited

\* A unit of time passes.
LEMMA TickStep ==
    ASSUME ReaderConstants, LoopInv, ReaderTick
    PROVE  LoopInv'
<1> USE DEF LoopInv
<1>1. /\ ReaderTyped /\ clock \in Nat /\ skew \in Int /\ Here \in Int /\ Behind \in Nat
      /\ BlockedPause \in Nat /\ LastTick \in Nat
  BY ReaderNumbers
<1>2. /\ UNCHANGED <<skew, lastBrowser, lastCheck, lastOk, row, watch, announced, quiet, faults,
                     turnedAt, hindered>>
      /\ clock < LastTick /\ clock' = clock + 1 /\ seen' = FALSE
      /\ Here' = Here + 1 /\ Behind' = Behind /\ Pending' = Pending
  BY <1>1 DEF ReaderTick, server, heard, Here, Behind, Pending
<1>3. \/ reader.at = "wait" /\ ~reader.slept /\ reader' = [reader EXCEPT !.slept = TRUE]
      \/ reader.at = "read" /\ reader.checkedAt = Here /\ reader' = reader
  BY DEF ReaderTick
<1>4. ReaderTyped'
  <2>1. reader' \in [at : {"ask", "read", "wait"}, started : Int, checkedAt : Int, forced : BOOLEAN,
                     blocked : BOOLEAN, until : Int, slept : BOOLEAN]
    BY <1>1, <1>3 DEF ReaderTyped
  <2>2. clock' \in 0..LastTick
    BY <1>1, <1>2
  <2> QED BY <1>1, <1>2, <2>1, <2>2 DEF ReaderTyped
<1>5. /\ reader'.at = reader.at /\ reader'.started = reader.started /\ reader'.until = reader.until
      /\ reader'.checkedAt = reader.checkedAt /\ reader'.blocked = reader.blocked
  BY <1>1, <1>3 DEF ReaderTyped
<1>6. Dated'
  BY <1>1, <1>2, <1>3, <1>5 DEF ReaderTyped, Dated
<1>7. Rested'
  BY <1>1, <1>2, <1>5 DEF Rested
<1>8. Awaited'
  BY <1>1, <1>2, <1>3, <1>5 DEF ReaderTyped, Awaited
<1> QED BY <1>4, <1>6, <1>7, <1>8

\* What a round of the watch may come to.
LEMMA Rounds ==
    ASSUME NEW ok \in BOOLEAN, Watch(ok)
    PROVE  \/ /\ ~row.enabled /\ watch' = [started |-> TRUE, down |-> Unmarked]
              /\ announced' = "nothing" /\ quiet' = FALSE
           \/ /\ row.enabled /\ ~Fresh /\ ~Marked /\ watch' = [started |-> TRUE, down |-> Good]
              /\ \/ announced' = "unavailable" /\ quiet' = FALSE
                 \/ announced' = announced /\ quiet' = TRUE
           \/ /\ row.enabled /\ Fresh /\ Marked /\ watch' = [started |-> TRUE, down |-> Unmarked]
              /\ \/ announced' = "back" /\ quiet' = FALSE
                 \/ announced' = announced /\ quiet' = TRUE
           \/ /\ row.enabled /\ (Fresh => ~Marked) /\ (~Fresh => Marked)
              /\ watch' = [started |-> TRUE, down |-> watch.down]
              /\ announced' = announced /\ quiet' = quiet
BY DEF Watch, heard

\* The server's side: the watch's round, and a restart.
LEMMA ServerStep ==
    ASSUME ReaderConstants, LoopInv, RestartServer \/ \E ok \in BOOLEAN : Watch(ok)
    PROVE  LoopInv'
<1> USE DEF LoopInv
<1>1. /\ ReaderTyped /\ clock \in Nat /\ skew \in Int /\ Here \in Int /\ Never \in Int
      /\ ReaderFaults \in Nat
  BY ReaderNumbers
<1>2. /\ UNCHANGED <<clock, skew, reader, lastBrowser, row, lastCheck, lastOk, turnedAt, hindered>>
      /\ Here' = Here /\ Behind' = Behind /\ Pending' = Pending
  BY DEF RestartServer, Watch, server, Here, Behind, Pending
<1>3. /\ faults' \in 0..ReaderFaults /\ watch' \in [started : BOOLEAN, down : Int]
      /\ announced' \in {"nothing", "unavailable", "back"} /\ quiet' \in BOOLEAN /\ seen' \in BOOLEAN
  <2>1. CASE RestartServer
    <3>1. faults \in 0..ReaderFaults /\ faults < ReaderFaults /\ faults' = faults + 1
      BY <1>1, <2>1 DEF RestartServer, ReaderTyped
    <3>2. faults' \in 0..ReaderFaults
      BY <1>1, <3>1
    <3>3. watch' = [started |-> FALSE, down |-> Never - 1]
      BY <2>1 DEF RestartServer, Unmarked
    <3>4. watch' \in [started : BOOLEAN, down : Int]
      BY <1>1, <3>3
    <3>5. announced' = announced /\ quiet' = TRUE /\ seen' = FALSE
      BY <2>1 DEF RestartServer
    <3> QED BY <1>1, <3>2, <3>4, <3>5 DEF ReaderTyped
  <2>2. ASSUME NEW ok \in BOOLEAN, Watch(ok)
        PROVE  /\ faults' \in 0..ReaderFaults /\ watch' \in [started : BOOLEAN, down : Int]
               /\ announced' \in {"nothing", "unavailable", "back"} /\ quiet' \in BOOLEAN
               /\ seen' \in BOOLEAN
    <3>1. Good \in Int /\ Unmarked \in Int /\ watch.down \in Int
      BY <1>1 DEF Good, Unmarked, ReaderTyped
    <3>2. seen' = TRUE
      BY <2>2 DEF Watch
    <3>3. faults' \in 0..ReaderFaults
      <4>1. CASE ok
        BY <1>1, <2>2, <4>1 DEF Watch, ReaderTyped
      <4>2. CASE ~ok
        <5>1. faults < ReaderFaults /\ faults' = faults + 1
          BY <2>2, <4>2 DEF Watch
        <5> QED BY <1>1, <5>1 DEF ReaderTyped
      <4> QED BY <4>1, <4>2
    <3>4. watch' \in [started : BOOLEAN, down : Int]
      <4>1. \E down \in {Unmarked, Good, watch.down} : watch' = [started |-> TRUE, down |-> down]
        BY <2>2, Rounds, Zenon
      <4> QED BY <3>1, <4>1
    <3>5. announced' \in {"nothing", "unavailable", "back"} /\ quiet' \in BOOLEAN
      <4>1. announced' \in {"nothing", "unavailable", "back", announced} /\ quiet' \in {TRUE, FALSE, quiet}
        BY <2>2, Rounds, Zenon
      <4> QED BY <1>1, <4>1 DEF ReaderTyped
    <3> QED BY <3>2, <3>3, <3>4, <3>5
  <2> QED BY <2>1, <2>2
<1>4. ReaderTyped'
  BY <1>1, <1>2, <1>3 DEF ReaderTyped
<1>5. Dated' /\ Rested' /\ Awaited'
  BY <1>2 DEF Dated, Rested, Awaited
<1> QED BY <1>4, <1>5

LEMMA LoopStep ==
    ASSUME ReaderConstants, LoopInv, ReaderNext
    PROVE  LoopInv'
BY RefreshStep, AskStep, ReportStep, WakeStep, OverdueStep, RestartStep, TickStep, ServerStep
   DEF ReaderNext

\* A round of the watch tells what it marks, and marks what the checks say.
LEMMA WatchStep ==
    ASSUME ReaderConstants, LoopInv, Told, ReaderNext
    PROVE  Told'
<1>1. /\ ReaderTyped /\ clock \in Nat /\ Never \in Int /\ Never <= lastOk /\ lastOk \in Int
  BY ReaderNumbers DEF LoopInv, ReaderTyped, Dated
<1>2. Good # Unmarked /\ Good \in Int
  BY <1>1 DEF Good, Unmarked, Never
<1>3. ASSUME UNCHANGED <<watch, heard>>, seen' = FALSE
      PROVE  Told'
  BY <1>3 DEF Told, Marked, heard
<1>4. ASSUME UNCHANGED <<watch, heard, seen, clock, lastOk>>, row'.enabled => row.enabled
      PROVE  Told'
  BY <1>4 DEF Told, Marked, Fresh, Good, heard
<1>5. CASE RequestRefresh
  BY <1>1, <1>4, <1>5 DEF RequestRefresh, ReaderTyped
<1>6. CASE Switch
  BY <1>3, <1>6 DEF Switch
<1>7. CASE Overdue \/ RestartReader \/ \E ok \in BOOLEAN : AskSource(ok) \/ Wake(ok)
  BY <1>4, <1>7 DEF Overdue, RestartReader, AskSource, Wake, server, heard
<1>8. CASE RestartServer
  BY <1>8 DEF RestartServer, Told
<1>9. CASE ReaderTick \/ \E ok \in BOOLEAN : \E s \in Sites : ReadAndReport(s, ok)
  BY <1>3, <1>9 DEF ReaderTick, ReadAndReport
<1>10. ASSUME NEW ok \in BOOLEAN, Watch(ok)
       PROVE  Told'
  <2>1. Fresh' = Fresh /\ row' = row /\ seen'
    BY <1>10 DEF Watch, server, Fresh, Good
  <2>0. \/ /\ ~row.enabled /\ watch' = [started |-> TRUE, down |-> Unmarked]
           /\ announced' = "nothing" /\ quiet' = FALSE
        \/ /\ row.enabled /\ ~Fresh /\ ~Marked /\ watch' = [started |-> TRUE, down |-> Good]
           /\ \/ announced' = "unavailable" /\ quiet' = FALSE
              \/ announced' = announced /\ quiet' = TRUE
        \/ /\ row.enabled /\ Fresh /\ Marked /\ watch' = [started |-> TRUE, down |-> Unmarked]
           /\ \/ announced' = "back" /\ quiet' = FALSE
              \/ announced' = announced /\ quiet' = TRUE
        \/ /\ row.enabled /\ (Fresh => ~Marked) /\ (~Fresh => Marked)
           /\ watch' = [started |-> TRUE, down |-> watch.down]
           /\ announced' = announced /\ quiet' = quiet
    BY <1>10, Rounds, Zenon
  <2>2. CASE ~row.enabled
    <3>1. watch'.down = Unmarked /\ announced' = "nothing"
      BY <2>0, <2>2
    <3> QED BY <2>1, <2>2, <3>1 DEF Told, Marked, Unmarked
  <2>3. CASE row.enabled /\ ~Fresh /\ ~Marked
    <3>1. watch'.down = Good /\ (~quiet' => announced' = "unavailable")
      BY <2>0, <2>3
    <3>2. Marked'
      BY <1>2, <3>1 DEF Marked, Unmarked
    <3> QED BY <2>1, <2>3, <3>1, <3>2 DEF Told
  <2>4. CASE row.enabled /\ Fresh /\ Marked
    <3>1. watch'.down = Unmarked /\ (~quiet' => announced' = "back")
      BY <2>0, <2>4
    <3>2. ~Marked'
      BY <3>1 DEF Marked, Unmarked
    <3> QED BY <2>1, <2>4, <3>1, <3>2 DEF Told
  <2>5. CASE row.enabled /\ (Fresh => ~Marked) /\ (~Fresh => Marked)
    <3>1. watch'.down = watch.down /\ announced' = announced /\ quiet' = quiet
      BY <2>0, <2>5
    <3>2. Marked' <=> Marked
      BY <3>1 DEF Marked, Unmarked
    <3> QED BY <2>1, <2>5, <3>1, <3>2 DEF Told
  <2> QED BY <2>2, <2>3, <2>4, <2>5
<1> QED BY <1>5, <1>6, <1>7, <1>8, <1>9, <1>10 DEF ReaderNext

LEMMA ReaderStep ==
    ASSUME ReaderConstants, ReaderInv, [ReaderNext]_outageReaderVars
    PROVE  ReaderInv'
<1>1. CASE ReaderNext
  BY <1>1, LoopStep, WatchStep DEF ReaderInv
<1>2. CASE UNCHANGED outageReaderVars
  BY <1>2 DEF outageReaderVars, server, heard, ReaderInv, LoopInv, ReaderTyped, Dated, Rested, Awaited, Told,
              Here, Behind, Pending, Marked, Fresh, Good
<1> QED BY <1>1, <1>2

LEMMA ReaderMeans ==
    ASSUME ReaderConstants, ReaderInv
    PROVE  OutageReaderTypeOK /\ BlockedRests /\ WatchTellsTruth /\ RefreshServed
<1>1. /\ ReaderTyped /\ Dated /\ clock \in Nat /\ skew \in Int /\ Here \in Int /\ Behind \in Nat
      /\ BlockedPause \in Nat
  BY ReaderNumbers DEF ReaderInv, LoopInv
<1>2. OutageReaderTypeOK
  BY <1>1 DEF ReaderTyped, Dated, OutageReaderTypeOK
<1>3. BlockedRests
  <2>1. SUFFICES ASSUME reader.at = "read", turnedAt # Never
                 PROVE  reader.checkedAt - skew >= turnedAt + BlockedPause - 1
    BY DEF BlockedRests
  <2>2. reader.checkedAt >= turnedAt + skew + BlockedPause - 1
    BY <1>1, <2>1 DEF ReaderInv, LoopInv, Dated, Rested
  <2>3. reader.checkedAt \in Int /\ turnedAt \in Int
    BY <1>1 DEF ReaderTyped
  <2> QED BY <1>1, <2>2, <2>3
<1>4. WatchTellsTruth
  <2>1. Fresh <=> ~(clock - Good >= StaleAfter)
    <3>1. Good \in Int /\ StaleAfter \in Int
      BY <1>1 DEF Good, ReaderTyped, ReaderConstants
    <3> QED BY <1>1, <3>1 DEF Fresh
  <2>2. SUFFICES ASSUME seen, ~quiet, row.enabled
                 PROVE  (announced = "unavailable") <=> (clock - Good >= StaleAfter)
    BY DEF WatchTellsTruth
  <2> QED BY <2>1, <2>2 DEF ReaderInv, Told
<1>5. RefreshServed
  <2>1. SUFFICES ASSUME Pending, hindered < row.requested
                 PROVE  clock - row.requested <= 2 + Behind
    BY DEF RefreshServed
  <2>2. /\ reader.at \in {"ask", "read", "wait"} /\ row.requested \in Int /\ reader.checkedAt \in Int
    BY <1>1 DEF ReaderTyped
  <2>3. CASE reader.at = "read"
    <3>1. reader.checkedAt - skew - row.requested <= Behind + 1 /\ clock + skew <= reader.checkedAt + 1
      BY <1>1, <2>1, <2>3 DEF ReaderInv, LoopInv, Awaited, Dated, Here
    <3> QED BY <1>1, <2>2, <3>1
  <2>4. CASE reader.at # "read"
    <3>1. clock - row.requested <= Behind + 1
      BY <2>1, <2>2, <2>4 DEF ReaderInv, LoopInv, Awaited
    <3> QED BY <1>1, <2>2, <3>1
  <2> QED BY <2>3, <2>4
<1> QED BY <1>2, <1>3, <1>4, <1>5

-----------------------------------------------------------------------------
(* A check, request by request.                                            *)

SiteTyped ==
    /\ site \in SiteStates /\ checks \in 0..MaxChecks
    /\ visit \in [at : {"idle", "page", "houses", "launch", "ask", "close", "report"},
                  forced : BOOLEAN, plain : BOOLEAN, tries : 0..Retries,
                  block : {"none"} \cup TurnedAway, browser : BOOLEAN,
                  result : {"none", "ok", "error"} \cup TurnedAway \cup Failing,
                  used : BOOLEAN, turned : SUBSET {"plain", "browser"}]
    /\ list \in StreetLists /\ {hash, uploaded} \subseteq StreetLists \cup {NoList}

\* The browser that runs is the check's, and it has one from its launch to its close.
Counted ==
    /\ chromiums = IF visit.browser THEN 1 ELSE 0
    /\ visit.browser => visit.at \in {"ask", "close"}
    /\ visit.at = "ask" => visit.browser

\* How a check came where it is: to plain requests as any does, or for want of a
\* browser; to a browser to prove it, or turned away.
Came ==
    /\ visit.at \in {"page", "houses"} =>
         visit.plain /\ visit.block = "none" /\ (visit.forced => ~site.browser)
    /\ visit.at \in {"launch", "ask"} =>
         \/ ~visit.plain /\ visit.forced /\ visit.block = "none"
         \/ /\ visit.plain /\ visit.block \in TurnedAway /\ "plain" \in visit.turned
            /\ site.is \in {"picky", "closed", "erratic"} /\ (visit.forced => ~site.browser)
    /\ visit.at = "ask" => site.browser \/ site.is = "erratic"
    /\ visit.at \in {"page", "houses", "launch", "ask"} => ~visit.used

\* What a check that is over came to.
Over ==
    visit.at \in {"close", "report"} =>
        /\ visit.result # "none"
        /\ visit.result = "error" =>
             ~visit.plain /\ visit.at = "close" /\ visit.forced /\ ~site.browser
        /\ visit.result \in TurnedAway =>
             "browser" \in visit.turned \/ (visit.block # "none" /\ ~site.browser)
        /\ visit.result \in Retryable => visit.tries = Retries
        /\ visit.result # "error" /\ site.is # "erratic" =>
             /\ CameTo.kind = ReadStreet(site, visit.forced).kind
             /\ CameTo.kind = "ok" => visit.used = ReadStreet(site, visit.forced).browser

SiteInv == SiteTyped /\ Counted /\ Came /\ Over /\ ListIsStored

LEMMA SiteInitial == SiteConstants /\ InitSite => SiteInv
<1> SUFFICES ASSUME SiteConstants, InitSite PROVE SiteInv
  OBVIOUS
<1>1. list \in StreetLists
  BY DEF SiteConstants, InitSite
<1>2. visit.at = "idle" /\ ~visit.browser /\ chromiums = 0 /\ hash = NoList
  BY DEF InitSite, NoVisit
<1>3. SiteTyped
  <2>1. Retries \in Nat /\ 0 \in 0..Retries /\ MaxChecks \in Nat /\ 0 \in 0..MaxChecks
    BY DEF SiteConstants
  <2>2. visit \in [at : {"idle", "page", "houses", "launch", "ask", "close", "report"},
                   forced : BOOLEAN, plain : BOOLEAN, tries : 0..Retries,
                   block : {"none"} \cup TurnedAway, browser : BOOLEAN,
                   result : {"none", "ok", "error"} \cup TurnedAway \cup Failing,
                   used : BOOLEAN, turned : SUBSET {"plain", "browser"}]
    BY <2>1 DEF InitSite, NoVisit
  <2>3. site \in SiteStates
    BY DEF InitSite, SiteStates
  <2> QED BY <1>1, <2>1, <2>2, <2>3 DEF SiteTyped, InitSite
<1> QED BY <1>2, <1>3 DEF SiteInv, Counted, Came, Over, ListIsStored

\* What a request finds, and what it says of the site.
LEMMA AnswersAre ==
    ASSUME NEW means \in {"plain", "browser"}, NEW what \in {"page", "houses"},
           NEW a \in Answers(means, what), site.is \in {"open", "picky", "closed", "down", "erratic"}
    PROVE  /\ a \in {"ok"} \cup TurnedAway \cup Failing
           /\ a \in TurnedAway =>
                site.is \in {"closed", "erratic"} \/ (site.is = "picky" /\ means = "plain")
           /\ a \in Failing =>
                site.is \in {"down", "erratic"} \/ (a \in Retryable /\ visit.tries < Retries)
           /\ a = "ok" /\ what = "houses" =>
                site.is \in {"open", "erratic"} \/ (site.is = "picky" /\ means = "browser")
<1>1. CASE a \in Passing
  BY <1>1 DEF Passing, Retryable, TurnedAway, Failing
<1>2. CASE a \in Steady(means, what)
  <2>1. CASE site.is = "erratic"
    BY <1>2, <2>1 DEF Steady, Retryable, TurnedAway, Failing
  <2>2. CASE site.is = "down"
    BY <1>2, <2>2 DEF Steady, Retryable, TurnedAway, Failing
  <2>3. CASE site.is \in {"open", "picky", "closed"}
    BY <1>2, <2>3 DEF Steady, Retryable, TurnedAway, Failing
  <2> QED BY <2>1, <2>2, <2>3
<1> QED BY <1>1, <1>2 DEF Answers

\* What an answer does to a check.
LEMMA AnsweredIs ==
    ASSUME NEW next, NEW answer \in {"ok"} \cup TurnedAway \cup Failing, Answered(answer, next)
    PROVE  \/ answer = "ok" /\ visit' = [next EXCEPT !.tries = 0]
           \/ /\ answer \in Retryable /\ visit.tries < Retries
              /\ visit' = [visit EXCEPT !.tries = visit.tries + 1]
           \/ /\ answer \in TurnedAway /\ visit.at \in {"page", "houses"}
              /\ visit' = [visit EXCEPT !.at = "launch", !.tries = 0, !.block = answer,
                                        !.turned = visit.turned \cup {"plain"}]
           \/ /\ ~(answer \in Retryable /\ visit.tries < Retries)
              /\ answer \in TurnedAway \cup Failing
              /\ answer \in TurnedAway => visit.at \notin {"page", "houses"}
              /\ visit' = Throws(answer)
BY DEF Answered, Retried, Throws, NeedsBrowser, TurnedAway, Failing, Retryable
\* A failed request is made again.
LEMMA AgainStep ==
    ASSUME SiteConstants, SiteInv, visit.at \in {"page", "houses", "launch", "ask"},
           visit.tries < Retries, visit' = [visit EXCEPT !.tries = visit.tries + 1],
           UNCHANGED <<site, chromiums, list, hash, uploaded, doubtful, checks>>
    PROVE  SiteInv'
<1>1. SiteTyped /\ Retries \in Nat
  BY DEF SiteInv, SiteConstants
<1>2. visit.tries + 1 \in 0..Retries
  BY <1>1 DEF SiteTyped
<1>3. SiteTyped'
  BY <1>1, <1>2 DEF SiteTyped
<1>4. /\ visit'.at = visit.at /\ visit'.plain = visit.plain /\ visit'.block = visit.block
      /\ visit'.forced = visit.forced /\ visit'.turned = visit.turned
      /\ visit'.browser = visit.browser /\ visit'.used = visit.used
  BY <1>1 DEF SiteTyped
<1>5. Counted' /\ Came' /\ ListIsStored'
  BY <1>4 DEF SiteInv, Counted, Came, ListIsStored
<1>6. Over'
  BY <1>4 DEF Over
<1> QED BY <1>3, <1>5, <1>6 DEF SiteInv

\* A request that fails for good, or is turned away in the browser, ends the check.
LEMMA ThrownStep ==
    ASSUME SiteConstants, SiteInv, visit.at \in {"page", "houses", "launch", "ask"},
           NEW kind \in TurnedAway \cup Failing, NEW b \in BOOLEAN,
           ~(kind \in Retryable /\ visit.tries < Retries),
           kind \in TurnedAway =>
             /\ visit.at \notin {"page", "houses"}
             /\ site.is \in {"closed", "erratic"} /\ (site.browser \/ site.is = "erratic"),
           kind \in Failing => site.is \in {"down", "erratic"},
           visit' = [Throws(kind) EXCEPT !.browser = b], chromiums' = IF b THEN 1 ELSE 0,
           UNCHANGED <<site, list, hash, uploaded, doubtful, checks>>
    PROVE  SiteInv'
<1>1. SiteTyped /\ Retries \in Nat
  BY DEF SiteInv, SiteConstants
<1>2. PICK t \in SUBSET {"plain", "browser"} :
        /\ visit' = [visit EXCEPT !.at = "close", !.result = kind, !.turned = t, !.browser = b]
        /\ kind \in TurnedAway => "browser" \in t
  <2>1. CASE kind \in TurnedAway
    <3>1. visit' = [visit EXCEPT !.at = "close", !.result = kind,
                                 !.turned = visit.turned \cup {"browser"}, !.browser = b]
      BY <1>1, <2>1 DEF Throws, Ends, NeedsBrowser, SiteTyped
    <3>2. visit.turned \cup {"browser"} \in SUBSET {"plain", "browser"}
      BY <1>1 DEF SiteTyped
    <3> QED BY <3>1, <3>2
  <2>2. CASE kind \notin TurnedAway
    <3>1. visit' = [visit EXCEPT !.at = "close", !.result = kind, !.turned = visit.turned, !.browser = b]
      BY <1>1, <2>2 DEF Throws, Ends, NeedsBrowser, SiteTyped
    <3>2. visit.turned \in SUBSET {"plain", "browser"}
      BY <1>1 DEF SiteTyped
    <3> QED BY <2>2, <3>1, <3>2
  <2> QED BY <2>1, <2>2
<1>3. SiteTyped'
  <2>1. visit' \in [at : {"idle", "page", "houses", "launch", "ask", "close", "report"},
                    forced : BOOLEAN, plain : BOOLEAN, tries : 0..Retries,
                    block : {"none"} \cup TurnedAway, browser : BOOLEAN,
                    result : {"none", "ok", "error"} \cup TurnedAway \cup Failing,
                    used : BOOLEAN, turned : SUBSET {"plain", "browser"}]
    <3>1. [visit EXCEPT !.at = "close", !.result = kind, !.turned = t]
            \in [at : {"idle", "page", "houses", "launch", "ask", "close", "report"},
                 forced : BOOLEAN, plain : BOOLEAN, tries : 0..Retries,
                 block : {"none"} \cup TurnedAway, browser : BOOLEAN,
                 result : {"none", "ok", "error"} \cup TurnedAway \cup Failing,
                 used : BOOLEAN, turned : SUBSET {"plain", "browser"}]
      BY <1>1 DEF SiteTyped
    <3> QED BY <1>2, <3>1
  <2> QED BY <1>1, <2>1 DEF SiteTyped
<1>4. /\ visit'.at = "close" /\ visit'.result = kind /\ visit'.turned = t /\ visit'.browser = b
      /\ visit'.forced = visit.forced /\ visit'.tries = visit.tries
  BY <1>1, <1>2 DEF SiteTyped
<1>5. Counted' /\ Came' /\ ListIsStored'
  BY <1>4 DEF SiteInv, Counted, Came, ListIsStored
<1>6. kind # "none" /\ kind # "error" /\ kind # "ok"
  BY DEF TurnedAway, Failing, Retryable
<1>7. kind \in Retryable => visit.tries = Retries
  BY <1>1 DEF SiteTyped
<1>8. site.is # "erratic" =>
        /\ CameTo'.kind = ReadStreet(site, visit.forced).kind /\ CameTo'.kind # "ok"
  <2>1. SUFFICES ASSUME site.is # "erratic"
                 PROVE  /\ CameTo'.kind = ReadStreet(site, visit.forced).kind /\ CameTo'.kind # "ok"
    OBVIOUS
  <2>2. visit.forced \in BOOLEAN /\ site.browser \in BOOLEAN
    BY <1>1 DEF SiteTyped, SiteStates
  <2>3. CASE kind \in TurnedAway
    BY <1>4, <1>6, <2>1, <2>2, <2>3 DEF CameTo, ReadStreet, PlainRead, BrowserRead
  <2>4. CASE kind \in Failing
    <3>1. kind \notin TurnedAway
      BY <2>4 DEF TurnedAway, Failing, Retryable
    <3> QED BY <1>4, <1>6, <2>1, <2>2, <2>4, <3>1 DEF CameTo, ReadStreet, PlainRead, BrowserRead
  <2> QED BY <2>3, <2>4
<1>9. Over'
  BY <1>2, <1>4, <1>6, <1>7, <1>8 DEF Over
<1> QED BY <1>3, <1>5, <1>9 DEF SiteInv

\* Turned away as a plain check, it goes to a browser.
LEMMA TurnedStep ==
    ASSUME SiteConstants, SiteInv, visit.at \in {"page", "houses"}, NEW kind \in TurnedAway,
           site.is \in {"picky", "closed", "erratic"},
           visit' = [visit EXCEPT !.at = "launch", !.tries = 0, !.block = kind,
                                  !.turned = visit.turned \cup {"plain"}],
           UNCHANGED <<site, chromiums, list, hash, uploaded, doubtful, checks>>
    PROVE  SiteInv'
<1>1. SiteTyped /\ 0 \in 0..Retries
  BY DEF SiteInv, SiteConstants
<1>2. visit.turned \cup {"plain"} \in SUBSET {"plain", "browser"}
  BY <1>1 DEF SiteTyped
<1>3. SiteTyped'
  BY <1>1, <1>2 DEF SiteTyped
<1>4. /\ visit'.at = "launch" /\ visit'.block = kind /\ visit'.turned = visit.turned \cup {"plain"}
      /\ visit'.plain = visit.plain /\ visit'.forced = visit.forced
      /\ visit'.browser = visit.browser /\ visit'.used = visit.used
  BY <1>1 DEF SiteTyped
<1>5. Counted' /\ ListIsStored' /\ Over'
  BY <1>4 DEF SiteInv, Counted, ListIsStored, Over
<1>6. Came'
  BY <1>4 DEF SiteInv, Came
<1> QED BY <1>3, <1>5, <1>6 DEF SiteInv

\* The houses are read.
LEMMA ReadStep ==
    ASSUME SiteConstants, SiteInv, NEW u \in BOOLEAN,
           \/ visit.at = "houses" /\ ~u /\ site.is \in {"open", "erratic"}
           \/ visit.at = "ask" /\ u /\ site.is \in {"open", "picky", "erratic"},
           visit' = [visit EXCEPT !.at = "close", !.result = "ok", !.used = u, !.tries = 0],
           UNCHANGED <<site, chromiums, list, hash, uploaded, doubtful, checks>>
    PROVE  SiteInv'
<1>1. SiteTyped /\ 0 \in 0..Retries
  BY DEF SiteInv, SiteConstants
<1>2. SiteTyped'
  BY <1>1 DEF SiteTyped
<1>3. /\ visit'.at = "close" /\ visit'.result = "ok" /\ visit'.used = u
      /\ visit'.forced = visit.forced /\ visit'.browser = visit.browser
  BY <1>1 DEF SiteTyped
<1>4. Counted' /\ Came' /\ ListIsStored'
  BY <1>3 DEF SiteInv, Counted, Came, ListIsStored
<1>5. CameTo'.kind = "ok"
  BY <1>3 DEF CameTo, TurnedAway
<1>6. site.is # "erratic" => /\ "ok" = ReadStreet(site, visit.forced).kind
                             /\ u = ReadStreet(site, visit.forced).browser
  <2>1. visit.forced \in BOOLEAN /\ site.browser \in BOOLEAN
    BY <1>1 DEF SiteTyped, SiteStates
  <2>2. CASE visit.at = "houses"
    BY <2>1, <2>2 DEF SiteInv, Came, ReadStreet, PlainRead, BrowserRead
  <2>3. CASE visit.at = "ask"
    BY <2>1, <2>3 DEF SiteInv, Came, ReadStreet, PlainRead, BrowserRead
  <2> QED BY <2>2, <2>3
<1>7. Over'
  BY <1>3, <1>5, <1>6 DEF Over, TurnedAway, Retryable
<1> QED BY <1>2, <1>4, <1>7 DEF SiteInv
LEMMA StartStep ==
    ASSUME SiteConstants, SiteInv, NEW forced \in BOOLEAN, StartVisit(forced)
    PROVE  SiteInv'
<1>1. SiteTyped /\ MaxChecks \in Nat /\ 0 \in 0..Retries
  BY DEF SiteInv, SiteConstants
<1>2. visit' = [at |-> IF forced THEN "launch" ELSE "page", forced |-> forced, plain |-> ~forced,
                tries |-> 0, block |-> "none", browser |-> FALSE, result |-> "none",
                used |-> FALSE, turned |-> {}]
  BY DEF StartVisit, NoVisit
<1>3. checks' \in 0..MaxChecks
  BY <1>1 DEF StartVisit, SiteTyped
<1>4. visit' \in [at : {"idle", "page", "houses", "launch", "ask", "close", "report"},
                  forced : BOOLEAN, plain : BOOLEAN, tries : 0..Retries,
                  block : {"none"} \cup TurnedAway, browser : BOOLEAN,
                  result : {"none", "ok", "error"} \cup TurnedAway \cup Failing,
                  used : BOOLEAN, turned : SUBSET {"plain", "browser"}]
  <2>1. CASE forced
    BY <1>1, <1>2, <2>1
  <2>2. CASE ~forced
    BY <1>1, <1>2, <2>2
  <2> QED BY <2>1, <2>2
<1>5. SiteTyped'
  BY <1>1, <1>3, <1>4 DEF SiteTyped, StartVisit
<1>6. /\ forced => visit'.at = "launch" /\ ~visit'.plain /\ visit'.forced
      /\ ~forced => visit'.at = "page" /\ visit'.plain /\ ~visit'.forced
      /\ visit'.block = "none" /\ ~visit'.browser /\ ~visit'.used
  BY <1>2
<1>7. chromiums' = 0 /\ ListIsStored'
  BY DEF StartVisit, SiteInv, Counted, ListIsStored
<1>8. Counted' /\ Came' /\ Over'
  BY <1>6, <1>7 DEF Counted, Came, Over
<1> QED BY <1>5, <1>7, <1>8 DEF SiteInv

LEMMA SiteIs ==
    ASSUME SiteInv
    PROVE  /\ site.is \in {"open", "picky", "closed", "down", "erratic"} /\ visit.tries \in 0..Retries
           /\ visit \in [at : {"idle", "page", "houses", "launch", "ask", "close", "report"},
                  forced : BOOLEAN, plain : BOOLEAN, tries : 0..Retries,
                  block : {"none"} \cup TurnedAway, browser : BOOLEAN,
                  result : {"none", "ok", "error"} \cup TurnedAway \cup Failing,
                  used : BOOLEAN, turned : SUBSET {"plain", "browser"}]
           /\ visit.browser \in BOOLEAN /\ chromiums = IF visit.browser THEN 1 ELSE 0
BY DEF SiteInv, SiteTyped, Counted, SiteStates

\* What every request but the one that opens the browser's page does when it is
\* not answered.
LEMMA FailStep ==
    ASSUME SiteConstants, SiteInv, visit.at \in {"page", "houses", "ask"},
           NEW what \in {"page", "houses"}, NEW next,
           NEW a \in Answers(IF visit.at = "ask" THEN "browser" ELSE "plain", what), a # "ok",
           Answered(a, next),
           UNCHANGED <<site, chromiums, list, hash, uploaded, doubtful, checks>>
    PROVE  SiteInv'
<1> DEFINE means == IF visit.at = "ask" THEN "browser" ELSE "plain"
<1>1. /\ site.is \in {"open", "picky", "closed", "down", "erratic"} /\ visit.tries \in 0..Retries
      /\ visit.browser \in BOOLEAN /\ chromiums = IF visit.browser THEN 1 ELSE 0
  BY SiteIs
<1>2. means \in {"plain", "browser"} /\ (visit.at \in {"page", "houses"} <=> means = "plain")
  OBVIOUS
<1>3. /\ a \in TurnedAway \cup Failing
      /\ a \in TurnedAway =>
           site.is \in {"closed", "erratic"} \/ (site.is = "picky" /\ means = "plain")
      /\ a \in Failing => site.is \in {"down", "erratic"} \/ (a \in Retryable /\ visit.tries < Retries)
  BY <1>1, <1>2, AnswersAre
<1> HIDE DEF means
<1>4. \/ a \in Retryable /\ visit.tries < Retries /\ visit' = [visit EXCEPT !.tries = visit.tries + 1]
      \/ /\ a \in TurnedAway /\ visit.at \in {"page", "houses"}
         /\ visit' = [visit EXCEPT !.at = "launch", !.tries = 0, !.block = a,
                                   !.turned = visit.turned \cup {"plain"}]
      \/ /\ ~(a \in Retryable /\ visit.tries < Retries)
         /\ a \in TurnedAway => visit.at \notin {"page", "houses"}
         /\ visit' = Throws(a)
  BY <1>3, AnsweredIs
<1>5. CASE a \in Retryable /\ visit.tries < Retries /\ visit' = [visit EXCEPT !.tries = visit.tries + 1]
  BY <1>5, AgainStep
<1>6. CASE /\ a \in TurnedAway /\ visit.at \in {"page", "houses"}
           /\ visit' = [visit EXCEPT !.at = "launch", !.tries = 0, !.block = a,
                                     !.turned = visit.turned \cup {"plain"}]
  <2>1. site.is \in {"picky", "closed", "erratic"}
    BY <1>3, <1>6
  <2> QED BY <1>6, <2>1, TurnedStep
<1>7. CASE /\ ~(a \in Retryable /\ visit.tries < Retries)
           /\ a \in TurnedAway => visit.at \notin {"page", "houses"}
           /\ visit' = Throws(a)
  <2>1. visit' = [Throws(a) EXCEPT !.browser = visit.browser]
    BY <1>7, SiteIs DEF Throws, Ends
  <2>2. a \in TurnedAway => /\ visit.at = "ask" /\ site.is \in {"closed", "erratic"}
                            /\ site.browser \/ site.is = "erratic"
    BY <1>2, <1>3, <1>7 DEF SiteInv, Came
  <2>3. a \in Failing => site.is \in {"down", "erratic"}
    BY <1>3, <1>7
  <2>4. chromiums' = IF visit.browser THEN 1 ELSE 0
    BY <1>1
  <2>5. a \in TurnedAway => visit.at \notin {"page", "houses"}
    BY <1>7
  <2>6. ~(a \in Retryable /\ visit.tries < Retries)
    BY <1>7
  <2> QED BY <1>1, <1>3, <2>1, <2>2, <2>3, <2>4, <2>5, <2>6, ThrownStep
<1> QED BY <1>4, <1>5, <1>6, <1>7

LEMMA LoadStep ==
    ASSUME SiteConstants, SiteInv, LoadPage
    PROVE  SiteInv'
<1>1. PICK a \in Answers("plain", "page") : Answered(a, [visit EXCEPT !.at = "houses"])
  BY DEF LoadPage
<1>2. visit.at = "page" /\ UNCHANGED <<site, chromiums, list, hash, uploaded, doubtful, checks>>
  BY DEF LoadPage
<1>3. CASE a # "ok"
  BY <1>1, <1>2, <1>3, FailStep
<1>4. CASE a = "ok"
  <2>1. visit' = [visit EXCEPT !.at = "houses", !.tries = 0]
    BY <1>1, <1>4, SiteIs DEF Answered
  <2>2. SiteTyped /\ 0 \in 0..Retries
    BY DEF SiteInv, SiteConstants
  <2>3. SiteTyped'
    BY <1>2, <2>1, <2>2 DEF SiteTyped
  <2>4. /\ visit'.at = "houses" /\ visit'.plain = visit.plain /\ visit'.block = visit.block
        /\ visit'.forced = visit.forced /\ visit'.browser = visit.browser /\ visit'.used = visit.used
    BY <2>1, <2>2 DEF SiteTyped
  <2>5. Counted' /\ Came' /\ Over' /\ ListIsStored'
    BY <1>2, <2>4 DEF SiteInv, Counted, Came, Over, ListIsStored
  <2> QED BY <2>3, <2>5 DEF SiteInv
<1> QED BY <1>3, <1>4

LEMMA HousesStep ==
    ASSUME SiteConstants, SiteInv, Houses \/ AskInBrowser
    PROVE  SiteInv'
<1> DEFINE u == visit.at = "ask"
           next == IF u THEN [Ends("ok") EXCEPT !.used = TRUE] ELSE Ends("ok")
<1>1. /\ visit.at \in {"houses", "ask"}
      /\ UNCHANGED <<site, chromiums, list, hash, uploaded, doubtful, checks>>
  BY DEF Houses, AskInBrowser
<1>2. PICK a \in Answers(IF visit.at = "ask" THEN "browser" ELSE "plain", "houses") : Answered(a, next)
  <2>1. CASE Houses
    BY <2>1 DEF Houses
  <2>2. CASE AskInBrowser
    BY <2>2 DEF AskInBrowser
  <2> QED BY <2>1, <2>2
<1>3. CASE a # "ok"
  BY <1>1, <1>2, <1>3, FailStep
<1>4. CASE a = "ok"
  <2>1. visit' = [next EXCEPT !.tries = 0]
    BY <1>2, <1>4 DEF Answered
  <2>2. site.is \in {"open", "picky", "closed", "down", "erratic"}
    BY SiteIs
  <2>3. CASE visit.at = "houses"
    <3>1. "ok" \in Answers("plain", "houses")
      BY <1>2, <1>4, <2>3
    <3>2. site.is \in {"open", "erratic"}
      BY <2>2, <3>1, AnswersAre
    <3>3. visit' = [visit EXCEPT !.at = "close", !.result = "ok", !.used = FALSE, !.tries = 0]
      BY <2>1, <2>3, SiteIs DEF Ends, SiteInv, Came
    <3> QED BY <1>1, <2>3, <3>2, <3>3, ReadStep
  <2>4. CASE visit.at = "ask"
    <3>1. "ok" \in Answers("browser", "houses")
      BY <1>2, <1>4, <2>4
    <3>2. site.is \in {"open", "picky", "erratic"}
      BY <2>2, <3>1, AnswersAre
    <3>3. visit' = [visit EXCEPT !.at = "close", !.result = "ok", !.used = TRUE, !.tries = 0]
      BY <2>1, <2>4, SiteIs DEF Ends
    <3> QED BY <1>1, <2>4, <3>2, <3>3, ReadStep
  <2> QED BY <1>1, <2>3, <2>4
<1> QED BY <1>3, <1>4
\* The browser's page opens, or does not.
LEMMA LaunchStep ==
    ASSUME SiteConstants, SiteInv, Launch
    PROVE  SiteInv'
<1>1. /\ visit.at = "launch" /\ ~visit.browser /\ chromiums = 0
      /\ UNCHANGED <<site, list, hash, uploaded, doubtful, checks>>
  BY SiteIs DEF SiteInv, Counted, Launch
<1>2. PICK a \in Launches :
         /\ chromiums' = Running(a)
         /\ IF a = "nostart"
            THEN visit' = Ends(IF visit.block = "none" THEN "error" ELSE visit.block)
            ELSE IF a = "network" THEN Answered(a, visit)
            ELSE visit' = [(IF a = "ok" THEN [visit EXCEPT !.at = "ask", !.tries = 0]
                            ELSE Throws(a)) EXCEPT !.browser = TRUE]
  BY DEF Launch
<1>3. CASE a = "nostart"
  <2>1. /\ visit' = [visit EXCEPT !.at = "close",
                                  !.result = IF visit.block = "none" THEN "error" ELSE visit.block]
        /\ chromiums' = 0
    BY <1>1, <1>2, <1>3 DEF Ends, Running
  <2>2. ~site.browser
    BY <1>3 DEF Launches, PageAnswers, Answers, Steady, Passing, TurnedAway, Failing, Retryable
  <2>3. PICK r \in {"error"} \cup TurnedAway :
          /\ r = IF visit.block = "none" THEN "error" ELSE visit.block
          /\ visit' = [visit EXCEPT !.at = "close", !.result = r]
    BY <2>1, SiteIs
  <2>4. SiteTyped'
    BY <1>1, <2>3 DEF SiteInv, SiteTyped
  <2>5. /\ visit'.at = "close" /\ visit'.result = r /\ visit'.plain = visit.plain
        /\ visit'.forced = visit.forced /\ visit'.block = visit.block /\ ~visit'.browser
    BY <1>1, <2>3, SiteIs
  <2>6. Counted' /\ Came' /\ ListIsStored'
    BY <1>1, <2>1, <2>5 DEF SiteInv, Counted, Came, ListIsStored
  <2>7. r = "error" => ~visit.plain /\ visit.forced
    BY <1>1, <2>3 DEF SiteInv, Came, TurnedAway
  <2>8. r \in TurnedAway => visit.block = r /\ visit.plain /\ site.is \in {"picky", "closed", "erratic"}
    BY <1>1, <2>3 DEF SiteInv, Came, TurnedAway
  <2>9. site.is # "erratic" /\ r \in TurnedAway =>
          /\ CameTo'.kind = "turned" /\ ReadStreet(site, visit.forced).kind = "turned"
    <3>1. visit.forced \in BOOLEAN
      BY SiteIs
    <3>2. r \in TurnedAway => CameTo'.kind = "turned"
      BY <2>5 DEF CameTo, TurnedAway
    <3>3. site.is # "erratic" /\ r \in TurnedAway => ReadStreet(site, visit.forced).kind = "turned"
      BY <2>2, <2>8, <3>1 DEF ReadStreet, PlainRead
    <3> QED BY <3>2, <3>3
  <2>10. r # "none" /\ r \notin Retryable
    BY DEF TurnedAway, Retryable
  <2>11. r # "error" => r \in TurnedAway
    OBVIOUS
  <2>12. r \in TurnedAway => visit'.block # "none"
    BY <2>5, <2>8 DEF TurnedAway
  <2>13. Over'
    BY <1>1, <2>2, <2>5, <2>7, <2>9, <2>10, <2>11, <2>12 DEF Over
  <2> QED BY <2>4, <2>6, <2>13 DEF SiteInv
<1>4. ASSUME a # "nostart"
      PROVE  /\ a \in Answers("browser", "page") /\ a \in {"ok", "challenge", "network", "shape"}
             /\ site.browser \/ site.is = "erratic"
  <2>1. a \in PageAnswers /\ (site.browser \/ site.is = "erratic")
    BY <1>4 DEF Launches
  <2>2. a \in {"ok"} \cup TurnedAway \cup Failing
    BY <2>1, SiteIs, AnswersAre DEF PageAnswers
  <2> QED BY <2>1, <2>2 DEF PageAnswers, TurnedAway, Failing, Retryable
<1>5. ASSUME a # "nostart"
      PROVE  /\ a \in {"ok"} \cup TurnedAway \cup Failing
             /\ a \in TurnedAway => site.is \in {"closed", "erratic"}
             /\ a \in Failing => site.is \in {"down", "erratic"} \/ (a \in Retryable /\ visit.tries < Retries)
  BY <1>4, <1>5, SiteIs, AnswersAre
<1>6. CASE a = "network"
  <2>1. Answered(a, visit) /\ chromiums' = 0
    BY <1>1, <1>2, <1>6 DEF Running
  <2>2. a \in Retryable /\ a \in Failing /\ a \notin TurnedAway
    BY <1>6 DEF Retryable, Failing, TurnedAway
  <2>3. CASE visit.tries < Retries
    <3>1. visit' = [visit EXCEPT !.tries = visit.tries + 1]
      BY <1>6, <2>1, <2>2, <2>3 DEF Answered, Retried
    <3> QED BY <1>1, <2>1, <2>3, <3>1, AgainStep
  <2>4. CASE ~(visit.tries < Retries)
    <3>1. visit' = Throws(a)
      BY <1>6, <2>1, <2>4 DEF Answered, Retried
    <3>2. visit' = [Throws(a) EXCEPT !.browser = FALSE]
      BY <1>1, <1>6, <2>2, <3>1, SiteIs DEF Throws, Ends
    <3>3. site.is \in {"down", "erratic"}
      BY <1>5, <1>6, <2>2, <2>4
    <3> QED BY <1>1, <2>1, <2>2, <2>4, <3>2, <3>3, ThrownStep
  <2> QED BY <2>3, <2>4
<1>7. CASE a = "ok"
  <2>1. visit' = [visit EXCEPT !.at = "ask", !.tries = 0, !.browser = TRUE] /\ chromiums' = 1
    BY <1>1, <1>2, <1>7, SiteIs DEF Running
  <2>2. 0 \in 0..Retries
    BY DEF SiteConstants
  <2>3. SiteTyped'
    BY <1>1, <2>1, <2>2 DEF SiteInv, SiteTyped
  <2>4. /\ visit'.at = "ask" /\ visit'.browser /\ visit'.plain = visit.plain
        /\ visit'.block = visit.block /\ visit'.forced = visit.forced
        /\ visit'.turned = visit.turned /\ visit'.used = visit.used
    BY <2>1, SiteIs
  <2>5. Counted' /\ Came' /\ Over' /\ ListIsStored'
    BY <1>1, <1>4, <1>7, <2>1, <2>4 DEF SiteInv, Counted, Came, Over, ListIsStored
  <2> QED BY <2>3, <2>5 DEF SiteInv
<1>8. CASE a \notin {"nostart", "network", "ok"}
  <2>1. visit' = [Throws(a) EXCEPT !.browser = TRUE] /\ chromiums' = 1
    BY <1>1, <1>2, <1>8 DEF Running
  <2>2. a \in TurnedAway \cup Failing /\ a \notin Retryable
    BY <1>4, <1>8 DEF TurnedAway, Failing, Retryable
  <2> QED BY <1>1, <1>4, <1>5, <1>8, <2>1, <2>2, ThrownStep
<1> QED BY <1>3, <1>6, <1>7, <1>8

LEMMA CloseStep ==
    ASSUME SiteConstants, SiteInv, CloseBrowser
    PROVE  SiteInv'
<1>1. /\ visit.at = "close" /\ UNCHANGED <<site, list, hash, uploaded, doubtful, checks>>
      /\ chromiums' = 0
  BY SiteIs DEF CloseBrowser
<1>2. CASE visit.result = "error" /\ ~visit.plain
  <2>1. visit' = [at |-> "page", forced |-> visit.forced, plain |-> TRUE, tries |-> 0,
                  block |-> "none", browser |-> FALSE, result |-> "none", used |-> FALSE, turned |-> {}]
    BY <1>2 DEF CloseBrowser, NoVisit
  <2>2. 0 \in 0..Retries /\ visit.forced \in BOOLEAN
    BY SiteIs DEF SiteConstants
  <2>3. SiteTyped'
    BY <1>1, <2>1, <2>2 DEF SiteInv, SiteTyped
  <2>4. ~site.browser
    BY <1>1, <1>2 DEF SiteInv, Over
  <2>5. Counted' /\ Came' /\ Over' /\ ListIsStored'
    BY <1>1, <2>1, <2>4 DEF SiteInv, Counted, Came, Over, ListIsStored
  <2> QED BY <2>3, <2>5 DEF SiteInv
<1>3. CASE ~(visit.result = "error" /\ ~visit.plain)
  <2>1. visit' = [visit EXCEPT !.at = "report", !.browser = FALSE]
    BY <1>3 DEF CloseBrowser
  <2>2. SiteTyped'
    BY <1>1, <2>1 DEF SiteInv, SiteTyped
  <2>3. /\ visit'.at = "report" /\ ~visit'.browser /\ visit'.result = visit.result
        /\ visit'.turned = visit.turned /\ visit'.block = visit.block /\ visit'.tries = visit.tries
        /\ visit'.used = visit.used /\ visit'.forced = visit.forced
    BY <2>1, SiteIs
  <2>4. Counted' /\ Came' /\ ListIsStored'
    BY <1>1, <2>3 DEF SiteInv, Counted, Came, ListIsStored
  <2>5. CameTo' = CameTo
    BY <2>3 DEF CameTo
  <2>6. visit.result # "error"
    BY <1>1, <1>3 DEF SiteInv, Over
  <2>7. Over'
    BY <1>1, <2>3, <2>5, <2>6 DEF SiteInv, Over
  <2> QED BY <2>2, <2>4, <2>7 DEF SiteInv
<1> QED BY <1>2, <1>3

\* The report, with the street list when it is not the one last uploaded.
LEMMA ReportedStep ==
    ASSUME SiteConstants, SiteInv, Report
    PROVE  SiteInv'
<1>1. /\ visit.at = "report" /\ visit' = [visit EXCEPT !.at = "idle"]
      /\ UNCHANGED <<site, chromiums, list, checks>>
  BY DEF Report
<1>2. /\ {hash', uploaded'} \subseteq StreetLists \cup {NoList}
      /\ ListIsStored'
  <2>1. list \in StreetLists /\ {hash, uploaded} \subseteq StreetLists \cup {NoList} /\ ListIsStored
    BY DEF SiteInv, SiteTyped
  <2>2. CASE UNCHANGED <<hash, uploaded, doubtful>>
    BY <2>1, <2>2 DEF ListIsStored
  <2>3. ASSUME NEW taken \in BOOLEAN, NEW answered \in BOOLEAN, Upload(taken, answered)
        PROVE  {hash', uploaded'} \subseteq StreetLists \cup {NoList} /\ ListIsStored'
    BY <2>1, <2>3 DEF Upload, ListIsStored
  <2>4. UNCHANGED <<hash, uploaded, doubtful>> \/ \E t, h \in BOOLEAN : Upload(t, h)
    BY DEF Report
  <2> QED BY <2>2, <2>3, <2>4
<1>3. SiteTyped'
  BY <1>1, <1>2 DEF SiteInv, SiteTyped
<1>4. visit'.at = "idle" /\ visit'.browser = visit.browser
  BY <1>1, SiteIs
<1>5. Counted' /\ Came' /\ Over'
  BY <1>1, <1>4 DEF SiteInv, Counted, Came, Over
<1> QED BY <1>2, <1>3, <1>5 DEF SiteInv

LEMMA SiteStep ==
    ASSUME SiteConstants, SiteInv, [SiteNext]_siteVars
    PROVE  SiteInv'
<1>1. CASE SiteNext
  BY <1>1, StartStep, LoadStep, HousesStep, LaunchStep, CloseStep, ReportedStep DEF SiteNext
<1>2. CASE UNCHANGED siteVars
  BY <1>2 DEF siteVars, SiteInv, SiteTyped, Counted, Came, Over, ListIsStored, CameTo
<1> QED BY <1>1, <1>2

LEMMA SiteMeans ==
    ASSUME SiteInv
    PROVE  /\ SiteTypeOK /\ BrowserIsClosed /\ BrowserIsForBlocks /\ ListIsStored
           /\ ReadsAsPromised
<1>1. SiteTypeOK
  BY SiteIs DEF SiteInv, SiteTyped, SiteTypeOK
<1>2. BrowserIsClosed
  BY SiteIs DEF SiteInv, Counted, BrowserIsClosed
<1>3. BrowserIsForBlocks
  BY DEF SiteInv, Came, Over, BrowserIsForBlocks
<1>4. ReadsAsPromised
  <2>1. CameTo.browser = visit.used
    BY DEF CameTo
  <2>2. SUFFICES ASSUME visit.at = "report", site.is # "erratic"
                 PROVE  /\ CameTo.kind = ReadStreet(site, visit.forced).kind
                        /\ ReadStreet(site, visit.forced).kind = "ok"
                             => CameTo.browser = ReadStreet(site, visit.forced).browser
    BY DEF ReadsAsPromised
  <2> QED BY <2>1, <2>2 DEF SiteInv, Over
<1> QED BY <1>1, <1>2, <1>3, <1>4 DEF SiteInv

-----------------------------------------------------------------------------
(* The theorems.                                                           *)

\* Whatever the posts do, the rows have their types, a house has groups only
\* while it is found, and only what a check stored is applied or told
\* (OutageChecksService.ingest and apply, OutageSourcesService.put).
THEOREM OutageTyped == Spec => []TypeOK
<1>1. OInv => TypeOK
  <2> SUFFICES ASSUME Typed PROVE TypeOK
    BY DEF OInv
  <2>1. \A r \in Requests : /\ request[r].pc \in {"none", "open", "held", "done"}
                            /\ request[r].newer \in BOOLEAN
                            /\ request[r].before \in {"PENDING", "FOUND", "NOT_FOUND"}
    BY TypedIs DEF Request
  <2>2. source.address \in Addresses /\ source.groups \subseteq Groups
    BY DEF Typed
  <2>3. \A i \in DOMAIN events : events[i].start < events[i].end
    BY DEF Typed, Forward
  <2> QED BY <2>1, <2>2, <2>3 DEF Typed, TypeOK
<1> QED BY <1>1, Invariant, PTL

\* A check that is posted again, or whose copies are handled at once, is applied
\* once and told once: the key one request holds to its commit keeps the others
\* out (OutageChecksService.ingest); and the first check applied tells nothing.
THEOREM ChecksAreOnceEach == Spec => []OnceEach
<1>1. OInv => OnceEach
  BY DEF OInv
<1> QED BY <1>1, Invariant, PTL

\* From the moment of the check last applied the live events are what it showed:
\* what planEvents and mergeWindows leave of any events known before.
THEOREM EventsAreLastApplied == Spec => []EventsFollowLastApplied
<1>1. OInv => EventsFollowLastApplied
  BY DEF OInv
<1> QED BY <1>1, Invariant, PTL

\* Live events of a kind and status that are still to end never overlap: the
\* matching takes each known event once and leaves none it should withdraw.
THEOREM NothingBookedTwice == Spec => []NoDoubleBooking
<1>1. OInv => NoDoubleBooking
  BY DEF OInv
<1> QED BY <1>1, Invariant, PTL

\* While checks are applied in the order they were made, a version of a weekly
\* pattern differs from the one before it (OutageChecksService.apply).
THEOREM PatternsAreChanges == Spec => []PatternsChange
<1>1. OInv => PatternsChange
  BY DEF OInv
<1> QED BY <1>1, Invariant, PTL

LEMMA ReaderInvariant == OutageSpec => []ReaderInv
<1>1. OutageInit => ReaderInv
  BY ReaderConstants, ReaderInitial DEF OutageInit
<1>2. ReaderInv /\ [OutageNext]_<<part, vars, outageReaderVars, siteVars, clockVars, reminderVars>>
        => ReaderInv'
  BY ReaderConstants, ReaderStep DEF OutageNext
<1> QED BY <1>1, <1>2, PTL DEF OutageSpec

LEMMA SiteInvariant == OutageSpec => []SiteInv
<1>1. OutageInit => SiteInv
  BY SiteConstants, SiteInitial DEF OutageInit
<1>2. SiteInv /\ [OutageNext]_<<part, vars, outageReaderVars, siteVars, clockVars, reminderVars>>
        => SiteInv'
  BY SiteConstants, SiteStep DEF OutageNext
<1> QED BY <1>1, <1>2, PTL DEF OutageSpec

\* A check asked for in the app is made within two of the reader's polls, and what
\* its clock is behind, unless the reader was hindered meanwhile: a request outlives
\* every place of the loop but the one that reads for it (OutageSourcesService
\* .requestRefresh, waitForNextCheck).
THEOREM RefreshesAreServed == OutageSpec => []RefreshServed
<1>1. ReaderInv => RefreshServed
  BY ReaderConstants, ReaderMeans
<1> QED BY <1>1, ReaderInvariant, PTL

\* A reader turned away rests out its pause; after a round of the watch the
\* household knows whether the checks succeed; and a check comes to what the loop
\* takes it for whatever fails on its way, its browser closed and its street list
\* stored (nextCheckAt, OutageAvailability.check, readStreet, runCheck).
THEOREM ReaderIsHonest == OutageSpec => []ReaderHonest
<1>1. ReaderInv => OutageReaderTypeOK /\ BlockedRests /\ WatchTellsTruth
  BY ReaderConstants, ReaderMeans
<1>2. SiteInv => /\ SiteTypeOK /\ BrowserIsClosed /\ BrowserIsForBlocks /\ ListIsStored
                 /\ ReadsAsPromised
  BY SiteMeans
<1>3. ReaderInv /\ SiteInv => ReaderHonest
  BY <1>1, <1>2 DEF ReaderHonest
<1> QED BY <1>3, ReaderInvariant, SiteInvariant, PTL

-----------------------------------------------------------------------------
(* Windows, joined and cut.                                               *)

Statuses3 == {"off", "possible", "unknown"}
Sources2  == {"schedule", "weekly"}

\* Windows within [lo, hi), none of them empty.
WindowsIn(lo, hi) ==
    {w \in [start : Int, end : Int, status : Statuses3, source : Sources2] :
        lo <= w.start /\ w.start < w.end /\ w.end <= hi}

\* A window of a kind takes in an instant.
Shows(windows, origin, status, t) ==
    \E w \in windows : w.source = origin /\ w.status = status /\ w.start <= t /\ t < w.end

Apart(windows) ==
    \A v, w \in windows : SameKind(v, w) => v = w \/ v.end < w.start \/ w.end < v.start

\* A set of integers bounded below has a least member.
LEMMA LeastInteger ==
    ASSUME NEW S \in SUBSET Int, S # {}, NEW lo \in Int, \A n \in S : lo <= n
    PROVE  \E n \in S : \A m \in S : n <= m
<1> DEFINE T == {k \in Nat : lo + k \in S}
<1>1. PICK n \in S : TRUE
  OBVIOUS
<1>2. n \in Int /\ lo <= n
  OBVIOUS
<1>3. n - lo \in T
  BY <1>2
<1>4. T \in SUBSET Nat /\ T # {}
  BY <1>3
<1>5. PICK k \in T : \A j \in T : k <= j
  BY <1>4, LeastNumber
<1>6. ASSUME NEW m \in S
      PROVE  lo + k <= m
  <2>1. m \in Int /\ lo <= m
    OBVIOUS
  <2>2. m - lo \in T
    BY <2>1
  <2>3. k <= m - lo /\ k \in Nat
    BY <1>5, <2>2
  <2> QED BY <2>1, <2>3
<1> QED BY <1>5, <1>6

\* A set of integers bounded above has a greatest member.
LEMMA GreatestInteger ==
    ASSUME NEW S \in SUBSET Int, S # {}, NEW hi \in Int, \A n \in S : n <= hi
    PROVE  \E n \in S : \A m \in S : m <= n
<1> DEFINE T == {k \in Nat : hi - k \in S}
<1>1. PICK n \in S : TRUE
  OBVIOUS
<1>2. n \in Int /\ n <= hi
  OBVIOUS
<1>3. hi - n \in T
  BY <1>2
<1>4. T \in SUBSET Nat /\ T # {}
  BY <1>3
<1>5. PICK k \in T : \A j \in T : k <= j
  BY <1>4, LeastNumber
<1>6. ASSUME NEW m \in S
      PROVE  m <= hi - k
  <2>1. m \in Int /\ m <= hi
    OBVIOUS
  <2>2. hi - m \in T
    BY <2>1
  <2>3. k <= hi - m /\ k \in Nat
    BY <1>5, <2>2
  <2> QED BY <2>1, <2>3
<1> QED BY <1>5, <1>6

\* Of the windows there is one that starts first, and one that starts last.
LEMMA FirstWindow ==
    ASSUME NEW lo \in Int, NEW hi \in Int, NEW S, S \subseteq WindowsIn(lo, hi), S # {}
    PROVE  (\E w \in S : \A v \in S : w.start <= v.start) /\ (\E w \in S : \A v \in S : v.start <= w.start)
<1> DEFINE T == {w.start : w \in S}
<1>1. T \in SUBSET Int /\ T # {} /\ \A n \in T : lo <= n /\ n <= hi
  BY DEF WindowsIn
<1>2. PICK n \in T : \A m \in T : n <= m
  BY <1>1, LeastInteger
<1>3. PICK k \in T : \A m \in T : m <= k
  BY <1>1, GreatestInteger
<1>4. PICK w \in S : w.start = n
  BY <1>2
<1>5. PICK v \in S : v.start = k
  BY <1>3
<1>6. (\A u \in S : w.start <= u.start) /\ (\A u \in S : u.start <= v.start)
  BY <1>2, <1>3, <1>4, <1>5
<1> QED BY <1>6

\* Where the windows joined to one end.
EndOfAll(w, windows) == CHOOSE e \in {v.end : v \in JoinedTo(w, windows)} :
                            \A v \in JoinedTo(w, windows) : v.end <= e

\* The windows joined to one end at the end of one of them, the latest.
LEMMA EndIsOne ==
    ASSUME NEW lo \in Int, NEW hi \in Int, NEW S, S \subseteq WindowsIn(lo, hi), NEW w \in Beginning(S)
    PROVE  /\ w \in JoinedTo(w, S)
           /\ \A v \in JoinedTo(w, S) : v.end <= EndOfAll(w, S)
           /\ \E v \in JoinedTo(w, S) : v.end = EndOfAll(w, S)
<1> DEFINE J == JoinedTo(w, S)
           T == {v.end : v \in J}
<1>1. w \in S /\ w.start \in Int
  BY DEF Beginning, WindowsIn
<1>2. w \in J
  <2>1. SameKind(w, w) /\ w.start <= w.start
    BY <1>1 DEF SameKind
  <2> QED BY <1>1, <2>1 DEF JoinedTo
<1>3. J \subseteq WindowsIn(lo, hi)
  BY DEF JoinedTo
<1>4. T \in SUBSET Int /\ T # {} /\ \A n \in T : n <= hi
  BY <1>2, <1>3 DEF WindowsIn
<1>5. PICK n \in T : \A m \in T : m <= n
  BY <1>4, GreatestInteger
<1>6. \E e \in T : \A v \in J : v.end <= e
  BY <1>5
<1>7. EndOfAll(w, S) = CHOOSE e \in T : \A v \in J : v.end <= e
  BY DEF EndOfAll
<1>8. EndOfAll(w, S) \in T /\ \A v \in J : v.end <= EndOfAll(w, S)
  BY <1>6, <1>7
<1> QED BY <1>2, <1>8

\* What joining comes to: a window for each that begins one.
LEMMA JoinedWindows ==
    ASSUME NEW lo \in Int, NEW hi \in Int, NEW S, S \subseteq WindowsIn(lo, hi)
    PROVE  /\ joinWindows(S) \subseteq WindowsIn(lo, hi)
           /\ \A j \in joinWindows(S) : \E w \in Beginning(S) :
                 j = Window(w.start, EndOfAll(w, S), w.status, w.source)
           /\ \A w \in Beginning(S) : \E j \in joinWindows(S) :
                 j = Window(w.start, EndOfAll(w, S), w.status, w.source)
<1>1. joinWindows(S) = {Window(w.start, EndOfAll(w, S), w.status, w.source) : w \in Beginning(S)}
  BY DEF joinWindows, EndOfAll
<1>2. ASSUME NEW w \in Beginning(S)
      PROVE  Window(w.start, EndOfAll(w, S), w.status, w.source) \in WindowsIn(lo, hi)
  <2>1. w \in WindowsIn(lo, hi)
    BY DEF Beginning
  <2>2. PICK v \in JoinedTo(w, S) : v.end = EndOfAll(w, S)
    BY EndIsOne
  <2>3. v \in WindowsIn(lo, hi) /\ w \in JoinedTo(w, S)
    BY EndIsOne DEF JoinedTo
  <2>4. w.end <= EndOfAll(w, S)
    BY <2>3, EndIsOne
  <2>5. EndOfAll(w, S) \in Int /\ EndOfAll(w, S) <= hi /\ w.start < EndOfAll(w, S)
    BY <2>1, <2>2, <2>3, <2>4 DEF WindowsIn
  <2> QED BY <2>1, <2>5 DEF Window, WindowsIn
<1> QED BY <1>1, <1>2

\* Every window goes into one that begins, of its kind.
LEMMA GoesIntoOne ==
    ASSUME NEW lo \in Int, NEW hi \in Int, NEW S, S \subseteq WindowsIn(lo, hi), NEW w \in S
    PROVE  \E f \in Beginning(S) : w \in JoinedTo(f, S)
<1> DEFINE K == {v \in S : SameKind(v, w)}
           F == {f \in Beginning(S) : SameKind(f, w) /\ f.start <= w.start}
<1>0. \A v \in S : v.start \in Int
  BY DEF WindowsIn
<1>1. w \in K /\ K \subseteq WindowsIn(lo, hi)
  BY DEF SameKind
<1>2. PICK k \in K : \A v \in K : k.start <= v.start
  <2>1. K # {}
    BY <1>1
  <2> HIDE DEF K
  <2> QED BY <1>1, <2>1, FirstWindow
<1>3. k \in F
  <2>1. k \in S /\ SameKind(k, w) /\ k.start <= w.start
    BY <1>1, <1>2
  <2>2. ASSUME NEW v \in S, SameKind(v, k), v.start < k.start
        PROVE  ~Touches(k, v)
    <3>1. SameKind(v, w)
      BY <2>1, <2>2 DEF SameKind
    <3>2. v \in K
      BY <3>1
    <3>3. k.start <= v.start
      BY <1>2, <3>2
    <3> QED BY <1>0, <2>1, <2>2, <3>3
  <2> QED BY <2>1, <2>2 DEF Beginning
<1>4. PICK f \in F : \A g \in F : g.start <= f.start
  <2>1. F # {} /\ F \subseteq WindowsIn(lo, hi)
    BY <1>3 DEF Beginning
  <2> HIDE DEF F
  <2> QED BY <2>1, FirstWindow
<1>5. f \in S /\ f \in Beginning(S)
  BY DEF Beginning
<1>6. ASSUME NEW n \in Beginning(S), SameKind(n, f), f.start < n.start
      PROVE  w.start < n.start
  <2>1. SameKind(n, w) /\ n \in S
    BY <1>4, <1>6 DEF SameKind, Beginning
  <2>2. CASE n.start <= w.start
    <3>1. n \in F
      BY <2>1, <2>2
    <3>2. n.start <= f.start
      BY <1>4, <3>1
    <3> QED BY <1>0, <1>5, <1>6, <2>1, <3>2
  <2> QED BY <1>0, <2>1, <2>2
<1>7. SameKind(w, f) /\ f.start <= w.start
  BY <1>4 DEF SameKind
<1>8. w \in JoinedTo(f, S)
  BY <1>5, <1>6, <1>7 DEF JoinedTo
<1> QED BY <1>5, <1>8

\* What is joined to a window leaves no instant out.
LEMMA NoGaps ==
    ASSUME NEW lo \in Int, NEW hi \in Int, NEW S, S \subseteq WindowsIn(lo, hi),
           NEW f \in Beginning(S), NEW t \in Int, f.start <= t, t < EndOfAll(f, S)
    PROVE  \E w \in S : SameKind(w, f) /\ w.start <= t /\ t < w.end
<1> SUFFICES ASSUME ~\E w \in S : SameKind(w, f) /\ w.start <= t /\ t < w.end
             PROVE  FALSE
  OBVIOUS
<1> DEFINE X == {x \in JoinedTo(f, S) : t < x.start}
<1>0. f \in S /\ \A v \in S : v.start \in Int /\ v.end \in Int
  BY DEF WindowsIn, Beginning
<1>1. PICK v \in JoinedTo(f, S) : v.end = EndOfAll(f, S)
  BY EndIsOne
<1>2. v \in S /\ SameKind(v, f)
  BY DEF JoinedTo
<1>3. v \in X
  BY <1>0, <1>1, <1>2
<1>4. X # {} /\ X \subseteq WindowsIn(lo, hi)
  BY <1>3 DEF JoinedTo
<1>5. PICK x \in X : \A y \in X : x.start <= y.start
  <2> HIDE DEF X
  <2> QED BY <1>4, FirstWindow
<1>6. /\ x \in S /\ SameKind(x, f) /\ f.start <= x.start /\ t < x.start
      /\ \A n \in Beginning(S) : SameKind(n, f) /\ f.start < n.start => x.start < n.start
  BY <1>5 DEF JoinedTo
<1>7. x \notin Beginning(S)
  BY <1>0, <1>6
<1>8. PICK y \in S : SameKind(y, x) /\ y.start < x.start /\ x.start <= y.end
  BY <1>6, <1>7 DEF Beginning, Touches
<1>9. SameKind(y, f)
  BY <1>6, <1>8 DEF SameKind
<1>10. CASE y.start <= t
  <2>1. t < y.end
    BY <1>0, <1>6, <1>8
  <2> QED BY <1>8, <1>9, <1>10, <2>1
<1>11. CASE t < y.start
  <2>1. f.start <= y.start
    BY <1>0, <1>11, <1>8
  <2>2. ASSUME NEW n \in Beginning(S), SameKind(n, f), f.start < n.start
        PROVE  y.start < n.start
    <3>1. x.start < n.start /\ n \in S
      BY <1>6, <2>2 DEF Beginning
    <3> QED BY <1>0, <1>6, <1>8, <3>1
  <2>3. y \in X
    BY <1>8, <1>9, <1>11, <2>1, <2>2 DEF JoinedTo
  <2>4. x.start <= y.start
    BY <1>5, <2>3
  <2> QED BY <1>0, <1>6, <1>8, <2>4
<1> QED BY <1>0, <1>8, <1>10, <1>11

\* Joined, windows show what they showed, and no two of a kind touch.
LEMMA JoiningShows ==
    ASSUME NEW lo \in Int, NEW hi \in Int, NEW S, S \subseteq WindowsIn(lo, hi),
           NEW origin, NEW status, NEW t \in Int
    PROVE  Shows(joinWindows(S), origin, status, t) <=> Shows(S, origin, status, t)
<1>0. \A v \in S : v.start \in Int /\ v.end \in Int
  BY DEF WindowsIn
<1>1. ASSUME Shows(S, origin, status, t)
      PROVE  Shows(joinWindows(S), origin, status, t)
  <2>1. PICK w \in S : w.source = origin /\ w.status = status /\ w.start <= t /\ t < w.end
    BY <1>1 DEF Shows
  <2>2. PICK f \in Beginning(S) : w \in JoinedTo(f, S)
    BY GoesIntoOne
  <2>3. f \in S /\ SameKind(w, f) /\ f.start <= w.start
    BY <2>2 DEF JoinedTo, Beginning
  <2>4. w.end <= EndOfAll(f, S)
    BY <2>2, EndIsOne
  <2>5. PICK j \in joinWindows(S) : j = Window(f.start, EndOfAll(f, S), f.status, f.source)
    BY JoinedWindows
  <2>6. \E v \in S : v.end = EndOfAll(f, S)
    BY EndIsOne DEF JoinedTo
  <2>7. f.start <= t /\ t < EndOfAll(f, S)
    BY <1>0, <2>1, <2>3, <2>4, <2>6
  <2>8. j.source = origin /\ j.status = status /\ j.start <= t /\ t < j.end
    BY <2>1, <2>3, <2>5, <2>7 DEF Window, SameKind
  <2> QED BY <2>8 DEF Shows
<1>2. ASSUME Shows(joinWindows(S), origin, status, t)
      PROVE  Shows(S, origin, status, t)
  <2>1. PICK j \in joinWindows(S) : j.source = origin /\ j.status = status /\ j.start <= t /\ t < j.end
    BY <1>2 DEF Shows
  <2>2. PICK f \in Beginning(S) : j = Window(f.start, EndOfAll(f, S), f.status, f.source)
    BY JoinedWindows
  <2>3. f.start <= t /\ t < EndOfAll(f, S) /\ f.status = status /\ f.source = origin
    BY <2>1, <2>2 DEF Window
  <2>4. \E w \in S : SameKind(w, f) /\ w.start <= t /\ t < w.end
    BY <2>3, NoGaps
  <2> QED BY <2>3, <2>4 DEF Shows, SameKind
<1> QED BY <1>1, <1>2

\* Two joined windows of a kind neither meet nor touch.
LEMMA JoinedApart ==
    ASSUME NEW lo \in Int, NEW hi \in Int, NEW S, S \subseteq WindowsIn(lo, hi)
    PROVE  Apart(joinWindows(S))
<1>0. \A v \in S : v.start \in Int /\ v.end \in Int
  BY DEF WindowsIn
<1>1. ASSUME NEW f \in Beginning(S), NEW g \in Beginning(S), SameKind(f, g), f.start < g.start
      PROVE  EndOfAll(f, S) < g.start
  <2>1. PICK v \in JoinedTo(f, S) : v.end = EndOfAll(f, S)
    BY EndIsOne
  <2>2. SameKind(g, f)
    BY <1>1 DEF SameKind
  <2>3. v \in S /\ SameKind(v, f) /\ v.start < g.start
    BY <1>1, <2>2 DEF JoinedTo
  <2>4. SameKind(v, g)
    BY <1>1, <2>3 DEF SameKind
  <2>5. ~(g.start <= v.end) /\ g \in S
    BY <2>3, <2>4 DEF Beginning, Touches
  <2> QED BY <1>0, <2>1, <2>3, <2>5
<1>2. ASSUME NEW f \in Beginning(S), NEW g \in Beginning(S), SameKind(f, g), f.start = g.start
      PROVE  EndOfAll(f, S) = EndOfAll(g, S)
  <2>1. \A v : SameKind(v, f) <=> SameKind(v, g)
    BY <1>2 DEF SameKind
  <2>2. JoinedTo(f, S) = JoinedTo(g, S)
    BY <1>2, <2>1 DEF JoinedTo
  <2> QED BY <2>2 DEF EndOfAll
<1>3. ASSUME NEW v \in joinWindows(S), NEW w \in joinWindows(S), SameKind(v, w)
      PROVE  v = w \/ v.end < w.start \/ w.end < v.start
  <2>1. PICK f \in Beginning(S) : v = Window(f.start, EndOfAll(f, S), f.status, f.source)
    BY JoinedWindows
  <2>2. PICK g \in Beginning(S) : w = Window(g.start, EndOfAll(g, S), g.status, g.source)
    BY JoinedWindows
  <2>3. SameKind(f, g) /\ SameKind(g, f)
    BY <1>3, <2>1, <2>2 DEF SameKind, Window
  <2>4. f \in S /\ g \in S
    BY DEF Beginning
  <2>5. CASE f.start < g.start
    BY <1>1, <2>1, <2>2, <2>3, <2>5 DEF Window
  <2>6. CASE g.start < f.start
    BY <1>1, <2>1, <2>2, <2>3, <2>6 DEF Window
  <2>7. CASE f.start = g.start
    <3>1. EndOfAll(f, S) = EndOfAll(g, S)
      BY <1>2, <2>3, <2>7
    <3>2. f.status = g.status /\ f.source = g.source
      BY <2>3 DEF SameKind
    <3> QED BY <2>1, <2>2, <2>7, <3>1, <3>2
  <2> QED BY <1>0, <2>4, <2>5, <2>6, <2>7
<1> QED BY <1>3 DEF Apart

\* Cut, windows show what they showed between the ends, and stay apart.
LEMMA CuttingShows ==
    ASSUME NEW lo \in Int, NEW hi \in Int, NEW S, S \subseteq WindowsIn(lo, hi),
           NEW from \in Int, NEW to \in Int
    PROVE  /\ cutWindows(S, from, to) \subseteq WindowsIn(from, to)
           /\ \A origin, status : \A t \in from..(to - 1) :
                 Shows(cutWindows(S, from, to), origin, status, t) <=> Shows(S, origin, status, t)
           /\ Apart(S) => Apart(cutWindows(S, from, to))
<1> DEFINE Cut(v) == Window(Later(v.start, from), Earlier(v.end, to), v.status, v.source)
           C == cutWindows(S, from, to)
<1>0. ASSUME NEW v \in S
      PROVE  /\ v.start \in Int /\ v.end \in Int /\ v.start < v.end
             /\ v.status \in Statuses3 /\ v.source \in Sources2
  BY DEF WindowsIn
<1>1. ASSUME NEW v \in S
      PROVE  /\ Cut(v) \in [start : Int, end : Int, status : Statuses3, source : Sources2]
             /\ Cut(v).start = Later(v.start, from) /\ Cut(v).end = Earlier(v.end, to)
             /\ Cut(v).status = v.status /\ Cut(v).source = v.source
             /\ from <= Cut(v).start /\ Cut(v).end <= to
             /\ v.start <= Cut(v).start /\ Cut(v).end <= v.end
  BY <1>0 DEF Window, Later, Earlier
<1>2. C = {w \in {Cut(v) : v \in S} : w.start < w.end}
  BY DEF cutWindows
<1> HIDE DEF Cut, C
<1>3. C \subseteq WindowsIn(from, to)
  BY <1>1, <1>2 DEF WindowsIn
<1>4. ASSUME NEW origin, NEW status, NEW t \in from..(to - 1)
      PROVE  Shows(C, origin, status, t) <=> Shows(S, origin, status, t)
  <2>1. ASSUME NEW w \in C, w.source = origin, w.status = status, w.start <= t, t < w.end
        PROVE  Shows(S, origin, status, t)
    <3>1. PICK v \in S : w = Cut(v)
      BY <1>2
    <3>2. v.start <= t /\ t < v.end
      BY <1>0, <1>1, <2>1, <3>1
    <3> QED BY <1>1, <2>1, <3>1, <3>2 DEF Shows
  <2>2. ASSUME NEW v \in S, v.source = origin, v.status = status, v.start <= t, t < v.end
        PROVE  Shows(C, origin, status, t)
    <3>1. Cut(v).start <= t /\ t < Cut(v).end
      BY <1>0, <1>1, <2>2 DEF Later, Earlier
    <3>2. Cut(v).start \in Int /\ Cut(v).end \in Int
      BY <1>1
    <3>3. Cut(v) \in C
      BY <1>2, <3>1, <3>2
    <3> QED BY <1>1, <2>2, <3>1, <3>3 DEF Shows
  <2> QED BY <2>1, <2>2 DEF Shows
<1>5. ASSUME Apart(S), NEW v \in C, NEW w \in C, SameKind(v, w)
      PROVE  v = w \/ v.end < w.start \/ w.end < v.start
  <2>1. PICK a \in S : v = Cut(a)
    BY <1>2
  <2>2. PICK b \in S : w = Cut(b)
    BY <1>2
  <2>3. SameKind(a, b)
    BY <1>1, <1>5, <2>1, <2>2 DEF SameKind
  <2>4. a = b \/ a.end < b.start \/ b.end < a.start
    BY <1>5, <2>3 DEF Apart
  <2> QED BY <1>0, <1>1, <2>1, <2>2, <2>4
<1>6. Apart(S) => Apart(C)
  BY <1>5 DEF Apart
<1> QED BY <1>3, <1>4, <1>6 DEF C

\* Joining keeps the sources.

\* Joining keeps the sources.
LEMMA JoinedSource ==
    ASSUME NEW lo \in Int, NEW hi \in Int, NEW S, S \subseteq WindowsIn(lo, hi)
    PROVE  \A j \in joinWindows(S) : \E w \in S : j.source = w.source
<1> SUFFICES ASSUME NEW j \in joinWindows(S)
             PROVE  \E w \in S : j.source = w.source
  OBVIOUS
<1>1. PICK w \in Beginning(S) : j = Window(w.start, EndOfAll(w, S), w.status, w.source)
  BY JoinedWindows
<1>2. w \in S
  BY DEF Beginning
<1> QED BY <1>1, <1>2 DEF Window

\* Division and its remainder.
LEMMA DivMod ==
    ASSUME NEW n \in Nat \ {0}, NEW t \in Int
    PROVE  /\ t \div n \in Int /\ t % n \in 0..(n - 1) /\ t = n * (t \div n) + (t % n)
           /\ \A d \in Int : n * d <= t /\ t < n * d + n => t \div n = d /\ t % n = t - (n * d)
<1>1. t \div n \in Int /\ t % n \in 0..(n - 1) /\ t = n * (t \div n) + (t % n)
  OBVIOUS
<1>2. ASSUME NEW d \in Int, n * d <= t, t < n * d + n
      PROVE  t \div n = d /\ t % n = t - (n * d)
  <2> DEFINE q == t \div n
             r == t % n
  <2>1. q \in Int /\ r \in 0..(n - 1) /\ t = n * q + r
    BY <1>1
  <2> HIDE DEF q, r
  <2>2. CASE q < d
    <3>1. n * (q + 1) <= n * d
      BY <2>1, <2>2
    <3>2. n * (q + 1) = n * q + n
      BY <2>1
    <3> QED BY <1>2, <2>1, <3>1, <3>2
  <2>3. CASE d < q
    <3>1. n * (d + 1) <= n * q
      BY <2>1, <2>3
    <3>2. n * (d + 1) = n * d + n
      BY <2>1
    <3> QED BY <1>2, <2>1, <3>1, <3>2
  <2>4. CASE q = d
    BY <2>1, <2>4 DEF q, r
  <2> QED BY <2>1, <2>2, <2>3, <2>4
<1> QED BY <1>1, <1>2

\* What a slot's status says of its hour.
LEMMA Pieces ==
    ASSUME NEW slot \in SlotStatus
    PROVE  /\ Piece(slot)[1] \in {0, 1} /\ Piece(slot)[2] \in {1, 2}
           /\ Piece(slot)[1] < Piece(slot)[2] /\ Piece(slot)[3] \in Statuses3
           /\ Piece(slot)[2] = 1 <=> slot \in {"first", "mfirst"}
BY DEF Piece, SlotStatus, Statuses3

-----------------------------------------------------------------------------
(* The forecast and the reminders.                                        *)

\* A day begins and ends within the days modelled.
LEMMA DayNumbers ==
    /\ DayLen \in Nat \ {0} /\ LastTime \in Nat \ {0} /\ Hours \in Nat \ {0} /\ NDays \in Nat \ {0}
    /\ DayLen = 2 * Hours /\ LastTime = NDays * DayLen
    /\ \A d \in AllDays : d \in Nat /\ d * DayLen \in Nat /\ d * DayLen + DayLen <= LastTime
                          /\ (d + 1) * DayLen = d * DayLen + DayLen
<1>1. Hours \in Nat \ {0} /\ NDays \in Nat \ {0}
  BY ForecastConstants
<1>2. DayLen \in Nat \ {0} /\ LastTime \in Nat \ {0}
  <2>1. DayLen \in Nat \ {0}
    BY <1>1 DEF DayLen
  <2>2. LastTime = NDays * DayLen
    BY DEF LastTime
  <2> HIDE DEF DayLen
  <2>3. NDays * DayLen \in Nat \ {0}
    BY <1>1, <2>1
  <2> QED BY <2>1, <2>2, <2>3
<1>3. ASSUME NEW d \in AllDays
      PROVE  d \in Nat /\ d * DayLen \in Nat /\ d * DayLen + DayLen <= LastTime /\ (d + 1) * DayLen = d * DayLen + DayLen
  <2>1. d \in Nat /\ d + 1 <= NDays
    BY <1>1 DEF AllDays
  <2> DEFINE n == DayLen
  <2>2. n \in Nat
    BY <1>2
  <2> HIDE DEF n
  <2>3. d * n \in Nat /\ (d + 1) * n = d * n + n /\ (d + 1) * n <= NDays * n
    BY <1>1, <2>1, <2>2
  <2> QED BY <1>2, <2>1, <2>2, <2>3 DEF n, LastTime
<1> QED BY <1>1, <1>2, <1>3 DEF DayLen, LastTime

\* An instant's day, hour and half.
LEMMA InItsDay ==
    ASSUME NEW t \in Nat, t < LastTime
    PROVE  DateOf(t) \in AllDays /\ DateOf(t) * DayLen <= t /\ t < DateOf(t) * DayLen + DayLen
<1> DEFINE n == DayLen
           q == t \div n
<1>0. n \in Nat \ {0} /\ NDays \in Nat /\ LastTime = NDays * n
  BY DayNumbers
<1>1. q \in Int /\ t % n \in 0..(n - 1) /\ t = n * q + (t % n)
  BY <1>0, DivMod
<1>2. q = DateOf(t)
  BY DEF DateOf
<1> HIDE DEF n, q
<1>3. n * q <= t /\ t < n * q + n
  BY <1>0, <1>1
<1>4. n * q = q * n
  BY <1>0, <1>1
<1>5. q >= 0
  <2>1. ASSUME q <= -1
        PROVE  FALSE
    <3>1. n * q <= n * (-1)
      BY <1>0, <1>1, <2>1
    <3> QED BY <1>0, <1>1, <1>3, <3>1
  <2> QED BY <1>1, <2>1
<1>6. q < NDays
  <2>1. ASSUME NDays <= q
        PROVE  FALSE
    <3>1. n * NDays <= n * q
      BY <1>0, <1>1, <2>1
    <3>2. n * NDays = NDays * n
      BY <1>0
    <3> QED BY <1>0, <1>1, <1>3, <3>1, <3>2
  <2> QED BY <1>0, <1>1, <2>1
<1> QED BY <1>0, <1>1, <1>2, <1>3, <1>4, <1>5, <1>6 DEF n, AllDays

\* An instant of a day is of that day only.
LEMMA InOneDay ==
    ASSUME NEW t \in Int, NEW d \in AllDays, d * DayLen <= t, t < d * DayLen + DayLen
    PROVE  DateOf(t) = d /\ t % DayLen = t - (d * DayLen)
<1> DEFINE n == DayLen
<1>0. n \in Nat \ {0} /\ d \in Int
  BY DayNumbers
<1>1. \A e \in Int : n * e <= t /\ t < n * e + n => t \div n = e /\ t % n = t - (n * e)
  BY <1>0, DivMod
<1>2. DateOf(t) = t \div n
  BY DEF DateOf
<1>3. d * n <= t /\ t < d * n + n
  OBVIOUS
<1> HIDE DEF n
<1>4. n * d = d * n
  BY <1>0
<1> QED BY <1>0, <1>1, <1>2, <1>3, <1>4 DEF n

\* A later instant is of the same date or a later one.
LEMMA DatesGrow ==
    ASSUME NEW s \in Int, NEW t \in Int, s <= t
    PROVE  DateOf(s) \in Int /\ DateOf(t) \in Int /\ DateOf(s) <= DateOf(t)
<1> DEFINE n == DayLen
           p == s \div n
           q == t \div n
<1>0. n \in Nat \ {0}
  BY DayNumbers
<1>1. p \in Int /\ s % n \in 0..(n - 1) /\ s = n * p + (s % n)
  BY <1>0, DivMod
<1>2. q \in Int /\ t % n \in 0..(n - 1) /\ t = n * q + (t % n)
  BY <1>0, DivMod
<1>3. p = DateOf(s) /\ q = DateOf(t)
  BY DEF DateOf
<1> HIDE DEF n, p, q
<1>4. n * p <= s /\ t < n * q + n
  BY <1>0, <1>1, <1>2
<1>5. ASSUME q + 1 <= p
      PROVE  FALSE
  <2>1. n * (q + 1) <= n * p /\ n * (q + 1) = n * q + n
    BY <1>0, <1>1, <1>2, <1>5
  <2> QED BY <1>0, <1>1, <1>2, <1>4, <2>1
<1> QED BY <1>1, <1>2, <1>3, <1>5

\* The windows of a day, before they are joined.
DayPieces(date, hours, origin) ==
    {Window(date * DayLen + 2 * h + Piece(hours[h])[1], date * DayLen + 2 * h + Piece(hours[h])[2],
            Piece(hours[h])[3], origin) : h \in {i \in DOMAIN hours : hours[i] # "yes"}}

DaySlots == [0..(Hours - 1) -> SlotStatus]

\* The window of an hour's slot lies in its day.
LEMMA PieceInDay ==
    ASSUME NEW date \in AllDays, NEW hours \in DaySlots, NEW origin \in Sources2
    PROVE  /\ DayPieces(date, hours, origin) \subseteq WindowsIn(date * DayLen, date * DayLen + DayLen)
           /\ \A w \in DayPieces(date, hours, origin) : w.source = origin
<1>1. ASSUME NEW h \in DOMAIN hours
      PROVE  LET w == Window(date * DayLen + 2 * h + Piece(hours[h])[1],
                             date * DayLen + 2 * h + Piece(hours[h])[2], Piece(hours[h])[3], origin)
             IN  w \in WindowsIn(date * DayLen, date * DayLen + DayLen) /\ w.source = origin
  <2> DEFINE p == Piece(hours[h])
             b == date * DayLen
  <2>1. h \in 0..(Hours - 1) /\ hours[h] \in SlotStatus
    BY DEF DaySlots
  <2>2. p[1] \in {0, 1} /\ p[2] \in {1, 2} /\ p[1] < p[2] /\ p[3] \in Statuses3
    BY <2>1, Pieces
  <2>3. b \in Nat /\ DayLen = 2 * Hours /\ Hours \in Nat
    BY DayNumbers
  <2> HIDE DEF p, b
  <2>4. /\ b + 2 * h + p[1] \in Int /\ b + 2 * h + p[2] \in Int
        /\ b <= b + 2 * h + p[1] /\ b + 2 * h + p[1] < b + 2 * h + p[2]
        /\ b + 2 * h + p[2] <= b + DayLen
    BY <2>1, <2>2, <2>3
  <2>5. Window(b + 2 * h + p[1], b + 2 * h + p[2], p[3], origin) \in WindowsIn(b, b + DayLen)
    BY <2>2, <2>4 DEF Window, WindowsIn
  <2>6. Window(b + 2 * h + p[1], b + 2 * h + p[2], p[3], origin).source = origin
    BY DEF Window
  <2> QED BY <2>5, <2>6 DEF p, b
<1> QED BY <1>1 DEF DayPieces

\* The windows of a day's slots show what its slots say.
LEMMA PiecesShow ==
    ASSUME NEW date \in AllDays, NEW hours \in DaySlots, NEW origin \in Sources2, NEW src, NEW status, NEW t \in Int
    PROVE  Shows(DayPieces(date, hours, origin), src, status, t)
           <=> /\ src = origin /\ date * DayLen <= t /\ t < date * DayLen + DayLen
               /\ status \in HalfOf(hours, t)
<1> DEFINE b == date * DayLen
           Begin(i) == Piece(hours[i])[1]
           Until(i) == Piece(hours[i])[2]
           W(i) == Window(b + 2 * i + Begin(i), b + 2 * i + Until(i), Piece(hours[i])[3], origin)
           h == (t % DayLen) \div 2
<1>1. b \in Nat /\ DayLen = 2 * Hours /\ Hours \in Nat \ {0} /\ date \in Nat
  BY DayNumbers
<1>2. b = 2 * (date * Hours)
  BY <1>1
<1>3. DOMAIN hours = 0..(Hours - 1) /\ \A i \in 0..(Hours - 1) : hours[i] \in SlotStatus
  BY DEF DaySlots
<1>4. \A i \in 0..(Hours - 1) : Begin(i) \in {0, 1} /\ Until(i) \in {1, 2} /\ Begin(i) < Until(i)
  BY <1>3, Pieces
<1>5. DayPieces(date, hours, origin) = {W(i) : i \in {j \in DOMAIN hours : hours[j] # "yes"}}
  BY DEF DayPieces
<1>6. /\ W(0).source = origin
      /\ \A i : /\ W(i).start = b + 2 * i + Begin(i) /\ W(i).end = b + 2 * i + Until(i)
                /\ W(i).status = Piece(hours[i])[3] /\ W(i).source = origin
  BY DEF Window
<1>7. ASSUME b <= t, t < b + DayLen
      PROVE  /\ h \in 0..(Hours - 1) /\ t = b + 2 * h + (t % 2) /\ t % 2 \in {0, 1}
             /\ \A i \in 0..(Hours - 1) : b + 2 * i <= t /\ t < b + 2 * i + 2 => i = h
  <2>1. t % DayLen = t - b
    BY <1>7, InOneDay
  <2> DEFINE r == t - b
             m == date * Hours
  <2>2. r \in 0..(2 * Hours - 1)
    BY <1>1, <1>7
  <2>3. h = r \div 2
    BY <2>1
  <2>4. m \in Int /\ b = 2 * m
    BY <1>1, <1>2
  <2> HIDE DEF m, h, b
  <2>5. r \div 2 \in 0..(Hours - 1) /\ r = 2 * (r \div 2) + (r % 2) /\ r % 2 \in {0, 1}
    BY <1>1, <2>2
  <2>6. t % 2 = r % 2
    BY <2>4, <1>1
  <2> HIDE DEF r
  <2>7. t = b + r
    BY <1>1 DEF r
  <2> QED BY <1>1, <2>2, <2>3, <2>5, <2>6, <2>7
<1> HIDE DEF W, b, h, Begin, Until
<1>8. ASSUME Shows(DayPieces(date, hours, origin), src, status, t)
      PROVE  src = origin /\ b <= t /\ t < b + DayLen /\ status \in HalfOf(hours, t)
  <2>1. PICK i \in DOMAIN hours : /\ hours[i] # "yes" /\ W(i).source = src /\ W(i).status = status
                                  /\ W(i).start <= t /\ t < W(i).end
    BY <1>5, <1>8 DEF Shows
  <2>2. i \in 0..(Hours - 1) /\ src = origin /\ b + 2 * i + Begin(i) <= t /\ t < b + 2 * i + Until(i)
    BY <1>3, <1>6, <2>1
  <2>3. b <= t /\ t < b + DayLen /\ b + 2 * i <= t /\ t < b + 2 * i + 2
    BY <1>1, <1>4, <2>2
  <2>4. i = h /\ t = b + 2 * h + (t % 2) /\ t % 2 \in {0, 1}
    BY <1>7, <2>2, <2>3
  <2>5. t % 2 \in Begin(i)..(Until(i) - 1)
    BY <1>1, <1>4, <2>2, <2>4
  <2>6. status = Piece(hours[i])[3]
    BY <1>6, <2>1
  <2>7. HalfOf(hours, t) = {status}
    BY <2>1, <2>4, <2>5, <2>6 DEF HalfOf, h, Begin, Until
  <2> QED BY <2>2, <2>3, <2>7
<1>9. ASSUME src = origin, b <= t, t < b + DayLen, status \in HalfOf(hours, t)
      PROVE  Shows(DayPieces(date, hours, origin), src, status, t)
  <2>1. h \in 0..(Hours - 1) /\ t = b + 2 * h + (t % 2) /\ t % 2 \in {0, 1}
    BY <1>7, <1>9
  <2>2. hours[h] # "yes" /\ t % 2 \in Begin(h)..(Until(h) - 1) /\ status = Piece(hours[h])[3]
    BY <1>9 DEF HalfOf, h, Begin, Until
  <2>3. W(h) \in DayPieces(date, hours, origin)
    BY <1>3, <1>5, <2>1, <2>2
  <2>4. b + 2 * h + Begin(h) <= t /\ t < b + 2 * h + Until(h)
    BY <1>1, <1>4, <2>1, <2>2
  <2>5. W(h).source = src /\ W(h).status = status /\ W(h).start <= t /\ t < W(h).end
    BY <1>6, <1>9, <2>2, <2>4
  <2> QED BY <2>3, <2>5 DEF Shows
<1> QED BY <1>8, <1>9 DEF b

\* The windows of a day show what its hours say, and no more.
LEMMA DayShows ==
    ASSUME NEW date \in AllDays, NEW hours \in DaySlots, NEW origin \in Sources2
    PROVE  /\ dayWindows(date, hours, origin) \subseteq WindowsIn(date * DayLen, date * DayLen + DayLen)
           /\ \A w \in dayWindows(date, hours, origin) : w.source = origin
           /\ Apart(dayWindows(date, hours, origin))
           /\ \A src, status : \A t \in Int :
                 Shows(dayWindows(date, hours, origin), src, status, t)
                 <=> /\ src = origin /\ date * DayLen <= t /\ t < date * DayLen + DayLen
                     /\ status \in HalfOf(hours, t)
<1> DEFINE P == DayPieces(date, hours, origin)
           b == date * DayLen
<1>1. dayWindows(date, hours, origin) = joinWindows(P)
  BY DEF dayWindows, DayPieces
<1>2. b \in Int /\ b + DayLen \in Int
  BY DayNumbers
<1>3. P \subseteq WindowsIn(b, b + DayLen) /\ \A w \in P : w.source = origin
  BY PieceInDay
<1>4. \A src, status : \A t \in Int : Shows(P, src, status, t)
          <=> src = origin /\ b <= t /\ t < b + DayLen /\ status \in HalfOf(hours, t)
  BY PiecesShow
<1> HIDE DEF P, b
<1>5. joinWindows(P) \subseteq WindowsIn(b, b + DayLen)
  BY <1>2, <1>3, JoinedWindows
<1>6. \A w \in joinWindows(P) : w.source = origin
  BY <1>2, <1>3, JoinedSource
<1>7. Apart(joinWindows(P))
  BY <1>2, <1>3, JoinedApart
<1>8. \A src, status : \A t \in Int : Shows(joinWindows(P), src, status, t) <=> Shows(P, src, status, t)
  BY <1>2, <1>3, JoiningShows
<1> QED BY <1>1, <1>4, <1>5, <1>6, <1>7, <1>8 DEF b

-----------------------------------------------------------------------------
WeeksTyped == weeks \subseteq [AllDays -> DayPatterns]

UncoveredDays(from, to) == (DateOf(from)..DateOf(to)) \intersect (AllDays \ covered)
\* A pattern's windows on a day, within the range and the day.
OnDay(week, d, from, to) == weeklyWindows(week, d, Later(d * DayLen, from), Earlier((d + 1) * DayLen, to))
WeeklyPieces(from, to) == UNION {OnDay(week, d, from, to) : week \in weeks, d \in UncoveredDays(from, to)}

\* A pattern's windows on a day show what its slots say, within the range.
LEMMA OnDayShows ==
    ASSUME NEW week \in [AllDays -> DayPatterns], NEW d \in AllDays, NEW from \in Int, NEW to \in Int
    PROVE  /\ OnDay(week, d, from, to) \subseteq WindowsIn(from, to)
           /\ \A w \in OnDay(week, d, from, to) : w.source = "weekly"
           /\ \A status : \A t \in from..(to - 1) :
                 Shows(OnDay(week, d, from, to), "weekly", status, t)
                 <=> d * DayLen <= t /\ t < d * DayLen + DayLen /\ status \in HalfOf(week[d], t)
<1> DEFINE b == d * DayLen
           S == dayWindows(d, week[d], "weekly")
           f == Later(b, from)
           e == Earlier(b + DayLen, to)
           C == cutWindows(S, f, e)
<1>1. b \in Nat /\ DayLen \in Nat /\ (d + 1) * DayLen = b + DayLen
  BY DayNumbers
<1>2. week[d] \in DaySlots
  BY ForecastConstants DEF DaySlots
<1>3. S \subseteq WindowsIn(b, b + DayLen) /\ (\A w \in S : w.source = "weekly")
  BY <1>2, DayShows DEF Sources2
<1>4. \A src, status : \A t \in Int :
         Shows(S, src, status, t)
         <=> src = "weekly" /\ b <= t /\ t < b + DayLen /\ status \in HalfOf(week[d], t)
  BY <1>2, DayShows DEF Sources2
<1>5. OnDay(week, d, from, to) = C
  BY <1>1 DEF OnDay, weeklyWindows
<1>6. f \in Int /\ e \in Int /\ from <= f /\ e <= to /\ b <= f /\ e <= b + DayLen /\ b + DayLen \in Int
  BY <1>1 DEF Later, Earlier
<1>7. \A t \in from..(to - 1) : b <= t /\ t < b + DayLen => t \in f..(e - 1)
  BY <1>1 DEF Later, Earlier
<1> HIDE DEF b, S, f, e
<1>8. /\ C \subseteq WindowsIn(f, e)
      /\ \A src, status : \A t \in f..(e - 1) : Shows(C, src, status, t) <=> Shows(S, src, status, t)
  <2> DEFINE h == b + DayLen
  <2>1. b \in Int /\ h \in Int /\ f \in Int /\ e \in Int
    BY <1>1, <1>6
  <2>2. S \subseteq WindowsIn(b, h)
    BY <1>3
  <2> HIDE DEF h
  <2>3. cutWindows(S, f, e) \subseteq WindowsIn(f, e)
    BY <2>1, <2>2, CuttingShows
  <2>4. \A src, status : \A t \in f..(e - 1) :
            Shows(cutWindows(S, f, e), src, status, t) <=> Shows(S, src, status, t)
    BY <2>1, <2>2, CuttingShows
  <2> QED BY <2>3, <2>4
<1>9. C \subseteq WindowsIn(from, to)
  BY <1>6, <1>8 DEF WindowsIn
<1>10. ASSUME NEW w \in C
       PROVE  w.source = "weekly"
  <2>1. PICK v \in S : w = Window(Later(v.start, f), Earlier(v.end, e), v.status, v.source)
    BY DEF cutWindows
  <2> QED BY <1>3, <2>1 DEF Window
<1>11. ASSUME NEW status, NEW t \in from..(to - 1)
       PROVE  Shows(C, "weekly", status, t) <=> b <= t /\ t < b + DayLen /\ status \in HalfOf(week[d], t)
  <2>1. ASSUME Shows(C, "weekly", status, t)
        PROVE  b <= t /\ t < b + DayLen
    <3>1. PICK w \in C : w.start <= t /\ t < w.end
      BY <2>1 DEF Shows
    <3>2. w.start \in Int /\ w.end \in Int /\ f <= w.start /\ w.end <= e
      BY <1>8 DEF WindowsIn
    <3> QED BY <1>1, <1>6, <3>1, <3>2
  <2>2. ASSUME b <= t, t < b + DayLen
        PROVE  Shows(C, "weekly", status, t) <=> status \in HalfOf(week[d], t)
    <3>1. t \in f..(e - 1)
      BY <1>7, <2>2
    <3>2. Shows(C, "weekly", status, t) <=> Shows(S, "weekly", status, t)
      BY <1>8, <3>1
    <3> QED BY <1>4, <2>2, <3>2
  <2> QED BY <2>1, <2>2
<1> HIDE DEF C
<1> QED BY <1>5, <1>9, <1>10, <1>11 DEF b

\* The weekly windows of a range show what the patterns say on its uncovered
\* days, and no more.
LEMMA WeeklyShows ==
    ASSUME WeeksTyped, NEW from \in Nat, NEW to \in Int
    PROVE  /\ uncoveredWeekly(from, to) \subseteq WindowsIn(from, to)
           /\ \A w \in uncoveredWeekly(from, to) : w.source = "weekly"
           /\ Apart(uncoveredWeekly(from, to))
           /\ \A status : \A t \in from..(to - 1) : t < LastTime =>
                 (Shows(uncoveredWeekly(from, to), "weekly", status, t)
                  <=> DateOf(t) \notin covered /\ \E week \in weeks : status \in HalfOf(week[DateOf(t)], t))
<1> DEFINE P == WeeklyPieces(from, to)
<1>1. uncoveredWeekly(from, to) = joinWindows(P)
  BY DEF uncoveredWeekly, WeeklyPieces, OnDay, UncoveredDays
<1>2. /\ P \subseteq WindowsIn(from, to)
      /\ \A w \in P : w.source = "weekly"
  <2>1. ASSUME NEW week \in weeks, NEW d \in UncoveredDays(from, to)
        PROVE  /\ OnDay(week, d, from, to) \subseteq WindowsIn(from, to)
               /\ \A w \in OnDay(week, d, from, to) : w.source = "weekly"
    <3>1. week \in [AllDays -> DayPatterns] /\ d \in AllDays
      BY DEF WeeksTyped, UncoveredDays
    <3> QED BY <3>1, OnDayShows
  <2> QED BY <2>1 DEF WeeklyPieces
<1>3. ASSUME NEW status, NEW t \in from..(to - 1), t < LastTime
      PROVE  Shows(P, "weekly", status, t)
             <=> DateOf(t) \notin covered /\ \E week \in weeks : status \in HalfOf(week[DateOf(t)], t)
  <2>0. t \in Nat /\ LastTime \in Nat /\ from <= t /\ t <= to
    BY <1>3, DayNumbers
  <2>1. DateOf(t) \in AllDays /\ DateOf(t) * DayLen <= t /\ t < DateOf(t) * DayLen + DayLen
    BY <1>3, <2>0, InItsDay
  <2>2. \A week \in weeks : \A d \in UncoveredDays(from, to) : Shows(OnDay(week, d, from, to), "weekly", status, t)
          <=> d * DayLen <= t /\ t < d * DayLen + DayLen /\ status \in HalfOf(week[d], t)
    <3>1. ASSUME NEW week \in weeks, NEW d \in UncoveredDays(from, to)
          PROVE  Shows(OnDay(week, d, from, to), "weekly", status, t)
                 <=> d * DayLen <= t /\ t < d * DayLen + DayLen /\ status \in HalfOf(week[d], t)
      <4>1. week \in [AllDays -> DayPatterns] /\ d \in AllDays
        BY DEF WeeksTyped, UncoveredDays
      <4> QED BY <4>1, OnDayShows
    <3> QED BY <3>1
  <2>3. Shows(P, "weekly", status, t)
        <=> \E week \in weeks : \E d \in UncoveredDays(from, to) : Shows(OnDay(week, d, from, to), "weekly", status, t)
    BY DEF Shows, WeeklyPieces
  <2>4. \A d \in UncoveredDays(from, to) : d * DayLen <= t /\ t < d * DayLen + DayLen => d = DateOf(t)
    BY InOneDay DEF UncoveredDays
  <2>5. DateOf(t) \in UncoveredDays(from, to) <=> DateOf(t) \notin covered
    <3>1. DateOf(from) <= DateOf(t) /\ DateOf(from) \in Int /\ DateOf(t) \in Int
      BY <2>0, DatesGrow
    <3>2. DateOf(t) <= DateOf(to) /\ DateOf(to) \in Int
      BY <2>0, DatesGrow
    <3> QED BY <2>1, <3>1, <3>2 DEF UncoveredDays
  <2> QED BY <2>1, <2>2, <2>3, <2>4, <2>5
<1> HIDE DEF P
<1>4. joinWindows(P) \subseteq WindowsIn(from, to)
  BY <1>2, JoinedWindows
<1>5. \A w \in joinWindows(P) : w.source = "weekly"
  BY <1>2, JoinedSource
<1>6. Apart(joinWindows(P))
  BY <1>2, JoinedApart
<1>7. \A src, status : \A t \in Int : Shows(joinWindows(P), src, status, t) <=> Shows(P, src, status, t)
  BY <1>2, JoiningShows
<1> QED BY <1>1, <1>3, <1>4, <1>5, <1>6, <1>7

-----------------------------------------------------------------------------
SomeWindows ==
    {w \in [start : Int, end : Int, status : Statuses3, source : Sources2] : w.start < w.end}

OutagesTyped ==
    /\ outages \subseteq WindowsIn(0, LastTime) /\ Apart(outages)
    /\ \A e \in outages : e.source = "schedule"

\* What the schedule says of a unit, of each kind.
LEMMA SaysOf ==
    ASSUME NEW t \in Nat
    PROVE  /\ \A s \in Says(t) : s = <<s[1], s[2]>>
           /\ \A status : <<"weekly", status>> \in Says(t)
                 <=> DateOf(t) \notin covered /\ \E week \in weeks : status \in HalfOf(week[DateOf(t)], t)
           /\ \A status : <<"schedule", status>> \in Says(t)
                 <=> \E e \in outages : e.status = status /\ e.start <= t /\ t < e.end
           /\ \A s \in Says(t) : s[1] \in Sources2
BY DEF Says, Sources2

\* The forecast is of windows, apart and within what was asked for.
LEMMA ForecastWindows ==
    ASSUME WeeksTyped, OutagesTyped, NEW from \in Nat, NEW to \in Int
    PROVE  /\ getOutageForecast(from, to) \subseteq SomeWindows
           /\ \A w \in getOutageForecast(from, to) :
                 IF w.source = "weekly" THEN w \in uncoveredWeekly(from, to) ELSE w \in outages
<1>1. /\ uncoveredWeekly(from, to) \subseteq WindowsIn(from, to)
      /\ \A w \in uncoveredWeekly(from, to) : w.source = "weekly"
  BY WeeklyShows
<1>2. uncoveredWeekly(from, to) \subseteq SomeWindows
  BY <1>1 DEF WindowsIn, SomeWindows
<1>3. outages \subseteq SomeWindows /\ \A e \in outages : e.source = "schedule"
  BY DEF WindowsIn, SomeWindows, OutagesTyped
<1>4. \A w \in getOutageForecast(from, to) : w \in outages \/ w \in uncoveredWeekly(from, to)
  BY DEF getOutageForecast, buildForecast
<1> QED BY <1>1, <1>2, <1>3, <1>4

\* The forecast of an instant is the schedule's, or the patterns' on a day not covered.
LEMMA ForecastSays ==
    ASSUME WeeksTyped, OutagesTyped, NEW from \in Nat, NEW to \in Int, NEW t \in from..(to - 1), t < LastTime,
           NEW origin \in Sources2, NEW status
    PROVE  <<origin, status>> \in Says(t) <=> Shows(getOutageForecast(from, to), origin, status, t)
<1> DEFINE F == getOutageForecast(from, to)
           U == uncoveredWeekly(from, to)
           E == {e \in outages : e.start < to /\ e.end > from}
<1>0. t \in Nat /\ from <= t /\ t < to
  OBVIOUS
<1>1. F = E \union U
  BY DEF getOutageForecast, buildForecast
<1>2. \A w \in U : w.source = "weekly"
  BY WeeklyShows
<1>3. Shows(U, "weekly", status, t)
      <=> DateOf(t) \notin covered /\ \E week \in weeks : status \in HalfOf(week[DateOf(t)], t)
  BY WeeklyShows
<1>4. \A e \in outages : e.source = "schedule" /\ e.start \in Int /\ e.end \in Int
  BY DEF OutagesTyped, WindowsIn
<1>5. <<"weekly", status>> \in Says(t) <=> Shows(U, "weekly", status, t)
  BY <1>0, <1>3, SaysOf
<1>6. <<"schedule", status>> \in Says(t) <=> Shows(E, "schedule", status, t)
  <2>1. \A e \in outages : e.start <= t /\ t < e.end => e.start < to /\ e.end > from
    BY <1>0, <1>4
  <2>2. Shows(E, "schedule", status, t) <=> \E e \in outages : e.status = status /\ e.start <= t /\ t < e.end
    BY <1>4, <2>1 DEF Shows
  <2> QED BY <1>0, <2>2, SaysOf
<1>7. Shows(F, "weekly", status, t) <=> Shows(U, "weekly", status, t)
  BY <1>1, <1>2, <1>4 DEF Shows
<1>8. Shows(F, "schedule", status, t) <=> Shows(E, "schedule", status, t)
  BY <1>1, <1>2, <1>4 DEF Shows
<1> QED BY <1>5, <1>6, <1>7, <1>8 DEF Sources2

\* The forecast of a range is what the schedule and the patterns say of each instant.
LEMMA ForecastRight ==
    ASSUME WeeksTyped, OutagesTyped, at \in Nat, at < LastTime
    PROVE  ForecastIsSchedule
<1> DEFINE ws == getOutageForecast(at, LastTime)
<1>0. LastTime \in Nat
  BY DayNumbers
<1>1. ws \subseteq SomeWindows
      /\ \A w \in ws : IF w.source = "weekly" THEN w \in uncoveredWeekly(at, LastTime) ELSE w \in outages
  BY <1>0, ForecastWindows
<1>2. ASSUME NEW t \in at..(LastTime - 1)
      PROVE  Says(t) = {<<w.source, w.status>> : w \in {v \in ws : v.start <= t /\ t < v.end}}
  <2>1. t \in Nat /\ t < LastTime
    BY <1>0
  <2>2. \A origin \in Sources2 : \A status :
           <<origin, status>> \in Says(t) <=> Shows(ws, origin, status, t)
    <3>1. ASSUME NEW origin \in Sources2, NEW status
          PROVE  <<origin, status>> \in Says(t) <=> Shows(ws, origin, status, t)
      BY <1>0, <2>1, ForecastSays
    <3> QED BY <3>1
  <2>3. \A s \in Says(t) : s = <<s[1], s[2]>> /\ s[1] \in Sources2
    BY <2>1, SaysOf
  <2>4. \A w \in ws : w.source \in Sources2
    BY <1>1 DEF SomeWindows
  <2> HIDE DEF ws
  <2>5. ASSUME NEW s \in Says(t)
        PROVE  \E w \in ws : w.start <= t /\ t < w.end /\ s = <<w.source, w.status>>
    <3>1. Shows(ws, s[1], s[2], t)
      BY <2>2, <2>3
    <3> QED BY <2>3, <3>1 DEF Shows
  <2>6. ASSUME NEW w \in ws, w.start <= t, t < w.end
        PROVE  <<w.source, w.status>> \in Says(t)
    <3>1. Shows(ws, w.source, w.status, t)
      BY <2>6 DEF Shows
    <3> QED BY <2>2, <2>4, <3>1
  <2> QED BY <2>5, <2>6
<1>3. ASSUME NEW v \in ws, NEW w \in ws, v.source = w.source, v.status = w.status
      PROVE  v.end # w.start
  <2>1. v = w \/ v.end < w.start \/ w.end < v.start
    <3>1. SameKind(v, w)
      BY <1>3 DEF SameKind
    <3>2. CASE v.source = "weekly"
      <4>1. v \in uncoveredWeekly(at, LastTime) /\ w \in uncoveredWeekly(at, LastTime)
        BY <1>1, <1>3, <3>2
      <4>2. Apart(uncoveredWeekly(at, LastTime))
        BY <1>0, WeeklyShows
      <4> QED BY <3>1, <4>1, <4>2 DEF Apart
    <3>3. CASE v.source # "weekly"
      <4>1. v \in outages /\ w \in outages
        BY <1>1, <1>3, <3>3
      <4> QED BY <3>1, <4>1 DEF Apart, OutagesTyped
    <3> QED BY <3>2, <3>3
  <2>2. /\ v.start \in Int /\ v.end \in Int /\ v.start < v.end
        /\ w.start \in Int /\ w.end \in Int /\ w.start < w.end
    BY <1>1 DEF SomeWindows
  <2> QED BY <2>1, <2>2
<1> QED BY <1>2, <1>3 DEF ForecastIsSchedule

\* Of finitely many lead times there is a longest.
LEMMA LongestLead ==
    ASSUME Users # {}
    PROVE  MaxLead \in Nat /\ \A u \in Users : Lead[u] <= MaxLead
<1> DEFINE T == {Lead[u] : u \in Users}
           R == {p \in Nat \X Nat : p[1] < p[2]}
<1>1. IsFiniteSet(Users) /\ \A u \in Users : Lead[u] \in Nat
  BY ForecastConstants
<1>2. T # {} /\ T \subseteq Nat
  BY <1>1
<1>3. IsFiniteSet(T)
  <2> DEFINE f == [u \in Users |-> Lead[u]]
  <2>1. f \in Surjection(Users, T)
    BY DEF Surjection
  <2> QED BY <1>1, <2>1, FS_Surjection
<1>4. StrictOn(T, R)
  BY <1>2 DEF StrictOn
<1> HIDE DEF T, R
<1>5. /\ Cardinality(T) \in Nat
      /\ \A x \in T : Cardinality(Below(T, R, x)) \in 0..(Cardinality(T) - 1)
      /\ \A x, y \in T : <<x, y>> \in R <=> Cardinality(Below(T, R, x)) < Cardinality(Below(T, R, y))
      /\ \A i \in 0..(Cardinality(T) - 1) : \E x \in T : Cardinality(Below(T, R, x)) = i
  BY <1>3, <1>4, Ranked
<1>6. Cardinality(T) # 0
  BY <1>2, <1>3, FS_EmptySet
<1>7. PICK n \in T : Cardinality(Below(T, R, n)) = Cardinality(T) - 1
  BY <1>5, <1>6
<1>8. \A m \in T : m <= n
  <2>1. ASSUME NEW m \in T, n < m
        PROVE  FALSE
    <3>1. <<n, m>> \in R
      BY <1>2, <2>1 DEF R
    <3> QED BY <1>5, <1>7, <3>1
  <2> QED BY <1>2, <2>1
<1>9. n \in T /\ \A u \in Users : Lead[u] <= n
  BY <1>8 DEF T
<1>10. MaxLead \in T /\ \A u \in Users : Lead[u] <= MaxLead
  BY <1>9 DEF MaxLead, T
<1> QED BY <1>2, <1>10

-----------------------------------------------------------------------------
Marks == Users \X Sources2 \X Statuses3 \X Int
Tellings  == [user : Users, window : SomeWindows, at : Nat, known : SUBSET AllDays, blind : Nat]

RemindersTyped ==
    /\ at \in Nat /\ at < LastTime /\ calm \in 0..LastTime /\ started \in BOOLEAN
    /\ changes \in 0..MaxChanges /\ mishaps \in 0..MaxFaults /\ blind \in 0..mishaps
    /\ covered \subseteq AllDays /\ WeeksTyped /\ OutagesTyped
    /\ sent \subseteq Marks /\ reminded \subseteq Tellings

\* The first round is silent, a mark is made in its user's lead time, and of
\* one made since all was calm its user was told.
MarksAreTold ==
    /\ ~started => at <= calm
    /\ \A k \in sent : k[4] - Lead[k[1]] < at
    /\ \A k \in sent : calm < k[4] - Lead[k[1]] /\ Lead[k[1]] < k[4] =>
          \E r \in reminded : /\ r.user = k[1] /\ r.window.source = k[2]
                              /\ r.window.status = k[3] /\ r.window.start = k[4]

\* What begins at T is marked for a user from their lead time before it.
Foreseen(T, u, s) ==
    /\ T - Lead[u] < at /\ at <= T /\ T < LastTime /\ calm < T - Lead[u] /\ Lead[u] < T
    /\ s \in Says(T) /\ s \notin Says(T - 1) /\ Wanted(Window(T, T, s[2], s[1]), u)
StartsAreMarked ==
    \A u \in Users : \A T \in Int : \A s : Foreseen(T, u, s) => <<u, s[1], s[2], T>> \in sent

\* What a window is of begins at T; it does no more, and cannot again; what of
\* it, once it has begun somewhere, stays so.
KindOf(w) == <<w.source, w.status>>
Begins(T, s) == s \in Says(T) /\ s \notin Says(T - 1)
Gone(w) == IF w.source = "weekly" THEN KindOf(w) \notin Says(w.start) ELSE KindOf(w) \in Says(w.start - 1)
Stays(w) == IF w.source = "weekly" THEN KindOf(w) \notin Says(w.start - 1) ELSE KindOf(w) \in Says(w.start)

\* A reminder was due in its round.
WasDue(r) ==
    /\ r.at < at /\ r.at < r.window.start /\ r.window.start - r.at <= Lead[r.user]
    /\ r.window.start < LastTime /\ Wanted(r.window, r.user)
    /\ r.known \subseteq covered /\ r.blind <= blind /\ Stays(r.window)
\* Until its start its window is marked, or gone; and all that begins with it is
\* marked, until a day is confirmed.
Remembered(r) ==
    started /\ r.blind = blind /\ at < r.window.start =>
        /\ Mark(r.user, r.window) \in sent \/ Gone(r.window)
        /\ r.known = covered =>
              \A s : Begins(r.window.start, s) /\ Wanted(Window(0, 0, s[2], s[1]), r.user)
                        => <<r.user, s[1], s[2], r.window.start>> \in sent
TellingsKept == \A r \in reminded : WasDue(r) /\ Remembered(r)

RemindersInv == RemindersTyped /\ MarksAreTold /\ StartsAreMarked /\ TellingsKept /\ RemindedOnce

\* Forgetting old marks keeps those of windows still to come.
LEMMA ForgetKeeps ==
    ASSUME NEW marks, marks \subseteq Marks
    PROVE  Forget(marks) = {k \in marks : k[4] >= at - DayLen}
<1>1. \A k \in marks : Len(k) = 4
  BY DEF Marks
<1> QED BY <1>1 DEF Forget

\* The invariant is what the run checks.
LEMMA RemindersInvImplies ==
    ASSUME RemindersInv
    PROVE  RemindersTypeOK /\ ForecastIsSchedule /\ RemindedInTime /\ RemindedOnce
<1>0. LastTime \in Nat /\ \A u \in Users : Lead[u] \in Nat \ {0}
  BY DayNumbers, ForecastConstants
<1>1. RemindersTypeOK
  <2>1. weeks \subseteq [AllDays -> DayPatterns]
    BY DEF RemindersInv, RemindersTyped, WeeksTyped
  <2>2. \A e \in outages : e.start < e.end /\ e.source = "schedule"
    BY DEF RemindersInv, RemindersTyped, OutagesTyped, WindowsIn
  <2>3. \A k \in sent : k[1] \in Users /\ k[2] \in {"schedule", "weekly"}
    BY DEF RemindersInv, RemindersTyped, Marks, Sources2
  <2>4. \A r \in reminded : r.user \in Users /\ r.window.start < r.window.end
    BY DEF RemindersInv, RemindersTyped, Tellings, SomeWindows
  <2> QED BY <1>0, <2>1, <2>2, <2>3, <2>4 DEF RemindersTypeOK, RemindersInv, RemindersTyped
<1>2. ForecastIsSchedule
  BY ForecastRight DEF RemindersInv, RemindersTyped
<1>3. RemindedInTime
  <2>1. ASSUME NEW u \in Users, calm < at - Lead[u], Lead[u] < at, NEW s \in Says(at),
               StartsHere(s), Wanted(Window(at, at, s[2], s[1]), u)
        PROVE  \E r \in reminded : /\ r.user = u /\ r.window.start = at
                                   /\ s = <<r.window.source, r.window.status>>
    <3>1. at \in Nat /\ at < LastTime /\ calm \in Nat /\ at - Lead[u] < at
      BY <1>0 DEF RemindersInv, RemindersTyped
    <3>2. Foreseen(at, u, s)
      BY <2>1, <3>1 DEF Foreseen, StartsHere
    <3>3. <<u, s[1], s[2], at>> \in sent
      BY <3>1, <3>2 DEF RemindersInv, StartsAreMarked
    <3> DEFINE k == <<u, s[1], s[2], at>>
    <3>4. k \in sent /\ k[1] = u /\ k[2] = s[1] /\ k[3] = s[2] /\ k[4] = at
      BY <3>3
    <3> HIDE DEF k
    <3>5. PICK r \in reminded : /\ r.user = u /\ r.window.source = s[1]
                                /\ r.window.status = s[2] /\ r.window.start = at
      BY <2>1, <3>4 DEF RemindersInv, MarksAreTold
    <3>6. s = <<s[1], s[2]>>
      BY <2>1, <3>1, SaysOf
    <3> QED BY <3>5, <3>6
  <2> QED BY <2>1 DEF RemindedInTime
<1>4. RemindedOnce
  BY DEF RemindersInv
<1> QED BY <1>1, <1>2, <1>3, <1>4

LEMMA RemindersInitInv == InitReminders => RemindersInv
<1> SUFFICES ASSUME InitReminders PROVE RemindersInv
  OBVIOUS
<1>1. LastTime \in Nat \ {0} /\ MaxChanges \in Nat /\ MaxFaults \in Nat /\ \A u \in Users : Lead[u] \in Nat
  BY DayNumbers, ForecastConstants
<1>2. WeeksTyped /\ OutagesTyped
  BY DEF InitReminders, WeeksTyped, OutagesTyped, Apart
<1>3. RemindersTyped
  <2>1. at \in Nat /\ at < LastTime /\ calm \in 0..LastTime /\ started \in BOOLEAN
    <3>1. at = 0 /\ calm = 0 /\ started = FALSE
      BY DEF InitReminders
    <3>2. LastTime \in Nat \ {0} => 0 < LastTime /\ 0 \in 0..LastTime
      OBVIOUS
    <3>3. started \in BOOLEAN
      BY <3>1
    <3> QED BY <1>1, <3>1, <3>2, <3>3
  <2>2. changes \in 0..MaxChanges /\ mishaps \in 0..MaxFaults /\ blind \in 0..mishaps
    BY <1>1 DEF InitReminders
  <2>3. covered \subseteq AllDays /\ sent \subseteq Marks /\ reminded \subseteq Tellings
    BY DEF InitReminders
  <2> QED BY <1>2, <2>1, <2>2, <2>3 DEF RemindersTyped
<1>4. MarksAreTold
  BY DEF InitReminders, MarksAreTold
<1>5. StartsAreMarked
  BY <1>1 DEF InitReminders, StartsAreMarked, Foreseen
<1>6. TellingsKept /\ RemindedOnce
  BY DEF InitReminders, TellingsKept, RemindedOnce
<1> QED BY <1>3, <1>4, <1>5, <1>6 DEF RemindersInv

\* A round of the reminders finds what is foreseen.
LEMMA FindsForeseen ==
    ASSUME RemindersTyped, NEW u \in Users, NEW T \in Int, NEW s,
           T - Lead[u] <= at, at < T, T < LastTime, s \in Says(T), s \notin Says(T - 1),
           Wanted(Window(T, T, s[2], s[1]), u)
    PROVE  \E w \in getOutageForecast(at, at + MaxLead + 1) :
              /\ <<u, w>> \in remindersDue(getOutageForecast(at, at + MaxLead + 1))
              /\ w.source = s[1] /\ w.status = s[2] /\ w.start = T
<1> DEFINE to == at + MaxLead + 1
           F == getOutageForecast(at, to)
<1>1. at \in Nat /\ MaxLead \in Nat /\ Lead[u] <= MaxLead /\ Lead[u] \in Nat /\ T \in Nat /\ T - 1 \in Nat
  BY LongestLead, ForecastConstants DEF RemindersTyped
<1>2. to \in Nat /\ T < to /\ T \in at..(to - 1) /\ T - 1 \in at..(to - 1) /\ T - 1 < LastTime
  BY <1>1, DayNumbers
<1>3. s = <<s[1], s[2]>> /\ s[1] \in Sources2
  BY <1>1, SaysOf
<1> HIDE DEF to
<1>4. Shows(F, s[1], s[2], T) /\ ~Shows(F, s[1], s[2], T - 1)
  <2>1. \A t \in at..(to - 1) : t < LastTime =>
           \A origin \in Sources2 : \A status : <<origin, status>> \in Says(t) <=> Shows(F, origin, status, t)
    <3>1. ASSUME NEW t \in at..(to - 1), t < LastTime, NEW origin \in Sources2, NEW status
          PROVE  <<origin, status>> \in Says(t) <=> Shows(F, origin, status, t)
      BY <1>1, <1>2, <3>1, ForecastSays DEF RemindersTyped
    <3> QED BY <3>1
  <2> QED BY <1>2, <1>3, <2>1
<1>5. F \subseteq SomeWindows
  BY <1>1, <1>2, ForecastWindows DEF RemindersTyped
<1> HIDE DEF F
<1>6. PICK w \in F : w.source = s[1] /\ w.status = s[2] /\ w.start <= T /\ T < w.end
  BY <1>4 DEF Shows
<1>7. w.start \in Int /\ w.end \in Int
  BY <1>5 DEF SomeWindows
<1>8. w.start = T
  <2>1. ~(w.start <= T - 1 /\ T - 1 < w.end)
    BY <1>4, <1>6 DEF Shows
  <2> QED BY <1>1, <1>6, <1>7, <2>1
<1>9. Wanted(w, u)
  BY <1>6 DEF Wanted, Window
<1>10. <<u, w>> \in remindersDue(F)
  BY <1>1, <1>6, <1>8, <1>9 DEF remindersDue
<1> QED BY <1>6, <1>8, <1>10 DEF F, to

\* The patterns' windows end within the days in view.
LEMMA WeeklyEnds ==
    ASSUME WeeksTyped, NEW from \in Nat, NEW to \in Int
    PROVE  uncoveredWeekly(from, to) \subseteq WindowsIn(from, LastTime)
<1> DEFINE P == WeeklyPieces(from, to)
<1>1. uncoveredWeekly(from, to) = joinWindows(P)
  BY DEF uncoveredWeekly, WeeklyPieces, OnDay, UncoveredDays
<1>2. ASSUME NEW week \in weeks, NEW d \in UncoveredDays(from, to)
      PROVE  OnDay(week, d, from, to) \subseteq WindowsIn(from, LastTime)
  <2> DEFINE b == d * DayLen
             e == (d + 1) * DayLen
             S == dayWindows(d, week[d], "weekly")
  <2>1. week \in [AllDays -> DayPatterns] /\ d \in AllDays
    BY DEF WeeksTyped, UncoveredDays
  <2>2. week[d] \in DaySlots
    BY <2>1, ForecastConstants DEF DaySlots
  <2>3. b \in Nat /\ DayLen \in Nat /\ e = b + DayLen /\ e <= LastTime /\ LastTime \in Nat /\ e \in Int
    BY <2>1, DayNumbers
  <2>4. S \subseteq WindowsIn(b, b + DayLen)
    BY <2>1, <2>2, DayShows DEF Sources2
  <2> HIDE DEF b, e, S
  <2>5. Later(b, from) \in Int /\ Earlier(e, to) \in Int /\ from <= Later(b, from) /\ Earlier(e, to) <= e
    BY <2>3 DEF Later, Earlier
  <2>6. OnDay(week, d, from, to) = cutWindows(S, Later(b, from), Earlier(e, to))
    BY DEF OnDay, weeklyWindows, b, e, S
  <2> DEFINE lo == Later(b, from)
             hi == Earlier(e, to)
  <2>7. lo \in Int /\ hi \in Int /\ from <= lo /\ hi <= LastTime
    BY <2>3, <2>5
  <2> HIDE DEF lo, hi
  <2>8. cutWindows(S, lo, hi) \subseteq WindowsIn(lo, hi)
    <3>1. S \subseteq WindowsIn(b, e) /\ b \in Int /\ e \in Int
      BY <2>3, <2>4
    <3> QED BY <2>7, <3>1, CuttingShows
  <2>9. WindowsIn(lo, hi) \subseteq WindowsIn(from, LastTime)
    BY <2>3, <2>7 DEF WindowsIn
  <2> QED BY <2>6, <2>8, <2>9 DEF lo, hi
<1>3. P \subseteq WindowsIn(from, LastTime) /\ LastTime \in Int
  BY <1>2, DayNumbers DEF WeeklyPieces
<1> HIDE DEF P
<1>4. joinWindows(P) \subseteq WindowsIn(from, LastTime)
  BY <1>3, JoinedWindows
<1> QED BY <1>1, <1>4

\* Of a forecast, one window of a kind begins at an instant; past the first one
\* what it is of begins there.
LEMMA WindowsBegin ==
    ASSUME WeeksTyped, OutagesTyped, NEW from \in Nat, NEW to \in Int, NEW w \in getOutageForecast(from, to)
    PROVE  /\ from < w.start /\ w.start < to => w.start < LastTime /\ Begins(w.start, KindOf(w))
           /\ \A v \in getOutageForecast(from, to) : KindOf(v) = KindOf(w) /\ v.start = w.start => v = w
<1> DEFINE F == getOutageForecast(from, to)
<1>1. F \subseteq SomeWindows
      /\ \A v \in F : IF v.source = "weekly" THEN v \in uncoveredWeekly(from, to) ELSE v \in outages
  BY ForecastWindows
<1>2. uncoveredWeekly(from, to) \subseteq WindowsIn(from, LastTime) /\ outages \subseteq WindowsIn(0, LastTime)
  BY WeeklyEnds DEF OutagesTyped
<1>3. \A v \in F : /\ v.start \in Int /\ v.end \in Int /\ v.start < v.end /\ v.end <= LastTime
                    /\ v.source \in Sources2
  BY <1>1, <1>2 DEF WindowsIn
<1>4. Apart(F)
  <2>1. ASSUME NEW v \in F, NEW u \in F, SameKind(v, u)
        PROVE  v = u \/ v.end < u.start \/ u.end < v.start
    <3>1. v.source = u.source
      BY <2>1 DEF SameKind
    <3>2. CASE v.source = "weekly"
      <4>1. v \in uncoveredWeekly(from, to) /\ u \in uncoveredWeekly(from, to)
        BY <1>1, <3>1, <3>2
      <4>2. Apart(uncoveredWeekly(from, to))
        BY WeeklyShows
      <4> QED BY <2>1, <4>1, <4>2 DEF Apart
    <3>3. CASE v.source # "weekly"
      <4>1. v \in outages /\ u \in outages
        BY <1>1, <3>1, <3>3
      <4> QED BY <2>1, <4>1 DEF Apart, OutagesTyped
    <3> QED BY <3>2, <3>3
  <2> QED BY <2>1 DEF Apart
<1>5. LastTime \in Nat
  BY DayNumbers
<1>6. \A t \in from..(to - 1) : t < LastTime =>
         (KindOf(w) \in Says(t) <=> Shows(F, w.source, w.status, t))
  <2>1. ASSUME NEW t \in from..(to - 1), t < LastTime
        PROVE  KindOf(w) \in Says(t) <=> Shows(F, w.source, w.status, t)
    <3>1. w.source \in Sources2
      BY <1>3
    <3> QED BY <2>1, <3>1, ForecastSays DEF KindOf
  <2> QED BY <2>1
<1>7. w \in F
  OBVIOUS
<1> HIDE DEF F
<1>8. ASSUME from < w.start, w.start < to
      PROVE  w.start < LastTime /\ Begins(w.start, KindOf(w))
  <2>1. w.start < LastTime /\ w.start \in from..(to - 1) /\ w.start - 1 \in from..(to - 1) /\ w.start - 1 < LastTime
    BY <1>3, <1>5, <1>7, <1>8
  <2>2. Shows(F, w.source, w.status, w.start)
    BY <1>3, <1>7 DEF Shows
  <2>3. ~Shows(F, w.source, w.status, w.start - 1)
    <3>1. ASSUME NEW v \in F, v.source = w.source, v.status = w.status, v.start <= w.start - 1, w.start - 1 < v.end
          PROVE  FALSE
      <4>1. v = w \/ v.end < w.start \/ w.end < v.start
        BY <1>4, <1>7, <3>1 DEF Apart, SameKind
      <4> QED BY <1>3, <1>7, <3>1, <4>1
    <3> QED BY <3>1 DEF Shows
  <2> QED BY <1>6, <2>1, <2>2, <2>3 DEF Begins
<1>9. ASSUME NEW v \in F, KindOf(v) = KindOf(w), v.start = w.start
      PROVE  v = w
  <2>1. v = w \/ v.end < w.start \/ w.end < v.start
    BY <1>4, <1>7, <1>9 DEF Apart, SameKind, KindOf
  <2> QED BY <1>3, <1>7, <1>9, <2>1
<1> QED BY <1>8, <1>9 DEF F

-----------------------------------------------------------------------------
(* The steps.                                                              *)

\* What is said of an instant depends on the schedule alone.
LEMMA SaysStays ==
    ASSUME UNCHANGED <<weeks, outages, covered>>
    PROVE  \A t : Says(t)' = Says(t)
BY DEF Says

\* So does what stays, is gone and begins.
LEMMA BeginsStays ==
    ASSUME UNCHANGED <<weeks, outages, covered>>
    PROVE  /\ \A w : Gone(w)' = Gone(w) /\ Stays(w)' = Stays(w)
           /\ \A T, k : Begins(T, k)' = Begins(T, k)
BY SaysStays DEF Gone, Stays, Begins

LEMMA OutagesStay ==
    ASSUME UNCHANGED outages, OutagesTyped
    PROVE  OutagesTyped'
BY DEF OutagesTyped, Apart

LEMMA RestartKeeps == RemindersInv /\ RestartReminders => RemindersInv'
<1> SUFFICES ASSUME RemindersInv, RestartReminders PROVE RemindersInv'
  OBVIOUS
<1>0. LastTime \in Nat /\ MaxFaults \in Nat /\ \A u \in Users : Lead[u] \in Nat
  BY DayNumbers, ForecastConstants
<1>1. /\ UNCHANGED <<at, weeks, outages, covered, reminded, blind, changes>>
      /\ mishaps < MaxFaults /\ mishaps' = mishaps + 1
      /\ started' = FALSE /\ sent' = {} /\ calm' = at + 1
  BY DEF RestartReminders
<1>2. RemindersTyped
  BY DEF RemindersInv
<1>3. at \in Nat /\ at < LastTime /\ at + 1 \in 0..LastTime /\ at + 1 > at
  BY <1>0, <1>2 DEF RemindersTyped
<1>4. RemindersTyped'
  <2>1. OutagesTyped'
    BY <1>1, <1>2, OutagesStay DEF RemindersTyped
  <2>2. WeeksTyped'
    BY <1>1, <1>2 DEF RemindersTyped, WeeksTyped
  <2>3. mishaps' \in 0..MaxFaults /\ changes' \in 0..MaxChanges /\ blind' \in 0..mishaps'
    BY <1>0, <1>1, <1>2 DEF RemindersTyped
  <2>4. sent' \subseteq Marks /\ reminded' \subseteq Tellings /\ covered' \subseteq AllDays
    BY <1>1, <1>2 DEF RemindersTyped
  <2>5. at' \in Nat /\ at' < LastTime /\ calm' \in 0..LastTime
    BY <1>1, <1>3
  <2>6. started' \in BOOLEAN
    BY <1>1
  <2> QED BY <2>1, <2>2, <2>3, <2>4, <2>5, <2>6 DEF RemindersTyped
<1>5. MarksAreTold'
  BY <1>1, <1>3 DEF MarksAreTold
<1>6. StartsAreMarked'
  <2>1. \A u \in Users : \A T \in Int : ~(T - Lead[u] < at /\ at + 1 < T - Lead[u])
    BY <1>0, <1>3
  <2> QED BY <1>1, <2>1 DEF StartsAreMarked, Foreseen
<1>7. TellingsKept'
  <2>1. \A r \in reminded : WasDue(r)' /\ Remembered(r)'
    BY <1>1, BeginsStays DEF RemindersInv, TellingsKept, WasDue, Remembered
  <2> QED BY <1>1, <2>1 DEF TellingsKept
<1>8. RemindedOnce'
  BY <1>1 DEF RemindersInv, RemindedOnce, Key
<1> QED BY <1>4, <1>5, <1>6, <1>7, <1>8 DEF RemindersInv

\* A day confirmed joins the schedule, and the calm begins again.
LEMMA ConfirmKeeps ==
    ASSUME RemindersInv, NEW d \in AllDays, NEW hours \in DayPatterns, Confirm(d, hours)
    PROVE  RemindersInv'
<1>0. LastTime \in Nat /\ MaxChanges \in Nat /\ \A u \in Users : Lead[u] \in Nat
  BY DayNumbers, ForecastConstants
<1>1. /\ UNCHANGED <<at, weeks, started, sent, reminded, blind, mishaps>> /\ d \notin covered
      /\ changes < MaxChanges /\ changes' = changes + 1
      /\ covered' = covered \union {d} /\ calm' = at
      /\ outages' = joinWindows(outages \union dayWindows(d, hours, "schedule"))
  BY DEF Confirm
<1>2. RemindersTyped
  BY DEF RemindersInv
<1>3. at \in Nat /\ at < LastTime /\ at \in 0..LastTime
  BY <1>0, <1>2 DEF RemindersTyped
<1>4. OutagesTyped' /\ \A status : \A t \in Int : Shows(outages, "schedule", status, t) => Shows(outages', "schedule", status, t)
  <2> DEFINE D == dayWindows(d, hours, "schedule")
             S == outages \union D
             b == d * DayLen
  <2>1. hours \in DaySlots
    BY ForecastConstants DEF DaySlots
  <2>2. D \subseteq WindowsIn(b, b + DayLen) /\ \A w \in D : w.source = "schedule"
    BY <2>1, DayShows DEF Sources2
  <2>3. b \in Nat /\ b + DayLen <= LastTime /\ DayLen \in Nat
    BY DayNumbers
  <2> HIDE DEF D, b
  <2>4. D \subseteq WindowsIn(0, LastTime)
    BY <1>0, <2>2, <2>3 DEF WindowsIn
  <2>5. S \subseteq WindowsIn(0, LastTime) /\ \A w \in S : w.source = "schedule"
    BY <1>2, <2>2, <2>4 DEF RemindersTyped, OutagesTyped
  <2>6. outages' = joinWindows(S)
    BY <1>1 DEF D
  <2> HIDE DEF S
  <2>7. joinWindows(S) \subseteq WindowsIn(0, LastTime)
    BY <1>0, <2>5, JoinedWindows
  <2>8. Apart(joinWindows(S))
    BY <1>0, <2>5, JoinedApart
  <2>9. \A w \in joinWindows(S) : w.source = "schedule"
    BY <1>0, <2>5, JoinedSource
  <2>10. \A v, w \in joinWindows(S) : SameKind(v, w) => v = w \/ v.end < w.start \/ w.end < v.start
    BY <2>8 DEF Apart
  <2>11. \A status : \A t \in Int : Shows(joinWindows(S), "schedule", status, t) <=> Shows(S, "schedule", status, t)
    BY <1>0, <2>5, JoiningShows
  <2>12. \A status : \A t \in Int : Shows(outages, "schedule", status, t) => Shows(S, "schedule", status, t)
    BY DEF Shows, S
  <2>13. OutagesTyped'
    BY <2>6, <2>7, <2>9, <2>10 DEF OutagesTyped, Apart
  <2> QED BY <2>6, <2>11, <2>12, <2>13
<1>5. RemindersTyped'
  <2>1. WeeksTyped' /\ covered' \subseteq AllDays
    BY <1>1, <1>2 DEF RemindersTyped, WeeksTyped
  <2>2. changes' \in 0..MaxChanges /\ mishaps' \in 0..MaxFaults /\ blind' \in 0..mishaps'
    BY <1>0, <1>1, <1>2 DEF RemindersTyped
  <2>3. sent' \subseteq Marks /\ reminded' \subseteq Tellings
    BY <1>1, <1>2 DEF RemindersTyped
  <2>4. at' \in Nat /\ at' < LastTime /\ calm' \in 0..LastTime
    BY <1>1, <1>3
  <2>5. started' \in BOOLEAN
    BY <1>1, <1>2 DEF RemindersTyped
  <2> QED BY <1>4, <2>1, <2>2, <2>3, <2>4, <2>5 DEF RemindersTyped
<1>6. MarksAreTold'
  <2>1. \A k \in sent : k[4] \in Int /\ k[1] \in Users
    BY <1>2 DEF RemindersTyped, Marks
  <2>2. \A k \in sent : k[4] - Lead[k[1]] < at
    BY DEF RemindersInv, MarksAreTold
  <2>3. \A k \in sent : ~(at < k[4] - Lead[k[1]])
    BY <1>0, <1>3, <2>1, <2>2
  <2> QED BY <1>1, <1>3, <2>2, <2>3 DEF MarksAreTold
<1>7. StartsAreMarked'
  <2>1. \A u \in Users : \A T \in Int : ~(T - Lead[u] < at /\ at < T - Lead[u])
    BY <1>0, <1>3
  <2> QED BY <1>1, <2>1 DEF StartsAreMarked, Foreseen
<1>8. ASSUME NEW t \in Nat, NEW status
      PROVE  /\ <<"weekly", status>> \in Says(t)' => <<"weekly", status>> \in Says(t)
             /\ <<"schedule", status>> \in Says(t) => <<"schedule", status>> \in Says(t)'
  <2>1. <<"weekly", status>> \in Says(t)' => <<"weekly", status>> \in Says(t)
    BY <1>1 DEF Says
  <2>2. ASSUME <<"schedule", status>> \in Says(t)
        PROVE  <<"schedule", status>> \in Says(t)'
    <3>1. Shows(outages, "schedule", status, t)
      <4>1. \A e \in outages : e.source = "schedule"
        BY <1>2 DEF RemindersTyped, OutagesTyped
      <4>2. \E e \in outages : e.status = status /\ e.start <= t /\ t < e.end
        BY <2>2, SaysOf
      <4> QED BY <4>1, <4>2 DEF Shows
    <3>2. PICK e \in outages' : e.status = status /\ e.start <= t /\ t < e.end
      BY <1>4, <3>1 DEF Shows
    <3> QED BY <3>2 DEF Says
  <2> QED BY <2>1, <2>2
<1>9. ASSUME NEW r \in reminded
      PROVE  WasDue(r)' /\ Remembered(r)'
  <2>1. WasDue(r) /\ Remembered(r)
    BY DEF RemindersInv, TellingsKept
  <2>2. r.window \in SomeWindows /\ r.at \in Nat
    BY <1>2 DEF RemindersTyped, Tellings
  <2>3. r.window.start \in Nat /\ r.window.start - 1 \in Nat
    BY <2>1, <2>2 DEF WasDue, SomeWindows
  <2>4. r.window.source \in Sources2
    BY <2>2 DEF SomeWindows
  <2>6. (Stays(r.window) => Stays(r.window)') /\ (Gone(r.window) => Gone(r.window)')
    <3> DEFINE T == r.window.start
    <3> HIDE DEF T
    <3>1. CASE r.window.source = "weekly"
      BY <1>8, <2>3, <3>1 DEF Stays, Gone, KindOf
    <3>2. CASE r.window.source = "schedule"
      BY <1>8, <2>3, <3>2 DEF Stays, Gone, KindOf
    <3> QED BY <2>4, <3>1, <3>2 DEF Sources2
  <2>7. WasDue(r)'
    BY <1>1, <2>1, <2>6 DEF WasDue
  <2>8. r.known # covered'
    BY <1>1, <2>1 DEF WasDue
  <2> QED BY <1>1, <2>1, <2>6, <2>7, <2>8 DEF Remembered
<1>10. TellingsKept'
  BY <1>1, <1>9 DEF TellingsKept
<1>11. RemindedOnce'
  BY <1>1 DEF RemindersInv, RemindedOnce, Key
<1> QED BY <1>5, <1>6, <1>7, <1>10, <1>11 DEF RemindersInv

\* The reminders of a round are of known users, and due.
LEMMA NewAreDue ==
    ASSUME RemindersTyped, NEW r \in New
    PROVE  /\ r[1] \in Users /\ r[2] \in SomeWindows
           /\ at < r[2].start /\ r[2].start - at <= Lead[r[1]]
           /\ Mark(r[1], r[2]) \in Marks
           /\ r[2].start < LastTime /\ Begins(r[2].start, KindOf(r[2])) /\ Wanted(r[2], r[1])
           /\ \A q \in New : q[1] = r[1] /\ KindOf(q[2]) = KindOf(r[2]) /\ q[2].start = r[2].start => q = r
<1> DEFINE F == getOutageForecast(at, at + MaxLead + 1)
<1>1. r \in Users \X F /\ at < r[2].start /\ r[2].start - at <= Lead[r[1]]
  BY DEF New, remindersDue
<1>2. at \in Nat /\ at + MaxLead + 1 \in Int
  BY <1>1, LongestLead DEF RemindersTyped
<1>3. F \subseteq SomeWindows
  BY <1>2, ForecastWindows DEF RemindersTyped
<1>4. r[1] \in Users /\ r[2] \in SomeWindows
  BY <1>1, <1>3
<1>5. Mark(r[1], r[2]) \in Marks
  BY <1>4 DEF Mark, Marks, SomeWindows
<1>6. \A q \in New : q \in Users \X F /\ q = <<q[1], q[2]>> /\ Wanted(q[2], q[1])
  BY DEF New, remindersDue
<1>7. /\ at \in Nat /\ MaxLead \in Nat /\ Lead[r[1]] <= MaxLead /\ Lead[r[1]] \in Nat
      /\ r[2].start \in Int /\ at < r[2].start /\ r[2].start < at + MaxLead + 1
  BY <1>1, <1>4, LongestLead, ForecastConstants DEF RemindersTyped, SomeWindows
<1>8. /\ r[2].start < LastTime /\ Begins(r[2].start, KindOf(r[2]))
      /\ \A v \in F : KindOf(v) = KindOf(r[2]) /\ v.start = r[2].start => v = r[2]
  <2> DEFINE to == at + MaxLead + 1
  <2>1. to \in Int /\ at \in Nat /\ r[2] \in getOutageForecast(at, to) /\ at < r[2].start /\ r[2].start < to
    BY <1>1, <1>7
  <2>2. WeeksTyped /\ OutagesTyped
    BY DEF RemindersTyped
  <2> HIDE DEF to
  <2>3. /\ r[2].start < LastTime /\ Begins(r[2].start, KindOf(r[2]))
        /\ \A v \in getOutageForecast(at, to) : KindOf(v) = KindOf(r[2]) /\ v.start = r[2].start => v = r[2]
    BY <2>1, <2>2, WindowsBegin
  <2> QED BY <2>3 DEF to
<1> HIDE DEF F
<1>9. \A q \in New : q[1] = r[1] /\ KindOf(q[2]) = KindOf(r[2]) /\ q[2].start = r[2].start => q = r
  BY <1>6, <1>8
<1> QED BY <1>1, <1>4, <1>5, <1>6, <1>8, <1>9

\* A round that fails remembers what it had marked, and is a mishap.
LEMMA FailKeeps ==
    ASSUME RemindersInv, RoundFails, at < LastTime - 1, at' = at + 1,
           UNCHANGED <<weeks, outages, covered, changes>>
    PROVE  RemindersInv'
<1>0. LastTime \in Nat /\ MaxFaults \in Nat /\ DayLen \in Nat /\ \A u \in Users : Lead[u] \in Nat
  BY DayNumbers, ForecastConstants
<1>1. /\ mishaps < MaxFaults /\ mishaps' = mishaps + 1 /\ calm' = at + 1
      /\ started' = TRUE /\ sent' = Forget(sent) /\ UNCHANGED reminded
      /\ blind' = IF started THEN blind ELSE blind + 1
  BY DEF RoundFails
<1>2. RemindersTyped
  BY DEF RemindersInv
<1>3. at \in Nat /\ at + 1 \in Nat /\ at + 1 < LastTime /\ at + 1 \in 0..LastTime /\ blind \in Nat
  BY <1>0, <1>2 DEF RemindersTyped
<1>4. sent' = {k \in sent : k[4] >= at - DayLen}
  BY <1>1, <1>2, ForgetKeeps DEF RemindersTyped
<1>5. RemindersTyped'
  <2>1. OutagesTyped'
    BY <1>2, OutagesStay DEF RemindersTyped
  <2>2. WeeksTyped' /\ covered' \subseteq AllDays /\ changes' \in 0..MaxChanges
    BY <1>2 DEF RemindersTyped, WeeksTyped
  <2>3. mishaps' \in 0..MaxFaults /\ blind' \in 0..mishaps'
    BY <1>0, <1>1, <1>2 DEF RemindersTyped
  <2>4. sent' \subseteq Marks /\ reminded' \subseteq Tellings
    BY <1>1, <1>2, <1>4 DEF RemindersTyped
  <2>5. at' \in Nat /\ at' < LastTime /\ calm' \in 0..LastTime /\ started' \in BOOLEAN
    BY <1>1, <1>3
  <2> QED BY <2>1, <2>2, <2>3, <2>4, <2>5 DEF RemindersTyped
<1>6. \A k \in sent' : k[4] - Lead[k[1]] < at + 1 /\ ~(at + 1 < k[4] - Lead[k[1]])
  <2>1. ASSUME NEW k \in sent
        PROVE  k[4] - Lead[k[1]] < at + 1 /\ ~(at + 1 < k[4] - Lead[k[1]])
    <3>1. k[4] \in Int /\ k[1] \in Users
      BY <1>2 DEF RemindersTyped, Marks
    <3>2. k[4] - Lead[k[1]] < at
      BY DEF RemindersInv, MarksAreTold
    <3> QED BY <1>0, <1>3, <3>1, <3>2
  <2> QED BY <1>4, <2>1
<1>7. MarksAreTold'
  BY <1>1, <1>6 DEF MarksAreTold
<1>8. StartsAreMarked'
  <2>1. \A u \in Users : \A T \in Int : ~(T - Lead[u] < at + 1 /\ at + 1 < T - Lead[u])
    BY <1>0, <1>3
  <2> QED BY <1>1, <2>1 DEF StartsAreMarked, Foreseen
<1>9. ASSUME NEW r \in reminded
      PROVE  WasDue(r)' /\ Remembered(r)'
  <2>1. WasDue(r) /\ Remembered(r)
    BY DEF RemindersInv, TellingsKept
  <2>2. r.window.start \in Int /\ r.at \in Nat /\ r.blind \in Nat
    BY <1>2 DEF RemindersTyped, Tellings, SomeWindows
  <2>3. /\ Gone(r.window)' = Gone(r.window) /\ Stays(r.window)' = Stays(r.window)
        /\ \A s : Begins(r.window.start, s)' = Begins(r.window.start, s)
    BY BeginsStays
  <2>4. WasDue(r)'
    <3>1. r.at < at + 1 /\ r.blind <= blind'
      BY <1>1, <1>3, <2>1, <2>2 DEF WasDue
    <3> QED BY <2>1, <2>3, <3>1 DEF WasDue
  <2>5. ASSUME started', r.blind = blind', at' < r.window.start
        PROVE  /\ Mark(r.user, r.window) \in sent' \/ Gone(r.window)'
               /\ r.known = covered' =>
                     \A s : Begins(r.window.start, s)' /\ Wanted(Window(0, 0, s[2], s[1]), r.user)
                               => <<r.user, s[1], s[2], r.window.start>> \in sent'
    <3>1. started /\ r.blind = blind
      BY <1>1, <1>3, <2>1, <2>2, <2>5 DEF WasDue
    <3>2. at < r.window.start /\ r.window.start >= at - DayLen
      BY <1>0, <1>3, <2>2, <2>5
    <3>3. Mark(r.user, r.window)[4] = r.window.start
          /\ \A s : <<r.user, s[1], s[2], r.window.start>>[4] = r.window.start
      BY DEF Mark
    <3> QED BY <1>4, <2>1, <2>3, <3>1, <3>2, <3>3 DEF Remembered
  <2> QED BY <2>4, <2>5 DEF Remembered
<1>10. TellingsKept'
  BY <1>1, <1>9 DEF TellingsKept
<1>11. RemindedOnce'
  BY <1>1 DEF RemindersInv, RemindedOnce, Key
<1> QED BY <1>5, <1>7, <1>8, <1>10, <1>11 DEF RemindersInv

\* A round reminds of what begins within the lead time, or is a mishap.
LEMMA TickKeeps == RemindersInv /\ RemindersTick => RemindersInv'
<1> SUFFICES ASSUME RemindersInv, RemindersTick PROVE RemindersInv'
  OBVIOUS
<1> DEFINE windows == {r[2] : r \in New}
           marked == {Mark(r[1], r[2]) : r \in New}
           Tell(r) == [user |-> r[1], window |-> r[2], at |-> at, known |-> covered, blind |-> blind]
<1>0. LastTime \in Nat /\ MaxFaults \in Nat /\ DayLen \in Nat /\ \A u \in Users : Lead[u] \in Nat \ {0}
  BY DayNumbers, ForecastConstants
<1>2. at < LastTime - 1 /\ at' = at + 1 /\ UNCHANGED <<weeks, outages, covered, changes>>
  BY DEF RemindersTick
<1>2a. SUFFICES ASSUME ~RoundFails PROVE RemindersInv'
  BY <1>2, FailKeeps
<1>1a. PICK done \in SUBSET windows : \E failed \in SUBSET windows : Round(New, done, failed)
  BY <1>2a DEF RemindersTick
<1>1. PICK failed \in SUBSET windows : Round(New, done, failed)
  BY <1>1a
<1>3. RemindersTyped
  BY DEF RemindersInv
<1>4. at \in Nat /\ at + 1 \in Nat /\ at + 1 < LastTime /\ at + 1 \in 0..LastTime /\ at \in 0..LastTime
  BY <1>0, <1>2, <1>3 DEF RemindersTyped
<1>5. /\ started' = TRUE /\ blind' = blind /\ sent' = Forget(sent \union marked)
      /\ \/ /\ ~started /\ UNCHANGED <<reminded, calm, mishaps>>
         \/ /\ started /\ done = windows /\ UNCHANGED <<calm, mishaps>>
            /\ reminded' = reminded \union {Tell(r) : r \in New}
         \/ /\ started /\ mishaps < MaxFaults /\ mishaps' = mishaps + 1 /\ calm' = at + 1
            /\ reminded' = reminded \union {Tell(r) : r \in {q \in New : q[2] \in done}}
  <2>1. started' = TRUE /\ blind' = blind /\ sent' = Forget(sent \union marked)
    BY <1>1 DEF Round
  <2>2. CASE ~started
    BY <1>1, <2>1, <2>2 DEF Round
  <2>3. CASE started
    <3>1. reminded' = reminded \union {Tell(r) : r \in {q \in New : q[2] \in done}}
      BY <1>1, <2>3 DEF Round
    <3>2. CASE done = windows
      <4>1. {q \in New : q[2] \in done} = New
        BY <3>2
      <4>2. UNCHANGED <<calm, mishaps>>
        BY <1>1, <2>3, <3>2 DEF Round
      <4> QED BY <2>1, <2>3, <3>1, <3>2, <4>1, <4>2
    <3>3. CASE done # windows
      <4>1. mishaps < MaxFaults /\ mishaps' = mishaps + 1 /\ calm' = at + 1
        BY <1>1, <2>3, <3>3 DEF Round
      <4> QED BY <2>1, <2>3, <3>1, <4>1
    <3> QED BY <3>2, <3>3
  <2>4. started \in BOOLEAN
    BY <1>3 DEF RemindersTyped
  <2> QED BY <2>2, <2>3, <2>4
<1>6. \A r \in New : /\ r[1] \in Users /\ r[2] \in SomeWindows /\ r[2].start \in Int
                     /\ at < r[2].start /\ r[2].start - at <= Lead[r[1]]
                     /\ Mark(r[1], r[2]) \in Marks
  BY <1>3, NewAreDue DEF SomeWindows
<1>7. /\ sent \union marked \subseteq Marks
      /\ sent' = {k \in sent \union marked : k[4] >= at - DayLen}
  <2>1. sent \union marked \subseteq Marks
    BY <1>3, <1>6 DEF RemindersTyped
  <2> HIDE DEF marked
  <2>2. Forget(sent \union marked) = {k \in sent \union marked : k[4] >= at - DayLen}
    BY <2>1, ForgetKeeps
  <2> QED BY <1>5, <2>1, <2>2
<1>8. /\ calm' = calm \/ calm' = at + 1
      /\ reminded \subseteq reminded'
      /\ mishaps' \in 0..MaxFaults /\ blind' \in 0..mishaps'
  BY <1>0, <1>3, <1>5 DEF RemindersTyped
<1>9. RemindersTyped'
  <2>1. OutagesTyped'
    BY <1>2, <1>3, OutagesStay DEF RemindersTyped
  <2>2. WeeksTyped' /\ covered' \subseteq AllDays /\ changes' \in 0..MaxChanges
    BY <1>2, <1>3 DEF RemindersTyped, WeeksTyped
  <2>3. calm' \in 0..LastTime
    BY <1>3, <1>4, <1>8 DEF RemindersTyped
  <2>4. sent' \subseteq Marks
    BY <1>7
  <2>5. reminded' \subseteq Tellings
    <3>1. \A r \in New : Tell(r) \in Tellings
      BY <1>3, <1>4, <1>6 DEF Tellings, RemindersTyped
    <3>2. reminded \subseteq Tellings
      BY <1>3 DEF RemindersTyped
    <3> QED BY <1>5, <3>1, <3>2
  <2>6. at' \in Nat /\ at' < LastTime
    BY <1>2, <1>4
  <2>7. started' \in BOOLEAN
    BY <1>5
  <2> QED BY <1>8, <2>1, <2>2, <2>3, <2>4, <2>5, <2>6, <2>7 DEF RemindersTyped
<1>10. \A k \in sent' : k \in Marks /\ k[1] \in Users /\ k[4] \in Int /\ k[4] - Lead[k[1]] < at + 1
  <2>1. ASSUME NEW k \in sent
        PROVE  k[4] - Lead[k[1]] < at + 1 /\ k[4] \in Int /\ k[1] \in Users
    <3>1. k[4] \in Int /\ k[1] \in Users
      BY <1>7 DEF Marks
    <3>2. k[4] - Lead[k[1]] < at
      BY DEF RemindersInv, MarksAreTold
    <3> QED BY <1>0, <1>4, <3>1, <3>2
  <2>2. ASSUME NEW r \in New
        PROVE  LET k == Mark(r[1], r[2]) IN k[4] - Lead[k[1]] < at + 1 /\ k[4] \in Int /\ k[1] \in Users
    <3>1. Mark(r[1], r[2])[4] = r[2].start /\ Mark(r[1], r[2])[1] = r[1]
      BY DEF Mark
    <3> QED BY <1>0, <1>4, <1>6, <3>1
  <2> QED BY <1>7, <2>1, <2>2
<1>11. MarksAreTold'
  <2>1. ASSUME NEW k \in sent', calm' < k[4] - Lead[k[1]], Lead[k[1]] < k[4]
        PROVE  \E r \in reminded' : /\ r.user = k[1] /\ r.window.source = k[2]
                                    /\ r.window.status = k[3] /\ r.window.start = k[4]
    <3>1. k[4] \in Int /\ Lead[k[1]] \in Nat /\ k[4] - Lead[k[1]] < at + 1
      BY <1>0, <1>10
    <3>2. calm' = calm /\ calm \in Nat
      BY <1>3, <1>4, <1>8, <2>1, <3>1 DEF RemindersTyped
    <3>3. calm < at
      BY <1>4, <2>1, <3>1, <3>2
    <3>4. started
      BY <1>4, <3>2, <3>3 DEF RemindersInv, MarksAreTold
    <3>5. CASE k \in sent
      <4>1. \E r \in reminded : /\ r.user = k[1] /\ r.window.source = k[2]
                                /\ r.window.status = k[3] /\ r.window.start = k[4]
        BY <2>1, <3>2, <3>5 DEF RemindersInv, MarksAreTold
      <4> QED BY <1>8, <4>1
    <3>6. CASE k \in marked
      <4>1. PICK r \in New : k = Mark(r[1], r[2])
        BY <3>6
      <4>2. calm' # at + 1
        BY <1>4, <3>2, <3>3
      <4>3. Tell(r) \in reminded'
        BY <1>5, <3>4, <4>2
      <4>4. k[1] = r[1] /\ k[2] = r[2].source /\ k[3] = r[2].status /\ k[4] = r[2].start
        BY <4>1 DEF Mark
      <4> QED BY <4>3, <4>4
    <3> QED BY <1>7, <3>5, <3>6
  <2> QED BY <1>2, <1>5, <1>10, <2>1 DEF MarksAreTold
<1>12. ASSUME NEW u \in Users, NEW T \in Int, NEW s, T - Lead[u] <= at, at < T, T < LastTime,
              Begins(T, s), Wanted(Window(0, 0, s[2], s[1]), u)
       PROVE  <<u, s[1], s[2], T>> \in sent'
  <2>1. Wanted(Window(T, T, s[2], s[1]), u)
    BY <1>12 DEF Wanted, Window
  <2>2. PICK w \in getOutageForecast(at, at + MaxLead + 1) :
            /\ <<u, w>> \in remindersDue(getOutageForecast(at, at + MaxLead + 1))
            /\ w.source = s[1] /\ w.status = s[2] /\ w.start = T
    BY <1>3, <1>12, <2>1, FindsForeseen DEF Begins
  <2>3. Mark(u, w) = <<u, s[1], s[2], T>>
    BY <2>2 DEF Mark
  <2> DEFINE r == <<u, w>>
  <2>4. r[1] = u /\ r[2] = w
    OBVIOUS
  <2>5. r \in New \/ Mark(u, w) \in sent
    BY <2>2, <2>4 DEF New
  <2> HIDE DEF r
  <2>6. Mark(u, w) \in sent \union marked
    BY <2>4, <2>5
  <2>7. <<u, s[1], s[2], T>>[4] = T /\ T >= at - DayLen
    BY <1>0, <1>4, <1>12
  <2> QED BY <1>7, <2>3, <2>6, <2>7
<1>13. StartsAreMarked'
  <2>1. ASSUME NEW u \in Users, NEW T \in Int, NEW s, Foreseen(T, u, s)'
        PROVE  <<u, s[1], s[2], T>> \in sent'
    <3>1. /\ T - Lead[u] < at + 1 /\ at + 1 <= T /\ T < LastTime
          /\ Begins(T, s) /\ Wanted(Window(T, T, s[2], s[1]), u)
      BY <1>2, <2>1, SaysStays DEF Foreseen, Begins
    <3>2. T - Lead[u] <= at /\ at < T
      BY <1>0, <1>4, <3>1
    <3>3. Wanted(Window(0, 0, s[2], s[1]), u)
      BY <3>1 DEF Wanted, Window
    <3> QED BY <1>12, <3>1, <3>2, <3>3
  <2> QED BY <2>1 DEF StartsAreMarked
<1>14. /\ \A w : Gone(w)' = Gone(w) /\ Stays(w)' = Stays(w)
       /\ \A T, k : Begins(T, k)' = Begins(T, k)
  BY <1>2, BeginsStays
\* Of what was told, or is told now, the next round knows.
<1>15. ASSUME NEW r \in Tellings, r.at < at + 1, r.at < r.window.start,
              r.window.start - r.at <= Lead[r.user],
              r.window.start < LastTime, Wanted(r.window, r.user),
              r.known \subseteq covered, r.blind <= blind, Stays(r.window),
              started /\ r.at # at => Remembered(r)
       PROVE  WasDue(r)' /\ Remembered(r)'
  <2> DEFINE T == r.window.start
  <2>1. T \in Int /\ r.at \in Nat /\ r.user \in Users /\ r.window.source \in Sources2
    BY DEF Tellings, SomeWindows
  <2>2. WasDue(r)'
    BY <1>2, <1>5, <1>14, <1>15 DEF WasDue
  <2>3. ASSUME r.blind = blind, at + 1 < T
        PROVE  /\ Mark(r.user, r.window) \in sent' \/ Gone(r.window)
               /\ r.known = covered =>
                     \A s : Begins(T, s) /\ Wanted(Window(0, 0, s[2], s[1]), r.user)
                               => <<r.user, s[1], s[2], T>> \in sent'
    <3>1. T - Lead[r.user] <= at /\ at < T /\ T >= at - DayLen
      BY <1>0, <1>4, <1>15, <2>1, <2>3
    <3>2. \A s : Begins(T, s) /\ Wanted(Window(0, 0, s[2], s[1]), r.user)
                    => <<r.user, s[1], s[2], T>> \in sent'
      BY <1>12, <1>15, <2>1, <3>1
    <3>3. Mark(r.user, r.window) \in sent' \/ Gone(r.window)
      <4> DEFINE s == KindOf(r.window)
      <4>1. s[1] = r.window.source /\ s[2] = r.window.status
        BY DEF KindOf
      <4>2. Wanted(Window(0, 0, s[2], s[1]), r.user)
        BY <1>15, <4>1 DEF Wanted, Window
      <4>3. Mark(r.user, r.window) = <<r.user, s[1], s[2], T>>
        BY <4>1 DEF Mark
      <4>4. Begins(T, s) \/ Gone(r.window)
        BY <1>15 DEF Begins, Gone, Stays
      <4> HIDE DEF s
      <4> QED BY <3>2, <4>2, <4>3, <4>4
    <3> QED BY <3>2, <3>3
  <2> QED BY <1>2, <1>5, <1>14, <2>2, <2>3 DEF Remembered
<1>16. \A r \in Tellings :
          (/\ r.at < at + 1 /\ r.at < r.window.start
           /\ r.window.start - r.at <= Lead[r.user]
           /\ r.window.start < LastTime /\ Wanted(r.window, r.user)
           /\ r.known \subseteq covered /\ r.blind <= blind /\ Stays(r.window)
           /\ (started /\ r.at # at => Remembered(r)))
              => WasDue(r)' /\ Remembered(r)'
  BY <1>15
<1>17. ASSUME NEW q \in New, NEW r, r = Tell(q)
       PROVE  WasDue(r)' /\ Remembered(r)'
  <2>1. /\ r.at = at /\ r.window = q[2] /\ r.user = q[1] /\ r.known = covered /\ r.blind = blind
    BY <1>17
  <2>2. /\ q[1] \in Users /\ q[2] \in SomeWindows /\ at < q[2].start /\ q[2].start - at <= Lead[q[1]]
        /\ q[2].start < LastTime /\ Begins(q[2].start, KindOf(q[2])) /\ Wanted(q[2], q[1])
    BY <1>3, NewAreDue
  <2>3. r \in Tellings
    BY <1>3, <1>4, <1>17, <2>2 DEF Tellings, RemindersTyped
  <2>4. Stays(r.window)
    BY <2>1, <2>2 DEF Stays, Begins
  <2>5. at < at + 1 /\ blind <= blind
    BY <1>3, <1>4 DEF RemindersTyped
  <2>6. /\ r.at < at + 1 /\ r.at < r.window.start
        /\ r.window.start - r.at <= Lead[r.user]
        /\ r.window.start < LastTime /\ Wanted(r.window, r.user)
        /\ r.known \subseteq covered /\ r.blind <= blind
        /\ ~(started /\ r.at # at)
    BY <2>1, <2>2, <2>5
  <2> QED BY <1>16, <2>3, <2>4, <2>6
<1>18. \A r \in reminded' : r \in reminded \/ \E q \in New : started /\ r = Tell(q)
  BY <1>5
<1>19. TellingsKept'
  <2>1. ASSUME NEW r \in reminded
        PROVE  WasDue(r)' /\ Remembered(r)'
    <3>1. WasDue(r) /\ Remembered(r) /\ r \in Tellings
      BY <1>3 DEF RemindersInv, TellingsKept, RemindersTyped
    <3>2. r.at < at + 1
      BY <1>4, <3>1 DEF WasDue, Tellings
    <3> QED BY <1>15, <3>1, <3>2 DEF WasDue
  <2>2. ASSUME NEW r \in reminded'
        PROVE  WasDue(r)' /\ Remembered(r)'
    <3> HIDE DEF Tell, New
    <3> QED BY <1>17, <1>18, <2>1
  <2> QED BY <2>2 DEF TellingsKept
<1>20. RemindedOnce'
  <2> DEFINE Agree(x, y) == /\ Key(x.window) # Key(y.window)
                            /\ x.at = y.at \/ x.known # y.known
             Same(x, y) == x # y /\ x.user = y.user /\ x.window.start = y.window.start /\ x.blind = y.blind
  <2>1. \A x, y \in reminded : Same(x, y) => Agree(x, y)
    BY DEF RemindersInv, RemindedOnce
  <2>2. ASSUME NEW x \in New, NEW y \in New, Same(Tell(x), Tell(y))
        PROVE  Agree(Tell(x), Tell(y))
    <3>1. x[1] = y[1] /\ x[2].start = y[2].start /\ x # y
      BY <2>2
    <3>2. KindOf(x[2]) # KindOf(y[2])
      BY <1>3, <3>1, NewAreDue
    <3> QED BY <3>2 DEF Key, KindOf
  <2>3. ASSUME NEW x \in New, NEW y \in reminded, started, Same(Tell(x), y)
        PROVE  Agree(Tell(x), y) /\ Agree(y, Tell(x))
    <3>1. y.user = x[1] /\ y.window.start = x[2].start /\ y.blind = blind
      BY <2>3
    <3>2. /\ at < x[2].start /\ Begins(x[2].start, KindOf(x[2])) /\ Wanted(x[2], x[1])
      BY <1>3, NewAreDue
    <3>3. Mark(x[1], x[2]) \notin sent
      BY DEF New
    <3>4. /\ Mark(y.user, y.window) \in sent \/ Gone(y.window)
          /\ y.known = covered =>
                \A s : Begins(y.window.start, s) /\ Wanted(Window(0, 0, s[2], s[1]), y.user)
                          => <<y.user, s[1], s[2], y.window.start>> \in sent
      BY <2>3, <3>1, <3>2 DEF RemindersInv, TellingsKept, Remembered
    <3>5. Key(x[2]) # Key(y.window)
      <4>1. ASSUME Key(x[2]) = Key(y.window)
            PROVE  FALSE
        <5>1. x[2].source = y.window.source /\ x[2].status = y.window.status
          BY <4>1 DEF Key
        <5>2. Mark(x[1], x[2]) = Mark(y.user, y.window) /\ KindOf(y.window) = KindOf(x[2])
          BY <3>1, <5>1 DEF Mark, KindOf
        <5>3. ~Gone(y.window)
          BY <3>1, <3>2, <5>2 DEF Gone, Begins
        <5> QED BY <3>3, <3>4, <5>2, <5>3
      <4> QED BY <4>1
    <3>6. y.known # covered
      <4> DEFINE s == KindOf(x[2])
      <4>1. s[1] = x[2].source /\ s[2] = x[2].status
        BY DEF KindOf
      <4>2. Wanted(Window(0, 0, s[2], s[1]), x[1]) /\ Mark(x[1], x[2]) = <<x[1], s[1], s[2], x[2].start>>
        BY <3>2, <4>1 DEF Wanted, Window, Mark
      <4> HIDE DEF s
      <4>3. Begins(x[2].start, s)
        BY <3>2 DEF s
      <4> QED BY <3>1, <3>3, <3>4, <4>2, <4>3
    <3> QED BY <3>5, <3>6
  <2>4. \A x, y : Same(x, y) <=> Same(y, x)
    OBVIOUS
  <2>5. \A x \in New : Tell(x).user = x[1]
    OBVIOUS
  <2> HIDE DEF Agree, Same
  <2>6. \A x, y \in reminded' : Same(x, y) => Agree(x, y)
    BY <1>18, <2>1, <2>2, <2>3, <2>4
  <2> QED BY <2>6 DEF RemindedOnce, Agree, Same, Key
<1> QED BY <1>9, <1>11, <1>13, <1>19, <1>20 DEF RemindersInv

LEMMA RemindersNextKeeps == RemindersInv /\ RemindersNext => RemindersInv'
BY RestartKeeps, TickKeeps, ConfirmKeeps DEF RemindersNext

LEMMA RemindersStutter == RemindersInv /\ UNCHANGED reminderVars => RemindersInv'
<1> SUFFICES ASSUME RemindersInv, UNCHANGED reminderVars PROVE RemindersInv'
  OBVIOUS
<1>1. UNCHANGED <<at, weeks, outages, covered, started, sent, recorded, reminded, blind, calm, changes, mishaps>>
  BY DEF reminderVars
<1>2. RemindersTyped'
  <2>1. OutagesTyped'
    BY <1>1, OutagesStay DEF RemindersInv, RemindersTyped
  <2> QED BY <1>1, <2>1 DEF RemindersInv, RemindersTyped, WeeksTyped
<1>3. MarksAreTold'
  BY <1>1 DEF RemindersInv, MarksAreTold
<1>4. StartsAreMarked'
  <2>1. \A u \in Users : \A T \in Int : \A s : Foreseen(T, u, s)' => Foreseen(T, u, s)
    BY <1>1, SaysStays DEF Foreseen
  <2> QED BY <1>1, <2>1 DEF RemindersInv, StartsAreMarked
<1>5. TellingsKept'
  <2>1. \A r \in reminded : WasDue(r)' /\ Remembered(r)'
    BY <1>1, BeginsStays DEF RemindersInv, TellingsKept, WasDue, Remembered
  <2> QED BY <1>1, <2>1 DEF TellingsKept
<1>6. RemindedOnce'
  BY <1>1 DEF RemindersInv, RemindedOnce, Key
<1> QED BY <1>2, <1>3, <1>4, <1>5, <1>6 DEF RemindersInv

-----------------------------------------------------------------------------
(* The days the clocks change.                                            *)

ClockTyped == zone \in {"forward", "back", "neither"} /\ slots \in ClockSlots

\* The wall clock's time at which the clocks change, as it is before it.
JumpWall == DayHalves + 2 * JumpHour

\* The clocks change within a day of a whole number of hours.
LEMMA ClockNumbers ==
    /\ DayHours \in Nat \ {0} /\ DayHalves \in Nat \ {0} /\ DayHalves = 2 * DayHours
    /\ StandardTime \in 0..(DayHours - 2) /\ JumpHour \in 1..(DayHours - 2)
    /\ JumpWall \in Int /\ DayHalves < JumpWall /\ JumpWall + 2 < 2 * DayHalves
    /\ Jump = JumpWall - StandardTime /\ Jump \in Int /\ HalfDay = DayHours
<1>1. /\ DayHours \in Nat \ {0} /\ StandardTime \in 0..(DayHours - 2) /\ JumpHour \in 1..(DayHours - 2)
  BY ClockConstants
<1>2. DayHalves = 2 * DayHours /\ DayHalves \in Nat \ {0}
  BY <1>1 DEF DayHalves
<1>3. Jump = DayHalves + 2 * JumpHour - StandardTime
  BY <1>1, <1>2 DEF Jump
<1> QED BY <1>1, <1>2, <1>3 DEF JumpWall, HalfDay

\* The instant given for a time of the wall clock.
UtcOf(x) ==
    CASE zone = "forward" -> (IF x < JumpWall + 2 THEN x - StandardTime ELSE x - StandardTime - 2)
      [] zone = "back"    -> (IF x < JumpWall + 2 THEN x - StandardTime - 2 ELSE x - StandardTime)
      [] OTHER            -> x - StandardTime

\* The wall clock before the change and after it.
LEMMA WallClocks ==
    ASSUME ClockTyped, NEW t \in Int
    PROVE  /\ Offset(t) \in {StandardTime, StandardTime + 2} /\ wallClock(t) \in Int
           /\ zone = "forward" => wallClock(t) = IF t < Jump THEN t + StandardTime ELSE t + StandardTime + 2
           /\ zone = "back" => wallClock(t) = IF t < Jump THEN t + StandardTime + 2 ELSE t + StandardTime
           /\ zone = "neither" => wallClock(t) = t + StandardTime
<1>1. StandardTime \in Nat /\ Jump \in Int
  BY ClockNumbers
<1>2. zone = "forward" => Offset(t) = IF t < Jump THEN StandardTime ELSE StandardTime + 2
  BY <1>1 DEF Offset
<1>3. zone = "back" => Offset(t) = IF t < Jump THEN StandardTime + 2 ELSE StandardTime
  BY <1>1 DEF Offset
<1>4. zone = "neither" => Offset(t) = StandardTime
  BY <1>1 DEF Offset
<1> QED BY <1>1, <1>2, <1>3, <1>4 DEF wallClock, ClockTyped

\* wallToUtc finds the instant at which the clock shows a time.
LEMMA UtcIs ==
    ASSUME ClockTyped, NEW date \in Int, NEW half \in Int
    PROVE  wallToUtc(date, half) = UtcOf(date * DayHalves + half) /\ UtcOf(date * DayHalves + half) \in Int
<1> DEFINE x == date * DayHalves + half
           a == Offset(x - HalfDay)
           b == Offset(x + HalfDay)
           C == {t \in {x - a, x - b} : wallClock(t) = x}
<1>1. /\ x \in Int /\ StandardTime \in 0..(DayHours - 2) /\ Jump = JumpWall - StandardTime /\ HalfDay = DayHours
      /\ JumpWall \in Int /\ Jump \in Int /\ DayHours \in Nat
  BY ClockNumbers
<1>2. wallToUtc(date, half) = IF C # {} THEN Smallest(C) ELSE x - a
  BY DEF wallToUtc, Offsets
<1> HIDE DEF x
<1>3. x - HalfDay \in Int /\ x + HalfDay \in Int
  BY <1>1
<1>4. a \in {StandardTime, StandardTime + 2} /\ b \in {StandardTime, StandardTime + 2}
  BY <1>3, WallClocks
<1>5. \A t \in Int : \A c \in Int : t = x - c => (t \in C <=> (c = a \/ c = b) /\ wallClock(t) = x)
  BY <1>1, <1>4
<1>6. ASSUME NEW n \in C, \A m \in C : n <= m, C \subseteq Int
      PROVE  Smallest(C) = n
  <2>1. \E k \in C : \A m \in C : k <= m
    BY <1>6
  <2>2. Smallest(C) \in C /\ \A m \in C : Smallest(C) <= m
    BY <2>1 DEF Smallest
  <2>3. n <= Smallest(C) /\ Smallest(C) <= n
    BY <1>6, <2>2
  <2>4. n \in Int /\ Smallest(C) \in Int
    BY <1>6, <2>2
  <2> QED BY <2>3, <2>4
<1>7. C \subseteq Int
  BY <1>1, <1>4
<1>8. wallToUtc(date, half) = UtcOf(x)
  <2>1. CASE zone = "forward"
    <3>1. CASE x < JumpWall
      <4>1. a = StandardTime
        BY <1>1, <2>1, <3>1 DEF Offset
      <4>2. wallClock(x - StandardTime) = x
        BY <1>1, <2>1, <3>1, WallClocks
      <4>3. wallClock(x - StandardTime - 2) # x
        BY <1>1, <2>1, <3>1, WallClocks
      <4>4. C = {x - StandardTime}
        BY <1>1, <1>4, <4>1, <4>2, <4>3
      <4>5. Smallest(C) = x - StandardTime
        BY <1>1, <1>6, <1>7, <4>4
      <4> QED BY <1>1, <1>2, <2>1, <3>1, <4>4, <4>5 DEF UtcOf
    <3>2. CASE JumpWall <= x /\ x < JumpWall + 2
      <4>1. a = StandardTime
        BY <1>1, <2>1, <3>2 DEF Offset
      <4>2. wallClock(x - StandardTime) # x
        BY <1>1, <2>1, <3>2, WallClocks
      <4>3. wallClock(x - StandardTime - 2) # x
        BY <1>1, <2>1, <3>2, WallClocks
      <4>4. C = {}
        BY <1>1, <1>4, <4>1, <4>2, <4>3
      <4> QED BY <1>1, <1>2, <2>1, <3>2, <4>1, <4>4 DEF UtcOf
    <3>3. CASE JumpWall + 2 <= x
      <4>1. b = StandardTime + 2
        BY <1>1, <2>1, <3>3 DEF Offset
      <4>2. wallClock(x - StandardTime) # x
        BY <1>1, <2>1, <3>3, WallClocks
      <4>3. wallClock(x - StandardTime - 2) = x
        BY <1>1, <2>1, <3>3, WallClocks
      <4>4. C = {x - StandardTime - 2}
        BY <1>1, <1>4, <4>1, <4>2, <4>3
      <4>5. Smallest(C) = x - StandardTime - 2
        BY <1>1, <1>6, <1>7, <4>4
      <4> QED BY <1>1, <1>2, <2>1, <3>3, <4>4, <4>5 DEF UtcOf
    <3> QED BY <1>1, <3>1, <3>2, <3>3
  <2>2. CASE zone = "back"
    <3>1. CASE x < JumpWall + 2
      <4>1. a = StandardTime + 2
        BY <1>1, <2>2, <3>1 DEF Offset
      <4>2. wallClock(x - StandardTime - 2) = x
        BY <1>1, <2>2, <3>1, WallClocks
      <4>3. x - StandardTime - 2 \in C /\ \A m \in C : x - StandardTime - 2 <= m
        BY <1>1, <1>4, <4>1, <4>2
      <4>4. Smallest(C) = x - StandardTime - 2
        BY <1>6, <1>7, <4>3
      <4> QED BY <1>1, <1>2, <2>2, <3>1, <4>3, <4>4 DEF UtcOf
    <3>2. CASE JumpWall + 2 <= x
      <4>1. b = StandardTime
        BY <1>1, <2>2, <3>2 DEF Offset
      <4>2. wallClock(x - StandardTime) = x
        BY <1>1, <2>2, <3>2, WallClocks
      <4>3. wallClock(x - StandardTime - 2) # x
        BY <1>1, <2>2, <3>2, WallClocks
      <4>4. C = {x - StandardTime}
        BY <1>1, <1>4, <4>1, <4>2, <4>3
      <4>5. Smallest(C) = x - StandardTime
        BY <1>1, <1>6, <1>7, <4>4
      <4> QED BY <1>1, <1>2, <2>2, <3>2, <4>4, <4>5 DEF UtcOf
    <3> QED BY <1>1, <3>1, <3>2
  <2>3. CASE zone = "neither"
    <3>1. a = StandardTime /\ b = StandardTime
      BY <1>1, <2>3 DEF Offset
    <3>2. wallClock(x - StandardTime) = x
      BY <1>1, <2>3, WallClocks
    <3>3. C = {x - StandardTime}
      BY <1>1, <3>1, <3>2
    <3>4. Smallest(C) = x - StandardTime
      BY <1>1, <1>6, <1>7, <3>3
    <3> QED BY <1>1, <1>2, <2>3, <3>3, <3>4 DEF UtcOf
  <2> QED BY <2>1, <2>2, <2>3 DEF ClockTyped
<1>9. UtcOf(x) \in Int
  BY <1>1 DEF UtcOf, ClockTyped
<1> QED BY <1>8, <1>9 DEF x

\* An instant comes after the one given for a time of the wall clock when its
\* own time does.
LEMMA UtcBefore ==
    ASSUME ClockTyped, NEW t \in Int, NEW x \in Int, ~Repeated(t)
    PROVE  UtcOf(x) <= t <=> x <= wallClock(t) /\ ~(zone = "forward" /\ t = Jump /\ x = JumpWall + 1)
<1>1. StandardTime \in Nat /\ JumpWall \in Int /\ Jump = JumpWall - StandardTime /\ Jump \in Int
  BY ClockNumbers
<1>2. CASE zone = "forward"
  <2>1. UtcOf(x) = IF x < JumpWall + 2 THEN x - StandardTime ELSE x - StandardTime - 2
    BY <1>2 DEF UtcOf
  <2>2. wallClock(t) = IF t < Jump THEN t + StandardTime ELSE t + StandardTime + 2
    BY <1>2, WallClocks
  <2> QED BY <1>1, <1>2, <2>1, <2>2
<1>3. CASE zone = "back"
  <2>1. UtcOf(x) = IF x < JumpWall + 2 THEN x - StandardTime - 2 ELSE x - StandardTime
    BY <1>3 DEF UtcOf
  <2>2. wallClock(t) = IF t < Jump THEN t + StandardTime + 2 ELSE t + StandardTime
    BY <1>3, WallClocks
  <2>3. t < Jump - 2 \/ Jump + 1 < t
    BY <1>1, <1>3 DEF Repeated
  <2> QED BY <1>1, <1>3, <2>1, <2>2, <2>3
<1>4. CASE zone = "neither"
  <2>1. UtcOf(x) = x - StandardTime
    BY <1>4 DEF UtcOf
  <2>2. wallClock(t) = t + StandardTime
    BY <1>4, WallClocks
  <2> QED BY <1>1, <1>4, <2>1, <2>2
<1> QED BY <1>2, <1>3, <1>4 DEF ClockTyped

\* The instants given grow with the wall clock, but for the end of the hour
\* that is skipped.
LEMMA UtcGrows ==
    ASSUME ClockTyped, NEW x \in Int, NEW y \in Int, x <= y
    PROVE  /\ UtcOf(x) \in Int /\ UtcOf(y) \in Int
           /\ x # JumpWall + 1 \/ y # JumpWall + 2 => UtcOf(x) <= UtcOf(y)
           /\ x - StandardTime - 2 <= UtcOf(x) /\ UtcOf(x) <= x - StandardTime
<1>1. StandardTime \in Nat /\ JumpWall \in Int
  BY ClockNumbers
<1> QED BY <1>1 DEF UtcOf, ClockTyped

\* Where a day begins on the wall clock.
DayBase(d) == d * DayHalves

\* Days follow one another on the wall clock.
LEMMA DayBases ==
    ASSUME NEW d \in Int
    PROVE  /\ DayBase(d) \in Int /\ DayBase(d + 1) = DayBase(d) + DayHalves
           /\ \A e \in Int : d <= e => DayBase(d) <= DayBase(e)
           /\ d <= 0 => DayBase(d) <= 0
           /\ d = 1 => DayBase(d) = DayHalves
           /\ d >= 2 => DayBase(d) >= 2 * DayHalves
           /\ DayBase(d) # JumpWall + 1 /\ DayBase(d) # JumpWall + 2
           /\ DayBase(d) <= JumpWall /\ JumpWall < DayBase(d) + DayHalves => d = 1
           /\ DayBase(d) % 2 = 0
<1> DEFINE n == DayHalves
           H == DayHours
<1>1. n \in Nat \ {0} /\ JumpWall \in Int /\ n < JumpWall /\ JumpWall + 2 < 2 * n /\ n = 2 * H /\ H \in Nat
  BY ClockNumbers
<1>2. DayBase(d) = d * n /\ \A e \in Int : DayBase(e) = e * n
  BY DEF DayBase
<1> HIDE DEF n, H
<1>3. d * n \in Int /\ (d + 1) * n = d * n + n
  BY <1>1
<1>4. ASSUME NEW e \in Int, d <= e
      PROVE  d * n <= e * n
  BY <1>1, <1>4
<1>5. d <= 0 => d * n <= 0
  BY <1>1
<1>6. d = 1 => d * n = n
  BY <1>1
<1>7. d >= 2 => d * n >= 2 * n
  BY <1>1
<1>8. (d * n) % 2 = 0
  <2> DEFINE m == d * H
  <2>1. m \in Int /\ d * n = 2 * m
    BY <1>1
  <2> HIDE DEF m
  <2> QED BY <2>1
<1>9. d <= 0 \/ d = 1 \/ d >= 2
  OBVIOUS
<1>10. d * n # JumpWall + 1 /\ d * n # JumpWall + 2
  BY <1>1, <1>3, <1>5, <1>6, <1>7, <1>9
<1>11. d * n <= JumpWall /\ JumpWall < d * n + n => d = 1
  BY <1>1, <1>3, <1>5, <1>6, <1>7, <1>9
<1> QED BY <1>2, <1>3, <1>4, <1>5, <1>6, <1>7, <1>8, <1>10, <1>11 DEF n

\* The date of an instant is that of the day its wall clock is in.
LEMMA LocalDay ==
    ASSUME ClockTyped, NEW t \in Int
    PROVE  /\ localDateOf(t) \in Int
           /\ DayBase(localDateOf(t)) <= wallClock(t) /\ wallClock(t) < DayBase(localDateOf(t)) + DayHalves
           /\ \A d \in Int : DayBase(d) <= wallClock(t) /\ wallClock(t) < DayBase(d) + DayHalves
                 => localDateOf(t) = d
           /\ HourAt(t) \in 0..(DayHours - 1) /\ wallClock(t) % 2 \in {0, 1}
           /\ wallClock(t) = DayBase(localDateOf(t)) + 2 * HourAt(t) + (wallClock(t) % 2)
<1> DEFINE w == wallClock(t)
           n == DayHalves
           q == w \div n
           r == w % n
<1>1. w \in Int /\ n \in Nat \ {0} /\ n = 2 * DayHours /\ DayHours \in Nat \ {0}
  BY WallClocks, ClockNumbers
<1>2. q = localDateOf(t) /\ r \div 2 = HourAt(t)
  BY DEF localDateOf, HourAt
<1> HIDE DEF w, n
<1>3. /\ q \in Int /\ r \in 0..(n - 1) /\ w = n * q + r
      /\ \A d \in Int : n * d <= w /\ w < n * d + n => q = d
  BY <1>1, DivMod
<1> HIDE DEF q, r
<1>4. \A d \in Int : DayBase(d) = n * d
  <2>1. \A d \in Int : DayBase(d) = d * n
    BY DEF DayBase, n
  <2> QED BY <1>1, <2>1
<1>5. r \div 2 \in 0..(DayHours - 1) /\ r = 2 * (r \div 2) + (r % 2) /\ r % 2 \in {0, 1}
  BY <1>1, <1>3
<1>6. w % 2 = r % 2
  <2>1. DayBase(q) % 2 = 0 /\ DayBase(q) \in Int
    BY <1>3, DayBases
  <2>2. w = DayBase(q) + r
    BY <1>3, <1>4
  <2> QED BY <1>3, <2>1, <2>2
<1>7. n * q <= w /\ w < n * q + n
  BY <1>1, <1>3
<1>8. w = DayBase(q) + 2 * (r \div 2) + (w % 2)
  <2>1. DayBase(q) \in Int /\ w = DayBase(q) + r
    BY <1>3, <1>4, DayBases
  <2> QED BY <1>1, <1>3, <1>5, <1>6, <2>1
<1> QED BY <1>2, <1>3, <1>4, <1>5, <1>6, <1>7, <1>8 DEF w, n

-----------------------------------------------------------------------------
PieceFrom(h) == Piece(slots[h])[1]
PieceTo(h) == Piece(slots[h])[2]
PieceKind(h) == Piece(slots[h])[3]
WallAt(d, h) == DayBase(d) + 2 * h

\* An hour's piece is within it.
LEMMA SlotFacts ==
    ASSUME ClockTyped
    PROVE  /\ DOMAIN slots = 0..(DayHours - 1)
           /\ \A h \in 0..(DayHours - 1) :
                 /\ PieceFrom(h) \in {0, 1} /\ PieceTo(h) \in {1, 2} /\ PieceFrom(h) < PieceTo(h) /\ PieceKind(h) \in Statuses3
                 /\ PieceTo(h) = 1 <=> slots[h] \in {"first", "mfirst"}
<1>1. slots \in [0..(DayHours - 1) -> SlotStatus]
  BY ClockConstants DEF ClockTyped
<1>2. \A h \in 0..(DayHours - 1) : slots[h] \in SlotStatus
  BY <1>1
<1> QED BY <1>1, <1>2, Pieces DEF PieceFrom, PieceTo, PieceKind

\* The window of an hour's piece, in instants.
LEMMA PieceIs ==
    ASSUME ClockTyped, NEW d \in Int, NEW h \in 0..(DayHours - 1)
    PROVE  /\ PieceOf(d, h, slots[h]).start = UtcOf(WallAt(d, h) + PieceFrom(h))
           /\ PieceOf(d, h, slots[h]).end = UtcOf(WallAt(d, h) + PieceTo(h))
           /\ PieceOf(d, h, slots[h]).status = PieceKind(h) /\ PieceOf(d, h, slots[h]).source = "weekly"
           /\ PieceOf(d, h, slots[h]) \in [start : Int, end : Int, status : Statuses3, source : Sources2]
           /\ WallAt(d, h) + PieceFrom(h) \in Int /\ WallAt(d, h) + PieceTo(h) \in Int
<1>1. h \in Int /\ PieceFrom(h) \in {0, 1} /\ PieceTo(h) \in {1, 2} /\ PieceKind(h) \in Statuses3
  BY SlotFacts, ClockNumbers
<1>2. DayBase(d) \in Int /\ DayBase(d) = d * DayHalves
  BY DayBases DEF DayBase
<1>3. 2 * h + PieceFrom(h) \in Int /\ 2 * h + PieceTo(h) \in Int
  BY <1>1
<1>4. /\ d * DayHalves + (2 * h + PieceFrom(h)) = WallAt(d, h) + PieceFrom(h)
      /\ d * DayHalves + (2 * h + PieceTo(h)) = WallAt(d, h) + PieceTo(h)
      /\ WallAt(d, h) + PieceFrom(h) \in Int /\ WallAt(d, h) + PieceTo(h) \in Int
  BY <1>1, <1>2 DEF WallAt
<1>5. wallToUtc(d, 2 * h + PieceFrom(h)) = UtcOf(WallAt(d, h) + PieceFrom(h)) /\ UtcOf(WallAt(d, h) + PieceFrom(h)) \in Int
  BY <1>3, <1>4, UtcIs
<1>6. wallToUtc(d, 2 * h + PieceTo(h)) = UtcOf(WallAt(d, h) + PieceTo(h)) /\ UtcOf(WallAt(d, h) + PieceTo(h)) \in Int
  BY <1>3, <1>4, UtcIs
<1>7. PieceOf(d, h, slots[h]) = Window(wallToUtc(d, 2 * h + PieceFrom(h)), wallToUtc(d, 2 * h + PieceTo(h)), PieceKind(h), "weekly")
  BY DEF PieceOf, PieceFrom, PieceTo, PieceKind
<1> QED BY <1>1, <1>4, <1>5, <1>6, <1>7 DEF Window, Sources2

\* The windows of a day, before they are joined.
DayPiecesOf(d) ==
    {w \in {PieceOf(d, h, slots[h]) : h \in {i \in DOMAIN slots : slots[i] # "yes"}} : w.start < w.end}

\* The windows of a day's slots lie between its beginning and its end.
LEMMA DayPiecesWithin ==
    ASSUME ClockTyped, NEW d \in Int
    PROVE  DayPiecesOf(d) \subseteq WindowsIn(UtcOf(DayBase(d)), UtcOf(DayBase(d) + DayHalves))
<1> SUFFICES ASSUME NEW w \in DayPiecesOf(d)
             PROVE  w \in WindowsIn(UtcOf(DayBase(d)), UtcOf(DayBase(d) + DayHalves))
  OBVIOUS
<1>1. PICK h \in DOMAIN slots : slots[h] # "yes" /\ w = PieceOf(d, h, slots[h]) /\ w.start < w.end
  BY DEF DayPiecesOf
<1>2. h \in 0..(DayHours - 1) /\ PieceFrom(h) \in {0, 1} /\ PieceTo(h) \in {1, 2}
  BY SlotFacts
<1>3. /\ DayBase(d) \in Int /\ DayBase(d) + DayHalves = DayBase(d + 1) /\ DayBase(d) # JumpWall + 1
      /\ DayHalves = 2 * DayHours /\ DayHours \in Nat
  BY DayBases, ClockNumbers
<1>4. DayBase(d + 1) # JumpWall + 2 /\ DayBase(d + 1) \in Int
  BY DayBases
<1>5. /\ DayBase(d) <= WallAt(d, h) + PieceFrom(h) /\ WallAt(d, h) + PieceTo(h) <= DayBase(d) + DayHalves
      /\ WallAt(d, h) + PieceFrom(h) \in Int /\ WallAt(d, h) + PieceTo(h) \in Int /\ DayBase(d) + DayHalves \in Int
  BY <1>2, <1>3 DEF WallAt
<1>6. UtcOf(DayBase(d)) <= UtcOf(WallAt(d, h) + PieceFrom(h))
  BY <1>3, <1>5, UtcGrows
<1>7. UtcOf(WallAt(d, h) + PieceTo(h)) <= UtcOf(DayBase(d) + DayHalves)
  BY <1>3, <1>4, <1>5, UtcGrows
<1>8. /\ w.start = UtcOf(WallAt(d, h) + PieceFrom(h)) /\ w.end = UtcOf(WallAt(d, h) + PieceTo(h))
      /\ w \in [start : Int, end : Int, status : Statuses3, source : Sources2]
  BY <1>1, <1>2, PieceIs
<1> QED BY <1>1, <1>6, <1>7, <1>8 DEF WindowsIn

\* A day's windows show an instant, other than in the hour that runs twice,
\* when the site does, or in the half hour after the hour that is skipped.
LEMMA DayPiecesShow ==
    ASSUME ClockTyped, NEW d \in Int, NEW t \in Int, NEW status, ~Repeated(t)
    PROVE  Shows(DayPiecesOf(d), "weekly", status, t)
           <=> (localDateOf(t) = d /\ SiteSays(t, status)) \/ (d = 1 /\ Skipped(t, status))
<1> DEFINE w == wallClock(t)
           b == DayBase(d)
<1>1. /\ w \in Int /\ b \in Int /\ DayHours \in Nat \ {0} /\ DayHalves = 2 * DayHours /\ JumpWall \in Int
      /\ JumpWall = DayHalves + 2 * JumpHour /\ JumpHour \in 1..(DayHours - 2)
      /\ StandardTime \in Nat /\ Jump = JumpWall - StandardTime
  BY WallClocks, DayBases, ClockNumbers DEF JumpWall
<1>2. /\ localDateOf(t) \in Int /\ HourAt(t) \in 0..(DayHours - 1) /\ w % 2 \in {0, 1}
      /\ w = DayBase(localDateOf(t)) + 2 * HourAt(t) + (w % 2)
      /\ b <= w /\ w < b + DayHalves => localDateOf(t) = d
  BY LocalDay
<1>3. \A h \in 0..(DayHours - 1) : /\ PieceFrom(h) \in {0, 1} /\ PieceTo(h) \in {1, 2} /\ PieceFrom(h) < PieceTo(h)
                                   /\ PieceTo(h) = 1 <=> slots[h] \in {"first", "mfirst"}
  BY SlotFacts
<1> HIDE DEF w, b
<1>4. ASSUME NEW h \in 0..(DayHours - 1)
      PROVE  UtcOf(WallAt(d, h) + PieceFrom(h)) <= t /\ t < UtcOf(WallAt(d, h) + PieceTo(h))
             <=> \/ localDateOf(t) = d /\ HourAt(t) = h /\ w % 2 \in PieceFrom(h)..(PieceTo(h) - 1)
                 \/ zone = "forward" /\ t = Jump /\ d = 1 /\ h = JumpHour /\ PieceTo(h) = 1
  <2> DEFINE x == WallAt(d, h) + PieceFrom(h)
             y == WallAt(d, h) + PieceTo(h)
  <2>1. x = b + 2 * h + PieceFrom(h) /\ y = b + 2 * h + PieceTo(h) /\ x \in Int /\ y \in Int
    BY <1>1, <1>3 DEF WallAt, b
  <2>2. UtcOf(x) \in Int /\ UtcOf(y) \in Int
    BY <2>1, UtcGrows
  <2>3. UtcOf(x) <= t <=> x <= w /\ ~(zone = "forward" /\ t = Jump /\ x = JumpWall + 1)
    BY <2>1, UtcBefore DEF w
  <2>4. UtcOf(y) <= t <=> y <= w /\ ~(zone = "forward" /\ t = Jump /\ y = JumpWall + 1)
    BY <2>1, UtcBefore DEF w
  <2> HIDE DEF x, y
  <2>5. zone = "forward" /\ t = Jump => w = JumpWall + 2
    BY <1>1, WallClocks DEF w
  <2>6. PieceFrom(h) \in {0, 1} /\ PieceTo(h) \in {1, 2} /\ PieceFrom(h) < PieceTo(h)
    BY <1>3
  <2>7. UtcOf(x) <= t /\ t < UtcOf(y)
        <=> (x <= w /\ w < y) \/ (zone = "forward" /\ t = Jump /\ y = JumpWall + 1)
    <3>1. t < UtcOf(y) <=> ~(UtcOf(y) <= t)
      BY <2>2
    <3>0. PICK k \in Int : b = 2 * k
      <4>1. b % 2 = 0 /\ b \in Int
        BY DayBases DEF b
      <4>2. b \div 2 \in Int /\ b = 2 * (b \div 2)
        BY <4>1
      <4> QED BY <4>2
    <3>9. k + h \in Int /\ DayHours + JumpHour \in Int /\ JumpWall = 2 * (DayHours + JumpHour)
          /\ x = 2 * (k + h) + PieceFrom(h) /\ y = 2 * (k + h) + PieceTo(h)
      BY <1>1, <2>1, <2>6, <3>0
    <3>2. x < y /\ (y = JumpWall + 1 => x = JumpWall)
      BY <2>6, <3>9
    <3>3. CASE zone = "forward" /\ t = Jump
      <4>1. UtcOf(x) <= t <=> x <= JumpWall + 2 /\ x # JumpWall + 1
        BY <2>3, <2>5, <3>3
      <4>2. UtcOf(y) <= t <=> y <= JumpWall + 2 /\ y # JumpWall + 1
        BY <2>4, <2>5, <3>3
      <4>3. x = y - 1 \/ x = y - 2
        BY <1>1, <2>1, <2>6
      <4>4. x = JumpWall + 1 => y = JumpWall + 2
        BY <2>6, <3>9
      <4> QED BY <1>1, <2>1, <2>5, <3>1, <3>2, <3>3, <4>1, <4>2, <4>3, <4>4
    <3>4. CASE ~(zone = "forward" /\ t = Jump)
      <4>1. (UtcOf(x) <= t <=> x <= w) /\ (UtcOf(y) <= t <=> y <= w)
        BY <2>3, <2>4, <3>4
      <4> QED BY <1>1, <2>1, <3>1, <3>4, <4>1
    <3> QED BY <3>3, <3>4
  <2>8. (x <= w /\ w < y) <=> localDateOf(t) = d /\ HourAt(t) = h /\ w % 2 \in PieceFrom(h)..(PieceTo(h) - 1)
    <3>1. ASSUME x <= w, w < y
          PROVE  localDateOf(t) = d /\ HourAt(t) = h /\ w % 2 \in PieceFrom(h)..(PieceTo(h) - 1)
      <4>1. b <= w /\ w < b + DayHalves
        BY <1>1, <2>1, <2>6, <3>1
      <4>2. localDateOf(t) = d
        BY <1>2, <4>1
      <4>3. w = b + 2 * HourAt(t) + (w % 2)
        BY <1>2, <4>2 DEF b
      <4> QED BY <1>1, <1>2, <2>1, <2>6, <3>1, <4>2, <4>3
    <3>2. ASSUME localDateOf(t) = d, HourAt(t) = h, w % 2 \in PieceFrom(h)..(PieceTo(h) - 1)
          PROVE  x <= w /\ w < y
      <4>1. w = b + 2 * h + (w % 2)
        BY <1>2, <3>2 DEF b
      <4> QED BY <1>1, <1>2, <2>1, <2>6, <3>2, <4>1
    <3> QED BY <3>1, <3>2
  <2>9. y = JumpWall + 1 <=> d = 1 /\ h = JumpHour /\ PieceTo(h) = 1
    <3>1. ASSUME y = JumpWall + 1
          PROVE  d = 1 /\ h = JumpHour /\ PieceTo(h) = 1
      <4>1. b % 2 = 0 /\ (b <= JumpWall /\ JumpWall < b + DayHalves => d = 1) /\ (d = 1 => b = DayHalves)
        BY DayBases DEF b
      <4>2. PieceTo(h) = 1
        BY <1>1, <2>1, <2>6, <3>1, <4>1
      <4>3. d = 1
        BY <1>1, <2>1, <3>1, <4>1, <4>2
      <4> QED BY <1>1, <2>1, <3>1, <4>1, <4>2, <4>3
    <3>2. ASSUME d = 1, h = JumpHour, PieceTo(h) = 1
          PROVE  y = JumpWall + 1
      <4>1. b = DayHalves
        BY <3>2, DayBases DEF b
      <4> QED BY <1>1, <2>1, <3>2, <4>1
    <3> QED BY <3>1, <3>2
  <2> QED BY <2>7, <2>8, <2>9 DEF x, y
<1>5. Shows(DayPiecesOf(d), "weekly", status, t)
      <=> \E h \in 0..(DayHours - 1) : /\ slots[h] # "yes" /\ PieceKind(h) = status
                                       /\ UtcOf(WallAt(d, h) + PieceFrom(h)) <= t /\ t < UtcOf(WallAt(d, h) + PieceTo(h))
  <2>1. \A h \in 0..(DayHours - 1) :
           /\ PieceOf(d, h, slots[h]).start = UtcOf(WallAt(d, h) + PieceFrom(h))
           /\ PieceOf(d, h, slots[h]).end = UtcOf(WallAt(d, h) + PieceTo(h))
           /\ PieceOf(d, h, slots[h]).status = PieceKind(h) /\ PieceOf(d, h, slots[h]).source = "weekly"
           /\ PieceOf(d, h, slots[h]).start \in Int /\ PieceOf(d, h, slots[h]).end \in Int
    BY PieceIs
  <2>2. ASSUME Shows(DayPiecesOf(d), "weekly", status, t)
        PROVE  \E h \in 0..(DayHours - 1) : /\ slots[h] # "yes" /\ PieceKind(h) = status
                                       /\ UtcOf(WallAt(d, h) + PieceFrom(h)) <= t /\ t < UtcOf(WallAt(d, h) + PieceTo(h))
    <3>1. PICK u \in DayPiecesOf(d) : u.status = status /\ u.start <= t /\ t < u.end
      BY <2>2 DEF Shows
    <3>2. PICK h \in DOMAIN slots : slots[h] # "yes" /\ u = PieceOf(d, h, slots[h])
      BY DEF DayPiecesOf
    <3>3. h \in 0..(DayHours - 1)
      BY SlotFacts
    <3> QED BY <2>1, <3>1, <3>2, <3>3
  <2>3. ASSUME NEW h \in 0..(DayHours - 1), slots[h] # "yes", PieceKind(h) = status,
               UtcOf(WallAt(d, h) + PieceFrom(h)) <= t, t < UtcOf(WallAt(d, h) + PieceTo(h))
        PROVE  Shows(DayPiecesOf(d), "weekly", status, t)
    <3> DEFINE u == PieceOf(d, h, slots[h])
    <3>1. u.start <= t /\ t < u.end /\ u.status = status /\ u.source = "weekly" /\ u.start \in Int /\ u.end \in Int
      BY <2>1, <2>3
    <3>2. h \in DOMAIN slots
      BY SlotFacts
    <3>3. u \in DayPiecesOf(d)
      BY <2>3, <3>1, <3>2 DEF DayPiecesOf
    <3> HIDE DEF u
    <3> QED BY <3>1, <3>3 DEF Shows
  <2> QED BY <2>2, <2>3
<1>6. SiteSays(t, status)
      <=> slots[HourAt(t)] # "yes" /\ PieceKind(HourAt(t)) = status /\ w % 2 \in PieceFrom(HourAt(t))..(PieceTo(HourAt(t)) - 1)
  BY DEF SiteSays, PieceKind, PieceFrom, PieceTo, w
<1>7. Skipped(t, status) <=> zone = "forward" /\ t = Jump /\ PieceTo(JumpHour) = 1 /\ PieceKind(JumpHour) = status
  <2>1. JumpHour \in 0..(DayHours - 1)
    BY <1>1
  <2> QED BY <1>3, <2>1 DEF Skipped, PieceKind
<1>8. PieceTo(JumpHour) = 1 => slots[JumpHour] # "yes"
  <2>1. JumpHour \in 0..(DayHours - 1)
    BY <1>1
  <2> QED BY <1>3, <2>1
<1>9. JumpHour \in 0..(DayHours - 1)
  BY <1>1
<1> QED BY <1>2, <1>4, <1>5, <1>6, <1>7, <1>8, <1>9

\* In the hour that runs twice, a day's windows show what the site does, but
\* for a first half of it in its second run.
LEMMA RepeatedShows ==
    ASSUME ClockTyped, NEW t \in Int, NEW status, Repeated(t)
    PROVE  /\ localDateOf(t) = 1
           /\ SiteSays(t, status) /\ (t < Jump \/ slots[HourAt(t)] \notin {"first", "mfirst"})
                 => Shows(DayPiecesOf(1), "weekly", status, t)
<1> DEFINE w == wallClock(t)
           h == JumpHour
           r == w % 2
<1>1. /\ DayHours \in Nat \ {0} /\ DayHalves = 2 * DayHours /\ JumpWall \in Int
      /\ JumpWall = DayHalves + 2 * h /\ h \in 1..(DayHours - 2) /\ h \in 0..(DayHours - 1)
      /\ StandardTime \in Nat /\ Jump = JumpWall - StandardTime
  BY ClockNumbers DEF JumpWall
<1>2. zone = "back" /\ t \in (Jump - 2)..(Jump + 1)
  BY DEF Repeated
<1>3. w = IF t < Jump THEN t + StandardTime + 2 ELSE t + StandardTime
  BY <1>2, WallClocks
<1>4. w \in {JumpWall, JumpWall + 1} /\ DayBase(1) = DayHalves
  <2>1. DayBase(1) = DayHalves
    <3>1. 1 \in Int
      OBVIOUS
    <3> QED BY <3>1, DayBases
  <2>2. w \in {JumpWall, JumpWall + 1}
    BY <1>1, <1>2, <1>3
  <2> QED BY <2>1, <2>2
<1>5. localDateOf(t) = 1
  <2>1. DayBase(1) <= w /\ w < DayBase(1) + DayHalves
    BY <1>1, <1>4
  <2> QED BY <2>1, LocalDay
<1>6. HourAt(t) = h /\ r \in {0, 1} /\ w = JumpWall + r
  <2>1. HourAt(t) \in 0..(DayHours - 1) /\ r \in {0, 1} /\ w = DayBase(1) + 2 * HourAt(t) + r
    BY <1>5, LocalDay
  <2> HIDE DEF w, r
  <2> QED BY <1>1, <1>4, <2>1
<1> HIDE DEF w, r, h
<1>7. ASSUME SiteSays(t, status), t < Jump \/ slots[HourAt(t)] \notin {"first", "mfirst"}
      PROVE  Shows(DayPiecesOf(1), "weekly", status, t)
  <2>1. slots[h] # "yes" /\ PieceKind(h) = status /\ r \in PieceFrom(h)..(PieceTo(h) - 1)
    BY <1>6, <1>7 DEF SiteSays, PieceKind, PieceFrom, PieceTo, w, r
  <2>2. /\ PieceFrom(h) \in {0, 1} /\ PieceTo(h) \in {1, 2} /\ PieceFrom(h) < PieceTo(h)
        /\ PieceTo(h) = 1 => t < Jump
    BY <1>1, <1>6, <1>7, SlotFacts
  <2>3. WallAt(1, h) = JumpWall
    BY <1>1, <1>4 DEF WallAt
  <2>4. /\ UtcOf(JumpWall + PieceFrom(h)) = JumpWall + PieceFrom(h) - StandardTime - 2
        /\ UtcOf(JumpWall + PieceTo(h)) = IF PieceTo(h) = 2 THEN Jump + 2 ELSE Jump - 1
    BY <1>1, <1>2, <2>2 DEF UtcOf
  <2>5. UtcOf(JumpWall + PieceFrom(h)) <= t /\ t < UtcOf(JumpWall + PieceTo(h))
    BY <1>1, <1>2, <1>3, <1>6, <2>1, <2>2, <2>4
  <2> DEFINE u == PieceOf(1, h, slots[h])
  <2>6. /\ u.start = UtcOf(JumpWall + PieceFrom(h)) /\ u.end = UtcOf(JumpWall + PieceTo(h))
        /\ u.status = status /\ u.source = "weekly" /\ u.start \in Int /\ u.end \in Int
    BY <1>1, <2>1, <2>3, PieceIs
  <2>7. h \in DOMAIN slots
    BY <1>1, SlotFacts
  <2>8. u \in DayPiecesOf(1)
    BY <2>1, <2>5, <2>6, <2>7 DEF DayPiecesOf
  <2> HIDE DEF u
  <2> QED BY <2>5, <2>6, <2>8 DEF Shows
<1> QED BY <1>5, <1>7

-----------------------------------------------------------------------------
\* An instant is shown, of a date or not, as the site says.
RightlyShown(windows, t, status) ==
    IF Repeated(t)
    THEN SiteSays(t, status) /\ (t < Jump \/ slots[HourAt(t)] \notin {"first", "mfirst"})
            => Shows(windows, "weekly", status, t)
    ELSE Shows(windows, "weekly", status, t) <=> (SiteSays(t, status) \/ Skipped(t, status))

\* Windows given for [from, to): the site's, none outside, and apart.
Answer(windows, from, to) ==
    /\ windows \subseteq WindowsIn(from, to) /\ Apart(windows)
    /\ \A w \in windows : w.source = "weekly"
    /\ \A t \in from..(to - 1) : \A status \in Statuses3 : RightlyShown(windows, t, status)

\* The windows of a date are the site's.
LEMMA DayIs ==
    ASSUME ClockTyped, NEW d \in Int
    PROVE  /\ dayWindowsOf(d) \subseteq WindowsIn(UtcOf(DayBase(d)), UtcOf(DayBase(d) + DayHalves))
           /\ Apart(dayWindowsOf(d))
           /\ \A w \in dayWindowsOf(d) : w.source = "weekly"
           /\ \A status : \A t \in Int :
                 Shows(dayWindowsOf(d), "weekly", status, t) <=> Shows(DayPiecesOf(d), "weekly", status, t)
           /\ UtcOf(DayBase(d)) \in Int /\ UtcOf(DayBase(d) + DayHalves) \in Int
<1> DEFINE P == DayPiecesOf(d)
           lo == UtcOf(DayBase(d))
           hi == UtcOf(DayBase(d) + DayHalves)
<1>1. lo \in Int /\ hi \in Int
  <2>1. DayBase(d) \in Int /\ DayBase(d) + DayHalves \in Int
    BY DayBases, ClockNumbers
  <2> QED BY <2>1, UtcGrows
<1>2. dayWindowsOf(d) = joinWindows(P)
  BY DEF dayWindowsOf, DayPiecesOf
<1>3. P \subseteq WindowsIn(lo, hi)
  BY DayPiecesWithin
<1>4. \A w \in P : w.source = "weekly"
  <2>1. ASSUME NEW w \in P
        PROVE  w.source = "weekly"
    <3>1. PICK h \in DOMAIN slots : w = PieceOf(d, h, slots[h])
      BY DEF DayPiecesOf
    <3>2. h \in 0..(DayHours - 1)
      BY SlotFacts
    <3> QED BY <3>1, <3>2, PieceIs
  <2> QED BY <2>1
<1> HIDE DEF P, lo, hi
<1>5. joinWindows(P) \subseteq WindowsIn(lo, hi)
  BY <1>1, <1>3, JoinedWindows
<1>6. Apart(joinWindows(P))
  BY <1>1, <1>3, JoinedApart
<1>7. \A w \in joinWindows(P) : w.source = "weekly"
  BY <1>1, <1>3, <1>4, JoinedSource
<1>8. \A status : \A t \in Int : Shows(joinWindows(P), "weekly", status, t) <=> Shows(P, "weekly", status, t)
  BY <1>1, <1>3, JoiningShows
<1> QED BY <1>1, <1>2, <1>5, <1>6, <1>7, <1>8 DEF P, lo, hi

\* What the windows of the days in `dates` show, when these are the days the
\* range is in.
LEMMA DaysShow ==
    ASSUME ClockTyped, NEW dates \in SUBSET Int, NEW t \in Int, localDateOf(t) \in dates, NEW status, NEW windows,
           Shows(windows, "weekly", status, t) <=> \E d \in dates : Shows(DayPiecesOf(d), "weekly", status, t)
    PROVE  RightlyShown(windows, t, status)
<1>1. CASE Repeated(t)
  BY <1>1, RepeatedShows DEF RightlyShown
<1>2. CASE ~Repeated(t)
  <2>1. \A d \in dates : Shows(DayPiecesOf(d), "weekly", status, t)
           <=> (localDateOf(t) = d /\ SiteSays(t, status)) \/ (d = 1 /\ Skipped(t, status))
    BY <1>2, DayPiecesShow
  <2>2. Skipped(t, status) => localDateOf(t) = 1
    <3>1. ASSUME Skipped(t, status)
          PROVE  localDateOf(t) = 1
      <4>1. zone = "forward" /\ t = Jump
        BY <3>1 DEF Skipped
      <4>2. /\ Jump = JumpWall - StandardTime /\ StandardTime \in Nat /\ JumpWall \in Int
            /\ DayHalves < JumpWall /\ JumpWall + 2 < 2 * DayHalves /\ DayHalves \in Nat
        BY ClockNumbers
      <4>3. wallClock(t) = t + StandardTime + 2
        BY <4>1, <4>2, WallClocks
      <4>4. DayBase(1) = DayHalves
        BY DayBases
      <4>5. DayBase(1) <= wallClock(t) /\ wallClock(t) < DayBase(1) + DayHalves
        BY <4>1, <4>2, <4>3, <4>4
      <4> QED BY <4>5, LocalDay
    <3> QED BY <3>1
  <2>3. (\E d \in dates : Shows(DayPiecesOf(d), "weekly", status, t)) <=> (SiteSays(t, status) \/ Skipped(t, status))
    BY <2>1, <2>2
  <2> QED BY <1>2, <2>3 DEF RightlyShown
<1> QED BY <1>1, <1>2

\* A day's windows are the site's.
LEMMA DayAnswers ==
    ASSUME ClockTyped, NEW d \in Int
    PROVE  Answer(dayWindowsOf(d), UtcOf(DayBase(d)), UtcOf(DayBase(d) + DayHalves))
<1> DEFINE S == dayWindowsOf(d)
           from == UtcOf(DayBase(d))
           to == UtcOf(DayBase(d) + DayHalves)
<1>1. /\ from \in Int /\ to \in Int /\ S \subseteq WindowsIn(from, to) /\ Apart(S) /\ \A w \in S : w.source = "weekly"
  BY DayIs
<1>2. ASSUME NEW t \in from..(to - 1), NEW status
      PROVE  RightlyShown(S, t, status)
  <2>1. t \in Int /\ from <= t /\ t < to /\ ~(to <= t)
    BY <1>1
  <2>2. DayBase(d) \in Int /\ DayBase(d) + DayHalves = DayBase(d + 1) /\ DayBase(d) # JumpWall + 1
    BY DayBases
  <2>3. DayBase(d + 1) # JumpWall + 1 /\ DayBase(d + 1) \in Int
    BY DayBases
  <2>4. localDateOf(t) = d
    <3>1. CASE ~Repeated(t)
      <4>1. from <= t <=> DayBase(d) <= wallClock(t)
        BY <2>1, <2>2, <3>1, UtcBefore
      <4>2. to <= t <=> DayBase(d) + DayHalves <= wallClock(t)
        BY <2>1, <2>2, <2>3, <3>1, UtcBefore
      <4>3. wallClock(t) \in Int /\ DayBase(d) + DayHalves \in Int
        BY <2>1, <2>2, <2>3, WallClocks
      <4>4. DayBase(d) <= wallClock(t) /\ wallClock(t) < DayBase(d) + DayHalves
        BY <2>1, <4>1, <4>2, <4>3
      <4> QED BY <2>1, <4>4, LocalDay
    <3>2. CASE Repeated(t)
      <4>1. /\ zone = "back" /\ t \in (Jump - 2)..(Jump + 1) /\ StandardTime \in Nat /\ JumpWall \in Int
            /\ Jump = JumpWall - StandardTime /\ DayHalves < JumpWall /\ JumpWall + 2 < 2 * DayHalves /\ DayHalves \in Nat
        BY <3>2, ClockNumbers DEF Repeated
      <4>2. /\ from = IF DayBase(d) < JumpWall + 2 THEN DayBase(d) - StandardTime - 2 ELSE DayBase(d) - StandardTime
            /\ to = IF DayBase(d) + DayHalves < JumpWall + 2 THEN DayBase(d) + DayHalves - StandardTime - 2
                    ELSE DayBase(d) + DayHalves - StandardTime
        <5>1. \A x : UtcOf(x) = IF x < JumpWall + 2 THEN x - StandardTime - 2 ELSE x - StandardTime
          BY <4>1 DEF UtcOf
        <5>2. from = IF DayBase(d) < JumpWall + 2 THEN DayBase(d) - StandardTime - 2 ELSE DayBase(d) - StandardTime
          BY <5>1
        <5> DEFINE e == DayBase(d) + DayHalves
        <5>3. UtcOf(e) = IF e < JumpWall + 2 THEN e - StandardTime - 2 ELSE e - StandardTime
          BY <5>1
        <5>4. to = IF e < JumpWall + 2 THEN e - StandardTime - 2 ELSE e - StandardTime
          BY <5>3
        <5> HIDE DEF from, to
        <5>5. to = IF DayBase(d) + DayHalves < JumpWall + 2 THEN DayBase(d) + DayHalves - StandardTime - 2
                   ELSE DayBase(d) + DayHalves - StandardTime
          BY <2>2, <4>1, <5>4
        <5> QED BY <5>2, <5>5
      <4>3. /\ d <= 0 => DayBase(d) <= 0
            /\ d >= 2 => DayBase(d) >= 2 * DayHalves
            /\ d <= 0 \/ d = 1 \/ d >= 2
        <5>1. d <= 0 \/ d = 1 \/ d >= 2
          OBVIOUS
        <5>2. d <= 0 => DayBase(d) <= 0
          BY DayBases
        <5>3. d >= 2 => DayBase(d) >= 2 * DayHalves
          BY DayBases
        <5> QED BY <5>1, <5>2, <5>3
      <4> HIDE DEF from, to
      <4>4. d = 1
        BY <2>1, <2>2, <4>1, <4>2, <4>3
      <4> QED BY <2>1, <3>2, <4>4, RepeatedShows
    <3> QED BY <3>1, <3>2
  <2>5. Shows(S, "weekly", status, t) <=> \E e \in {d} : Shows(DayPiecesOf(e), "weekly", status, t)
    BY <2>1, DayIs
  <2>6. {d} \in SUBSET Int /\ localDateOf(t) \in {d}
    BY <2>4
  <2> HIDE DEF S, from, to
  <2> QED BY <2>1, <2>5, <2>6, DaysShow
<1> QED BY <1>1, <1>2 DEF Answer

\* The clock's date does not go back.
LEMMA DatesFollow ==
    ASSUME ClockTyped, NEW s \in Int, NEW t \in Int, s <= t
    PROVE  localDateOf(s) <= localDateOf(t) /\ localDateOf(s) \in Int /\ localDateOf(t) \in Int
<1> DEFINE v == wallClock(s)
           w == wallClock(t)
           p == localDateOf(s)
           q == localDateOf(t)
<1>1. v \in Int /\ w \in Int /\ p \in Int /\ q \in Int
  BY WallClocks, LocalDay
<1>2. DayBase(p) <= v /\ v < DayBase(p) + DayHalves /\ DayBase(q) <= w /\ w < DayBase(q) + DayHalves
  BY LocalDay
<1>3. /\ StandardTime \in Nat /\ JumpWall \in Int /\ DayHalves \in Nat
      /\ Jump = JumpWall - StandardTime /\ DayHalves < JumpWall /\ JumpWall + 2 < 2 * DayHalves
  BY ClockNumbers
<1>4. CASE v <= w
  <2>1. ASSUME q + 1 <= p
        PROVE  FALSE
    <3>1. q + 1 \in Int /\ DayBase(q + 1) <= DayBase(p) /\ DayBase(q + 1) = DayBase(q) + DayHalves
      <4>1. q + 1 \in Int
        BY <1>1
      <4>2. DayBase(q + 1) = DayBase(q) + DayHalves
        BY <1>1, DayBases
      <4>3. DayBase(q + 1) <= DayBase(p)
        BY <1>1, <2>1, <4>1, DayBases
      <4> QED BY <4>1, <4>2, <4>3
    <3>2. DayBase(p) \in Int /\ DayBase(q) \in Int
      BY <1>1, DayBases
    <3> HIDE DEF p, q, v, w
    <3> QED BY <1>1, <1>2, <1>3, <1>4, <3>1, <3>2
  <2> QED BY <1>1, <2>1
<1>5. CASE w < v
  <2>1. zone = "back" /\ s = Jump - 1 /\ t = Jump
    <3>1. CASE zone = "forward"
      <4>1. v = IF s < Jump THEN s + StandardTime ELSE s + StandardTime + 2
        BY <3>1, WallClocks
      <4>2. w = IF t < Jump THEN t + StandardTime ELSE t + StandardTime + 2
        BY <3>1, WallClocks
      <4> QED BY <1>3, <1>5, <4>1, <4>2
    <3>2. CASE zone = "back"
      <4>1. v = IF s < Jump THEN s + StandardTime + 2 ELSE s + StandardTime
        BY <3>2, WallClocks
      <4>2. w = IF t < Jump THEN t + StandardTime + 2 ELSE t + StandardTime
        BY <3>2, WallClocks
      <4> QED BY <1>3, <1>5, <3>2, <4>1, <4>2
    <3>3. CASE zone = "neither"
      <4>1. v = s + StandardTime /\ w = t + StandardTime
        BY <3>3, WallClocks
      <4> QED BY <1>3, <1>5, <4>1
    <3> QED BY <3>1, <3>2, <3>3 DEF ClockTyped
  <2>2. Repeated(s) /\ Repeated(t)
    BY <1>3, <2>1 DEF Repeated
  <2>3. p = 1 /\ q = 1
    BY <2>2, RepeatedShows
  <2> QED BY <2>3
<1> QED BY <1>1, <1>4, <1>5

\* The pattern over a range is the site's.
LEMMA RangeAnswers ==
    ASSUME ClockTyped, NEW from \in Int, NEW to \in Int
    PROVE  Answer(weeklyWindowsOver(from, to), from, to)
<1>1. CASE to <= from
  <2>1. weeklyWindowsOver(from, to) = {} /\ from..(to - 1) = {}
    BY <1>1 DEF weeklyWindowsOver
  <2> QED BY <2>1 DEF Answer, Apart
<1>2. CASE from < to
  <2> DEFINE dates == Dates(from, to)
             P == UNION {dayWindowsOf(d) : d \in dates}
             first == localDateOf(from)
             last == localDateOf(to)
             lo == DayBase(first) - StandardTime - 2
             hi == DayBase(last) + DayHalves - StandardTime
             J == joinWindows(P)
             C == cutWindows(J, from, to)
  <2>1. first \in Int /\ last \in Int /\ dates = first..last /\ dates \in SUBSET Int
    BY LocalDay DEF Dates
  <2>2. weeklyWindowsOver(from, to) = C
    BY <1>2 DEF weeklyWindowsOver
  <2>3. lo \in Int /\ hi \in Int
    <3>1. StandardTime \in Int /\ DayHalves \in Int
      BY ClockNumbers
    <3>2. DayBase(first) \in Int
      BY <2>1, DayBases
    <3>3. DayBase(last) \in Int
      BY <2>1, DayBases
    <3> QED BY <3>1, <3>2, <3>3
  <2>4. ASSUME NEW d \in dates
        PROVE  /\ dayWindowsOf(d) \subseteq WindowsIn(lo, hi)
               /\ \A w \in dayWindowsOf(d) : w.source = "weekly"
    <3>1. d \in Int /\ first <= d /\ d <= last
      BY <2>1
    <3>2. DayBase(first) <= DayBase(d) /\ DayBase(first) \in Int
      BY <2>1, <3>1, DayBases
    <3>3. DayBase(d) <= DayBase(last) /\ DayBase(last) \in Int /\ DayBase(d) \in Int
      BY <2>1, <3>1, DayBases
    <3>4. StandardTime \in Nat /\ DayHalves \in Nat
      BY ClockNumbers
    <3> DEFINE a == UtcOf(DayBase(d))
               b == UtcOf(DayBase(d) + DayHalves)
    <3>5. DayBase(d) - StandardTime - 2 <= a /\ a \in Int
      BY <3>3, UtcGrows
    <3>6. b <= DayBase(d) + DayHalves - StandardTime /\ b \in Int
      <4>1. DayBase(d) + DayHalves \in Int
        BY <3>3, <3>4
      <4> DEFINE e == DayBase(d) + DayHalves
      <4> HIDE DEF e
      <4>2. UtcOf(e) <= e - StandardTime /\ UtcOf(e) \in Int
        BY <4>1, UtcGrows DEF e
      <4>3. e - StandardTime = DayBase(d) + DayHalves - StandardTime
        BY <3>3, <3>4 DEF e
      <4> QED BY <4>2, <4>3 DEF e
    <3>7. dayWindowsOf(d) \subseteq WindowsIn(a, b) /\ \A w \in dayWindowsOf(d) : w.source = "weekly"
      BY <3>1, DayIs
    <3> HIDE DEF a, b
    <3>8. lo <= a /\ b <= hi
      BY <3>2, <3>3, <3>4, <3>5, <3>6
    <3> HIDE DEF lo, hi
    <3> QED BY <2>3, <3>5, <3>6, <3>7, <3>8 DEF WindowsIn
  <2>5. P \subseteq WindowsIn(lo, hi) /\ \A w \in P : w.source = "weekly"
    BY <2>4
  <2>6. ASSUME NEW t \in from..(to - 1), NEW status
        PROVE  RightlyShown(C, t, status)
    <3>1. t \in Int /\ from <= t /\ t <= to
      OBVIOUS
    <3>2. localDateOf(t) \in dates
      <4>1. first <= localDateOf(t) /\ localDateOf(t) \in Int
        BY <3>1, DatesFollow
      <4>2. localDateOf(t) <= last
        BY <3>1, DatesFollow
      <4> HIDE DEF first, last
      <4> QED BY <2>1, <4>1, <4>2
    <3>3. Shows(P, "weekly", status, t) <=> \E d \in dates : Shows(dayWindowsOf(d), "weekly", status, t)
      BY DEF Shows
    <3>4. \A d \in dates : Shows(dayWindowsOf(d), "weekly", status, t) <=> Shows(DayPiecesOf(d), "weekly", status, t)
      BY <2>1, <3>1, DayIs
    <3> HIDE DEF P, lo, hi, dates
    <3>5. Shows(J, "weekly", status, t) <=> Shows(P, "weekly", status, t)
      BY <2>3, <2>5, <3>1, JoiningShows
    <3>6. J \subseteq WindowsIn(lo, hi)
      BY <2>3, <2>5, JoinedWindows
    <3> HIDE DEF J
    <3>7. Shows(C, "weekly", status, t) <=> Shows(J, "weekly", status, t)
      BY <2>3, <3>6, CuttingShows
    <3>8. Shows(C, "weekly", status, t) <=> \E d \in dates : Shows(DayPiecesOf(d), "weekly", status, t)
      BY <3>3, <3>4, <3>5, <3>7
    <3> HIDE DEF C
    <3> QED BY <2>1, <3>1, <3>2, <3>8, DaysShow
  <2> HIDE DEF P, lo, hi, dates
  <2>7. J \subseteq WindowsIn(lo, hi) /\ Apart(J)
    BY <2>3, <2>5, JoinedWindows, JoinedApart
  <2>8. \A w \in J : w.source = "weekly"
    BY <2>3, <2>5, JoinedSource
  <2> HIDE DEF J
  <2>9. C \subseteq WindowsIn(from, to)
    BY <2>3, <2>7, CuttingShows
  <2>10. Apart(C)
    BY <2>3, <2>7, CuttingShows
  <2>11. \A w \in C : w.source = "weekly"
    <3>1. ASSUME NEW w \in C
          PROVE  w.source = "weekly"
      <4>1. PICK v \in J : w = Window(Later(v.start, from), Earlier(v.end, to), v.status, v.source)
        BY DEF C, cutWindows
      <4> QED BY <2>8, <4>1 DEF Window
    <3> QED BY <3>1
  <2> HIDE DEF C
  <2> QED BY <2>2, <2>6, <2>9, <2>10, <2>11 DEF Answer
<1> QED BY <1>1, <1>2

-----------------------------------------------------------------------------
\* What was last shown, of a date or a range, is the site's.
ClockInv == ClockTyped /\ range \in [from : Int, to : Int] /\ Answer(shown, range.from, range.to)

\* The invariant is what the run checks.
LEMMA ClockInvImplies == ClockInv => WindowsAreTheSites /\ WindowsApart
<1> SUFFICES ASSUME ClockInv PROVE WindowsAreTheSites /\ WindowsApart
  OBVIOUS
<1>1. /\ shown \subseteq WindowsIn(range.from, range.to) /\ Apart(shown)
      /\ \A w \in shown : w.source = "weekly"
      /\ \A t \in range.from..(range.to - 1) : \A status \in Statuses3 : RightlyShown(shown, t, status)
  BY DEF ClockInv, Answer
<1>2. ASSUME NEW t, NEW status
      PROVE  ShownAt(t, status) <=> Shows(shown, "weekly", status, t)
  BY <1>1 DEF ShownAt, Shows
<1>3. WindowsAreTheSites
  <2>1. ASSUME NEW t \in range.from..(range.to - 1), NEW status \in {"off", "possible", "unknown"}
        PROVE  IF Repeated(t)
               THEN SiteSays(t, status) /\ (t < Jump \/ slots[HourAt(t)] \notin {"first", "mfirst"})
                       => ShownAt(t, status)
               ELSE ShownAt(t, status) = (SiteSays(t, status) \/ Skipped(t, status))
    <3>1. RightlyShown(shown, t, status)
      BY <1>1 DEF Statuses3
    <3>2. ShownAt(t, status) \in BOOLEAN
      BY DEF ShownAt
    <3>3. (SiteSays(t, status) \/ Skipped(t, status)) \in BOOLEAN
      BY DEF SiteSays, Skipped
    <3> QED BY <1>2, <3>1, <3>2, <3>3 DEF RightlyShown
  <2> QED BY <2>1 DEF WindowsAreTheSites
<1>4. WindowsApart
  <2>1. \A w \in shown : range.from <= w.start /\ w.start < w.end /\ w.end <= range.to
    BY <1>1 DEF WindowsIn
  <2>2. \A v, w \in shown : v # w /\ v.status = w.status => v.end < w.start \/ w.end < v.start
    BY <1>1 DEF Apart, SameKind
  <2> QED BY <2>1, <2>2 DEF WindowsApart
<1> QED BY <1>3, <1>4

LEMMA ClockInitInv == ClockInit => ClockInv
<1> SUFFICES ASSUME ClockInit PROVE ClockInv
  OBVIOUS
<1>1. ClockTyped /\ range = [from |-> 0, to |-> 0] /\ shown = {}
  BY DEF ClockInit, ClockTyped
<1>2. range \in [from : Int, to : Int] /\ range.from..(range.to - 1) = {}
  BY <1>1
<1> QED BY <1>1, <1>2 DEF ClockInv, Answer, Apart

\* What is right of windows depends on the zone and the slots alone.
LEMMA AnswersStay ==
    ASSUME zone' = zone, slots' = slots
    PROVE  \A windows, from, to : Answer(windows, from, to)' = Answer(windows, from, to)
<1>1. Jump' = Jump
  BY DEF Jump
<1>2. \A t : wallClock(t)' = wallClock(t)
  BY <1>1 DEF wallClock, Offset
<1>3. \A t : HourAt(t)' = HourAt(t)
  BY <1>2 DEF HourAt
<1>4. \A t, status : SiteSays(t, status)' = SiteSays(t, status)
  BY <1>2, <1>3, Zenon DEF SiteSays
<1>5. \A t, status : /\ Repeated(t)' = Repeated(t)
                     /\ Skipped(t, status)' = Skipped(t, status)
  BY <1>1 DEF Repeated, Skipped
<1>6. \A windows, t, status : RightlyShown(windows, t, status)' = RightlyShown(windows, t, status)
  BY <1>1, <1>3, <1>4, <1>5, Zenon DEF RightlyShown
<1> QED BY <1>6, Zenon DEF Answer

LEMMA ClockNextKeeps == ClockInv /\ ClockNext => ClockInv'
<1> SUFFICES ASSUME ClockInv, ClockNext PROVE ClockInv'
  OBVIOUS
<1>1. UNCHANGED <<zone, slots>> /\ ClockTyped
  BY DEF ClockNext, ShowDay, ShowRange, ClockInv
<1>2. \E from, to \in Int : range' = [from |-> from, to |-> to] /\ Answer(shown', from, to)
  <2>1. ASSUME NEW d \in 0..2, ShowDay(d)
        PROVE  \E from, to \in Int : range' = [from |-> from, to |-> to] /\ Answer(shown', from, to)
    <3> DEFINE a == UtcOf(DayBase(d))
               b == UtcOf(DayBase(d) + DayHalves)
    <3>1. d \in Int /\ DayHalves \in Int /\ 0 \in Int /\ DayBase(d) \in Int
      BY ClockNumbers, DayBases
    <3>a. \A half \in Int : wallToUtc(d, half) = UtcOf(DayBase(d) + half) /\ UtcOf(DayBase(d) + half) \in Int
      BY <1>1, <3>1, UtcIs DEF DayBase
    <3>b. DayBase(d) + 0 = DayBase(d)
      BY <3>1
    <3>2. wallToUtc(d, 0) = a /\ a \in Int
      <4>1. wallToUtc(d, 0) = UtcOf(DayBase(d) + 0) /\ UtcOf(DayBase(d) + 0) \in Int
        BY <3>1, <3>a
      <4> QED BY <3>b, <4>1
    <3>3. wallToUtc(d, DayHalves) = b /\ b \in Int
      BY <3>1, <3>a
    <3>4. Answer(dayWindowsOf(d), a, b)
      BY <1>1, <3>1, DayAnswers
    <3>5. range' = [from |-> a, to |-> b] /\ shown' = dayWindowsOf(d)
      BY <2>1, <3>2, <3>3 DEF ShowDay
    <3> HIDE DEF a, b
    <3> QED BY <3>2, <3>3, <3>4, <3>5
  <2>2. ASSUME NEW from \in Int, NEW to \in Int, ShowRange(from, to)
        PROVE  \E f, e \in Int : range' = [from |-> f, to |-> e] /\ Answer(shown', f, e)
    <3>1. range' = [from |-> from, to |-> to] /\ shown' = weeklyWindowsOver(from, to)
      BY <2>2 DEF ShowRange
    <3>2. Answer(shown', from, to)
      BY <1>1, <3>1, RangeAnswers
    <3> QED BY <3>1, <3>2
  <2>3. Jump \in Int /\ wallToUtc(1, 0) \in Int /\ wallToUtc(2, 2) \in Int
    BY <1>1, UtcIs, ClockNumbers
  <2>4. \A t \in {wallToUtc(1, 0)} \union (Jump - 1)..(Jump + 1) : t \in Int
    BY <2>3
  <2>5. \A t \in {wallToUtc(2, 2)} \union (Jump..(Jump + 2)) : t \in Int
    BY <2>3
  <2> QED BY <2>1, <2>2, <2>4, <2>5 DEF ClockNext
<1>3. PICK from, to \in Int : range' = [from |-> from, to |-> to] /\ Answer(shown', from, to)
  BY <1>2
<1>4. range' \in [from : Int, to : Int] /\ range'.from = from /\ range'.to = to
  BY <1>3
<1>5. ClockTyped'
  BY <1>1 DEF ClockTyped
<1>6. \A windows, f, e : Answer(windows, f, e)' = Answer(windows, f, e)
  BY <1>1, AnswersStay
<1>7. Answer(shown, range.from, range.to)'
  BY <1>3, <1>4, <1>6, Zenon
<1> QED BY <1>4, <1>5, <1>7 DEF ClockInv

LEMMA ClockStutter == ClockInv /\ UNCHANGED clockVars => ClockInv'
<1> SUFFICES ASSUME ClockInv, UNCHANGED clockVars PROVE ClockInv'
  OBVIOUS
<1>1. zone' = zone /\ slots' = slots /\ range' = range /\ shown' = shown
  BY DEF clockVars
<1>2. \A windows, from, to : Answer(windows, from, to)' = Answer(windows, from, to)
  BY <1>1, AnswersStay
<1> QED BY <1>1, <1>2, Zenon DEF ClockInv, ClockTyped

LEMMA RemindersInvariant == OutageSpec => []RemindersInv
<1>1. OutageInit => RemindersInv
  BY RemindersInitInv DEF OutageInit
<1>2. RemindersInv /\ [OutageNext]_<<part, vars, outageReaderVars, siteVars, clockVars, reminderVars>>
        => RemindersInv'
  BY RemindersNextKeeps, RemindersStutter DEF OutageNext
<1> QED BY <1>1, <1>2, PTL DEF OutageSpec

LEMMA ClockInvariant == OutageSpec => []ClockInv
<1>1. OutageInit => ClockInv
  BY ClockInitInv DEF OutageInit
<1>2. ClockInv /\ [OutageNext]_<<part, vars, outageReaderVars, siteVars, clockVars, reminderVars>>
        => ClockInv'
  BY ClockNextKeeps, ClockStutter DEF OutageNext
<1> QED BY <1>1, <1>2, PTL DEF OutageSpec

\* The forecast is the schedule, unit by unit and joined over slots, hours and
\* midnight; who wants to hear of an outage has been reminded of it when it starts,
\* unless something went wrong or was published within their lead time; nobody is
\* told twice of one window, and of what begins at one instant again only after
\* another day was confirmed, unless a first round failed before it marked; and the
\* windows of a day or a range are the site's on the days the clocks change too,
\* but for the half hour of Skipped (buildForecast, OutageReminders.tick, dayWindows,
\* weeklyWindows).
THEOREM OutagesAreReminded == OutageSpec => []Reminded
<1>1. RemindersInv /\ ClockInv => Reminded
  BY RemindersInvImplies, ClockInvImplies DEF Reminded
<1> QED BY <1>1, RemindersInvariant, ClockInvariant, PTL
=============================================================================
