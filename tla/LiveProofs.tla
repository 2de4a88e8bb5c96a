---------------------------- MODULE LiveProofs -----------------------------
(* Proofs about the parts of MCLive, for every size of them: the polling    *)
(* loops, the alerts, the notices, the bot and the fan.                     *)
EXTENDS MCLive, DataInduction, FiniteSetTheorems, FunctionTheorems, TLAPS

\* The table has one row per address, so every snapshot of it has.
Unique(rows) ==
    \A p, q \in Profiles : rows[p] = rows[q] /\ rows[p] # NoAddress => p = q
UniqueInv == Unique(table) /\ (\A c \in Syncs : Unique(queried[c])) /\ Unique(tracked)

Active(c) == at[c] \in {"query", "apply"}

\* While the last change came alone, its sync is the only one, and what it has
\* read is still the table.
RepairInv ==
    alone =>
        /\ \A c, d \in Syncs : Active(c) /\ Active(d) => c = d
        /\ \A c \in Syncs : at[c] = "apply" => queried[c] = table
        /\ NothingUnderWay => tracked = table

-----------------------------------------------------------------------------
(* The reconciliation.                                                     *)

\* Applying a sync makes the loops those of the table it has read.
LEMMA ApplyReconciles ==
    ASSUME PollingTypeOK, NEW c \in Syncs, Apply(c)
    PROVE  tracked' = queried[c]
<1>1. queried[c] \in Rows /\ tracked \in Rows
  BY DEF PollingTypeOK
<1>2. tracked' = [p \in Profiles |->
                     IF p \in Begun(queried[c]) THEN queried[c][p]
                     ELSE IF p \in Stopped(queried[c]) THEN NoAddress ELSE tracked[p]]
  BY DEF Apply
<1>3. ASSUME NEW p \in Profiles PROVE tracked'[p] = queried[c][p]
  BY <1>2 DEF Begun, Stopped
<1> QED BY <1>1, <1>2, <1>3 DEF Rows

\* There are enough names for the polls a sync starts.
LEMMA Names ==
    ASSUME PollingConstants, NEW S, NEW T, IsFiniteSet(S), IsFiniteSet(T),
           Cardinality(S) <= Cardinality(T)
    PROVE  \E f \in [S -> T] : \A p, q \in S : f[p] = f[q] => p = q
<1> DEFINE n == Cardinality(S)  m == Cardinality(T)
<1>1. n \in Nat /\ m \in Nat
  BY FS_CardinalityType
<1>2. PICK g \in Bijection(1..n, S) : TRUE
  BY FS_CardinalityType DEF ExistsBijection
<1>3. PICK h \in Bijection(1..m, T) : TRUE
  BY FS_CardinalityType DEF ExistsBijection
<1>4. \A p \in S : \E i \in 1..n : g[i] = p
  BY <1>2 DEF Bijection, Surjection
<1>5. PICK k \in [S -> 1..n] : \A p \in S : g[k[p]] = p
  <2> DEFINE k == [p \in S |-> CHOOSE i \in 1..n : g[i] = p]
  <2> k \in [S -> 1..n] /\ \A p \in S : g[k[p]] = p
    BY <1>4
  <2> QED OBVIOUS
<1> DEFINE f == [p \in S |-> h[k[p]]]
<1>6. h \in [1..m -> T] /\ \A i, j \in 1..m : h[i] = h[j] => i = j
  BY <1>3 DEF Bijection, Injection, IsInjective
<1>7. \A p \in S : k[p] \in 1..m
  BY <1>1, <1>5
<1>8. f \in [S -> T] /\ \A p, q \in S : f[p] = f[q] => p = q
  BY <1>5, <1>6, <1>7
<1> QED BY <1>8

-----------------------------------------------------------------------------
(* Types.                                                                  *)

LEMMA LinkType ==
    ASSUME PollingTypeOK, NEW a \in Addresses
    PROVE  LinkAt(a) \in Nat /\ LinkAt(a) <= made[a] + 1
BY DEF PollingTypeOK, LinkAt

LEMMA GetLinkType ==
    ASSUME PollingTypeOK, NEW a \in Addresses, GetLink(a)
    PROVE  /\ made' \in [Addresses -> Nat] /\ linkAt' \in [Addresses -> Nat]
           /\ \A b \in Addresses : linkAt'[b] <= made'[b]
BY DEF PollingTypeOK, GetLink, LinkAt

LEMMA JobTyped ==
    ASSUME NEW id \in JobIds, NEW sort \in {"poll", "settings"}, NEW p \in Profiles,
           NEW a \in Addresses, NEW g \in Nat, NEW first \in BOOLEAN
    PROVE  Job(id, sort, p, a, g, first) \in JobType
BY DEF Job, JobType

LEMMA ReadSettingsType ==
    ASSUME PollingTypeOK, NEW p \in Profiles, NEW a \in Addresses, NEW others \in SUBSET jobs,
           ReadSettings(p, a, others)
    PROVE  /\ jobs' \subseteq JobType
           /\ made' \in [Addresses -> Nat] /\ linkAt' \in [Addresses -> Nat]
           /\ \A b \in Addresses : linkAt'[b] <= made'[b]
<1>1. CASE Sharing(p, a)
  BY <1>1 DEF ReadSettings, PollingTypeOK, linkVars
<1>2. CASE ~Sharing(p, a)
  <2>1. PICK id \in JobIds :
          /\ GetLink(a)
          /\ jobs' = others \cup {Job(id, "settings", p, a, LinkAt(a), FALSE)}
    BY <1>2 DEF ReadSettings
  <2>2. Job(id, "settings", p, a, LinkAt(a), FALSE) \in JobType
    BY JobTyped, LinkType
  <2> QED BY <2>1, <2>2, GetLinkType DEF PollingTypeOK
<1> QED BY <1>1, <1>2

LEMMA InitType == PollingInit => PollingTypeOK
BY DEF PollingInit, PollingTypeOK, Rows, Syncs

LEMMA RequestType ==
    ASSUME PollingTypeOK, NEW c \in Callers, Request(c)
    PROVE  PollingTypeOK'
<1> USE DEF PollingTypeOK, Syncs, Rows, pollVars, linkVars, jobVars, tableVars
<1>1. PICK p \in Profiles :
        \/ \E a \in Addresses : PairInverter(c, p, a) \/ Update(c, p, a) \/ Duplicate(c, p, a)
        \/ UnpairInverter(c, p)
  BY DEF Request
<1>2. ASSUME NEW a \in Addresses \cup {NoAddress}, Save(c, p, a),
             UNCHANGED <<queried, syncFailures, pollVars, linkVars, jobVars>>
      PROVE  PollingTypeOK'
  <2>1. alone' \in BOOLEAN
    BY <1>2, Zenon DEF Save, NothingUnderWay
  <2>2. table' \in Rows /\ at' \in [Syncs -> {"idle", "query", "apply", "done"}]
    BY <1>2 DEF Save
  <2>3. everPaired' \subseteq Profiles
    BY <1>2 DEF Save
  <2> QED BY <1>2, <2>1, <2>2, <2>3
<1>3. ASSUME NEW a \in Addresses, Duplicate(c, p, a)
      PROVE  PollingTypeOK'
  BY <1>3 DEF Duplicate
<1> QED BY <1>1, <1>2, <1>3 DEF PairInverter, Update, UnpairInverter

LEMMA JobStepType ==
    ASSUME PollingTypeOK, NEW j \in jobs, JobStep(j)
    PROVE  PollingTypeOK'
<1> USE DEF pollVars, linkVars, jobVars, tableVars, syncVars
<1>1. /\ j \in JobType /\ j.profile \in Profiles /\ j.address \in Addresses
      /\ jobs \ {j} \in SUBSET jobs
  BY DEF PollingTypeOK, JobType
<1>2. CASE PollRead(j)
  <2>1. [j EXCEPT !.at = "store"] \in JobType
    BY <1>1 DEF JobType
  <2> QED BY <1>2, <2>1 DEF PollRead, PollingTypeOK
<1>3. ASSUME FinishPoll(j), UNCHANGED <<tableVars, syncVars, tracked, cachedFor>>
      PROVE  PollingTypeOK'
  <2>1. /\ jobs' \subseteq JobType
        /\ made' \in [Addresses -> Nat] /\ linkAt' \in [Addresses -> Nat]
        /\ \A b \in Addresses : linkAt'[b] <= made'[b]
    <3>1. CASE ReadSettings(j.profile, j.address, jobs \ {j})
      BY <1>1, <3>1, ReadSettingsType
    <3>2. CASE jobs' = jobs \ {j} /\ UNCHANGED linkVars
      BY <3>2 DEF PollingTypeOK
    <3> QED BY <1>3, <3>1, <3>2 DEF FinishPoll
  <2> QED BY <1>3, <2>1 DEF FinishPoll, ClearFlag, PollingTypeOK
<1>4. CASE SettingsRead(j)
  BY <1>1, <1>4 DEF SettingsRead, PollingTypeOK
<1>5. CASE SettingsFail(j)
  BY <1>1, <1>5 DEF SettingsFail, PollingTypeOK
<1> QED BY <1>2, <1>3, <1>4, <1>5 DEF JobStep, PollStored, PollFails

LEMMA TickType ==
    ASSUME PollingTypeOK, NEW p \in Profiles, PollTick(p) \/ SettingsTick(p)
    PROVE  PollingTypeOK'
<1> USE DEF pollVars, linkVars, tableVars, syncVars
<1>1. tracked[p] \in Addresses
  BY DEF PollTick, SettingsTick, PollingTypeOK, Rows
<1>2. CASE PollTick(p)
  <2>1. PICK id \in FreeIds :
          jobs' = jobs \cup {Job(id, "poll", p, tracked[p], LinkAt(tracked[p]), FALSE)}
    BY <1>2 DEF PollTick
  <2>2. Job(id, "poll", p, tracked[p], LinkAt(tracked[p]), FALSE) \in JobType
    BY <1>1, JobTyped, LinkType DEF FreeIds
  <2>3. /\ made' \in [Addresses -> Nat] /\ linkAt' \in [Addresses -> Nat]
        /\ \A b \in Addresses : linkAt'[b] <= made'[b]
    BY <1>1, <1>2, GetLinkType DEF PollTick
  <2> QED BY <1>2, <2>1, <2>2, <2>3 DEF PollTick, PollingTypeOK
<1>3. CASE SettingsTick(p)
  <2>1. /\ jobs' \subseteq JobType
        /\ made' \in [Addresses -> Nat] /\ linkAt' \in [Addresses -> Nat]
        /\ \A b \in Addresses : linkAt'[b] <= made'[b]
    BY <1>1, <1>3, ReadSettingsType DEF SettingsTick
  <2> QED BY <1>3, <2>1 DEF SettingsTick, PollingTypeOK
<1> QED BY <1>2, <1>3

\* The names that Apply has for the links left, the links and ids of the polls
\* begun, and the jobs after it.
LeftBy(c, a) == \E q \in Stopped(queried[c]) : tracked[q] = a
OnLeft(c)    == {j \in jobs : /\ LeftBy(c, j.address) /\ j.at = "link"
                              /\ j.link = linkAt[j.address]}
RobbedOf(c, order, p) ==
    \E q \in Stopped(queried[c]) \cap Begun(queried[c]) :
        tracked[q] = queried[c][p] /\ order[p] < order[q]
LinkOf(c, order, p) ==
    IF RobbedOf(c, order, p) \/ ~LeftBy(c, queried[c][p])
    THEN LinkAt(queried[c][p]) ELSE made[queried[c][p]] + 1
NamesOf(c) ==
    CHOOSE f \in [Begun(queried[c]) -> FreeIds] :
        \A p, q \in Begun(queried[c]) : f[p] = f[q] => p = q
JobsAfter(c, order, spared) ==
    (jobs \ OnLeft(c)) \cup spared
    \cup {[j EXCEPT !.cut = TRUE] : j \in OnLeft(c) \ spared}
    \cup {Job(NamesOf(c)[p], "poll", p, queried[c][p], LinkOf(c, order, p), TRUE) :
            p \in Begun(queried[c])}

LEMMA ApplyJobs ==
    ASSUME NEW c \in Syncs, Apply(c)
    PROVE  \E order \in Orders, spared \in SUBSET OnLeft(c) :
             /\ jobs' = JobsAfter(c, order, spared)
             /\ linkAt' = [a \in Addresses |->
                   IF \E p \in Begun(queried[c]) :
                        queried[c][p] = a /\ ~RobbedOf(c, order, p)
                   THEN LinkOf(c, order,
                               CHOOSE p \in Begun(queried[c]) : queried[c][p] = a)
                   ELSE IF LeftBy(c, a) THEN 0 ELSE linkAt[a]]
             /\ made' = [a \in Addresses |->
                   IF \E p \in Begun(queried[c]) :
                        queried[c][p] = a /\ LinkOf(c, order, p) > made[a]
                   THEN made[a] + 1 ELSE made[a]]
BY DEF Apply, JobsAfter, OnLeft, LeftBy, LinkOf, RobbedOf, NamesOf

\* A sync's links and polls are well formed: it has a name for each poll it
\* starts, and the link of each is made when it is not there.
LEMMA ApplyType ==
    ASSUME PollingConstants, PollingTypeOK, NEW c \in Syncs, Apply(c)
    PROVE  PollingTypeOK'
<1> DEFINE desired == queried[c]  begun == Begun(desired)  id == NamesOf(c)
           Left(a) == LeftBy(c, a)  Robbed(o, p) == RobbedOf(c, o, p)
           Link(o, p) == LinkOf(c, o, p)
<1>1. PICK order \in Orders, spared \in SUBSET OnLeft(c) :
        /\ jobs' = JobsAfter(c, order, spared)
        /\ linkAt' = [a \in Addresses |->
                       IF \E p \in begun : desired[p] = a /\ ~Robbed(order, p)
                       THEN Link(order, CHOOSE p \in begun : desired[p] = a)
                       ELSE IF Left(a) THEN 0 ELSE linkAt[a]]
        /\ made' = [a \in Addresses |->
                      IF \E p \in begun : desired[p] = a /\ Link(order, p) > made[a]
                      THEN made[a] + 1 ELSE made[a]]
  BY ApplyJobs
<1>2. begun \subseteq Profiles /\ \A p \in begun : desired[p] \in Addresses
  BY DEF PollingTypeOK, Rows, Begun
<1>3. id \in [begun -> FreeIds]
  <2>1. IsFiniteSet(begun) /\ IsFiniteSet(FreeIds)
    BY <1>2, FS_Subset DEF PollingConstants, FreeIds
  <2>2. Cardinality(begun) <= Cardinality(FreeIds)
    BY DEF Apply
  <2>3. \E f \in [begun -> FreeIds] : \A p, q \in begun : f[p] = f[q] => p = q
    <3> HIDE DEF begun
    <3> QED BY <2>1, <2>2, Names
  <2> QED BY <2>3 DEF NamesOf
<1>4. \A p \in begun :
        Link(order, p) \in Nat /\ Link(order, p) <= made[desired[p]] + 1
  <2>1. \A a \in Addresses : made[a] \in Nat
    BY DEF PollingTypeOK
  <2> QED BY <1>2, <2>1, LinkType DEF LinkOf
<1> HIDE DEF begun
<1>5. jobs' \subseteq JobType
  <2>1. \A j \in JobType : [j EXCEPT !.cut = TRUE] \in JobType
    BY DEF JobType
  <2>2. \A p \in begun :
          Job(id[p], "poll", p, desired[p], Link(order, p), TRUE) \in JobType
    <3> TAKE p \in begun
    <3>1. id[p] \in JobIds
      BY <1>3 DEF FreeIds
    <3>2. p \in Profiles /\ desired[p] \in Addresses /\ Link(order, p) \in Nat
      BY <1>2, <1>4
    <3> QED BY <3>1, <3>2, JobTyped
  <2>3. jobs \subseteq JobType /\ OnLeft(c) \subseteq jobs /\ spared \subseteq jobs
    BY <1>1 DEF PollingTypeOK, OnLeft
  <2>4. {[j EXCEPT !.cut = TRUE] : j \in OnLeft(c) \ spared} \subseteq JobType
    BY <2>1, <2>3
  <2>5. {Job(NamesOf(c)[p], "poll", p, queried[c][p], LinkOf(c, order, p), TRUE) :
            p \in Begun(queried[c])} \subseteq JobType
    BY <2>2 DEF begun
  <2> QED BY <1>1, <2>3, <2>4, <2>5 DEF JobsAfter
<1>6. made' \in [Addresses -> Nat]
  BY <1>1 DEF PollingTypeOK
<1>7. ASSUME NEW a \in Addresses
      PROVE  linkAt'[a] \in Nat /\ linkAt'[a] <= made'[a]
  <2>1. made[a] \in Nat /\ linkAt[a] \in Nat /\ linkAt[a] <= made[a]
        /\ made'[a] \in {made[a], made[a] + 1}
    BY <1>1 DEF PollingTypeOK
  <2>2. CASE \E p \in begun : desired[p] = a /\ ~Robbed(order, p)
    <3> DEFINE p == CHOOSE p \in begun : desired[p] = a
    <3>1. p \in begun /\ desired[p] = a
      BY <2>2
    <3> HIDE DEF p
    <3>2. linkAt'[a] = Link(order, p)
      BY <1>1, <2>2 DEF p
    <3>3. Link(order, p) \in Nat /\ Link(order, p) <= made[a] + 1
      BY <1>4, <3>1
    <3>4. Link(order, p) > made[a] => made'[a] = made[a] + 1
      BY <1>1, <3>1
    <3> QED BY <2>1, <3>2, <3>3, <3>4
  <2>3. CASE ~(\E p \in begun : desired[p] = a /\ ~Robbed(order, p))
    BY <1>1, <2>1, <2>3
  <2> QED BY <2>2, <2>3
<1>8. linkAt' \in [Addresses -> Nat]
  <2>1. linkAt' = [a \in Addresses |-> linkAt'[a]]
    BY <1>1
  <2> QED BY <1>7, <2>1
<1>9. tracked' \in Rows /\ inFlight' \subseteq Profiles
  <2>1. tracked' \in Rows
    BY ApplyReconciles DEF PollingTypeOK
  <2>2. inFlight' = (inFlight \ Stopped(desired)) \cup begun
    BY DEF Apply, begun
  <2> QED BY <1>2, <2>1, <2>2 DEF PollingTypeOK
<1>10. /\ at' \in [Syncs -> {"idle", "query", "apply", "done"}]
       /\ UNCHANGED <<tableVars, queried, syncFailures, alone, cachedFor>>
  BY DEF Apply, PollingTypeOK
<1> QED BY <1>5, <1>6, <1>7, <1>8, <1>9, <1>10 DEF PollingTypeOK, tableVars

LEMMA QueryType ==
    ASSUME PollingTypeOK, NEW c \in Syncs, Query(c) \/ QueryFails(c)
    PROVE  PollingTypeOK'
<1> USE DEF tableVars, pollVars, linkVars, jobVars
<1>1. CASE Query(c)
  <2>1. queried' \in [Syncs -> Rows]
    BY <1>1 DEF Query, PollingTypeOK
  <2>2. at' \in [Syncs -> {"idle", "query", "apply", "done"}]
    BY <1>1 DEF Query, PollingTypeOK
  <2> QED BY <1>1, <2>1, <2>2 DEF Query, PollingTypeOK
<1>2. CASE QueryFails(c)
  <2>1. at' \in [Syncs -> {"idle", "query", "apply", "done"}]
    BY <1>2 DEF QueryFails, PollingTypeOK
  <2>2. syncFailures' \in Nat
    BY <1>2 DEF QueryFails, PollingTypeOK
  <2>4. alone' \in BOOLEAN
    BY <1>2, Zenon DEF QueryFails
  <2>3. UNCHANGED <<tableVars, queried, pollVars, linkVars, jobVars>>
    BY <1>2 DEF QueryFails
  <2> QED BY <2>1, <2>2, <2>3, <2>4 DEF PollingTypeOK
<1> QED BY <1>1, <1>2

LEMMA NextType == PollingConstants /\ PollingTypeOK /\ [PollingNext]_pollingVars => PollingTypeOK'
<1> SUFFICES ASSUME PollingConstants, PollingTypeOK, [PollingNext]_pollingVars PROVE PollingTypeOK'
  OBVIOUS
<1>1. CASE UNCHANGED pollingVars
  BY <1>1 DEF pollingVars, tableVars, syncVars, pollVars, linkVars, jobVars, PollingTypeOK
<1> QED BY <1>1, RequestType, JobStepType, TickType, ApplyType, QueryType DEF PollingNext

-----------------------------------------------------------------------------
(* The loops.                                                              *)

LEMMA UniqueStep ==
    ASSUME PollingConstants, PollingTypeOK, UniqueInv, [PollingNext]_pollingVars
    PROVE  UniqueInv'
<1> USE DEF UniqueInv, Unique
<1>1. ASSUME NEW c \in Callers, Request(c)
      PROVE  UniqueInv'
  <2>1. ASSUME NEW p \in Profiles, NEW a \in Addresses \cup {NoAddress}, Save(c, p, a),
               a = NoAddress \/ AddressFree(p, a), UNCHANGED <<queried, pollVars>>
        PROVE  UniqueInv'
    BY <2>1 DEF Save, AddressFree, PollingTypeOK, Rows, pollVars
  <2>2. ASSUME NEW p \in Profiles, NEW a \in Addresses, Duplicate(c, p, a)
        PROVE  UniqueInv'
    BY <2>2 DEF Duplicate, tableVars, pollVars
  <2> QED BY <1>1, <2>1, <2>2 DEF Request, PairInverter, Update, UnpairInverter
<1>2. ASSUME NEW c \in Syncs, Query(c)
      PROVE  UniqueInv'
  BY <1>2 DEF Query, PollingTypeOK, tableVars, pollVars
<1>3. ASSUME NEW c \in Syncs, QueryFails(c)
      PROVE  UniqueInv'
  BY <1>3 DEF QueryFails, tableVars, pollVars
<1>4. ASSUME NEW c \in Syncs, Apply(c)
      PROVE  UniqueInv'
  <2>1. tracked' = queried[c]
    BY <1>4, ApplyReconciles
  <2>2. UNCHANGED <<table, queried>>
    BY <1>4 DEF Apply, tableVars
  <2> QED BY <2>1, <2>2
<1>5. ASSUME UNCHANGED <<tableVars, syncVars, tracked>>
      PROVE  UniqueInv'
  BY <1>5 DEF tableVars, syncVars
<1>6. ASSUME NEW p \in Profiles, PollTick(p) \/ SettingsTick(p)
      PROVE  UniqueInv'
  BY <1>5, <1>6 DEF PollTick, SettingsTick, pollVars
<1>7. ASSUME NEW j \in jobs, JobStep(j)
      PROVE  UniqueInv'
  BY <1>5, <1>7 DEF JobStep, PollRead, PollStored, PollFails, SettingsRead,
                    SettingsFail, pollVars
<1>8. CASE UNCHANGED pollingVars
  BY <1>5, <1>8 DEF pollingVars, pollVars
<1> QED BY <1>1, <1>2, <1>3, <1>4, <1>6, <1>7, <1>8 DEF PollingNext

\* A sync that has read nothing stale and has no other beside it leaves the
\* loops of the table.
LEMMA RepairStep ==
    ASSUME PollingConstants, PollingTypeOK, RepairInv, [PollingNext]_pollingVars
    PROVE  RepairInv'
<1>1. ASSUME NEW c \in Callers, Request(c)
      PROVE  RepairInv'
  <2>1. ASSUME NEW p \in Profiles, NEW a \in Addresses \cup {NoAddress}, Save(c, p, a),
               UNCHANGED <<queried, tracked>>
        PROVE  RepairInv'
    <3>1. CASE NothingUnderWay
      <4>1. \A d \in Syncs : Active(d)' => d = c
        BY <2>1, <3>1 DEF Save, NothingUnderWay, Active, PollingTypeOK, Syncs
      <4>2. at'[c] = "query" /\ c \in Syncs
        BY <2>1 DEF Save, PollingTypeOK, Syncs
      <4> QED BY <4>1, <4>2 DEF RepairInv, Active, NothingUnderWay
    <3>2. CASE ~NothingUnderWay
      <4>1. ~alone'
        BY <2>1, <3>2 DEF Save
      <4> QED BY <4>1 DEF RepairInv
    <3> QED BY <3>1, <3>2
  <2>2. ASSUME NEW p \in Profiles, NEW a \in Addresses, Duplicate(c, p, a)
        PROVE  RepairInv'
    <3>1. c \in Syncs /\ at[c] = "idle" /\ at' = [at EXCEPT ![c] = "done"]
      BY <2>2 DEF Duplicate, MayAsk, Syncs
    <3>2. UNCHANGED <<table, queried, tracked, alone>>
      BY <2>2 DEF Duplicate, tableVars, pollVars
    <3>3. \A d \in Syncs : at'[d] = at[d] \/ (d = c /\ at'[d] = "done")
      BY <3>1 DEF PollingTypeOK
    <3>4. (NothingUnderWay' => NothingUnderWay)
      BY <3>1, <3>3 DEF NothingUnderWay
    <3> QED BY <3>2, <3>3, <3>4 DEF RepairInv, Active
  <2> QED BY <1>1, <2>1, <2>2 DEF Request, PairInverter, Update, UnpairInverter, pollVars
<1>2. ASSUME NEW c \in Syncs, Query(c)
      PROVE  RepairInv'
  <2>1. /\ at[c] = "query" /\ at'[c] = "apply" /\ queried'[c] = table
        /\ \A d \in Syncs \ {c} : at'[d] = at[d] /\ queried'[d] = queried[d]
        /\ UNCHANGED <<table, tracked, alone>>
    BY <1>2 DEF Query, PollingTypeOK, tableVars, pollVars
  <2> QED BY <2>1 DEF RepairInv, Active, NothingUnderWay
<1>3. ASSUME NEW c \in Syncs, QueryFails(c)
      PROVE  RepairInv'
  BY <1>3 DEF QueryFails, RepairInv
<1>4. ASSUME NEW c \in Syncs, Apply(c)
      PROVE  RepairInv'
  <2>1. /\ at[c] = "apply" /\ at'[c] = "done" /\ tracked' = queried[c]
        /\ \A d \in Syncs \ {c} : at'[d] = at[d]
        /\ UNCHANGED <<table, queried, alone>>
    BY <1>4, ApplyReconciles DEF Apply, PollingTypeOK, tableVars
  <2> QED BY <2>1 DEF RepairInv, Active
<1>5. ASSUME UNCHANGED <<tableVars, syncVars, tracked>>
      PROVE  RepairInv'
  BY <1>5 DEF tableVars, syncVars, RepairInv, Active, NothingUnderWay
<1>6. ASSUME NEW p \in Profiles, PollTick(p) \/ SettingsTick(p)
      PROVE  RepairInv'
  BY <1>5, <1>6 DEF PollTick, SettingsTick, pollVars
<1>7. ASSUME NEW j \in jobs, JobStep(j)
      PROVE  RepairInv'
  BY <1>5, <1>7 DEF JobStep, PollRead, PollStored, PollFails, SettingsRead,
                    SettingsFail, pollVars
<1>8. CASE UNCHANGED pollingVars
  BY <1>5, <1>8 DEF pollingVars, pollVars
<1> QED BY <1>1, <1>2, <1>3, <1>4, <1>6, <1>7, <1>8 DEF PollingNext

-----------------------------------------------------------------------------
(* The flags.                                                              *)

\* A poll in the jobs of a profile, at an address.
HasPoll(js, p, a) == \E j \in js : j.kind = "poll" /\ j.profile = p /\ j.address = a

LEMMA FlagStep ==
    ASSUME PollingConstants, PollingTypeOK, FlagHasPoll, [PollingNext]_pollingVars
    PROVE  FlagHasPoll'
<1>0. FlagHasPoll <=> \A p \in inFlight : HasPoll(jobs, p, tracked[p])
  BY DEF FlagHasPoll, HasPoll, PollJobs
<1> SUFFICES ASSUME NEW p \in inFlight' PROVE HasPoll(jobs', p, tracked'[p])
  BY DEF FlagHasPoll, HasPoll, PollJobs
<1>1. CASE jobs \subseteq jobs' /\ UNCHANGED pollVars
  BY <1>0, <1>1 DEF HasPoll, pollVars
<1>2. ASSUME NEW c \in Callers, Request(c)
      PROVE  HasPoll(jobs', p, tracked'[p])
  BY <1>1, <1>2 DEF Request, PairInverter, Update, UnpairInverter, Duplicate, jobVars
<1>3. ASSUME NEW c \in Syncs, Query(c) \/ QueryFails(c)
      PROVE  HasPoll(jobs', p, tracked'[p])
  BY <1>1, <1>3 DEF Query, QueryFails, jobVars
<1>4. ASSUME NEW q \in Profiles, SettingsTick(q)
      PROVE  HasPoll(jobs', p, tracked'[p])
  BY <1>1, <1>4 DEF SettingsTick, ReadSettings
<1>5. ASSUME NEW q \in Profiles, PollTick(q)
      PROVE  HasPoll(jobs', p, tracked'[p])
  <2>1. PICK id \in FreeIds :
          jobs' = jobs \cup {Job(id, "poll", q, tracked[q], LinkAt(tracked[q]), FALSE)}
    BY <1>5 DEF PollTick
  <2>2. inFlight' = inFlight \cup {q} /\ tracked' = tracked
    BY <1>5 DEF PollTick
  <2>3. CASE p = q
    <3> DEFINE r == Job(id, "poll", q, tracked[q], LinkAt(tracked[q]), FALSE)
    <3>1. r.kind = "poll" /\ r.profile = q /\ r.address = tracked[q]
      BY DEF Job
    <3>2. r \in jobs'
      BY <2>1
    <3> HIDE DEF r
    <3> QED BY <2>2, <2>3, <3>1, <3>2 DEF HasPoll
  <2>4. CASE p \in inFlight
    BY <1>0, <2>1, <2>2, <2>4 DEF HasPoll
  <2> QED BY <2>2, <2>3, <2>4
<1>6. ASSUME NEW j \in jobs, JobStep(j)
      PROVE  HasPoll(jobs', p, tracked'[p])
  <2>1. CASE PollRead(j)
    <3>1. j \in JobType
      BY DEF PollingTypeOK
    <3>2. /\ [j EXCEPT !.at = "store"].kind = j.kind
          /\ [j EXCEPT !.at = "store"].profile = j.profile
          /\ [j EXCEPT !.at = "store"].address = j.address
      BY <3>1 DEF JobType
    <3>3. /\ jobs' = (jobs \ {j}) \cup {[j EXCEPT !.at = "store"]}
          /\ p \in inFlight /\ tracked' = tracked
      BY <2>1 DEF PollRead, pollVars
    <3>4. PICK k \in jobs : k.kind = "poll" /\ k.profile = p /\ k.address = tracked[p]
      BY <1>0, <3>3 DEF HasPoll
    <3>5. CASE k = j
      <4> DEFINE r == [j EXCEPT !.at = "store"]
      <4>1. r \in jobs' /\ r.kind = "poll" /\ r.profile = p /\ r.address = tracked[p]
        BY <3>2, <3>3, <3>4, <3>5
      <4> HIDE DEF r
      <4> QED BY <3>3, <4>1 DEF HasPoll
    <3>6. CASE k # j
      BY <3>3, <3>4, <3>6 DEF HasPoll
    <3> QED BY <3>5, <3>6
  <2>2. ASSUME FinishPoll(j), UNCHANGED tracked
        PROVE  HasPoll(jobs', p, tracked'[p])
    <3>1. p \in inFlight /\ p # j.profile
      BY <2>2 DEF FinishPoll, ClearFlag
    <3>2. jobs \ {j} \subseteq jobs'
      BY <2>2 DEF FinishPoll, ReadSettings
    <3> QED BY <1>0, <2>2, <3>1, <3>2 DEF HasPoll
  <2>3. CASE SettingsRead(j) \/ SettingsFail(j)
    BY <1>0, <2>3 DEF SettingsRead, SettingsFail, HasPoll, pollVars
  <2> QED BY <1>6, <2>1, <2>2, <2>3 DEF JobStep, PollStored, PollFails
<1>7. ASSUME NEW c \in Syncs, Apply(c)
      PROVE  HasPoll(jobs', p, tracked'[p])
  <2> DEFINE stopped == Stopped(queried[c])  begun == Begun(queried[c])
  <2>1. inFlight' = (inFlight \ stopped) \cup begun
    BY <1>7 DEF Apply
  <2>2. tracked' = queried[c]
    BY <1>7, ApplyReconciles
  <2>3. PICK order \in Orders, spared \in SUBSET OnLeft(c) :
          jobs' = JobsAfter(c, order, spared)
    BY <1>7, ApplyJobs
  <2>4. CASE p \in begun
    <3> DEFINE r == Job(NamesOf(c)[p], "poll", p, queried[c][p],
                        LinkOf(c, order, p), TRUE)
    <3>1. r \in jobs'
      BY <2>3, <2>4 DEF JobsAfter
    <3>2. r.kind = "poll" /\ r.profile = p /\ r.address = tracked'[p]
      BY <2>2 DEF Job
    <3> HIDE DEF r
    <3> QED BY <3>1, <3>2 DEF HasPoll
  <2>5. CASE p \in inFlight /\ p \notin stopped /\ p \notin begun
    <3>1. tracked[p] = queried[c][p]
      BY <2>5 DEF Stopped, Begun, PollingTypeOK, Rows
    <3>2. PICK j \in jobs : j.kind = "poll" /\ j.profile = p /\ j.address = tracked[p]
      BY <1>0, <2>5 DEF HasPoll
    <3>3. /\ [j EXCEPT !.cut = TRUE].kind = j.kind
          /\ [j EXCEPT !.cut = TRUE].profile = j.profile
          /\ [j EXCEPT !.cut = TRUE].address = j.address
      BY DEF PollingTypeOK, JobType
    <3>4. j \in jobs' \/ [j EXCEPT !.cut = TRUE] \in jobs'
      BY <2>3 DEF JobsAfter
    <3>5. CASE j \in jobs'
      BY <2>2, <3>1, <3>2, <3>5 DEF HasPoll
    <3>6. CASE [j EXCEPT !.cut = TRUE] \in jobs'
      <4> DEFINE r == [j EXCEPT !.cut = TRUE]
      <4>1. r \in jobs' /\ r.kind = "poll" /\ r.profile = p /\ r.address = tracked'[p]
        BY <2>2, <3>1, <3>2, <3>3, <3>6
      <4> HIDE DEF r
      <4> QED BY <4>1 DEF HasPoll
    <3> QED BY <3>4, <3>5, <3>6
  <2> QED BY <2>1, <2>4, <2>5
<1>8. CASE UNCHANGED pollingVars
  BY <1>1, <1>8 DEF pollingVars, jobVars
<1> QED BY <1>2, <1>3, <1>4, <1>5, <1>6, <1>7, <1>8 DEF PollingNext

-----------------------------------------------------------------------------
(* The theorems.                                                           *)

IInv == PollingTypeOK /\ UniqueInv /\ RepairInv /\ FlagHasPoll

LEMMA Initial == PollingInit => UniqueInv /\ RepairInv /\ FlagHasPoll
BY DEF PollingInit, UniqueInv, Unique, RepairInv, Active, NothingUnderWay, Syncs, FlagHasPoll

LEMMA Invariance == PollingSpec => []IInv
<1>1. PollingInit => IInv
  BY InitType, Initial DEF IInv
<1>2. IInv /\ [PollingNext]_pollingVars => IInv'
  BY PollingConstants, NextType, UniqueStep, RepairStep, FlagStep DEF IInv
<1> QED BY <1>1, <1>2, PTL DEF PollingSpec

\* Every reachable state has its type: a sync finds a name and a link for each
\* poll it starts, and no link is used that was not made.
THEOREM PollingTypes == PollingSpec => []PollingTypeOK
<1>1. IInv => PollingTypeOK
  BY DEF IInv
<1> QED BY <1>1, Invariance, PTL

\* No overlap of syncs makes two loops poll one logger (syncProfiles).
THEOREM OneLoopPerLogger == PollingSpec => []OneProfilePerLogger
<1>1. IInv => OneProfilePerLogger
  BY DEF IInv, UniqueInv, Unique, OneProfilePerLogger
<1> QED BY <1>1, Invariance, PTL

\* A profile marked in flight has a poll in progress at the address of its loop
\* (poll and its finally).
THEOREM FlagsHavePolls == PollingSpec => []FlagHasPoll
<1>1. IInv => FlagHasPoll
  BY DEF IInv
<1> QED BY <1>1, Invariance, PTL

\* A change that meets nothing under way leaves the loops of the table, whatever
\* earlier syncs missed (syncProfiles).
THEOREM SyncsRepair == PollingSpec => []SyncRepairs
<1>1. IInv => SyncRepairs
  BY DEF IInv, RepairInv, SyncRepairs
<1> QED BY <1>1, Invariance, PTL

-----------------------------------------------------------------------------
(* The alerts.                                                             *)

Sends == Things \X {"down", "back"}
CheckType ==
    {r \in [at : {"rest", "loggers", "devices"}, long : SUBSET Loggers, seen : SUBSET Bms,
            todo : SUBSET Things, sends : {{}} \union {{s} : s \in Sends}] :
        r.at = "rest" => r.sends = {}}

AlertsTyped ==
    /\ out \in [Things -> {"up", "down", "long"}]
    /\ marks \in [Things -> {"none", "noted", "reported"}]
    /\ checks \in [Checks -> CheckType]
    /\ returns \in [Loggers -> Nat] /\ recorded \in [Things -> Int] /\ unsent \subseteq Things
    /\ spells \in 0..MaxSpells /\ alertFaults \in 0..AlertFaults

\* The checks that have an alert of a thing in hand.
Tellers(x, what) == {c \in Checks : <<x, what>> \in checks[c].sends}
Telling(x, what) == Cardinality(Tellers(x, what))
Returning(x) == IF x \in Loggers THEN returns[x] ELSE 0

\* What was recorded of a thing and what is under way make up its mark.
Balanced(x) ==
    recorded[x] + Telling(x, "down") - Telling(x, "back") - Returning(x)
        = IF marks[x] = "reported" THEN 1 ELSE 0

AlertsInv ==
    /\ AlertsTyped
    /\ \A l \in Loggers : out[l] = "up" => marks[l] = "none"
    /\ \A x \in Things \ unsent : Balanced(x)

LEMMA TellingType ==
    ASSUME AlertsConstants, NEW x, NEW what
    PROVE  IsFiniteSet(Tellers(x, what)) /\ Telling(x, what) \in Nat
<1>1. IsFiniteSet(Tellers(x, what))
  BY FS_Subset DEF AlertsConstants, Tellers
<1> QED BY <1>1, FS_CardinalityType DEF Telling

Becomes(c, r) == checks' = [checks EXCEPT ![c] = r]

\* A step of one check changes who is telling by that check alone.
LEMMA Recount ==
    ASSUME AlertsConstants, AlertsTyped, NEW c \in Checks, NEW r, Becomes(c, r),
           NEW x, NEW what
    PROVE  Telling(x, what)' = Telling(x, what)
               + (IF <<x, what>> \in r.sends THEN 1 ELSE 0)
               - (IF <<x, what>> \in checks[c].sends THEN 1 ELSE 0)
<1> DEFINE S == Tellers(x, what)
<1>1. checks \in [Checks -> CheckType]
  BY DEF AlertsTyped
<1>2. Tellers(x, what)' = IF <<x, what>> \in r.sends THEN S \union {c} ELSE S \ {c}
  BY <1>1 DEF Tellers, Becomes
<1>3. (c \in S) = (<<x, what>> \in checks[c].sends)
  BY DEF Tellers
<1>4. IsFiniteSet(S) /\ Cardinality(S) \in Nat
  BY TellingType DEF Telling
<1> HIDE DEF S
<1>5. Cardinality(S \union {c}) = IF c \in S THEN Cardinality(S) ELSE Cardinality(S) + 1
  BY <1>4, FS_AddElement
<1>6. Cardinality(S \ {c}) = IF c \in S THEN Cardinality(S) - 1 ELSE Cardinality(S)
  BY <1>4, FS_RemoveElement
<1>7. Telling(x, what) = Cardinality(S) /\ Telling(x, what)' = Cardinality(Tellers(x, what)')
  BY DEF Telling, S
<1>8. CASE <<x, what>> \in r.sends
  BY <1>2, <1>3, <1>4, <1>5, <1>7, <1>8
<1>9. CASE <<x, what>> \notin r.sends
  BY <1>2, <1>3, <1>4, <1>6, <1>7, <1>9
<1> QED BY <1>8, <1>9

\* Checks that keep what they tell keep the count.
LEMMA SameTelling ==
    ASSUME AlertsTyped, NEW x, NEW what, \A c \in Checks : checks'[c].sends = checks[c].sends
    PROVE  Telling(x, what)' = Telling(x, what)
BY DEF Telling, Tellers

LEMMA NoTelling ==
    ASSUME NEW x, NEW what, \A c \in Checks : checks[c].sends = {}
    PROVE  Telling(x, what) = 0
<1>1. Tellers(x, what) = {}
  BY DEF Tellers
<1> QED BY <1>1, FS_EmptySet DEF Telling

LEMMA AlertsInitial == AlertsConstants /\ AlertsInit => AlertsInv
<1> SUFFICES ASSUME AlertsConstants, AlertsInit PROVE AlertsInv
  OBVIOUS
<1>1. AlertsTyped
  <2>1. NoCheck \in CheckType
    BY DEF NoCheck, CheckType
  <2> QED BY <2>1 DEF AlertsConstants, AlertsInit, AlertsTyped
<1>2. ASSUME NEW x \in Things PROVE Balanced(x)
  <2>1. \A c \in Checks : checks[c].sends = {}
    BY DEF AlertsInit, NoCheck
  <2>2. Telling(x, "down") = 0 /\ Telling(x, "back") = 0
    BY <2>1, NoTelling
  <2> QED BY <2>2 DEF AlertsInit, Balanced, Returning
<1> QED BY <1>1, <1>2 DEF AlertsInv, AlertsInit, Things

\* Polls and readings change marks and returns together.
LEMMA LoggerStep ==
    ASSUME AlertsConstants, AlertsInv, NEW l \in Loggers,
           LoggerFails(l) \/ LoggerAnswers(l) \/ TellReturn(l)
    PROVE  AlertsInv'
<1>1. AlertsTyped /\ l \in Things
  BY DEF AlertsInv, Things
<1>2. \A x \in Things : /\ Telling(x, "down") \in Nat /\ Telling(x, "back") \in Nat
                        /\ recorded[x] \in Int /\ Returning(x) \in Nat
  BY <1>1, TellingType DEF AlertsTyped, Returning
<1>3. CASE LoggerFails(l)
  <2>1. AlertsTyped'
    BY <1>1, <1>3 DEF AlertsTyped, LoggerFails, AlertsConstants
  <2>2. \A c \in Checks : checks'[c].sends = checks[c].sends
    BY <1>3 DEF LoggerFails
  <2>3. ASSUME NEW x \in Things \ unsent PROVE Balanced(x)'
    <3>1. Telling(x, "down")' = Telling(x, "down") /\ Telling(x, "back")' = Telling(x, "back")
      BY <1>1, <2>2, SameTelling
    <3>2. (marks'[x] = "reported") = (marks[x] = "reported")
      BY <1>1, <1>3 DEF AlertsInv, AlertsTyped, LoggerFails
    <3>3. recorded' = recorded /\ Returning(x)' = Returning(x) /\ Balanced(x)
      BY <1>3 DEF AlertsInv, LoggerFails, Returning
    <3> QED BY <3>1, <3>2, <3>3 DEF Balanced
  <2>4. \A k \in Loggers : out'[k] = "up" => marks'[k] = "none"
    BY <1>1, <1>3 DEF AlertsInv, AlertsTyped, LoggerFails, Things
  <2>5. unsent' = unsent
    BY <1>3 DEF LoggerFails
  <2> QED BY <2>1, <2>3, <2>4, <2>5 DEF AlertsInv
<1>4. CASE LoggerAnswers(l)
  <2>1. /\ out' = [out EXCEPT ![l] = "up"] /\ marks' = [marks EXCEPT ![l] = "none"]
        /\ returns' = IF marks[l] = "reported" THEN [returns EXCEPT ![l] = @ + 1] ELSE returns
        /\ checks' = [c \in Checks |-> [checks[c] EXCEPT !.long = @ \ {l}]]
        /\ UNCHANGED <<recorded, unsent, spells, alertFaults>>
    BY <1>4 DEF LoggerAnswers, WasReported
  <2>2. \A c \in Checks : checks'[c] \in CheckType /\ checks'[c].sends = checks[c].sends
    <3> SUFFICES ASSUME NEW c \in Checks
                 PROVE  checks'[c] \in CheckType /\ checks'[c].sends = checks[c].sends
      OBVIOUS
    <3>1. checks[c] \in CheckType
      BY <1>1 DEF AlertsTyped
    <3>2. checks'[c] = [checks[c] EXCEPT !.long = @ \ {l}]
      BY <2>1
    <3> HIDE <1>4
    <3> QED BY <3>1, <3>2 DEF CheckType
  <2>3. AlertsTyped'
    <3>1. returns' \in [Loggers -> Nat]
      BY <1>1, <2>1 DEF AlertsTyped
    <3>2. checks' \in [Checks -> CheckType]
      BY <2>1, <2>2
    <3> QED BY <1>1, <2>1, <3>1, <3>2 DEF AlertsTyped
  <2>4. ASSUME NEW x \in Things \ unsent PROVE Balanced(x)'
    <3>1. Telling(x, "down")' = Telling(x, "down") /\ Telling(x, "back")' = Telling(x, "back")
      BY <1>1, <2>2, SameTelling
    <3>2. recorded' = recorded /\ Balanced(x)
      BY <2>1 DEF AlertsInv
    <3>3. CASE x = l /\ marks[l] = "reported"
      <4>1. Returning(x)' = Returning(x) + 1 /\ marks'[x] = "none"
        BY <1>1, <2>1, <3>3 DEF Returning, AlertsTyped
      <4> QED BY <1>2, <3>1, <3>2, <3>3, <4>1 DEF Balanced
    <3>4. CASE ~(x = l /\ marks[l] = "reported")
      <4>1. Returning(x)' = Returning(x)
        BY <1>1, <2>1, <3>4 DEF Returning, AlertsTyped
      <4>2. (marks'[x] = "reported") = (marks[x] = "reported")
        BY <1>1, <2>1, <3>4 DEF AlertsTyped
      <4> QED BY <3>1, <3>2, <4>1, <4>2 DEF Balanced
    <3> QED BY <3>3, <3>4
  <2>5. \A k \in Loggers : out'[k] = "up" => marks'[k] = "none"
    BY <1>1, <2>1 DEF AlertsInv, AlertsTyped, Things
  <2> QED BY <2>1, <2>3, <2>4, <2>5 DEF AlertsInv
<1>5. CASE TellReturn(l)
  <2>1. /\ returns[l] > 0 /\ returns' = [returns EXCEPT ![l] = @ - 1]
        /\ UNCHANGED <<out, marks, checks, spells>>
    BY <1>5 DEF TellReturn
  <2>2. \/ recorded' = [recorded EXCEPT ![l] = @ - 1] /\ UNCHANGED <<unsent, alertFaults>>
        \/ AlertFault /\ unsent' = unsent \union {l} /\ UNCHANGED recorded
    BY <1>5 DEF TellReturn, Record
  <2>3. AlertsTyped'
    <3>1. returns' \in [Loggers -> Nat]
      BY <1>1, <2>1 DEF AlertsTyped
    <3>2. recorded' \in [Things -> Int] /\ unsent' \subseteq Things
      BY <1>1, <2>2 DEF AlertsTyped
    <3>3. alertFaults' \in 0..AlertFaults
      BY <1>1, <2>2 DEF AlertsTyped, AlertFault, AlertsConstants
    <3> QED BY <1>1, <2>1, <3>1, <3>2, <3>3 DEF AlertsTyped
  <2>4. ASSUME NEW x \in Things \ unsent' PROVE Balanced(x)'
    <3>1. Telling(x, "down")' = Telling(x, "down") /\ Telling(x, "back")' = Telling(x, "back")
      BY <1>1, <2>1, SameTelling
    <3>2. x \notin unsent /\ Balanced(x) /\ marks' = marks
      BY <2>1, <2>2 DEF AlertsInv
    <3>3. CASE x = l
      <4>1. recorded'[x] = recorded[x] - 1 /\ Returning(x)' = Returning(x) - 1
        BY <1>1, <2>1, <2>2, <3>3 DEF Returning, AlertsTyped
      <4> QED BY <1>2, <3>1, <3>2, <4>1 DEF Balanced
    <3>4. CASE x # l
      <4>1. recorded'[x] = recorded[x] /\ Returning(x)' = Returning(x)
        BY <1>1, <2>1, <2>2, <3>4 DEF Returning, AlertsTyped
      <4> QED BY <3>1, <3>2, <4>1 DEF Balanced
    <3> QED BY <3>3, <3>4
  <2> QED BY <2>1, <2>3, <2>4 DEF AlertsInv
<1> QED BY <1>3, <1>4, <1>5

\* A device's reports and the passing of time change no mark.
LEMMA ThingStep ==
    ASSUME AlertsConstants, AlertsInv, NEW x \in Things,
           (x \in Bms /\ (BmsStops(x) \/ BmsReports(x))) \/ TimePasses(x)
    PROVE  AlertsInv'
<1>1. AlertsTyped
  BY DEF AlertsInv
<1>2. /\ UNCHANGED <<marks, checks, returns, recorded, unsent, alertFaults>>
      /\ spells' = spells \/ (spells < MaxSpells /\ spells' = spells + 1)
      /\ out' \in [Things -> {"up", "down", "long"}]
      /\ \A l \in Loggers : out'[l] = "up" => out[l] = "up"
  <2>1. x \in Bms => x \notin Loggers
    BY DEF AlertsConstants
  <2>2. out \in [Things -> {"up", "down", "long"}] /\ spells \in Nat
    BY <1>1 DEF AlertsTyped, AlertsConstants
  <2>3. CASE x \in Bms /\ BmsStops(x)
    BY <2>1, <2>2, <2>3 DEF BmsStops, Things
  <2>4. CASE x \in Bms /\ BmsReports(x)
    BY <2>1, <2>2, <2>4 DEF BmsReports, Things
  <2>5. CASE TimePasses(x)
    BY <2>2, <2>5 DEF TimePasses, Things
  <2> QED BY <2>3, <2>4, <2>5
<1>3. AlertsTyped'
  BY <1>1, <1>2 DEF AlertsTyped, AlertsConstants
<1>4. ASSUME NEW y \in Things \ unsent PROVE Balanced(y)'
  <2>1. Telling(y, "down")' = Telling(y, "down") /\ Telling(y, "back")' = Telling(y, "back")
    BY <1>1, <1>2, SameTelling
  <2> QED BY <1>2, <2>1 DEF AlertsInv, Balanced, Returning
<1> QED BY <1>2, <1>3, <1>4 DEF AlertsInv

\* A check that neither marks nor tells: it starts, reads the devices or ends.
LEMMA QuietCheck ==
    ASSUME AlertsConstants, AlertsInv, NEW c \in Checks,
           StartCheck(c) \/ ReadDevices(c) \/ Finish(c)
    PROVE  AlertsInv'
<1>1. AlertsTyped /\ checks[c] \in CheckType
  BY DEF AlertsInv, AlertsTyped
<1>2. /\ checks[c].sends = {}
      /\ UNCHANGED <<out, marks, returns, recorded, unsent, spells, alertFaults>>
  BY <1>1 DEF CheckType, StartCheck, ReadDevices, Finish, Sending
<1>3. \E r \in CheckType : r.sends = {} /\ checks' = [checks EXCEPT ![c] = r]
  <2>1. CASE StartCheck(c)
    <3> DEFINE r == [NoCheck EXCEPT !.at = "loggers", !.todo = Loggers,
                                    !.long = {l \in Loggers : out[l] = "long"}]
    <3>1. r \in CheckType /\ r.sends = {}
      BY DEF NoCheck, CheckType, Things
    <3> QED BY <2>1, <3>1 DEF StartCheck
  <2>2. CASE ReadDevices(c)
    <3> DEFINE r == [checks[c] EXCEPT !.at = "devices", !.todo = Bms,
                                      !.seen = {d \in Bms : out[d] = "long"}]
    <3>1. r \in CheckType /\ r.sends = {}
      BY <1>1, <1>2 DEF CheckType, Things
    <3>2. checks' = [checks EXCEPT ![c] = r]
      BY <2>2 DEF ReadDevices
    <3> QED BY <3>1, <3>2
  <2>3. CASE Finish(c)
    <3>1. NoCheck \in CheckType /\ NoCheck.sends = {}
      BY DEF NoCheck, CheckType
    <3> QED BY <2>3, <3>1 DEF Finish
  <2> QED BY <2>1, <2>2, <2>3
<1>4. PICK r \in CheckType : r.sends = {} /\ checks' = [checks EXCEPT ![c] = r]
  BY <1>3
<1>5. AlertsTyped'
  BY <1>1, <1>2, <1>4 DEF AlertsTyped
<1>6. ASSUME NEW x \in Things \ unsent PROVE Balanced(x)'
  <2>1. \A k \in Checks : checks'[k].sends = checks[k].sends
    BY <1>1, <1>2, <1>4 DEF AlertsTyped
  <2>2. Telling(x, "down")' = Telling(x, "down") /\ Telling(x, "back")' = Telling(x, "back")
    BY <1>1, <2>1, SameTelling
  <2> QED BY <1>2, <2>2 DEF AlertsInv, Balanced, Returning
<1> QED BY <1>2, <1>5, <1>6 DEF AlertsInv

\* A visit marks and has an alert to tell, or neither.
LEMMA Visit ==
    ASSUME AlertsConstants, AlertsInv, NEW c \in Checks, NEW y \in Things,
           VisitLogger(c, y) \/ VisitBms(c, y)
    PROVE  AlertsInv'
<1>1. AlertsTyped /\ checks[c] \in CheckType
  BY DEF AlertsInv, AlertsTyped
<1>2. PICK word \in {"nothing", "down", "back"} :
          /\ Do(c, y, word)
          /\ word = "down" => marks[y] # "reported" /\ marks' = [marks EXCEPT ![y] = "reported"]
          /\ word = "back" => marks[y] = "reported" /\ marks' = [marks EXCEPT ![y] = "none"]
          /\ word = "nothing" => marks' = marks
          /\ word = "down" /\ y \in Loggers => out[y] = "long"
  <2>1. CASE VisitLogger(c, y)
    BY <2>1 DEF VisitLogger, Marked
  <2>2. CASE VisitBms(c, y)
    <3>1. checks[c].seen \subseteq Bms /\ Loggers \intersect Bms = {}
      BY <1>1 DEF CheckType, AlertsConstants
    <3> QED BY <2>2, <3>1 DEF VisitBms, Marked, Unmark
  <2> QED BY <2>1, <2>2
<1>3. /\ checks[c].at # "rest" /\ checks[c].sends = {}
      /\ UNCHANGED <<out, returns, recorded, unsent, spells, alertFaults>>
  BY <1>1 DEF VisitLogger, VisitBms, Sending, CheckType
<1>4. \E r \in CheckType :
          /\ Becomes(c, r)
          /\ \A x, w : <<x, w>> \in r.sends <=> (word # "nothing" /\ x = y /\ w = word)
  <2> DEFINE sends == IF word = "nothing" THEN {} ELSE {<<y, word>>}
             after_ == [checks[c] EXCEPT !.todo = @ \ {y}, !.sends = sends]
  <2>1. sends \in {{}} \union {{s} : s \in Sends}
    BY DEF Sends
  <2>2. \A x, w : <<x, w>> \in sends <=> (word # "nothing" /\ x = y /\ w = word)
    OBVIOUS
  <2>3. checks' = [checks EXCEPT ![c] = after_]
    BY <1>2 DEF Do
  <2> HIDE DEF sends
  <2>4. after_.sends = sends /\ after_ \in CheckType
    BY <1>1, <1>3, <2>1 DEF CheckType
  <2> HIDE DEF after_
  <2> QED BY <2>2, <2>3, <2>4 DEF Becomes
<1>5. PICK r \in CheckType :
          /\ Becomes(c, r)
          /\ \A x, w : <<x, w>> \in r.sends <=> (word # "nothing" /\ x = y /\ w = word)
  BY <1>4
<1>6. AlertsTyped'
  <2>1. checks' \in [Checks -> CheckType]
    BY <1>1, <1>5 DEF AlertsTyped, Becomes
  <2>2. marks' \in [Things -> {"none", "noted", "reported"}]
    BY <1>1, <1>2 DEF AlertsTyped
  <2> QED BY <1>1, <1>3, <2>1, <2>2 DEF AlertsTyped
<1>7. \A l \in Loggers : out'[l] = "up" => marks'[l] = "none"
  BY <1>1, <1>2, <1>3 DEF AlertsInv, AlertsTyped, Things
<1>8. ASSUME NEW x \in Things \ unsent PROVE Balanced(x)'
  <2>1. \A w \in {"down", "back"} :
            Telling(x, w)' = Telling(x, w) + (IF x = y /\ w = word THEN 1 ELSE 0)
    <3> SUFFICES ASSUME NEW w \in {"down", "back"}
                 PROVE  Telling(x, w)' = Telling(x, w) + (IF x = y /\ w = word THEN 1 ELSE 0)
      OBVIOUS
    <3>1. Telling(x, w)' = Telling(x, w)
               + (IF <<x, w>> \in r.sends THEN 1 ELSE 0)
               - (IF <<x, w>> \in checks[c].sends THEN 1 ELSE 0)
      BY <1>1, <1>5, Recount
    <3>2. Telling(x, w) \in Nat
      BY TellingType
    <3> QED BY <1>3, <1>5, <3>1, <3>2
  <2>3. /\ Telling(x, "down") \in Nat /\ Telling(x, "back") \in Nat
        /\ recorded[x] \in Int /\ Returning(x) \in Nat
    BY <1>1, TellingType DEF AlertsTyped, Returning
  <2>4. /\ Balanced(x) /\ recorded' = recorded /\ Returning(x)' = Returning(x)
        /\ marks \in [Things -> {"none", "noted", "reported"}]
    BY <1>1, <1>3 DEF AlertsInv, AlertsTyped, Returning
  <2>5. CASE x # y \/ word = "nothing"
    <3>1. marks'[x] = marks[x]
      BY <1>2, <2>4, <2>5
    <3>2. Telling(x, "down")' = Telling(x, "down") /\ Telling(x, "back")' = Telling(x, "back")
      BY <2>1, <2>3, <2>5
    <3> QED BY <2>3, <2>4, <3>1, <3>2 DEF Balanced
  <2>6. CASE x = y /\ word = "down"
    <3>1. marks[x] # "reported" /\ marks'[x] = "reported"
      BY <1>2, <2>4, <2>6
    <3>2. Telling(x, "down")' = Telling(x, "down") + 1 /\ Telling(x, "back")' = Telling(x, "back")
      BY <2>1, <2>3, <2>6
    <3> QED BY <2>3, <2>4, <3>1, <3>2 DEF Balanced
  <2>7. CASE x = y /\ word = "back"
    <3>1. marks[x] = "reported" /\ marks'[x] # "reported"
      BY <1>2, <2>4, <2>7
    <3>2. Telling(x, "down")' = Telling(x, "down") /\ Telling(x, "back")' = Telling(x, "back") + 1
      BY <2>1, <2>3, <2>7
    <3> QED BY <2>3, <2>4, <3>1, <3>2 DEF Balanced
  <2> QED BY <2>5, <2>6, <2>7
<1> QED BY <1>3, <1>6, <1>7, <1>8 DEF AlertsInv

\* An alert is recorded, or its thing is one of which an alert was lost.
LEMMA Tell ==
    ASSUME AlertsConstants, AlertsInv, NEW c \in Checks, TellHousehold(c)
    PROVE  AlertsInv'
<1>1. AlertsTyped /\ checks[c] \in CheckType
  BY DEF AlertsInv, AlertsTyped
<1>2. PICK s \in Sends : checks[c].sends = {s}
  BY <1>1 DEF TellHousehold, Sending, CheckType
<1>3. (CHOOSE z \in checks[c].sends : TRUE) = s
  BY <1>2
<1>4. PICK x \in Things : \E w \in {"down", "back"} : s = <<x, w>>
  BY DEF Sends
<1>5. PICK w \in {"down", "back"} : s = <<x, w>>
  BY <1>4
<1> s[1] = x /\ s[2] = w
  BY <1>5
<1>6. /\ \/ /\ Record(x, w) /\ UNCHANGED <<unsent, alertFaults>>
            /\ checks' = [checks EXCEPT ![c].sends = {}]
         \/ /\ AlertFault /\ unsent' = unsent \union {x} /\ UNCHANGED recorded
            /\ checks' = [checks EXCEPT ![c] = NoCheck]
      /\ UNCHANGED <<out, marks, returns, spells>>
  <2>1. /\ \/ /\ Record(s[1], s[2]) /\ UNCHANGED <<unsent, alertFaults>>
               /\ checks' = [checks EXCEPT ![c].sends = {}]
            \/ /\ AlertFault /\ unsent' = unsent \union {s[1]} /\ UNCHANGED recorded
               /\ checks' = [checks EXCEPT ![c] = NoCheck]
         /\ UNCHANGED <<out, marks, returns, spells>>
    BY <1>3 DEF TellHousehold
  <2> QED BY <2>1
<1>7. PICK r \in CheckType : r.sends = {} /\ Becomes(c, r)
  <2>1. NoCheck \in CheckType /\ NoCheck.sends = {}
    BY DEF NoCheck, CheckType
  <2>2. [checks[c] EXCEPT !.sends = {}] \in CheckType /\ [checks[c] EXCEPT !.sends = {}].sends = {}
    BY <1>1 DEF CheckType
  <2> QED BY <1>6, <2>1, <2>2 DEF Becomes
<1>8. /\ recorded' \in [Things -> Int] /\ unsent' \subseteq Things
      /\ alertFaults' \in 0..AlertFaults
  BY <1>1, <1>6 DEF AlertsTyped, Record, AlertFault, AlertsConstants
<1>9. AlertsTyped'
  BY <1>1, <1>6, <1>7, <1>8 DEF AlertsTyped, Becomes
<1>10. ASSUME NEW y \in Things \ unsent' PROVE Balanced(y)'
  <2>1. \A v \in {"down", "back"} :
            Telling(y, v)' = Telling(y, v) - (IF y = x /\ v = w THEN 1 ELSE 0)
    <3> SUFFICES ASSUME NEW v \in {"down", "back"}
                 PROVE  Telling(y, v)' = Telling(y, v) - (IF y = x /\ v = w THEN 1 ELSE 0)
      OBVIOUS
    <3>1. Telling(y, v)' = Telling(y, v)
               + (IF <<y, v>> \in r.sends THEN 1 ELSE 0)
               - (IF <<y, v>> \in checks[c].sends THEN 1 ELSE 0)
      BY <1>1, <1>7, Recount
    <3>2. <<y, v>> \notin r.sends /\ (<<y, v>> \in checks[c].sends <=> y = x /\ v = w)
      BY <1>2, <1>5, <1>7
    <3>3. Telling(y, v) \in Nat
      BY TellingType
    <3> QED BY <3>1, <3>2, <3>3
  <2>2. /\ Telling(y, "down") \in Nat /\ Telling(y, "back") \in Nat
        /\ recorded[y] \in Int /\ Returning(y) \in Nat
    BY <1>1, TellingType DEF AlertsTyped, Returning
  <2>3. /\ y \notin unsent /\ Balanced(y) /\ marks' = marks /\ Returning(y)' = Returning(y)
        /\ recorded \in [Things -> Int]
    BY <1>1, <1>6 DEF AlertsInv, AlertsTyped, Returning
  <2>4. CASE y # x
    <3>1. recorded'[y] = recorded[y]
      BY <1>6, <2>3, <2>4 DEF Record
    <3>2. Telling(y, "down")' = Telling(y, "down") /\ Telling(y, "back")' = Telling(y, "back")
      BY <2>1, <2>2, <2>4
    <3> QED BY <2>3, <3>1, <3>2 DEF Balanced
  <2>5. CASE y = x
    <3>1. recorded'[y] = IF w = "down" THEN recorded[y] + 1 ELSE recorded[y] - 1
      BY <1>6, <2>3, <2>5 DEF Record
    <3>2. CASE w = "down"
      <4>1. /\ Telling(y, "down")' = Telling(y, "down") - 1
            /\ Telling(y, "back")' = Telling(y, "back")
        BY <2>1, <2>2, <2>5, <3>2
      <4> QED BY <2>2, <2>3, <3>1, <3>2, <4>1 DEF Balanced
    <3>3. CASE w = "back"
      <4>1. /\ Telling(y, "down")' = Telling(y, "down")
            /\ Telling(y, "back")' = Telling(y, "back") - 1
        BY <2>1, <2>2, <2>5, <3>3
      <4>2. recorded'[y] = recorded[y] - 1
        BY <3>1, <3>3
      <4> QED BY <2>2, <2>3, <4>1, <4>2 DEF Balanced
    <3> QED BY <3>2, <3>3
  <2> QED BY <2>4, <2>5
<1> QED BY <1>6, <1>9, <1>10 DEF AlertsInv

LEMMA Restarted ==
    ASSUME AlertsConstants, AlertsInv, RestartAlerts
    PROVE  AlertsInv'
<1>1. AlertsTyped
  BY DEF AlertsInv
<1>2. NoCheck \in CheckType /\ NoCheck.sends = {}
  BY DEF NoCheck, CheckType
<1>3. AlertsTyped'
  BY <1>1, <1>2 DEF AlertsTyped, RestartAlerts, AlertFault, AlertsConstants
<1>4. \A l \in Loggers : out'[l] = "up" => marks'[l] = "none"
  BY DEF RestartAlerts, Things
<1>5. ASSUME NEW x \in Things PROVE Balanced(x)'
  <2>1. \A c \in Checks : checks'[c].sends = {}
    BY <1>2 DEF RestartAlerts
  <2>2. \A w : Tellers(x, w)' = {}
    BY <2>1 DEF Tellers
  <2>3. Telling(x, "down")' = 0 /\ Telling(x, "back")' = 0
    BY <2>2, FS_EmptySet DEF Telling
  <2>4. Returning(x)' = 0 /\ recorded'[x] = 0 /\ marks'[x] = "none"
    BY DEF RestartAlerts, Returning
  <2> QED BY <2>3, <2>4 DEF Balanced
<1> QED BY <1>3, <1>4, <1>5 DEF AlertsInv, RestartAlerts

LEMMA AlertsStep ==
    ASSUME AlertsConstants, AlertsInv, [AlertsNext]_alertVars
    PROVE  AlertsInv'
<1>1. CASE UNCHANGED alertVars
  <2>1. /\ UNCHANGED <<out, marks, checks, returns, recorded, unsent, spells, alertFaults>>
    BY <1>1 DEF alertVars
  <2>2. \A x \in Things : Balanced(x)' = Balanced(x)
    BY <2>1 DEF Balanced, Telling, Tellers, Returning
  <2> QED BY <2>1, <2>2 DEF AlertsInv, AlertsTyped
<1>2. CASE \E l \in Loggers : LoggerFails(l) \/ LoggerAnswers(l) \/ TellReturn(l)
  BY <1>2, LoggerStep
<1>3. CASE \/ \E d \in Bms : BmsStops(d) \/ BmsReports(d)
           \/ \E x \in Things : TimePasses(x)
  BY <1>3, ThingStep DEF Things
<1>4. CASE \E c \in Checks : CheckStep(c)
  BY <1>4, QuietCheck, Visit, Tell DEF CheckStep
<1>5. CASE RestartAlerts
  BY <1>5, Restarted
<1> QED BY <1>1, <1>2, <1>3, <1>4, <1>5 DEF AlertsNext

LEMMA AlertsMean == AlertsConstants /\ AlertsInv => AlertsTypeOK /\ OfflinePaired
<1> SUFFICES ASSUME AlertsConstants, AlertsInv PROVE AlertsTypeOK /\ OfflinePaired
  OBVIOUS
<1>1. AlertsTyped
  BY DEF AlertsInv
<1>2. ASSUME NEW c \in Checks PROVE Cardinality(checks[c].sends) <= 1
  <2>1. checks[c] \in CheckType
    BY <1>1 DEF AlertsTyped
  <2>2. checks[c].sends \in {{}} \union {{s} : s \in Sends}
    BY <2>1 DEF CheckType
  <2>3. checks[c].sends = {} \/ \E s \in Sends : checks[c].sends = {s}
    BY <2>2
  <2>4. CASE checks[c].sends = {}
    BY <2>4, FS_EmptySet
  <2>5. CASE \E s \in Sends : checks[c].sends = {s}
    BY <2>5, FS_Singleton
  <2> QED BY <2>3, <2>4, <2>5
<1>3. \A c \in Checks : checks[c] \in CheckType
  BY <1>1 DEF AlertsTyped
<1>4. AlertsTypeOK
  BY <1>1, <1>2, <1>3 DEF AlertsTypeOK, AlertsTyped, CheckType
<1>5. ASSUME NEW x \in Things \ unsent, ~UnderWay(x)
      PROVE  recorded[x] = (IF marks[x] = "reported" THEN 1 ELSE 0)
  <2>1. \A w : Tellers(x, w) = {}
    BY <1>5 DEF UnderWay, Tellers
  <2>2. Telling(x, "down") = 0 /\ Telling(x, "back") = 0
    BY <2>1, FS_EmptySet DEF Telling
  <2>3. Returning(x) = 0
    BY <1>1, <1>5 DEF UnderWay, Returning, AlertsTyped
  <2>4. Balanced(x) /\ recorded[x] \in Int
    BY <1>1 DEF AlertsInv, AlertsTyped
  <2> QED BY <2>2, <2>3, <2>4 DEF Balanced
<1> QED BY <1>4, <1>5 DEF OfflinePaired

-----------------------------------------------------------------------------
(* The notices.                                                            *)

KnownType ==
    {k \in [Gauges -> [on : BOOLEAN, streak : Int]] : \A g \in Gauges : k[g].streak \in -1..Streak[g]}
HandlingType == [at : {"rest", "back", "limits", "tell"}, prev : KnownType, todo : Int]
CheckingType == [at : {"rest", "read", "decide", "tell"}, baseline : BOOLEAN, old : BOOLEAN]

NoticesTyped ==
    /\ known \in KnownType
    /\ silent \in [since : BOOLEAN, reported : BOOLEAN] /\ (silent.reported => silent.since)
    /\ checked \in BOOLEAN /\ quiet \in BOOLEAN /\ undelivered \in BOOLEAN
    /\ handling \in [Handlers -> HandlingType] /\ checking \in [Checkers -> CheckingType]
    /\ told \in [silent : Nat, back : Nat]
    /\ samples \in 0..MaxSamples /\ noticeFaults \in 0..NoticeFaults

\* Who has a notice of silence, and of the agent's return, in hand.
SilenceTellers == {c \in Checkers : checking[c].at = "tell"}
ReturnTellers == {h \in Handlers : handling[h].at = "back"}

\* What was told and what is under way make up the mark.
NoticesBalance ==
    told.silent + Cardinality(SilenceTellers)
        = told.back + Cardinality(ReturnTellers) + (IF silent.reported THEN 1 ELSE 0)

NoticesInv == NoticesTyped /\ (~undelivered => NoticesBalance)

LEMMA Recounted ==
    ASSUME NEW S, IsFiniteSet(S), NEW c, NEW b \in BOOLEAN,
           NEW T, T = IF b THEN S \union {c} ELSE S \ {c}
    PROVE  Cardinality(T) = Cardinality(S) + (IF b THEN 1 ELSE 0) - (IF c \in S THEN 1 ELSE 0)
<1>1. Cardinality(S) \in Nat
  BY FS_CardinalityType
<1>2. Cardinality(S \union {c}) = IF c \in S THEN Cardinality(S) ELSE Cardinality(S) + 1
  BY FS_AddElement
<1>3. Cardinality(S \ {c}) = IF c \in S THEN Cardinality(S) - 1 ELSE Cardinality(S)
  BY FS_RemoveElement
<1> QED BY <1>1, <1>2, <1>3

LEMMA TellersFinite ==
    ASSUME NoticesConstants
    PROVE  /\ IsFiniteSet(SilenceTellers) /\ Cardinality(SilenceTellers) \in Nat
           /\ IsFiniteSet(ReturnTellers) /\ Cardinality(ReturnTellers) \in Nat
<1>1. IsFiniteSet(SilenceTellers) /\ IsFiniteSet(ReturnTellers)
  BY FS_Subset DEF NoticesConstants, SilenceTellers, ReturnTellers
<1> QED BY <1>1, FS_CardinalityType

LEMMA RestTypes ==
    ASSUME NoticesConstants
    PROVE  /\ NotKnown \in KnownType /\ Resting \in HandlingType /\ Idle \in CheckingType
           /\ Heard \in [since : BOOLEAN, reported : BOOLEAN] /\ ~Heard.reported
           /\ NoneTold \in [silent : Nat, back : Nat]
<1>1. NotKnown \in KnownType
  BY DEF NoticesConstants, NotKnown, KnownType
<1> QED BY <1>1 DEF Resting, HandlingType, Idle, CheckingType, Heard, NoneTold

LEMMA JudgeType ==
    ASSUME NoticesConstants, NEW k \in KnownType, NEW g \in Gauges, NEW r \in Readings
    PROVE  /\ Judge(k[g], g, r) \in [on : BOOLEAN, streak : Int]
           /\ Judge(k[g], g, r).streak \in -1..Streak[g]
<1>1. /\ k[g] \in [on : BOOLEAN, streak : Int] /\ k[g].streak \in -1..Streak[g]
      /\ Streak[g] \in Nat \ {0}
  BY DEF KnownType, NoticesConstants
<1> DEFINE first == k[g].streak = -1
           streak == IF r # "over" THEN 0
                     ELSE IF first \/ k[g].streak = Streak[g] THEN Streak[g] ELSE k[g].streak + 1
           was == IF first THEN r = "over" ELSE k[g].on
           on == (was \/ streak = Streak[g]) /\ ~(was /\ r = "clear")
<1>2. Judge(k[g], g, r) = [on |-> on, streak |-> streak]
  BY DEF Judge
<1>3. streak \in Int /\ streak \in -1..Streak[g]
  BY <1>1
<1>4. on \in BOOLEAN
  OBVIOUS
<1> HIDE DEF on, streak
<1> QED BY <1>2, <1>3, <1>4

LEMMA NoticesInitial == NoticesConstants /\ NoticesInit => NoticesInv
<1> SUFFICES ASSUME NoticesConstants, NoticesInit PROVE NoticesInv
  OBVIOUS
<1>1. NoticesTyped
  <2>1. 0 \in 0..MaxSamples /\ 0 \in 0..NoticeFaults
    BY DEF NoticesConstants
  <2>2. handling \in [Handlers -> HandlingType] /\ checking \in [Checkers -> CheckingType]
    BY RestTypes DEF NoticesInit
  <2> QED BY <2>1, <2>2, RestTypes DEF NoticesInit, NoticesTyped
<1>2. SilenceTellers = {} /\ ReturnTellers = {}
  BY DEF NoticesInit, SilenceTellers, ReturnTellers, Resting, Idle
<1> QED BY <1>1, <1>2, FS_EmptySet DEF NoticesInv, NoticesBalance, NoticesInit, NoneTold, Heard

\* A handler's step: it takes up a sample, tells, judges or fails.
LEMMA HandlerKeeps ==
    ASSUME NoticesConstants, NoticesInv, NEW h \in Handlers,
           Sample(h) \/ Back(h) \/ Limits(h) \/ TellNotice(h) \/ HandlingFails(h)
    PROVE  NoticesInv'
<1>1. NoticesTyped /\ handling[h] \in HandlingType
  BY DEF NoticesInv, NoticesTyped
<1>2. \E r \in HandlingType :
          /\ handling' = [handling EXCEPT ![h] = r]
          /\ \/ /\ undelivered' = undelivered /\ handling[h].at # "back" /\ told' = told
                /\ (r.at = "back") = silent.reported /\ ~silent'.reported /\ silent' = Heard
             \/ /\ undelivered' = undelivered /\ silent' = silent /\ r.at # "back"
                /\ told' = [told EXCEPT !.back =
                              @ + (IF handling[h].at = "back" THEN 1 ELSE 0)]
             \/ undelivered' /\ undelivered' \in BOOLEAN /\ silent' = silent /\ told' = told
  <2>1. CASE Sample(h)
    <3>1. PICK r \in HandlingType :
              /\ handling' = [handling EXCEPT ![h] = r]
              /\ (r.at = "back") = (silent.since /\ silent.reported)
      <4> DEFINE a == [Resting EXCEPT !.at = "back"]
                 b == [Resting EXCEPT !.at = "limits", !.prev = known]
      <4>1. a \in HandlingType /\ a.at = "back" /\ b \in HandlingType /\ b.at # "back"
        BY <1>1, RestTypes DEF NoticesTyped, HandlingType
      <4>2. handling' = [handling EXCEPT ![h] = IF silent.since /\ silent.reported THEN a ELSE b]
        BY <2>1 DEF Sample, BeginSample
      <4> HIDE DEF a, b
      <4> QED BY <4>1, <4>2
    <3>2. silent.since /\ silent.reported <=> silent.reported
      BY <1>1 DEF NoticesTyped
    <3>3. silent.reported \in BOOLEAN
      BY <1>1 DEF NoticesTyped
    <3> QED BY <2>1, <3>1, <3>2, <3>3 DEF Sample, Heard
  <2>2. CASE Back(h)
    <3> DEFINE r == [handling[h] EXCEPT !.at = "limits", !.prev = known]
    <3>1. r \in HandlingType /\ r.at # "back"
      BY <1>1 DEF NoticesTyped, HandlingType
    <3>2. handling' = [handling EXCEPT ![h] = r]
      BY <2>2 DEF Back
    <3> HIDE DEF r
    <3>3. told' = [told EXCEPT !.back = @ + (IF handling[h].at = "back" THEN 1 ELSE 0)]
      BY <2>2 DEF Back
    <3> QED BY <2>2, <3>1, <3>2, <3>3 DEF Back
  <2>3. CASE Limits(h) \/ TellNotice(h)
    <3>1. PICK r \in HandlingType : handling' = [handling EXCEPT ![h] = r] /\ r.at # "back"
      <4>1. CASE Limits(h)
        <5>1. PICK reading \in [Gauges -> Readings] :
                handling' = [handling EXCEPT ![h] =
                    LET n == Cardinality(NoticesOf(handling[h].prev,
                                 [g \in Gauges |-> Judge(handling[h].prev[g], g, reading[g])]))
                    IN IF n = 0 THEN Resting ELSE [Resting EXCEPT !.at = "tell", !.todo = n]]
          BY <4>1 DEF Limits
        <5> DEFINE n == Cardinality(NoticesOf(handling[h].prev,
                            [g \in Gauges |-> Judge(handling[h].prev[g], g, reading[g])]))
        <5>2. n \in Nat
          BY FS_Subset, FS_CardinalityType DEF NoticesOf, NoticesConstants
        <5> HIDE DEF n
        <5>3. [Resting EXCEPT !.at = "tell", !.todo = n] \in HandlingType
          <6>1. Resting \in HandlingType /\ n \in Int
            BY <5>2, RestTypes
          <6> QED BY <6>1 DEF HandlingType
        <5>4. Resting.at # "back" /\ [Resting EXCEPT !.at = "tell", !.todo = n].at # "back"
          BY DEF Resting
        <5> QED BY <5>1, <5>3, <5>4, RestTypes DEF n
      <4>2. CASE TellNotice(h)
        <5> DEFINE b == [handling[h] EXCEPT !.todo = @ - 1]
        <5>1. b \in HandlingType /\ b.at # "back" /\ Resting.at # "back"
          BY <1>1, <4>2 DEF HandlingType, TellNotice, Resting
        <5>2. CASE handling[h].todo = 1
          <6>1. handling' = [handling EXCEPT ![h] = Resting]
            BY <4>2, <5>2 DEF TellNotice
          <6> QED BY <5>1, <6>1, RestTypes
        <5>3. CASE handling[h].todo # 1
          <6>1. handling' = [handling EXCEPT ![h] = b]
            BY <4>2, <5>3 DEF TellNotice
          <6> HIDE DEF b
          <6> QED BY <5>1, <6>1
        <5> QED BY <5>2, <5>3
      <4> QED BY <2>3, <4>1, <4>2
    <3>2. handling[h].at # "back" /\ told' = told /\ silent' = silent /\ undelivered' = undelivered
      BY <2>3 DEF Limits, TellNotice
    <3>3. told' = [told EXCEPT !.back = @ + (IF handling[h].at = "back" THEN 1 ELSE 0)]
      BY <1>1, <3>2 DEF NoticesTyped
    <3> QED BY <3>1, <3>2, <3>3
  <2>4. CASE HandlingFails(h)
    BY <2>4, RestTypes DEF HandlingFails
  <2> QED BY <2>1, <2>2, <2>3, <2>4
<1>3. PICK r \in HandlingType :
          /\ handling' = [handling EXCEPT ![h] = r]
          /\ \/ /\ undelivered' = undelivered /\ handling[h].at # "back" /\ told' = told
                /\ (r.at = "back") = silent.reported /\ ~silent'.reported /\ silent' = Heard
             \/ /\ undelivered' = undelivered /\ silent' = silent /\ r.at # "back"
                /\ told' = [told EXCEPT !.back =
                              @ + (IF handling[h].at = "back" THEN 1 ELSE 0)]
             \/ undelivered' /\ undelivered' \in BOOLEAN /\ silent' = silent /\ told' = told
  BY <1>2
<1>4. UNCHANGED <<checked, checking>>
  BY DEF Sample, Back, Limits, TellNotice, HandlingFails
<1>5. /\ quiet' \in BOOLEAN /\ samples' \in 0..MaxSamples /\ noticeFaults' \in 0..NoticeFaults
  <2>1. quiet \in BOOLEAN /\ samples \in 0..MaxSamples /\ noticeFaults \in 0..NoticeFaults
    BY <1>1 DEF NoticesTyped
  <2>2. MaxSamples \in Nat /\ NoticeFaults \in Nat
    BY DEF NoticesConstants
  <2>3. /\ quiet' = quiet \/ quiet' = FALSE
        /\ samples' = samples \/ (samples < MaxSamples /\ samples' = samples + 1)
        /\ \/ noticeFaults' = noticeFaults
           \/ noticeFaults < NoticeFaults /\ noticeFaults' = noticeFaults + 1
    BY DEF Sample, Back, Limits, TellNotice, HandlingFails, NoticeFault
  <2>4. quiet' \in BOOLEAN
    BY <2>1, <2>3
  <2>5. samples' \in 0..MaxSamples
    BY <2>1, <2>2, <2>3
  <2>6. noticeFaults' \in 0..NoticeFaults
    BY <2>1, <2>2, <2>3
  <2> QED BY <2>4, <2>5, <2>6
<1>6. known' \in KnownType
  <2>1. CASE Limits(h)
    <3>1. PICK reading \in [Gauges -> Readings] :
              known' = [g \in Gauges |-> Judge(handling[h].prev[g], g, reading[g])]
      BY <2>1 DEF Limits
    <3>2. handling[h].prev \in KnownType
      BY <1>1 DEF HandlingType
    <3>3. \A g \in Gauges : /\ known'[g] \in [on : BOOLEAN, streak : Int]
                            /\ known'[g].streak \in -1..Streak[g]
      <4> SUFFICES ASSUME NEW g \in Gauges
                   PROVE  /\ known'[g] \in [on : BOOLEAN, streak : Int]
                          /\ known'[g].streak \in -1..Streak[g]
        OBVIOUS
      <4>1. known'[g] = Judge(handling[h].prev[g], g, reading[g]) /\ reading[g] \in Readings
        BY <3>1
      <4> QED BY <3>2, <4>1, JudgeType
    <3> QED BY <3>1, <3>3 DEF KnownType
  <2>2. CASE ~Limits(h)
    BY <1>1, <2>2 DEF NoticesTyped, Sample, Back, TellNotice, HandlingFails
  <2> QED BY <2>1, <2>2
<1>7. NoticesTyped'
  <2>1. /\ told' \in [silent : Nat, back : Nat] /\ undelivered' \in BOOLEAN
        /\ silent' \in [since : BOOLEAN, reported : BOOLEAN] /\ (silent'.reported => silent'.since)
    BY <1>1, <1>3, RestTypes DEF NoticesTyped
  <2>2. handling' \in [Handlers -> HandlingType]
    BY <1>1, <1>3 DEF NoticesTyped
  <2> QED BY <1>1, <1>4, <1>5, <1>6, <2>1, <2>2 DEF NoticesTyped
<1>8. ASSUME ~undelivered' PROVE NoticesBalance'
  <2>1. ReturnTellers' = IF r.at = "back" THEN ReturnTellers \union {h} ELSE ReturnTellers \ {h}
    BY <1>1, <1>3 DEF ReturnTellers, NoticesTyped
  <2>2. (r.at = "back") \in BOOLEAN /\ (h \in ReturnTellers) = (handling[h].at = "back")
    BY DEF ReturnTellers
  <2>3. Cardinality(ReturnTellers') = Cardinality(ReturnTellers)
            + (IF r.at = "back" THEN 1 ELSE 0) - (IF handling[h].at = "back" THEN 1 ELSE 0)
    <3>1. Cardinality(ReturnTellers') = Cardinality(ReturnTellers)
            + (IF r.at = "back" THEN 1 ELSE 0) - (IF h \in ReturnTellers THEN 1 ELSE 0)
      <4>1. PICK b \in BOOLEAN : b = (r.at = "back")
        BY <2>2
      <4>2. ReturnTellers' = IF b THEN ReturnTellers \union {h} ELSE ReturnTellers \ {h}
        BY <2>1, <4>1
      <4>3. Cardinality(ReturnTellers') = Cardinality(ReturnTellers)
                + (IF b THEN 1 ELSE 0) - (IF h \in ReturnTellers THEN 1 ELSE 0)
        BY <4>2, TellersFinite, Recounted
      <4> QED BY <4>1, <4>3
    <3> QED BY <2>2, <3>1
  <2>4. SilenceTellers' = SilenceTellers
    BY <1>4 DEF SilenceTellers
  <2>5. Cardinality(ReturnTellers) \in Nat /\ Cardinality(SilenceTellers) \in Nat
    BY TellersFinite
  <2>6. /\ told \in [silent : Nat, back : Nat] /\ silent.reported \in BOOLEAN
        /\ undelivered \in BOOLEAN
    BY <1>1 DEF NoticesTyped
  <2>7. CASE /\ undelivered' = undelivered /\ handling[h].at # "back" /\ told' = told
             /\ (r.at = "back") = silent.reported /\ ~silent'.reported /\ silent' = Heard
    <3>1. NoticesBalance
      BY <1>8, <2>7 DEF NoticesInv
    <3> QED BY <2>3, <2>4, <2>5, <2>6, <2>7, <3>1 DEF NoticesBalance
  <2>8. CASE /\ undelivered' = undelivered /\ silent' = silent /\ r.at # "back"
             /\ told' = [told EXCEPT !.back = @ + (IF handling[h].at = "back" THEN 1 ELSE 0)]
    <3>1. NoticesBalance
      BY <1>8, <2>8 DEF NoticesInv
    <3>2. /\ told'.silent = told.silent
          /\ told'.back = told.back + (IF handling[h].at = "back" THEN 1 ELSE 0)
      BY <2>6, <2>8
    <3> QED BY <2>3, <2>4, <2>5, <2>6, <2>8, <3>1, <3>2 DEF NoticesBalance
  <2> QED BY <1>3, <1>8, <2>7, <2>8
<1> QED BY <1>7, <1>8 DEF NoticesInv

\* A check's step: it starts, reads, decides, tells or fails.
LEMMA CheckerKeeps ==
    ASSUME NoticesConstants, NoticesInv, NEW c \in Checkers,
           Check(c) \/ CheckRead(c) \/ CheckDecide(c) \/ CheckTell(c) \/ CheckFails(c)
    PROVE  NoticesInv'
<1>1. NoticesTyped /\ checking[c] \in CheckingType
  BY DEF NoticesInv, NoticesTyped
<1>2. silent.reported => silent.since
  BY <1>1 DEF NoticesTyped
<1>3. \E r \in CheckingType :
          /\ checking' = [checking EXCEPT ![c] = r]
          /\ \/ /\ undelivered' = undelivered /\ told' = told /\ checking[c].at # "tell"
                /\ ~silent.reported
                /\ silent' = [since |-> TRUE, reported |-> (r.at = "tell")]
             \/ /\ undelivered' = undelivered /\ silent' = silent /\ r.at # "tell"
                /\ told' = [told EXCEPT !.silent =
                              @ + (IF checking[c].at = "tell" THEN 1 ELSE 0)]
             \/ undelivered' /\ undelivered' \in BOOLEAN /\ silent' = silent /\ told' = told
  <2> DEFINE Untold == told' = [told EXCEPT !.silent =
                                  @ + (IF checking[c].at = "tell" THEN 1 ELSE 0)]
  <2>1. told' = told /\ checking[c].at # "tell" => Untold
    BY <1>1 DEF NoticesTyped
  <2>2. CASE Check(c)
    <3> DEFINE r == [Idle EXCEPT !.at = "read", !.baseline = ~checked]
    <3>1. r \in CheckingType /\ r.at # "tell"
      BY <1>1 DEF NoticesTyped, CheckingType, Idle
    <3>2. checking' = [checking EXCEPT ![c] = r] /\ Untold
      BY <2>1, <2>2 DEF Check, Due
    <3> HIDE DEF r
    <3> QED BY <2>2, <3>1, <3>2 DEF Check
  <2>3. CASE CheckRead(c)
    <3> DEFINE r == [checking[c] EXCEPT !.at = "decide", !.old = quiet]
    <3>1. r \in CheckingType /\ r.at # "tell"
      BY <1>1 DEF NoticesTyped, CheckingType
    <3>2. checking' = [checking EXCEPT ![c] = r] /\ Untold
      BY <2>1, <2>3 DEF CheckRead
    <3> HIDE DEF r
    <3> QED BY <2>3, <3>1, <3>2 DEF CheckRead
  <2>4. CASE CheckDecide(c) /\ checking[c].old /\ Unmarked
    <3>1. /\ checking[c].at = "decide" /\ ~silent.reported
          /\ silent' = [since |-> TRUE, reported |-> ~checking[c].baseline]
          /\ checking' = [checking EXCEPT ![c] =
                 IF @.baseline THEN Idle ELSE [@ EXCEPT !.at = "tell"]]
          /\ undelivered' = undelivered /\ told' = told
      BY <1>2, <2>4 DEF CheckDecide, Unmarked
    <3>2. CASE checking[c].baseline
      <4>1. checking' = [checking EXCEPT ![c] = Idle] /\ Idle.at # "tell"
        BY <3>1, <3>2 DEF Idle
      <4> QED BY <3>1, <3>2, <4>1, RestTypes
    <3>3. CASE ~checking[c].baseline
      <4> DEFINE r == [checking[c] EXCEPT !.at = "tell"]
      <4>1. r \in CheckingType /\ r.at = "tell"
        BY <1>1 DEF CheckingType
      <4>2. checking' = [checking EXCEPT ![c] = r]
        BY <3>1, <3>3
      <4> HIDE DEF r
      <4> QED BY <3>1, <3>3, <4>1, <4>2
    <3> QED BY <3>2, <3>3
  <2>5. CASE CheckDecide(c) /\ ~(checking[c].old /\ Unmarked)
    <3>1. /\ checking' = [checking EXCEPT ![c] = Idle] /\ Idle.at # "tell" /\ Untold
          /\ undelivered' = undelivered /\ silent' = silent
      BY <2>1, <2>5 DEF CheckDecide, Idle
    <3> QED BY <3>1, RestTypes
  <2>6. CASE CheckTell(c)
    <3>1. /\ checking' = [checking EXCEPT ![c] = Idle] /\ Idle.at # "tell" /\ Untold
          /\ undelivered' = undelivered /\ silent' = silent
      BY <2>6 DEF CheckTell, Idle
    <3> QED BY <3>1, RestTypes
  <2>7. CASE CheckFails(c)
    BY <2>7, RestTypes DEF CheckFails
  <2> QED BY <2>2, <2>3, <2>4, <2>5, <2>6, <2>7
<1>4. PICK r \in CheckingType :
          /\ checking' = [checking EXCEPT ![c] = r]
          /\ \/ /\ undelivered' = undelivered /\ told' = told /\ checking[c].at # "tell"
                /\ ~silent.reported
                /\ silent' = [since |-> TRUE, reported |-> (r.at = "tell")]
             \/ /\ undelivered' = undelivered /\ silent' = silent /\ r.at # "tell"
                /\ told' = [told EXCEPT !.silent =
                              @ + (IF checking[c].at = "tell" THEN 1 ELSE 0)]
             \/ undelivered' /\ undelivered' \in BOOLEAN /\ silent' = silent /\ told' = told
  BY <1>3
<1>5. /\ UNCHANGED <<known, quiet, handling, samples>>
      /\ checked' = checked \/ checked' = TRUE
      /\ \/ noticeFaults' = noticeFaults
         \/ noticeFaults < NoticeFaults /\ noticeFaults' = noticeFaults + 1
  BY DEF Check, CheckRead, CheckDecide, CheckTell, CheckFails, NoticeFault
<1>6. noticeFaults' \in 0..NoticeFaults
  BY <1>1, <1>5 DEF NoticesTyped, NoticesConstants
<1>7. NoticesTyped'
  <2>1. told' \in [silent : Nat, back : Nat] /\ undelivered' \in BOOLEAN
    BY <1>1, <1>4 DEF NoticesTyped
  <2>2. silent' \in [since : BOOLEAN, reported : BOOLEAN] /\ (silent'.reported => silent'.since)
    <3>1. silent' = silent \/ silent' = [since |-> TRUE, reported |-> (r.at = "tell")]
      BY <1>4
    <3>2. (r.at = "tell") \in BOOLEAN
      OBVIOUS
    <3>3. CASE silent' = [since |-> TRUE, reported |-> (r.at = "tell")]
      BY <3>2, <3>3
    <3> QED BY <1>1, <3>1, <3>3 DEF NoticesTyped
  <2>3. checking' \in [Checkers -> CheckingType]
    BY <1>1, <1>4 DEF NoticesTyped
  <2>4. checked' \in BOOLEAN
    BY <1>1, <1>5 DEF NoticesTyped
  <2> QED BY <1>1, <1>5, <1>6, <2>1, <2>2, <2>3, <2>4 DEF NoticesTyped
<1>8. ASSUME ~undelivered' PROVE NoticesBalance'
  <2>1. SilenceTellers' = IF r.at = "tell" THEN SilenceTellers \union {c} ELSE SilenceTellers \ {c}
    BY <1>1, <1>4 DEF SilenceTellers, NoticesTyped
  <2>2. (r.at = "tell") \in BOOLEAN /\ (c \in SilenceTellers) = (checking[c].at = "tell")
    BY DEF SilenceTellers
  <2>3. Cardinality(SilenceTellers') = Cardinality(SilenceTellers)
            + (IF r.at = "tell" THEN 1 ELSE 0) - (IF checking[c].at = "tell" THEN 1 ELSE 0)
    <3>1. Cardinality(SilenceTellers') = Cardinality(SilenceTellers)
            + (IF r.at = "tell" THEN 1 ELSE 0) - (IF c \in SilenceTellers THEN 1 ELSE 0)
      <4>1. PICK b \in BOOLEAN : b = (r.at = "tell")
        BY <2>2
      <4>2. SilenceTellers' = IF b THEN SilenceTellers \union {c} ELSE SilenceTellers \ {c}
        BY <2>1, <4>1
      <4>3. Cardinality(SilenceTellers') = Cardinality(SilenceTellers)
                + (IF b THEN 1 ELSE 0) - (IF c \in SilenceTellers THEN 1 ELSE 0)
        BY <4>2, TellersFinite, Recounted
      <4> QED BY <4>1, <4>3
    <3> QED BY <2>2, <3>1
  <2>4. ReturnTellers' = ReturnTellers
    BY <1>5 DEF ReturnTellers
  <2>5. Cardinality(ReturnTellers) \in Nat /\ Cardinality(SilenceTellers) \in Nat
    BY TellersFinite
  <2>6. /\ told \in [silent : Nat, back : Nat] /\ silent.reported \in BOOLEAN
        /\ undelivered \in BOOLEAN
    BY <1>1 DEF NoticesTyped
  <2>7. CASE /\ undelivered' = undelivered /\ told' = told /\ checking[c].at # "tell"
             /\ ~silent.reported
             /\ silent' = [since |-> TRUE, reported |-> (r.at = "tell")]
    <3>1. NoticesBalance
      BY <1>8, <2>7 DEF NoticesInv
    <3>2. silent'.reported <=> r.at = "tell"
      BY <2>7
    <3> QED BY <2>3, <2>4, <2>5, <2>6, <2>7, <3>1, <3>2 DEF NoticesBalance
  <2>8. CASE /\ undelivered' = undelivered /\ silent' = silent /\ r.at # "tell"
             /\ told' = [told EXCEPT !.silent = @ + (IF checking[c].at = "tell" THEN 1 ELSE 0)]
    <3>1. NoticesBalance
      BY <1>8, <2>8 DEF NoticesInv
    <3>2. /\ told'.back = told.back
          /\ told'.silent = told.silent + (IF checking[c].at = "tell" THEN 1 ELSE 0)
      BY <2>6, <2>8
    <3> QED BY <2>3, <2>4, <2>5, <2>6, <2>8, <3>1, <3>2 DEF NoticesBalance
  <2> QED BY <1>4, <1>8, <2>7, <2>8
<1> QED BY <1>7, <1>8 DEF NoticesInv

LEMMA NoticesStep ==
    ASSUME NoticesConstants, NoticesInv, [NoticesNext]_noticeVars
    PROVE  NoticesInv'
<1>1. NoticesTyped
  BY DEF NoticesInv
<1>2. CASE UNCHANGED noticeVars \/ GoQuiet
  <2>1. /\ UNCHANGED <<known, silent, checked, handling, checking, told, undelivered, samples,
                       noticeFaults>>
        /\ quiet' = quiet \/ quiet' = TRUE
    BY <1>2 DEF noticeVars, GoQuiet
  <2>2. NoticesTyped'
    BY <1>1, <2>1 DEF NoticesTyped
  <2>3. NoticesBalance' = NoticesBalance
    BY <2>1 DEF NoticesBalance, SilenceTellers, ReturnTellers
  <2> QED BY <2>1, <2>2, <2>3 DEF NoticesInv
<1>3. CASE RestartServer
  <2>1. /\ handling' \in [Handlers -> HandlingType] /\ checking' \in [Checkers -> CheckingType]
        /\ known' \in KnownType
    BY <1>3, RestTypes DEF RestartServer
  <2>2. noticeFaults' \in 0..NoticeFaults
    BY <1>1, <1>3 DEF NoticesTyped, RestartServer, NoticeFault, NoticesConstants
  <2>3. NoticesTyped'
    BY <1>1, <1>3, <2>1, <2>2, RestTypes DEF NoticesTyped, RestartServer
  <2>4. SilenceTellers' = {} /\ ReturnTellers' = {}
    BY <1>3 DEF RestartServer, SilenceTellers, ReturnTellers, Resting, Idle
  <2>5. NoticesBalance'
    BY <1>3, <2>4, FS_EmptySet DEF NoticesBalance, RestartServer, NoneTold, Heard
  <2> QED BY <2>3, <2>5 DEF NoticesInv
<1> QED BY <1>2, <1>3, HandlerKeeps, CheckerKeeps DEF NoticesNext

LEMMA NoticesMean == NoticesConstants /\ NoticesInv => NoticesTypeOK /\ SilencePaired
<1> SUFFICES ASSUME NoticesConstants, NoticesInv PROVE NoticesTypeOK /\ SilencePaired
  OBVIOUS
<1>1. NoticesTyped
  BY DEF NoticesInv
<1>2. /\ \A h \in Handlers : handling[h].at \in {"rest", "back", "limits", "tell"}
      /\ \A c \in Checkers : checking[c].at \in {"rest", "read", "decide", "tell"}
      /\ \A g \in Gauges : known[g].on \in BOOLEAN /\ known[g].streak \in -1..Streak[g]
  BY <1>1 DEF NoticesTyped, HandlingType, CheckingType, KnownType
<1>3. NoticesTypeOK
  BY <1>1, <1>2 DEF NoticesTypeOK, NoticesTyped
<1>4. ASSUME /\ ~undelivered /\ \A h \in Handlers : handling[h].at \in {"rest", "limits", "tell"}
             /\ \A c \in Checkers : checking[c].at # "tell"
      PROVE  told.silent = told.back + (IF silent.reported THEN 1 ELSE 0)
  <2>1. SilenceTellers = {} /\ ReturnTellers = {}
    BY <1>4 DEF SilenceTellers, ReturnTellers
  <2>2. told.silent \in Nat /\ told.back \in Nat /\ silent.reported \in BOOLEAN
    BY <1>1 DEF NoticesTyped
  <2>3. NoticesBalance
    BY <1>4 DEF NoticesInv
  <2> QED BY <2>1, <2>2, <2>3, FS_EmptySet DEF NoticesBalance
<1> QED BY <1>3, <1>4 DEF SilencePaired

-----------------------------------------------------------------------------
(* The bot.                                                                *)

CodeType == [user : Accounts, live : BOOLEAN]
Updates(n) == [id : 1..n, chat : Chats, text : {"start", "stop", "card"}, code : Codes \union {"none"}]

BotTyped ==
    /\ DOMAIN codes \subseteq Codes /\ codes \in [DOMAIN codes -> CodeType]
    /\ links \subseteq [chat : Chats, user : Accounts]
    /\ inbox \subseteq Updates(written)
    /\ bot \in [offset : 0..(written + 1), batch : SUBSET inbox, doing : Updates(written) \union {Nothing}]
    /\ taken \subseteq 1..written /\ written \in 0..MaxUpdates
    /\ sentOn \in 0..evening /\ evening \in Nat
    /\ uses \in [Codes -> Nat]

\* What Telegram keeps is in the batch, or later than all of it, or was taken;
\* and what the bot's offset lets go was taken.
UpdatesKept ==
    /\ NoneDropped
    /\ \A u \in inbox : \/ u.id \in taken
                        \/ u \in bot.batch
                        \/ \A v \in bot.batch : v.id < u.id
    /\ \A u \in inbox : u.id < bot.offset => u.id \in taken

\* A code that may still link a chat has linked none.
CodesSpent ==
    \A k \in Codes : /\ uses[k] <= 1
                     /\ k \notin DOMAIN codes \/ codes[k].live => uses[k] = 0

\* One round at most goes round, over chats not sent to; none before its tick.
OneRound ==
    /\ \A a, b \in rounds : a = b
    /\ \A left \in rounds : \A s \in summaries : s[1] \notin left
    /\ sentOn # evening => rounds = {} /\ summaries = {}
    /\ SummaryOnce

BotInv == BotTyped /\ UpdatesKept /\ CodesSpent /\ OneRound

LEMMA BotInitial == BotConstants /\ InitBot => BotInv
<1> SUFFICES ASSUME BotConstants, InitBot PROVE BotInv
  OBVIOUS
<1>1. BotTyped
  <2>1. /\ DOMAIN codes = {} /\ codes \in [DOMAIN codes -> CodeType]
    BY DEF InitBot
  <2>2. bot \in [offset : 0..1, batch : SUBSET {}, doing : {Nothing}]
    BY DEF InitBot, NewBot
  <2>3. uses \in [Codes -> Nat] /\ 0 \in 0..MaxUpdates
    BY DEF InitBot, BotConstants
  <2> QED BY <2>1, <2>2, <2>3 DEF InitBot, BotTyped
<1>2. UpdatesKept
  BY DEF InitBot, UpdatesKept, NoneDropped
<1>3. CodesSpent
  BY DEF InitBot, CodesSpent
<1>4. OneRound
  BY DEF InitBot, OneRound, SummaryOnce
<1> QED BY <1>1, <1>2, <1>3, <1>4 DEF BotInv

\* A batch with an update in it has a first.
LEMMA FirstOf ==
    ASSUME BotTyped, bot.batch # {}
    PROVE  /\ First(bot.batch) \in bot.batch
           /\ \A v \in bot.batch : First(bot.batch).id <= v.id
<1>1. \A u \in bot.batch : u.id \in Nat
  BY DEF BotTyped, Updates
<1> DEFINE ids == {u.id : u \in bot.batch}
<1>2. ids \in SUBSET Nat /\ ids # {}
  BY <1>1
<1> HIDE DEF ids
<1>3. PICK n \in ids : \A m \in ids : n <= m
  BY <1>2, LeastNumber
<1>4. \E u \in bot.batch : \A v \in bot.batch : u.id <= v.id
  BY <1>3 DEF ids
<1> QED BY <1>4 DEF First

\* A bot that is done with an update has its type.
LEMMA DoneType ==
    ASSUME BotTyped
    PROVE  /\ Done(bot) \in [offset : 0..(written + 1), batch : SUBSET inbox,
                             doing : Updates(written) \union {Nothing}]
           /\ Done(bot).offset = bot.offset /\ Done(bot).batch = bot.batch
           /\ Done(bot).doing = Nothing
BY DEF BotTyped, Done

LEMMA MoreUpdates == ASSUME NEW n \in Nat PROVE Updates(n) \subseteq Updates(n + 1)
BY DEF Updates

\* The messages and the poll loop.
LEMMA UpdatesStep ==
    ASSUME BotConstants, BotTyped, UpdatesKept, BotNext
    PROVE  /\ inbox' \subseteq Updates(written')
           /\ bot' \in [offset : 0..(written' + 1), batch : SUBSET inbox',
                        doing : Updates(written') \union {Nothing}]
           /\ taken' \subseteq 1..written' /\ written' \in 0..MaxUpdates
           /\ UpdatesKept'
<1> USE DEF BotTyped
<1>1. CASE UNCHANGED <<inbox, bot, taken, written>>
  BY <1>1 DEF UpdatesKept, NoneDropped
<1>2. CASE \E c \in Chats : \/ \E text \in {"stop", "card"} : WriteTo(c, text, "none")
                            \/ \E k \in DOMAIN codes : WriteTo(c, "start", k)
  <2>1. PICK c \in Chats, text \in {"start", "stop", "card"}, k \in Codes \union {"none"} :
            WriteTo(c, text, k)
    BY <1>2
  <2> DEFINE u == [id |-> written + 1, chat |-> c, text |-> text, code |-> k]
  <2>2. /\ written < MaxUpdates /\ written' = written + 1 /\ inbox' = inbox \union {u}
        /\ UNCHANGED <<bot, taken>>
    BY <2>1 DEF WriteTo
  <2>3. written \in Nat /\ written' \in 0..MaxUpdates
    BY <2>2 DEF BotConstants
  <2>4. u \in Updates(written + 1) /\ u.id = written + 1
    BY <2>3 DEF Updates
  <2> HIDE DEF u
  <2>5. Updates(written) \subseteq Updates(written + 1)
    BY <2>3, MoreUpdates
  <2>6. bot \in [offset : 0..(written + 1), batch : SUBSET inbox,
                 doing : Updates(written) \union {Nothing}]
    OBVIOUS
  <2>7. bot' \in [offset : 0..(written' + 1), batch : SUBSET inbox',
                  doing : Updates(written') \union {Nothing}]
    BY <2>2, <2>3, <2>5, <2>6
  <2>8. \A v \in inbox : v.id \in 1..written
    BY DEF Updates
  <2>9. UpdatesKept'
    <3>1. NoneDropped'
      BY <2>2, <2>3, <2>4 DEF UpdatesKept, NoneDropped
    <3>2. \A v \in bot.batch : v.id < u.id
      BY <2>3, <2>4, <2>6, <2>8
    <3>3. ~(u.id < bot.offset)
      BY <2>3, <2>4, <2>6
    <3> QED BY <2>2, <3>1, <3>2, <3>3 DEF UpdatesKept
  <2> QED BY <2>2, <2>3, <2>4, <2>5, <2>7, <2>9
<1>3. CASE GetUpdates
  <2>1. /\ bot.batch = {} /\ inbox' = {u \in inbox : u.id >= bot.offset}
        /\ bot' = [bot EXCEPT !.batch = inbox'] /\ UNCHANGED <<taken, written>>
    BY <1>3 DEF GetUpdates, BetweenUpdates
  <2>2. /\ bot' \in [offset : 0..(written' + 1), batch : SUBSET inbox',
                     doing : Updates(written') \union {Nothing}]
        /\ bot'.batch = inbox' /\ bot'.offset = bot.offset
    BY <2>1
  <2>3. \A u \in inbox : u.id \in Int
    BY DEF Updates
  <2>4. bot.offset \in Int
    OBVIOUS
  <2>5. NoneDropped'
    <3>1. \A u \in inbox : u.id \in taken \/ u \in inbox'
      BY <2>1, <2>3, <2>4 DEF UpdatesKept
    <3> QED BY <2>1, <3>1 DEF UpdatesKept, NoneDropped
  <2>6. UpdatesKept'
    BY <2>1, <2>2, <2>5 DEF UpdatesKept
  <2> QED BY <2>1, <2>2, <2>6
<1>4. CASE Take
  <2> DEFINE w == First(bot.batch)
  <2>1. /\ w \in bot.batch /\ \A v \in bot.batch : w.id <= v.id
    BY <1>4, FirstOf DEF Take
  <2>2. /\ bot' = [offset |-> w.id + 1, batch |-> bot.batch \ {w}, doing |-> w]
        /\ taken' = taken \union {w.id} /\ UNCHANGED <<inbox, written>>
    BY <1>4 DEF Take, OffsetAfter
  <2> HIDE DEF w
  <2>3. /\ w \in Updates(written) /\ w.id \in 1..written /\ bot.batch \subseteq inbox
        /\ \A u \in inbox : u.id \in 1..written
    BY <2>1 DEF Updates
  <2>4. bot' \in [offset : 0..(written' + 1), batch : SUBSET inbox',
                  doing : Updates(written') \union {Nothing}]
    <3>1. w.id + 1 \in 0..(written + 1)
      BY <2>3
    <3> QED BY <2>2, <2>3, <3>1
  <2>5. NoneDropped'
    BY <2>2 DEF UpdatesKept, NoneDropped
  <2>6. \A u \in inbox : \/ u.id \in taken'
                         \/ u \in bot'.batch
                         \/ \A v \in bot'.batch : v.id < u.id
    BY <2>2 DEF UpdatesKept
  <2>7. ASSUME NEW u \in inbox, u.id < bot'.offset PROVE u.id \in taken'
    <3>1. u.id <= w.id
      BY <2>2, <2>3, <2>7
    <3>2. CASE u \in bot.batch
      <4>1. u.id = w.id
        BY <2>1, <2>3, <3>1, <3>2
      <4> QED BY <2>2, <4>1
    <3>3. CASE \A v \in bot.batch : v.id < u.id
      BY <2>1, <2>3, <3>1, <3>3
    <3>4. CASE u.id \in taken
      BY <2>2, <3>4
    <3> QED BY <3>2, <3>3, <3>4 DEF UpdatesKept
  <2>8. taken' \subseteq 1..written
    BY <2>2, <2>3
  <2> QED BY <2>2, <2>4, <2>5, <2>6, <2>7, <2>8 DEF UpdatesKept
<1>5. CASE StartCommand \/ StopCommand \/ ShowCard
  <2>1. bot' = Done(bot) /\ UNCHANGED <<inbox, taken, written>>
    BY <1>5 DEF StartCommand, StopCommand, ShowCard
  <2> QED BY <2>1, DoneType DEF UpdatesKept, NoneDropped
<1>6. CASE UpdateFails
  <2>1. bot' = [Done(bot) EXCEPT !.batch = {}] /\ UNCHANGED <<inbox, taken, written>>
    BY <1>6 DEF UpdateFails
  <2>2. /\ bot' \in [offset : 0..(written' + 1), batch : SUBSET inbox',
                     doing : Updates(written') \union {Nothing}]
        /\ bot'.batch = {} /\ bot'.offset = bot.offset
    BY <2>1, DoneType
  <2> QED BY <2>1, <2>2 DEF UpdatesKept, NoneDropped
<1>7. CASE RestartBot
  <2>1. bot' = NewBot /\ UNCHANGED <<inbox, taken, written>>
    BY <1>7 DEF RestartBot
  <2>2. /\ bot' \in [offset : 0..(written' + 1), batch : SUBSET inbox',
                     doing : Updates(written') \union {Nothing}]
        /\ bot'.batch = {} /\ bot'.offset = 0
    BY <2>1 DEF NewBot
  <2>3. \A u \in inbox : ~(u.id < 0)
    BY DEF Updates
  <2> QED BY <2>1, <2>2, <2>3 DEF UpdatesKept, NoneDropped
<1>8. CASE \/ \E u \in Accounts : UnlinkUser(u) \/ \E k \in Codes : CreateCode(u, k)
           \/ \E k \in DOMAIN codes : Lapse(k)
           \/ Dusk \/ SendSummaries
           \/ \E left \in rounds : SummaryFails(left) \/ \E c \in left : SendSummary(left, c)
  BY <1>1, <1>8 DEF UnlinkUser, CreateCode, Lapse, Dusk, SendSummaries, SummaryFails, SendSummary
<1> QED BY <1>2, <1>3, <1>4, <1>5, <1>6, <1>7, <1>8 DEF BotNext

\* The codes and the links they make.
LEMMA CodesStep ==
    ASSUME BotConstants, BotTyped, CodesSpent, BotNext
    PROVE  /\ DOMAIN codes' \subseteq Codes /\ codes' \in [DOMAIN codes' -> CodeType]
           /\ links' \subseteq [chat : Chats, user : Accounts]
           /\ uses' \in [Codes -> Nat]
           /\ CodesSpent'
<1> USE DEF BotTyped
<1>1. CASE UNCHANGED <<codes, links, uses>>
  BY <1>1 DEF CodesSpent
<1>2. CASE \E u \in Accounts, k \in Codes : CreateCode(u, k)
  <2>1. PICK u \in Accounts, k \in Codes : CreateCode(u, k)
    BY <1>2
  <2>2. /\ k \notin DOMAIN codes
        /\ codes' = [i \in DOMAIN codes \union {k} |->
                       IF i = k THEN [user |-> u, live |-> TRUE]
                       ELSE [codes[i] EXCEPT !.live = codes[i].live /\ codes[i].user # u]]
        /\ UNCHANGED <<links, uses>>
    BY <2>1 DEF CreateCode
  <2>3. ASSUME NEW i \in DOMAIN codes \union {k}
        PROVE  /\ codes'[i] \in CodeType
               /\ codes'[i].live => i = k \/ codes[i].live
    <3>1. CASE i = k
      BY <2>2, <3>1 DEF CodeType
    <3>2. CASE i # k
      <4>1. /\ codes[i] \in CodeType
            /\ codes'[i] = [codes[i] EXCEPT !.live = codes[i].live /\ codes[i].user # u]
        BY <2>2, <2>3, <3>2
      <4>2. (codes[i].live /\ codes[i].user # u) \in BOOLEAN
        OBVIOUS
      <4>3. PICK b \in BOOLEAN : b = (codes[i].live /\ codes[i].user # u)
        BY <4>2
      <4>4. codes'[i] = [codes[i] EXCEPT !.live = b]
        BY <4>1, <4>3
      <4>5. codes'[i] \in CodeType /\ codes'[i].live = b
        BY <4>1, <4>4 DEF CodeType
      <4> QED BY <3>2, <4>3, <4>5
    <3> QED BY <3>1, <3>2
  <2>4. DOMAIN codes' = DOMAIN codes \union {k}
    BY <2>2
  <2>5. codes' \in [DOMAIN codes' -> CodeType]
    BY <2>2, <2>3, <2>4
  <2>6. CodesSpent'
    BY <2>2, <2>3, <2>4 DEF CodesSpent
  <2> QED BY <2>2, <2>4, <2>5, <2>6
<1>3. CASE \E k \in DOMAIN codes : Lapse(k)
  <2>1. PICK k \in DOMAIN codes : /\ codes' = [codes EXCEPT ![k].live = FALSE]
                                  /\ UNCHANGED <<links, uses>>
    BY <1>3 DEF Lapse
  <2>2. /\ DOMAIN codes' = DOMAIN codes /\ codes' \in [DOMAIN codes' -> CodeType]
        /\ \A i \in DOMAIN codes : codes'[i].live => codes[i].live
    BY <2>1 DEF CodeType
  <2> QED BY <2>1, <2>2 DEF CodesSpent
<1>4. CASE \E u \in Accounts : UnlinkUser(u)
  BY <1>1, <1>4 DEF UnlinkUser, CodesSpent
<1>5. CASE StartCommand
  <2> DEFINE k == bot.doing.code
  <2>1. bot.doing.chat \in Chats
    BY <1>5 DEF StartCommand, Updates, Nothing
  <2>2. CASE k \in DOMAIN codes /\ codes[k].live
    <3>1. /\ codes' = [codes EXCEPT ![k].live = FALSE]
          /\ links' = {l \in links : l.chat # bot.doing.chat /\ l.user # codes[k].user}
                          \union {[chat |-> bot.doing.chat, user |-> codes[k].user]}
          /\ uses' = [uses EXCEPT ![k] = @ + 1]
      BY <1>5, <2>2 DEF StartCommand, SpendCode
    <3>2. k \in Codes /\ codes[k] \in CodeType /\ uses[k] = 0
      BY <2>2 DEF CodesSpent
    <3> HIDE DEF k
    <3>3. codes[k].user \in Accounts
      BY <3>2 DEF CodeType
    <3>4. links' \subseteq [chat : Chats, user : Accounts]
      BY <2>1, <3>1, <3>3
    <3>5. /\ DOMAIN codes' = DOMAIN codes /\ codes' \in [DOMAIN codes' -> CodeType]
          /\ \A i \in DOMAIN codes : codes'[i].live => i # k /\ codes[i].live
      BY <3>1, <2>2 DEF CodeType
    <3>6. uses' \in [Codes -> Nat] /\ uses'[k] = 1 /\ \A i \in Codes \ {k} : uses'[i] = uses[i]
      BY <3>1, <3>2
    <3> QED BY <2>2, <3>4, <3>5, <3>6 DEF CodesSpent
  <2>3. CASE ~(k \in DOMAIN codes /\ codes[k].live)
    BY <1>1, <1>5, <2>3 DEF StartCommand
  <2> QED BY <2>2, <2>3
<1>6. CASE StopCommand
  BY <1>1, <1>6 DEF StopCommand, CodesSpent
<1>7. CASE \/ \E c \in Chats : \/ \E text \in {"stop", "card"} : WriteTo(c, text, "none")
                               \/ \E k \in DOMAIN codes : WriteTo(c, "start", k)
           \/ GetUpdates \/ Take \/ ShowCard \/ UpdateFails \/ Dusk \/ SendSummaries
           \/ \E left \in rounds : SummaryFails(left) \/ \E c \in left : SendSummary(left, c)
           \/ RestartBot
  <2>1. UNCHANGED <<codes, links, uses>>
    BY <1>7 DEF WriteTo, GetUpdates, Take, ShowCard, UpdateFails, Dusk, SendSummaries,
                SummaryFails, SendSummary, RestartBot
  <2> QED BY <1>1, <2>1
<1> QED BY <1>2, <1>3, <1>4, <1>5, <1>6, <1>7 DEF BotNext

\* The evening's summary.
LEMMA RoundsStep ==
    ASSUME BotConstants, BotTyped, OneRound, BotNext
    PROVE  sentOn' \in 0..evening' /\ evening' \in Nat /\ OneRound'
<1> USE DEF BotTyped
<1>1. CASE UNCHANGED <<rounds, sentOn, evening, summaries>>
  BY <1>1 DEF OneRound, SummaryOnce
<1>2. CASE Dusk
  <2>1. /\ evening' = evening + 1 /\ rounds = {} /\ rounds' = {} /\ summaries' = {}
        /\ sentOn' = sentOn
    BY <1>2 DEF Dusk
  <2> QED BY <2>1 DEF OneRound, SummaryOnce
<1>3. CASE SendSummaries
  <2>1. /\ rounds = {} /\ summaries = {} /\ UNCHANGED <<evening, summaries>>
        /\ sentOn' = evening /\ rounds' \subseteq {{l.chat : l \in links}}
    BY <1>3 DEF SendSummaries, MarkDay, OneRound
  <2> DEFINE chats == {l.chat : l \in links}
  <2>2. rounds' \subseteq {chats}
    BY <2>1
  <2> HIDE DEF chats
  <2>3. OneRound'
    BY <2>1, <2>2 DEF OneRound, SummaryOnce
  <2>4. sentOn' \in 0..evening' /\ evening' \in Nat
    BY <2>1
  <2> QED BY <2>3, <2>4
<1>4. CASE \E left \in rounds : SummaryFails(left)
  BY <1>4 DEF SummaryFails, OneRound, SummaryOnce
<1>5. CASE \E left \in rounds : \E c \in left : SendSummary(left, c)
  <2>1. PICK left \in rounds : \E c \in left : SendSummary(left, c)
    BY <1>5
  <2>2. PICK c \in left : SendSummary(left, c)
    BY <2>1
  <2>3. rounds = {left} /\ \A s \in summaries : s[1] \notin left /\ s[2] = 1
    BY DEF OneRound, SummaryOnce
  <2>4. summaries' = summaries \union {<<c, 1>>}
    BY <2>2, <2>3 DEF SendSummary
  <2>5. rounds' \subseteq {left \ {c}} /\ UNCHANGED <<sentOn, evening>>
    BY <2>2, <2>3 DEF SendSummary
  <2>6. sentOn = evening
    BY <2>3 DEF OneRound
  <2>7. \A s \in summaries' : s[2] = 1 /\ s[1] \notin left \ {c}
    BY <2>3, <2>4
  <2>8. OneRound'
    <3>1. \A s \in summaries' : s[2] = 1
      BY <2>7
    <3>2. \A a \in rounds' : a = left \ {c}
      BY <2>5
    <3>3. \A a \in rounds' : \A s \in summaries' : s[1] \notin a
      BY <2>7, <3>2
    <3> QED BY <2>5, <2>6, <3>1, <3>2, <3>3 DEF OneRound, SummaryOnce
  <2> QED BY <2>5, <2>8
<1>6. CASE RestartBot
  BY <1>6 DEF RestartBot, OneRound, SummaryOnce
<1>7. CASE \/ \E u \in Accounts : UnlinkUser(u) \/ \E k \in Codes : CreateCode(u, k)
           \/ \E k \in DOMAIN codes : Lapse(k)
           \/ \E c \in Chats : \/ \E text \in {"stop", "card"} : WriteTo(c, text, "none")
                               \/ \E k \in DOMAIN codes : WriteTo(c, "start", k)
           \/ GetUpdates \/ Take \/ StartCommand \/ StopCommand \/ ShowCard \/ UpdateFails
  <2>1. UNCHANGED <<rounds, sentOn, evening, summaries>>
    BY <1>7 DEF UnlinkUser, CreateCode, Lapse, WriteTo, GetUpdates, Take, StartCommand,
                StopCommand, ShowCard, UpdateFails
  <2> QED BY <1>1, <2>1
<1> QED BY <1>2, <1>3, <1>4, <1>5, <1>6, <1>7 DEF BotNext

LEMMA BotStep ==
    ASSUME BotConstants, BotInv, [BotNext]_botVars
    PROVE  BotInv'
<1>1. CASE BotNext
  BY <1>1, UpdatesStep, CodesStep, RoundsStep DEF BotInv, BotTyped
<1>2. CASE UNCHANGED botVars
  BY <1>2 DEF botVars, BotInv, BotTyped, UpdatesKept, NoneDropped, CodesSpent, OneRound,
              SummaryOnce, Updates
<1> QED BY <1>1, <1>2

LEMMA BotMeans == BotConstants /\ BotInv => BotTypeOK /\ NoneDropped /\ CodeOnce /\ SummaryOnce
<1> SUFFICES ASSUME BotConstants, BotInv
             PROVE  BotTypeOK /\ NoneDropped /\ CodeOnce /\ SummaryOnce
  OBVIOUS
<1>1. BotTyped /\ written \in Nat /\ written <= MaxUpdates /\ MaxUpdates \in Nat
  BY DEF BotInv, BotTyped, BotConstants
<1>2. \A k \in DOMAIN codes : codes[k].user \in Accounts /\ codes[k].live \in BOOLEAN
  BY <1>1 DEF BotTyped, CodeType
<1>3. /\ bot.offset \in 0..(MaxUpdates + 1) /\ bot.batch \subseteq inbox
      /\ taken \subseteq 1..MaxUpdates
  BY <1>1 DEF BotTyped
<1>4. BotTypeOK
  BY <1>1, <1>2, <1>3 DEF BotTypeOK, BotTyped
<1>5. CodeOnce
  BY <1>1 DEF BotInv, BotTyped, CodesSpent, CodeOnce
<1> QED BY <1>4, <1>5 DEF BotInv, UpdatesKept, OneRound

-----------------------------------------------------------------------------
(* The fan.                                                                *)

FanSettings == Offers \union {DefaultFanSettings}
Higher(p, q) == IF p > q THEN p ELSE q

\* A target at a rule's speed.
AtRuleOf(s, target) ==
    \E h \in s.rules : h.above = target.rule /\ target.percent = Higher(h.percent, s.min)

TargetType ==
    {NoTarget, Firmware} \union [mode : {"manual"}, percent : 0..100, rule : Nat \union {Unknown}]

FanTyped ==
    /\ chosen \in FanSettings
    /\ agent \in [at : {"report", "apply"}, settings : FanSettings \union {NoSettings},
                  temp : Temps \union {Unknown}, last : TargetType, manual : BOOLEAN,
                  reported : {"firmware", "manual", "error"}]
    /\ fan \in [by : {"firmware", "agent"}, level : 0..(Steps - 1)]
    /\ fanChanges \in 0..FanMaxChanges /\ fanFaults \in 0..FanMaxFaults

\* The agent remembers the target last written, and the fan is at its speed.
Remembered ==
    /\ ran.target = agent.last
    /\ ran.target.mode = "manual" =>
          /\ fan.level = levelOf(ran.target.percent)
          /\ ran.target.rule # Unknown =>
                /\ ran.settings \in FanSettings /\ ran.settings.mode = "AUTO"
                /\ AtRuleOf(ran.settings, ran.target)

FanInv == FanTyped /\ Remembered /\ FastEnough

LEMMA FanSettingsType ==
    ASSUME FanConstants, NEW s \in FanSettings
    PROVE  /\ s.mode \in {"FIRMWARE", "AUTO", "MANUAL"} /\ s.min \in 0..100 /\ s.manual \in 0..100
           /\ \A r \in s.rules : r.above \in Nat /\ r.percent \in 0..100
           /\ \A r, q \in s.rules : r.above = q.above => r = q
           /\ s # NoSettings
<1>1. /\ s.mode \in {"FIRMWARE", "AUTO", "MANUAL"} /\ s.min \in 0..100 /\ s.manual \in 0..100
      /\ \A r \in s.rules : r.above \in Nat /\ r.percent \in 0..100
      /\ \A r, q \in s.rules : r.above = q.above => r = q
  BY DEF FanConstants, FanSettings
<1>2. NoSettings.mode = "none"
  BY DEF NoSettings
<1> QED BY <1>1, <1>2

\* A higher percentage is never a lower speed.
LEMMA Levels ==
    ASSUME FanConstants, NEW p \in 0..100, NEW q \in 0..100, p <= q
    PROVE  /\ levelOf(p) \in 0..(Steps - 1) /\ levelOf(p) <= levelOf(q)
           /\ levelOf(100) = Steps - 1
<1> DEFINE k == Steps - 1
<1>1. k \in Nat
  BY DEF FanConstants
<1>2. \A a, b \in Nat : a <= b => a \div 200 <= b \div 200 /\ a \div 200 \in Nat
  OBVIOUS
<1>3. \A a \in Nat : (200 * a + 100) \div 200 = a
  OBVIOUS
<1>4. \A a \in Nat : levelOf(a) = (2 * a * k + 100) \div 200
  BY DEF levelOf
<1> HIDE DEF k
<1>5. PICK d \in Nat : q = p + d
  <2>1. q - p \in Nat /\ q = p + (q - p)
    OBVIOUS
  <2> QED BY <2>1
<1>6. PICK e \in Nat : 100 = p + e
  <2>1. 100 - p \in Nat /\ 100 = p + (100 - p)
    OBVIOUS
  <2> QED BY <2>1
<1>7. \A a \in Nat : a * k \in Nat /\ 2 * a * k = 2 * (a * k)
  BY <1>1
<1>8. q * k = p * k + d * k /\ 100 * k = p * k + e * k
  BY <1>1, <1>5, <1>6
<1>9. p * k \in Nat /\ q * k \in Nat /\ d * k \in Nat /\ e * k \in Nat
  BY <1>1, <1>5, <1>6, <1>7
<1>10. 2 * (p * k) + 100 <= 2 * (q * k) + 100 /\ 2 * (p * k) + 100 <= 200 * k + 100
  BY <1>1, <1>8, <1>9
<1>11. levelOf(p) = (2 * (p * k) + 100) \div 200 /\ levelOf(q) = (2 * (q * k) + 100) \div 200
  <2>1. p \in Nat /\ q \in Nat
    OBVIOUS
  <2>2. \A a \in Nat : levelOf(a) = (2 * (a * k) + 100) \div 200
    BY <1>4, <1>7
  <2> QED BY <2>1, <2>2
<1>12. levelOf(100) = k
  <2>1. 2 * 100 * k + 100 = 200 * k + 100
    BY <1>1
  <2> QED BY <1>1, <1>3, <1>4, <2>1
<1>13. (2 * (p * k) + 100) \div 200 <= (200 * k + 100) \div 200
  <2>1. 2 * (p * k) + 100 \in Nat /\ 200 * k + 100 \in Nat
    BY <1>1, <1>9
  <2> QED BY <1>2, <1>10, <2>1
<1>14. /\ (2 * (p * k) + 100) \div 200 <= (2 * (q * k) + 100) \div 200
       /\ (2 * (p * k) + 100) \div 200 \in Nat
  <2>1. 2 * (p * k) + 100 \in Nat /\ 2 * (q * k) + 100 \in Nat
    BY <1>9
  <2> QED BY <1>2, <1>10, <2>1
<1>15. levelOf(p) \in 0..k /\ levelOf(p) <= levelOf(q)
  BY <1>1, <1>3, <1>11, <1>13, <1>14
<1> QED BY <1>12, <1>15 DEF k

LEMMA HigherIs ==
    ASSUME NEW p \in 0..100, NEW q \in 0..100
    PROVE  /\ Higher(p, q) \in 0..100
           /\ Higher(p, q) >= p /\ Higher(p, q) >= q
BY DEF Higher

LEMMA HigherGrows ==
    ASSUME NEW p \in 0..100, NEW q \in 0..100, NEW r \in 0..100, p <= q
    PROVE  Higher(p, r) <= Higher(q, r) /\ Higher(p, r) \in 0..100
BY DEF Higher

\* Of the rules a temperature is above one is the hottest.
LEMMA HottestRule ==
    ASSUME FanConstants, NEW s \in FanSettings, NEW t \in Nat
    PROVE  /\ \A r \in s.rules : t > r.above =>
                 \E m \in RuleFor(s.rules, t) : r.above <= m.above
           /\ \A m \in RuleFor(s.rules, t) : m \in s.rules /\ t > m.above
           /\ \A m, n \in RuleFor(s.rules, t) : m = n
<1>1. /\ \A r \in s.rules : r.above \in Nat
      /\ \A r, q \in s.rules : r.above = q.above => r = q
  BY FanSettingsType
<1>2. ASSUME NEW r \in s.rules, t > r.above
      PROVE  \E m \in RuleFor(s.rules, t) : r.above <= m.above
  <2> DEFINE T == {q.above : q \in {p \in s.rules : t > p.above}}
  <2>1. T \in SUBSET Nat /\ T # {} /\ \A n \in T : n <= t
    BY <1>1, <1>2
  <2> HIDE DEF T
  <2>2. PICK n \in T : \A m \in T : m <= n
    BY <2>1, GreatestNumber
  <2>3. PICK m \in s.rules : t > m.above /\ m.above = n
    BY <2>2 DEF T
  <2>4. \A q \in s.rules : t > q.above => q.above <= m.above
    BY <2>2, <2>3 DEF T
  <2> QED BY <1>2, <2>3, <2>4 DEF RuleFor
<1>3. \A m, n \in RuleFor(s.rules, t) : m = n
  BY <1>1 DEF RuleFor
<1> QED BY <1>2, <1>3 DEF RuleFor

LEMMA AtRuleIs ==
    ASSUME FanConstants, NEW s \in FanSettings, NEW h \in s.rules
    PROVE  AtRule(s, {h}) = Manual(Higher(h.percent, s.min), h.above)
BY DEF AtRule, Higher

\* What a target that sets a speed owes the settings.
MeetsRules(s, temp, target) ==
    Rising(s) => \A r \in s.rules : temp > r.above => target.percent >= r.percent
HoldsRule(s, temp, last, target) ==
    \A g \in s.rules : g.above = HeldRule(last) /\ temp > g.above - Hysteresis
        => target.rule # Unknown /\ target.rule >= g.above
Sets(s, target) ==
    /\ target \in [mode : {"manual"}, percent : 0..100, rule : Nat \union {Unknown}]
    /\ target.rule # Unknown => s.mode = "AUTO" /\ AtRuleOf(s, target)
GoodTarget(s, temp, last, target) ==
    /\ Sets(s, target)
    /\ s.mode = "AUTO" /\ temp = Unknown => target.percent = 100
    /\ s.mode = "AUTO" /\ temp # Unknown => /\ target.percent >= s.min
                                             /\ MeetsRules(s, temp, target)
                                             /\ HoldsRule(s, temp, last, target)

LEMMA TargetIs ==
    ASSUME FanConstants, NEW s \in FanSettings, NEW temp \in Temps \union {Unknown},
           NEW last \in TargetType
    PROVE  IF s.mode = "FIRMWARE" THEN fanTarget(s, temp, last) = Firmware
           ELSE GoodTarget(s, temp, last, fanTarget(s, temp, last))
<1> DEFINE T == fanTarget(s, temp, last)
           next == RuleFor(s.rules, temp)
           held == {r \in s.rules : r.above = HeldRule(last)}
           keeps == \E h \in held : /\ temp > h.above - Hysteresis
                                    /\ \A r \in next : r.above < h.above
<1>1. /\ s.mode \in {"FIRMWARE", "AUTO", "MANUAL"} /\ s.min \in 0..100 /\ s.manual \in 0..100
      /\ \A r \in s.rules : r.above \in Nat /\ r.percent \in 0..100
      /\ \A r, q \in s.rules : r.above = q.above => r = q
  BY FanSettingsType
<1>2. Unknown = -99 /\ Unknown \notin Nat
  BY DEF Unknown
<1>3. CASE s.mode = "FIRMWARE"
  BY <1>3 DEF fanTarget
<1>4. CASE s.mode = "MANUAL"
  <2>1. T = Manual(s.manual, Unknown)
    BY <1>4 DEF fanTarget
  <2> QED BY <1>1, <1>4, <2>1 DEF GoodTarget, Sets, Manual
<1>5. CASE s.mode = "AUTO" /\ temp = Unknown
  <2>1. T = Manual(100, Unknown)
    BY <1>5 DEF fanTarget
  <2> QED BY <1>5, <2>1 DEF GoodTarget, Sets, Manual
<1>6. CASE s.mode = "AUTO" /\ temp # Unknown
  <2>1. T = IF keeps THEN AtRule(s, held) ELSE AtRule(s, next)
    BY <1>6 DEF fanTarget
  <2>2. temp \in Nat /\ Hysteresis \in Nat
    BY <1>6 DEF FanConstants
  <2>3. /\ \A r \in s.rules : temp > r.above => \E m \in next : r.above <= m.above
        /\ \A m \in next : m \in s.rules /\ temp > m.above
        /\ \A m, n \in next : m = n
    BY <2>2, HottestRule
  <2> SUFFICES GoodTarget(s, temp, last, T)
    BY <1>6
  <2> HIDE DEF T, next
  \* At one of its rules a target has its type and is at that rule.
  <2>4. ASSUME NEW h \in s.rules, T = AtRule(s, {h})
        PROVE  /\ T \in [mode : {"manual"}, percent : 0..100, rule : Nat \union {Unknown}]
               /\ T.rule = h.above /\ T.rule # Unknown /\ AtRuleOf(s, T)
               /\ T.percent >= s.min /\ T.percent >= h.percent
    <3>1. T = Manual(Higher(h.percent, s.min), h.above)
      BY <2>4, AtRuleIs
    <3>2. h.above \in Nat /\ h.percent \in 0..100
      BY <1>1
    <3>3. /\ Higher(h.percent, s.min) \in 0..100 /\ Higher(h.percent, s.min) >= s.min
          /\ Higher(h.percent, s.min) >= h.percent
      BY <1>1, <3>2, HigherIs
    <3>4. /\ T \in [mode : {"manual"}, percent : 0..100, rule : Nat \union {Unknown}]
          /\ T.rule = h.above /\ T.percent = Higher(h.percent, s.min)
      BY <3>1, <3>2, <3>3 DEF Manual
    <3> QED BY <1>2, <3>2, <3>3, <3>4 DEF AtRuleOf
  <2>5. CASE keeps
    <3>1. PICK h \in s.rules : /\ h.above = HeldRule(last) /\ temp > h.above - Hysteresis
                               /\ \A r \in next : r.above < h.above
      BY <2>5
    <3>2. held = {h}
      BY <1>1, <3>1
    <3>3. T = AtRule(s, {h})
      BY <2>1, <2>5, <3>2
    <3>4. /\ T \in [mode : {"manual"}, percent : 0..100, rule : Nat \union {Unknown}]
          /\ T.rule = h.above /\ T.rule # Unknown /\ AtRuleOf(s, T)
          /\ T.percent >= s.min /\ T.percent >= h.percent
      BY <2>4, <3>3
    <3>5. T.percent \in Int /\ T.rule \in Int
      BY <1>1, <3>4
    <3>6. T.rule # Unknown => s.mode = "AUTO" /\ AtRuleOf(s, T)
      BY <1>6, <3>4
    <3>7. \A g \in s.rules : g.above = HeldRule(last) /\ temp > g.above - Hysteresis
                 => T.rule # Unknown /\ T.rule >= g.above
      <4>1. SUFFICES ASSUME NEW g \in s.rules, g.above = HeldRule(last)
                     PROVE  T.rule # Unknown /\ T.rule >= g.above
        OBVIOUS
      <4>2. T.rule = g.above
        BY <3>1, <3>4, <4>1
      <4> HIDE DEF keeps, held
      <4> QED BY <3>4, <3>5, <4>2
    <3>8. ASSUME Rising(s) PROVE \A r \in s.rules : temp > r.above => T.percent >= r.percent
      <4>1. SUFFICES ASSUME NEW r \in s.rules, temp > r.above PROVE T.percent >= r.percent
        OBVIOUS
      <4>2. PICK m \in next : r.above <= m.above
        BY <2>3, <4>1
      <4>3. r.above < h.above
        BY <1>1, <2>3, <3>1, <4>2
      <4>4. r.percent <= h.percent
        BY <3>8, <4>3 DEF Rising
      <4>5. r.percent \in Int /\ h.percent \in Int
        BY <1>1
      <4> HIDE DEF keeps, held
      <4> QED BY <3>4, <3>5, <4>4, <4>5
    <3>9. Sets(s, T) /\ MeetsRules(s, temp, T) /\ HoldsRule(s, temp, last, T)
      <4> HIDE DEF keeps, held
      <4> QED BY <3>4, <3>6, <3>7, <3>8 DEF Sets, MeetsRules, HoldsRule
    <3> QED BY <1>6, <3>4, <3>9 DEF GoodTarget
  <2>6. CASE ~keeps /\ next = {}
    <3>1. T = Manual(s.min, Unknown)
      BY <2>1, <2>6 DEF AtRule
    <3>2. \A r \in s.rules : ~(temp > r.above)
      BY <2>3, <2>6
    <3>3. \A g \in s.rules : g.above = HeldRule(last) => ~(temp > g.above - Hysteresis)
      BY <2>6
    <3>4. /\ T \in [mode : {"manual"}, percent : 0..100, rule : Nat \union {Unknown}]
          /\ T.rule = Unknown /\ T.percent = s.min
      BY <1>1, <3>1 DEF Manual
    <3>5. T.percent >= s.min
      BY <1>1, <3>4
    <3>6. Sets(s, T) /\ MeetsRules(s, temp, T) /\ HoldsRule(s, temp, last, T)
      <4> HIDE DEF keeps, held
      <4> QED BY <3>2, <3>3, <3>4 DEF Sets, MeetsRules, HoldsRule
    <3> QED BY <1>6, <3>5, <3>6 DEF GoodTarget
  <2>7. CASE ~keeps /\ next # {}
    <3>1. PICK m \in next : next = {m}
      BY <2>3, <2>7
    <3>2. m \in s.rules /\ T = AtRule(s, {m})
      BY <2>1, <2>3, <2>7, <3>1
    <3>3. /\ T \in [mode : {"manual"}, percent : 0..100, rule : Nat \union {Unknown}]
          /\ T.rule = m.above /\ T.rule # Unknown /\ AtRuleOf(s, T)
          /\ T.percent >= s.min /\ T.percent >= m.percent
      BY <2>4, <3>2
    <3>4. T.percent \in Int /\ T.rule \in Int
      BY <1>1, <3>2, <3>3
    <3>5. T.rule # Unknown => s.mode = "AUTO" /\ AtRuleOf(s, T)
      BY <1>6, <3>3
    <3>6. \A g \in s.rules : g.above = HeldRule(last) /\ temp > g.above - Hysteresis
                 => T.rule # Unknown /\ T.rule >= g.above
      <4>1. SUFFICES ASSUME NEW g \in s.rules, g.above = HeldRule(last),
                            temp > g.above - Hysteresis
                     PROVE  T.rule # Unknown /\ T.rule >= g.above
        OBVIOUS
      <4>2. ~(m.above < g.above)
        BY <2>7, <3>1, <4>1
      <4>3. m.above \in Int /\ g.above \in Int
        BY <1>1, <3>2
      <4> HIDE DEF keeps, held
      <4> QED BY <3>3, <4>2, <4>3
    <3>7. ASSUME Rising(s) PROVE \A r \in s.rules : temp > r.above => T.percent >= r.percent
      <4>1. SUFFICES ASSUME NEW r \in s.rules, temp > r.above PROVE T.percent >= r.percent
        OBVIOUS
      <4>2. r.above <= m.above
        BY <2>3, <3>1, <4>1
      <4>3. r.percent \in Int /\ m.percent \in Int /\ r.above \in Int /\ m.above \in Int
        BY <1>1, <3>2
      <4>4. r.percent <= m.percent
        <5>1. CASE r.above = m.above
          BY <1>1, <3>2, <4>3, <5>1
        <5>2. CASE r.above # m.above
          BY <3>2, <3>7, <4>2, <4>3, <5>2 DEF Rising
        <5> QED BY <5>1, <5>2
      <4> HIDE DEF keeps, held
      <4> QED BY <3>3, <3>4, <4>3, <4>4
    <3>8. Sets(s, T) /\ MeetsRules(s, temp, T) /\ HoldsRule(s, temp, last, T)
      <4> HIDE DEF keeps, held
      <4> QED BY <3>3, <3>5, <3>6, <3>7 DEF Sets, MeetsRules, HoldsRule
    <3> QED BY <1>6, <3>3, <3>8 DEF GoodTarget
  <2> HIDE DEF keeps
  <2> QED BY <2>5, <2>6, <2>7
<1> QED BY <1>1, <1>3, <1>4, <1>5, <1>6

LEMMA FanInitial == FanConstants /\ InitFan => FanInv
<1> SUFFICES ASSUME FanConstants, InitFan PROVE FanInv
  OBVIOUS
<1>1. 0 \in 0..(Steps - 1) /\ 0 \in 0..FanMaxChanges /\ 0 \in 0..FanMaxFaults
  BY DEF FanConstants
<1>2. FanTyped
  BY <1>1 DEF InitFan, NewAgent, FanTyped, FanSettings, TargetType
<1>3. Remembered /\ FastEnough
  BY DEF InitFan, NewAgent, Remembered, FastEnough, NoTarget
<1> QED BY <1>2, <1>3 DEF FanInv

\* The steps that leave the fan's speed and what it was last written.
LEMMA FanRests ==
    ASSUME FanConstants, FanInv,
           \/ \E s \in Offers : Put(s)
           \/ \E t \in Temps \union {Unknown} : Report(t)
           \/ ApplyNone \/ ApplyFails \/ RestartAgent
    PROVE  FanInv' /\ SlowsInTime
<1> USE DEF FanInv
<1>1. /\ FanTyped /\ fan.level \in Int /\ NoTarget.mode # "manual" /\ NoTarget \in TargetType
  BY DEF FanTyped, NoTarget, TargetType
<1>2. CASE \E s \in Offers : Put(s)
  <2>1. FanTyped'
    BY <1>1, <1>2 DEF Put, FanTyped, FanSettings, FanConstants
  <2>2. Remembered' /\ FastEnough'
    BY <1>2 DEF Put, Remembered, FastEnough
  <2>3. SlowsInTime
    BY <1>1, <1>2 DEF Put, SlowsInTime
  <2> QED BY <2>1, <2>2, <2>3
<1>3. CASE \E t \in Temps \union {Unknown} : Report(t)
  <2>0. PICK t \in Temps \union {Unknown} : Report(t)
    BY <1>3
  <2>1. FanTyped'
    <3>1. fanFaults' \in 0..FanMaxFaults
      <4>1. fanFaults' = fanFaults \/ (fanFaults < FanMaxFaults /\ fanFaults' = fanFaults + 1)
        <5>1. NoFanFault \/ FanFault
          BY <2>0, Zenon DEF Report
        <5> QED BY <5>1 DEF NoFanFault, FanFault
      <4>2. FanMaxFaults \in Nat /\ fanFaults \in 0..FanMaxFaults
        BY <1>1 DEF FanTyped, FanConstants
      <4> QED BY <4>1, <4>2
    <3>2. agent' \in [at : {"report", "apply"}, settings : FanSettings \union {NoSettings},
                      temp : Temps \union {Unknown}, last : TargetType, manual : BOOLEAN,
                      reported : {"firmware", "manual", "error"}]
      BY <1>1, <2>0 DEF Report, AnswerAgent, FanTyped
    <3> QED BY <1>1, <2>0, <3>1, <3>2 DEF Report, FanTyped
  <2>2. Remembered' /\ FastEnough'
    BY <1>1, <2>0 DEF Report, FanTyped, Remembered, FastEnough
  <2>3. SlowsInTime
    <3>1. fan' = fan
      BY <2>0 DEF Report
    <3> QED BY <1>1, <3>1 DEF SlowsInTime
  <2> QED BY <2>1, <2>2, <2>3
<1>4. CASE ApplyNone
  <2>1. FanTyped'
    BY <1>1, <1>4 DEF ApplyNone, FanTyped
  <2>2. Remembered' /\ FastEnough'
    BY <1>1, <1>4 DEF ApplyNone, FanTyped, Remembered, FastEnough
  <2>3. SlowsInTime
    BY <1>1, <1>4 DEF ApplyNone, SlowsInTime
  <2> QED BY <2>1, <2>2, <2>3
<1>5. CASE ApplyFails
  <2>1. FanTyped'
    <3>1. fanFaults' \in 0..FanMaxFaults
      BY <1>1, <1>5 DEF ApplyFails, FanFault, FanTyped, FanConstants
    <3>2. agent' \in [at : {"report", "apply"}, settings : FanSettings \union {NoSettings},
                      temp : Temps \union {Unknown}, last : TargetType, manual : BOOLEAN,
                      reported : {"firmware", "manual", "error"}]
      BY <1>1, <1>5 DEF ApplyFails, FanTyped
    <3>3. fan' = fan \/ fan' = [fan EXCEPT !.by = "agent"]
      BY <1>5 DEF ApplyFails
    <3>4. fan' \in [by : {"firmware", "agent"}, level : 0..(Steps - 1)]
      BY <1>1, <3>3 DEF FanTyped
    <3> QED BY <1>1, <1>5, <3>1, <3>2, <3>4 DEF ApplyFails, FanTyped
  <2>2. Remembered' /\ FastEnough'
    BY <1>1, <1>5 DEF ApplyFails, FanTyped, Remembered, FastEnough
  <2>3. SlowsInTime
    BY <1>1, <1>5 DEF ApplyFails, FanTyped, SlowsInTime
  <2> QED BY <2>1, <2>2, <2>3
<1>6. CASE RestartAgent
  <2>1. FanTyped'
    BY <1>1, <1>6 DEF RestartAgent, FanFault, NewAgent, FanTyped, FanConstants
  <2>2. Remembered' /\ FastEnough'
    BY <1>1, <1>6 DEF RestartAgent, NewAgent, Remembered, FastEnough
  <2>3. SlowsInTime
    BY <1>1, <1>6 DEF RestartAgent, FanTyped, SlowsInTime
  <2> QED BY <2>1, <2>2, <2>3
<1> QED BY <1>2, <1>3, <1>4, <1>5, <1>6

\* The fan given back to its firmware.
LEMMA FirmwareStep ==
    ASSUME FanConstants, FanInv, ApplyFirmware
    PROVE  FanInv' /\ SlowsInTime
<1>1. /\ FanTyped /\ agent.settings \in FanSettings /\ agent.temp \in Temps \union {Unknown}
      /\ agent.last \in TargetType /\ fan.level \in Int
  BY DEF FanInv, FanTyped, ApplyFirmware
<1>2. Target = Firmware
  BY <1>1, TargetIs DEF Target, GoodTarget, Sets, ApplyFirmware
<1>3. Firmware.mode # "manual" /\ Firmware \in TargetType
  BY DEF Firmware, TargetType
<1>4. FanTyped'
  BY <1>1, <1>2, <1>3 DEF ApplyFirmware, FanTyped
<1>5. Remembered' /\ FastEnough'
  BY <1>1, <1>2, <1>3 DEF ApplyFirmware, FanTyped, Remembered, FastEnough
<1>6. SlowsInTime
  BY <1>1 DEF ApplyFirmware, FanTyped, SlowsInTime
<1> QED BY <1>4, <1>5, <1>6 DEF FanInv

\* The fan given a speed: what the settings ask, and no less than the rule held.
LEMMA SpeedStep ==
    ASSUME FanConstants, FanInv, ApplySpeed
    PROVE  FanInv' /\ SlowsInTime
<1> DEFINE s == agent.settings
           T == Target
<1>1. /\ FanTyped /\ s \in FanSettings /\ agent.temp \in Temps \union {Unknown}
      /\ agent.last \in TargetType /\ T.mode = "manual"
  BY DEF FanInv, FanTyped, ApplySpeed
<1>2. GoodTarget(s, agent.temp, agent.last, T)
  <2>1. IF s.mode = "FIRMWARE" THEN T = Firmware ELSE GoodTarget(s, agent.temp, agent.last, T)
    BY <1>1, TargetIs DEF Target
  <2>2. T # Firmware
    BY <1>1 DEF Firmware
  <2> QED BY <2>1, <2>2
<1>3. /\ agent' = [agent EXCEPT !.at = "report", !.last = T, !.manual = TRUE, !.reported = "manual"]
      /\ fan' = [by |-> "agent", level |-> levelOf(T.percent)]
      /\ ran' = [settings |-> s, target |-> T]
      /\ UNCHANGED <<chosen, fanChanges, fanFaults>>
  BY DEF ApplySpeed
<1> HIDE DEF T
<1>4. T.percent \in 0..100 /\ T \in TargetType /\ T.rule \in Nat \union {Unknown}
  BY <1>2 DEF GoodTarget, Sets, TargetType
<1>5. /\ s.min \in 0..100 /\ \A r \in s.rules : r.above \in Nat /\ r.percent \in 0..100
      /\ \A r, q \in s.rules : r.above = q.above => r = q
  BY <1>1, FanSettingsType
<1>6. /\ levelOf(T.percent) \in 0..(Steps - 1) /\ levelOf(100) = Steps - 1
      /\ \A p \in 0..100 : p <= T.percent => levelOf(p) <= levelOf(T.percent)
  <2>1. ASSUME NEW p \in 0..100, p <= T.percent
        PROVE  levelOf(p) <= levelOf(T.percent)
    BY <1>4, <2>1, Levels
  <2>2. T.percent <= T.percent
    BY <1>4
  <2>3. levelOf(T.percent) \in 0..(Steps - 1) /\ levelOf(100) = Steps - 1
    BY <1>4, <2>2, Levels
  <2> QED BY <2>1, <2>3
<1>7. /\ agent'.settings = s /\ agent'.temp = agent.temp /\ agent'.last = T
      /\ ran'.settings = s /\ ran'.target = T
      /\ fan'.level = levelOf(T.percent) /\ fan'.by = "agent"
  BY <1>1, <1>3 DEF FanTyped
<1>8. FanTyped'
  BY <1>1, <1>3, <1>4, <1>6 DEF FanTyped
<1>9. Remembered'
  BY <1>1, <1>2, <1>7 DEF Remembered, GoodTarget, Sets
<1>10. FastEnough'
  <2>1. SUFFICES ASSUME s.mode = "AUTO"
                 PROVE  IF agent.temp = Unknown THEN levelOf(T.percent) = Steps - 1
                        ELSE /\ levelOf(T.percent) >= levelOf(s.min)
                             /\ Rising(s) => \A r \in s.rules :
                                    agent.temp > r.above => levelOf(T.percent) >= levelOf(r.percent)
    BY <1>7 DEF FastEnough, Rising
  <2>2. \A p \in 0..100 : T.percent >= p => levelOf(T.percent) >= levelOf(p)
    BY <1>4, <1>6, Levels
  <2>3. CASE agent.temp = Unknown
    BY <1>2, <1>6, <2>1, <2>3 DEF GoodTarget
  <2>4. CASE agent.temp # Unknown
    <3>1. T.percent >= s.min /\ MeetsRules(s, agent.temp, T)
      BY <1>2, <2>1, <2>4 DEF GoodTarget
    <3>2. levelOf(T.percent) >= levelOf(s.min)
      BY <1>5, <2>2, <3>1
    <3>3. ASSUME Rising(s), NEW r \in s.rules, agent.temp > r.above
          PROVE  levelOf(T.percent) >= levelOf(r.percent)
      BY <1>5, <2>2, <3>1, <3>3 DEF MeetsRules
    <3> QED BY <2>4, <3>2, <3>3
  <2> QED BY <2>3, <2>4
<1>11. SlowsInTime
  <2>1. SUFFICES ASSUME s = ran.settings, levelOf(T.percent) < fan.level,
                        ran.target.mode = "manual", ran.target.rule # Unknown,
                        agent.temp # Unknown, ~(agent.temp <= ran.target.rule - Hysteresis),
                        ~(~Rising(s) /\ T.rule > ran.target.rule)
                 PROVE  FALSE
    BY <1>7 DEF SlowsInTime
  <2>2. /\ ran.target = agent.last /\ fan.level = levelOf(ran.target.percent)
        /\ s.mode = "AUTO" /\ AtRuleOf(s, ran.target)
    BY <2>1 DEF FanInv, Remembered
  <2>3. PICK h \in s.rules : /\ h.above = ran.target.rule
                             /\ ran.target.percent = Higher(h.percent, s.min)
    BY <2>2 DEF AtRuleOf
  <2>4. HeldRule(agent.last) = h.above
    BY <2>1, <2>2, <2>3 DEF HeldRule
  <2>5. agent.temp \in Nat /\ Hysteresis \in Nat /\ h.above \in Nat
    BY <1>1, <1>5, <2>1 DEF FanConstants
  <2>6. agent.temp > h.above - Hysteresis
    BY <2>1, <2>3, <2>5
  <2>7. T.rule # Unknown /\ T.rule >= h.above
    BY <1>2, <2>1, <2>2, <2>4, <2>6 DEF GoodTarget, HoldsRule
  <2>8. PICK g \in s.rules : g.above = T.rule /\ T.percent = Higher(g.percent, s.min)
    BY <1>2, <2>7 DEF GoodTarget, Sets, AtRuleOf
  <2>9. g.percent >= h.percent
    <3>1. g.percent \in Int /\ h.percent \in Int /\ g.above \in Int
      BY <1>5
    <3>2. CASE g.above = h.above
      BY <1>5, <3>1, <3>2
    <3>3. CASE g.above # h.above
      <4>1. h.above < g.above
        BY <2>5, <2>7, <2>8, <3>1, <3>3
      <4>2. T.rule > ran.target.rule
        BY <2>3, <2>5, <2>8, <3>1, <4>1
      <4>3. Rising(s)
        BY <2>1, <4>2
      <4> QED BY <3>1, <4>1, <4>3 DEF Rising
    <3> QED BY <3>2, <3>3
  <2>10. T.percent >= ran.target.percent /\ ran.target.percent \in 0..100
    <3>1. g.percent \in 0..100 /\ h.percent \in 0..100 /\ h.percent <= g.percent
      BY <1>5, <2>9
    <3>2. /\ Higher(h.percent, s.min) <= Higher(g.percent, s.min)
          /\ Higher(h.percent, s.min) \in 0..100
      BY <1>5, <3>1, HigherGrows
    <3> QED BY <1>4, <2>3, <2>8, <3>2
  <2>11. levelOf(ran.target.percent) <= levelOf(T.percent)
    BY <1>4, <1>6, <2>10
  <2>12. levelOf(T.percent) \in Int /\ levelOf(ran.target.percent) \in Int
    <3>1. ran.target.percent <= ran.target.percent
      BY <2>10
    <3>2. levelOf(ran.target.percent) \in 0..(Steps - 1)
      BY <2>10, <3>1, Levels
    <3> QED BY <1>6, <3>2
  <2> QED BY <2>1, <2>2, <2>11, <2>12
<1> QED BY <1>8, <1>9, <1>10, <1>11 DEF FanInv

LEMMA FanStep ==
    ASSUME FanConstants, FanInv, FanNext
    PROVE  FanInv' /\ SlowsInTime
BY FanRests, FirmwareStep, SpeedStep DEF FanNext, ApplyFan

LEMMA FanStays == FanConstants /\ FanInv /\ UNCHANGED fanVars => FanInv'
BY DEF fanVars, FanInv, FanTyped, Remembered, FastEnough

-----------------------------------------------------------------------------
(* The theorems of the parts of the server.                                *)

\* A thing is told offline and back in turn, whatever checks overlap and
\* whatever changes while one waits (telegram-alerts.ts).
THEOREM AlertsInTurn == LiveSpec => []AlertsPaired
<1>1. LiveInit => AlertsInv
  BY AlertsInitial, AlertsConstants DEF LiveInit
<1>2. AlertsInv /\ [LiveNext]_<<part, vars, pollingVars, serverVars>> => AlertsInv'
  <2>1. [LiveNext]_<<part, vars, pollingVars, serverVars>> => [AlertsNext]_alertVars
    BY DEF LiveNext, serverVars
  <2> QED BY <2>1, AlertsStep, AlertsConstants
<1>3. AlertsInv => AlertsPaired
  BY AlertsMean, AlertsConstants DEF AlertsPaired
<1> QED BY <1>1, <1>2, <1>3, PTL DEF LiveSpec

\* The agent is told silent and back in turn, handlings and checks overlapping
\* or not (server-alerts.service.ts).
THEOREM NoticesInTurn == LiveSpec => []NoticesPaired
<1>1. LiveInit => NoticesInv
  BY NoticesInitial, NoticesConstants DEF LiveInit
<1>2. NoticesInv /\ [LiveNext]_<<part, vars, pollingVars, serverVars>> => NoticesInv'
  <2>1. [LiveNext]_<<part, vars, pollingVars, serverVars>> => [NoticesNext]_noticeVars
    BY DEF LiveNext, serverVars
  <2> QED BY <2>1, NoticesStep, NoticesConstants
<1>3. NoticesInv => NoticesPaired
  BY NoticesMean, NoticesConstants DEF NoticesPaired
<1> QED BY <1>1, <1>2, <1>3, PTL DEF LiveSpec

\* No update is dropped unheard, no code links twice and no chat gets a second
\* summary an evening, whatever fails (telegram-bot.ts, telegram-links.service
\* .ts, telegram-summary.ts).
THEOREM BotKeepsPromises == LiveSpec => []BotPromises
<1>1. LiveInit => BotInv
  BY BotInitial, BotConstants DEF LiveInit
<1>2. BotInv /\ [LiveNext]_<<part, vars, pollingVars, serverVars>> => BotInv'
  <2>1. [LiveNext]_<<part, vars, pollingVars, serverVars>> => [BotNext]_botVars
    BY DEF LiveNext, serverVars
  <2> QED BY <2>1, BotStep, BotConstants
<1>3. BotInv => BotPromises
  BY BotMeans, BotConstants DEF BotPromises
<1> QED BY <1>1, <1>2, <1>3, PTL DEF LiveSpec

\* At every step the fan is as fast as its owner's settings ask, and it slows
\* only when the rule it follows is left behind (fan-control.ts,
\* fan-controller.ts).
THEOREM FanObeys == LiveSpec => FanKept
<1>1. LiveInit => FanInv
  BY FanInitial, FanConstants DEF LiveInit
<1>2. FanInv /\ [LiveNext]_<<part, vars, pollingVars, serverVars>>
         => FanInv' /\ [FanTypeOK' /\ FastEnough' /\ SlowsInTime]_fanVars
  <2> SUFFICES ASSUME FanInv, [LiveNext]_<<part, vars, pollingVars, serverVars>>
               PROVE  FanInv' /\ [FanTypeOK' /\ FastEnough' /\ SlowsInTime]_fanVars
    OBVIOUS
  <2>1. FanNext \/ UNCHANGED fanVars
    BY DEF LiveNext, serverVars
  <2>2. FanConstants
    BY FanConstants
  <2>3. CASE FanNext
    <3>1. FanInv' /\ SlowsInTime
      BY <2>2, <2>3, FanStep
    <3>2. FanTypeOK' /\ FastEnough'
      BY <2>2, <3>1 DEF FanInv, FanTyped, FanTypeOK, FanSettings
    <3> QED BY <3>1, <3>2
  <2>4. CASE UNCHANGED fanVars
    BY <2>2, <2>4, FanStays
  <2> QED BY <2>1, <2>3, <2>4
<1> QED BY <1>1, <1>2, PTL DEF LiveSpec, FanKept
=============================================================================
