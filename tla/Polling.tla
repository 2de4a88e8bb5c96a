------------------------------ MODULE Polling -------------------------------
(***************************************************************************)
(* Which loggers the server polls.  Admins pair, move and un-pair          *)
(* inverters; every such mutation commits to the InverterProfile table and *)
(* is followed by a sync, which reads the table and reconciles the running *)
(* poll loops and the Logger links with what it read.  Poll cycles and     *)
(* settings reads go on meanwhile, on whatever link they got.              *)
(*                                                                         *)
(* A link is named by its address and a generation: LoggerLinks.get after  *)
(* a remove makes the next one.                                            *)
(***************************************************************************)
EXTENDS Integers, FiniteSets

CONSTANTS
    Profiles, Addresses, NoAddress,
    Callers,      \* requests that change the table, each made once
    Boot,         \* the sync of onModuleInit
    MaxFailures,  \* bound of the syncs whose query fails
    JobIds        \* bounds the poll cycles and settings reads in progress

ASSUME PollingConstants ==
    /\ NoAddress \notin Addresses /\ Boot \notin Callers
    /\ IsFiniteSet(Profiles) /\ IsFiniteSet(Addresses) /\ IsFiniteSet(JobIds)
    /\ MaxFailures \in Nat

VARIABLES
    table,      \* InverterProfile: the address of each profile, or NoAddress
    everPaired,     \* profiles ever created: ids are not used twice
    at,         \* per request: "idle", "query", "apply" or "done"
    queried,    \* what a request's sync read of the table
    syncFailures,   \* syncs that failed so far
    alone,      \* history: the last change came with nothing under way and
                \* its sync has not failed
    tracked,    \* PollingService.tracked
    inFlight,   \* PollingService.pollingInFlight
    linkAt,      \* LoggerLinks.links: the generation at each address, or 0
    made,       \* per address: links made so far
    jobs,       \* poll cycles and settings reads in progress
    cachedFor       \* keys of SettingsService.cache

tableVars == <<table, everPaired>>
syncVars  == <<at, queried, syncFailures, alone>>
pollVars  == <<tracked, inFlight>>
linkVars  == <<linkAt, made>>
jobVars   == <<jobs, cachedFor>>
pollingVars == <<tableVars, syncVars, pollVars, linkVars, jobVars>>

Syncs == Callers \cup {Boot}
PollJobs == {j \in jobs : j.kind = "poll"}

\* Orders in which the loop of syncProfiles may meet the profiles: the query
\* names none.
Orders ==
    {f \in [Profiles -> 1..Cardinality(Profiles)] :
        \A p, q \in Profiles : f[p] = f[q] => p = q}

PollingInit ==
    /\ table \in [Profiles -> Addresses \cup {NoAddress}]
    /\ \A p, q \in Profiles : table[p] = table[q] => p = q \/ table[p] = NoAddress
    /\ everPaired = {p \in Profiles : table[p] # NoAddress}
    /\ at = [c \in Syncs |-> IF c = Boot THEN "query" ELSE "idle"]
    /\ queried = [c \in Syncs |-> [p \in Profiles |-> NoAddress]]
    /\ syncFailures = 0 /\ alone = TRUE
    /\ tracked = [p \in Profiles |-> NoAddress]
    /\ inFlight = {}
    /\ linkAt = [a \in Addresses |-> 0] /\ made = [a \in Addresses |-> 0]
    /\ jobs = {} /\ cachedFor = {}

-----------------------------------------------------------------------------
(* Requests: the row is written, the sync follows.                         *)

NothingUnderWay == \A c \in Syncs : at[c] \in {"idle", "done"}

\* The server takes requests once onModuleInit is through.
MayAsk(c) ==
    at[c] = "idle" /\ at[Boot] = "done"

\* InverterProfile has one row per address.
AddressFree(p, a) == \A q \in Profiles \ {p} : table[q] # a

Save(c, p, a) ==
    /\ table' = [table EXCEPT ![p] = a]
    /\ everPaired' = everPaired \cup {p}
    /\ at' = [at EXCEPT ![c] = "query"]
    /\ alone' = NothingUnderWay

\* setup
PairInverter(c, p, a) ==
    /\ MayAsk(c)
    /\ p \notin everPaired /\ AddressFree(p, a)
    /\ Save(c, p, a)
    /\ UNCHANGED <<queried, syncFailures, pollVars, linkVars, jobVars>>

\* updateProfile, with a new address or without
Update(c, p, a) ==
    /\ MayAsk(c)
    /\ table[p] # NoAddress /\ AddressFree(p, a)
    /\ Save(c, p, a)
    /\ UNCHANGED <<queried, syncFailures, pollVars, linkVars, jobVars>>

\* rejectDuplicateAddress: the address is another profile's; no sync follows.
Duplicate(c, p, a) ==
    /\ MayAsk(c)
    /\ ~AddressFree(p, a)
    /\ at' = [at EXCEPT ![c] = "done"]
    /\ UNCHANGED <<tableVars, queried, syncFailures, alone, pollVars, linkVars,
                   jobVars>>

\* deleteProfile
UnpairInverter(c, p) ==
    /\ MayAsk(c)
    /\ table[p] # NoAddress
    /\ Save(c, p, NoAddress)
    /\ UNCHANGED <<queried, syncFailures, pollVars, linkVars, jobVars>>

-----------------------------------------------------------------------------
(* syncProfiles.                                                           *)

\* The database answers findMany; the answer is on its way back.
Query(c) ==
    /\ at[c] = "query"
    /\ queried' = [queried EXCEPT ![c] = table]
    /\ at' = [at EXCEPT ![c] = "apply"]
    /\ UNCHANGED <<tableVars, syncFailures, alone, pollVars, linkVars, jobVars>>

\* syncPollingBestEffort: a sync that fails is logged.
QueryFails(c) ==
    /\ c # Boot
    /\ at[c] = "query"
    /\ syncFailures < MaxFailures
    /\ syncFailures' = syncFailures + 1 /\ alone' = FALSE
    /\ at' = [at EXCEPT ![c] = "done"]
    /\ UNCHANGED <<tableVars, queried, pollVars, linkVars, jobVars>>

-----------------------------------------------------------------------------
(* The jobs: a poll cycle, or a read of the settings.                      *)

FreeIds == JobIds \ {j.id : j \in jobs}

Job(id, kind, p, a, generation, first) ==
    [id |-> id, kind |-> kind, profile |-> p, address |-> a,
     link |-> generation, at |-> "link", first |-> first, cut |-> FALSE]

\* A plausible bug: get makes a link without looking for one.
LinkAtUnshared(a) == made[a] + 1

\* LoggerLinks.get: the link of an address, a new one if it has none.
LinkAt(a) == IF linkAt[a] = 0 THEN made[a] + 1 ELSE linkAt[a]
GetLink(a) ==
    /\ linkAt' = [linkAt EXCEPT ![a] = LinkAt(a)]
    /\ made' = [made EXCEPT ![a] = IF linkAt[a] = 0 THEN @ + 1 ELSE @]

Sharing(p, a) ==
    \E j \in jobs : j.kind = "settings" /\ j.profile = p /\ j.address = a

\* SettingsService.refresh: a read in progress is shared.
ReadSettings(p, a, others) ==
    IF Sharing(p, a)
    THEN jobs' = others /\ UNCHANGED linkVars
    ELSE \E id \in JobIds \ {j.id : j \in others} :
           /\ GetLink(a)
           /\ jobs' = others \cup {Job(id, "settings", p, a, LinkAt(a), FALSE)}

\* A tick of a profile's poll interval: poll(), unless one is in flight.
PollTick(p) ==
    /\ tracked[p] # NoAddress
    /\ p \notin inFlight
    /\ \E id \in FreeIds :
         jobs' = jobs \cup {Job(id, "poll", p, tracked[p], LinkAt(tracked[p]), FALSE)}
    /\ GetLink(tracked[p])
    /\ inFlight' = inFlight \cup {p}
    /\ UNCHANGED <<tableVars, syncVars, tracked, cachedFor>>

\* A tick of a profile's settings interval.
SettingsTick(p) ==
    /\ tracked[p] # NoAddress
    /\ ReadSettings(p, tracked[p], jobs)
    /\ UNCHANGED <<tableVars, syncVars, pollVars, cachedFor>>

\* A plausible bug: the flag is only taken back when the poll succeeded.
ClearFlagOnSuccess(j) ==
    inFlight' = IF j.at = "store" THEN inFlight \ {j.profile} ELSE inFlight

\* The finally of poll(): whatever poll of the profile set the flag.
ClearFlag(j) == inFlight' = inFlight \ {j.profile}

\* poll() ends.  The one startPolling began is followed by refreshSettings,
\* which fills an empty cache, for the address it was started with.
FinishPoll(j) ==
    /\ ClearFlag(j)
    /\ LET others == jobs \ {j} IN
       IF ~j.first \/ tracked[j.profile] = NoAddress
       THEN jobs' = others /\ UNCHANGED linkVars
       ELSE \/ /\ <<j.profile, j.address>> \in cachedFor
               /\ jobs' = others /\ UNCHANGED linkVars
            \/ ReadSettings(j.profile, j.address, others)

\* The link has answered a poll; the reading is being stored.
PollRead(j) ==
    /\ j.kind = "poll" /\ j.at = "link" /\ ~j.cut
    /\ jobs' = (jobs \ {j}) \cup {[j EXCEPT !.at = "store"]}
    /\ UNCHANGED <<tableVars, syncVars, pollVars, linkVars, cachedFor>>

\* The reading is stored, or could not be: its profile may be deleted.
PollStored(j) ==
    /\ j.kind = "poll" /\ j.at = "store"
    /\ FinishPoll(j)
    /\ UNCHANGED <<tableVars, syncVars, tracked, cachedFor>>

\* The logger cannot be reached, or nothing it answered was usable.
PollFails(j) ==
    /\ j.kind = "poll" /\ j.at = "link"
    /\ FinishPoll(j)
    /\ UNCHANGED <<tableVars, syncVars, tracked, cachedFor>>

SettingsRead(j) ==
    /\ j.kind = "settings" /\ ~j.cut
    /\ jobs' = jobs \ {j}
    /\ cachedFor' = cachedFor \cup {<<j.profile, j.address>>}
    /\ UNCHANGED <<tableVars, syncVars, pollVars, linkVars>>

SettingsFail(j) ==
    /\ j.kind = "settings"
    /\ jobs' = jobs \ {j}
    /\ UNCHANGED <<tableVars, syncVars, pollVars, linkVars, cachedFor>>

-----------------------------------------------------------------------------
(* The reconciliation of syncProfiles, which runs without a pause.         *)

\* A plausible bug: the loop of a deleted profile goes on.
StoppedIfMoved(desired) ==
    {p \in Profiles : NoAddress \notin {tracked[p], desired[p]} /\ desired[p] # tracked[p]}

\* The profiles whose loop is stopped: deleted or moved.
Stopped(desired) ==
    {p \in Profiles : tracked[p] # NoAddress /\ desired[p] # tracked[p]}

\* A plausible bug: a moved profile keeps its loop, at the old address.
BegunIfNew(desired) == {p \in Profiles : tracked[p] = NoAddress /\ desired[p] # NoAddress}

\* The profiles whose loop is started: new or moved.
Begun(desired) == {p \in Profiles : desired[p] \notin {NoAddress, tracked[p]}}

\* A started profile polls at once, on the link its address then has; a
\* profile met later in the loop may still leave that address and remove the
\* link (Robbed).  LoggerLinks.remove cuts off the exchange under way on the
\* link, which can then only time out; one still connecting is spared.
Apply(c) ==
    /\ at[c] = "apply"
    /\ LET desired == queried[c]
           stopped == Stopped(desired)
           begun   == Begun(desired)
           Left(a) == \E q \in stopped : tracked[q] = a
           onLeft  == {j \in jobs : /\ Left(j.address) /\ j.at = "link"
                                  /\ j.link = linkAt[j.address]}
       IN
       /\ Cardinality(begun) <= Cardinality(FreeIds)
       /\ \E order \in Orders, spared \in SUBSET onLeft :
            LET Robbed(p) ==
                    \E q \in stopped \cap begun :
                        tracked[q] = desired[p] /\ order[p] < order[q]
                Link(p) ==
                    IF Robbed(p) \/ ~Left(desired[p])
                    THEN LinkAt(desired[p]) ELSE made[desired[p]] + 1
                id == CHOOSE f \in [begun -> FreeIds] :
                        \A p, q \in begun : f[p] = f[q] => p = q
            IN
            /\ jobs' = (jobs \ onLeft) \cup spared
                       \cup {[j EXCEPT !.cut = TRUE] : j \in onLeft \ spared}
                       \cup {Job(id[p], "poll", p, desired[p], Link(p), TRUE) :
                               p \in begun}
            /\ linkAt' = [a \in Addresses |->
                           IF \E p \in begun : desired[p] = a /\ ~Robbed(p)
                           THEN Link(CHOOSE p \in begun : desired[p] = a)
                           ELSE IF Left(a) THEN 0 ELSE linkAt[a]]
            /\ made' = [a \in Addresses |->
                          IF \E p \in begun : desired[p] = a /\ Link(p) > made[a]
                          THEN made[a] + 1 ELSE made[a]]
       /\ tracked' = [p \in Profiles |->
                         IF p \in begun THEN desired[p]
                         ELSE IF p \in stopped THEN NoAddress ELSE tracked[p]]
       /\ inFlight' = (inFlight \ stopped) \cup begun
    /\ at' = [at EXCEPT ![c] = "done"]
    /\ UNCHANGED <<tableVars, queried, syncFailures, alone, cachedFor>>

-----------------------------------------------------------------------------

Request(c) ==
    \E p \in Profiles :
        \/ \E a \in Addresses : PairInverter(c, p, a) \/ Update(c, p, a) \/ Duplicate(c, p, a)
        \/ UnpairInverter(c, p)

JobStep(j) ==
    PollRead(j) \/ PollStored(j) \/ PollFails(j) \/ SettingsRead(j) \/ SettingsFail(j)

PollingNext ==
    \/ \E c \in Callers : Request(c)
    \/ \E c \in Syncs : Query(c) \/ QueryFails(c) \/ Apply(c)
    \/ \E p \in Profiles : PollTick(p) \/ SettingsTick(p)
    \/ \E j \in jobs : JobStep(j)

PollingSpec == PollingInit /\ [][PollingNext]_pollingVars

\* Database calls return and links answer (EveryCallSettles of LoggerLink);
\* intervals tick.
PollingFairness ==
    /\ \A c \in Syncs : WF_pollingVars(Query(c) \/ QueryFails(c)) /\ WF_pollingVars(Apply(c))
    /\ \A i \in JobIds : WF_pollingVars(\E j \in jobs : j.id = i /\ JobStep(j))
    /\ \A p \in Profiles : WF_pollingVars(PollTick(p))

FairPolling == PollingSpec /\ PollingFairness

-----------------------------------------------------------------------------
(* Properties.                                                             *)

Rows    == [Profiles -> Addresses \cup {NoAddress}]
JobType == [id : JobIds, kind : {"poll", "settings"}, profile : Profiles,
            address : Addresses, link : Nat, at : {"link", "store"},
            first : BOOLEAN, cut : BOOLEAN]

\* The state has the shape the code gives it; a link is never named by a
\* generation that was not made.
PollingTypeOK ==
    /\ table \in Rows /\ everPaired \subseteq Profiles
    /\ at \in [Syncs -> {"idle", "query", "apply", "done"}]
    /\ queried \in [Syncs -> Rows] /\ syncFailures \in Nat /\ alone \in BOOLEAN
    /\ tracked \in Rows /\ inFlight \subseteq Profiles
    /\ made \in [Addresses -> Nat]
    /\ linkAt \in [Addresses -> Nat] /\ \A a \in Addresses : linkAt[a] <= made[a]
    /\ jobs \subseteq JobType /\ cachedFor \subseteq Profiles \X Addresses

\* However syncs overtake each other, two profiles are never polled at one
\* logger (the unique address of the table).
OneProfilePerLogger ==
    \A p, q \in Profiles :
        tracked[p] = tracked[q] /\ tracked[p] # NoAddress => p = q

\* poll: a profile marked in flight is tracked and has a poll in progress at
\* the address it is tracked at, so the flag never silences its loop.
FlagHasPoll ==
    \A p \in inFlight :
        \E j \in PollJobs : j.profile = p /\ j.address = tracked[p]

\* syncProfiles: a change that met nothing under way, and whose sync did not
\* fail, leaves exactly the loops of the table, whatever earlier syncs missed.
SyncRepairs == NothingUnderWay /\ alone => tracked = table

\* syncProfiles is called after every profile create, update or delete, so with
\* none failing and nothing under way the loops are those of the table.  It is
\* not so: of two syncs the one that read the table first may be applied last.
QuietMeansSynced == NothingUnderWay /\ syncFailures = 0 => tracked = table

\* poll: a profile in flight does not stay so, whatever the logger answers and
\* however the syncs restart its loop, so its loop goes on polling.
FlagsClear == \A p \in Profiles : p \in inFlight ~> p \notin inFlight
=============================================================================
