------------------------------- MODULE WebApp -------------------------------
(***************************************************************************)
(* One component of the web app on screen (a row of Pages), the server it   *)
(* talks to, and another member who changes the same data and the user's    *)
(* rights.                                                                  *)
(*                                                                          *)
(* Requests are answered in any order.  A load shows what the server knew   *)
(* when it served it; the answer to a load of an effect is dropped once the *)
(* effect was cleaned up.  What the app knows of the user's rights is what  *)
(* the last load of the user said.                                          *)
(***************************************************************************)
EXTENDS Pages, Integers, FiniteSets

CONSTANTS
    Keys,           \* what a page may be about: profiles, days, ranges, languages
    Standings,      \* [house, server, locked] the user may have
    MaxVersions,    \* bound of the changes of the data
    MaxMoves,       \* bound of the changes of the key
    MaxRights,      \* bound of the changes of the user's rights
    MaxRequests     \* bound of the requests under way

ASSUME WebConstants ==
    /\ MaxVersions \in Nat \ {0} /\ {MaxMoves, MaxRights, MaxRequests} \subseteq Nat

VARIABLES
    page, key,
    data,       \* version of what the server stores, by key
    standing,   \* the user's rights at the server
    known,      \* and as the app last loaded them
    loads,      \* loads under way: [id, for, key, live, ver, who]
    acts,       \* actions under way: [id, route, key, stage, ver, who]
    shown,      \* what is on screen: [keys, ver]
    failed,     \* the last load failed and the screen says so
    paging,     \* the button to load more is disabled
    saved,      \* history: version of the last change of this user's
    moves, moved

webVars == <<page, key, data, standing, known, loads, acts, shown, failed, paging,
             saved, moves, moved>>

Blank == [keys |-> {}, ver |-> 0]
Unserved == 0
Refused == -1

RightsOf(s) ==
    {"user"} \union (IF s.house = "none" THEN {} ELSE {"member"})
             \union (IF s.house = "ADMIN" THEN {"admin"} ELSE {})
             \union (IF s.server = "none" THEN {} ELSE {"viewer"})
             \union (IF s.server = "OWNER" THEN {"owner"} ELSE {})
             \union (IF s.locked THEN {} ELSE {"unlocked"})

UnusedPlace == CHOOSE i \in 1..(MaxRequests + 1) : \A r \in loads \union acts : r.id # i
Load(for, k) == [id |-> UnusedPlace, for |-> for, key |-> k, live |-> TRUE, ver |-> Unserved,
                 who |-> known]
Room == Cardinality(loads \union acts) < MaxRequests

InitWeb ==
    /\ page \in Screens /\ key \in Keys
    /\ data = [k \in Keys |-> 1]
    /\ standing \in Standings /\ known = standing
    /\ acts = {} /\ shown = Blank /\ failed = FALSE /\ paging = FALSE
    /\ saved = 0 /\ moves = 0 /\ moved = 0
    /\ loads = IF page.reads = Nowhere THEN {}
               ELSE {[id |-> 1, for |-> "show", key |-> key, live |-> TRUE,
                      ver |-> Unserved, who |-> known]}

-----------------------------------------------------------------------------
(* Others.                                                                  *)

OtherChanges(k) ==
    /\ data[k] < MaxVersions /\ data' = [data EXCEPT ![k] = @ + 1]
    /\ UNCHANGED <<page, key, standing, known, loads, acts, shown, failed, paging, saved,
                   moves, moved>>

SetStanding(s) ==
    /\ moved < MaxRights /\ moved' = moved + 1
    /\ s # standing /\ standing' = s
    /\ UNCHANGED <<page, key, data, known, loads, acts, shown, failed, paging, saved, moves>>

-----------------------------------------------------------------------------
(* Loads: an effect's when the page appears, its key changes or a timer     *)
(* fires; a handler's to reload or to load more.                            *)

\* A plausible bug: the effect has no clean-up.
LeaveLoads == loads
CancelLoads == {IF l.for = "show" \/ page.late = "dropped" THEN [l EXCEPT !.live = FALSE]
                ELSE l : l \in loads}

ChangeKey(k) ==
    /\ page.key # "none" /\ k # key /\ Room
    /\ moves < MaxMoves /\ moves' = moves + 1
    /\ key' = k
    /\ loads' = CancelLoads \union {Load("show", k)}
    /\ shown' = IF page.key = "emptied" THEN Blank ELSE shown
    /\ failed' = FALSE
    /\ UNCHANGED <<page, data, standing, known, acts, paging, saved, moved>>

PollAgain ==
    /\ page.polls /\ Room
    /\ loads' = loads \union {Load("show", key)}
    /\ UNCHANGED <<page, key, data, standing, known, acts, shown, failed, paging, saved,
                   moves, moved>>

LoadMore ==
    /\ page.pages /\ ~paging /\ shown # Blank /\ Room
    /\ paging' = TRUE
    /\ loads' = loads \union {Load("more", key)}
    /\ UNCHANGED <<page, key, data, standing, known, acts, shown, failed, saved, moves, moved>>

ServeLoad(l) ==
    /\ l.ver = Unserved
    /\ loads' = (loads \ {l}) \union
          {[l EXCEPT !.ver = IF page.reads.needs \subseteq RightsOf(standing)
                             THEN data[l.key] ELSE Refused,
                     !.who = standing]}
    /\ UNCHANGED <<page, key, data, standing, known, acts, shown, failed, paging, saved,
                   moves, moved>>

Awaiting(l) == {a \in acts : a.stage = "reloading" /\ a.load = l.id}
\* Load more is enabled again with its answer; one dropped for its key leaves it disabled.
Paging(l) == paging /\ (l.for # "more" \/ ~l.live)

Answered(l) ==
    /\ l.ver > 0
    /\ loads' = loads \ {l} /\ acts' = acts \ Awaiting(l)
    /\ IF l.live
       THEN /\ shown' = [keys |-> (IF l.for = "more" THEN shown.keys ELSE {}) \union {l.key},
                         ver |-> l.ver]
            /\ failed' = FALSE
       ELSE UNCHANGED <<shown, failed>>
    /\ paging' = Paging(l)
    /\ known' = IF page.reads = GetMe THEN l.who ELSE known
    /\ UNCHANGED <<page, key, data, standing, saved, moves, moved>>

\* Refused, or lost on the way.
LoadFails(l) ==
    /\ loads' = loads \ {l} /\ acts' = acts \ Awaiting(l)
    /\ failed' = (failed \/ l.live)
    /\ paging' = Paging(l)
    /\ UNCHANGED <<page, key, data, standing, known, shown, saved, moves, moved>>

-----------------------------------------------------------------------------
(* Actions.                                                                 *)

Offered ==
    /\ page.may \subseteq RightsOf(known)
    /\ page.reads = Nowhere \/ shown # Blank
    /\ ~page.held \/ acts = {}

Do(route) ==
    /\ Offered /\ Room
    /\ acts' = acts \union {[id |-> UnusedPlace, route |-> route, key |-> key, stage |-> "sent",
                             ver |-> Unserved, with |-> known, who |-> known, load |-> 0]}
    /\ UNCHANGED <<page, key, data, standing, known, loads, shown, failed, paging, saved,
                   moves, moved>>

ServeAct(a) ==
    /\ a.stage = "sent"
    /\ IF ~(a.route.needs \subseteq RightsOf(standing))
       THEN /\ acts' = (acts \ {a}) \union {[a EXCEPT !.stage = "refused", !.who = standing]}
            /\ UNCHANGED <<data, saved>>
       ELSE /\ ~a.route.changes \/ data[a.key] < MaxVersions
            /\ data' = IF a.route.changes THEN [data EXCEPT ![a.key] = @ + 1] ELSE data
            /\ saved' = IF a.route.changes THEN data'[a.key] ELSE saved
            /\ acts' = (acts \ {a}) \union
                  {[a EXCEPT !.stage = "taken", !.who = standing, !.ver = data'[a.key]]}
    /\ UNCHANGED <<page, key, standing, known, loads, shown, failed, paging, moves, moved>>

(* The answer to an action: told, shown, or followed by a reload.           *)
TellDone(a) ==
    /\ a.stage = "refused" \/ (a.stage = "taken" /\ page.act \in {"tells", "leaves"})
    /\ acts' = acts \ {a}
    /\ shown' = IF a.stage = "taken" /\ page.act = "leaves" THEN Blank ELSE shown
    /\ UNCHANGED <<page, key, data, standing, known, loads, failed, paging, saved, moves, moved>>

TakeDone(a) ==
    /\ a.stage = "taken" /\ page.act = "takes"
    /\ acts' = acts \ {a}
    /\ shown' = [keys |-> {a.key}, ver |-> a.ver]
    /\ UNCHANGED <<page, key, data, standing, known, loads, failed, paging, saved, moves, moved>>

\* A plausible bug: the reload starts with the action and not after it.
EarlyReload(a) == [Load("reload", a.key) EXCEPT !.id = a.id, !.ver = a.ver - 1]
Reload(a) == [Load("reload", a.key) EXCEPT !.id = a.id]

ReloadDone(a) ==
    /\ a.stage = "taken" /\ page.act = "reloads"
    /\ loads' = loads \union {Reload(a)}
    /\ acts' = (acts \ {a}) \union
          (IF page.awaits THEN {[a EXCEPT !.stage = "reloading", !.load = a.id]} ELSE {})
    /\ UNCHANGED <<page, key, data, standing, known, shown, failed, paging, saved, moves, moved>>

WebNext ==
    \/ \E k \in Keys : OtherChanges(k) \/ ChangeKey(k)
    \/ \E s \in Standings : SetStanding(s)
    \/ PollAgain \/ LoadMore
    \/ \E l \in loads : ServeLoad(l) \/ Answered(l) \/ LoadFails(l)
    \/ \E route \in page.sends : Do(route)
    \/ \E a \in acts : ServeAct(a) \/ TellDone(a) \/ TakeDone(a) \/ ReloadDone(a)

-----------------------------------------------------------------------------
(* Type correctness.                                                        *)
WebTypeOK ==
    /\ page \in Screens /\ key \in Keys /\ data \in [Keys -> 1..MaxVersions]
    /\ {standing, known} \subseteq Standings
    /\ \A l \in loads : /\ l.for \in {"show", "reload", "more"} /\ l.key \in Keys
                        /\ l.ver \in Refused..MaxVersions /\ l.live \in BOOLEAN
    /\ \A a \in acts : /\ a.route \in page.sends /\ a.ver \in 0..MaxVersions
                       /\ a.stage \in {"sent", "refused", "taken", "reloading"}
    /\ shown.keys \subseteq Keys /\ shown.ver \in 0..MaxVersions
    /\ {failed, paging} \subseteq BOOLEAN

Quiet == loads = {} /\ acts = {}

(* A page whose loads have all come back, none of them failed, shows what   *)
(* its key names now and nothing of what it showed before, in whatever      *)
(* order the answers came.  Of the pages whose handlers load or take an     *)
(* answer after a change of key, this holds of the readings browser alone   *)
(* (its request token, ReadingsBrowser.tsx:54-78); the rest are mounted     *)
(* anew with the inverter profile.                                          *)
KeyKept ==
    (Quiet /\ ~failed /\ (page.late = "dropped" \/ (page.act = "none" /\ ~page.pages)))
        => shown.keys \subseteq {key}

(* A form whose button is disabled until its answer is on screen shows, when*)
(* all is still, this user's last change or what came after it, never what  *)
(* was there before (BmsSetup.tsx:42-54, InverterProfileSettings.tsx:101-   *)
(* 133, TelegramLink.tsx:52-79).                                            *)
OwnChangeShown ==
    (Quiet /\ ~failed /\ shown # Blank /\ page.held /\ (page.awaits \/ page.act = "takes"))
        => shown.ver >= saved

(* The app and the server agree on who may do what: the server refuses an   *)
(* action the app offered only when the user has lost a right since the app *)
(* last loaded them (LiveData.tsx:40, SettingsPage.tsx:45-50,               *)
(* households.service.ts:79-94).                                            *)
OfferedIsTaken ==
    \A a \in acts : a.stage = "refused" => ~(RightsOf(a.with) \subseteq RightsOf(a.who))

(* The button to load more is disabled for good in one case alone: in the   *)
(* readings browser, when the day or the source changes while an older page *)
(* is on its way (ReadingsBrowser.tsx:83-94).                               *)
MoreComesBack == (loads = {} /\ paging) => (page = ReadingsBrowser /\ moves > 0)
=============================================================================
