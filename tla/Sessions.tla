------------------------------- MODULE Sessions -------------------------------
(***************************************************************************)
(* Sign-in sessions: the tabs of a user's browsers (eam_front's apiClient   *)
(* and AuthContext) and the server's refresh tokens (auth.service.ts).      *)
(*                                                                          *)
(* A tab keeps a short-lived access token in memory; its browser's jar keeps*)
(* the refresh token, shared by its tabs.  A call answered 401 waits for the*)
(* tab's one refresh and is sent again, once; a 401 on an /api/auth/ route, *)
(* or on a call sent again, loads the login page, which first tries to      *)
(* restore the session.  A refresh finds the token, revokes it and stores   *)
(* its successor in three statements.                                       *)
(***************************************************************************)
EXTENDS Integers, Sequences, FiniteSets

CONSTANTS
    Tabs, Browsers,
    BrowserOf,      \* BrowserOf[t]: the browser tab t is of
    MaxTokens,      \* refresh tokens stored
    MaxSends        \* calls made

ASSUME SessionsAssumption ==
    /\ BrowserOf \in [Tabs -> Browsers] /\ IsFiniteSet(Browsers)
    /\ MaxTokens \in Nat \ {0} /\ Cardinality(Browsers) <= MaxTokens
    /\ MaxSends \in Nat

VARIABLES
    tokens,     \* stored refresh tokens, in the order they were made
    jar,        \* per browser: its cookie's token, 0 for none
    tab,        \* per tab: [user, access, place]
    pending,      \* per tab and kind: what the tab waits for
    rotations,  \* refreshes on the server
    ended,      \* history: sessions ended while no refresh of theirs was halfway
    sends

sessionVars == <<tokens, jar, tab, pending, rotations, ended, sends>>

(* Calls: an ordinary route, one under /api/auth/, and those that end sessions. *)
Ordinary == {"get", "put"}
Kinds == Ordinary \union {"me", "logout", "logoutAll", "password"}
NoCall == [at |-> "none", access |-> "none", token |-> 0]
Live == {i \in DOMAIN tokens : tokens[i].live}
Waiting(t) == {k \in Kinds : pending[t][k].at = "waits"}

SessionsInit ==
    /\ \E home \in [1..Cardinality(Browsers) -> Browsers] :
          /\ \A b \in Browsers : \E i \in DOMAIN home : home[i] = b
          /\ tokens = [i \in DOMAIN home |-> [session |-> i, live |-> TRUE]]
          /\ jar = [b \in Browsers |-> CHOOSE i \in DOMAIN home : home[i] = b]
    /\ tab = [t \in Tabs |-> [user |-> TRUE, access |-> "fresh", place |-> "app"]]
    /\ pending = [t \in Tabs |-> [k \in Kinds |-> NoCall]]
    /\ rotations = {} /\ ended = {} /\ sends = 0

(* The access token's lifetime ends; a tab learns it from a 401.            *)
ExpireToken(t) ==
    /\ tab[t].access = "fresh"
    /\ tab' = [tab EXCEPT ![t].access = "expired"]
    /\ UNCHANGED <<tokens, jar, pending, rotations, ended, sends>>

(* A call carries the access token and the cookie of the time it is sent.   *)
Send(t, k) ==
    /\ tab[t].place = "app" /\ tab[t].user /\ pending[t][k] = NoCall
    /\ pending' = [pending EXCEPT ![t][k] = [at |-> "sent", access |-> tab[t].access,
                                         token |-> jar[BrowserOf[t]]]]
    /\ tab' = IF k = "logout" THEN [tab EXCEPT ![t].user = FALSE, ![t].access = "none"] ELSE tab
    /\ sends < MaxSends /\ sends' = sends + 1
    /\ UNCHANGED <<tokens, jar, rotations, ended>>

Rotation(t, token, boots) == [tab |-> t, token |-> token, at |-> "sent", boots |-> boots]

\* A plausible bug: every call answered 401 starts a refresh of its own.
NoneRefreshing(t) == FALSE
Refreshing(t) == \E r \in rotations : r.tab = {t}

(***************************************************************************)
(* redirectToLogin, after the failure of `failed`: unless the login page is *)
(* shown already it is loaded, and what the tab held and waited for is gone;*)
(* the first thing a loaded page does is to try its browser's cookie.  A    *)
(* refresh of the tab goes on at the server, and nobody takes its answer.   *)
(***************************************************************************)
Redirect(t, failed, others) ==
    IF tab[t].user
    THEN /\ tab' = [tab EXCEPT ![t] = [user |-> FALSE, access |-> "none", place |-> "boots"]]
         /\ pending' = [pending EXCEPT ![t] = [k \in Kinds |-> NoCall]]
         /\ rotations' = {IF r.tab = {t} THEN [r EXCEPT !.tab = {}] ELSE r : r \in others}
                            \union {Rotation({t}, jar[BrowserOf[t]], TRUE)}
    ELSE /\ tab' = [tab EXCEPT ![t].access = "none"]
         /\ pending' = [pending EXCEPT ![t] = [k \in Kinds |-> IF k \in failed THEN NoCall ELSE @[k]]]
         /\ rotations' = others

(* An ordinary call: answered, or sent again after the tab's one refresh.   *)
AnswerApi(t, k) ==
    LET c == pending[t][k] IN
    /\ k \in Ordinary /\ c.at \in {"sent", "again"}
    /\ \/ /\ c.access = "fresh"
          /\ pending' = [pending EXCEPT ![t][k] = NoCall] /\ UNCHANGED <<tab, rotations>>
       \/ /\ c.access # "fresh" /\ c.at = "again"
          /\ Redirect(t, {k}, rotations)
       \/ /\ c.access # "fresh" /\ c.at = "sent"
          /\ pending' = [pending EXCEPT ![t][k].at = "waits"]
          /\ rotations' = IF Refreshing(t) THEN rotations
                          ELSE rotations \union {Rotation({t}, jar[BrowserOf[t]], FALSE)}
          /\ UNCHANGED tab
    /\ UNCHANGED <<tokens, jar, ended, sends>>

(* A call under /api/auth/ is never sent again.                             *)
AnswerMe(t) ==
    /\ pending[t]["me"].at = "sent"
    /\ IF pending[t]["me"].access = "fresh"
       THEN pending' = [pending EXCEPT ![t]["me"] = NoCall] /\ UNCHANGED <<tab, rotations>>
       ELSE Redirect(t, {"me"}, rotations)
    /\ UNCHANGED <<tokens, jar, ended, sends>>

(* Tokens of `which` are revoked; a session is over for good unless one of  *)
(* its tokens was found by a refresh that has not yet stored the next.      *)
EndSession(which) ==
    /\ tokens' = [i \in DOMAIN tokens |->
                    IF i \in which THEN [tokens[i] EXCEPT !.live = FALSE] ELSE tokens[i]]
    /\ ended' = ended \union
         {s \in {tokens[i].session : i \in which \intersect Live} :
             /\ \A i \in Live \ which : tokens[i].session # s
             /\ \A r \in rotations : r.at \in {"found", "revoked"} => tokens[r.token].session # s}

(* Signing out: the server revokes the cookie's token, then the answer      *)
(* clears the cookie.                                                       *)
ServeLogout(t) ==
    /\ pending[t]["logout"].at = "sent"
    /\ EndSession({pending[t]["logout"].token} \ {0})
    /\ pending' = [pending EXCEPT ![t]["logout"].at = "done"]
    /\ UNCHANGED <<jar, tab, rotations, sends>>

ServeLogoutAll(t) ==
    /\ pending[t]["logoutAll"].at = "sent" /\ pending[t]["logoutAll"].access = "fresh"
    /\ EndSession(Live)
    /\ pending' = [pending EXCEPT ![t]["logoutAll"].at = "done"]
    /\ UNCHANGED <<jar, tab, rotations, sends>>

AnswerLogout(t, k) ==
    /\ k \in {"logout", "logoutAll"} /\ pending[t][k].at = "done"
    /\ jar' = [jar EXCEPT ![BrowserOf[t]] = 0]
    /\ pending' = [pending EXCEPT ![t][k] = NoCall]
    /\ tab' = IF k = "logout" THEN tab
              ELSE [tab EXCEPT ![t].user = FALSE, ![t].access = "none"]
    /\ UNCHANGED <<tokens, rotations, ended, sends>>

RefuseLogoutAll(t) ==
    /\ pending[t]["logoutAll"].at = "sent" /\ pending[t]["logoutAll"].access # "fresh"
    /\ Redirect(t, {"logoutAll"}, rotations)
    /\ UNCHANGED <<tokens, jar, ended, sends>>

(* A new password signs the other sessions out; a wrong current one is a 401. *)
ServePassword(t) ==
    LET c == pending[t]["password"] IN
    /\ c.at = "sent"
    /\ \/ /\ c.access = "fresh"
          /\ EndSession({i \in Live : c.token = 0 \/ tokens[i].session # tokens[c.token].session})
          /\ pending' = [pending EXCEPT ![t]["password"] = NoCall]
          /\ UNCHANGED <<tab, rotations>>
       \/ Redirect(t, {"password"}, rotations) /\ UNCHANGED <<tokens, ended>>
    /\ UNCHANGED <<jar, sends>>

\* A plausible bug: the token's row is looked up without its revocation.
FindsAny(r) == r.token # 0
Finds(r) == r.token # 0 /\ tokens[r.token].live

At(r, place) == rotations' = (rotations \ {r}) \union {[r EXCEPT !.at = place]}

(* The refresh at the server: find, revoke, store the successor.            *)
RefreshStep(r) ==
    /\ \/ /\ r.at = "sent" /\ At(r, IF Finds(r) THEN "found" ELSE "refused")
          /\ UNCHANGED tokens
       \/ /\ r.at = "found" /\ At(r, "revoked")
          /\ tokens' = [tokens EXCEPT ![r.token].live = FALSE]
       \/ /\ r.at = "revoked" /\ Len(tokens) < MaxTokens
          /\ tokens' = Append(tokens, [session |-> tokens[r.token].session, live |-> TRUE])
          /\ rotations' = (rotations \ {r}) \union
                             {[r EXCEPT !.at = "issued", !.token = Len(tokens) + 1]}
    /\ UNCHANGED <<jar, tab, pending, ended, sends>>

(* Its answer: the cookie and the access token, whatever the tab has done   *)
(* meanwhile; the calls that waited are sent again.                        *)
Refreshed(r) == \E t \in r.tab :
    /\ r.at = "issued"
    /\ jar' = [jar EXCEPT ![BrowserOf[t]] = r.token]
    /\ tab' = [tab EXCEPT ![t] = [user |-> @.user \/ r.boots, access |-> "fresh",
                                  place |-> "app"]]
    /\ pending' = [pending EXCEPT ![t] = [k \in Kinds |->
                    IF k \in Waiting(t) THEN [@[k] EXCEPT !.at = "again", !.access = "fresh"]
                                        ELSE @[k]]]
    /\ rotations' = rotations \ {r}
    /\ UNCHANGED <<tokens, ended, sends>>

RefreshRefused(r) == \E t \in r.tab :
    /\ r.at = "refused"
    /\ IF r.boots
       THEN /\ tab' = [tab EXCEPT ![t] = [user |-> FALSE, access |-> "none", place |-> "app"]]
            /\ rotations' = rotations \ {r} /\ UNCHANGED pending
       ELSE Redirect(t, Waiting(t), rotations \ {r})
    /\ UNCHANGED <<tokens, jar, ended, sends>>

(* Nobody takes the answer of a tab that has been loaded again.             *)
RefreshLost(r) ==
    /\ r.tab = {} /\ r.at \in {"issued", "refused"}
    /\ rotations' = rotations \ {r}
    /\ UNCHANGED <<tokens, jar, tab, pending, ended, sends>>

(* Signing in: a new session, in the tab's browser.                         *)
SignIn(t) ==
    /\ tab[t].place = "app" /\ ~tab[t].user /\ Len(tokens) < MaxTokens
    /\ tokens' = Append(tokens, [session |-> Len(tokens) + 1, live |-> TRUE])
    /\ jar' = [jar EXCEPT ![BrowserOf[t]] = Len(tokens) + 1]
    /\ tab' = [tab EXCEPT ![t] = [@ EXCEPT !.user = TRUE, !.access = "fresh"]]
    /\ UNCHANGED <<pending, rotations, ended, sends>>

SessionsNext ==
    \/ \E t \in Tabs : \/ ExpireToken(t) \/ AnswerMe(t) \/ SignIn(t)
                       \/ ServeLogout(t) \/ ServeLogoutAll(t) \/ RefuseLogoutAll(t)
                       \/ ServePassword(t)
                       \/ \E k \in Kinds : Send(t, k) \/ AnswerApi(t, k) \/ AnswerLogout(t, k)
    \/ \E r \in rotations : RefreshStep(r) \/ Refreshed(r) \/ RefreshRefused(r) \/ RefreshLost(r)

SessionsSpec == SessionsInit /\ [][SessionsNext]_sessionVars

SessionsTypeOK ==
    /\ tokens \in Seq([session : 1..MaxTokens, live : BOOLEAN]) /\ Len(tokens) <= MaxTokens
    /\ jar \in [Browsers -> 0..Len(tokens)]
    /\ tab \in [Tabs -> [user : BOOLEAN, access : {"none", "fresh", "expired"},
                         place : {"app", "boots"}]]
    /\ pending \in [Tabs -> [Kinds -> [at : {"none", "sent", "waits", "again", "done"},
                                     access : {"none", "fresh", "expired"}, token : 0..MaxTokens]]]
    /\ \A r \in rotations :
          /\ r.tab = {} \/ \E t \in Tabs : r.tab = {t}
          /\ r.token \in 0..Len(tokens) /\ r.boots \in BOOLEAN
          /\ r.at \in {"sent", "found", "revoked", "issued", "refused"}
    /\ ended \subseteq 1..MaxTokens /\ sends \in 0..MaxSends

(***************************************************************************)
(* A session that was signed out while none of its refreshes was halfway    *)
(* stays signed out, whatever refreshes of old tokens arrive from other tabs*)
(* or from before a reload (auth.service.ts refresh, logout, logoutAll,     *)
(* changePassword).                                                         *)
(***************************************************************************)
EndedStaysEnded == \A i \in Live : tokens[i].session \notin ended

(***************************************************************************)
(* A refresh that is waited for is the tab's only one, and a call waits only*)
(* while it is under way: none is left waiting for a refresh that ended     *)
(* (apiClient.ts refreshPromise).                                           *)
(***************************************************************************)
WaitersHaveRefresh == \A t \in Tabs :
    /\ Cardinality({r \in rotations : r.tab = {t}}) <= 1
    /\ Waiting(t) # {} => \E r \in rotations : r.tab = {t}

(* A session that was ended gives no access again, and every tab that waits *)
(* for a new access token has a refresh under way (apiClient.ts:51-108,     *)
(* auth.service.ts:228-420).                                                *)
SessionsKept == SessionsTypeOK /\ EndedStaysEnded /\ WaitersHaveRefresh
=============================================================================
