------------------------------ MODULE SiteCheck -------------------------------
(***************************************************************************)
(* One check of the outage reader against the site, request by request      *)
(* (outage-reader/run-check.ts, dnem/read-street.ts, dnem/site-client.ts,   *)
(* chromium.ts): plain requests first, each tried again when the site or    *)
(* the network fails it; in a browser when they are turned away, or at once *)
(* when the check is to prove the browser; and the report, with the street  *)
(* list when it is not the one last uploaded.                               *)
(*                                                                          *)
(* The module OutageReader takes a check as what ReadStreet says of it; that*)
(* it may is the property ReadsAsPromised of MCOutage.                      *)
(***************************************************************************)
EXTENDS Integers

CONSTANTS
    Retries,      \* how often retrying() tries again: delaysMs.length
    MaxChecks,    \* bound of the checks made
    StreetLists,  \* versions of the site's street list
    NoList        \* no list uploaded yet

ASSUME SiteConstants ==
    Retries \in Nat /\ MaxChecks \in Nat /\ StreetLists # {} /\ NoList \notin StreetLists

VARIABLES
    site,      \* how the site and the reader's machine are during this check
    visit,     \* the check: where it is, the client and what came of it
    chromiums, \* browsers running
    list,      \* the street list on the site's page
    hash,      \* ReaderState.streetsHash, in the reader's file
    uploaded,  \* the list the server has
    doubtful,  \* history: an upload's answer was lost
    checks

siteVars == <<site, visit, chromiums, list, hash, uploaded, doubtful, checks>>

NoVisit == [at |-> "idle", forced |-> FALSE, plain |-> FALSE, tries |-> 0,
            block |-> "none", browser |-> FALSE, result |-> "none",
            used |-> FALSE, turned |-> {}]

\* How a site may be, beside what OutageReader says: erratic, when each request
\* finds it as it likes.
SiteStates == [is : {"open", "picky", "closed", "down", "erratic"}, browser : BOOLEAN]

InitSite ==
    /\ site = [is |-> "open", browser |-> TRUE] /\ visit = NoVisit /\ chromiums = 0
    /\ list = (CHOOSE l \in StreetLists : TRUE) /\ hash = NoList /\ uploaded = NoList
    /\ doubtful = FALSE /\ checks = 0

-----------------------------------------------------------------------------
(* What a request may find: `classify` and the parsers' kinds of SiteError. *)

TurnedAway == {"challenge", "rejected"}
Retryable  == {"server", "network"}
Failing    == Retryable \union {"shape"}

\* Plain and through the browser, to the page and to the houses.  A site that
\* turns a check away may still show the page, and a failure that passes is
\* met by any site.
Steady(means, request) ==
    LET turns == site.is = "closed" \/ (site.is = "picky" /\ means = "plain")
    IN  CASE site.is = "erratic" -> {"ok"} \union TurnedAway \union Failing
          [] site.is = "down"    -> Failing \union (IF request = "page" THEN {"ok"} ELSE {})
          [] OTHER -> IF ~turns THEN {"ok"}
                      ELSE TurnedAway \union (IF request = "page" THEN {"ok"} ELSE {})

Passing == IF visit.tries < Retries THEN Retryable ELSE {}
Answers(means, request) == Steady(means, request) \union Passing

\* The browser's page has no status: only its contents turn the reader away,
\* and only its loading fails (chromium.ts goto).
PageAnswers == Answers("browser", "page") \ {"server", "rejected"}
Launches ==
    (IF site.browser \/ site.is = "erratic" THEN PageAnswers ELSE {})
        \union (IF ~site.browser THEN {"nostart"} ELSE {})

-----------------------------------------------------------------------------
(* readStreet.                                                             *)

StartVisit(forced) ==
    /\ visit.at = "idle" /\ checks < MaxChecks /\ checks' = checks + 1
    /\ site' \in SiteStates /\ list' \in StreetLists
    /\ visit' = [NoVisit EXCEPT !.at = IF forced THEN "launch" ELSE "page",
                                !.forced = forced, !.plain = ~forced]
    /\ UNCHANGED <<chromiums, hash, uploaded, doubtful>>

\* retrying: only what the site or the network fails, and so many times.
Retried(answer) == answer \in Retryable /\ visit.tries < Retries

Ends(kind) == [visit EXCEPT !.at = "close", !.result = kind]

\* A plausible bug: any failure of the plain requests goes to the browser.
NeedsBrowserAny(kind) == kind # "ok"
\* needsBrowser: only a plain check that was turned away.
NeedsBrowser(kind) == kind \in TurnedAway

Throws(kind) ==
    IF visit.at \in {"page", "houses"} /\ NeedsBrowser(kind)
    THEN [visit EXCEPT !.at = "launch", !.tries = 0, !.block = kind,
                       !.turned = @ \union {"plain"}]
    ELSE [Ends(kind) EXCEPT !.turned = IF kind \in TurnedAway THEN @ \union {"browser"} ELSE @]

Answered(answer, next) ==
    visit' = IF answer = "ok" THEN [next EXCEPT !.tries = 0]
             ELSE IF Retried(answer) THEN [visit EXCEPT !.tries = @ + 1]
             ELSE Throws(answer)

LoadPage ==
    /\ visit.at = "page"
    /\ \E answer \in Answers("plain", "page") : Answered(answer, [visit EXCEPT !.at = "houses"])
    /\ UNCHANGED <<site, chromiums, list, hash, uploaded, doubtful, checks>>

Houses ==
    /\ visit.at = "houses"
    /\ \E answer \in Answers("plain", "houses") : Answered(answer, Ends("ok"))
    /\ UNCHANGED <<site, chromiums, list, hash, uploaded, doubtful, checks>>

\* A plausible bug: a browser whose page does not load is left running.
LeftRunning(answer) == IF answer = "nostart" THEN chromiums ELSE chromiums + 1
\* openInChromium closes the browser it started when the page does not load.
Running(answer) == IF answer \in {"nostart", "network"} THEN chromiums ELSE chromiums + 1

\* loadPage in the browser: one that cannot start, or breaks before its page is
\* read, leaves the site's block standing, and without one it is no answer of
\* the site.
Launch ==
    /\ visit.at = "launch"
    /\ \E answer \in Launches :
         /\ chromiums' = Running(answer)
         /\ IF answer = "nostart"
            THEN visit' = Ends(IF visit.block = "none" THEN "error" ELSE visit.block)
            ELSE IF answer = "network"
            THEN Answered(answer, visit)
            ELSE visit' = [(IF answer = "ok" THEN [visit EXCEPT !.at = "ask", !.tries = 0]
                            ELSE Throws(answer)) EXCEPT !.browser = TRUE]
    /\ UNCHANGED <<site, list, hash, uploaded, doubtful, checks>>

AskInBrowser ==
    /\ visit.at = "ask"
    /\ \E answer \in Answers("browser", "houses") :
         Answered(answer, [Ends("ok") EXCEPT !.used = TRUE])
    /\ UNCHANGED <<site, chromiums, list, hash, uploaded, doubtful, checks>>

\* The `finally`, and then runCheck's readWithFallback: a forced check whose
\* browser could not run is made with plain requests, by a client of its own.
CloseBrowser ==
    /\ visit.at = "close"
    /\ chromiums' = IF visit.browser THEN chromiums - 1 ELSE chromiums
    /\ visit' = IF visit.result = "error" /\ ~visit.plain
                THEN [NoVisit EXCEPT !.at = "page", !.forced = visit.forced, !.plain = TRUE]
                ELSE [visit EXCEPT !.at = "report", !.browser = FALSE]
    /\ UNCHANGED <<site, list, hash, uploaded, doubtful, checks>>

-----------------------------------------------------------------------------
(* runCheck.                                                               *)

\* A plausible bug: the list is taken for uploaded whatever the server said.
UploadUnchecked(taken, heard) ==
    /\ hash' = list /\ uploaded' = IF taken THEN list ELSE uploaded
    /\ doubtful' = (doubtful \/ (taken /\ ~heard))
\* The street list, when it is not the one last uploaded; one the server did
\* not take, or whose answer was lost, is sent again with the next check.
Upload(taken, heard) ==
    /\ hash' = IF taken /\ heard THEN list ELSE hash
    /\ uploaded' = IF taken THEN list ELSE uploaded
    /\ doubtful' = (doubtful \/ (taken /\ ~heard))

\* The report itself, and what the server does with it, are OutageReader's.
Report ==
    /\ visit.at = "report"
    /\ IF visit.result = "ok" /\ list # hash
       THEN \E taken, heard \in BOOLEAN : Upload(taken, heard)
       ELSE UNCHANGED <<hash, uploaded, doubtful>>
    /\ visit' = [visit EXCEPT !.at = "idle"]
    /\ UNCHANGED <<site, chromiums, list, checks>>

SiteNext ==
    \/ LoadPage \/ Houses \/ Launch \/ AskInBrowser \/ CloseBrowser \/ Report
    \/ \E forced \in BOOLEAN : StartVisit(forced)

SiteTypeOK ==
    /\ site \in SiteStates /\ chromiums \in 0..1 /\ checks \in 0..MaxChecks
    /\ visit.at \in {"idle", "page", "houses", "launch", "ask", "close", "report"}
    /\ visit.tries \in 0..Retries
    /\ visit.result \in {"none", "ok", "error"} \union TurnedAway \union Failing
    /\ list \in StreetLists /\ {hash, uploaded} \subseteq StreetLists \union {NoList}

(* A browser runs only while a check needs it: never two, and none when the *)
(* check has ended, however it did (read-street.ts:23 "The browser is       *)
(* always closed afterwards", chromium.ts:134-137).                         *)
BrowserIsClosed == visit.at \in {"idle", "report", "page", "houses"} => chromiums = 0

(* The browser is for a check that is to prove it and for one turned away,  *)
(* and the site's own failures are tried again, never sent there            *)
(* (read-street.ts:19-23).  Turned away is said only of a site that turned  *)
(* the browser away too, or when there was none to ask it with.             *)
BrowserIsForBlocks ==
    /\ visit.at \in {"launch", "ask"} => ~visit.plain \/ visit.turned # {}
    /\ visit.at = "report" /\ visit.result \in TurnedAway
         => "browser" \in visit.turned \/ (visit.block # "none" /\ ~site.browser)
    /\ visit.at = "report" /\ visit.result \in Retryable => visit.tries = Retries

(* The server has the list the reader thinks it uploaded, so that a check   *)
(* that finds the same list again may keep it (run-check.ts:95-107).  Not   *)
(* so once an upload was taken and its answer lost, and the site then went  *)
(* back to the list before: the server keeps the other.                     *)
ListIsStored == hash # NoList /\ ~doubtful => uploaded = hash
=============================================================================
