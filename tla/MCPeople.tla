------------------------------- MODULE MCPeople ------------------------------
(***************************************************************************)
(* What people share and see: the members of the households, the sessions  *)
(* of a browser's tabs, the pages of the web app and a user's notification *)
(* choices.  A run takes one of the four, picked by the initial state, and *)
(* the others rest.                                                        *)
(***************************************************************************)
EXTENDS Households, Sessions, WebApp, NotificationChoices, TLC

\* Rows and requests are interchangeable.
HouseholdSymmetry ==
    Permutations(Users) \cup Permutations(Houses) \cup Permutations(Invites)
        \cup Permutations(Inverters) \cup Permutations(Requests)

\* The tabs share one browser, and with it the cookie.
OneBrowser == [t \in Tabs |-> CHOOSE b \in Browsers : TRUE]

\* An admin who owns the server, and a reader who may see it and whose
\* inverter is locked.
TwoStandings ==
    {[house |-> "ADMIN", server |-> "OWNER", locked |-> FALSE],
     [house |-> "READER", server |-> "VIEWER", locked |-> TRUE]}

VARIABLE part

\* Where the households rest: the server has no account.
NoAccounts == users = {} /\ houses = {}

\* Where the pages rest.
SomePage ==
    /\ page = CHOOSE s \in Screens : TRUE
    /\ key = CHOOSE k \in Keys : TRUE
    /\ standing = CHOOSE s \in Standings : TRUE

PeopleInit ==
    /\ part \in {"households", "sessions", "pages", "choices"}
    /\ (part # "households" => NoAccounts) /\ Init
    /\ SessionsInit
    /\ (part # "pages" => SomePage) /\ InitWeb
    /\ (part # "choices" => row = Unloaded) /\ ChoicesInit

PeopleNext ==
    /\ UNCHANGED part
    /\ \/ part = "households" /\ Next /\ UNCHANGED <<sessionVars, webVars, choiceVars>>
       \/ part = "sessions" /\ SessionsNext /\ UNCHANGED <<vars, webVars, choiceVars>>
       \/ part = "pages" /\ WebNext /\ UNCHANGED <<vars, sessionVars, choiceVars>>
       \/ part = "choices" /\ ChoicesNext /\ UNCHANGED <<vars, sessionVars, webVars>>

PeopleSpec ==
    PeopleInit /\ [][PeopleNext]_<<part, vars, sessionVars, webVars, choiceVars>>

(* The pages: what is shown is of what is chosen, a change of one's own is  *)
(* shown once the page is quiet, the server takes whatever the page offers, *)
(* and more can be asked for again.  A user's notification choices are kept *)
(* when others of them are saved, and shown as they are stored.             *)
PagesHonest ==
    /\ part = "pages" =>
          WebTypeOK /\ KeyKept /\ OwnChangeShown /\ OfferedIsTaken /\ MoreComesBack
    /\ part = "choices" => ChoicesTypeOK /\ RestStays /\ ShownIsStored
==============================================================================
