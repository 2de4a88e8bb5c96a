------------------------------- MODULE Pages -------------------------------
(***************************************************************************)
(* The web app's components that talk to the server, each as what it does   *)
(* with what it loads and with what its user does, and the server's routes  *)
(* they call.  WebApp gives the rows their meaning.                         *)
(*                                                                          *)
(*   reads   the route it loads from when it appears, or Nowhere; it polls  *)
(*           when it loads again on a timer                                 *)
(*   key     what its loads are about may change while it is on screen: the *)
(*           old answer is "kept" or "emptied"; a component with key "none" *)
(*           is mounted anew                                                *)
(*   late    what becomes of the answer to a load a handler started (reload,*)
(*           load more), when the key has changed: "used" or "dropped"      *)
(*   act     what follows an answered action: the answer is shown ("takes"),*)
(*           the component loads again ("reloads"), it closes ("leaves"),   *)
(*           or a message tells of it ("tells")                             *)
(*   sends   the routes of its actions; may, the rights its controls are    *)
(*           shown for; held, whether they are disabled during an action;   *)
(*           awaits, whether that lasts until the reload is answered        *)
(*   pages   whether it can load more of what it shows                      *)
(***************************************************************************)
-----------------------------------------------------------------------------
(* The server's routes for the web app: the rights a handler asks of the    *)
(* caller and whether it changes what it is about.  A reader of a household *)
(* has "member", its administrator "admin" too; "unlocked" is an inverter   *)
(* profile whose writes are not locked; "viewer" and "owner" are the roles  *)
(* for the server page (households.service.ts, server-access.service.ts).   *)

Reads(rights) == [needs |-> rights, changes |-> FALSE]
Changes(rights) == [needs |-> rights, changes |-> TRUE]
Nowhere == [needs |-> {"nobody"}, changes |-> FALSE]

\* requireProfile and requireHousehold, for 'read' and for 'write'.
Member == {"user", "member"}
Admin == Member \union {"admin"}
\* requireViewer and requireOwner.
Viewer == {"user", "viewer"}
Owner == Viewer \union {"owner"}
User == {"user"}
Anyone == {}

\* inverter.controller.ts
ListRegisters == Reads(User)
SetupProfile == Changes({"user", "admin"})
GetLatest == Reads(Member)
GetStatus == Reads(Member)
GetHistory == Reads(Member)
GetAlerts == Reads(Member)
GetReadings == Reads(Member)
GetEnergy == Reads(Member)
ExportReadings == Reads(Member)
UpdateProfile == Changes(Admin)
DeleteProfile == Changes(Admin)
TestPairing == Reads(User)
RefreshSettings == Reads(Member)
ExitFaultMode == Changes(Admin \union {"unlocked"})

\* bms-devices.controller.ts
ListBms == Reads(Member)
CreateBms == Changes(Admin)
UpdateBms == Changes(Admin)
ReplaceBmsToken == Changes(Admin)
RemoveBms == Changes(Admin)
LatestBms == Reads(Member)
BmsHistory == Reads(Member)

\* panel-types.controller.ts
ListPanelTypes == Reads(User)
CreatePanelType == Changes({"user", "admin"})
UpdatePanelType == Changes(Admin)
RemovePanelType == Changes(Admin)

\* outage-sources.controller.ts
GetSource == Reads(Member)
PutSource == Changes(Admin)
ReplaceReaderToken == Changes(Admin)
\* A plausible bug: asking for a check is kept for administrators.
AdminsRefresh == Reads(Admin)
RequestRefresh == Reads(Member)
RemoveSource == Changes(Admin)
GetForecast == Reads(Member)
ListCities == Reads(User)
ListStreets == Reads(User)

\* households.controller.ts
ListMembers == Reads(Member)
ListInvites == Reads(Admin)
MakeInvite == Changes(Admin)
RevokeInvite == Changes(Admin)
ChangeRole == Changes(Admin)
RemoveMember == Changes(Admin)
JoinHousehold == Changes(User)

\* server-agent, server-access, server-fan and server-alerts controllers
NewAgentToken == Changes(Owner)
ServerStatus == Reads(Viewer)
ServerSamples == Reads(Viewer)
ListServerUsers == Reads(Owner)
SetViewer == Changes(Owner)
GetFan == Reads(Viewer)
PutFan == Changes(Owner)
GetNotices == Reads(Viewer)
PutLimits == Changes(Owner)

\* auth, notifications, telegram, location and weather controllers
Register == Changes(Anyone)
Login == Changes(Anyone)
GetMe == Reads(User)
ListSessions == Reads(User)
RevokeSession == Changes(User)
ChangePassword == Changes(User)
GetNotifications == Reads(User)
PutNotifications == Changes(User)
LinkStatus == Reads(User)
LinkCode == Changes(User)
Unlink == Changes(User)
DetectLocation == Reads(User)
SolarForecast == Reads(Member)

-----------------------------------------------------------------------------
(* The components.                                                          *)

Screen(route) ==
    [reads |-> route, polls |-> FALSE, key |-> "none", late |-> "used", act |-> "none",
     sends |-> {}, may |-> {}, held |-> FALSE, awaits |-> FALSE, pages |-> FALSE]
Form == Screen(Nowhere)
Polls(row) == [row EXCEPT !.polls = TRUE]
Keyed(row, old) == [row EXCEPT !.key = old]
Acts(row, act, routes, may) == [row EXCEPT !.act = act, !.sends = routes, !.may = may]
Held(row) == [row EXCEPT !.held = TRUE]
Awaits(row) == [row EXCEPT !.held = TRUE, !.awaits = TRUE]

-----------------------------------------------------------------------------
(* Every page of the shell.                                                 *)
UseReading == [Keyed(Polls(Screen(GetLatest)), "emptied") EXCEPT !.late = "dropped"]
UseDeviceStatus == Keyed(Polls(Screen(GetStatus)), "kept")
UseRegisters == Keyed(Screen(ListRegisters), "kept")
UseUnreadAlerts == Keyed(Polls(Screen(GetAlerts)), "kept")
StatusBanner == Held(Acts(Screen(GetMe), "tells", {ExitFaultMode}, Admin \union {"unlocked"}))

(* The overview and the history.                                            *)
DayTotals == Keyed(Polls(Screen(GetEnergy)), "kept")
Last24Hours == Polls(Screen(GetHistory))
PvArrayTile == Keyed(Screen(GetHistory), "kept")
SunForecastTile == Polls(Screen(SolarForecast))
PowerHistory == Keyed(Screen(GetHistory), "emptied")
DailyEnergy == Keyed(Screen(GetEnergy), "emptied")
ReadingsBrowser ==
    [Keyed(Screen(GetReadings), "emptied") EXCEPT !.pages = TRUE, !.late = "dropped"]
ReadingsExport == Held(Acts(Form, "tells", {ExportReadings}, Member))
\* A plausible bug: the button to load more is enabled again only for the shown key.
AlertsForgotten ==
    [Keyed(Screen(GetAlerts), "kept") EXCEPT !.pages = TRUE, !.late = "dropped"]
AlertsPage == [Keyed(Screen(GetAlerts), "kept") EXCEPT !.pages = TRUE]

(* The outages.                                                             *)
OutageCard == Acts(Polls(Screen(GetForecast)), "reloads", {RequestRefresh}, Member)
OutageForecast == Keyed(Polls(Screen(GetForecast)), "kept")
OutageSetup ==
    Held(Acts(Screen(GetSource), "takes", {PutSource, ReplaceReaderToken}, Admin))
OutageSourceRemoval == Awaits(Acts(Screen(GetSource), "reloads", {RemoveSource}, Admin))
OutageCities == Screen(ListCities)
OutageStreets == Keyed(Screen(ListStreets), "emptied")

(* The battery.                                                             *)
UseBmsDevices == Keyed(Screen(ListBms), "kept")
UseBmsLatest == Keyed(Polls(Screen(LatestBms)), "kept")
BmsHistoryCharts == Keyed(Screen(BmsHistory), "kept")
BmsSetup ==
    Awaits(Acts(Screen(ListBms), "reloads",
                {CreateBms, UpdateBms, ReplaceBmsToken, RemoveBms}, Admin))

(* The inverter's profile, its array and its place.                         *)
ProfileLock == Awaits(Acts(Screen(GetMe), "reloads", {UpdateProfile}, Admin))
ProfileForm == Awaits(Acts(Screen(GetMe), "reloads", {UpdateProfile}, Admin))
ProfileTest == Held(Acts(Screen(GetMe), "tells", {TestPairing}, Admin))
ProfileRemoval == Acts(Screen(GetMe), "leaves", {DeleteProfile}, Admin)
SolarArrayForm == Held(Acts(Screen(GetMe), "reloads", {UpdateProfile}, Admin))
LocationForm == Held(Acts(Screen(GetMe), "reloads", {UpdateProfile}, Admin))
LocationDetect == Held(Acts(Screen(GetMe), "tells", {DetectLocation}, Admin))
PanelTypes == Held(Acts(Screen(ListPanelTypes), "reloads", {CreatePanelType, UpdatePanelType}, Admin))
PanelTypeRemoval == Acts(Screen(ListPanelTypes), "reloads", {RemovePanelType}, Admin)

(* Households, accounts and notifications.                                  *)
HouseholdMembers ==
    Keyed(Acts(Screen(ListInvites), "reloads",
               {MakeInvite, RevokeInvite, ChangeRole, RemoveMember}, Admin), "kept")
SessionsList == Acts(Screen(ListSessions), "reloads", {RevokeSession}, User)
PasswordForm == Held(Acts(Screen(ListSessions), "reloads", {ChangePassword}, User))
NotificationSettings == Acts(Screen(GetNotifications), "takes", {PutNotifications}, User)
TelegramLink == Held(Acts(Screen(LinkStatus), "takes", {LinkCode, Unlink}, User))

(* The server page.                                                         *)
ServerPage == Polls(Screen(ServerStatus))
ServerHistory == Keyed(Screen(ServerSamples), "kept")
FanPanel == Acts(Screen(GetFan), "takes", {PutFan}, Owner)
NoticesPanel == Keyed(Acts(Screen(GetNotices), "takes", {PutLimits}, Owner), "kept")
ServerAccess == Acts(Screen(ListServerUsers), "takes", {SetViewer}, Owner)
ServerAgentSetup == Acts(Screen(ServerStatus), "takes", {NewAgentToken}, Owner)

(* Before the shell.                                                        *)
LoginPage == Held(Acts(Form, "leaves", {Login}, Anyone))
RegisterPage == Held(Acts(Form, "leaves", {Register}, Anyone))
JoinPage == Held(Acts(Screen(GetMe), "leaves", {JoinHousehold}, User))
WizardTest == Held(Acts(Screen(GetMe), "tells", {TestPairing}, {"user", "admin"}))
SetupWizard == Held(Acts(Screen(GetMe), "leaves", {SetupProfile}, {"user", "admin"}))

Screens ==
    {UseReading, UseDeviceStatus, UseRegisters, UseUnreadAlerts, StatusBanner,
     DayTotals, Last24Hours, PvArrayTile, SunForecastTile, PowerHistory, DailyEnergy,
     ReadingsBrowser, ReadingsExport, AlertsPage, OutageCard, OutageForecast, OutageSetup,
     OutageSourceRemoval, OutageCities, OutageStreets, UseBmsDevices, UseBmsLatest,
     BmsHistoryCharts, BmsSetup, ProfileLock, ProfileForm, ProfileTest, ProfileRemoval,
     SolarArrayForm, LocationForm, LocationDetect, PanelTypes, PanelTypeRemoval,
     HouseholdMembers, SessionsList, PasswordForm, NotificationSettings, TelegramLink,
     ServerPage, ServerHistory, FanPanel, NoticesPanel, ServerAccess, ServerAgentSetup,
     LoginPage, RegisterPage, JoinPage, WizardTest, SetupWizard}
=============================================================================
