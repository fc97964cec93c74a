---------------------------- MODULE WirelessPage ----------------------------
(* The Wi-Fi page (app/ui/tabs/wireless_tab.py): the status of the           *)
(* connection and the scan of the access points around are read by workers   *)
(* of their own, by hand, by two timers and after a refresh of the vendor    *)
(* data, and meet in one table.                                              *)
EXTENDS FiniteSets

CONSTANTS
    APs,             \* access points, by BSSID
    Filters,         \* what search, band and security leave: sets of access points
    NoAP             \* not connected, nothing selected

ASSUME WirelessAssumption ==
    NoAP \notin APs /\ Filters \subseteq SUBSET APs

VARIABLES
    wifiTab,      \* the page: what it knows, its table, its timers
    wifiJobs      \* its three workers

wifiVars == <<wifiTab, wifiJobs>>

Timers == {"status", "nearby"}
WifiJobs == Timers \cup {"oui"}
NoJobs == [k \in WifiJobs |-> [st |-> "idle", got |-> NoAP]]

\* restore_ui_state: the signals of the boxes are blocked and the timers stand
Restored(saved) ==
    [started |-> FALSE, info |-> NoAP, list |-> {}, filter |-> saved.filter, only |-> saved.only,
     rows |-> {}, lit |-> NoAP, chosen |-> NoAP, total |-> 0, text |-> "counts",
     box |-> saved.box, timer |-> [t \in Timers |-> FALSE]]

WifiInit ==
    /\ wifiTab = Restored([filter |-> APs, only |-> FALSE, box |-> [t \in Timers |-> FALSE]])
    /\ wifiJobs = NoJobs

----------------------------------------------------------------------------
(* The table.                                                                *)
Shown(tab) == {ap \in tab.list \cap tab.filter : tab.only => ap = tab.info}
LitIn(tab) == IF tab.info \in Shown(tab) THEN tab.info ELSE NoAP

\* _apply_nearby_view with _update_nearby_summary: the selected row is found again
Applied(tab) ==
    [tab EXCEPT !.rows = Shown(tab), !.lit = LitIn(tab), !.total = Cardinality(tab.list),
                !.chosen = IF @ \in Shown(tab) THEN @ ELSE NoAP, !.text = "counts"]

SelectRow(ap) ==
    /\ ap \in wifiTab.rows
    /\ wifiTab' = [wifiTab EXCEPT !.chosen = ap]
    /\ UNCHANGED wifiJobs

\* the search, the lists of bands and of kinds of security
SetFilter(f) ==
    /\ f # wifiTab.filter
    /\ wifiTab' = Applied([wifiTab EXCEPT !.filter = f])
    /\ UNCHANGED wifiJobs

ConnectedOnly ==
    /\ wifiTab' = Applied([wifiTab EXCEPT !.only = ~@])
    /\ UNCHANGED wifiJobs

----------------------------------------------------------------------------
(* The workers.                                                              *)
Running(k) == wifiJobs[k].st # "idle"

\* refresh_wireless_info and refresh_nearby_access_points: nothing while one runs
Refreshed(ks) == [k \in WifiJobs |-> IF k \in ks /\ ~Running(k) THEN [st |-> "run", got |-> NoAP]
                                                              ELSE wifiJobs[k]]
Announced(tab, ks) == IF "nearby" \in ks /\ ~Running("nearby") THEN [tab EXCEPT !.text = "scanning"] ELSE tab

RefreshNow(k) ==
    /\ ~Running(k)
    /\ wifiJobs' = Refreshed({k})
    /\ wifiTab' = Announced(wifiTab, {k})

TickTimer(t) == wifiTab.timer[t] /\ RefreshNow(t)

RefreshOui ==
    /\ ~Running("oui")
    /\ wifiJobs' = Refreshed({"oui"})
    /\ wifiTab' = [wifiTab EXCEPT !.text = "vendors"]

(* What get_wireless_info and scan_nearby_access_points find, that the       *)
(* vendor data is new, or an error; a refresh of the vendor data that did    *)
(* not succeed is shown like its error.                                      *)
Works(k) ==
    LET answers == CASE k = "status" -> APs \cup {NoAP} [] k = "nearby" -> SUBSET APs [] k = "oui" -> {NoAP} IN
    /\ wifiJobs[k].st = "run"
    /\ \/ \E got \in answers : wifiJobs' = [wifiJobs EXCEPT ![k] = [st |-> "result", got |-> got]]
       \/ wifiJobs' = [wifiJobs EXCEPT ![k].st = "error"]
    /\ UNCHANGED wifiTab

Handled(k) == wifiJobs' = [wifiJobs EXCEPT ![k] = [st |-> "finished", got |-> NoAP]]

UpdateWirelessView ==
    /\ wifiJobs["status"].st = "result"
    /\ wifiTab' = Applied([wifiTab EXCEPT !.info = wifiJobs["status"].got])
    /\ Handled("status")

UpdateNearby ==
    /\ wifiJobs["nearby"].st = "result"
    /\ wifiTab' = Applied([wifiTab EXCEPT !.list = wifiJobs["nearby"].got])
    /\ Handled("nearby")

\* _finish_nearby_oui_refresh: a scan that runs already is all there is
FinishOui ==
    /\ wifiJobs["oui"].st = "result"
    /\ wifiTab' = Announced(wifiTab, {"nearby"})
    /\ wifiJobs' = [Refreshed({"nearby"}) EXCEPT !["oui"] = [st |-> "finished", got |-> NoAP]]

JobError(k) ==
    /\ wifiJobs[k].st = "error"
    /\ wifiTab' = IF k = "status" THEN wifiTab ELSE [wifiTab EXCEPT !.text = "error"]
    /\ Handled(k)

SetRefreshRunning(k) ==
    /\ wifiJobs[k].st = "finished"
    /\ wifiJobs' = [wifiJobs EXCEPT ![k].st = "idle"]
    /\ UNCHANGED wifiTab

----------------------------------------------------------------------------
(* Timers and sessions.                                                      *)
\* the page is shown for the first time
StartInitialRefresh ==
    /\ ~wifiTab.started
    /\ wifiTab' = [Announced(wifiTab, Timers) EXCEPT !.started = TRUE,
                      !.timer = [t \in Timers |-> wifiTab.box[t] \/ wifiTab.timer[t]]]
    /\ wifiJobs' = Refreshed(Timers)

ToggleAutoRefresh(t) ==
    /\ wifiTab.started
    /\ IF wifiTab.box[t]
       THEN wifiTab' = [wifiTab EXCEPT !.box[t] = FALSE, !.timer[t] = FALSE] /\ UNCHANGED wifiJobs
       ELSE /\ wifiTab' = [Announced(wifiTab, {t}) EXCEPT !.box[t] = TRUE, !.timer[t] = TRUE]
            /\ wifiJobs' = Refreshed({t})

\* save_ui_state and shutdown; workers that still run end with the program
NextSession ==
    /\ wifiTab' = Restored(wifiTab)
    /\ wifiJobs' = NoJobs

WifiNext ==
    \/ \E ap \in APs : SelectRow(ap)
    \/ \E f \in Filters : SetFilter(f)
    \/ \E t \in Timers : RefreshNow(t) \/ TickTimer(t) \/ ToggleAutoRefresh(t)
    \/ \E k \in WifiJobs : Works(k) \/ JobError(k) \/ SetRefreshRunning(k)
    \/ ConnectedOnly \/ RefreshOui \/ UpdateWirelessView \/ UpdateNearby \/ FinishOui
    \/ StartInitialRefresh \/ NextSession

----------------------------------------------------------------------------
(* The table shows what the last scan found as far as the filters let it,    *)
(* with the access point marked that the last status named, whichever of     *)
(* status, scan and filter came last; the counts above it are its own.       *)
TableIsCurrent ==
    /\ wifiTab.rows = Shown(wifiTab) /\ wifiTab.lit = LitIn(wifiTab)
    /\ wifiTab.total = Cardinality(wifiTab.list)

(* Once the page was shown, a timer runs for exactly the boxes that are      *)
(* checked, through restarts (interval and box are restored silently).       *)
TimersFollowBoxes == wifiTab.started => wifiTab.timer = wifiTab.box

(* The page says that it scans only while it does.                           *)
ScanTextIsTrue == wifiTab.text = "scanning" => Running("nearby")

(* A selected access point stays selected as long as it is listed, whatever  *)
(* is refreshed (docs/user/ko/wireless.md:46).                               *)
SelectionStays ==
    [][wifiTab.chosen \in wifiTab'.rows =>
          wifiTab'.chosen = wifiTab.chosen \/ \E ap \in APs : SelectRow(ap)]_wifiVars

(* The Wi-Fi page shows what it knows.                                       *)
WirelessPageIsRight == [](TableIsCurrent /\ TimersFollowBoxes /\ ScanTextIsTrue) /\ SelectionStays

============================================================================
