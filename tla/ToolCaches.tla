----------------------------- MODULE ToolCaches -----------------------------
(* What the tools keep between requests: the vendor data of IEEE             *)
(* (app/services/oui_service.py) with the pages that refresh and read it,    *)
(* the list of public iperf servers (app/services/public_iperf_service.py),  *)
(* and the settings page of the tools and of the storage paths               *)
(* (app/ui/tabs/settings_tab.py).                                            *)
EXTENDS Naturals, FiniteSets

CONSTANTS
    Registries,   \* the registries a refresh fetches one after another
    MaxData,      \* bound: versions the registries publish
    MaxToolJobs   \* bound: jobs started

ASSUME CacheAssumption ==
    /\ IsFiniteSet(Registries) /\ Registries # {}
    /\ MaxData \in Nat \ {0} /\ MaxToolJobs \in Nat

VARIABLES
    published,   \* version each registry publishes now
    ouiFile,     \* version of each registry in the cache file, 0 for absent
    oui,         \* the service: records in memory, whether it has loaded
    fetchers,    \* the jobs that fetch all registries
    servers,     \* public servers: file, list shown, refresh in progress
    toolPage,    \* settings page, tools: which jobs run, buttons
    pathPage,    \* settings page, paths: typed, saved, dirty
    toolJobs     \* jobs started (bound)

cacheVars == <<published, ouiFile, oui, fetchers, servers, toolPage, pathPage, toolJobs>>

None == [r \in Registries |-> 0]
Fetchers == {"settings", "page", "check"}
NoAnswer == 2
IdleFetch == [stage |-> "idle", left |-> {}, got |-> None, failed |-> FALSE]

CacheInit ==
    /\ published = [r \in Registries |-> 1]
    /\ ouiFile \in {None, [r \in Registries |-> 1]}
    /\ oui = [loaded |-> FALSE, records |-> None, reading |-> None, loading |-> FALSE]
    /\ fetchers = [f \in Fetchers |-> IdleFetch]
    /\ servers \in [file : {0, 1}, shown : {0}, busy : {FALSE}, answer : {NoAnswer}]
    /\ toolPage = [status |-> FALSE, oui |-> FALSE, install |-> FALSE, stopping |-> FALSE,
                   manage |-> FALSE, opened |-> FALSE]
    /\ pathPage = [typed |-> 0, saved |-> 0, dirty |-> FALSE, config |-> 0]
    /\ toolJobs = 0

StartToolJob == toolJobs < MaxToolJobs /\ toolJobs' = toolJobs + 1

----------------------------------------------------------------------------
(* The vendor data.                                                          *)
OthersThanOui == UNCHANGED <<servers, pathPage>>

Publish(r) ==
    /\ published[r] < MaxData
    /\ published' = [published EXCEPT ![r] = @ + 1]
    /\ UNCHANGED <<ouiFile, oui, fetchers, toolPage, toolJobs>> /\ OthersThanOui

(* ensure_loaded, _load_cache: the flag is set first, the records last; a    *)
(* reader that comes in between sees what was there.                         *)
LoadBegins ==
    /\ ~oui.loaded
    /\ oui' = [oui EXCEPT !.loaded = TRUE, !.loading = TRUE, !.reading = ouiFile]
    /\ UNCHANGED <<published, ouiFile, fetchers, toolPage, toolJobs>> /\ OthersThanOui

LoadEnds ==
    /\ oui.loading
    /\ oui' = [oui EXCEPT !.loading = FALSE, !.records = oui.reading, !.reading = None]
    /\ UNCHANGED <<published, ouiFile, fetchers, toolPage, toolJobs>> /\ OthersThanOui

Fetch(f, record) ==
    /\ fetchers' = [fetchers EXCEPT ![f] = record]
    /\ UNCHANGED <<published, toolPage, toolJobs>> /\ OthersThanOui

(* The diagnostics pages start a refresh each time they are asked, also      *)
(* beside one of the settings page.                                          *)
RefreshOuiCache ==
    /\ fetchers["page"].stage = "idle" /\ StartToolJob
    /\ fetchers' = [fetchers EXCEPT !["page"] = [IdleFetch EXCEPT !.stage = "fetch", !.left = Registries]]
    /\ UNCHANGED <<published, ouiFile, oui, toolPage>> /\ OthersThanOui

(* _fetch_all_registries: an error is noted and the next one is tried.       *)
FetchRegistry(f, r) ==
    /\ fetchers[f].stage = "fetch" /\ r \in fetchers[f].left
    /\ \E ok \in BOOLEAN :
         Fetch(f, [fetchers[f] EXCEPT !.left = @ \ {r},
                                      !.got[r] = IF ok THEN published[r] ELSE 0,
                                      !.failed = @ \/ ~ok])
    /\ UNCHANGED <<ouiFile, oui>>

(* check_for_updates compares and changes nothing.                           *)
CheckOuiUpdates ==
    /\ fetchers["check"].stage = "fetch" /\ fetchers["check"].left = {}
    /\ Fetch("check", [fetchers["check"] EXCEPT !.stage = "answer"])
    /\ UNCHANGED <<ouiFile, oui>>

RefreshCacheAnyway(f) ==    \* MUTANT: what could be fetched is saved
    /\ f # "check" /\ fetchers[f].stage = "fetch" /\ fetchers[f].left = {}
    /\ ouiFile' = fetchers[f].got
    /\ Fetch(f, [fetchers[f] EXCEPT !.stage = "adopt"])
    /\ UNCHANGED oui

(* refresh_cache: with an error nothing is touched; save_json replaces the   *)
(* file or fails and leaves it.                                              *)
RefreshCache(f) ==
    /\ f # "check" /\ fetchers[f].stage = "fetch" /\ fetchers[f].left = {}
    /\ IF fetchers[f].failed
       THEN /\ Fetch(f, [fetchers[f] EXCEPT !.stage = "answer"])
            /\ UNCHANGED ouiFile
       ELSE \/ /\ ouiFile' = fetchers[f].got
               /\ Fetch(f, [fetchers[f] EXCEPT !.stage = "adopt"])
            \/ /\ Fetch(f, [fetchers[f] EXCEPT !.stage = "answer"])
               /\ UNCHANGED ouiFile
    /\ UNCHANGED oui

AdoptRecords(f) ==
    /\ fetchers[f].stage = "adopt"
    /\ oui' = [oui EXCEPT !.records = fetchers[f].got, !.loaded = TRUE]
    /\ Fetch(f, [fetchers[f] EXCEPT !.stage = "answer"])
    /\ UNCHANGED ouiFile

FinishOuiRefresh ==
    /\ fetchers["page"].stage = "answer"
    /\ Fetch("page", IdleFetch)
    /\ UNCHANGED <<ouiFile, oui>>

----------------------------------------------------------------------------
(* Settings page, tools. Each job's start looks at the flags of the others,  *)
(* except the install's, whose button is disabled instead.                   *)
PageStep(record) ==
    /\ toolPage' = record
    /\ UNCHANGED <<published, ouiFile, oui, servers, pathPage>>

RefreshToolStatuses ==
    /\ ~toolPage.status /\ ~toolPage.install /\ ~toolPage.oui /\ StartToolJob
    /\ PageStep([toolPage EXCEPT !.status = TRUE, !.manage = FALSE, !.opened = TRUE])
    /\ UNCHANGED fetchers

(* _collect_tool_status asks winget, the page shows it (or an error) and     *)
(* gives the buttons back: the manage button if there is something to do.    *)
FinishToolStatus ==
    /\ toolPage.status
    /\ \E something \in BOOLEAN : PageStep([toolPage EXCEPT !.status = FALSE, !.manage = something])
    /\ UNCHANGED <<fetchers, toolJobs>>

StartOuiOperation(f) ==
    /\ f \in {"settings", "check"}
    /\ toolPage.opened /\ ~toolPage.oui /\ ~toolPage.status /\ ~toolPage.install /\ StartToolJob
    /\ fetchers' = [fetchers EXCEPT ![f] = [IdleFetch EXCEPT !.stage = "fetch", !.left = Registries]]
    /\ PageStep([toolPage EXCEPT !.oui = TRUE])

FinishOuiOperation(f) ==
    /\ f \in {"settings", "check"} /\ fetchers[f].stage = "answer"
    /\ fetchers' = [fetchers EXCEPT ![f] = IdleFetch]
    /\ PageStep([toolPage EXCEPT !.oui = FALSE])
    /\ UNCHANGED toolJobs

ManageIperf ==
    /\ toolPage.manage /\ ~toolPage.install /\ StartToolJob
    /\ PageStep([toolPage EXCEPT !.install = TRUE, !.manage = FALSE])
    /\ UNCHANGED fetchers

CancelIperfInstall ==
    /\ toolPage.install
    /\ PageStep([toolPage EXCEPT !.stopping = TRUE])
    /\ UNCHANGED <<fetchers, toolJobs>>

(* install_or_update_managed ends, done, failed or stopped. The buttons are  *)
(* given back and the status is asked for again, unless a vendor job runs:   *)
(* then the page keeps the state of before the install.                      *)
FinishIperfInstall ==
    /\ toolPage.install
    /\ IF toolPage.oui
       THEN PageStep([toolPage EXCEPT !.install = FALSE, !.stopping = FALSE, !.manage = TRUE])
       ELSE PageStep([toolPage EXCEPT !.install = FALSE, !.stopping = FALSE, !.status = TRUE])
    /\ UNCHANGED <<fetchers, toolJobs>>

----------------------------------------------------------------------------
(* Public servers: 0 is no list.                                             *)
OthersThanServers == UNCHANGED <<published, ouiFile, oui, fetchers, toolPage, pathPage>>

RefreshPublicServers ==
    /\ ~servers.busy /\ StartToolJob
    /\ servers' = [servers EXCEPT !.busy = TRUE]
    /\ OthersThanServers

(* fetch_public_servers: a fresh cache answers by itself unless the refresh  *)
(* is forced; a failed download falls back to the cache, fresh or stale; the *)
(* new list is saved before it is answered, and a failed save is an error    *)
(* with no answer.                                                           *)
FetchPublicServers ==
    /\ servers.busy /\ servers.answer = NoAnswer
    /\ \/ servers' = [servers EXCEPT !.answer = servers.file]
       \/ servers' = [servers EXCEPT !.answer = 1, !.file = 1]
       \/ servers' = [servers EXCEPT !.busy = FALSE]
    /\ UNCHANGED toolJobs /\ OthersThanServers

FinishPublicRefresh ==
    /\ servers.answer # NoAnswer
    /\ servers' = [servers EXCEPT !.shown = IF servers.answer = 0 THEN @ ELSE servers.answer,
                                  !.answer = NoAnswer, !.busy = FALSE]
    /\ UNCHANGED toolJobs /\ OthersThanServers

(* The cache file is deleted.                                                *)
ServerCacheGone ==
    /\ servers.file # 0
    /\ servers' = [servers EXCEPT !.file = 0]
    /\ UNCHANGED toolJobs /\ OthersThanServers

----------------------------------------------------------------------------
(* Settings page, paths.                                                     *)
OthersThanPaths == UNCHANGED <<published, ouiFile, oui, fetchers, toolPage, servers, toolJobs>>

(* _path_fields_changed.                                                     *)
TypePath(v) ==
    /\ pathPage' = [pathPage EXCEPT !.typed = v, !.dirty = v # pathPage.saved]
    /\ OthersThanPaths

(* reload_view, on every reload and path change of the application state:    *)
(* typed text that is not saved stays.                                       *)
ReloadView ==
    /\ pathPage' = IF pathPage.dirty THEN pathPage
                   ELSE [pathPage EXCEPT !.typed = pathPage.config, !.saved = pathPage.config]
    /\ OthersThanPaths

(* _save_path_settings: saved, or refused with the fields left as typed.     *)
SavePathSettings ==
    /\ pathPage.dirty
    /\ pathPage' \in {pathPage, [pathPage EXCEPT !.config = pathPage.typed, !.saved = pathPage.typed,
                                                 !.dirty = FALSE]}
    /\ OthersThanPaths

(* _reload_config_files: after the confirmation when text would be lost; a   *)
(* reload that fails keeps the text and the mark.                            *)
ReloadConfigFiles ==
    /\ pathPage' \in {pathPage, [pathPage EXCEPT !.typed = pathPage.config, !.saved = pathPage.config,
                                                 !.dirty = FALSE]}
    /\ OthersThanPaths

(* _reset_all_settings (confirmed): back to the default paths, or a failure. *)
ResetAllSettings ==
    /\ pathPage' \in {pathPage, [typed |-> 0, saved |-> 0, dirty |-> FALSE, config |-> 0]}
    /\ OthersThanPaths

PathNext ==
    \/ \E v \in {0, 1} : TypePath(v)
    \/ ReloadView \/ SavePathSettings \/ ReloadConfigFiles \/ ResetAllSettings

----------------------------------------------------------------------------
OuiNext ==
    \/ \E r \in Registries : Publish(r)
    \/ LoadBegins \/ LoadEnds
    \/ RefreshOuiCache \/ FinishOuiRefresh
    \/ \E f \in Fetchers : \/ \E r \in Registries : FetchRegistry(f, r)
                           \/ RefreshCache(f) \/ AdoptRecords(f)
                           \/ StartOuiOperation(f) \/ FinishOuiOperation(f)
    \/ CheckOuiUpdates
    \/ RefreshToolStatuses \/ FinishToolStatus
    \/ ManageIperf \/ CancelIperfInstall \/ FinishIperfInstall

ServersNext == RefreshPublicServers \/ FetchPublicServers \/ FinishPublicRefresh \/ ServerCacheGone

CacheNext == OuiNext \/ ServersNext \/ PathNext

CacheSpec == CacheInit /\ [][CacheNext]_cacheVars

----------------------------------------------------------------------------
(* The vendor data in the file and in memory holds every registry or none,   *)
(* whichever fetches fail and however the refreshes of the settings page and *)
(* of the diagnostics pages and the first load overlap.                      *)
WholeOrNone(c) == c = None \/ \A r \in Registries : c[r] # 0

VendorDataIsWhole ==
    /\ WholeOrNone(ouiFile)
    /\ WholeOrNone(oui.records)

(* The status of the tools is never collected while an install or a vendor   *)
(* job changes what is collected, and paths that are not marked as typed are *)
(* the ones in use.                                                          *)
SettingsPageIsRight ==
    /\ toolPage.status => ~toolPage.install /\ ~toolPage.oui
    /\ ~pathPage.dirty => pathPage.typed = pathPage.config

(* What the settings page and the vendor lookups rest on is whole and         *)
(* current.                                                                  *)
CachesAreRight == VendorDataIsWhole /\ SettingsPageIsRight
=============================================================================
