---------------------------- MODULE Tools_proofs ----------------------------
(***************************************************************************)
(* What the tools promise, for any number of registries, jobs and requests.*)
(***************************************************************************)
EXTENDS MCTools, TLAPS

----------------------------------------------------------------------------
(* The vendor data.  The file and the memory only ever receive the result  *)
(* of a refresh in which no registry failed, or each other's content.      *)

Versions == [Registries -> Nat]
Stages == {"idle", "fetch", "adopt", "answer"}
Fetch4 == [stage : Stages, left : SUBSET Registries, got : Versions, failed : BOOLEAN]

VendorTypeOK ==
    /\ published \in [Registries -> Nat \ {0}]
    /\ ouiFile \in Versions
    /\ oui \in [loaded : BOOLEAN, records : Versions, reading : Versions, loading : BOOLEAN]
    /\ fetchers \in [Fetchers -> Fetch4]

\* A refresh without an error has got every registry it no longer waits for.
GotWhatIsNotLeft(r) ==
    /\ r.stage = "fetch" /\ ~r.failed => \A g \in Registries \ r.left : r.got[g] # 0
    /\ r.stage = "adopt" => \A g \in Registries : r.got[g] # 0

VendorInv ==
    /\ VendorTypeOK
    /\ \A f \in Fetchers : GotWhatIsNotLeft(fetchers[f])
    /\ WholeOrNone(ouiFile) /\ WholeOrNone(oui.records) /\ WholeOrNone(oui.reading)

VendorVars == <<published, ouiFile, oui, fetchers>>

LEMMA VendorUnchanged == VendorInv /\ UNCHANGED VendorVars => VendorInv'
BY DEF VendorInv, VendorVars, VendorTypeOK, GotWhatIsNotLeft, WholeOrNone

\* A step of one fetcher that leaves the service alone.
LEMMA FetcherMoves ==
    ASSUME VendorInv, NEW f \in Fetchers, NEW r \in Fetch4, GotWhatIsNotLeft(r),
           fetchers' = [fetchers EXCEPT ![f] = r], UNCHANGED <<published, ouiFile, oui>>
    PROVE  VendorInv'
<1>1. VendorTypeOK' BY DEF VendorInv, VendorTypeOK
<1>2. ASSUME NEW g \in Fetchers PROVE GotWhatIsNotLeft(fetchers'[g])
  <2>1. CASE g = f BY <2>1 DEF VendorInv, VendorTypeOK
  <2>2. CASE g # f BY <2>2 DEF VendorInv, VendorTypeOK
  <2> QED BY <2>1, <2>2
<1> QED BY <1>1, <1>2 DEF VendorInv, GotWhatIsNotLeft, WholeOrNone

LEMMA NoneIsTyped == None \in Versions /\ WholeOrNone(None)
BY DEF None, Versions, WholeOrNone

LEMMA IdleFetchIsTyped == IdleFetch \in Fetch4 /\ GotWhatIsNotLeft(IdleFetch)
BY NoneIsTyped DEF IdleFetch, Fetch4, Stages, GotWhatIsNotLeft

\* A fetch begins with everything left.
LEMMA FetchBegins ==
    [IdleFetch EXCEPT !.stage = "fetch", !.left = Registries] \in Fetch4
    /\ GotWhatIsNotLeft([IdleFetch EXCEPT !.stage = "fetch", !.left = Registries])
<1> DEFINE k == [IdleFetch EXCEPT !.stage = "fetch", !.left = Registries]
<1>1. k \in Fetch4 /\ k.left = Registries /\ k.stage = "fetch" BY IdleFetchIsTyped DEF Fetch4, Stages
<1>2. GotWhatIsNotLeft(k)
  <2> HIDE DEF k
  <2> QED BY <1>1 DEF GotWhatIsNotLeft
<1> QED BY <1>1, <1>2

LEMMA VendorStart == CacheInit => VendorInv
<1> SUFFICES ASSUME CacheInit PROVE VendorInv OBVIOUS
<1>1. ouiFile \in Versions /\ WholeOrNone(ouiFile)
  BY NoneIsTyped DEF CacheInit, Versions, WholeOrNone
<1>2. published \in [Registries -> Nat \ {0}] BY DEF CacheInit
<1>3. oui = [loaded |-> FALSE, records |-> None, reading |-> None, loading |-> FALSE] BY DEF CacheInit
<1>4. fetchers = [f \in Fetchers |-> IdleFetch] BY DEF CacheInit
<1> QED BY <1>1, <1>2, <1>3, <1>4, NoneIsTyped, IdleFetchIsTyped DEF VendorInv, VendorTypeOK

\* The version got is one the registry published, which is never zero.
LEMMA FetchRegistryKeeps ==
    ASSUME VendorInv, NEW f \in Fetchers, NEW r \in Registries, FetchRegistry(f, r)
    PROVE  VendorInv'
<1> DEFINE old == fetchers[f]
<1>1. old \in Fetch4 /\ old.stage = "fetch" /\ r \in old.left BY DEF VendorInv, VendorTypeOK, FetchRegistry
<1>2. PICK ok \in BOOLEAN :
        fetchers' = [fetchers EXCEPT ![f] = [old EXCEPT !.left = @ \ {r},
                                                        !.got[r] = IF ok THEN published[r] ELSE 0,
                                                        !.failed = @ \/ ~ok]]
  BY DEF FetchRegistry, Fetch
<1> DEFINE v == IF ok THEN published[r] ELSE 0
           k == [old EXCEPT !.left = @ \ {r}, !.got[r] = v, !.failed = @ \/ ~ok]
<1>3. v \in Nat /\ (ok => v # 0) BY DEF VendorInv, VendorTypeOK
<1>4. /\ k.stage = "fetch" /\ k.left = old.left \ {r} /\ k.got = [old.got EXCEPT ![r] = v]
      /\ k.failed = (old.failed \/ ~ok)
  BY <1>1 DEF Fetch4
<1>5. k \in Fetch4
  <2>1. [old.got EXCEPT ![r] = v] \in Versions BY <1>1, <1>3 DEF Fetch4, Versions
  <2>2. old.left \ {r} \in SUBSET Registries BY <1>1 DEF Fetch4
  <2> HIDE DEF v, old
  <2> QED BY <1>1, <2>1, <2>2 DEF Fetch4
<1>6. GotWhatIsNotLeft(k)
  <2>1. ASSUME ~k.failed, NEW g \in Registries \ k.left PROVE k.got[g] # 0
    <3>1. ok /\ ~old.failed BY <2>1, <1>4
    <3>2. CASE g = r BY <3>1, <3>2, <1>1, <1>3, <1>4 DEF Fetch4, Versions
    <3>3. CASE g # r
      <4>1. g \in Registries \ old.left BY <2>1, <3>3, <1>4
      <4>2. old.got[g] # 0 BY <4>1, <3>1, <1>1 DEF VendorInv, GotWhatIsNotLeft
      <4> QED BY <4>2, <3>3, <1>1, <1>4 DEF Fetch4, Versions
    <3> QED BY <3>2, <3>3
  <2> HIDE DEF k
  <2> QED BY <2>1, <1>4 DEF GotWhatIsNotLeft
<1>7. UNCHANGED <<published, ouiFile, oui>> BY DEF FetchRegistry, Fetch
<1>8. fetchers' = [fetchers EXCEPT ![f] = k] BY <1>2
<1> HIDE DEF k
<1> QED BY <1>5, <1>6, <1>7, <1>8, FetcherMoves

\* A stage is left for the answer, or for nothing.
LEMMA FetcherAnswers ==
    ASSUME VendorInv, NEW f \in Fetchers, NEW r, r = [fetchers[f] EXCEPT !.stage = "answer"],
           fetchers' = [fetchers EXCEPT ![f] = r], UNCHANGED <<published, ouiFile, oui>>
    PROVE  VendorInv'
<1>1. r \in Fetch4 /\ r.stage = "answer" BY DEF VendorInv, VendorTypeOK, Fetch4, Stages
<1>2. GotWhatIsNotLeft(r) BY <1>1 DEF GotWhatIsNotLeft
<1> QED BY <1>1, <1>2, FetcherMoves

\* What is saved is whole: nothing failed and nothing is left.
LEMMA RefreshCacheKeeps ==
    ASSUME VendorInv, NEW f \in Fetchers, RefreshCache(f) PROVE VendorInv'
<1> DEFINE old == fetchers[f]
<1>1. CASE Fetch(f, [old EXCEPT !.stage = "answer"]) /\ UNCHANGED ouiFile
  <2>1. UNCHANGED <<published, ouiFile, oui>> BY <1>1 DEF RefreshCache, Fetch
  <2>2. fetchers' = [fetchers EXCEPT ![f] = [old EXCEPT !.stage = "answer"]] BY <1>1 DEF Fetch
  <2> QED BY <2>1, <2>2, FetcherAnswers
<1>2. CASE /\ ~old.failed /\ ouiFile' = old.got
           /\ Fetch(f, [old EXCEPT !.stage = "adopt"])
  <2> DEFINE k == [old EXCEPT !.stage = "adopt"]
  <2>1. old \in Fetch4 /\ old.stage = "fetch" /\ old.left = {} BY DEF VendorInv, VendorTypeOK, RefreshCache
  <2>2. \A g \in Registries : old.got[g] # 0 BY <1>2, <2>1 DEF VendorInv, GotWhatIsNotLeft
  <2>3. k \in Fetch4 /\ k.stage = "adopt" /\ k.got = old.got BY <2>1 DEF Fetch4, Stages
  <2>4. GotWhatIsNotLeft(k) BY <2>2, <2>3 DEF GotWhatIsNotLeft
  <2>5. /\ fetchers' = [fetchers EXCEPT ![f] = k] /\ UNCHANGED <<published, oui>>
        /\ ouiFile' = old.got /\ old.got \in Versions
    BY <1>2, <2>1 DEF Fetch, RefreshCache, Fetch4
  <2>6. WholeOrNone(ouiFile') BY <2>2, <2>5 DEF WholeOrNone
  <2> HIDE DEF k, old
  <2>7. VendorTypeOK' BY <2>3, <2>5 DEF VendorInv, VendorTypeOK
  <2>8. ASSUME NEW g \in Fetchers PROVE GotWhatIsNotLeft(fetchers'[g])
    BY <2>3, <2>4, <2>5 DEF VendorInv, VendorTypeOK
  <2> QED BY <2>5, <2>6, <2>7, <2>8 DEF VendorInv, WholeOrNone, GotWhatIsNotLeft
<1> QED BY <1>1, <1>2 DEF RefreshCache

LEMMA AdoptRecordsKeeps ==
    ASSUME VendorInv, NEW f \in Fetchers, AdoptRecords(f) PROVE VendorInv'
<1> DEFINE old == fetchers[f]  k == [old EXCEPT !.stage = "answer"]
<1>1. old \in Fetch4 /\ old.stage = "adopt" BY DEF VendorInv, VendorTypeOK, AdoptRecords
<1>2. \A g \in Registries : old.got[g] # 0 BY <1>1 DEF VendorInv, GotWhatIsNotLeft
<1>3. k \in Fetch4 /\ k.stage = "answer" BY <1>1 DEF Fetch4, Stages
<1>4. GotWhatIsNotLeft(k) BY <1>3 DEF GotWhatIsNotLeft
<1>5. /\ fetchers' = [fetchers EXCEPT ![f] = k] /\ UNCHANGED <<published, ouiFile>>
      /\ oui' = [oui EXCEPT !.records = old.got, !.loaded = TRUE] /\ old.got \in Versions
  BY <1>1 DEF AdoptRecords, Fetch, Fetch4
<1> HIDE DEF k, old
<1>6. VendorTypeOK' BY <1>3, <1>5 DEF VendorInv, VendorTypeOK
<1>7. ASSUME NEW g \in Fetchers PROVE GotWhatIsNotLeft(fetchers'[g])
  BY <1>4, <1>5 DEF VendorInv, VendorTypeOK
<1>8. oui'.records = old.got /\ oui'.reading = oui.reading BY <1>5 DEF VendorInv, VendorTypeOK
<1>9. WholeOrNone(ouiFile') /\ WholeOrNone(oui'.records) /\ WholeOrNone(oui'.reading)
  BY <1>2, <1>5, <1>8 DEF VendorInv, WholeOrNone, old
<1> QED BY <1>6, <1>7, <1>9 DEF VendorInv, GotWhatIsNotLeft, WholeOrNone

\* A load passes on what the file held when it began.
LEMMA LoadKeeps ==
    ASSUME VendorInv, LoadBegins \/ LoadEnds PROVE VendorInv'
<1>1. UNCHANGED <<published, ouiFile, fetchers>> BY DEF LoadBegins, LoadEnds
<1>2. CASE LoadBegins
  <2>1. oui' = [oui EXCEPT !.loaded = TRUE, !.loading = TRUE, !.reading = ouiFile] BY <1>2 DEF LoadBegins
  <2>2. VendorTypeOK' BY <1>1, <2>1 DEF VendorInv, VendorTypeOK
  <2>3. oui'.records = oui.records /\ oui'.reading = ouiFile BY <2>1 DEF VendorInv, VendorTypeOK
  <2> QED BY <1>1, <2>2, <2>3 DEF VendorInv, GotWhatIsNotLeft, WholeOrNone
<1>3. CASE LoadEnds
  <2>1. oui' = [oui EXCEPT !.loading = FALSE, !.records = oui.reading, !.reading = None] BY <1>3 DEF LoadEnds
  <2>2. VendorTypeOK' BY <1>1, <2>1, NoneIsTyped DEF VendorInv, VendorTypeOK
  <2>3. oui'.records = oui.reading /\ oui'.reading = None BY <2>1 DEF VendorInv, VendorTypeOK
  <2>4. WholeOrNone(oui'.reading) BY <2>3, NoneIsTyped
  <2> QED BY <1>1, <2>2, <2>3, <2>4 DEF VendorInv, GotWhatIsNotLeft, WholeOrNone
<1> QED BY <1>2, <1>3

LEMMA PublishKeeps ==
    ASSUME VendorInv, NEW r \in Registries, Publish(r) PROVE VendorInv'
<1>1. /\ published' = [published EXCEPT ![r] = published[r] + 1] /\ published[r] \in Nat
      /\ UNCHANGED <<ouiFile, oui, fetchers>>
  BY DEF Publish, VendorInv, VendorTypeOK
<1>2. VendorTypeOK' BY <1>1 DEF VendorInv, VendorTypeOK
<1> QED BY <1>1, <1>2 DEF VendorInv, GotWhatIsNotLeft, WholeOrNone

LEMMA VendorStep == VendorInv /\ [CacheNext]_cacheVars => VendorInv'
<1> SUFFICES ASSUME VendorInv, [CacheNext]_cacheVars PROVE VendorInv' OBVIOUS
<1> USE DEF Fetch, OthersThanOui, PageStep
<1>1. ASSUME NEW r \in Registries, Publish(r) PROVE VendorInv' BY <1>1, PublishKeeps
<1>2. CASE LoadBegins \/ LoadEnds BY <1>2, LoadKeeps
<1>3. CASE RefreshOuiCache
  BY <1>3, FetchBegins, FetcherMoves DEF RefreshOuiCache, Fetchers
<1>4. CASE FinishOuiRefresh
  BY <1>4, IdleFetchIsTyped, FetcherMoves DEF FinishOuiRefresh, Fetchers
<1>5. ASSUME NEW f \in Fetchers, NEW r \in Registries, FetchRegistry(f, r) PROVE VendorInv'
  BY <1>5, FetchRegistryKeeps
<1>6. ASSUME NEW f \in Fetchers, RefreshCache(f) PROVE VendorInv' BY <1>6, RefreshCacheKeeps
<1>7. ASSUME NEW f \in Fetchers, AdoptRecords(f) PROVE VendorInv' BY <1>7, AdoptRecordsKeeps
<1>8. ASSUME NEW f \in Fetchers, StartOuiOperation(f) PROVE VendorInv'
  BY <1>8, FetchBegins, FetcherMoves DEF StartOuiOperation
<1>9. ASSUME NEW f \in Fetchers, FinishOuiOperation(f) PROVE VendorInv'
  BY <1>9, IdleFetchIsTyped, FetcherMoves DEF FinishOuiOperation
<1>10. CASE CheckOuiUpdates BY <1>10, FetcherAnswers DEF CheckOuiUpdates, Fetchers
<1>11. CASE RefreshToolStatuses \/ FinishToolStatus \/ ManageIperf \/ CancelIperfInstall \/ FinishIperfInstall
  BY <1>11, VendorUnchanged
  DEF VendorVars, RefreshToolStatuses, FinishToolStatus, ManageIperf, CancelIperfInstall, FinishIperfInstall
<1>12. CASE ServersNext
  BY <1>12, VendorUnchanged DEF VendorVars, ServersNext, RefreshPublicServers, FetchPublicServers,
     FinishPublicRefresh, ServerCacheGone, OthersThanServers
<1>13. CASE PathNext
  BY <1>13, VendorUnchanged DEF VendorVars, PathNext, TypePath, ReloadView, SavePathSettings,
     ReloadConfigFiles, ResetAllSettings, OthersThanPaths
<1>14. CASE UNCHANGED cacheVars BY <1>14, VendorUnchanged DEF VendorVars, cacheVars
<1> QED
  BY <1>1, <1>2, <1>3, <1>4, <1>5, <1>6, <1>7, <1>8, <1>9, <1>10, <1>11, <1>12, <1>13, <1>14
  DEF CacheNext, OuiNext

\* The vendor data in the file and in memory is complete or absent, however the refreshes,
\* their failures and the first load overlap (oui_service.py, refresh_cache, ensure_loaded).
THEOREM VendorDataAlwaysWhole == CacheSpec => []VendorDataIsWhole
<1>1. VendorInv => VendorDataIsWhole BY DEF VendorInv, VendorDataIsWhole
<1> QED BY <1>1, VendorStart, VendorStep, PTL DEF CacheSpec

----------------------------------------------------------------------------
(* The settings page.  What keeps the status away from an install is no     *)
(* flag the status looks at alone: while it is collected nothing runs and   *)
(* the install's button is off, and it stays off during an install.         *)

ToolPageInv ==
    /\ toolPage \in [status : BOOLEAN, oui : BOOLEAN, install : BOOLEAN, stopping : BOOLEAN,
                     manage : BOOLEAN, opened : BOOLEAN]
    /\ toolPage.status => ~toolPage.install /\ ~toolPage.oui /\ ~toolPage.manage
    /\ toolPage.install => ~toolPage.manage

LEMMA ToolPageStart == CacheInit => ToolPageInv
BY DEF CacheInit, ToolPageInv

LEMMA ToolPageStep == ToolPageInv /\ [CacheNext]_cacheVars => ToolPageInv'
<1> SUFFICES ASSUME ToolPageInv, [CacheNext]_cacheVars PROVE ToolPageInv' OBVIOUS
<1> USE DEF ToolPageInv, PageStep
<1>1. CASE RefreshToolStatuses BY <1>1 DEF RefreshToolStatuses
<1>2. CASE FinishToolStatus BY <1>2 DEF FinishToolStatus
<1>3. ASSUME NEW f \in Fetchers, StartOuiOperation(f) PROVE ToolPageInv' BY <1>3 DEF StartOuiOperation
<1>4. ASSUME NEW f \in Fetchers, FinishOuiOperation(f) PROVE ToolPageInv' BY <1>4 DEF FinishOuiOperation
<1>5. CASE ManageIperf BY <1>5 DEF ManageIperf
<1>6. CASE CancelIperfInstall BY <1>6 DEF CancelIperfInstall
<1>7. CASE FinishIperfInstall BY <1>7 DEF FinishIperfInstall
<1>8. CASE UNCHANGED toolPage BY <1>8
<1>9. CASE (\E r \in Registries : Publish(r)) \/ LoadBegins \/ LoadEnds \/ RefreshOuiCache
           \/ FinishOuiRefresh \/ CheckOuiUpdates
  BY <1>8, <1>9 DEF Publish, LoadBegins, LoadEnds, RefreshOuiCache, FinishOuiRefresh, CheckOuiUpdates, Fetch
<1>10. ASSUME NEW f \in Fetchers,
              (\E r \in Registries : FetchRegistry(f, r)) \/ RefreshCache(f) \/ AdoptRecords(f)
       PROVE  ToolPageInv'
  BY <1>8, <1>10 DEF FetchRegistry, RefreshCache, AdoptRecords, Fetch
<1>11. CASE ServersNext
  BY <1>8, <1>11 DEF ServersNext, RefreshPublicServers, FetchPublicServers, FinishPublicRefresh,
     ServerCacheGone, OthersThanServers
<1>12. CASE PathNext
  BY <1>8, <1>12 DEF PathNext, TypePath, ReloadView, SavePathSettings, ReloadConfigFiles, ResetAllSettings,
     OthersThanPaths
<1>13. CASE UNCHANGED cacheVars BY <1>8, <1>13 DEF cacheVars
<1> QED
  BY <1>1, <1>2, <1>3, <1>4, <1>5, <1>6, <1>7, <1>9, <1>10, <1>11, <1>12, <1>13 DEF CacheNext, OuiNext

\* What the page takes for saved is what is in use, and unmarked fields show it.
PathPageInv ==
    /\ pathPage \in [typed : {0, 1}, saved : {0, 1}, dirty : BOOLEAN, config : {0, 1}]
    /\ pathPage.saved = pathPage.config
    /\ ~pathPage.dirty => pathPage.typed = pathPage.saved

LEMMA PathPageStart == CacheInit => PathPageInv
BY DEF CacheInit, PathPageInv

LEMMA PathPageStep == PathPageInv /\ [CacheNext]_cacheVars => PathPageInv'
<1> SUFFICES ASSUME PathPageInv, [CacheNext]_cacheVars PROVE PathPageInv' OBVIOUS
<1>1. CASE UNCHANGED pathPage BY <1>1 DEF PathPageInv
<1>2. ASSUME NEW v \in {0, 1}, TypePath(v) PROVE PathPageInv' BY <1>2 DEF PathPageInv, TypePath
<1>3. CASE ReloadView BY <1>3 DEF PathPageInv, ReloadView
<1>4. CASE SavePathSettings BY <1>4 DEF PathPageInv, SavePathSettings
<1>5. CASE ReloadConfigFiles BY <1>5 DEF PathPageInv, ReloadConfigFiles
<1>6. CASE ResetAllSettings
  <2>1. CASE pathPage' = [typed |-> 0, saved |-> 0, dirty |-> FALSE, config |-> 0] BY <2>1 DEF PathPageInv
  <2> QED BY <1>1, <1>6, <2>1 DEF ResetAllSettings
<1>7. CASE OuiNext
  <2>1. UNCHANGED pathPage
    BY <1>7 DEF OuiNext, Publish, LoadBegins, LoadEnds, RefreshOuiCache, FinishOuiRefresh, FetchRegistry,
       RefreshCache, AdoptRecords, StartOuiOperation, FinishOuiOperation, CheckOuiUpdates,
       RefreshToolStatuses, FinishToolStatus, ManageIperf, CancelIperfInstall, FinishIperfInstall,
       Fetch, PageStep, OthersThanOui
  <2> QED BY <2>1, <1>1
<1>8. CASE ServersNext
  BY <1>1, <1>8 DEF ServersNext, RefreshPublicServers, FetchPublicServers, FinishPublicRefresh,
     ServerCacheGone, OthersThanServers
<1>9. CASE UNCHANGED cacheVars BY <1>1, <1>9 DEF cacheVars
<1> QED BY <1>2, <1>3, <1>4, <1>5, <1>6, <1>7, <1>8, <1>9 DEF CacheNext, PathNext

\* What the settings page and the vendor lookups rest on is whole and current
\* (oui_service.py; settings_tab.py, the tools' buttons and the path fields).
THEOREM CachesAlwaysRight == CacheSpec => []CachesAreRight
<1>1. ToolPageInv /\ PathPageInv => SettingsPageIsRight
  BY DEF ToolPageInv, PathPageInv, SettingsPageIsRight
<1>2. VendorDataIsWhole /\ SettingsPageIsRight => CachesAreRight BY DEF CachesAreRight
<1>3. CacheSpec => []ToolPageInv BY ToolPageStart, ToolPageStep, PTL DEF CacheSpec
<1>4. CacheSpec => []PathPageInv BY PathPageStart, PathPageStep, PTL DEF CacheSpec
<1> QED BY <1>1, <1>2, <1>3, <1>4, VendorDataAlwaysWhole, PTL

----------------------------------------------------------------------------
(* The command page.  Requests are numbered, each open one has its number  *)
(* to itself, and none is newer than the page.                             *)

CommandInv ==
    /\ command \in [generation : Nat, running : BOOLEAN, output : Nat,
                    answers : SUBSET [generation : Nat, ends : {"open", "text", "raised"}]]
    /\ \A r \in command.answers : r.generation <= command.generation
    /\ \A q, r \in command.answers : q.generation = r.generation => q = r
    /\ OutputIsOfTheLastRequest

LEMMA CommandStart == ToolInit => CommandInv
BY DEF ToolInit, CommandInv, OutputIsOfTheLastRequest

LEMMA BeginKeeps == CommandInv /\ BeginToolsRequest => CommandInv'
<1> SUFFICES ASSUME CommandInv, BeginToolsRequest PROVE CommandInv' OBVIOUS
<1> DEFINE n == command.generation + 1  new == [generation |-> n, ends |-> "open"]
<1>1. /\ command.generation \in Nat /\ n \in Nat /\ n > command.generation
      /\ new \in [generation : Nat, ends : {"open", "text", "raised"}]
  BY DEF CommandInv
<1>2. /\ command'.generation = n /\ command'.running = TRUE /\ command'.output = 0
      /\ command'.answers = command.answers \cup {new}
      /\ command' \in [generation : Nat, running : BOOLEAN, output : Nat,
                       answers : SUBSET [generation : Nat, ends : {"open", "text", "raised"}]]
  BY <1>1 DEF CommandInv, BeginToolsRequest
<1>3. \A r \in command.answers : r.generation \in Nat /\ r.generation < n
  BY <1>1 DEF CommandInv
<1>4. new.generation = n OBVIOUS
<1> HIDE DEF n, new
<1>5. \A r \in command'.answers : r.generation <= n BY <1>1, <1>2, <1>3, <1>4
<1>6. \A q, r \in command'.answers : q.generation = r.generation => q = r
  BY <1>1, <1>2, <1>3, <1>4 DEF CommandInv
<1>7. OutputIsOfTheLastRequest' BY <1>2, <1>4 DEF OutputIsOfTheLastRequest
<1> QED BY <1>2, <1>5, <1>6, <1>7 DEF CommandInv

LEMMA AnsweredKeeps ==
    ASSUME CommandInv, NEW r \in command.answers, NEW how \in {"text", "raised"}, Answered(r, how)
    PROVE  CommandInv'
<1> DEFINE q == [r EXCEPT !.ends = how]
<1>1. r \in [generation : Nat, ends : {"open", "text", "raised"}] BY DEF CommandInv
<1>2. q \in [generation : Nat, ends : {"open", "text", "raised"}] /\ q.generation = r.generation BY <1>1
<1> HIDE DEF q
<1>3. /\ command'.generation = command.generation /\ command'.running = command.running
      /\ command'.output = command.output
      /\ command'.answers = (command.answers \ {r}) \cup {q}
      /\ command' \in [generation : Nat, running : BOOLEAN, output : Nat,
                       answers : SUBSET [generation : Nat, ends : {"open", "text", "raised"}]]
  BY <1>2 DEF CommandInv, Answered, q
<1>4. \A x \in command'.answers : x.generation <= command.generation BY <1>2, <1>3 DEF CommandInv
<1>5. \A x, y \in command'.answers : x.generation = y.generation => x = y
  BY <1>2, <1>3 DEF CommandInv
<1>6. OutputIsOfTheLastRequest' BY <1>2, <1>3 DEF CommandInv, OutputIsOfTheLastRequest
<1> QED BY <1>3, <1>4, <1>5, <1>6 DEF CommandInv

\* The answer of the last request is the only one with its number; any other is dropped.
LEMMA AnswerShownKeeps ==
    ASSUME CommandInv, NEW r \in command.answers,
           command' = IF r.generation # command.generation
                      THEN [command EXCEPT !.answers = @ \ {r}]
                      ELSE [command EXCEPT !.answers = @ \ {r}, !.running = FALSE, !.output = r.generation]
    PROVE  CommandInv'
<1>1. r.generation \in Nat BY DEF CommandInv
<1>2. /\ command'.generation = command.generation /\ command'.answers = command.answers \ {r}
      /\ command' \in [generation : Nat, running : BOOLEAN, output : Nat,
                       answers : SUBSET [generation : Nat, ends : {"open", "text", "raised"}]]
  BY <1>1 DEF CommandInv
<1>3. OutputIsOfTheLastRequest'
  <2>1. CASE r.generation # command.generation
    <3>1. command'.running = command.running /\ command'.output = command.output BY <2>1 DEF CommandInv
    <3> QED BY <2>1, <3>1, <1>2 DEF CommandInv, OutputIsOfTheLastRequest
  <2>2. CASE r.generation = command.generation
    <3>1. command'.running = FALSE /\ command'.output = command.generation BY <2>2 DEF CommandInv
    <3> QED BY <2>2, <3>1, <1>2 DEF CommandInv, OutputIsOfTheLastRequest
  <2> QED BY <2>1, <2>2
<1> QED BY <1>2, <1>3 DEF CommandInv

LEMMA CommandStep == CommandInv /\ [Next]_allVars => CommandInv'
<1> SUFFICES ASSUME CommandInv, [Next]_allVars PROVE CommandInv' OBVIOUS
<1>1. CASE UNCHANGED command BY <1>1 DEF CommandInv, OutputIsOfTheLastRequest
<1>2. CASE CheckPublicIp \/ LoadInterfaceSnapshot \/ RunToolsCommand
  BY <1>2, BeginKeeps DEF CheckPublicIp, LoadInterfaceSnapshot, RunToolsCommand
<1>3. ASSUME NEW r \in command.answers,
             PublicIpAnswers(r) \/ RunOnce(r) \/ FinishToolsRequest(r) \/ FailToolsRequest(r)
      PROVE  CommandInv'
  BY <1>3, AnsweredKeeps, AnswerShownKeeps DEF PublicIpAnswers, RunOnce, FinishToolsRequest, FailToolsRequest
<1>4. CASE CommandNext BY <1>2, <1>3, <1>4 DEF CommandNext
<1>5. CASE LookupNext
  BY <1>1, <1>5 DEF LookupNext, RunDnsLookup, DnsWorker, FinishDnsLookup, HandleDnsError, OthersThanLookup
<1>6. CASE StreamNext
  BY <1>1, <1>6 DEF StreamNext, StartTrace, RunIperfTest, StartStream, CancelStream, RunStreamingCommand,
     StreamWorker, StreamWindow, ShowLine, FinishTrace, FinishIperf, OthersThanStream
<1>7. CASE ArpNext
  BY <1>1, <1>7 DEF ArpNext, EditSubnet, StartArpScan, CancelArpScan, ArpWorker, PingOnce, ScanCancelled,
     ReadArpEntries, ArpWindow, FinishArpScan, FinishCancelledScan, OthersThanArp
<1>8. CASE UNCHANGED toolVars BY <1>1, <1>8 DEF toolVars
<1>9. CASE UNCHANGED allVars BY <1>8, <1>9 DEF allVars
<1> QED BY <1>4, <1>5, <1>6, <1>7, <1>8, <1>9 DEF Next, Reach, Tools, Caches

----------------------------------------------------------------------------
(* The ARP page.  The history holds, for each text, the last scan that     *)
(* found something: among all that ended, and while the last of them waits *)
(* to be shown, among those before it.                                     *)

Addresses == [Hosts -> Macs \cup {NoMac}]
Scans == [text : SubnetTexts, macs : Addresses]

ArpTypeOK ==
    /\ arp \in [running : BOOLEAN, cancelled : BOOLEAN, edit : SubnetTexts, current : SubnetTexts,
               worker : {"none", "ping", "cancelled", "answer"}, hosts : [Hosts -> {"queued", "silent", "reached"}],
               macs : Addresses, scans : Nat]
    /\ history \in [SubnetTexts -> Addresses]
    /\ scanLog \in Seq(Scans)

\* What the history should say of text s after n scans.
HistoryIs(s, n, macs) ==
    \/ Found(s, n) = {} /\ macs = NoScan
    \/ \E m \in Found(s, n) : (\A k \in Found(s, n) : k <= m) /\ macs = scanLog[m].macs

ArpInv ==
    /\ ArpTypeOK
    /\ arp.running <=> arp.worker # "none"
    /\ arp.worker # "answer" => \A s \in SubnetTexts : HistoryIs(s, Len(scanLog), history[s])
    /\ arp.worker = "answer" =>
         /\ scanLog # <<>>
         /\ scanLog[Len(scanLog)].text = arp.current /\ scanLog[Len(scanLog)].macs = arp.macs
         /\ \A s \in SubnetTexts : HistoryIs(s, Len(scanLog) - 1, history[s])
    /\ ConflictIsOfTheSameText

LEMMA NoScanIsTyped == NoScan \in Addresses
BY DEF NoScan, Addresses

LEMMA ArpStart == ToolInit => ArpInv
<1> SUFFICES ASSUME ToolInit PROVE ArpInv OBVIOUS
<1>1. IdleArp.edit \in SubnetTexts /\ IdleArp.current \in SubnetTexts BY ToolAssumption DEF IdleArp
<1>2. arp = IdleArp /\ history = [s \in SubnetTexts |-> NoScan] /\ scanLog = <<>> /\ arpTable = EmptyTable
  BY DEF ToolInit
<1>3. ArpTypeOK BY <1>1, <1>2, NoScanIsTyped DEF ArpTypeOK, IdleArp
<1>4. \A s \in SubnetTexts : Found(s, Len(scanLog)) = {} BY <1>2 DEF Found
<1>5. \A s \in SubnetTexts : HistoryIs(s, Len(scanLog), history[s]) BY <1>2, <1>4 DEF HistoryIs
<1> QED BY <1>2, <1>3, <1>5 DEF ArpInv, IdleArp, ConflictIsOfTheSameText

\* A step that changes nothing of the page but the box, the pings or the cancel event.
LEMMA ArpMoves ==
    ASSUME ArpInv, ArpTypeOK', UNCHANGED <<arpTable, history, scanLog>>,
           arp'.running = arp.running, arp'.worker = arp.worker \/ {arp.worker, arp'.worker} \subseteq {"ping", "cancelled"},
           arp'.current = arp.current, arp'.macs = arp.macs
    PROVE  ArpInv'
BY DEF ArpInv, HistoryIs, Found, ConflictIsOfTheSameText

LEMMA StartArpScanKeeps == ArpInv /\ StartArpScan => ArpInv'
<1> SUFFICES ASSUME ArpInv, StartArpScan PROVE ArpInv' OBVIOUS
<1>1. /\ arp'.running = TRUE /\ arp'.worker = "ping" /\ UNCHANGED <<history, scanLog>>
      /\ arp.worker = "none"
  BY DEF ArpInv, ArpTypeOK, StartArpScan
<1>2. ArpTypeOK'
  <2> DEFINE asked == [h \in Hosts |-> "queued"]
  <2>1. asked \in [Hosts -> {"queued", "silent", "reached"}] OBVIOUS
  <2>2. arp.scans \in Nat /\ arp.scans + 1 \in Nat /\ arp.edit \in SubnetTexts BY DEF ArpInv, ArpTypeOK
  <2>3. arp' = [arp EXCEPT !.running = TRUE, !.cancelled = FALSE, !.current = arp.edit, !.worker = "ping",
                           !.hosts = asked, !.macs = NoScan, !.scans = arp.scans + 1]
    BY DEF StartArpScan
  <2> HIDE DEF asked
  <2> QED BY <1>1, <2>1, <2>2, <2>3, NoScanIsTyped DEF ArpInv, ArpTypeOK
<1> QED BY <1>1, <1>2 DEF ArpInv, HistoryIs, Found, ConflictIsOfTheSameText

\* The scan joins the log; what was found before it stays.
LEMMA ReadArpEntriesKeeps == ArpInv /\ ReadArpEntries /\ arp.running => ArpInv'
<1> SUFFICES ASSUME ArpInv, ReadArpEntries, arp.running PROVE ArpInv' OBVIOUS
<1> DEFINE n == Len(scanLog)
<1>1. PICK macs \in Addresses :
        /\ arp' = [arp EXCEPT !.worker = "answer", !.macs = macs]
        /\ scanLog' = Append(scanLog, [text |-> arp.current, macs |-> macs])
  BY DEF ReadArpEntries, Addresses
<1>2. UNCHANGED <<arpTable, history>> /\ arp.worker = "ping" BY DEF ReadArpEntries
<1>3. /\ arp'.worker = "answer" /\ arp'.running = arp.running /\ arp'.current = arp.current /\ arp'.macs = macs
      /\ arp.current \in SubnetTexts
  BY <1>1 DEF ArpInv, ArpTypeOK
<1>4. /\ n \in Nat /\ scanLog' # <<>> /\ Len(scanLog') = n + 1
      /\ scanLog'[n + 1] = [text |-> arp.current, macs |-> macs]
      /\ \A m \in 1 .. n : scanLog'[m] = scanLog[m]
  BY <1>1 DEF ArpInv, ArpTypeOK
<1>5. ArpTypeOK'
  <2>1. [text |-> arp.current, macs |-> macs] \in Scans BY <1>3 DEF Scans
  <2>2. scanLog' \in Seq(Scans) BY <1>1, <2>1 DEF ArpInv, ArpTypeOK
  <2>3. arp' \in [running : BOOLEAN, cancelled : BOOLEAN, edit : SubnetTexts, current : SubnetTexts,
                 worker : {"none", "ping", "cancelled", "answer"},
                 hosts : [Hosts -> {"queued", "silent", "reached"}], macs : Addresses, scans : Nat]
    BY <1>1 DEF ArpInv, ArpTypeOK
  <2> QED BY <1>2, <2>2, <2>3 DEF ArpInv, ArpTypeOK
<1>6. ASSUME NEW s \in SubnetTexts, NEW k \in Nat, k = n PROVE HistoryIs(s, k, history[s])'
  <2>1. HistoryIs(s, k, history[s]) BY <1>2, <1>6 DEF ArpInv
  <2>2. \A m \in 1 .. k : scanLog'[m] = scanLog[m] BY <1>4, <1>6
  <2>3. Found(s, k)' = Found(s, k) BY <2>2 DEF Found
  <2>4. Found(s, k) \subseteq 1 .. k BY DEF Found
  <2> QED BY <1>2, <2>1, <2>2, <2>3, <2>4 DEF HistoryIs
<1>7. Len(scanLog') - 1 = n BY <1>4
<1> HIDE DEF n
<1>8. \A s \in SubnetTexts : HistoryIs(s, Len(scanLog) - 1, history[s])' BY <1>4, <1>6, <1>7
<1>9. ConflictIsOfTheSameText' BY <1>3 DEF ConflictIsOfTheSameText
<1>10. arp'.running BY <1>3
<1>11. scanLog'[Len(scanLog')].text = arp'.current /\ scanLog'[Len(scanLog')].macs = arp'.macs
  BY <1>3, <1>4
<1> QED BY <1>3, <1>4, <1>5, <1>8, <1>9, <1>10, <1>11 DEF ArpInv

\* The scan is shown against what the history says, and then becomes its last word.
LEMMA FinishArpScanKeeps == ArpInv /\ FinishArpScan => ArpInv'
<1> SUFFICES ASSUME ArpInv, FinishArpScan PROVE ArpInv' OBVIOUS
<1> DEFINE n == Len(scanLog)  sub == arp.current  before == Found(sub, n - 1)
<1>1. /\ scanLog # <<>> /\ n \in Nat /\ n >= 1 /\ scanLog[n].text = sub /\ scanLog[n].macs = arp.macs
      /\ sub \in SubnetTexts /\ arp.macs \in Addresses
      /\ \A s \in SubnetTexts : HistoryIs(s, n - 1, history[s])
  BY DEF ArpInv, ArpTypeOK, FinishArpScan
<1>2. /\ arp'.running = FALSE /\ arp'.worker = "none" /\ UNCHANGED scanLog
      /\ arpTable' = Analyzed(arp.macs, history[sub], arp.hosts)
      /\ history' = IF arp.macs = NoScan THEN history ELSE [history EXCEPT ![sub] = arp.macs]
  BY DEF FinishArpScan, FinishScanOf, WorkerGone, ArpInv, ArpTypeOK
<1>3. ArpTypeOK'
  <2>1. arp' = WorkerGone BY DEF FinishArpScan
  <2>2. arp' \in [running : BOOLEAN, cancelled : BOOLEAN, edit : SubnetTexts, current : SubnetTexts,
                 worker : {"none", "ping", "cancelled", "answer"},
                 hosts : [Hosts -> {"queued", "silent", "reached"}], macs : Addresses, scans : Nat]
    BY <2>1, NoScanIsTyped DEF WorkerGone, ArpInv, ArpTypeOK
  <2>3. history' \in [SubnetTexts -> Addresses] BY <1>1, <1>2 DEF ArpInv, ArpTypeOK
  <2> QED BY <1>2, <2>2, <2>3 DEF ArpInv, ArpTypeOK
<1>4. ASSUME NEW s \in SubnetTexts PROVE HistoryIs(s, n, history[s])'
  <2>1. Found(s, n) = Found(s, n - 1) \cup (IF s = sub /\ arp.macs # NoScan THEN {n} ELSE {})
    BY <1>1 DEF Found
  <2>2. HistoryIs(s, n - 1, history[s]) BY <1>1
  <2>3. Found(s, n)' = Found(s, n) BY <1>2 DEF Found
  <2>4. CASE s = sub /\ arp.macs # NoScan
    <3>1. history'[s] = arp.macs BY <2>4, <1>2 DEF ArpInv, ArpTypeOK
    <3>2. \A k \in Found(s, n) : k <= n BY <1>1 DEF Found
    <3> QED BY <1>1, <1>2, <2>1, <2>3, <2>4, <3>1, <3>2 DEF HistoryIs
  <2>5. CASE ~(s = sub /\ arp.macs # NoScan)
    <3>1. history'[s] = history[s] BY <2>5, <1>2 DEF ArpInv, ArpTypeOK
    <3>2. Found(s, n) = Found(s, n - 1) BY <2>1, <2>5
    <3> QED BY <1>2, <2>2, <2>3, <3>1, <3>2 DEF HistoryIs
  <2> QED BY <2>4, <2>5
<1>5. ConflictIsOfTheSameText'
  <2>1. ASSUME NEW h \in Hosts
        PROVE  arpTable'[h].conflict <=>
                 \E m \in before :
                     /\ \A k \in before : k <= m
                     /\ NoMac \notin {arp.macs[h], scanLog[m].macs[h]}
                     /\ arp.macs[h] # scanLog[m].macs[h]
    <3>1. arpTable'[h].conflict = (NoMac \notin {arp.macs[h], history[sub][h]} /\ arp.macs[h] # history[sub][h])
      BY <1>2, <2>1 DEF Analyzed
    <3>2. HistoryIs(sub, n - 1, history[sub]) BY <1>1
    <3>3. CASE before = {} /\ history[sub] = NoScan BY <3>1, <3>3, <2>1 DEF NoScan
    <3>4. ASSUME NEW m \in before, \A k \in before : k <= m, history[sub] = scanLog[m].macs
          PROVE  arpTable'[h].conflict <=>
                   \E p \in before :
                     /\ \A k \in before : k <= p
                     /\ NoMac \notin {arp.macs[h], scanLog[p].macs[h]}
                     /\ arp.macs[h] # scanLog[p].macs[h]
      <4>1. before \subseteq Nat BY DEF Found
      <4> HIDE DEF before
      <4>2. \A p \in before : (\A k \in before : k <= p) => p = m BY <3>4, <4>1
      <4> QED BY <3>1, <3>4, <4>2
    <3> QED BY <3>2, <3>3, <3>4 DEF HistoryIs
  <2>2. \A h \in Hosts :
          arpTable'[h].conflict <=>
            \E m \in Found(scanLog[n].text, n - 1) :
                /\ \A k \in Found(scanLog[n].text, n - 1) : k <= m
                /\ NoMac \notin {scanLog[n].macs[h], scanLog[m].macs[h]}
                /\ scanLog[n].macs[h] # scanLog[m].macs[h]
    <3> HIDE DEF n
    <3> QED BY <1>1, <2>1
  <2>3. scanLog' = scanLog BY <1>2
  <2> QED BY SMTT(30), <2>2, <2>3 DEF ConflictIsOfTheSameText, Found
<1> QED BY <1>2, <1>3, <1>4, <1>5 DEF ArpInv

LEMMA FinishCancelledScanKeeps == ArpInv /\ FinishCancelledScan => ArpInv'
<1> SUFFICES ASSUME ArpInv, FinishCancelledScan PROVE ArpInv' OBVIOUS
<1>1. /\ arp'.running = FALSE /\ arp'.worker = "none" /\ UNCHANGED <<history, scanLog>>
      /\ arpTable' = EmptyTable /\ arp.worker = "cancelled"
  BY DEF FinishCancelledScan, WorkerGone, ArpInv, ArpTypeOK
<1>2. ArpTypeOK'
  <2>1. arp' = WorkerGone BY DEF FinishCancelledScan
  <2>2. arp' \in [running : BOOLEAN, cancelled : BOOLEAN, edit : SubnetTexts, current : SubnetTexts,
                 worker : {"none", "ping", "cancelled", "answer"},
                 hosts : [Hosts -> {"queued", "silent", "reached"}], macs : Addresses, scans : Nat]
    BY <2>1, NoScanIsTyped DEF WorkerGone, ArpInv, ArpTypeOK
  <2> QED BY <1>1, <2>2 DEF ArpInv, ArpTypeOK
<1>3. ConflictIsOfTheSameText' BY <1>1 DEF ConflictIsOfTheSameText, EmptyTable
<1> QED BY <1>1, <1>2, <1>3 DEF ArpInv, HistoryIs, Found

LEMMA ArpStep == ArpInv /\ [Next]_allVars => ArpInv'
<1> SUFFICES ASSUME ArpInv, [Next]_allVars PROVE ArpInv' OBVIOUS
<1>1. CASE UNCHANGED <<arp, arpTable, history, scanLog>>
  BY <1>1 DEF ArpInv, ArpTypeOK, HistoryIs, Found, ConflictIsOfTheSameText
<1>2. ASSUME NEW s \in SubnetTexts, EditSubnet(s) PROVE ArpInv'
  <2>1. ArpTypeOK' BY <1>2 DEF EditSubnet, ArpInv, ArpTypeOK
  <2>2. arp'.running = arp.running /\ arp'.worker = arp.worker /\ arp'.current = arp.current /\ arp'.macs = arp.macs
    BY <1>2 DEF EditSubnet, ArpInv, ArpTypeOK
  <2> QED BY <1>2, <2>1, <2>2, ArpMoves DEF EditSubnet
<1>3. CASE StartArpScan BY <1>3, StartArpScanKeeps
<1>4. CASE CancelArpScan
  <2>1. ArpTypeOK' BY <1>4 DEF CancelArpScan, ArpInv, ArpTypeOK
  <2>2. arp'.running = arp.running /\ arp'.worker = arp.worker /\ arp'.current = arp.current /\ arp'.macs = arp.macs
    BY <1>4 DEF CancelArpScan, ArpInv, ArpTypeOK
  <2> QED BY <1>4, <2>1, <2>2, ArpMoves DEF CancelArpScan
<1>5. ASSUME NEW h \in Hosts, PingOnce(h) PROVE ArpInv'
  <2>1. PICK out \in {"reached", "silent"} : arp' = [arp EXCEPT !.hosts[h] = out] BY <1>5 DEF PingOnce
  <2>2. [arp.hosts EXCEPT ![h] = out] \in [Hosts -> {"queued", "silent", "reached"}] BY DEF ArpInv, ArpTypeOK
  <2>3. ArpTypeOK' BY <1>5, <2>1, <2>2 DEF PingOnce, ArpInv, ArpTypeOK
  <2>4. arp'.running = arp.running /\ arp'.worker = arp.worker /\ arp'.current = arp.current /\ arp'.macs = arp.macs
    BY <2>1 DEF ArpInv, ArpTypeOK
  <2> QED BY <1>5, <2>3, <2>4, ArpMoves DEF PingOnce
<1>6. CASE ScanCancelled
  <2>1. ArpTypeOK' BY <1>6 DEF ScanCancelled, ArpInv, ArpTypeOK
  <2>2. /\ arp'.running = arp.running /\ {arp.worker, arp'.worker} \subseteq {"ping", "cancelled"}
        /\ arp'.current = arp.current /\ arp'.macs = arp.macs
    BY <1>6 DEF ScanCancelled, ArpInv, ArpTypeOK
  <2> QED BY <1>6, <2>1, <2>2, ArpMoves DEF ScanCancelled
<1>7. CASE ReadArpEntries
  <2>1. arp.running BY <1>7 DEF ReadArpEntries, ArpInv
  <2> QED BY <1>7, <2>1, ReadArpEntriesKeeps
<1>8. CASE FinishArpScan \/ FinishCancelledScan BY <1>8, FinishArpScanKeeps, FinishCancelledScanKeeps
<1>9. CASE ArpNext BY <1>2, <1>3, <1>4, <1>5, <1>6, <1>7, <1>8, <1>9 DEF ArpNext, ArpWorker, ArpWindow
<1>10. CASE CommandNext
  BY <1>1, <1>10 DEF CommandNext, CheckPublicIp, LoadInterfaceSnapshot, RunToolsCommand, BeginToolsRequest,
     PublicIpAnswers, RunOnce, Answered, FinishToolsRequest, FailToolsRequest, OthersThanCommand
<1>11. CASE LookupNext
  BY <1>1, <1>11 DEF LookupNext, RunDnsLookup, DnsWorker, FinishDnsLookup, HandleDnsError, OthersThanLookup
<1>12. CASE StreamNext
  BY <1>1, <1>12 DEF StreamNext, StartTrace, RunIperfTest, StartStream, CancelStream, RunStreamingCommand,
     StreamWorker, StreamWindow, ShowLine, FinishTrace, FinishIperf, OthersThanStream
<1>13. CASE UNCHANGED toolVars BY <1>1, <1>13 DEF toolVars
<1>14. CASE UNCHANGED allVars BY <1>13, <1>14 DEF allVars
<1> QED BY <1>9, <1>10, <1>11, <1>12, <1>13, <1>14 DEF Next, Reach, Tools, Caches

----------------------------------------------------------------------------
(* The checks of reach.  The signals of a job are applied in order and end  *)
(* with its answer; there are none when no check runs.  A result is of a    *)
(* probe that has ended, and the table is filled from results only after    *)
(* the last probe.                                                          *)

Statuses == {"none", "normal", "timed out", "no answer", "partial", "failed", "stopped"}
Rows == [run : Nat, sent : Nat, got : Nat, status : Statuses]
Probes ==
    [key : ReachKeys, stage : {"spawn", "look", "read", "sum", "done", "raised"}, sent : Nat, got : Nat,
     alive : BOOLEAN, lines : {0, 1, 2}, sumSent : Nat, sumGot : Nat]
Signals == [kind : {"progress", "result", "error", "finished"}, key : ReachKeys \cup Nat, row : Rows]
Checks ==
    [run : Nat, means : {"ping", "tcping", "socket"}, continuous : BOOLEAN, running : BOOLEAN,
     cancelled : BOOLEAN, stopButton : BOOLEAN, job : {"none", "working", "done"}, closing : BOOLEAN]

ReachTypeOK ==
    /\ check \in Checks
    /\ probes \in [DOMAIN probes -> Probes]
    /\ ended \in [ReachKeys -> Rows]
    /\ reachMail \in Seq(Signals)
    /\ reachRows \in [ReachKeys -> Rows]

\* Progress, then the answer, then the end.
MailInOrder ==
    /\ ~check.running => reachMail = <<>> /\ check.job # "working"
    /\ check.job = "none" => ~check.running /\ DOMAIN probes = {}
    /\ check.job # "none" => check.run > 0
    /\ check.job = "working" => \A n \in 1 .. Len(reachMail) : reachMail[n].kind = "progress"
    /\ check.running /\ check.job = "done" =>
         /\ reachMail # <<>>
         /\ \A n \in 1 .. Len(reachMail) :
              /\ n = Len(reachMail) => reachMail[n].kind = "finished"
              /\ n = Len(reachMail) - 1 => reachMail[n].kind \in {"result", "error"}
              /\ n < Len(reachMail) - 1 => reachMail[n].kind = "progress"

\* Signals, rows and results are of the run the page is at.
OfThisRun ==
    /\ \A k \in ReachKeys : reachRows[k].run \in {0, check.run}
    /\ \A n \in 1 .. Len(reachMail) :
         reachMail[n].kind = "progress" => reachMail[n].key \in ReachKeys /\ reachMail[n].row.run = check.run
    /\ \A k \in ReachKeys : ended[k] # NoRow => ended[k].run = check.run

\* What a row may say that is filled from a result.
Verdict(row) ==
    /\ row.status # "timed out"
    /\ row.status = "normal" => row.sent > 0 /\ row.got = row.sent
    /\ row.status \in {"failed", "no answer"} => row.got = 0

\* What a thread counted, and what it read of the summary.
ProbeRight(p) ==
    /\ p.got <= p.sent /\ p.sumGot <= p.sumSent
    /\ p.lines = 0 => p.sumSent = 0
    /\ p.lines > 0 => p.sent <= p.sumSent
    /\ p.lines = 1 => p.sumGot = 0
    /\ p.lines = 2 => p.got <= p.sumGot

ProbesRight ==
    \A i \in DOMAIN probes :
        /\ ProbeRight(probes[i])
        /\ probes[i].stage = "done" => ended[probes[i].key] # NoRow
        /\ check.job = "done" => probes[i].stage \in {"done", "raised"}

ResultRight(k) ==
    ended[k] # NoRow =>
        /\ \E i \in DOMAIN probes :
             probes[i].key = k /\ probes[i].stage = "done" /\ Tells(ended[k], probes[i])
        /\ Verdict(ended[k])
        /\ ended[k].status = "stopped" => check.cancelled

AnswerRight ==
    \A n \in 1 .. Len(reachMail) :
        reachMail[n].kind = "result" => \A i \in DOMAIN probes : probes[i].stage = "done"

ResultsRight == ProbesRight /\ (\A k \in ReachKeys : ResultRight(k)) /\ AnswerRight

\* A table that is said to be complete is.
TableComplete ==
    reachLabel \in {"done", "stopped"} =>
        /\ check.job = "done"
        /\ \A n \in 1 .. Len(reachMail) : reachMail[n].kind = "finished"
        /\ \A i \in DOMAIN probes :
             LET row == reachRows[probes[i].key] IN
             /\ \E j \in DOMAIN probes : probes[j].key = probes[i].key /\ Tells(row, probes[j])
             /\ Verdict(row)
             /\ row.status = "stopped" => reachLabel = "stopped"

ReachInv == ReachTypeOK /\ MailInOrder /\ OfThisRun /\ ResultsRight /\ TableComplete

LEMMA NoRowIsTyped == NoRow \in Rows /\ NoRow.run = 0
BY DEF NoRow, Rows, Statuses

LEMMA ReachStart == ReachInit => ReachInv
<1> SUFFICES ASSUME ReachInit PROVE ReachInv OBVIOUS
<1>1. /\ check = IdleJob /\ probes = <<>> /\ ended = [k \in ReachKeys |-> NoRow] /\ reachMail = <<>>
      /\ reachRows = [k \in ReachKeys |-> NoRow] /\ reachLabel = "none" /\ DOMAIN probes = {}
  BY DEF ReachInit
<1>2. ReachTypeOK BY <1>1, NoRowIsTyped DEF ReachTypeOK, IdleJob, Checks
<1>3. MailInOrder BY <1>1 DEF MailInOrder, IdleJob
<1>4. OfThisRun BY <1>1, NoRowIsTyped DEF OfThisRun
<1>5. ResultsRight BY <1>1 DEF ResultsRight, ProbesRight, ResultRight, AnswerRight
<1>6. TableComplete BY <1>1 DEF TableComplete
<1> QED BY <1>2, <1>3, <1>4, <1>5, <1>6 DEF ReachInv

\* A new run begins with nothing of the old one.
LEMMA StartCheckKeeps ==
    ASSUME ReachInv, NEW means \in {"ping", "tcping", "socket"}, NEW entries \in TargetLists,
           NEW continuous \in BOOLEAN, StartCheck(means, entries, continuous)
    PROVE  ReachInv'
<1>1. /\ check.run \in Nat /\ reachMail = <<>> /\ reachMail' = <<>>
      /\ entries \in Seq(ReachKeys)
  BY ReachAssumption DEF StartCheck, ReachInv, ReachTypeOK, MailInOrder, Checks
<1>2. check' = [check EXCEPT !.run = check.run + 1, !.means = means, !.continuous = continuous,
                             !.running = TRUE, !.stopButton = TRUE, !.cancelled = FALSE, !.job = "working"]
  BY DEF StartCheck
<1>3. /\ check' \in Checks /\ check'.run = check.run + 1 /\ check'.running = TRUE /\ check'.job = "working"
  <2>1. check \in Checks /\ check.run + 1 \in Nat BY <1>1 DEF ReachInv, ReachTypeOK
  <2> QED BY <1>2, <2>1 DEF Checks
<1>4. /\ probes' = [i \in DOMAIN entries |-> NewProbe(entries[i])] /\ DOMAIN probes' = DOMAIN entries
      /\ \A i \in DOMAIN entries : entries[i] \in ReachKeys
      /\ ended' = [k \in ReachKeys |-> NoRow] /\ reachRows' = [k \in ReachKeys |-> NoRow]
      /\ reachLabel' = "running"
  BY <1>1 DEF StartCheck
<1>5. \A i \in DOMAIN probes' : /\ probes'[i] = NewProbe(entries[i]) /\ probes'[i] \in Probes
                               /\ ProbeRight(probes'[i]) /\ probes'[i].stage = "spawn"
  BY <1>4 DEF NewProbe, Probes, ProbeRight
<1>6. ReachTypeOK'
  <2>1. probes' \in [DOMAIN probes' -> Probes] BY <1>4, <1>5
  <2> QED BY <1>1, <1>3, <1>4, <2>1, NoRowIsTyped DEF ReachTypeOK
<1>7. MailInOrder' BY <1>1, <1>3 DEF MailInOrder
<1>8. OfThisRun' BY <1>1, <1>4, NoRowIsTyped DEF OfThisRun
<1>9. ResultsRight'
  <2>1. ASSUME NEW i \in DOMAIN probes' PROVE ProbeRight(probes[i])' BY <1>5 DEF ProbeRight
  <2> QED BY <1>1, <1>3, <1>4, <1>5, <2>1 DEF ResultsRight, ProbesRight, ResultRight, AnswerRight
<1>10. TableComplete' BY <1>4 DEF TableComplete
<1> QED BY <1>6, <1>7, <1>8, <1>9, <1>10 DEF ReachInv

LEMMA CancelCheckKeeps == ReachInv /\ CancelCheck => ReachInv'
<1> SUFFICES ASSUME ReachInv, CancelCheck PROVE ReachInv' OBVIOUS
<1>1. /\ check' \in Checks /\ check'.run = check.run /\ check'.running = check.running
      /\ check'.job = check.job /\ check'.cancelled
      /\ reachLabel' = "stop asked" /\ UNCHANGED <<probes, ended, reachMail, reachRows>>
  BY DEF CancelCheck, ReachInv, ReachTypeOK, Checks
<1>2. ReachTypeOK' BY <1>1 DEF ReachInv, ReachTypeOK
<1>3. MailInOrder' /\ OfThisRun' BY <1>1 DEF ReachInv, MailInOrder, OfThisRun
<1>4. ResultsRight'
  <2>1. ProbesRight' BY <1>1 DEF ReachInv, ResultsRight, ProbesRight
  <2>2. ASSUME NEW k \in ReachKeys PROVE ResultRight(k)'
    BY ZenonT(60), <1>1 DEF ReachInv, ResultsRight, ResultRight, Verdict
  <2>3. AnswerRight' BY <1>1 DEF ReachInv, ResultsRight, AnswerRight
  <2> QED BY <2>1, <2>2, <2>3 DEF ResultsRight
<1>5. TableComplete' BY <1>1 DEF TableComplete
<1> QED BY <1>2, <1>3, <1>4, <1>5 DEF ReachInv

LEMMA ReachShutdownKeeps == ReachInv /\ ReachShutdown => ReachInv'
<1> SUFFICES ASSUME ReachInv, ReachShutdown PROVE ReachInv' OBVIOUS
<1>1. /\ check' \in Checks /\ check'.run = check.run /\ check'.running = check.running
      /\ check'.job = check.job /\ check'.cancelled
      /\ UNCHANGED <<probes, ended, reachMail, reachRows, reachLabel>>
  BY DEF ReachShutdown, ReachInv, ReachTypeOK, Checks
<1>2. ReachTypeOK' BY <1>1 DEF ReachInv, ReachTypeOK
<1>3. MailInOrder' /\ OfThisRun' BY <1>1 DEF ReachInv, MailInOrder, OfThisRun
<1>4. ResultsRight'
  <2>1. ProbesRight' BY <1>1 DEF ReachInv, ResultsRight, ProbesRight
  <2>2. ASSUME NEW k \in ReachKeys PROVE ResultRight(k)'
    BY ZenonT(60), <1>1 DEF ReachInv, ResultsRight, ResultRight, Verdict
  <2>3. AnswerRight' BY <1>1 DEF ReachInv, ResultsRight, AnswerRight
  <2> QED BY <2>1, <2>2, <2>3 DEF ResultsRight
<1>5. TableComplete' BY <1>1 DEF ReachInv, TableComplete, Verdict
<1> QED BY <1>2, <1>3, <1>4, <1>5 DEF ReachInv

\* A probe that has not ended moves, and may post progress.
LEMMA ProbeMoves ==
    ASSUME ReachInv, NEW i \in DOMAIN probes, NEW p \in Probes, probes[i].stage \notin {"done", "raised"},
           p.key = probes[i].key, ProbeRight(p), p.stage # "done",
           Goes(i, p), PageUnchanged,
           \/ UNCHANGED reachMail
           \/ \E signal \in Signals : /\ reachMail' = Append(reachMail, signal) /\ signal.kind = "progress"
                                      /\ signal.key \in ReachKeys /\ signal.row.run = check.run
    PROVE  ReachInv'
<1>1. check.job = "working" /\ check.running /\ check \in Checks
  BY DEF ReachInv, ReachTypeOK, ResultsRight, ProbesRight, MailInOrder, Checks
<1>2. /\ probes' \in [DOMAIN probes -> Probes] /\ DOMAIN probes' = DOMAIN probes
      /\ probes'[i] = p /\ \A j \in DOMAIN probes : j # i => probes'[j] = probes[j]
      /\ UNCHANGED <<check, ended, reachRows, reachLabel>>
  BY DEF ReachInv, ReachTypeOK, Goes, PageUnchanged
<1>3. /\ reachMail' \in Seq(Signals)
      /\ \A n \in 1 .. Len(reachMail') : /\ reachMail'[n].kind = "progress"
                                         /\ reachMail'[n].key \in ReachKeys /\ reachMail'[n].row.run = check.run
  <2>1. CASE UNCHANGED reachMail BY <2>1, <1>1 DEF ReachInv, ReachTypeOK, MailInOrder, OfThisRun
  <2>2. ASSUME NEW signal \in Signals, reachMail' = Append(reachMail, signal), signal.kind = "progress",
               signal.key \in ReachKeys, signal.row.run = check.run
        PROVE  <1>3!1 /\ <1>3!2
    <3>1. /\ reachMail' \in Seq(Signals) /\ Len(reachMail') = Len(reachMail) + 1 /\ Len(reachMail) \in Nat
          /\ \A n \in 1 .. Len(reachMail) : reachMail'[n] = reachMail[n]
          /\ reachMail'[Len(reachMail) + 1] = signal
      BY <2>2 DEF ReachInv, ReachTypeOK
    <3>2. \A n \in 1 .. Len(reachMail') : n \in 1 .. Len(reachMail) \/ n = Len(reachMail) + 1 BY <3>1
    <3> QED BY <2>2, <3>1, <3>2, <1>1 DEF ReachInv, MailInOrder, OfThisRun
  <2> QED BY <2>1, <2>2
<1>4. ReachTypeOK' BY <1>2, <1>3 DEF ReachInv, ReachTypeOK
<1>5. MailInOrder' BY <1>1, <1>2, <1>3 DEF ReachInv, MailInOrder
<1>6. OfThisRun' BY <1>2, <1>3 DEF ReachInv, OfThisRun
<1>7. ResultsRight'
  <2>1. ASSUME NEW j \in DOMAIN probes
        PROVE  /\ ProbeRight(probes'[j]) /\ probes'[j].key = probes[j].key
               /\ probes'[j].stage = "done" => probes[j].stage = "done"
               /\ probes[j].stage = "done" => probes'[j] = probes[j]
    BY <1>2 DEF ReachInv, ResultsRight, ProbesRight
  <2>2. ProbesRight'
    <3>1. ASSUME NEW j \in DOMAIN probes PROVE ProbeRight(probes[j])' BY <2>1 DEF ProbeRight
    <3> QED BY <1>1, <1>2, <2>1, <3>1 DEF ReachInv, ResultsRight, ProbesRight
  <2>3. ASSUME NEW k \in ReachKeys PROVE ResultRight(k)'
    <3>1. CASE ended[k] = NoRow BY <3>1, <1>2 DEF ResultRight
    <3>2. CASE ended[k] # NoRow
      <4>1. ResultRight(k) BY DEF ReachInv, ResultsRight
      <4>2. PICK j \in DOMAIN probes : /\ probes[j].key = k /\ probes[j].stage = "done"
                                       /\ Tells(ended[k], probes[j])
        BY <3>2, <4>1 DEF ResultRight
      <4>3. j \in DOMAIN probes' /\ probes'[j] = probes[j] BY <4>2, <2>1, <1>2
      <4>4. \E l \in DOMAIN probes' : /\ probes'[l].key = k /\ probes'[l].stage = "done"
                                       /\ Tells(ended'[k], probes'[l])
        BY <1>2, <4>2, <4>3
      <4>5. Verdict(ended[k])' BY <1>2, <3>2, <4>1 DEF ResultRight, Verdict
      <4>6. ended'[k].status = "stopped" => check'.cancelled BY <1>2, <3>2, <4>1 DEF ResultRight
      <4> QED BY <4>4, <4>5, <4>6 DEF ResultRight
    <3> QED BY <3>1, <3>2
  <2>4. AnswerRight' BY <1>3 DEF AnswerRight
  <2> QED BY <2>2, <2>3, <2>4 DEF ResultsRight
<1>8. TableComplete' BY <1>1, <1>2 DEF ReachInv, TableComplete
<1> QED BY <1>4, <1>5, <1>6, <1>7, <1>8 DEF ReachInv

LEMMA CountedIsTyped ==
    ASSUME NEW p \in Probes, ProbeRight(p), p.lines = 0, NEW replied \in BOOLEAN, check \in Checks
    PROVE  /\ Counted(p, replied) \in Probes /\ Counted(p, replied).key = p.key
           /\ Counted(p, replied).stage = "look" /\ ProbeRight(Counted(p, replied)) /\ Counted(p, replied).lines = 0
           /\ Progress(p, replied) \in Signals /\ Progress(p, replied).kind = "progress"
           /\ Progress(p, replied).key = p.key /\ Progress(p, replied).row.run = check.run
<1>1. /\ Counted(p, replied) \in Probes /\ Counted(p, replied).key = p.key
      /\ Counted(p, replied).stage = "look" /\ ProbeRight(Counted(p, replied)) /\ Counted(p, replied).lines = 0
  <2>1. ASSUME NEW got \in {p.got, p.got + 1}, NEW c, c = [p EXCEPT !.sent = p.sent + 1, !.got = got, !.stage = "look"]
        PROVE  c \in Probes /\ c.key = p.key /\ c.stage = "look" /\ ProbeRight(c) /\ c.lines = 0
    <3>1. got \in Nat /\ p.sent + 1 \in Nat /\ got <= p.sent + 1 BY DEF Probes, ProbeRight
    <3>2. c \in Probes BY <2>1, <3>1 DEF Probes
    <3>3. /\ c.key = p.key /\ c.stage = "look" /\ c.got = got /\ c.sent = p.sent + 1
          /\ c.lines = 0 /\ c.sumSent = p.sumSent /\ c.sumGot = p.sumGot
      BY <2>1 DEF Probes
    <3> QED BY <3>1, <3>2, <3>3 DEF ProbeRight
  <2>2. \E got \in {p.got, p.got + 1} :
          Counted(p, replied) = [p EXCEPT !.sent = p.sent + 1, !.got = got, !.stage = "look"]
    <3>1. (IF replied THEN p.got + 1 ELSE p.got) \in {p.got, p.got + 1} OBVIOUS
    <3> QED BY <3>1 DEF Counted
  <2> QED BY <2>1, <2>2
<1>2. LastStatus(check.means, replied) \in Statuses BY DEF LastStatus, Statuses
<1>3. [run |-> check.run, sent |-> p.sent, got |-> p.got, status |-> LastStatus(check.means, replied)] \in Rows
  BY <1>2 DEF Rows, Probes, Checks
<1>4. p.key \in ReachKeys BY DEF Probes
<1> QED BY <1>1, <1>3, <1>4 DEF Progress, Signals

LEMMA CountLineKeeps == ASSUME ReachInv, NEW i \in DOMAIN probes, CountLine(i) PROVE ReachInv'
<1>1. PICK replied \in BOOLEAN :
        /\ Goes(i, Counted(probes[i], replied))
        /\ reachMail' = Append(reachMail, Progress(Counted(probes[i], replied), replied))
  BY DEF CountLine
<1>2. probes[i] \in Probes /\ ProbeRight(probes[i]) /\ probes[i].lines = 0 /\ check \in Checks
  BY DEF ReachInv, ReachTypeOK, ResultsRight, ProbesRight, CountLine
<1> DEFINE p == Counted(probes[i], replied)
<1>3. /\ p \in Probes /\ p.key = probes[i].key /\ p.stage = "look" /\ ProbeRight(p) /\ p.lines = 0
  BY <1>2, CountedIsTyped
<1>4. /\ Progress(p, replied) \in Signals /\ Progress(p, replied).kind = "progress"
      /\ Progress(p, replied).key = p.key /\ Progress(p, replied).row.run = check.run
  BY <1>2, <1>3, CountedIsTyped
<1>5. p.key \in ReachKeys BY <1>3 DEF Probes
<1>6. probes[i].stage \notin {"done", "raised"} /\ PageUnchanged BY DEF CountLine
<1> HIDE DEF p
<1> QED BY <1>1, <1>3, <1>4, <1>5, <1>6, ProbeMoves DEF p

\* The steps of a probe that post nothing.
LEMMA QuietProbeKeeps ==
    ASSUME ReachInv, NEW i \in DOMAIN probes,
           Spawn(i) \/ LookForStop(i) \/ ReadNothing(i) \/ ProcessEnds(i) \/ SeeEnd(i)
    PROVE  ReachInv'
<1>1. probes[i] \in Probes /\ ProbeRight(probes[i])
  BY DEF ReachInv, ReachTypeOK, ResultsRight, ProbesRight
<1>2. \A stage \in {"look", "read", "sum", "raised"}, alive \in BOOLEAN :
        LET p == [probes[i] EXCEPT !.stage = stage, !.alive = alive] IN
        p \in Probes /\ p.key = probes[i].key /\ ProbeRight(p) /\ p.stage # "done"
  <2> SUFFICES ASSUME NEW stage \in {"look", "read", "sum", "raised"}, NEW alive \in BOOLEAN,
                      NEW p, p = [probes[i] EXCEPT !.stage = stage, !.alive = alive]
               PROVE  p \in Probes /\ p.key = probes[i].key /\ ProbeRight(p) /\ p.stage # "done"
    OBVIOUS
  <2>1. p \in Probes /\ p.key = probes[i].key /\ p.stage = stage BY <1>1 DEF Probes
  <2>2. /\ p.sent = probes[i].sent /\ p.got = probes[i].got /\ p.lines = probes[i].lines
        /\ p.sumSent = probes[i].sumSent /\ p.sumGot = probes[i].sumGot
    BY <1>1 DEF Probes
  <2> QED BY <1>1, <2>1, <2>2 DEF ProbeRight
<1>3. /\ \A stage : [probes[i] EXCEPT !.stage = stage] = [probes[i] EXCEPT !.stage = stage, !.alive = probes[i].alive]
      /\ \A alive : [probes[i] EXCEPT !.alive = alive] = [probes[i] EXCEPT !.stage = probes[i].stage, !.alive = alive]
      /\ probes[i].alive \in BOOLEAN
  BY <1>1 DEF Probes
<1>4. \E stage \in {"look", "read", "sum", "raised"}, alive \in BOOLEAN :
        Goes(i, [probes[i] EXCEPT !.stage = stage, !.alive = alive])
  <2>1. CASE Spawn(i)
    <3>1. (check.means # "socket") \in BOOLEAN OBVIOUS
    <3> QED BY <2>1, <3>1 DEF Spawn
  <2>2. CASE LookForStop(i)
    <3>1. CASE Goes(i, [probes[i] EXCEPT !.stage = "sum", !.alive = FALSE]) BY <3>1
    <3>2. CASE Goes(i, [probes[i] EXCEPT !.stage = "sum"]) BY <3>2, <1>3
    <3>3. CASE Goes(i, [probes[i] EXCEPT !.stage = "read"]) BY <3>3, <1>3
    <3> QED BY <2>2, <3>1, <3>2, <3>3 DEF LookForStop
  <2>3. CASE ReadNothing(i) BY <2>3, <1>3 DEF ReadNothing
  <2>4. CASE ProcessEnds(i)
    <3>1. probes[i].stage \in {"look", "read"} BY <2>4 DEF ProcessEnds
    <3>2. Goes(i, [probes[i] EXCEPT !.stage = probes[i].stage, !.alive = FALSE]) BY <2>4, <1>3 DEF ProcessEnds
    <3> QED BY <3>1, <3>2
  <2>5. CASE SeeEnd(i) BY <2>5, <1>3 DEF SeeEnd
  <2> QED BY <2>1, <2>2, <2>3, <2>4, <2>5
<1>5. /\ probes[i].stage \notin {"done", "raised"} /\ PageUnchanged /\ UNCHANGED reachMail
  BY DEF Spawn, LookForStop, ReadNothing, ProcessEnds, SeeEnd
<1>6. PICK stage \in {"look", "read", "sum", "raised"}, alive \in BOOLEAN :
        Goes(i, [probes[i] EXCEPT !.stage = stage, !.alive = alive])
  BY <1>4
<1> DEFINE p == [probes[i] EXCEPT !.stage = stage, !.alive = alive]
<1>7. p \in Probes /\ p.key = probes[i].key /\ ProbeRight(p) /\ p.stage # "done" BY <1>2
<1>8. Goes(i, p) BY <1>6
<1> HIDE DEF p
<1> QED BY <1>5, <1>7, <1>8, ProbeMoves

\* A line of the summary tells at least of what was counted.
LEMMA SummaryLineKeeps == ASSUME ReachInv, NEW i \in DOMAIN probes, ReadSummaryLine(i) PROVE ReachInv'
<1>1. probes[i] \in Probes /\ ProbeRight(probes[i])
  BY DEF ReachInv, ReachTypeOK, ResultsRight, ProbesRight
<1>2. /\ probes[i].stage \notin {"done", "raised"} /\ PageUnchanged /\ UNCHANGED reachMail
  BY DEF ReadSummaryLine
<1>3. /\ probes[i].sent \in Nat /\ probes[i].got \in Nat /\ probes[i].sumSent \in Nat /\ MaxProbes \in Nat
      /\ probes[i].got <= probes[i].sent
  BY <1>1, ReachAssumption DEF Probes, ProbeRight
<1>4. ASSUME probes[i].lines = 0, NEW n \in probes[i].sent .. MaxProbes,
             Goes(i, [probes[i] EXCEPT !.stage = "look", !.lines = 1, !.sumSent = n])
      PROVE  ReachInv'
  <2> DEFINE p == [probes[i] EXCEPT !.stage = "look", !.lines = 1, !.sumSent = n]
  <2>1. n \in Nat /\ probes[i].sent <= n BY <1>3
  <2>2. p \in Probes /\ p.key = probes[i].key /\ p.stage = "look" BY <1>1, <2>1 DEF Probes
  <2>3. /\ p.sent = probes[i].sent /\ p.got = probes[i].got /\ p.lines = 1
        /\ p.sumSent = n /\ p.sumGot = probes[i].sumGot
    BY <1>1 DEF Probes
  <2>4. probes[i].sumGot = 0
    <3>1. probes[i].sumGot \in Nat /\ probes[i].sumGot <= 0 BY <1>1, <1>4 DEF ProbeRight, Probes
    <3> QED BY <3>1
  <2>5. Goes(i, p) BY <1>4
  <2> HIDE DEF p
  <2>6. ProbeRight(p) BY <1>3, <2>1, <2>3, <2>4 DEF ProbeRight
  <2> QED BY <1>2, <2>2, <2>5, <2>6, ProbeMoves
<1>5. ASSUME probes[i].lines = 1,
             NEW n \in probes[i].got .. probes[i].sumSent - (probes[i].sent - probes[i].got),
             Goes(i, [probes[i] EXCEPT !.stage = "look", !.lines = 2, !.sumGot = n])
      PROVE  ReachInv'
  <2> DEFINE p == [probes[i] EXCEPT !.stage = "look", !.lines = 2, !.sumGot = n]
  <2>1. n \in Nat /\ probes[i].got <= n /\ n <= probes[i].sumSent BY <1>3
  <2>2. p \in Probes /\ p.key = probes[i].key /\ p.stage = "look" BY <1>1, <2>1 DEF Probes
  <2>3. /\ p.sent = probes[i].sent /\ p.got = probes[i].got /\ p.lines = 2
        /\ p.sumSent = probes[i].sumSent /\ p.sumGot = n
    BY <1>1 DEF Probes
  <2>4. probes[i].sent <= probes[i].sumSent BY <1>1, <1>5 DEF ProbeRight
  <2>5. Goes(i, p) BY <1>5
  <2> HIDE DEF p
  <2>6. ProbeRight(p) BY <1>3, <2>1, <2>3, <2>4 DEF ProbeRight
  <2> QED BY <1>2, <2>2, <2>5, <2>6, ProbeMoves
<1> QED BY <1>4, <1>5 DEF ReadSummaryLine

\* A result is a verdict on the counts of its probe.
LEMMA ConcludeKeeps == ASSUME ReachInv, NEW i \in DOMAIN probes, Conclude(i) PROVE ReachInv'
<1>1. check.job = "working" /\ check.running /\ check \in Checks
  BY DEF ReachInv, ReachTypeOK, ResultsRight, ProbesRight, MailInOrder, Checks, Conclude
<1>2. probes[i] \in Probes /\ ProbeRight(probes[i]) /\ probes[i].key \in ReachKeys
  BY DEF ReachInv, ReachTypeOK, ResultsRight, ProbesRight, Probes
<1> DEFINE t == Totals(probes[i])
           row == [run |-> check.run, sent |-> t.sent, got |-> t.got, status |-> ResultStatus(check.means, t)]
<1>14. t.sent \in Nat /\ t.got \in Nat /\ t.got <= t.sent BY <1>2 DEF Totals, ProbeRight, Probes
<1>3. /\ ResultStatus(check.means, t) \in {"stopped", "normal", "partial", "failed", "no answer"}
      /\ ResultStatus(check.means, t) = "stopped" => check.cancelled
      /\ ResultStatus(check.means, t) = "normal" => t.sent > 0 /\ t.got = t.sent
      /\ ResultStatus(check.means, t) \in {"failed", "no answer"} => t.got = 0
  <2> HIDE DEF t
  <2> QED BY <1>14 DEF ResultStatus, OfCounts
<1>15. Tells(row, probes[i])
  <2>1. probes[i].sent \in Nat /\ probes[i].got \in Nat /\ probes[i].sumSent \in Nat /\ probes[i].sumGot \in Nat
        /\ probes[i].lines \in {0, 1, 2}
    BY <1>2 DEF Probes
  <2>2. row.sent = t.sent /\ row.got = t.got OBVIOUS
  <2> HIDE DEF row
  <2> QED BY <1>2, <2>1, <2>2 DEF Tells, Totals, ProbeRight
<1>4. /\ row \in Rows /\ row.run = check.run
      /\ Verdict(row) /\ (row.status = "stopped" => check.cancelled)
  <2> HIDE DEF t
  <2> QED BY <1>1, <1>14, <1>3 DEF Rows, Statuses, Verdict, Checks
<1>5. row # NoRow
  <2>1. check.run > 0 /\ check.run \in Nat BY <1>1 DEF ReachInv, MailInOrder, Checks
  <2> QED BY <2>1 DEF NoRow
<1>6. /\ ended' = [ended EXCEPT ![probes[i].key] = row]
      /\ probes' = [probes EXCEPT ![i] = [probes[i] EXCEPT !.stage = "done"]]
      /\ UNCHANGED <<check, reachMail, reachRows, reachLabel>> /\ probes[i].stage = "sum"
  BY DEF Conclude, Goes
<1> HIDE DEF t, row
<1>7. /\ probes' \in [DOMAIN probes -> Probes] /\ DOMAIN probes' = DOMAIN probes
      /\ probes'[i] \in Probes /\ probes'[i].key = probes[i].key /\ probes'[i].stage = "done"
      /\ Tells(row, probes'[i]) /\ ProbeRight(probes'[i])
      /\ \A j \in DOMAIN probes : j # i => probes'[j] = probes[j]
  <2>1. [probes[i] EXCEPT !.stage = "done"] \in Probes BY <1>2 DEF Probes
  <2>2. /\ Tells(row, [probes[i] EXCEPT !.stage = "done"]) /\ ProbeRight([probes[i] EXCEPT !.stage = "done"])
    BY <1>2, <1>15 DEF Tells, ProbeRight, Probes
  <2> QED BY <1>2, <1>6, <2>1, <2>2 DEF ReachInv, ReachTypeOK, Probes
<1>8. /\ ended' \in [ReachKeys -> Rows] /\ ended'[probes[i].key] = row
      /\ \A k \in ReachKeys : k # probes[i].key => ended'[k] = ended[k]
  BY <1>2, <1>4, <1>6 DEF ReachInv, ReachTypeOK
<1>9. ReachTypeOK' BY <1>6, <1>7, <1>8 DEF ReachInv, ReachTypeOK
<1>10. MailInOrder' BY <1>6, <1>7 DEF ReachInv, MailInOrder
<1>11. OfThisRun' BY <1>4, <1>6, <1>8 DEF ReachInv, OfThisRun
<1>12. ResultsRight'
  <2>1. ProbesRight'
    <3>1. ASSUME NEW j \in DOMAIN probes
          PROVE  /\ ProbeRight(probes'[j])
                 /\ probes'[j].stage = "done" => ended'[probes'[j].key] # NoRow
      <4>1. probes[j].key \in ReachKeys BY DEF ReachInv, ReachTypeOK, Probes
      <4>2. CASE j = i BY <4>2, <1>2, <1>5, <1>7, <1>8
      <4>3. CASE j # i BY <4>1, <4>3, <1>5, <1>7, <1>8 DEF ReachInv, ResultsRight, ProbesRight
      <4> QED BY <4>2, <4>3
    <3>2. ASSUME NEW j \in DOMAIN probes PROVE ProbeRight(probes[j])' BY <3>1 DEF ProbeRight
    <3> QED BY <3>1, <3>2, <1>1, <1>6, <1>7 DEF ProbesRight
  <2>2. ASSUME NEW k \in ReachKeys PROVE ResultRight(k)'
    <3>1. CASE k = probes[i].key
      <4>1. \E j \in DOMAIN probes' : /\ probes'[j].key = k /\ probes'[j].stage = "done"
                                      /\ Tells(ended'[k], probes'[j])
        BY <3>1, <1>4, <1>7, <1>8
      <4>2. Verdict(ended[k])' BY <3>1, <1>4, <1>8 DEF Verdict
      <4>3. ended'[k].status = "stopped" => check'.cancelled BY <3>1, <1>4, <1>6, <1>8
      <4> QED BY <4>1, <4>2, <4>3 DEF ResultRight
    <3>2. CASE k # probes[i].key /\ ended[k] # NoRow
      <4>1. ResultRight(k) BY DEF ReachInv, ResultsRight
      <4>2. PICK j \in DOMAIN probes : /\ probes[j].key = k /\ probes[j].stage = "done"
                                       /\ Tells(ended[k], probes[j])
        BY <3>2, <4>1 DEF ResultRight
      <4>3. j \in DOMAIN probes' /\ probes'[j] = probes[j] BY <4>2, <3>2, <1>7
      <4>4. \E l \in DOMAIN probes' : /\ probes'[l].key = k /\ probes'[l].stage = "done"
                                      /\ Tells(ended'[k], probes'[l])
        BY <3>2, <1>8, <4>2, <4>3
      <4>5. Verdict(ended[k])' BY <1>8, <3>2, <4>1 DEF ResultRight, Verdict
      <4>6. ended'[k].status = "stopped" => check'.cancelled BY <1>6, <1>8, <3>2, <4>1 DEF ResultRight
      <4> QED BY <4>4, <4>5, <4>6 DEF ResultRight
    <3>3. CASE k # probes[i].key /\ ended[k] = NoRow BY <3>3, <1>8 DEF ResultRight
    <3> QED BY <3>1, <3>2, <3>3
  <2>3. AnswerRight'
    <3>1. \A n \in 1 .. Len(reachMail) : reachMail[n].kind # "result" BY <1>1 DEF ReachInv, MailInOrder
    <3> QED BY <3>1, <1>6 DEF AnswerRight
  <2> QED BY <2>1, <2>2, <2>3 DEF ResultsRight
<1>13. TableComplete' BY <1>1, <1>6 DEF ReachInv, TableComplete
<1> QED BY <1>9, <1>10, <1>11, <1>12, <1>13 DEF ReachInv

\* Everything the job found is in its mail before the page can be used again.
LEMMA JobEndsKeeps == ReachInv /\ JobEnds => ReachInv'
<1> SUFFICES ASSUME ReachInv, JobEnds PROVE ReachInv' OBVIOUS
<1>1. /\ check' = [check EXCEPT !.job = "done"] /\ check \in Checks /\ check.job = "working"
      /\ UNCHANGED <<probes, ended, reachRows, reachLabel>> /\ check.running
      /\ reachMail \in Seq(Signals)
      /\ \A i \in DOMAIN probes : probes[i].stage \in {"done", "raised"}
  BY DEF JobEnds, ReachInv, ReachTypeOK, MailInOrder, Checks
<1>2. /\ check' \in Checks /\ check'.run = check.run /\ check'.running /\ check'.job = "done"
      /\ check'.cancelled = check.cancelled
  BY <1>1 DEF Checks
<1>3. PICK kind \in {"error", "result"} :
        /\ reachMail' = reachMail \o <<[kind |-> kind, key |-> check.run, row |-> NoRow],
                                       [kind |-> "finished", key |-> check.run, row |-> NoRow]>>
        /\ kind = "result" => \A i \in DOMAIN probes : probes[i].stage # "raised"
  BY DEF JobEnds
<1> DEFINE answer == [kind |-> kind, key |-> check.run, row |-> NoRow]
           last == [kind |-> "finished", key |-> check.run, row |-> NoRow]
<1>4. /\ answer \in Signals /\ last \in Signals /\ answer.kind = kind /\ last.kind = "finished"
  BY <1>1, NoRowIsTyped DEF Signals, Checks
<1>5. reachMail' = reachMail \o <<answer, last>> BY <1>3
<1> HIDE DEF answer, last
<1>6. /\ reachMail' \in Seq(Signals) /\ Len(reachMail') = Len(reachMail) + 2 /\ Len(reachMail) \in Nat
      /\ \A n \in 1 .. Len(reachMail) : reachMail'[n] = reachMail[n] /\ reachMail[n].kind = "progress"
      /\ reachMail'[Len(reachMail) + 1] = answer /\ reachMail'[Len(reachMail) + 2] = last
  BY <1>1, <1>4, <1>5 DEF ReachInv, MailInOrder
<1>7. \A n \in 1 .. Len(reachMail') :
        n \in 1 .. Len(reachMail) \/ n = Len(reachMail) + 1 \/ n = Len(reachMail) + 2
  BY <1>6
<1>8. ReachTypeOK' BY <1>1, <1>2, <1>6 DEF ReachInv, ReachTypeOK
<1>9. MailInOrder'
  <2>1. ASSUME NEW n \in 1 .. Len(reachMail')
        PROVE  /\ n = Len(reachMail') => reachMail'[n].kind = "finished"
               /\ n = Len(reachMail') - 1 => reachMail'[n].kind \in {"result", "error"}
               /\ n < Len(reachMail') - 1 => reachMail'[n].kind = "progress"
    BY <1>3, <1>4, <1>6, <1>7
  <2>2. reachMail' # <<>> BY <1>6
  <2>3. check'.run > 0 BY <1>1, <1>2 DEF ReachInv, MailInOrder
  <2> QED BY <1>2, <2>1, <2>2, <2>3 DEF MailInOrder
<1>10. OfThisRun' BY <1>1, <1>2, <1>3, <1>4, <1>6, <1>7 DEF ReachInv, OfThisRun
<1>11. ResultsRight'
  <2>1. ProbesRight' BY <1>1 DEF ReachInv, ResultsRight, ProbesRight
  <2>2. ASSUME NEW k \in ReachKeys PROVE ResultRight(k)'
    <3>1. ResultRight(k) BY DEF ReachInv, ResultsRight
    <3>2. ended' = ended /\ probes' = probes /\ check'.cancelled = check.cancelled BY <1>1, <1>2
    <3> QED BY <3>1, <3>2 DEF ResultRight, Verdict
  <2>3. AnswerRight'
    <3>1. ASSUME NEW n \in 1 .. Len(reachMail'), reachMail'[n].kind = "result"
          PROVE  \A i \in DOMAIN probes : probes[i].stage = "done"
      BY <1>1, <1>3, <1>4, <1>6, <1>7, <3>1
    <3> QED BY <3>1, <1>1 DEF AnswerRight
  <2> QED BY <2>1, <2>2, <2>3 DEF ResultsRight
<1>12. TableComplete' BY <1>1 DEF ReachInv, TableComplete
<1> QED BY <1>8, <1>9, <1>10, <1>11, <1>12 DEF ReachInv

\* What is true of a signal before the window takes one is true of it afterwards.
LEMMA MailGoesOn ==
    ASSUME ReachInv, reachMail # <<>>, reachMail' = Tail(reachMail)
    PROVE  /\ reachMail' \in Seq(Signals) /\ Len(reachMail) \in Nat \ {0}
           /\ Len(reachMail') = Len(reachMail) - 1 /\ Head(reachMail) = reachMail[1]
           /\ reachMail[1] \in Signals
           /\ \A n \in 1 .. Len(reachMail') : n + 1 \in 1 .. Len(reachMail) /\ reachMail'[n] = reachMail[n + 1]
           /\ check.running /\ check.job # "none" /\ 1 \in 1 .. Len(reachMail)
<1>1. reachMail \in Seq(Signals) BY DEF ReachInv, ReachTypeOK
<1>2. check.running BY DEF ReachInv, MailInOrder
<1>3. check.job # "none" BY <1>2 DEF ReachInv, MailInOrder
<1> QED BY <1>1, <1>2, <1>3

LEMMA MailAtTheEnd ==
    ASSUME ReachInv, reachMail # <<>>, check.job # "working", NEW n \in 1 .. Len(reachMail)
    PROVE  /\ check.job = "done"
           /\ n = Len(reachMail) => reachMail[n].kind = "finished"
           /\ n = Len(reachMail) - 1 => reachMail[n].kind \in {"result", "error"}
           /\ n < Len(reachMail) - 1 => reachMail[n].kind = "progress"
<1>1. check.running BY DEF ReachInv, MailInOrder
<1>2. check.job = "done" BY <1>1 DEF ReachInv, ReachTypeOK, MailInOrder, Checks
<1> QED BY <1>1, <1>2 DEF ReachInv, MailInOrder

LEMMA MailBeforeTheEnd ==
    ASSUME ReachInv, check.job = "working", NEW n \in 1 .. Len(reachMail)
    PROVE  reachMail[n].kind = "progress"
BY DEF ReachInv, MailInOrder

LEMMA WindowKeepsMail ==
    ASSUME ReachInv, reachMail # <<>>, reachMail' = Tail(reachMail), Head(reachMail).kind # "finished",
           check' = check, probes' = probes
    PROVE  MailInOrder' /\ AnswerRight'
<1>1. /\ reachMail' \in Seq(Signals) /\ Len(reachMail) \in Nat \ {0}
      /\ Len(reachMail') = Len(reachMail) - 1 /\ Head(reachMail) = reachMail[1]
      /\ \A n \in 1 .. Len(reachMail') : n + 1 \in 1 .. Len(reachMail) /\ reachMail'[n] = reachMail[n + 1]
      /\ check.running /\ check.job # "none" /\ 1 \in 1 .. Len(reachMail)
  BY MailGoesOn
<1>2. AnswerRight' BY <1>1 DEF ReachInv, ResultsRight, AnswerRight
<1>3. CASE check.job = "working"
  <2>1. \A n \in 1 .. Len(reachMail) : reachMail[n].kind = "progress" BY <1>3, MailBeforeTheEnd
  <2>2. \A n \in 1 .. Len(reachMail') : reachMail'[n].kind = "progress" BY <1>1, <2>1
  <2>3. check.run > 0 BY <1>1 DEF ReachInv, MailInOrder
  <2>4. check' = check /\ check'.running BY <1>1
  <2>5. check'.job = "working" /\ check'.run > 0 BY <1>3, <2>3
  <2> QED BY <1>2, <2>2, <2>4, <2>5 DEF MailInOrder
<1>4. CASE check.job # "working"
  <2>1. check.job = "done" BY <1>1, <1>4, MailAtTheEnd
  <2>2. Len(reachMail) > 1
    <3>1. 1 = Len(reachMail) => reachMail[1].kind = "finished" BY <1>1, <1>4, MailAtTheEnd
    <3> QED BY <1>1, <3>1
  <2>3. reachMail' # <<>> BY <1>1, <2>2
  <2>4. ASSUME NEW n \in 1 .. Len(reachMail')
        PROVE  /\ n = Len(reachMail') => reachMail'[n].kind = "finished"
               /\ n = Len(reachMail') - 1 => reachMail'[n].kind \in {"result", "error"}
               /\ n < Len(reachMail') - 1 => reachMail'[n].kind = "progress"
    <3>1. n \in Nat /\ n + 1 \in 1 .. Len(reachMail) /\ reachMail'[n] = reachMail[n + 1] BY <1>1
    <3>2. /\ n + 1 = Len(reachMail) => reachMail[n + 1].kind = "finished"
          /\ n + 1 = Len(reachMail) - 1 => reachMail[n + 1].kind \in {"result", "error"}
          /\ n + 1 < Len(reachMail) - 1 => reachMail[n + 1].kind = "progress"
      BY <1>4, <3>1, MailAtTheEnd
    <3>3. /\ n = Len(reachMail') <=> n + 1 = Len(reachMail)
          /\ n = Len(reachMail') - 1 <=> n + 1 = Len(reachMail) - 1
          /\ n < Len(reachMail') - 1 <=> n + 1 < Len(reachMail) - 1
      BY <1>1, <3>1
    <3> QED BY <3>1, <3>2, <3>3
  <2>5. check.run > 0 BY <1>1 DEF ReachInv, MailInOrder
  <2>6. check' = check /\ check'.running BY <1>1
  <2>7. check'.job = "done" /\ check'.run > 0 BY <2>1, <2>5
  <2> QED BY <1>2, <2>3, <2>4, <2>6, <2>7 DEF MailInOrder
<1> QED BY <1>2, <1>3, <1>4

LEMMA ShowProgressKeeps == ReachInv /\ ShowProgress => ReachInv'
<1> SUFFICES ASSUME ReachInv, ShowProgress PROVE ReachInv' OBVIOUS
<1>1. /\ reachMail # <<>> /\ Head(reachMail).kind = "progress" /\ reachMail' = Tail(reachMail)
      /\ reachRows' = [reachRows EXCEPT ![Head(reachMail).key] = Head(reachMail).row]
      /\ reachLabel' = "running" /\ check' = check /\ probes' = probes /\ ended' = ended
  BY DEF ShowProgress, NextIs
<1>2. MailInOrder' /\ AnswerRight' BY <1>1, WindowKeepsMail
<1>3. /\ reachMail' \in Seq(Signals) /\ Head(reachMail) = reachMail[1] /\ reachMail[1] \in Signals
      /\ \A n \in 1 .. Len(reachMail') : n + 1 \in 1 .. Len(reachMail) /\ reachMail'[n] = reachMail[n + 1]
      /\ 1 \in 1 .. Len(reachMail)
  BY <1>1, MailGoesOn
<1>4. Head(reachMail).row \in Rows /\ Head(reachMail).key \in ReachKeys /\ Head(reachMail).row.run = check.run
  BY <1>1, <1>3 DEF Signals, ReachInv, OfThisRun
<1>5. /\ reachRows' \in [ReachKeys -> Rows]
      /\ \A k \in ReachKeys : reachRows'[k] \in {reachRows[k], Head(reachMail).row}
  BY <1>1, <1>4 DEF ReachInv, ReachTypeOK
<1>6. ReachTypeOK' BY <1>1, <1>3, <1>5 DEF ReachInv, ReachTypeOK
<1>7. OfThisRun'
  <2>1. \A k \in ReachKeys : reachRows'[k].run \in {0, check.run} BY <1>4, <1>5 DEF ReachInv, OfThisRun
  <2> QED BY <1>1, <1>3, <2>1 DEF ReachInv, OfThisRun
<1>8. ResultsRight'
  <2>1. ProbesRight' BY <1>1 DEF ReachInv, ResultsRight, ProbesRight
  <2>2. ASSUME NEW k \in ReachKeys PROVE ResultRight(k)'
    BY <1>1 DEF ReachInv, ResultsRight, ResultRight, Verdict
  <2> QED BY <1>2, <2>1, <2>2 DEF ResultsRight
<1>9. TableComplete' BY <1>1 DEF TableComplete
<1> QED BY <1>2, <1>6, <1>7, <1>8, <1>9 DEF ReachInv

\* The answer is the last signal but one, and every probe has a result by then.
LEMMA FinishCheckKeeps == ReachInv /\ FinishCheck => ReachInv'
<1> SUFFICES ASSUME ReachInv, FinishCheck PROVE ReachInv' OBVIOUS
<1>1. /\ reachMail # <<>> /\ Head(reachMail).kind = "result" /\ reachMail' = Tail(reachMail)
      /\ reachRows' = FinalRows /\ check' = check /\ probes' = probes /\ ended' = ended
      /\ reachLabel' = IF check.cancelled THEN "stopped" ELSE "done"
  BY DEF FinishCheck, NextIs
<1>2. MailInOrder' /\ AnswerRight' BY <1>1, WindowKeepsMail
<1>3. /\ reachMail' \in Seq(Signals) /\ Head(reachMail) = reachMail[1]
      /\ Len(reachMail') = Len(reachMail) - 1 /\ Len(reachMail) \in Nat \ {0}
      /\ \A n \in 1 .. Len(reachMail') : n + 1 \in 1 .. Len(reachMail) /\ reachMail'[n] = reachMail[n + 1]
      /\ check.running /\ check.job # "none" /\ 1 \in 1 .. Len(reachMail)
  BY <1>1, MailGoesOn
<1>4. check.job # "working" BY <1>1, <1>3, MailBeforeTheEnd
<1>5. Len(reachMail) = 2
  <2>1. /\ 1 = Len(reachMail) => reachMail[1].kind = "finished"
        /\ 1 < Len(reachMail) - 1 => reachMail[1].kind = "progress"
    BY <1>1, <1>3, <1>4, MailAtTheEnd
  <2> QED BY <1>1, <1>3, <2>1
<1>6. \A n \in 1 .. Len(reachMail') : reachMail'[n].kind = "finished"
  <2>1. 2 \in 1 .. Len(reachMail) BY <1>5
  <2>2. reachMail[2].kind = "finished" BY <1>1, <1>4, <1>5, <2>1, MailAtTheEnd
  <2> QED BY <1>3, <1>5, <2>2
<1>7. \A i \in DOMAIN probes : probes[i].stage = "done" /\ probes[i].key \in ReachKeys
  BY <1>1, <1>3 DEF ReachInv, ReachTypeOK, ResultsRight, AnswerRight, Probes
<1>8. /\ \A k \in ReachKeys : reachRows'[k] = IF ended[k] = NoRow THEN reachRows[k] ELSE ended[k]
      /\ reachRows' \in [ReachKeys -> Rows]
  BY <1>1 DEF FinalRows, ReachInv, ReachTypeOK
<1>9. ReachTypeOK' BY <1>1, <1>3, <1>8 DEF ReachInv, ReachTypeOK
<1>10. OfThisRun'
  <2>1. \A k \in ReachKeys : reachRows'[k].run \in {0, check.run} BY <1>8 DEF ReachInv, OfThisRun
  <2> QED BY <1>1, <1>3, <2>1 DEF ReachInv, OfThisRun
<1>11. ResultsRight'
  <2>1. ProbesRight' BY <1>1 DEF ReachInv, ResultsRight, ProbesRight
  <2>2. ASSUME NEW k \in ReachKeys PROVE ResultRight(k)'
    BY <1>1 DEF ReachInv, ResultsRight, ResultRight, Verdict
  <2> QED BY <1>2, <2>1, <2>2 DEF ResultsRight
<1>12. TableComplete'
  <2>1. ASSUME NEW i \in DOMAIN probes, NEW row, row = reachRows'[probes[i].key]
        PROVE  /\ \E j \in DOMAIN probes :
                    probes[j].key = probes[i].key /\ Tells(row, probes[j])
               /\ Verdict(row)
               /\ row.status = "stopped" => reachLabel' = "stopped"
    <3>1. ended[probes[i].key] # NoRow BY <1>7 DEF ReachInv, ResultsRight, ProbesRight
    <3>2. row = ended[probes[i].key] BY <1>7, <1>8, <2>1, <3>1
    <3>3. ResultRight(probes[i].key) BY <1>7 DEF ReachInv, ResultsRight
    <3> QED BY <1>1, <3>1, <3>2, <3>3 DEF ResultRight
  <2>2. ASSUME NEW i \in DOMAIN probes'
        PROVE  /\ \E j \in DOMAIN probes' : /\ probes'[j].key = probes'[i].key
                                            /\ Tells(reachRows'[probes'[i].key], probes'[j])
               /\ Verdict(reachRows[probes[i].key])'
               /\ reachRows'[probes'[i].key].status = "stopped" => reachLabel' = "stopped"
    <3>1. i \in DOMAIN probes /\ probes' = probes BY <1>1
    <3>2. /\ \E j \in DOMAIN probes : /\ probes[j].key = probes[i].key
                                     /\ Tells(reachRows'[probes[i].key], probes[j])
          /\ Verdict(reachRows'[probes[i].key])
          /\ reachRows'[probes[i].key].status = "stopped" => reachLabel' = "stopped"
      BY ONLY <2>1, <3>1
    <3>3. Verdict(reachRows[probes[i].key])' BY ONLY <3>1, <3>2 DEF Verdict
    <3>4. \E j \in DOMAIN probes' : /\ probes'[j].key = probes'[i].key
                                   /\ Tells(reachRows'[probes'[i].key], probes'[j])
      BY ONLY <3>1, <3>2
    <3> QED BY ONLY <3>1, <3>2, <3>3, <3>4
  <2>3. check'.job = "done" BY <1>1, <1>3, <1>4, MailAtTheEnd
  <2> QED BY <1>6, <2>2, <2>3 DEF TableComplete
<1> QED BY <1>2, <1>9, <1>10, <1>11, <1>12 DEF ReachInv

LEMMA CheckFailsKeeps == ReachInv /\ CheckFails => ReachInv'
<1> SUFFICES ASSUME ReachInv, CheckFails PROVE ReachInv' OBVIOUS
<1>1. /\ reachMail # <<>> /\ Head(reachMail).kind = "error" /\ reachMail' = Tail(reachMail)
      /\ reachLabel' = "failed" /\ UNCHANGED <<check, probes, ended, reachRows>>
  BY DEF CheckFails, NextIs
<1>2. MailInOrder' /\ AnswerRight' BY <1>1, WindowKeepsMail
<1>3. /\ reachMail' \in Seq(Signals)
      /\ \A n \in 1 .. Len(reachMail') : n + 1 \in 1 .. Len(reachMail) /\ reachMail'[n] = reachMail[n + 1]
  BY <1>1, MailGoesOn
<1>4. ReachTypeOK' /\ OfThisRun' BY <1>1, <1>3 DEF ReachInv, ReachTypeOK, OfThisRun
<1>5. ResultsRight'
  <2>1. ProbesRight' BY <1>1 DEF ReachInv, ResultsRight, ProbesRight
  <2>2. ASSUME NEW k \in ReachKeys PROVE ResultRight(k)'
    BY <1>1 DEF ReachInv, ResultsRight, ResultRight, Verdict
  <2> QED BY <1>2, <2>1, <2>2 DEF ResultsRight
<1>6. TableComplete' BY <1>1 DEF TableComplete
<1> QED BY <1>2, <1>4, <1>5, <1>6 DEF ReachInv

LEMMA SetRunningOffKeeps == ReachInv /\ SetRunningOff => ReachInv'
<1> SUFFICES ASSUME ReachInv, SetRunningOff PROVE ReachInv' OBVIOUS
<1>1. /\ reachMail # <<>> /\ Head(reachMail).kind = "finished" /\ reachMail' = Tail(reachMail)
      /\ check' = [check EXCEPT !.running = FALSE, !.stopButton = FALSE]
      /\ UNCHANGED <<probes, ended, reachRows, reachLabel>>
  BY DEF SetRunningOff, NextIs
<1>2. /\ reachMail' \in Seq(Signals) /\ Head(reachMail) = reachMail[1]
      /\ Len(reachMail') = Len(reachMail) - 1 /\ Len(reachMail) \in Nat \ {0}
      /\ check.running /\ check.job # "none" /\ 1 \in 1 .. Len(reachMail)
  BY <1>1, MailGoesOn
<1>3. check.job # "working" BY <1>1, <1>2, MailBeforeTheEnd
<1>4. Len(reachMail) = 1
  <2>1. /\ 1 = Len(reachMail) - 1 => reachMail[1].kind \in {"result", "error"}
        /\ 1 < Len(reachMail) - 1 => reachMail[1].kind = "progress"
    BY <1>1, <1>2, <1>3, MailAtTheEnd
  <2> QED BY <1>1, <1>2, <2>1
<1>5. reachMail' = <<>> BY <1>2, <1>4
<1>6. /\ check' \in Checks /\ check'.run = check.run /\ check'.running = FALSE
      /\ check'.job = check.job /\ check'.cancelled = check.cancelled
  BY <1>1 DEF ReachInv, ReachTypeOK, Checks
<1>7. ReachTypeOK' BY <1>1, <1>2, <1>6 DEF ReachInv, ReachTypeOK
<1>8. MailInOrder' /\ OfThisRun' BY <1>1, <1>3, <1>5, <1>6 DEF ReachInv, MailInOrder, OfThisRun
<1>9. ResultsRight'
  <2>1. ProbesRight' BY <1>1, <1>6 DEF ReachInv, ResultsRight, ProbesRight
  <2>2. ASSUME NEW k \in ReachKeys PROVE ResultRight(k)'
    BY <1>1, <1>6 DEF ReachInv, ResultsRight, ResultRight, Verdict
  <2>3. AnswerRight' BY <1>5 DEF AnswerRight
  <2> QED BY <2>1, <2>2, <2>3 DEF ResultsRight
<1>10. TableComplete'
  <2>1. reachLabel' = reachLabel /\ reachRows' = reachRows /\ probes' = probes /\ check'.job = check.job
    BY <1>1, <1>6
  <2>2. \A n \in 1 .. Len(reachMail') : reachMail'[n].kind = "finished" BY <1>5
  <2> QED BY <2>1, <2>2 DEF ReachInv, TableComplete, Verdict
<1> QED BY <1>7, <1>8, <1>9, <1>10 DEF ReachInv

LEMMA ReachStep == ReachInv /\ [Next]_allVars => ReachInv'
<1> SUFFICES ASSUME ReachInv, [Next]_allVars PROVE ReachInv' OBVIOUS
<1>1. CASE UNCHANGED reachVars
  <2>1. UNCHANGED <<check, probes, ended, reachMail, reachRows, reachLabel>> BY <1>1 DEF reachVars
  <2>2. ReachTypeOK' /\ MailInOrder' /\ OfThisRun' BY <2>1 DEF ReachInv, ReachTypeOK, MailInOrder, OfThisRun
  <2>3. ProbesRight' /\ AnswerRight' BY <2>1 DEF ReachInv, ResultsRight, ProbesRight, AnswerRight
  <2>4. ASSUME NEW k \in ReachKeys PROVE ResultRight(k)'
    BY <2>1 DEF ReachInv, ResultsRight, ResultRight, Verdict
  <2>5. TableComplete' BY <2>1 DEF ReachInv, TableComplete, Verdict
  <2> QED BY <2>2, <2>3, <2>4, <2>5 DEF ReachInv, ResultsRight
<1>2. ASSUME NEW entries \in TargetLists, NEW c \in BOOLEAN,
             StartPing(entries, c) \/ StartTcpCheck(entries, c)
      PROVE  ReachInv'
  <2>1. CASE StartPing(entries, c) BY <2>1, StartCheckKeeps DEF StartPing
  <2>2. CASE StartTcpCheck(entries, c) BY <2>2, StartCheckKeeps DEF StartTcpCheck
  <2> QED BY <1>2, <2>1, <2>2
<1>3. CASE ReachUser BY <1>2, <1>3, CancelCheckKeeps, ReachShutdownKeeps DEF ReachUser
<1>4. ASSUME NEW i \in DOMAIN probes, ProbeSteps(i) \/ ReadNothing(i) \/ ProcessEnds(i) PROVE ReachInv'
  BY <1>4, QuietProbeKeeps, CountLineKeeps, SummaryLineKeeps, ConcludeKeeps
     DEF ProbeSteps, ReadPingLine, ReadTcpingLine, TryConnection
<1>5. CASE ReachWindow
  BY <1>5, ShowProgressKeeps, FinishCheckKeeps, CheckFailsKeeps, SetRunningOffKeeps DEF ReachWindow
<1>6. CASE ReachNext BY <1>3, <1>4, <1>5, <1>6, JobEndsKeeps DEF ReachNext
<1>7. CASE UNCHANGED allVars BY <1>1, <1>7 DEF allVars
<1> QED BY <1>1, <1>6, <1>7 DEF Next, Reach, Tools, Caches

LEMMA ReachInvImplies == ReachInv => ReachTableIsOfThisRun
<1> SUFFICES ASSUME ReachInv PROVE ReachTableIsOfThisRun OBVIOUS
<1>1. \A k \in ReachKeys : reachRows[k].run \in {0, check.run} BY DEF ReachInv, OfThisRun
<1>2. ASSUME reachLabel \in {"done", "stopped"}, NEW i \in DOMAIN probes, NEW row, row = reachRows[probes[i].key]
      PROVE  /\ \E j \in DOMAIN probes : probes[j].key = probes[i].key /\ Tells(row, probes[j])
             /\ row.status # "timed out"
             /\ row.status = "stopped" => reachLabel = "stopped"
             /\ row.status = "normal" => row.sent > 0 /\ row.got = row.sent
             /\ row.status \in {"failed", "no answer"} => row.got = 0
  BY <1>2 DEF ReachInv, TableComplete, Verdict
<1> QED BY <1>1, <1>2 DEF ReachTableIsOfThisRun

----------------------------------------------------------------------------
\* Whatever late answers, edited boxes, stops and new requests come in between,
\* a table of a check that says it is complete is of the run that is shown, the
\* output pane has no answer of an earlier request, and a conflict of addresses
\* is a difference from the last scan of the same text.
THEOREM ToolAnswersAlwaysCurrent == Spec => []ToolAnswersAreCurrent
<1>1. Init => ReachInv /\ CommandInv /\ ArpInv BY ReachStart, CommandStart, ArpStart DEF Init
<1>2. ReachInv /\ CommandInv /\ ArpInv /\ [Next]_allVars => (ReachInv /\ CommandInv /\ ArpInv)'
  BY ReachStep, CommandStep, ArpStep
<1>3. ReachInv /\ CommandInv /\ ArpInv => ToolAnswersAreCurrent
  BY ReachInvImplies DEF CommandInv, ArpInv, ToolAnswersAreCurrent
<1> QED BY <1>1, <1>2, <1>3, PTL DEF Spec

\* The same holds of the caches and of the tool pages where they are one part of
\* the window: the whole specification implements that of the caches.
THEOREM ToolsKeepCachesRight == Spec => CacheSpec /\ []CachesAreRight
<1>1. Init => CacheInit BY DEF Init
<1>2. [Next]_allVars => [CacheNext]_cacheVars
  BY DEF Next, Reach, Tools, Caches, CacheNext, allVars
<1> QED BY <1>1, <1>2, CachesAlwaysRight, PTL DEF Spec, CacheSpec
=============================================================================
