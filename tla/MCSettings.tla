----------------------------- MODULE MCSettings -----------------------------
(* What the program keeps, and what it shows and changes of the computer   *)
(* it runs on, on small instances: the settings over two folders, the page *)
(* of the adapters' addresses, the Wi-Fi page and the report of its window *)
(* scan, and what a start does to the folder of data.  They share no       *)
(* state, so one behaviour moves one of them and the run is the union.     *)
EXTENDS ConfigStore, NetworkPage, WirelessPage, WindowScan, DataFolder

CONSTANTS a1, a2, p1    \* model values

CONSTANT Parts    \* the parts this instance moves

VARIABLE part

settingsVars == <<part, storeVars, nicVars, wifiVars, window, dataVars>>

\* search and lists leave everything, or one of the two access points
TwoFilters == {APs, {a1}}

MCInit ==
    /\ part \in Parts
    /\ StoreInit /\ NicInit /\ WifiInit /\ WindowInit /\ DataInit
    \* the adapter that was selected in the last session is the last one, or none
    /\ nicTab.pending \in {NoAdapter, NumAdapters}
    \* the parts that stand still start in one state
    /\ (part = "presets") <=> There(Home, "vendor_presets")
    /\ part = "network" \/ nicTab.pending = NoAdapter
    /\ part = "scan" \/ (window.duration = 2 /\ window.interval = 1)
    /\ part = "data" \/ ~boot.ran

\* where an older version left presets, they are what may be damaged, between two runs
OnlyPresetsAreDamaged ==
    damages' = damages \/ (pc = "off" /\ disk'[Home]["vendor_presets"].state = "broken")

OthersThanStore == UNCHANGED <<part, nicVars, wifiVars, window, dataVars>>
OthersThanNetwork == UNCHANGED <<part, storeVars, wifiVars, window, dataVars>>
OthersThanWireless == UNCHANGED <<part, storeVars, nicVars, window, dataVars>>
OthersThanScan == UNCHANGED <<part, storeVars, nicVars, wifiVars, dataVars>>
OthersThanData == UNCHANGED <<part, storeVars, nicVars, wifiVars, window>>

MCNext ==
    \/ part = "store" /\ StoreNext /\ OthersThanStore
    \/ part = "presets" /\ StoreNext /\ OnlyPresetsAreDamaged /\ OthersThanStore
    \/ part = "network" /\ NicNext /\ OthersThanNetwork
    \/ part = "wireless" /\ WifiNext /\ OthersThanWireless
    \/ part = "scan" /\ WindowNext /\ OthersThanScan
    \/ part = "data" /\ DataNext /\ OthersThanData

MCSpec == MCInit /\ [][MCNext]_settingsVars

----------------------------------------------------------------------------
(* The page of the adapters changes what was confirmed, one change at a     *)
(* time; the Wi-Fi page and its report show what the scans have found.     *)
PagesAreRight == NetworkChangeIsRight /\ WirelessPageIsRight /\ []WindowScanIsRight
=============================================================================
