--------------------------- MODULE Settings_proofs ---------------------------
(***************************************************************************)
(* Proofs about what the program keeps, and shows and changes of the       *)
(* computer it runs on: the settings on disk (what the user saved is never *)
(* lost, a reset is complete), the data folder, the window scan, the Wi-Fi *)
(* page and the page of the adapters, each with an inductive invariant of  *)
(* its own, for any folders, options, adapters, access points and number   *)
(* of damaged files; at the end all of them together.                      *)
(***************************************************************************)
EXTENDS MCSettings, FiniteSetTheorems, WellFoundedInduction, TLAPS

----------------------------------------------------------------------------
(* Documents.                                                              *)

\* A file that is not there holds nothing.
LEMMA MissingHoldsNothing ==
    ASSUME TypeOK, NEW d \in Folders, NEW f \in Files, ~There(d, f)
    PROVE  disk[d][f] = Absent /\ disk[d][f].has = {}
<1>1. disk[d][f] \in Docs
  BY DEF TypeOK
<1> QED
  BY <1>1 DEF Docs, There, Absent

\* What a file holds are entries.
LEMMA DocHoldsEntries ==
    ASSUME TypeOK, NEW d \in Folders, NEW f \in Files
    PROVE  disk[d][f].has \in SUBSET Entries
  BY DEF TypeOK, Docs, Absent

LEMMA DocsAreDocs ==
    /\ Absent \in Docs /\ Torn \in Docs
    /\ \A entries \in SUBSET Entries : Whole(entries) \in Docs /\ Broken(entries) \in Docs
  BY DEF Docs, Absent, Torn, Whole, Broken

\* What reading a file gives.
LEMMA ReadsWhat ==
    ASSUME TypeOK, NEW f \in Files, NEW r \in Reads(active, f)
    PROVE  /\ r.has \in SUBSET Entries /\ r.copied \in SUBSET Entries
           /\ r.has # {} => disk[active][f].has = r.has
           /\ r.ok => disk[active][f].has \subseteq r.has \cup r.copied
           /\ r.ok /\ disk[active][f].state = "whole" => r.has = disk[active][f].has
<1>1. active \in Folders
  BY DEF TypeOK
<1>2. disk[active][f].has \in SUBSET Entries
  BY <1>1, DocHoldsEntries
<1>3. disk[active][f].state = "absent" => disk[active][f].has = {}
  BY <1>1, MissingHoldsNothing DEF There
<1> QED
  BY <1>2, <1>3 DEF Reads

----------------------------------------------------------------------------
(* Types.                                                                  *)

LEMMA StoredFiles == Stored \subseteq Files
  BY DEF Stored, Files

LEMMA CopyPlaces ==
    ASSUME item \in DOMAIN CopyOrder
    PROVE  Copied \in Files /\ (NextCopy => item' \in DOMAIN CopyOrder)
  BY DEF CopyOrder, Copied, NextCopy, Files, Stored

LEMMA TypeStart == StoreInit => TypeOK
<1> SUFFICES ASSUME StoreInit PROVE TypeOK
  OBVIOUS
<1>1. disk \in [Folders -> [Files -> Docs]]
  BY DocsAreDocs DEF StoreInit, Entries
<1>2. owned \in [Stored -> SUBSET Entries]
  BY <1>1, StoreAssumption, StoredFiles DEF StoreInit, Docs, Absent, Entries, Files, Whole
<1>3. Empty \in [Stored -> SUBSET Entries]
  BY DEF Empty
<1>4. item \in DOMAIN CopyOrder
  BY DEF StoreInit, CopyOrder
<1>5. {mem, owned, unread, skipped} \subseteq [Stored -> SUBSET Entries]
  BY <1>2, <1>3 DEF StoreInit
<1>6. {pointer, active, target} \subseteq Folders /\ damages \in 0..MaxDamage
  BY StoreAssumption DEF StoreInit
<1>7. pc \in Places /\ {booting, pending, reset} \subseteq BOOLEAN /\ backups \subseteq Entries
  BY DEF StoreInit, Places
<1> QED
  BY <1>1, <1>4, <1>5, <1>6, <1>7 DEF TypeOK

\* A save keeps the types of the files.
LEMMA SaveTyped ==
    ASSUME TypeOK, NEW f \in Stored, NEW entries \in SUBSET Entries, SaveJson(f, entries)
    PROVE  disk' \in [Folders -> [Files -> Docs]]
<1>1. Whole(entries) \in Docs /\ f \in Files /\ active \in Folders
  BY DocsAreDocs, StoredFiles DEF TypeOK
<1> QED
  BY <1>1 DEF SaveJson, Replace, TypeOK

\* Every edit of the user changes one stored file to some set of entries.
LEMMA UserChanges ==
    ASSUME TypeOK, SaveAppConfig \/ SaveIpProfiles
    PROVE  \E f \in Stored, entries \in SUBSET Entries : Change(f, entries)
<1>1. mem["ip_profiles"] \in SUBSET Entries
  BY DEF TypeOK, Stored
<1> QED
  BY <1>1 DEF SaveAppConfig, SaveIpProfiles, Entries, Stored

LEMMA EmptyTyped == Empty \in [Stored -> SUBSET Entries]
  BY DEF Empty

\* The end of the process keeps the types of what is in memory.
LEMMA GoneTyped ==
    ASSUME Gone
    PROVE  /\ pc' \in Places /\ booting' \in BOOLEAN /\ pending' \in BOOLEAN
           /\ active' \in Folders /\ target' \in Folders
           /\ item' \in DOMAIN CopyOrder
           /\ {mem', unread', skipped'} \subseteq [Stored -> SUBSET Entries]
<1>1. item' \in DOMAIN CopyOrder
  BY DEF Gone, CopyOrder
<1>2. {mem', unread', skipped'} \subseteq [Stored -> SUBSET Entries]
  BY EmptyTyped DEF Gone
<1> QED
  BY <1>1, <1>2, StoreAssumption DEF Gone, Places

\* Every step keeps the types.
LEMMA TypeStep == TypeOK /\ [StoreNext]_storeVars => TypeOK'
<1> SUFFICES ASSUME TypeOK, [StoreNext]_storeVars PROVE TypeOK'
  OBVIOUS
<1> USE DEF TypeOK
<1>a. active \in Folders /\ "app_config" \in Stored /\ "ip_profiles" \in Stored
      /\ "vendor_presets" \in Files /\ Stored \subseteq Files
  BY DEF Stored, Files
<1>1. CASE Start
  BY <1>1, StoreAssumption DEF Start, history, Places
<1>2. CASE EnsureRuntimeFiles
  BY <1>2, DocsAreDocs DEF EnsureRuntimeFiles, Ensured, Raise, volatile, history, Places
<1>3. CASE LoadAppConfig
  <2>1. PICK r \in Reads(active, "app_config") :
           /\ mem' = [mem EXCEPT !["app_config"] = r.has]
           /\ backups' = backups \cup r.copied
           /\ skipped' = [skipped EXCEPT !["app_config"] = {}]
           /\ \/ unread' = [unread EXCEPT !["app_config"] = {}]
              \/ unread' = [unread EXCEPT !["app_config"] = disk[active]["app_config"].has]
           /\ \/ owned' = owned
              \/ owned' = [owned EXCEPT !["app_config"] =
                              @ \ (IF r.ok THEN {} ELSE disk[active]["app_config"].has)]
           /\ disk' = disk \/ Replace(active, "app_config", {})
           /\ pc' \in {"load_profiles", "failed", "run"}
    BY <1>3 DEF LoadAppConfig, Raise, SaveFails
  <2>2. r.has \in SUBSET Entries /\ r.copied \in SUBSET Entries
    BY <1>a, ReadsWhat
  <2>3. disk[active]["app_config"].has \in SUBSET Entries
    BY <1>a, DocHoldsEntries
  <2>4. disk' \in [Folders -> [Files -> Docs]]
    BY <2>1, <1>a, DocsAreDocs DEF Replace
  <2>5. {mem', owned', unread', skipped'} \subseteq [Stored -> SUBSET Entries]
    BY SMTT(40), <2>1, <2>2, <2>3, <1>a
  <2>6. /\ pointer' = pointer /\ booting' = booting /\ active' = active
        /\ target' = target /\ item' = item /\ pending' = pending
        /\ damages' = damages /\ reset' \in BOOLEAN
    BY <1>3 DEF LoadAppConfig
  <2> QED
    BY <2>1, <2>2, <2>4, <2>5, <2>6 DEF Places
<1>4. CASE LoadProfiles
  <2>1. PICK r \in Reads(active, "ip_profiles"), q \in Reads(active, "vendor_presets") :
           /\ mem' = [mem EXCEPT !["ip_profiles"] = r.has \cup q.has]
           /\ backups' = backups \cup r.copied \cup q.copied
           /\ unread' = [unread EXCEPT !["ip_profiles"] =
                            IF r.ok THEN {} ELSE disk[active]["ip_profiles"].has]
           /\ skipped' = [skipped EXCEPT !["ip_profiles"] = {}]
           /\ pc' \in {"merge", "unlink", "run"}
    BY <1>4 DEF LoadProfiles
  <2>2. /\ r.has \in SUBSET Entries /\ r.copied \in SUBSET Entries
        /\ q.has \in SUBSET Entries /\ q.copied \in SUBSET Entries
    BY <1>a, ReadsWhat
  <2>3. disk[active]["ip_profiles"].has \in SUBSET Entries
    BY <1>a, DocHoldsEntries
  <2>4. {mem', unread', skipped'} \subseteq [Stored -> SUBSET Entries]
    BY <2>1, <2>2, <2>3, <1>a
  <2>5. /\ disk' = disk /\ pointer' = pointer /\ booting' \in BOOLEAN /\ active' = active
        /\ target' = target /\ item' = item /\ pending' = pending
        /\ damages' = damages /\ reset' = reset /\ owned' = owned
    BY <1>4 DEF LoadProfiles, Opens
  <2> QED
    BY <2>1, <2>2, <2>4, <2>5 DEF Places
<1>5. CASE MergePresets
  <2>1. disk' \in [Folders -> [Files -> Docs]]
    <3>1. mem["ip_profiles"] \in SUBSET Entries
      BY <1>a
    <3> QED
      BY <3>1, <1>5, <1>a, SaveTyped DEF MergePresets, SaveFails
  <2>2. owned' \in [Stored -> SUBSET Entries]
    BY <1>5, <1>a DEF MergePresets
  <2> QED
    BY <1>5, <2>1, <2>2 DEF MergePresets, Raise, volatile, Places
<1>6. CASE UnlinkPresets
  BY <1>6, <1>a, DocsAreDocs DEF UnlinkPresets, Opens, volatile, history, Places
<1>7. ASSUME NEW f \in Stored, NEW entries \in SUBSET Entries, Change(f, entries)
      PROVE  TypeOK'
  <2>1. disk' \in [Folders -> [Files -> Docs]]
    BY <1>7, SaveTyped DEF Change, SaveFails
  <2>2. owned' \in [Stored -> SUBSET Entries]
    BY <1>7 DEF Change
  <2>3. mem' \in [Stored -> SUBSET Entries]
    BY <1>7 DEF Change
  <2> QED
    BY <1>7, <2>1, <2>2, <2>3 DEF Change
<1>8. CASE SaveAppConfig \/ SaveIpProfiles
  <2>1. PICK f \in Stored, entries \in SUBSET Entries : Change(f, entries)
    BY <1>8, UserChanges
  <2> QED
    BY <1>7, <2>1
<1>9. CASE ReloadConfigFiles
  BY <1>9 DEF ReloadConfigFiles, volatile, history, Places
<1>10. CASE CloseWindow
  <2>1. disk' \in [Folders -> [Files -> Docs]]
    <3>1. mem["app_config"] \in SUBSET Entries
      BY <1>a
    <3> QED
      BY <3>1, <1>10, <1>a, SaveTyped DEF CloseWindow, SaveFails
  <2>2. owned' \in [Stored -> SUBSET Entries]
    BY <1>10, <1>a DEF CloseWindow
  <2> QED
    BY <1>10, <2>1, <2>2, GoneTyped DEF CloseWindow
<1>11. CASE MoveFolder
  BY <1>11 DEF MoveFolder, history, Places
<1>12. CASE CopyFile
  <2>1. Copied \in Files /\ (NextCopy => item' \in DOMAIN CopyOrder /\ pc' \in Places)
    BY CopyPlaces DEF NextCopy, Places
  <2>2. disk' \in [Folders -> [Files -> Docs]]
    <3>1. \/ disk' = disk
          \/ \E doc \in Docs : disk' = [disk EXCEPT ![target][Copied] = doc]
      BY <1>12, <1>a, <2>1, DocsAreDocs DEF CopyFile, CutShort
    <3> QED
      BY <2>1, <3>1
  <2>3. item' \in DOMAIN CopyOrder /\ pc' \in Places /\ target' \in Folders
    BY <1>12, <2>1, StoreAssumption DEF CopyFile, Places, CopyOrder
  <2>4. damages' \in 0..MaxDamage
    BY <1>12, StoreAssumption DEF CopyFile, CutShort
  <2> QED
    BY <1>12, <2>2, <2>3, <2>4 DEF CopyFile, history
<1>13. CASE EnsureTarget
  BY <1>13, <1>a, DocsAreDocs, StoreAssumption DEF EnsureTarget, Ensured, history, Places
<1>14. CASE Point
  <2>1. \A f \in Stored : disk[target][f].has \in SUBSET Entries
    BY <1>a, DocHoldsEntries
  <2>2. [f \in Stored |-> disk[target][f].has \ mem[f]] \in [Stored -> SUBSET Entries]
    BY <2>1
  <2> QED
    BY ZenonT(60), <1>14, <2>2, EmptyTyped, StoreAssumption DEF Point, Places
<1>15. CASE ResetFiles
  <2>1. disk' \in [Folders -> [Files -> Docs]]
    BY <1>15, DocsAreDocs DEF ResetFiles, ResetUpTo
  <2> QED
    BY <1>15, <2>1, EmptyTyped DEF ResetFiles, volatile, Places
<1>16. CASE ResetPoint
  BY <1>16, StoreAssumption DEF ResetPoint, Places, There
<1>17. CASE Crash
  <2>1. Copied \in Files
    BY CopyPlaces
  <2>2. disk' \in [Folders -> [Files -> Docs]]
    BY <1>17, <2>1, <1>a, DocsAreDocs DEF Crash, CutShort
  <2>3. damages' \in 0..MaxDamage
    BY <1>17, StoreAssumption DEF Crash, CutShort
  <2> QED
    BY <1>17, <2>2, <2>3, GoneTyped DEF Crash
<1>18. CASE DamageFile
  <2>1. PICK d \in Folders, f \in Files : disk' = [disk EXCEPT ![d][f] = Broken(@.has)]
    BY <1>18 DEF DamageFile
  <2>2. Broken(disk[d][f].has) \in Docs
    BY DocHoldsEntries, DocsAreDocs
  <2>3. disk' \in [Folders -> [Files -> Docs]]
    BY <2>1, <2>2
  <2>4. damages' \in 0..MaxDamage
    BY <1>18, StoreAssumption DEF DamageFile
  <2> QED
    BY <1>18, <2>3, <2>4 DEF DamageFile, volatile, history
<1>19. CASE UNCHANGED storeVars
  BY <1>19 DEF storeVars, volatile, history
<1> QED
  BY <1>1, <1>2, <1>3, <1>4, <1>5, <1>6, <1>7, <1>8, <1>9, <1>10, <1>11, <1>12, <1>13,
     <1>14, <1>15, <1>16, <1>17, <1>18, <1>19 DEF StoreNext

\* Every variable of the store keeps its type, whatever fails and wherever the
\* program is killed.
THEOREM StoreTyped == StoreSpec => []TypeOK
<1>1. StoreInit => TypeOK
  BY TypeStart
<1>2. TypeOK /\ [StoreNext]_storeVars => TypeOK'
  BY TypeStep
<1> QED
  BY <1>1, <1>2, PTL DEF StoreSpec

----------------------------------------------------------------------------
(* Nothing saved is lost.                                                  *)

\* The places where memory stands for a file: from its reading on.  A reload
\* whose first half fails falls back to the profiles read before.
Loaded(f) ==
    \/ pc \in {"merge", "unlink", "run", "copy", "ensure_target", "point"}
    \/ pc = "load_profiles" /\ f = "app_config"
    \/ pc = "load_app" /\ ~booting /\ f = "ip_profiles"

\* What the user owns of a loaded file is in memory, in a copy of a damaged
\* file, or among what memory is known to miss: a save replaces nothing else.
SaveIsSafe ==
    \A f \in Stored : Loaded(f) =>
        owned[f] \cap disk[active][f].has \subseteq mem[f] \cup Unseen(f) \cup backups

\* Presets are removed after the profiles that hold them were saved.
PresetsTakenOver ==
    /\ pc = "merge" => disk[active]["vendor_presets"].has \subseteq mem["ip_profiles"]
    /\ pc = "unlink" =>
          disk[active]["vendor_presets"].has \subseteq disk[active]["ip_profiles"].has

StoreInv ==
    /\ TypeOK
    /\ NothingSavedIsLost
    /\ SaveIsSafe
    /\ PresetsTakenOver
    /\ pc = "reset" => \A f \in Stored : owned[f] = {}
    /\ pc = "ensure" => booting

\* No file gives anything up: nothing is lost.
LEMMA KeepingLosesNothing ==
    ASSUME NothingSavedIsLost, backups \subseteq backups',
           \A d \in Folders, f \in Files : disk[d][f].has \subseteq disk'[d][f].has,
           \A f \in Stored : owned'[f] \subseteq owned[f]
    PROVE  NothingSavedIsLost'
<1> SUFFICES ASSUME NEW f \in Stored, NEW x \in owned'[f] PROVE Found(f, x)'
  BY DEF NothingSavedIsLost
<1>1. Found(f, x)
  BY DEF NothingSavedIsLost
<1>2. KeptIn(f) \subseteq Files
  BY DEF Files, KeptIn
<1> QED
  BY <1>1, <1>2 DEF Found

\* A save of entries that cover what is owned of the old file loses nothing.
LEMMA SavingLosesNothing ==
    ASSUME TypeOK, NothingSavedIsLost, backups \subseteq backups',
           NEW f \in Stored, NEW entries, Replace(active, f, entries),
           \A g \in Stored : g # f => owned'[g] \subseteq owned[g],
           owned'[f] \subseteq owned[f] \cup entries,
           owned'[f] \cap disk[active][f].has \subseteq entries \cup backups'
    PROVE  NothingSavedIsLost'
<1> SUFFICES ASSUME NEW g \in Stored, NEW x \in owned'[g] PROVE Found(g, x)'
  BY DEF NothingSavedIsLost
<1>1. active \in Folders /\ disk \in [Folders -> [Files -> Docs]] /\ f \in Files
  BY StoredFiles DEF TypeOK
<1>2. disk'[active][f].has = entries
  BY <1>1 DEF Replace, Whole
<1>3. \A d \in Folders, h \in Files : <<d, h>> # <<active, f>> => disk'[d][h] = disk[d][h]
  BY <1>1 DEF Replace
<1>4. KeptIn(g) \subseteq Files /\ f \in KeptIn(f)
      /\ (g # f => f \notin KeptIn(g))
  BY DEF KeptIn, Files, Stored
<1>5. CASE g = f /\ x \in entries
  BY <1>5, <1>2, <1>1, <1>4 DEF Found
<1>6. CASE g = f /\ x \notin entries
  <2>1. Found(f, x)
    BY <1>6 DEF NothingSavedIsLost
  <2>2. x \in backups' \/ x \notin disk[active][f].has
    BY <1>6
  <2> QED
    BY <1>6, <2>1, <2>2, <1>3, <1>4 DEF Found
<1>7. CASE g # f
  <2>1. Found(g, x)
    BY <1>7 DEF NothingSavedIsLost
  <2> QED
    BY <1>7, <2>1, <1>3, <1>4 DEF Found
<1> QED
  BY <1>5, <1>6, <1>7

LEMMA StoreStart == StoreInit => StoreInv
<1> SUFFICES ASSUME StoreInit PROVE StoreInv
  OBVIOUS
<1>1. NothingSavedIsLost
  BY StoreAssumption DEF StoreInit, NothingSavedIsLost, Found, KeptIn
<1> QED
  BY <1>1, TypeStart DEF StoreInit, StoreInv, SaveIsSafe, Loaded, PresetsTakenOver

\* The parts of the invariant that follow when the program ends or is not yet
\* past its first reading.
LEMMA NotLoaded ==
    ASSUME pc' \in {"off", "failed"}
    PROVE  /\ SaveIsSafe' /\ PresetsTakenOver'
           /\ (pc' = "reset" => \A f \in Stored : owned'[f] = {})
           /\ (pc' = "ensure" => booting')
  BY DEF SaveIsSafe, Loaded, PresetsTakenOver

LEMMA LoadAppConfigStep == StoreInv /\ LoadAppConfig => StoreInv'
<1> SUFFICES ASSUME StoreInv, LoadAppConfig PROVE StoreInv'
  OBVIOUS
<1> DEFINE file == disk[active]["app_config"]
<1>0. TypeOK /\ TypeOK'
  BY TypeStep DEF StoreInv, StoreNext
<1>a. /\ active \in Folders /\ "app_config" \in Stored /\ "ip_profiles" \in Stored
      /\ Stored \subseteq Files /\ disk \in [Folders -> [Files -> Docs]]
      /\ mem \in [Stored -> SUBSET Entries] /\ unread \in [Stored -> SUBSET Entries]
      /\ skipped \in [Stored -> SUBSET Entries] /\ owned \in [Stored -> SUBSET Entries]
  BY <1>0 DEF TypeOK, Stored, Files
<1>1. PICK r \in Reads(active, "app_config") :
         LET lost == IF r.ok THEN {} ELSE file.has
         IN  /\ mem' = [mem EXCEPT !["app_config"] = r.has]
             /\ backups' = backups \cup r.copied
             /\ skipped' = [skipped EXCEPT !["app_config"] = {}]
             /\ \/ /\ r.ok /\ file.state = "whole"
                   /\ pc' = "load_profiles"
                   /\ unread' = [unread EXCEPT !["app_config"] = {}]
                   /\ UNCHANGED <<disk, owned>>
                \/ /\ ~(r.ok /\ file.state = "whole")
                   /\ pc' = "load_profiles"
                   /\ Replace(active, "app_config", {})
                   /\ unread' = [unread EXCEPT !["app_config"] = {}]
                   /\ owned' = [owned EXCEPT !["app_config"] = @ \ lost]
                \/ /\ ~(r.ok /\ file.state = "whole")
                   /\ Raise
                   /\ unread' = [unread EXCEPT !["app_config"] = lost]
                   /\ UNCHANGED <<disk, owned>>
  BY DEF LoadAppConfig, SaveFails
<1>2. /\ r.has # {} => file.has = r.has
      /\ r.ok => file.has \subseteq r.has \cup r.copied
      /\ r.ok /\ file.state = "whole" => r.has = file.has
  BY <1>0, <1>a, ReadsWhat
<1>b. r.has # {} => r.ok /\ file.state = "whole"
  BY DEF Reads
<1>3. pc = "load_app" /\ active' = active /\ booting' = booting
  BY DEF LoadAppConfig
<1>4. CASE r.ok /\ file.state = "whole"
  <2>1. /\ disk' = disk /\ owned' = owned /\ pc' = "load_profiles"
        /\ unread' = [unread EXCEPT !["app_config"] = {}]
    BY <1>1, <1>4
  <2>2. NothingSavedIsLost'
    BY <1>1, <2>1, KeepingLosesNothing DEF StoreInv
  <2>3. mem'["app_config"] = file.has
    BY <1>1, <1>2, <1>4, <1>a
  <2>4. SaveIsSafe'
    BY <1>3, <2>1, <2>3 DEF SaveIsSafe, Loaded, Unseen
  <2> QED
    BY <1>0, <2>1, <2>2, <2>4 DEF StoreInv, PresetsTakenOver
<1>5. CASE ~(r.ok /\ file.state = "whole") /\ Replace(active, "app_config", {})
           /\ pc' = "load_profiles"
           /\ owned' = [owned EXCEPT !["app_config"] =
                             @ \ (IF r.ok THEN {} ELSE file.has)]
  <2>1. owned'["app_config"] \cap file.has \subseteq backups'
    BY <1>1, <1>2, <1>5, <1>a, <1>b
  <2>2. NothingSavedIsLost'
    BY <1>0, <1>1, <1>5, <1>a, <2>1, SavingLosesNothing DEF StoreInv
  <2>3. disk'[active]["app_config"].has = {}
    BY <1>5, <1>a DEF Replace, Whole
  <2>4. SaveIsSafe'
    BY <1>3, <1>5, <2>3 DEF SaveIsSafe, Loaded
  <2> QED
    BY <1>0, <1>5, <2>2, <2>4 DEF StoreInv, PresetsTakenOver
<1>6. CASE ~(r.ok /\ file.state = "whole") /\ Raise /\ UNCHANGED <<disk, owned>>
           /\ unread' = [unread EXCEPT !["app_config"] = IF r.ok THEN {} ELSE file.has]
  <2>1. NothingSavedIsLost'
    BY <1>1, <1>6, KeepingLosesNothing DEF StoreInv
  <2>2. CASE booting
    BY <1>0, <1>6, <2>1, <2>2, NotLoaded DEF StoreInv, Raise
  <2>3. CASE ~booting
    <3>1. owned'["app_config"] \cap file.has \subseteq unread'["app_config"] \cup backups'
      BY <1>1, <1>2, <1>6, <1>a, <1>b
    <3>2. owned["ip_profiles"] \cap disk[active]["ip_profiles"].has
             \subseteq mem["ip_profiles"] \cup Unseen("ip_profiles") \cup backups
      BY <1>3, <2>3, <1>a DEF StoreInv, SaveIsSafe, Loaded
    <3>3. /\ mem'["ip_profiles"] = mem["ip_profiles"]
          /\ unread'["ip_profiles"] = unread["ip_profiles"]
          /\ skipped'["ip_profiles"] = skipped["ip_profiles"]
      BY <1>1, <1>6, <1>a
    <3>4. SaveIsSafe'
      BY <1>1, <1>3, <1>6, <3>1, <3>2, <3>3 DEF SaveIsSafe, Unseen, Stored
    <3> QED
      BY <1>0, <1>6, <2>1, <2>3, <3>4 DEF StoreInv, PresetsTakenOver, Raise
  <2> QED
    BY <2>2, <2>3
<1> QED
  BY <1>1, <1>4, <1>5, <1>6

LEMMA LoadProfilesStep == StoreInv /\ LoadProfiles => StoreInv'
<1> SUFFICES ASSUME StoreInv, LoadProfiles PROVE StoreInv'
  OBVIOUS
<1>0. TypeOK /\ TypeOK'
  BY TypeStep DEF StoreInv, StoreNext
<1>a. /\ active \in Folders /\ "ip_profiles" \in Files /\ "vendor_presets" \in Files
      /\ "ip_profiles" \in Stored
      /\ mem \in [Stored -> SUBSET Entries] /\ unread \in [Stored -> SUBSET Entries]
      /\ skipped \in [Stored -> SUBSET Entries]
  BY <1>0 DEF TypeOK, Stored, Files
<1>1. PICK r \in Reads(active, "ip_profiles"), q \in Reads(active, "vendor_presets") :
         /\ mem' = [mem EXCEPT !["ip_profiles"] = r.has \cup q.has]
         /\ backups' = backups \cup r.copied \cup q.copied
         /\ unread' = [unread EXCEPT !["ip_profiles"] =
                          IF r.ok THEN {} ELSE disk[active]["ip_profiles"].has]
         /\ skipped' = [skipped EXCEPT !["ip_profiles"] = {}]
         /\ pc' = IF q.has # {} THEN "merge"
                  ELSE IF q.ok /\ disk[active]["vendor_presets"].state = "whole"
                       THEN "unlink" ELSE "run"
  BY DEF LoadProfiles
<1>2. /\ r.ok => disk[active]["ip_profiles"].has \subseteq r.has \cup r.copied
      /\ q.has # {} => disk[active]["vendor_presets"].has = q.has
      /\ q.ok /\ disk[active]["vendor_presets"].state = "whole"
             => q.has = disk[active]["vendor_presets"].has
  BY <1>0, <1>a, ReadsWhat
<1>3. disk' = disk /\ owned' = owned /\ active' = active /\ pc = "load_profiles"
  BY DEF LoadProfiles
<1>4. NothingSavedIsLost'
  BY <1>1, <1>3, KeepingLosesNothing DEF StoreInv
<1>5. owned["app_config"] \cap disk[active]["app_config"].has
         \subseteq mem["app_config"] \cup Unseen("app_config") \cup backups
  BY <1>3 DEF StoreInv, SaveIsSafe, Loaded, Stored
<1>6. /\ mem'["app_config"] = mem["app_config"]
      /\ unread'["app_config"] = unread["app_config"]
      /\ skipped'["app_config"] = skipped["app_config"]
  BY <1>1, <1>a
<1>7. disk[active]["ip_profiles"].has
         \subseteq mem'["ip_profiles"] \cup unread'["ip_profiles"] \cup backups'
  BY <1>1, <1>2, <1>a
<1>8. SaveIsSafe'
  BY <1>1, <1>3, <1>5, <1>6, <1>7 DEF SaveIsSafe, Unseen, Stored
<1>9. PresetsTakenOver'
  BY <1>1, <1>2, <1>3, <1>a DEF PresetsTakenOver
<1> QED
  BY <1>0, <1>1, <1>4, <1>8, <1>9 DEF StoreInv

LEMMA MergePresetsStep == StoreInv /\ MergePresets => StoreInv'
<1> SUFFICES ASSUME StoreInv, MergePresets PROVE StoreInv'
  OBVIOUS
<1>0. TypeOK /\ TypeOK'
  BY TypeStep DEF StoreInv, StoreNext
<1>a. /\ active \in Folders /\ "ip_profiles" \in Stored /\ "ip_profiles" \in Files
      /\ "app_config" # "vendor_presets" /\ disk \in [Folders -> [Files -> Docs]]
      /\ owned \in [Stored -> SUBSET Entries] /\ "vendor_presets" \in Files
      /\ "app_config" \in Files
  BY <1>0 DEF TypeOK, Stored, Files
<1>1. /\ pc = "merge" /\ active' = active /\ mem' = mem /\ backups' = backups
      /\ unread' = unread /\ skipped' = skipped /\ booting' = booting
  BY DEF MergePresets, volatile
<1>2. \A f \in Stored : owned[f] \cap disk[active][f].has \subseteq
                            mem[f] \cup Unseen(f) \cup backups
  BY <1>1 DEF StoreInv, SaveIsSafe, Loaded
<1>3. CASE /\ Replace(active, "ip_profiles", mem["ip_profiles"])
           /\ pc' = "unlink"
           /\ owned' = [owned EXCEPT !["ip_profiles"] = @ \ Unseen("ip_profiles")]
  <2>1. NothingSavedIsLost'
    BY <1>0, <1>1, <1>2, <1>3, <1>a, SavingLosesNothing DEF StoreInv
  <2>2. /\ disk'[active]["ip_profiles"].has = mem["ip_profiles"]
        /\ disk'[active]["app_config"] = disk[active]["app_config"]
        /\ disk'[active]["vendor_presets"] = disk[active]["vendor_presets"]
    BY <1>3, <1>a DEF Replace, Whole
  <2>3. \A f \in Stored : owned'[f] \subseteq owned[f]
    BY <1>3, <1>a
  <2>4. SaveIsSafe'
    BY <1>1, <1>2, <2>2, <2>3 DEF SaveIsSafe, Unseen, Stored
  <2> QED
    BY <1>0, <1>1, <1>3, <2>1, <2>2, <2>4 DEF StoreInv, PresetsTakenOver
<1>4. CASE Raise /\ UNCHANGED <<disk, owned>>
  <2>1. NothingSavedIsLost'
    BY <1>1, <1>4, KeepingLosesNothing DEF StoreInv
  <2>2. SaveIsSafe'
    BY <1>1, <1>2, <1>4 DEF SaveIsSafe, Unseen
  <2> QED
    BY <1>0, <1>4, <2>1, <2>2 DEF StoreInv, PresetsTakenOver, Raise
<1> QED
  BY <1>3, <1>4 DEF MergePresets, SaveJson, SaveFails

LEMMA UnlinkPresetsStep == StoreInv /\ UnlinkPresets => StoreInv'
<1> SUFFICES ASSUME StoreInv, UnlinkPresets PROVE StoreInv'
  OBVIOUS
<1>0. TypeOK /\ TypeOK'
  BY TypeStep DEF StoreInv, StoreNext
<1>1. /\ pc = "unlink" /\ pc' = "run" /\ active' = active /\ mem' = mem
      /\ backups' = backups /\ unread' = unread /\ skipped' = skipped /\ owned' = owned
  BY DEF UnlinkPresets, volatile, history
<1>2. PICK left \in {Absent, disk[active]["vendor_presets"]} :
         disk' = [disk EXCEPT ![active]["vendor_presets"] = left]
  BY DEF UnlinkPresets
<1>a. /\ active \in Folders /\ disk \in [Folders -> [Files -> Docs]]
      /\ "vendor_presets" \in Files /\ "vendor_presets" \notin Stored /\ Stored \subseteq Files
  BY <1>0 DEF TypeOK, Stored, Files
<1>3. \A d \in Folders, f \in Stored : disk'[d][f] = disk[d][f]
  BY <1>2, <1>a
<1>4. \A d \in Folders : d # active => disk'[d] = disk[d]
  BY <1>2, <1>a
<1>5. disk[active]["vendor_presets"].has \subseteq disk[active]["ip_profiles"].has
  BY <1>1 DEF StoreInv, PresetsTakenOver
<1>6. NothingSavedIsLost'
  <2> SUFFICES ASSUME NEW f \in Stored, NEW x \in owned[f] PROVE Found(f, x)'
    BY <1>1 DEF NothingSavedIsLost
  <2>1. Found(f, x)
    BY DEF StoreInv, NothingSavedIsLost
  <2>2. CASE x \in backups
    BY <2>2, <1>1 DEF Found
  <2>3. ASSUME NEW d \in Folders, x \in disk[d][f].has PROVE Found(f, x)'
    BY <2>3, <1>3 DEF Found, KeptIn
  <2>4. ASSUME NEW d \in Folders, f = "ip_profiles", x \in disk[d]["vendor_presets"].has
        PROVE  Found(f, x)'
    <3>1. CASE d = active
      BY <3>1, <2>4, <2>3, <1>5, <1>a
    <3>2. CASE d # active
      BY <3>2, <2>4, <1>4 DEF Found, KeptIn
    <3> QED
      BY <3>1, <3>2
  <2> QED
    BY <2>1, <2>2, <2>3, <2>4 DEF Found, KeptIn
<1>7. SaveIsSafe'
  BY <1>1, <1>3, <1>a DEF StoreInv, SaveIsSafe, Loaded, Unseen
<1> QED
  BY <1>0, <1>1, <1>6, <1>7 DEF StoreInv, PresetsTakenOver

LEMMA ChangeMoves ==
    ASSUME StoreInv, TypeOK', NEW f \in Stored, NEW entries \in SUBSET Entries,
           Change(f, entries)
    PROVE  StoreInv'
<1> DEFINE given == mem[f] \ entries
<1>0. TypeOK
  BY DEF StoreInv
<1>a. /\ active \in Folders /\ f \in Files /\ disk \in [Folders -> [Files -> Docs]]
      /\ mem \in [Stored -> SUBSET Entries] /\ owned \in [Stored -> SUBSET Entries]
      /\ Stored \subseteq Files
  BY <1>0, StoredFiles DEF TypeOK
<1>1. /\ pc = "run" /\ pc' = "run" /\ active' = active
      /\ mem' = [mem EXCEPT ![f] = entries]
      /\ backups' = backups /\ unread' = unread /\ skipped' = skipped
  BY DEF Change
<1>2. \A g \in Stored : owned[g] \cap disk[active][g].has \subseteq
                            mem[g] \cup Unseen(g) \cup backups
  BY <1>1 DEF StoreInv, SaveIsSafe, Loaded
<1>3. CASE /\ Replace(active, f, entries)
           /\ owned' = [owned EXCEPT ![f] =
                           (@ \ (given \cup Unseen(f))) \cup (entries \ mem[f])]
  <2>1. owned'[f] \cap disk[active][f].has \subseteq entries \cup backups'
    BY <1>1, <1>2, <1>3, <1>a
  <2>2. NothingSavedIsLost'
    BY <1>0, <1>1, <1>3, <1>a, <2>1, SavingLosesNothing DEF StoreInv
  <2>3. disk'[active][f].has = entries
        /\ \A g \in Stored : g # f => disk'[active][g] = disk[active][g]
    BY <1>3, <1>a DEF Replace, Whole
  <2>4. \A g \in Stored : g # f => owned'[g] = owned[g] /\ mem'[g] = mem[g]
    BY <1>1, <1>3, <1>a
  <2>5. mem'[f] = entries
    BY <1>1, <1>a
  <2>6. SaveIsSafe'
    BY <1>1, <1>2, <2>3, <2>4, <2>5 DEF SaveIsSafe, Unseen
  <2> QED
    BY <1>1, <2>2, <2>6 DEF StoreInv, PresetsTakenOver
<1>4. CASE UNCHANGED disk /\ owned' = [owned EXCEPT ![f] = @ \ given]
  <2>1. \A g \in Stored : owned'[g] \subseteq owned[g]
    BY <1>4, <1>a
  <2>2. NothingSavedIsLost'
    BY <1>1, <1>4, <2>1, KeepingLosesNothing DEF StoreInv
  <2>3. owned'[f] \cap disk[active][f].has \subseteq mem'[f] \cup Unseen(f) \cup backups
    BY <1>1, <1>2, <1>4, <1>a
  <2>4. \A g \in Stored : g # f => mem'[g] = mem[g]
    BY <1>1, <1>a
  <2>5. SaveIsSafe'
    BY <1>1, <1>2, <1>4, <2>1, <2>3, <2>4 DEF SaveIsSafe, Unseen
  <2> QED
    BY <1>1, <2>2, <2>5 DEF StoreInv, PresetsTakenOver
<1> QED
  BY <1>3, <1>4 DEF Change, SaveJson, SaveFails

LEMMA CloseWindowStep == StoreInv /\ CloseWindow => StoreInv'
<1> SUFFICES ASSUME StoreInv, CloseWindow PROVE StoreInv'
  OBVIOUS
<1>0. TypeOK /\ TypeOK'
  BY TypeStep DEF StoreInv, StoreNext
<1>a. "app_config" \in Stored /\ owned \in [Stored -> SUBSET Entries]
  BY <1>0 DEF TypeOK, Stored
<1>1. pc = "run" /\ pc' = "off" /\ backups' = backups
  BY DEF CloseWindow, Gone
<1>2. owned["app_config"] \cap disk[active]["app_config"].has \subseteq
        mem["app_config"] \cup Unseen("app_config") \cup backups
  BY <1>1, <1>a DEF StoreInv, SaveIsSafe, Loaded
<1>3. CASE /\ Replace(active, "app_config", mem["app_config"])
           /\ owned' = [owned EXCEPT !["app_config"] = @ \ Unseen("app_config")]
  <2>1. NothingSavedIsLost'
    BY <1>0, <1>1, <1>2, <1>3, <1>a, SavingLosesNothing DEF StoreInv
  <2> QED
    BY <1>0, <1>1, <2>1, NotLoaded DEF StoreInv
<1>4. CASE UNCHANGED <<disk, owned>>
  <2>1. NothingSavedIsLost'
    BY <1>1, <1>4, KeepingLosesNothing DEF StoreInv
  <2> QED
    BY <1>0, <1>1, <2>1, NotLoaded DEF StoreInv
<1> QED
  BY <1>3, <1>4 DEF CloseWindow, SaveJson, SaveFails

\* The steps of a move take nothing away from any file, nor from the file in
\* use anything memory would have to know of.
LEMMA CopyFileStep == StoreInv /\ CopyFile => StoreInv'
<1> SUFFICES ASSUME StoreInv, CopyFile PROVE StoreInv'
  OBVIOUS
<1>0. TypeOK /\ TypeOK'
  BY TypeStep DEF StoreInv, StoreNext
<1>a. /\ active \in Folders /\ target \in Folders /\ Copied \in Files
      /\ disk \in [Folders -> [Files -> Docs]] /\ Stored \subseteq Files
  BY <1>0, CopyPlaces, StoredFiles DEF TypeOK
<1>1. /\ pc = "copy" /\ pc' \in {"copy", "ensure_target", "run"} /\ active' = active
      /\ mem' = mem /\ backups' = backups /\ owned' = owned /\ unread' = unread
      /\ skipped' = skipped
  BY DEF CopyFile, NextCopy, history
<1>2. \/ disk' = disk
      \/ /\ There(active, Copied) /\ ~There(target, Copied)
         /\ \E doc \in Docs : disk' = [disk EXCEPT ![target][Copied] = doc]
  BY <1>a, DocsAreDocs DEF CopyFile, CutShort
<1>3. \A d \in Folders, f \in Files : disk[d][f].has \subseteq disk'[d][f].has
  <2>1. ~There(target, Copied) => disk[target][Copied].has = {}
    BY <1>0, <1>a, MissingHoldsNothing
  <2> QED
    BY <1>2, <1>a, <2>1
<1>4. \A f \in Stored : disk'[active][f] = disk[active][f]
  BY <1>2, <1>a
<1>5. NothingSavedIsLost'
  BY <1>1, <1>3, KeepingLosesNothing DEF StoreInv
<1>6. SaveIsSafe'
  BY <1>1, <1>4 DEF StoreInv, SaveIsSafe, Loaded, Unseen
<1> QED
  BY <1>0, <1>1, <1>5, <1>6 DEF StoreInv, PresetsTakenOver

\* The files made where there were none hold nothing, and the others are as
\* they were.
LEMMA EnsuredKeeps ==
    ASSUME TypeOK, NEW d \in Folders, NEW made \in SUBSET Missing(d), Ensured(d, made)
    PROVE  \A e \in Folders, f \in Files : disk'[e][f].has = disk[e][f].has
<1> SUFFICES ASSUME NEW e \in Folders, NEW f \in Files
             PROVE  disk'[e][f].has = disk[e][f].has
  OBVIOUS
<1>1. disk \in [Folders -> [Files -> Docs]] /\ Missing(d) \subseteq Files
  BY StoredFiles DEF TypeOK, Missing
<1>2. CASE e = d /\ f \in made
  <2>1. disk[e][f].has = {}
    BY <1>1, <1>2, MissingHoldsNothing DEF Missing
  <2>2. disk'[e][f] = Whole({})
    BY <1>1, <1>2 DEF Ensured
  <2> QED
    BY <2>1, <2>2 DEF Whole
<1>3. CASE ~(e = d /\ f \in made)
  BY <1>1, <1>3 DEF Ensured
<1> QED
  BY <1>2, <1>3

LEMMA PointStep == StoreInv /\ Point => StoreInv'
<1> SUFFICES ASSUME StoreInv, Point PROVE StoreInv'
  OBVIOUS
<1>0. TypeOK /\ TypeOK'
  BY TypeStep DEF StoreInv, StoreNext
<1>1. /\ pc = "point" /\ pc' = "run" /\ mem' = mem /\ backups' = backups
      /\ owned' = owned /\ disk' = disk
  BY DEF Point
<1>2. NothingSavedIsLost'
  BY <1>1, KeepingLosesNothing DEF StoreInv
<1>3. CASE active' = target /\ skipped' = [f \in Stored |-> disk[target][f].has \ mem[f]]
  BY <1>0, <1>1, <1>2, <1>3 DEF StoreInv, SaveIsSafe, Unseen, PresetsTakenOver
<1>4. CASE UNCHANGED <<active, skipped, unread>>
  BY <1>0, <1>1, <1>2, <1>4 DEF StoreInv, SaveIsSafe, Loaded, Unseen, PresetsTakenOver
<1> QED
  BY <1>3, <1>4 DEF Point

LEMMA ResetFilesStep == StoreInv /\ ResetFiles => StoreInv'
<1> SUFFICES ASSUME StoreInv, ResetFiles PROVE StoreInv'
  OBVIOUS
<1>0. TypeOK'
  BY TypeStep DEF StoreInv, StoreNext
<1>1. pc' \in {"reset", "run"} /\ \A f \in Stored : owned'[f] = {}
  BY DEF ResetFiles, Empty
<1> QED
  BY <1>0, <1>1 DEF StoreInv, NothingSavedIsLost, SaveIsSafe, PresetsTakenOver

\* Every step keeps the invariant.
LEMMA StoreStep == StoreInv /\ [StoreNext]_storeVars => StoreInv'
<1> SUFFICES ASSUME StoreInv, [StoreNext]_storeVars PROVE StoreInv'
  OBVIOUS
<1>0. TypeOK /\ TypeOK'
  BY TypeStep DEF StoreInv
<1>a. active \in Folders /\ target \in Folders /\ Stored \subseteq Files
      /\ disk \in [Folders -> [Files -> Docs]] /\ "vendor_presets" \in Files
  BY <1>0, StoredFiles DEF TypeOK, Files
<1>1. CASE Start
  <2>1. NothingSavedIsLost'
    BY <1>1, KeepingLosesNothing DEF StoreInv, Start, history
  <2> QED
    BY <1>0, <1>1, <2>1 DEF StoreInv, Start, history, SaveIsSafe, Loaded, PresetsTakenOver
<1>2. CASE EnsureRuntimeFiles
  <2>1. \A e \in Folders, f \in Files : disk'[e][f].has = disk[e][f].has
    BY <1>0, <1>2, <1>a, EnsuredKeeps DEF EnsureRuntimeFiles
  <2>2. NothingSavedIsLost'
    BY <1>2, <2>1, KeepingLosesNothing DEF StoreInv, EnsureRuntimeFiles, volatile, history
  <2> QED
    BY <1>0, <1>2, <2>2
    DEF StoreInv, EnsureRuntimeFiles, Raise, SaveIsSafe, Loaded, PresetsTakenOver
<1>3. CASE SaveAppConfig \/ SaveIpProfiles
  BY <1>0, <1>3, UserChanges, ChangeMoves
<1>4. CASE ReloadConfigFiles
  <2>1. NothingSavedIsLost'
    BY <1>4, KeepingLosesNothing DEF StoreInv, ReloadConfigFiles, volatile, history
  <2> QED
    BY <1>0, <1>4, <2>1
    DEF StoreInv, ReloadConfigFiles, volatile, history, SaveIsSafe, Loaded, Unseen,
        PresetsTakenOver
<1>5. CASE MoveFolder
  <2>1. NothingSavedIsLost'
    BY <1>5, KeepingLosesNothing DEF StoreInv, MoveFolder, history
  <2> QED
    BY <1>0, <1>5, <2>1
    DEF StoreInv, MoveFolder, history, SaveIsSafe, Loaded, Unseen, PresetsTakenOver
<1>6. CASE EnsureTarget
  <2>1. \A e \in Folders, f \in Files : disk'[e][f].has = disk[e][f].has
    BY <1>0, <1>6, <1>a, EnsuredKeeps DEF EnsureTarget
  <2>2. NothingSavedIsLost'
    BY <1>6, <2>1, KeepingLosesNothing DEF StoreInv, EnsureTarget, history
  <2>3. SaveIsSafe'
    BY <1>6, <1>a, <2>1 DEF StoreInv, EnsureTarget, history, SaveIsSafe, Loaded, Unseen
  <2> QED
    BY <1>0, <1>6, <2>2, <2>3 DEF StoreInv, EnsureTarget, PresetsTakenOver
<1>7. CASE ResetPoint
  <2>1. pc = "reset" /\ pc' \in {"run", "load_app"} /\ \A f \in Stored : owned'[f] = {}
    BY <1>7 DEF StoreInv, ResetPoint
  <2> QED
    BY <1>0, <2>1 DEF StoreInv, NothingSavedIsLost, SaveIsSafe, PresetsTakenOver
<1>8. CASE Crash
  <2>1. Copied \in Files
    BY <1>0, CopyPlaces DEF TypeOK
  <2>2. \A d \in Folders, f \in Files : disk[d][f].has \subseteq disk'[d][f].has
    <3>1. ~There(target, Copied) => disk[target][Copied].has = {}
      BY <1>0, <1>a, <2>1, MissingHoldsNothing
    <3> QED
      BY <1>8, <1>a, <2>1, <3>1 DEF Crash, CutShort
  <2>3. NothingSavedIsLost'
    BY <1>8, <2>2, KeepingLosesNothing DEF StoreInv, Crash
  <2> QED
    BY <1>0, <1>8, <2>3, NotLoaded DEF StoreInv, Crash, Gone
<1>9. CASE DamageFile
  <2>1. PICK d \in Folders, f \in Files : disk' = [disk EXCEPT ![d][f] = Broken(@.has)]
    BY <1>9 DEF DamageFile
  <2>2. \A e \in Folders, g \in Files : disk'[e][g].has = disk[e][g].has
    BY <2>1, <1>a DEF Broken
  <2>3. NothingSavedIsLost'
    BY <1>9, <2>2, KeepingLosesNothing DEF StoreInv, DamageFile, volatile, history
  <2>4. SaveIsSafe'
    BY <1>9, <1>a, <2>2
    DEF StoreInv, DamageFile, volatile, history, SaveIsSafe, Loaded, Unseen
  <2>5. PresetsTakenOver'
    BY <1>9, <1>a, <2>2 DEF StoreInv, DamageFile, volatile, PresetsTakenOver, Stored
  <2> QED
    BY <1>0, <1>9, <2>3, <2>4, <2>5 DEF StoreInv, DamageFile, volatile, history
<1>10. CASE UNCHANGED storeVars
  BY <1>0, <1>10
  DEF storeVars, volatile, history, StoreInv, NothingSavedIsLost, Found, SaveIsSafe, Loaded,
      Unseen, PresetsTakenOver
<1> QED
  BY <1>1, <1>2, <1>3, <1>4, <1>5, <1>6, <1>7, <1>8, <1>9, <1>10, LoadAppConfigStep,
     LoadProfilesStep, MergePresetsStep, UnlinkPresetsStep, CloseWindowStep, CopyFileStep,
     PointStep, ResetFilesStep DEF StoreNext

\* What the user saved and did not delete can be found again in a settings file
\* or in a copy of a damaged one, after any crashes, failed reads and writes,
\* moves and take-overs, whatever the folders and however many files are damaged.
THEOREM SavedIsNeverLost == StoreSpec => []NothingSavedIsLost
<1>1. StoreInit => StoreInv
  BY StoreStart
<1>2. StoreInv /\ [StoreNext]_storeVars => StoreInv'
  BY StoreStep
<1>3. StoreInv => NothingSavedIsLost
  BY DEF StoreInv
<1> QED
  BY <1>1, <1>2, <1>3, PTL DEF StoreSpec

----------------------------------------------------------------------------
(* A reset is complete.  While it counts, the default folder is the one in  *)
(* use and holds nothing, so what is read again is nothing; a move away     *)
(* writes into another folder only.                                         *)

Idle == {"run", "copy", "ensure_target", "point", "reset"}

ResetHolds ==
    /\ pointer = Home /\ active = Home
    /\ \A f \in Stored : disk[Home][f].has = {}
    /\ ~There(Home, "vendor_presets")
    /\ pc \notin {"merge", "unlink"}
    /\ pc \in Idle => \A f \in Stored : mem[f] = {}
    /\ pc = "load_profiles" => mem["app_config"] = {}

ResetInv ==
    /\ TypeOK
    /\ reset => ResetHolds
    /\ pc = "reset" => \A f \in Stored : disk[Home][f].has = {}
    /\ pc \in {"copy", "ensure_target", "point"} => target # active
    /\ pc = "ensure" => booting

\* The files of the default folder a step leaves alone, or empties.
HomeStaysEmpty ==
    /\ \A f \in Stored : disk[Home][f].has = {} => disk'[Home][f].has = {}
    /\ ~There(Home, "vendor_presets") => ~There(Home, "vendor_presets")'

LEMMA OthersFilesStay ==
    ASSUME TypeOK, NEW d \in Folders, NEW f \in Files, NEW doc, d # Home,
           disk' = [disk EXCEPT ![d][f] = doc]
    PROVE  HomeStaysEmpty
<1>1. disk \in [Folders -> [Files -> Docs]] /\ Home \in Folders BY StoreAssumption DEF TypeOK
<1>2. disk'[Home] = disk[Home] BY <1>1
<1> QED BY <1>2 DEF HomeStaysEmpty, There

LEMMA SavedFileStays ==
    ASSUME TypeOK, NEW d \in Folders, NEW f \in Stored, disk' = [disk EXCEPT ![d][f] = Whole({})]
    PROVE  HomeStaysEmpty
<1>1. /\ disk \in [Folders -> [Files -> Docs]] /\ Home \in Folders
      /\ Stored \subseteq Files /\ "vendor_presets" \in Files /\ "vendor_presets" \notin Stored
  BY StoreAssumption, StoredFiles DEF TypeOK, Files, Stored
<1>2. /\ \A g \in Files : disk'[Home][g] = disk[Home][g] \/ (disk'[Home][g] = Whole({}) /\ g = f)
  BY <1>1
<1> QED BY <1>1, <1>2 DEF HomeStaysEmpty, There, Whole

LEMMA EnsuredStays ==
    ASSUME TypeOK, NEW d \in Folders, NEW made \in SUBSET Missing(d), Ensured(d, made)
    PROVE  HomeStaysEmpty
<1>1. /\ disk \in [Folders -> [Files -> Docs]] /\ Home \in Folders
      /\ Stored \subseteq Files /\ "vendor_presets" \in Files /\ "vendor_presets" \notin Stored
      /\ made \subseteq Stored
  BY StoreAssumption, StoredFiles DEF TypeOK, Files, Stored, Missing
<1>2. \A f \in Files : disk'[Home][f] = disk[Home][f] \/ (disk'[Home][f] = Whole({}) /\ f \in made)
  BY <1>1 DEF Ensured
<1> QED BY <1>1, <1>2 DEF HomeStaysEmpty, There, Whole

LEMMA CutShortStays ==
    ASSUME TypeOK, target # Home, CutShort
    PROVE  HomeStaysEmpty
<1>1. Copied \in Files BY CopyPlaces DEF TypeOK
<1>2. disk' = [disk EXCEPT ![target][Copied] = Torn] /\ target \in Folders BY DEF CutShort, TypeOK
<1> QED BY <1>1, <1>2, OthersFilesStay

LEMMA LoadsNothing ==
    ASSUME TypeOK, ResetHolds, NEW f \in Files, NEW r \in Reads(active, f)
    PROVE  r.has = {} /\ (f = "vendor_presets" => disk[active][f].state = "absent")
<1>1. disk[active][f].has = {}
  <2>1. Home \in Folders /\ f \in Stored \cup {"vendor_presets"} BY StoreAssumption DEF Files
  <2> QED BY <2>1, MissingHoldsNothing DEF ResetHolds, Files
<1>2. r.has # {} => disk[active][f].has = r.has BY ReadsWhat
<1> QED BY <1>1, <1>2 DEF ResetHolds, There

LEMMA ResetStart == StoreInit => ResetInv
<1>1. StoreInit => pc = "off" /\ reset = FALSE BY DEF StoreInit
<1> QED BY <1>1, TypeStart DEF ResetInv

\* The steps that read.
LEMMA ReadingKeepsReset ==
    ASSUME ResetInv, TypeOK', LoadAppConfig \/ LoadProfiles PROVE ResetInv'
<1>0. TypeOK /\ Stored \subseteq Files /\ active \in Folders BY StoredFiles DEF ResetInv, TypeOK
<1>1. CASE LoadAppConfig
  <2>1. PICK r \in Reads(active, "app_config") :
          /\ mem' = [mem EXCEPT !["app_config"] = r.has]
          /\ \/ pc' = "load_profiles" /\ disk' = disk
             \/ pc' = "load_profiles" /\ disk' = [disk EXCEPT ![active]["app_config"] = Whole({})]
             \/ pc' \in {"failed", "run"} /\ disk' = disk
    BY <1>1 DEF LoadAppConfig, Replace, SaveFails, Raise
  <2>2. /\ UNCHANGED <<pointer, active, target>> /\ reset' = (reset /\ pc' # "run")
    BY <1>1 DEF LoadAppConfig
  <2>3. HomeStaysEmpty
    <3>1. CASE disk' = disk BY <3>1 DEF HomeStaysEmpty, There
    <3>2. CASE disk' = [disk EXCEPT ![active]["app_config"] = Whole({})]
      <4>1. "app_config" \in Stored BY DEF Stored
      <4> QED BY <1>0, <3>2, <4>1, SavedFileStays
    <3> QED BY <2>1, <3>1, <3>2
  <2>4. reset' => ResetHolds'
    <3> SUFFICES ASSUME reset' PROVE ResetHolds' OBVIOUS
    <3>1. ResetHolds /\ pc' # "run" BY <2>2 DEF ResetInv
    <3>2. r.has = {} /\ "app_config" \in Stored
      <4>1. "app_config" \in Stored /\ "app_config" \in Files BY DEF Stored, Files
      <4> QED BY <1>0, <3>1, <4>1, LoadsNothing
    <3>3. mem'["app_config"] = {} BY <1>0, <2>1, <3>2 DEF TypeOK
    <3> QED BY <2>1, <2>2, <2>3, <3>1, <3>3 DEF ResetHolds, HomeStaysEmpty, Idle
  <2> QED BY <2>1, <2>2, <2>4 DEF ResetInv
<1>2. CASE LoadProfiles
  <2>1. PICK r \in Reads(active, "ip_profiles"), q \in Reads(active, "vendor_presets") :
          /\ mem' = [mem EXCEPT !["ip_profiles"] = r.has \cup q.has]
          /\ pc' = IF q.has # {} THEN "merge"
                   ELSE IF q.ok /\ disk[active]["vendor_presets"].state = "whole" THEN "unlink" ELSE "run"
    BY <1>2 DEF LoadProfiles
  <2>2. pc = "load_profiles" /\ UNCHANGED <<disk, pointer, active, target, reset>>
    BY <1>2 DEF LoadProfiles
  <2>3. pc' \in {"merge", "unlink", "run"} BY <2>1
  <2>4. reset' => ResetHolds'
    <3> SUFFICES ASSUME reset' PROVE ResetHolds' OBVIOUS
    <3>1. ResetHolds BY <2>2 DEF ResetInv
    <3>2. "ip_profiles" \in Stored /\ "ip_profiles" \in Files /\ "vendor_presets" \in Files BY DEF Stored, Files
    <3>3. r.has = {} /\ q.has = {} /\ disk[active]["vendor_presets"].state = "absent"
      BY <1>0, <3>1, <3>2, LoadsNothing
    <3>4. pc' = "run" BY <2>1, <3>3
    <3>5. \A f \in Stored : mem'[f] = {}
      <4>1. mem["app_config"] = {} BY <2>2, <3>1 DEF ResetHolds
      <4>2. mem \in [Stored -> SUBSET Entries] /\ Stored = {"app_config", "ip_profiles"} BY <1>0 DEF TypeOK, Stored
      <4> QED BY <2>1, <3>3, <4>1, <4>2
    <3> QED BY <2>2, <3>1, <3>4, <3>5 DEF ResetHolds, There
  <2> QED BY <2>2, <2>3, <2>4 DEF ResetInv
<1> QED BY <1>1, <1>2

\* The steps of a move.
LEMMA MovingKeepsReset ==
    ASSUME ResetInv, TypeOK', MoveFolder \/ CopyFile \/ EnsureTarget \/ Point PROVE ResetInv'
<1>0. TypeOK /\ target \in Folders /\ active \in Folders BY DEF ResetInv, TypeOK
<1>1. CASE MoveFolder
  <2>1. pc = "run" /\ pc' = "copy" /\ target' # active /\ UNCHANGED <<disk, pointer, active, mem, reset>>
    BY <1>1 DEF MoveFolder, history
  <2> QED BY <2>1 DEF ResetInv, ResetHolds, Idle, There
<1>2. CASE CopyFile
  <2>1. /\ pc = "copy" /\ UNCHANGED <<pointer, active, mem, reset>>
        /\ \/ pc' = "run"
           \/ pc' \in {"copy", "ensure_target"} /\ target' = target
    BY <1>2 DEF CopyFile, NextCopy, history
  <2>2. reset => HomeStaysEmpty
    <3> SUFFICES ASSUME reset PROVE HomeStaysEmpty OBVIOUS
    <3>1. target # Home BY <2>1 DEF ResetInv, ResetHolds
    <3>2. Copied \in Files BY <1>0, CopyPlaces DEF TypeOK
    <3>3. CASE disk' = disk BY <3>3 DEF HomeStaysEmpty, There
    <3>4. CASE disk' = [disk EXCEPT ![target][Copied] = disk[active][Copied]]
      BY <1>0, <3>1, <3>2, <3>4, OthersFilesStay
    <3>5. CASE CutShort BY <1>0, <3>1, <3>5, CutShortStays
    <3> QED BY <1>2, <3>3, <3>4, <3>5 DEF CopyFile
  <2> QED BY <2>1, <2>2 DEF ResetInv, ResetHolds, HomeStaysEmpty, Idle
<1>3. CASE EnsureTarget
  <2>1. /\ pc = "ensure_target" /\ UNCHANGED <<pointer, active, mem, reset>>
        /\ \/ pc' = "run"
           \/ pc' = "point" /\ target' = target
    BY <1>3 DEF EnsureTarget, history
  <2>2. HomeStaysEmpty
    <3>1. PICK made \in SUBSET Missing(target) : Ensured(target, made) BY <1>3 DEF EnsureTarget
    <3> QED BY <1>0, <3>1, EnsuredStays
  <2> QED BY <2>1, <2>2 DEF ResetInv, ResetHolds, HomeStaysEmpty, Idle
<1>4. CASE Point
  <2>1. /\ pc = "point" /\ pc' = "run" /\ UNCHANGED <<disk, mem>>
        /\ reset' = FALSE \/ UNCHANGED <<pointer, active, reset>>
    BY <1>4 DEF Point
  <2> QED BY <2>1 DEF ResetInv, ResetHolds, Idle, There
<1> QED BY <1>1, <1>2, <1>3, <1>4

\* The reset itself.
LEMMA ResettingKeepsReset ==
    ASSUME ResetInv, TypeOK', ResetFiles \/ ResetPoint PROVE ResetInv'
<1>0. /\ TypeOK /\ Stored \subseteq Files /\ Home \in Folders
      /\ "vendor_presets" \in Files /\ "vendor_presets" \notin Stored
      /\ Stored = {"app_config", "ip_profiles"}
  BY StoredFiles, StoreAssumption DEF ResetInv, Files, Stored
<1>1. CASE ResetFiles
  <2>1. PICK n \in 0 .. Len(ResetOrder), made \in SUBSET Missing(Home) :
          /\ ResetUpTo(n, made)
          /\ pc' = IF n = Len(ResetOrder) THEN "reset" ELSE "run"
    BY <1>1 DEF ResetFiles
  <2>2. pc = "run" /\ UNCHANGED <<pointer, active, target, mem, reset>> BY <1>1 DEF ResetFiles, volatile
  <2>3. /\ Len(ResetOrder) = 4
        /\ ResetOrder[1] = <<active, "app_config">> /\ ResetOrder[2] = <<active, "ip_profiles">>
        /\ ResetOrder[3] = <<Home, "app_config">> /\ ResetOrder[4] = <<Home, "ip_profiles">>
    BY DEF ResetOrder
  <2>4. \A f \in Files : disk'[Home][f] =
          IF f \in made \/ \E i \in 1 .. n : ResetOrder[i] = <<Home, f>> THEN Whole({}) ELSE disk[Home][f]
    BY <1>0, <2>1 DEF ResetUpTo
  <2>5. /\ \A i \in 1 .. n : ResetOrder[i] # <<Home, "vendor_presets">>
        /\ "vendor_presets" \notin made
    <3>1. \A i \in 1 .. n : i \in {1, 2, 3, 4} BY <2>1, <2>3
    <3> QED BY <1>0, <2>3, <3>1 DEF Missing
  <2>6. HomeStaysEmpty
    <3>1. disk'[Home]["vendor_presets"] = disk[Home]["vendor_presets"] BY <1>0, <2>4, <2>5
    <3>2. \A f \in Stored : disk[Home][f].has = {} => disk'[Home][f].has = {} BY <1>0, <2>4 DEF Whole
    <3> QED BY <3>1, <3>2 DEF HomeStaysEmpty, There
  <2>7. pc' = "reset" => \A f \in Stored : disk'[Home][f].has = {}
    <3> SUFFICES ASSUME n = 4, NEW f \in Stored PROVE disk'[Home][f].has = {} BY <2>1, <2>3
    <3>1. \E i \in 1 .. n : ResetOrder[i] = <<Home, f>> BY <1>0, <2>3
    <3>2. disk'[Home][f] = Whole({}) BY <1>0, <2>4, <3>1
    <3> QED BY <3>2 DEF Whole
  <2>8. pc' \in {"reset", "run"} BY <2>1
  <2>9. reset' => ResetHolds' BY <2>2, <2>6, <2>8 DEF ResetInv, ResetHolds, HomeStaysEmpty, Idle
  <2> QED BY <2>2, <2>7, <2>8, <2>9 DEF ResetInv
<1>2. CASE ResetPoint
  <2>1. /\ pc = "reset" /\ UNCHANGED <<disk, mem, target>>
    BY <1>2 DEF ResetPoint
  <2>2. CASE reset' = ~There(Home, "vendor_presets") /\ pc' = "load_app" /\ pointer' = Home /\ active' = Home
    <3>1. reset' => ResetHolds'
      BY <2>1, <2>2 DEF ResetInv, ResetHolds, Idle, There
    <3> QED BY <2>2, <3>1 DEF ResetInv
  <2>3. CASE pc' = "run" /\ UNCHANGED <<pointer, active, reset>>
    <3>1. reset' => ResetHolds'
      BY <2>1, <2>3 DEF ResetInv, ResetHolds, Idle, There
    <3> QED BY <2>3, <3>1 DEF ResetInv
  <2> QED BY <1>2, <2>2, <2>3 DEF ResetPoint
<1> QED BY <1>1, <1>2

LEMMA ResetStep == ResetInv /\ [StoreNext]_storeVars => ResetInv'
<1> SUFFICES ASSUME ResetInv, [StoreNext]_storeVars PROVE ResetInv' OBVIOUS
<1>0. TypeOK /\ TypeOK' /\ active \in Folders /\ Home \in Folders /\ Stored \subseteq Files
  BY TypeStep, StoreAssumption, StoredFiles DEF ResetInv, TypeOK
<1>1. CASE Start
  <2>1. pc' = "ensure" /\ active' \in {pointer, Home} /\ booting' /\ UNCHANGED <<disk, pointer, reset>>
    BY <1>1 DEF Start, history
  <2> QED BY <1>0, <2>1 DEF ResetInv, ResetHolds, Idle, There
<1>2. CASE EnsureRuntimeFiles
  <2>1. PICK made \in SUBSET Missing(active) : Ensured(active, made) BY <1>2 DEF EnsureRuntimeFiles
  <2>2. /\ pc = "ensure" /\ pc' \in {"load_app", "failed", "run"}
        /\ UNCHANGED <<pointer, active, target, mem, reset>>
        /\ pc' = "run" => ~booting
    BY <1>2 DEF EnsureRuntimeFiles, Raise, volatile, history
  <2>3. HomeStaysEmpty BY <1>0, <2>1, EnsuredStays
  <2> QED BY <1>0, <2>2, <2>3 DEF ResetInv, ResetHolds, HomeStaysEmpty, Idle
<1>3. CASE MergePresets \/ UnlinkPresets
  <2>1. ~reset BY <1>3 DEF ResetInv, ResetHolds, MergePresets, UnlinkPresets
  <2>2. CASE MergePresets
    <3>1. ~reset' BY <2>1, <2>2 DEF MergePresets
    <3>2. pc' \in {"unlink", "run", "failed"} BY <2>2 DEF MergePresets, Raise
    <3> QED BY <1>0, <3>1, <3>2 DEF ResetInv
  <2>3. CASE UnlinkPresets
    <3>1. ~reset' /\ pc' = "run" BY <2>1, <2>3 DEF UnlinkPresets, history
    <3> QED BY <1>0, <3>1 DEF ResetInv
  <2> QED BY <1>3, <2>2, <2>3
<1>4. CASE SaveAppConfig \/ SaveIpProfiles
  <2>1. PICK f \in Stored, entries \in SUBSET Entries : Change(f, entries) BY <1>0, <1>4, UserChanges
  <2>2. pc = "run" /\ pc' = "run" /\ reset' = FALSE BY <2>1 DEF Change
  <2> QED BY <1>0, <2>2 DEF ResetInv
<1>5. CASE ReloadConfigFiles
  <2>1. pc = "run" /\ pc' = "load_app" /\ UNCHANGED <<disk, pointer, active, mem, reset>>
    BY <1>5 DEF ReloadConfigFiles, volatile, history
  <2> QED BY <1>0, <2>1 DEF ResetInv, ResetHolds, Idle, There
<1>6. CASE CloseWindow
  <2>1. pc = "run" /\ pc' = "off" /\ active' = Home /\ UNCHANGED <<pointer, reset>> BY <1>6 DEF CloseWindow, Gone
  <2>2. reset => HomeStaysEmpty
    <3> SUFFICES ASSUME reset PROVE HomeStaysEmpty OBVIOUS
    <3>1. "app_config" \in Stored BY DEF Stored
    <3>2. mem["app_config"] = {} BY <2>1, <3>1 DEF ResetInv, ResetHolds, Idle
    <3>3. disk' = disk \/ disk' = [disk EXCEPT ![active]["app_config"] = Whole({})]
      BY <1>6, <3>2 DEF CloseWindow, SaveJson, Replace, SaveFails
    <3>4. CASE disk' = disk BY <3>4 DEF HomeStaysEmpty, There
    <3> QED BY <1>0, <3>1, <3>3, <3>4, SavedFileStays
  <2> QED BY <1>0, <2>1, <2>2 DEF ResetInv, ResetHolds, HomeStaysEmpty, Idle
<1>7. CASE Crash
  <2>1. pc' = "off" /\ active' = Home /\ UNCHANGED <<pointer, reset>> BY <1>7 DEF Crash, Gone
  <2>2. reset => HomeStaysEmpty
    <3> SUFFICES ASSUME reset PROVE HomeStaysEmpty OBVIOUS
    <3>1. CASE disk' = disk BY <3>1 DEF HomeStaysEmpty, There
    <3>2. CASE pc = "copy" /\ CutShort
      <4>1. target # Home BY <3>2 DEF ResetInv, ResetHolds
      <4> QED BY <1>0, <3>2, <4>1, CutShortStays
    <3> QED BY <1>7, <3>1, <3>2 DEF Crash
  <2> QED BY <1>0, <2>1, <2>2 DEF ResetInv, ResetHolds, HomeStaysEmpty, Idle
<1>8. CASE DamageFile
  <2>1. PICK d \in Folders, f \in Files :
          /\ disk[d][f].state = "whole" /\ disk[d][f].has # {}
          /\ disk' = [disk EXCEPT ![d][f] = Broken(disk[d][f].has)]
    BY <1>8 DEF DamageFile
  <2>2. UNCHANGED <<pointer, pc, booting, active, mem, target, reset>> BY <1>8 DEF DamageFile, volatile, history
  <2>3. /\ \A g \in Stored : disk[Home][g].has = {} => disk'[Home][g].has = {}
        /\ ~There(Home, "vendor_presets") => ~There(Home, "vendor_presets")'
    <3>1. disk \in [Folders -> [Files -> Docs]] /\ "vendor_presets" \in Files BY <1>0 DEF TypeOK, Files
    <3>2. \A g \in Files : disk'[Home][g] = disk[Home][g] \/ (g = f /\ d = Home) BY <1>0, <2>1, <3>1
    <3>3. ~There(Home, "vendor_presets") => ~(f = "vendor_presets" /\ d = Home) BY <2>1 DEF There
    <3> QED BY <1>0, <2>1, <3>1, <3>2, <3>3 DEF There
  <2> QED BY <1>0, <2>2, <2>3 DEF ResetInv, ResetHolds
<1>9. CASE UNCHANGED storeVars
  <2>1. UNCHANGED <<disk, pointer, pc, booting, active, mem, target, reset>> BY <1>9 DEF storeVars, volatile, history
  <2> QED BY <1>0, <2>1 DEF ResetInv, ResetHolds, There
<1> QED BY <1>0, <1>1, <1>2, <1>3, <1>4, <1>5, <1>6, <1>7, <1>8, <1>9, ReadingKeepsReset, MovingKeepsReset,
           ResettingKeepsReset DEF StoreNext

\* After a reset without an error and without old presets, nothing the user had is in
\* memory or in the files in use, whatever else fails, is damaged or is killed until
\* the user saves something again or moves the folder (app_state.py reset_all_settings).
THEOREM ResetAlwaysComplete == StoreSpec => []ResetIsComplete
<1>1. ResetInv => ResetIsComplete
  <2> SUFFICES ASSUME ResetInv, reset, pc = "run" PROVE \A f \in Stored : mem[f] = {} /\ disk[active][f].has = {}
    BY DEF ResetIsComplete
  <2> QED BY DEF ResetInv, ResetHolds, Idle
<1> QED BY <1>1, ResetStart, ResetStep, PTL DEF StoreSpec

----------------------------------------------------------------------------
(* DataFolder.                                                             *)

\* Of the settings: a portable copy that was worked with has its own.
ConfigStates == {"none", "own", "installed", "torn", "default"}
BootRecords ==
    [st : {"off", "elsewhere", "import", "upgrade", "moves", "running"}, base : {"results", "custom"},
     next : Nat \ {0}, saved : {"", "logs/exports", "custom"}, starts : Nat, ran : BOOLEAN]
DataTyped ==
    /\ config \in [{"app_config", "ip_profiles", "rules"} -> ConfigStates]
    /\ boot \in BootRecords
DataInv ==
    /\ DataTyped
    /\ boot.ran => config["app_config"] # "none"
    /\ boot.st = "import" => ~boot.ran

LEMMA CopiedFiles ==
    ASSUME NEW i \in Nat, i # 0, i <= Len(Copies)
    PROVE  Copies[i] \in {"app_config", "ip_profiles", "rules"}
  BY DEF Copies

LEMMA OneIsFirst == 1 \in Nat \ {0}
  OBVIOUS

LEMMA DataStart == DataInit => DataInv
<1> SUFFICES ASSUME DataInit PROVE DataInv
  OBVIOUS
<1>1. {Copies[i] : i \in DOMAIN Copies} = {"app_config", "ip_profiles", "rules"}
  BY DEF Copies
<1>2. PICK has \in SUBSET OldPlaces, saved \in {"", "logs/exports", "custom"} :
          /\ config = [file \in {Copies[i] : i \in DOMAIN Copies} |-> IF has = {} THEN "none" ELSE "own"]
          /\ boot = [st |-> "off", base |-> "results", next |-> 1, saved |-> IF has = {} THEN "" ELSE saved,
                     starts |-> 0, ran |-> has # {}]
  BY DEF DataInit
<1> QED
  <2> USE <1>1, <1>2
  <2>1. config \in [{"app_config", "ip_profiles", "rules"} -> ConfigStates]
    BY DEF ConfigStates
  <2>2. boot.st = "off" /\ (boot.ran <=> has # {})
    OBVIOUS
  <2>3. boot \in BootRecords
    BY OneIsFirst DEF BootRecords
  <2>4. boot.ran => config["app_config"] # "none"
    BY <2>2
  <2>5. DataTyped
    BY <2>1, <2>3 DEF DataTyped
  <2> QED
    BY ONLY <2>2, <2>4, <2>5 DEF DataInv

\* Where the settings stay, and the start only goes on, they are as they were.
LEMMA DataStep == DataInv /\ [DataNext]_dataVars => DataInv'
<1> SUFFICES ASSUME DataInv, [DataNext]_dataVars PROVE DataInv'
  OBVIOUS
<1>0. boot.starts + 1 \in Nat /\ boot.next + 1 \in Nat /\ boot.next + 1 # 0
  <2>1. boot.starts \in Nat /\ boot.next \in Nat
    BY DEF DataInv, DataTyped, BootRecords
  <2> QED
    BY <2>1
<1>1. CASE StartElsewhere
  <2>1. boot' = [boot EXCEPT !.starts = boot.starts + 1, !.st = "elsewhere"] /\ UNCHANGED config
    BY <1>1 DEF StartElsewhere
  <2> QED
    BY <1>0, <2>1 DEF DataInv, DataTyped, BootRecords
<1>2. CASE StartHere
  <2>1. PICK base \in {"results", "custom"} :
          boot' = [boot EXCEPT !.starts = boot.starts + 1, !.next = 1, !.st = ImportOrMoves(config), !.base = base]
    BY <1>2 DEF StartHere
  <2>2. /\ ImportOrMoves(config) \in {"import", "upgrade"}
        /\ ImportOrMoves(config) = "import" <=> config["app_config"] = "none"
    BY DEF ImportOrMoves
  <2>3. UNCHANGED config
    BY <1>2 DEF StartHere
  <2> HIDE DEF ImportOrMoves
  <2>4. /\ boot' \in BootRecords
        /\ boot'.st = ImportOrMoves(config) /\ boot'.ran = boot.ran
    BY <1>0, <2>1, <2>2, OneIsFirst DEF DataInv, DataTyped, BootRecords
  <2> QED
    BY <2>2, <2>3, <2>4 DEF DataInv, DataTyped
<1>3. CASE ImportFile
  <2>1. Copies[boot.next] \in {"app_config", "ip_profiles", "rules"}
    BY <1>3, CopiedFiles DEF ImportFile, DataInv, DataTyped, BootRecords
  <2>2. Len(Copies) = 3
    BY DEF Copies
  <2>3. Skipped(boot.next) \in Nat /\ Skipped(boot.next) # 0
    BY <2>2 DEF Skipped
  <2>4. \E n \in Nat \ {0} : boot' = [boot EXCEPT !.next = n]
    BY <1>0, <1>3, <2>3 DEF ImportFile
  <2>5. boot' \in BootRecords /\ boot'.ran = boot.ran /\ boot'.st = boot.st
    BY <2>4 DEF DataInv, DataTyped, BootRecords
  <2>6. \/ UNCHANGED config
        \/ config' = [config EXCEPT ![Copies[boot.next]] = IF @ = "none" THEN "installed" ELSE @]
    BY <1>3 DEF ImportFile
  <2> QED
    BY <2>1, <2>5, <2>6 DEF DataInv, DataTyped, ConfigStates
<1>4. CASE ImportKilled
  <2>1. Copies[boot.next] \in {"app_config", "ip_profiles", "rules"}
    BY <1>4, CopiedFiles DEF ImportKilled, DataInv, DataTyped, BootRecords
  <2> QED
    BY <1>4, <2>1 DEF ImportKilled, DataInv, DataTyped, BootRecords, ConfigStates
<1>5. CASE ImportEnds
  BY <1>5 DEF ImportEnds, DataInv, DataTyped, BootRecords
<1>6. CASE UpgradePaths
  <2>1. PICK saved \in {"", "logs/exports", "custom"} :
          boot' = [boot EXCEPT !.st = "moves", !.next = 1, !.saved = saved]
    BY <1>6 DEF UpgradePaths, DataInv, DataTyped, BootRecords
  <2>2. boot' \in BootRecords /\ boot'.ran = boot.ran /\ boot'.st = "moves"
    BY <2>1, OneIsFirst DEF DataInv, DataTyped, BootRecords
  <2>3. UNCHANGED config
    BY <1>6 DEF UpgradePaths
  <2>4. DataTyped'
    BY <2>2, <2>3 DEF DataInv, DataTyped
  <2> QED
    BY <2>2, <2>3, <2>4 DEF DataInv
<1>7. CASE MoveFile
  <2>1. boot' = [boot EXCEPT !.next = boot.next + 1] /\ UNCHANGED config
    BY <1>7 DEF MoveFile
  <2> QED
    BY <1>0, <2>1 DEF DataInv, DataTyped, BootRecords
<1>8. CASE MoveFails
  <2>1. boot' = [boot EXCEPT !.next = boot.next + 1] /\ UNCHANGED config
    BY <1>8 DEF MoveFails
  <2> QED
    BY <1>0, <2>1 DEF DataInv, DataTyped, BootRecords
<1>9. CASE MoveKilled
  BY <1>9 DEF MoveKilled, DataInv, DataTyped, BootRecords
<1>10. CASE Ready
  BY <1>10 DEF Ready, MadeAtStart, DataInv, DataTyped, BootRecords, ConfigStates
<1>11. CASE RemoveRules
  BY <1>11 DEF RemoveRules, DataInv, DataTyped, BootRecords, ConfigStates
<1>12. CASE End
  BY <1>12 DEF End, DataInv, DataTyped, BootRecords
<1>13. CASE \E file \in DOMAIN config : ChangeSetting(file)
  BY <1>13 DEF ChangeSetting, DataInv, DataTyped, ConfigStates
<1>14. CASE \E saved \in {"", "custom"} : ChooseResultsFolder(saved)
  BY <1>14 DEF ChooseResultsFolder, DataInv, DataTyped, BootRecords
<1>15. CASE \E p \in OldFolders : RunOldVersion(p)
  BY <1>15 DEF RunOldVersion, DataInv, DataTyped, BootRecords
<1>16. CASE UNCHANGED dataVars
  BY <1>16 DEF dataVars, DataInv, DataTyped, BootRecords
<1> QED
  BY <1>1, <1>2, <1>3, <1>4, <1>5, <1>6, <1>7, <1>8, <1>9, <1>10, <1>11, <1>12, <1>13, <1>14, <1>15, <1>16 DEF DataNext

\* What one step does to the results, and to the settings.
ResultsKeptByStep ==
    \/ UNCHANGED results
    \/ \A p \in DOMAIN results :
         /\ results[p].whole => \E q \in DOMAIN results' : results'[q] = results[p]
         /\ p[1] \in Bases => p \in DOMAIN results' /\ results'[p] = results[p]
ImportFreshByStep ==
    \/ UNCHANGED config
    \/ \A file \in DOMAIN config :
         /\ (config'[file] = "installed" /\ config[file] # "installed") => ~boot.ran
         /\ (config[file] = "own" /\ config'[file] # "own") => file = "rules" /\ config'[file] = "none"

\* A file put where none was leaves the others.
LEMMA PutKeeps ==
    ASSUME NEW place, place \notin DOMAIN results, NEW file, results' = Put(place, file)
    PROVE  ResultsKeptByStep
  BY DEF Put, ResultsKeptByStep

LEMMA MoveKeeps ==
    ASSUME Movable, results' = Moved
    PROVE  ResultsKeptByStep
<1>1. Source \in DOMAIN results /\ Target \notin DOMAIN results
  BY DEF Movable
<1>2. Source[1] \notin Bases
  BY DEF Source, Bases
<1> SUFFICES ASSUME NEW p \in DOMAIN results
             PROVE  /\ \E q \in DOMAIN results' : results'[q] = results[p]
                    /\ p[1] \in Bases => p \in DOMAIN results' /\ results'[p] = results[p]
  BY DEF ResultsKeptByStep
<1>3. CASE p = Source
  <2>1. Target \in DOMAIN results' /\ results'[Target] = results[Source]
    BY DEF Moved
  <2> QED
    BY <1>2, <1>3, <2>1
<1>4. CASE p # Source
  <2>1. p \in DOMAIN results' /\ results'[p] = results[p]
    BY <1>1, <1>4 DEF Moved
  <2> QED
    BY <2>1
<1> QED
  BY <1>3, <1>4

LEMMA ResultsStep == [DataNext]_dataVars => ResultsKeptByStep
<1> SUFFICES ASSUME [DataNext]_dataVars PROVE ResultsKeptByStep
  OBVIOUS
<1>1. CASE MoveFile
  BY <1>1, MoveKeeps DEF MoveFile, ResultsKeptByStep
<1>2. CASE MoveFails
  BY <1>2, PutKeeps DEF MoveFails, Movable, ResultsKeptByStep
<1>3. CASE MoveKilled
  BY <1>3, PutKeeps DEF MoveKilled, Movable
<1>4. CASE \E p \in OldFolders : RunOldVersion(p)
  BY <1>4, PutKeeps DEF RunOldVersion
<1>5. CASE UNCHANGED results
  BY <1>5 DEF ResultsKeptByStep
<1> QED
  BY <1>1, <1>2, <1>3, <1>4, <1>5 DEF DataNext, dataVars, StartElsewhere, StartHere, ImportFile, ImportKilled,
     ImportEnds, UpgradePaths, Ready, RemoveRules, End, ChangeSetting, ChooseResultsFolder

LEMMA ImportStep == DataInv /\ [DataNext]_dataVars => ImportFreshByStep
<1> SUFFICES ASSUME DataInv, [DataNext]_dataVars PROVE ImportFreshByStep
  OBVIOUS
<1>1. CASE ImportFile
  BY <1>1 DEF ImportFile, DataInv, DataTyped, ImportFreshByStep
<1>2. CASE ImportKilled
  BY <1>2 DEF ImportKilled, DataInv, DataTyped, ImportFreshByStep
<1>3. CASE Ready
  BY <1>3 DEF Ready, ImportFreshByStep
<1>4. CASE RemoveRules
  BY <1>4 DEF RemoveRules, DataInv, DataTyped, ImportFreshByStep
<1>5. CASE \E file \in DOMAIN config : ChangeSetting(file)
  BY <1>5 DEF ChangeSetting, DataInv, DataTyped, ImportFreshByStep
<1>6. CASE UNCHANGED config
  BY <1>6 DEF ImportFreshByStep
<1> QED
  BY <1>1, <1>2, <1>3, <1>4, <1>5, <1>6 DEF DataNext, dataVars, StartElsewhere, StartHere,
     ImportEnds, UpgradePaths, MoveFile, MoveFails, MoveKilled, End, ChooseResultsFolder, RunOldVersion

(* Whatever the folders hold and wherever a start breaks off: no result that *)
(* was whole is lost or written over, and the settings of an installed copy  *)
(* come only into a folder nobody has worked with.                           *)
THEOREM DataAlwaysKept == DataInit /\ [][DataNext]_dataVars => DataIsKept
<1>1. DataInit => DataInv
  BY DataStart
<1>2. DataInv /\ [DataNext]_dataVars => DataInv'
  BY DataStep
<1>3. [DataNext]_dataVars => [ResultsKeptByStep]_dataVars
  BY ResultsStep
<1>4. DataInv /\ [DataNext]_dataVars => [ImportFreshByStep]_dataVars
  BY ImportStep
<1> QED
  BY <1>1, <1>2, <1>3, <1>4, PTL
     DEF DataIsKept, ResultsAreKept, ImportIsForFreshFolders, ResultsKeptByStep, ImportFreshByStep

----------------------------------------------------------------------------
(* WindowScan.                                                             *)

Samples == [ok : BOOLEAN, found : Findings]
ScanTyped ==
    window \in [st : {"slot", "sample", "rest", "report", "done"}, duration : Nat \ {0}, interval : Nat \ {0},
                now : Nat, samples : Seq(Samples), stop : BOOLEAN, cancelled : BOOLEAN,
                limit : BOOLEAN, unstable : SUBSET Seen]

\* A sample that failed holds nothing.
FailedFindNothing ==
    \A i \in DOMAIN window.samples : ~window.samples[i].ok => DOMAIN window.samples[i].found = {}

\* No more samples than planned: a slot is waited for only while one is missing.
SamplesFit ==
    /\ Taken <= Planned
    /\ window.st = "sample" => Taken < Planned

\* What a scan that is over has to say for itself.
ScanIsWhole ==
    /\ window.limit => window.st \in {"report", "done"} /\ Taken = SampleCap
    /\ (window.st \in {"report", "done"} /\ ~window.cancelled) => window.limit \/ window.now >= window.duration

\* The access points that come, go or move, as the samples tell.
Fickle ==
    {ap \in Seen : \E i, j \in DOMAIN window.samples :
        LET f == window.samples[i].found  g == window.samples[j].found IN
        /\ ap \in DOMAIN f
        /\ \/ window.samples[j].ok /\ ap \notin DOMAIN g
           \/ ap \in DOMAIN g /\ f[ap] # g[ap]}
ReportIsTheirs == window.st = "done" => window.unstable = Fickle

ScanInv == ScanTyped /\ FailedFindNothing /\ SamplesFit /\ ScanIsWhole /\ ReportIsTheirs

\* What appending does to a sequence.
LEMMA AppendTold ==
    ASSUME NEW S, NEW s \in Seq(S), NEW e \in S, NEW t, t = Append(s, e)
    PROVE  /\ t \in Seq(S) /\ Len(s) \in Nat /\ Len(t) = Len(s) + 1
           /\ DOMAIN s = 1 .. Len(s) /\ DOMAIN t = 1 .. Len(s) + 1
           /\ \A i \in DOMAIN s : i \in DOMAIN t /\ i # Len(s) + 1 /\ t[i] = s[i]
           /\ \A i \in DOMAIN t : i \in DOMAIN s \/ i = Len(s) + 1
           /\ t[Len(s) + 1] = e
OBVIOUS

\* The plan: a number of samples, no more than the cap.
LEMMA PlanIsCapped ==
    ASSUME ScanTyped
    PROVE  /\ Requested \in Nat /\ Planned \in Nat /\ Taken \in Nat /\ SampleCap \in Nat
           /\ Planned <= SampleCap
           /\ Requested > Planned => Planned = SampleCap
<1>1. window.duration \in Nat /\ window.interval \in Nat /\ window.interval # 0 /\ window.samples \in Seq(Samples)
  BY DEF ScanTyped
<1>2. SampleCap \in Nat
  BY WindowAssumption
<1>3. window.duration + window.interval - 1 \in Nat
  BY <1>1
<1>4. Requested \in Nat
  BY <1>1, <1>3 DEF Requested
<1>5. Taken \in Nat
  BY <1>1 DEF Taken
<1> QED
  BY <1>2, <1>4, <1>5 DEF Planned

\* The sets that are counted are finite.
LEMMA SampleSets ==
    ASSUME ScanTyped, NEW S \in SUBSET (DOMAIN window.samples)
    PROVE  IsFiniteSet(S) /\ Cardinality(S) \in Nat
<1>1. window.samples \in Seq(Samples)
  BY DEF ScanTyped
<1>2. DOMAIN window.samples = 1 .. Len(window.samples) /\ Len(window.samples) \in Nat
  BY <1>1
<1>3. IsFiniteSet(1 .. Len(window.samples))
  BY <1>2, FS_Interval
<1> QED
  BY <1>2, <1>3, FS_Subset, FS_CardinalityType

LEMMA ChannelSets ==
    ASSUME ScanTyped, NEW ap
    PROVE  IsFiniteSet(ChannelsOf(ap)) /\ Cardinality(ChannelsOf(ap)) \in Nat
<1> DEFINE on == [i \in With(ap) |-> window.samples[i].found[ap]]
<1>1. on \in Surjection(With(ap), ChannelsOf(ap))
  BY DEF Surjection, ChannelsOf
<1>2. IsFiniteSet(With(ap))
  BY SampleSets DEF With
<1> HIDE DEF on
<1>3. IsFiniteSet(ChannelsOf(ap))
  BY <1>1, <1>2, FS_Surjection
<1> QED
  BY <1>3, FS_CardinalityType

\* More than one element is two that differ.
LEMMA MoreThanOne ==
    ASSUME NEW S, IsFiniteSet(S), Cardinality(S) \in Nat
    PROVE  Cardinality(S) > 1 <=> \E x, y \in S : x # y
<1>1. Cardinality(S) = 0 <=> S = {}
  BY FS_EmptySet
<1>2. Cardinality(S) = 1 <=> \E x : S = {x}
  BY FS_Singleton
<1>3. ASSUME Cardinality(S) > 1 PROVE \E x, y \in S : x # y
  <2>0. Cardinality(S) # 0 /\ Cardinality(S) # 1
    BY <1>3
  <2>1. S # {} /\ ~\E x : S = {x}
    BY <1>1, <1>2, <2>0
  <2>2. PICK x \in S : TRUE
    BY <2>1
  <2>3. PICK y \in S : y # x
    BY <2>1, <2>2
  <2> QED
    BY <2>2, <2>3
<1>4. ASSUME NEW x \in S, NEW y \in S, x # y PROVE Cardinality(S) > 1
  <2>1. S # {} /\ ~\E z : S = {z}
    BY <1>4
  <2>2. Cardinality(S) # 0 /\ Cardinality(S) # 1
    BY <1>1, <1>2, <2>1
  <2> QED
    BY <2>2
<1> QED
  BY <1>3, <1>4

(* What is counted says the same: an access point that fewer samples hold    *)
(* than have worked is missing in one of these.                              *)
LEMMA CountsTellFickle ==
    ASSUME ScanTyped, FailedFindNothing
    PROVE  {ap \in Seen : /\ With(ap) # {}
                          /\ \/ Cardinality(With(ap)) < OkSamples
                             \/ Cardinality(ChannelsOf(ap)) > 1} = Fickle
<1> DEFINE working == {i \in DOMAIN window.samples : window.samples[i].ok}
<1>1. IsFiniteSet(working) /\ Cardinality(working) \in Nat /\ OkSamples = Cardinality(working)
  BY SampleSets DEF OkSamples
<1> SUFFICES ASSUME NEW ap \in Seen
             PROVE  /\ With(ap) # {}
                    /\ \/ Cardinality(With(ap)) < OkSamples
                       \/ Cardinality(ChannelsOf(ap)) > 1
                    <=> \E i, j \in DOMAIN window.samples :
                          LET f == window.samples[i].found  g == window.samples[j].found IN
                          /\ ap \in DOMAIN f
                          /\ \/ window.samples[j].ok /\ ap \notin DOMAIN g
                             \/ ap \in DOMAIN g /\ f[ap] # g[ap]
  BY DEF Fickle
<1>2. With(ap) \subseteq working
  BY DEF With, FailedFindNothing
<1>3. Cardinality(With(ap)) \in Nat
  BY SampleSets DEF With
<1>4. Cardinality(With(ap)) <= Cardinality(working) /\ (Cardinality(working) = Cardinality(With(ap)) => working = With(ap))
  BY <1>1, <1>2, FS_Subset
<1>5. Cardinality(With(ap)) < OkSamples <=> With(ap) # working
  <2> HIDE DEF working
  <2> QED
    BY <1>1, <1>3, <1>4
<1>6. With(ap) # working <=> \E j \in DOMAIN window.samples : window.samples[j].ok /\ ap \notin DOMAIN window.samples[j].found
  BY <1>2 DEF With
<1>7. Cardinality(ChannelsOf(ap)) > 1 <=> \E x, y \in ChannelsOf(ap) : x # y
  BY ChannelSets, MoreThanOne
<1>8. (\E x, y \in ChannelsOf(ap) : x # y) <=>
        \E i, j \in With(ap) : window.samples[i].found[ap] # window.samples[j].found[ap]
  BY DEF ChannelsOf
<1>9. \A i : i \in With(ap) <=> i \in DOMAIN window.samples /\ ap \in DOMAIN window.samples[i].found
  BY DEF With
<1> HIDE DEF working
<1> QED
  BY <1>5, <1>6, <1>7, <1>8, <1>9

LEMMA ScanStart == WindowInit => ScanInv
<1> SUFFICES ASSUME WindowInit PROVE ScanInv
  OBVIOUS
<1>1. PICK d \in Durations, i \in Intervals :
        window = [st |-> "slot", duration |-> d, interval |-> i, now |-> 0, samples |-> <<>>,
                  stop |-> FALSE, cancelled |-> FALSE, limit |-> FALSE, unstable |-> {}]
  BY DEF WindowInit
<1>2. d \in Nat \ {0} /\ i \in Nat \ {0}
  BY WindowAssumption
<1>3. <<>> \in Seq(Samples)
  OBVIOUS
<1>4. ScanTyped
  BY <1>1, <1>2, <1>3 DEF ScanTyped
<1>5. Taken = 0 /\ DOMAIN window.samples = {}
  BY <1>1 DEF Taken
<1> QED
  BY <1>1, <1>4, <1>5, PlanIsCapped DEF ScanInv, FailedFindNothing, SamplesFit, ScanIsWhole, ReportIsTheirs

\* A step that takes no sample and writes no report leaves plan and samples.
LEMMA PlanStays ==
    ASSUME UNCHANGED <<window.duration, window.interval, window.samples>>
    PROVE  Requested' = Requested /\ Planned' = Planned /\ Taken' = Taken /\ Fickle' = Fickle
  BY DEF Requested, Planned, Taken, Fickle

LEMMA ScanStep == ScanInv /\ [WindowNext]_window => ScanInv'
<1> SUFFICES ASSUME ScanInv, [WindowNext]_window PROVE ScanInv'
  OBVIOUS
<1>0. /\ ScanTyped /\ Requested \in Nat /\ Planned \in Nat /\ Taken \in Nat /\ SampleCap \in Nat
      /\ Planned <= SampleCap
      /\ Requested > Planned => Planned = SampleCap
  BY PlanIsCapped DEF ScanInv
<1>1. CASE CancelWindow
  <2>1. window.st # "done" /\ window' = [window EXCEPT !.stop = TRUE]
    BY <1>1 DEF CancelWindow
  <2>2. ScanTyped'
    BY <1>0, <2>1 DEF ScanTyped
  <2>3. /\ UNCHANGED <<window.duration, window.interval, window.samples>>
        /\ UNCHANGED <<window.st, window.cancelled, window.limit, window.now, window.unstable>>
    BY <1>0, <2>1 DEF ScanTyped
  <2> QED
    BY <2>2, <2>3, PlanStays
       DEF ScanInv, FailedFindNothing, SamplesFit, ScanIsWhole, ReportIsTheirs
<1>2. CASE WaitForScanSlot
  <2>1. /\ window.st = "slot"
        /\ \/ Taken = Planned /\ window' = [window EXCEPT !.st = "rest"]
           \/ Taken # Planned /\ window' = [window EXCEPT !.st = "report", !.cancelled = TRUE]
           \/ Taken # Planned /\ window' = [window EXCEPT !.st = "rest"]
           \/ /\ Taken # Planned
              /\ \E st \in {"rest", "sample"} :
                   window' = [window EXCEPT !.now = Later(window.now, Taken * window.interval), !.st = st]
    BY <1>2 DEF WaitForScanSlot
  <2>2. Later(window.now, Taken * window.interval) \in Nat
    <3>1. window.now \in Nat /\ window.interval \in Nat
      BY <1>0 DEF ScanTyped
    <3>2. Taken * window.interval \in Nat
      BY <1>0, <3>1
    <3> QED
      BY <3>1, <3>2 DEF Later
  <2>3. /\ ScanTyped' /\ UNCHANGED <<window.duration, window.interval, window.samples, window.limit, window.unstable>>
        /\ \/ window'.st = "rest"
           \/ window'.st = "report" /\ window'.cancelled
           \/ window'.st = "sample" /\ Taken # Planned
    <3>1. CASE Taken = Planned /\ window' = [window EXCEPT !.st = "rest"]
      BY <1>0, <3>1 DEF ScanTyped
    <3>2. CASE Taken # Planned /\ window' = [window EXCEPT !.st = "report", !.cancelled = TRUE]
      BY <1>0, <3>2 DEF ScanTyped
    <3>3. CASE Taken # Planned /\ window' = [window EXCEPT !.st = "rest"]
      BY <1>0, <3>3 DEF ScanTyped
    <3>4. ASSUME Taken # Planned, NEW st \in {"rest", "sample"},
                 window' = [window EXCEPT !.now = Later(window.now, Taken * window.interval), !.st = st]
          PROVE  /\ ScanTyped' /\ UNCHANGED <<window.duration, window.interval, window.samples, window.limit, window.unstable>>
                 /\ \/ window'.st = "rest"
                    \/ window'.st = "sample" /\ Taken # Planned
      <4>1. PICK due \in Nat : window' = [window EXCEPT !.now = due, !.st = st]
        BY <2>2, <3>4
      <4> QED
        BY <1>0, <3>4, <4>1 DEF ScanTyped
    <3> QED
      BY <2>1, <3>1, <3>2, <3>3, <3>4
  <2>4. Taken # Planned => Taken < Planned
    BY <1>0 DEF ScanInv, SamplesFit
  <2>5. ~window.limit
    BY <2>1 DEF ScanInv, ScanIsWhole
  <2> QED
    BY <2>3, <2>4, <2>5, PlanStays
       DEF ScanInv, FailedFindNothing, SamplesFit, ScanIsWhole, ReportIsTheirs
<1>3. CASE TakeSample
  <2>1. PICK t \in SampleTimes, ok \in BOOLEAN, found \in Findings :
         /\ ~ok => found = NoFinding
         /\ window' = [window EXCEPT !.now = window.now + t, !.cancelled = window.stop,
                         !.st = IF window.stop THEN "report" ELSE "slot",
                         !.samples = Append(window.samples, [ok |-> ok, found |-> found])]
    BY <1>3 DEF TakeSample
  <2>2. window.now + t \in Nat
    <3>1. window.now \in Nat
      BY <1>0 DEF ScanTyped
    <3> QED
      BY <3>1, WindowAssumption
  <2>3. PICK sample \in Samples : /\ sample = [ok |-> ok, found |-> found]
                                  /\ ~sample.ok => DOMAIN sample.found = {}
    <3>1. [ok |-> ok, found |-> found] \in Samples
      BY DEF Samples
    <3>2. ~ok => DOMAIN found = {}
      BY <2>1 DEF NoFinding
    <3> QED
      BY <3>1, <3>2
  <2>4. window.samples \in Seq(Samples)
    BY <1>0 DEF ScanTyped
  <2>5. PICK samples \in Seq(Samples) : samples = Append(window.samples, sample)
    <3>1. Append(window.samples, sample) \in Seq(Samples)
      BY <2>4
    <3> QED
      BY <3>1
  <2>6. /\ ScanTyped' /\ UNCHANGED <<window.duration, window.interval, window.limit>> /\ window'.samples = samples
        /\ \/ window'.st = "slot"
           \/ window'.st = "report" /\ window'.cancelled
    BY <1>0, <2>1, <2>2, <2>3, <2>5 DEF ScanTyped
  <2>7. /\ Len(samples) = Taken + 1 /\ DOMAIN samples = 1 .. Taken + 1 /\ samples[Taken + 1] = sample
        /\ DOMAIN window.samples = 1 .. Taken
        /\ \A i \in DOMAIN window.samples : samples[i] = window.samples[i]
    BY <2>4, <2>5, AppendTold DEF Taken
  <2>8. FailedFindNothing'
    <3> SUFFICES ASSUME NEW i \in DOMAIN samples, ~samples[i].ok PROVE DOMAIN samples[i].found = {}
      BY <2>6 DEF FailedFindNothing
    <3>1. i \in DOMAIN window.samples \/ i = Taken + 1
      BY <1>0, <2>7
    <3> QED
      BY <2>3, <2>7, <3>1 DEF ScanInv, FailedFindNothing
  <2>9. Taken' = Taken + 1 /\ Planned' = Planned
    BY <2>6, <2>7 DEF Taken, Planned, Requested
  <2>10. window.st = "sample"
    BY <1>3 DEF TakeSample
  <2>11. Taken + 1 <= Planned
    BY <1>0, <2>10 DEF ScanInv, SamplesFit
  <2>12. ~window.limit
    BY <2>10 DEF ScanInv, ScanIsWhole
  <2> QED
    BY <2>6, <2>8, <2>9, <2>11, <2>12 DEF ScanInv, SamplesFit, ScanIsWhole, ReportIsTheirs
<1>4. CASE RestOfWindow
  <2>1. PICK limit \in BOOLEAN :
          /\ limit <=> Requested > Planned /\ Taken = Planned
          /\ window' = [window EXCEPT !.st = "report", !.limit = limit,
                          !.cancelled = ~limit /\ window.stop,
                          !.now = IF limit \/ window.stop THEN window.now ELSE Later(window.now, window.duration)]
    BY <1>4 DEF RestOfWindow
  <2>2. window.now \in Nat /\ window.duration \in Nat /\ window.stop \in BOOLEAN
    BY <1>0 DEF ScanTyped
  <2>3. Later(window.now, window.duration) \in Nat /\ Later(window.now, window.duration) >= window.duration
    BY <2>2 DEF Later
  <2>4. PICK now \in Nat, cancelled \in BOOLEAN :
          /\ cancelled <=> ~limit /\ window.stop
          /\ ~limit /\ ~window.stop => now >= window.duration
          /\ window' = [window EXCEPT !.st = "report", !.limit = limit, !.cancelled = cancelled, !.now = now]
    <3>1. CASE limit \/ window.stop
      BY <2>1, <2>2, <3>1
    <3>2. CASE ~(limit \/ window.stop)
      BY <2>1, <2>2, <2>3, <3>2
    <3> QED
      BY <3>1, <3>2
  <2>5. /\ ScanTyped' /\ UNCHANGED <<window.duration, window.interval, window.samples>>
        /\ window'.st = "report" /\ window'.limit = limit /\ window'.cancelled = cancelled /\ window'.now = now
    BY <1>0, <2>4 DEF ScanTyped
  <2>6. limit => Taken = SampleCap
    BY <1>0, <2>1
  <2>7. ~cancelled => limit \/ now >= window.duration
    BY <2>4
  <2> QED
    BY <2>5, <2>6, <2>7, PlanStays
       DEF ScanInv, FailedFindNothing, SamplesFit, ScanIsWhole, ReportIsTheirs
<1>5. CASE Report
  <2>1. window.st = "report" /\ window' = [window EXCEPT !.st = "done", !.unstable = Fickle]
    BY <1>0, <1>5, CountsTellFickle DEF Report, ScanInv
  <2>2. Fickle \in SUBSET Seen
    BY DEF Fickle
  <2>3. /\ ScanTyped' /\ window'.st = "done" /\ window'.unstable = Fickle
        /\ UNCHANGED <<window.duration, window.interval, window.samples>>
        /\ UNCHANGED <<window.cancelled, window.limit, window.now>>
    BY <1>0, <2>1, <2>2 DEF ScanTyped
  <2> QED
    BY <2>1, <2>3, PlanStays
       DEF ScanInv, FailedFindNothing, SamplesFit, ScanIsWhole, ReportIsTheirs
<1>6. CASE UNCHANGED window
  BY <1>6 DEF ScanInv, ScanTyped, FailedFindNothing, SamplesFit, ScanIsWhole, ReportIsTheirs,
     Taken, Planned, Requested, Fickle
<1> QED
  BY <1>1, <1>2, <1>3, <1>4, <1>5, <1>6 DEF WindowNext

(* Whatever access points come and go, however long samples take or fail:    *)
(* a report that was not cancelled calls unstable what is, and covers its    *)
(* window or says that the cap has ended it.                                 *)
THEOREM ScanAlwaysRight == WindowInit /\ [][WindowNext]_window => []WindowScanIsRight
<1>1. WindowInit => ScanInv
  BY ScanStart
<1>2. ScanInv /\ [WindowNext]_window => ScanInv'
  BY ScanStep
<1>3. ScanInv => WindowScanIsRight
  <2> SUFFICES ASSUME ScanInv PROVE WindowScanIsRight
    OBVIOUS
  <2>1. Taken <= SampleCap
    BY PlanIsCapped DEF ScanInv, SamplesFit
  <2> QED
    BY <2>1 DEF ScanInv, ReportIsTheirs, ScanIsWhole, WindowScanIsRight, Fickle
<1> QED
  BY <1>1, <1>2, <1>3, PTL

----------------------------------------------------------------------------
(* WirelessPage.                                                           *)

Points == APs \cup {NoAP}
Tabs ==
    [started : BOOLEAN, info : Points, list : SUBSET APs, filter : SUBSET APs, only : BOOLEAN,
     rows : SUBSET APs, lit : Points, chosen : Points, total : {Cardinality(s) : s \in SUBSET APs},
     text : {"counts", "scanning", "vendors", "error"}, box : [Timers -> BOOLEAN], timer : [Timers -> BOOLEAN]]
WifiWorkers == [st : {"idle", "run", "result", "error", "finished"}, got : Points \cup SUBSET APs]

WifiTyped ==
    /\ wifiTab \in Tabs
    /\ wifiJobs \in [WifiJobs -> WifiWorkers]
    /\ wifiJobs["status"].st = "result" => wifiJobs["status"].got \in Points
    /\ wifiJobs["nearby"].st = "result" => wifiJobs["nearby"].got \in SUBSET APs

\* Before the page was shown its timers stand, whatever the boxes say.
TimersWait == ~wifiTab.started => wifiTab.timer = [t \in Timers |-> FALSE]

\* What a scan found, or its error, replaces the text before the scan is over.
ScanHasItsText == wifiTab.text = "scanning" => wifiJobs["nearby"].st \in {"run", "result", "error"}

WifiInv == WifiTyped /\ TableIsCurrent /\ TimersFollowBoxes /\ TimersWait /\ ScanHasItsText

\* Filling the table anew makes it current, and leaves boxes and timers.
LEMMA AppliedTold ==
    ASSUME NEW tab \in Tabs, NEW new, new = Applied(tab)
    PROVE  /\ new \in Tabs /\ new.rows = Shown(new) /\ new.lit = LitIn(new)
           /\ new.total = Cardinality(new.list) /\ new.text = "counts"
           /\ new.started = tab.started /\ new.box = tab.box /\ new.timer = tab.timer
           /\ tab.chosen \in new.rows => new.chosen = tab.chosen
<1>1. Shown(tab) \in SUBSET APs
  BY DEF Shown, Tabs
<1>2. LitIn(tab) \in Points
  BY DEF LitIn, Points, Tabs
<1>3. Cardinality(tab.list) \in {Cardinality(s) : s \in SUBSET APs}
  BY DEF Tabs
<1>4. PICK chosen \in Points : chosen = IF tab.chosen \in Shown(tab) THEN tab.chosen ELSE NoAP
  BY DEF Points, Tabs
<1>5. new = [tab EXCEPT !.rows = Shown(tab), !.lit = LitIn(tab), !.total = Cardinality(tab.list),
                        !.chosen = chosen, !.text = "counts"]
  BY <1>4 DEF Applied
<1>6. /\ new \in Tabs /\ new.rows = Shown(tab) /\ new.lit = LitIn(tab) /\ new.chosen = chosen
      /\ new.total = Cardinality(tab.list) /\ new.text = "counts"
      /\ new.started = tab.started /\ new.box = tab.box /\ new.timer = tab.timer
      /\ new.list = tab.list /\ new.filter = tab.filter /\ new.only = tab.only /\ new.info = tab.info
  BY ZenonT(60), <1>1, <1>2, <1>3, <1>5 DEF Tabs
<1>7. Shown(new) = Shown(tab) /\ LitIn(new) = LitIn(tab)
  BY <1>6 DEF Shown, LitIn
<1> QED
  BY <1>4, <1>6, <1>7

\* Announcing a scan changes the text, and only where one begins.
LEMMA AnnouncedTold ==
    ASSUME WifiTyped, NEW ks, NEW new, new = Announced(wifiTab, ks)
    PROVE  \/ new = wifiTab
           \/ new = [wifiTab EXCEPT !.text = "scanning"] /\ "nearby" \in ks /\ ~Running("nearby")
  BY DEF Announced

\* Starting workers leaves those that run.
LEMMA RefreshedTold ==
    ASSUME WifiTyped, NEW ks, NEW new, new = Refreshed(ks)
    PROVE  /\ new \in [WifiJobs -> WifiWorkers]
           /\ \A k \in WifiJobs : new[k] = wifiJobs[k] \/ (~Running(k) /\ new[k] = [st |-> "run", got |-> NoAP])
           /\ \A k \in WifiJobs : ~Running(k) /\ k \in ks => new[k].st = "run"
<1>1. [st |-> "run", got |-> NoAP] \in WifiWorkers
  BY DEF WifiWorkers, Points
<1> QED
  BY <1>1 DEF Refreshed, WifiTyped, WifiWorkers

\* The table stays current while what it shows stays.
LEMMA TableStays ==
    ASSUME TableIsCurrent,
           UNCHANGED <<wifiTab.rows, wifiTab.lit, wifiTab.total, wifiTab.list, wifiTab.filter, wifiTab.only, wifiTab.info>>
    PROVE  TableIsCurrent'
  BY DEF TableIsCurrent, Shown, LitIn

\* A step that leaves the page, and leaves the scan its text.
LEMMA WorkerMoves ==
    ASSUME WifiInv, UNCHANGED wifiTab, NEW k \in WifiJobs, NEW job \in WifiWorkers,
           wifiJobs' = [wifiJobs EXCEPT ![k] = job],
           k = "status" /\ job.st = "result" => job.got \in Points,
           k = "nearby" /\ job.st = "result" => job.got \in SUBSET APs,
           k = "nearby" => job.st \in {"run", "result", "error"} \/ wifiTab.text # "scanning"
    PROVE  WifiInv'
<1>1. WifiTyped'
  BY DEF WifiInv, WifiTyped, WifiJobs, Timers
<1>2. ScanHasItsText'
  BY DEF WifiInv, WifiTyped, ScanHasItsText, WifiJobs, Timers
<1> QED
  BY <1>1, <1>2, TableStays DEF WifiInv, TimersFollowBoxes, TimersWait

\* A step that fills the table.
LEMMA TableFilled ==
    ASSUME WifiInv, NEW tab \in Tabs, wifiTab' = Applied(tab),
           tab.started = wifiTab.started, tab.box = wifiTab.box, tab.timer = wifiTab.timer,
           WifiTyped => wifiJobs' \in [WifiJobs -> WifiWorkers],
           wifiJobs'["status"].st = "result" => wifiJobs'["status"].got \in Points,
           wifiJobs'["nearby"].st = "result" => wifiJobs'["nearby"].got \in SUBSET APs
    PROVE  WifiInv'
<1>1. /\ wifiTab' \in Tabs /\ wifiTab'.rows = Shown(wifiTab') /\ wifiTab'.lit = LitIn(wifiTab')
      /\ wifiTab'.total = Cardinality(wifiTab'.list) /\ wifiTab'.text = "counts"
      /\ wifiTab'.started = wifiTab.started /\ wifiTab'.box = wifiTab.box /\ wifiTab'.timer = wifiTab.timer
  BY AppliedTold
<1>2. TableIsCurrent'
  BY <1>1 DEF TableIsCurrent
<1>3. WifiTyped'
  BY <1>1 DEF WifiInv, WifiTyped
<1> QED
  BY <1>1, <1>2, <1>3 DEF WifiInv, TimersFollowBoxes, TimersWait, ScanHasItsText

\* A step that starts workers, announced where a scan is among them.
LEMMA WorkersStart ==
    ASSUME WifiInv, NEW ks, NEW text \in {"counts", "scanning", "vendors", "error"}, NEW jobs,
           \/ text = wifiTab.text
           \/ text = "vendors"
           \/ text = "scanning" /\ "nearby" \in ks /\ ~Running("nearby"),
           wifiTab' \in Tabs, wifiTab'.text = text,
           UNCHANGED <<wifiTab.rows, wifiTab.lit, wifiTab.total, wifiTab.list, wifiTab.filter, wifiTab.only, wifiTab.info>>,
           TimersFollowBoxes', TimersWait',
           jobs = Refreshed(ks),
           wifiJobs' \in [WifiJobs -> WifiWorkers],
           wifiJobs'["status"] = jobs["status"], wifiJobs'["nearby"] = jobs["nearby"]
    PROVE  WifiInv'
<1>1. /\ \A k \in WifiJobs : jobs[k] = wifiJobs[k] \/ (~Running(k) /\ jobs[k] = [st |-> "run", got |-> NoAP])
      /\ \A k \in WifiJobs : ~Running(k) /\ k \in ks => jobs[k].st = "run"
  BY RefreshedTold DEF WifiInv
<1>2. "status" \in WifiJobs /\ "nearby" \in WifiJobs
  BY DEF WifiJobs, Timers
<1>3. WifiTyped'
  BY <1>1, <1>2 DEF WifiInv, WifiTyped
<1>4. ScanHasItsText'
  <2>1. CASE text = wifiTab.text /\ jobs["nearby"] = wifiJobs["nearby"]
    BY <2>1 DEF WifiInv, ScanHasItsText
  <2>2. CASE jobs["nearby"] = [st |-> "run", got |-> NoAP]
    BY <2>2 DEF ScanHasItsText
  <2>3. CASE text = "vendors"
    BY <2>3 DEF ScanHasItsText
  <2>4. CASE "nearby" \in ks /\ ~Running("nearby")
    BY <1>1, <1>2, <2>4 DEF ScanHasItsText
  <2> QED
    BY <1>1, <1>2, <2>1, <2>2, <2>3, <2>4
<1> QED
  BY <1>3, <1>4, TableStays DEF WifiInv

LEMMA WifiStart == WifiInit => WifiInv
<1> SUFFICES ASSUME WifiInit PROVE WifiInv
  OBVIOUS
<1>1. /\ wifiTab = [started |-> FALSE, info |-> NoAP, list |-> {}, filter |-> APs, only |-> FALSE,
                    rows |-> {}, lit |-> NoAP, chosen |-> NoAP, total |-> 0, text |-> "counts",
                    box |-> [t \in Timers |-> FALSE], timer |-> [t \in Timers |-> FALSE]]
      /\ wifiJobs = [k \in WifiJobs |-> [st |-> "idle", got |-> NoAP]]
  BY DEF WifiInit, Restored, NoJobs
<1>2. Cardinality({}) = 0 /\ 0 \in {Cardinality(s) : s \in SUBSET APs}
  BY FS_EmptySet
<1>3. WifiTyped
  BY <1>1, <1>2 DEF WifiTyped, Tabs, WifiWorkers, Points, WifiJobs, Timers
<1>4. TableIsCurrent
  BY <1>1, <1>2 DEF TableIsCurrent, Shown, LitIn
<1> QED
  BY <1>1, <1>3, <1>4 DEF WifiInv, TimersFollowBoxes, TimersWait, ScanHasItsText

LEMMA NextSessionStep == WifiInv /\ NextSession => WifiInv'
<1> SUFFICES ASSUME WifiInv, NextSession PROVE WifiInv'
  OBVIOUS
<1>1. /\ wifiTab' = [started |-> FALSE, info |-> NoAP, list |-> {}, filter |-> wifiTab.filter, only |-> wifiTab.only,
                     rows |-> {}, lit |-> NoAP, chosen |-> NoAP, total |-> 0, text |-> "counts",
                     box |-> wifiTab.box, timer |-> [t \in Timers |-> FALSE]]
      /\ wifiJobs' = [k \in WifiJobs |-> [st |-> "idle", got |-> NoAP]]
  BY DEF NextSession, Restored, NoJobs
<1>2. Cardinality({}) = 0 /\ 0 \in {Cardinality(s) : s \in SUBSET APs}
  BY FS_EmptySet
<1>3. wifiTab.filter \in SUBSET APs /\ wifiTab.only \in BOOLEAN /\ wifiTab.box \in [Timers -> BOOLEAN]
  BY DEF WifiInv, WifiTyped, Tabs
<1>4. WifiTyped'
  BY <1>1, <1>2, <1>3 DEF WifiTyped, Tabs, WifiWorkers, Points, WifiJobs, Timers
<1>5. TableIsCurrent'
  BY <1>1, <1>2 DEF TableIsCurrent, Shown, LitIn
<1> QED
  BY <1>1, <1>4, <1>5 DEF WifiInv, TimersFollowBoxes, TimersWait, ScanHasItsText

LEMMA StartInitialRefreshStep == WifiInv /\ StartInitialRefresh => WifiInv'
<1> SUFFICES ASSUME WifiInv, StartInitialRefresh PROVE WifiInv'
  OBVIOUS
<1>1. /\ ~wifiTab.started
      /\ wifiTab' = [Announced(wifiTab, Timers) EXCEPT !.started = TRUE,
                        !.timer = [t \in Timers |-> wifiTab.box[t] \/ wifiTab.timer[t]]]
      /\ wifiJobs' = Refreshed(Timers)
  BY DEF StartInitialRefresh
<1>2. wifiTab \in Tabs /\ wifiTab.box \in [Timers -> BOOLEAN] /\ wifiTab.timer = [t \in Timers |-> FALSE]
  BY <1>1 DEF WifiInv, WifiTyped, Tabs, TimersWait
<1>3. [t \in Timers |-> wifiTab.box[t] \/ wifiTab.timer[t]] = wifiTab.box
  BY <1>2
<1>4. PICK text \in {"counts", "scanning", "vendors", "error"} :
        /\ text = wifiTab.text \/ (text = "scanning" /\ "nearby" \in Timers /\ ~Running("nearby"))
        /\ Announced(wifiTab, Timers) = [wifiTab EXCEPT !.text = text]
  <2>1. CASE Announced(wifiTab, Timers) = wifiTab
    BY <1>2, <2>1 DEF Tabs
  <2>2. CASE Announced(wifiTab, Timers) = [wifiTab EXCEPT !.text = "scanning"] /\ "nearby" \in Timers /\ ~Running("nearby")
    BY <2>2
  <2> QED
    BY <2>1, <2>2, AnnouncedTold DEF WifiInv
<1>5. wifiTab' = [wifiTab EXCEPT !.text = text, !.started = TRUE, !.timer = wifiTab.box]
  BY <1>1, <1>3, <1>4
<1>6. /\ wifiTab' \in Tabs /\ wifiTab'.text = text
      /\ UNCHANGED <<wifiTab.rows, wifiTab.lit, wifiTab.total, wifiTab.list, wifiTab.filter, wifiTab.only, wifiTab.info>>
      /\ wifiTab'.started /\ wifiTab'.timer = wifiTab'.box
  BY <1>2, <1>5 DEF Tabs
<1>7. TimersFollowBoxes' /\ TimersWait'
  BY <1>6 DEF TimersFollowBoxes, TimersWait
<1>8. wifiJobs' \in [WifiJobs -> WifiWorkers]
  BY <1>1, RefreshedTold DEF WifiInv
<1> QED
  BY <1>1, <1>4, <1>6, <1>7, <1>8, WorkersStart

LEMMA ToggleStep ==
    ASSUME WifiInv, NEW t \in Timers, ToggleAutoRefresh(t)
    PROVE  WifiInv'
<1>0. wifiTab \in Tabs /\ wifiTab.started /\ wifiTab.timer = wifiTab.box /\ wifiTab.box \in [Timers -> BOOLEAN]
  BY DEF ToggleAutoRefresh, WifiInv, WifiTyped, Tabs, TimersFollowBoxes
<1>1. CASE wifiTab.box[t]
  <2>1. wifiTab' = [wifiTab EXCEPT !.box[t] = FALSE, !.timer[t] = FALSE] /\ UNCHANGED wifiJobs
    BY <1>1 DEF ToggleAutoRefresh
  <2>2. PICK box \in [Timers -> BOOLEAN] : box = [wifiTab.box EXCEPT ![t] = FALSE]
    BY <1>0
  <2>3. wifiTab' = [wifiTab EXCEPT !.box = box, !.timer = box]
    BY <1>0, <2>1, <2>2 DEF Tabs
  <2>4. /\ wifiTab' \in Tabs /\ wifiTab'.text = wifiTab.text
        /\ UNCHANGED <<wifiTab.rows, wifiTab.lit, wifiTab.total, wifiTab.list, wifiTab.filter, wifiTab.only, wifiTab.info>>
        /\ wifiTab'.started /\ wifiTab'.timer = wifiTab'.box
    BY <1>0, <2>3 DEF Tabs
  <2>5. TableIsCurrent'
    BY <2>4, TableStays DEF WifiInv
  <2> QED
    BY <2>1, <2>4, <2>5 DEF WifiInv, WifiTyped, TimersFollowBoxes, TimersWait, ScanHasItsText
<1>2. CASE ~wifiTab.box[t]
  <2>1. /\ wifiTab' = [Announced(wifiTab, {t}) EXCEPT !.box[t] = TRUE, !.timer[t] = TRUE]
        /\ wifiJobs' = Refreshed({t})
    BY <1>2 DEF ToggleAutoRefresh
  <2>2. PICK text \in {"counts", "scanning", "vendors", "error"} :
          /\ text = wifiTab.text \/ (text = "scanning" /\ "nearby" \in {t} /\ ~Running("nearby"))
          /\ Announced(wifiTab, {t}) = [wifiTab EXCEPT !.text = text]
    <3>1. CASE Announced(wifiTab, {t}) = wifiTab
      BY <1>0, <3>1 DEF Tabs
    <3>2. CASE Announced(wifiTab, {t}) = [wifiTab EXCEPT !.text = "scanning"] /\ "nearby" \in {t} /\ ~Running("nearby")
      BY <3>2
    <3> QED
      BY <3>1, <3>2, AnnouncedTold DEF WifiInv
  <2>3. PICK box \in [Timers -> BOOLEAN] : box = [wifiTab.box EXCEPT ![t] = TRUE]
    BY <1>0
  <2>4. wifiTab' = [wifiTab EXCEPT !.text = text, !.box = box, !.timer = box]
    BY <1>0, <2>1, <2>2, <2>3 DEF Tabs
  <2>5. /\ wifiTab' \in Tabs /\ wifiTab'.text = text
        /\ UNCHANGED <<wifiTab.rows, wifiTab.lit, wifiTab.total, wifiTab.list, wifiTab.filter, wifiTab.only, wifiTab.info>>
        /\ wifiTab'.started /\ wifiTab'.timer = wifiTab'.box
    BY <1>0, <2>4 DEF Tabs
  <2>6. TimersFollowBoxes' /\ TimersWait'
    BY <2>5 DEF TimersFollowBoxes, TimersWait
  <2>7. wifiJobs' \in [WifiJobs -> WifiWorkers]
    BY <2>1, RefreshedTold DEF WifiInv
  <2> QED
    BY <2>1, <2>2, <2>5, <2>6, <2>7, WorkersStart
<1> QED
  BY <1>1, <1>2

\* A step that announces a scan and changes nothing else of the page.
LEMMA AnnouncingStep ==
    ASSUME WifiInv, NEW ks, wifiTab' = Announced(wifiTab, ks), NEW jobs, jobs = Refreshed(ks),
           wifiJobs' \in [WifiJobs -> WifiWorkers],
           wifiJobs'["status"] = jobs["status"], wifiJobs'["nearby"] = jobs["nearby"]
    PROVE  WifiInv'
<1>0. wifiTab \in Tabs
  BY DEF WifiInv, WifiTyped
<1>1. PICK text \in {"counts", "scanning", "vendors", "error"} :
        /\ text = wifiTab.text \/ (text = "scanning" /\ "nearby" \in ks /\ ~Running("nearby"))
        /\ wifiTab' = [wifiTab EXCEPT !.text = text]
  <2>1. CASE Announced(wifiTab, ks) = wifiTab
    BY <1>0, <2>1 DEF Tabs
  <2>2. CASE Announced(wifiTab, ks) = [wifiTab EXCEPT !.text = "scanning"] /\ "nearby" \in ks /\ ~Running("nearby")
    BY <2>2
  <2> QED
    BY <2>1, <2>2, AnnouncedTold DEF WifiInv
<1>2. /\ wifiTab' \in Tabs /\ wifiTab'.text = text
      /\ UNCHANGED <<wifiTab.rows, wifiTab.lit, wifiTab.total, wifiTab.list, wifiTab.filter, wifiTab.only, wifiTab.info>>
      /\ UNCHANGED <<wifiTab.started, wifiTab.timer, wifiTab.box>>
  BY <1>0, <1>1 DEF Tabs
<1>3. TimersFollowBoxes' /\ TimersWait'
  BY <1>2 DEF WifiInv, TimersFollowBoxes, TimersWait
<1> QED
  BY <1>1, <1>2, <1>3, WorkersStart

\* Selecting a row, or another text than that of a scan.
LEMMA SmallChange ==
    ASSUME WifiInv, NEW chosen \in Points, NEW text \in {"counts", "scanning", "vendors", "error"},
           text = wifiTab.text \/ text # "scanning",
           wifiTab' = [wifiTab EXCEPT !.chosen = chosen, !.text = text],
           wifiJobs' \in [WifiJobs -> WifiWorkers],
           wifiJobs'["status"] = wifiJobs["status"] \/ wifiJobs'["status"].st # "result",
           wifiJobs'["nearby"] = wifiJobs["nearby"] \/ (wifiJobs'["nearby"].st # "result" /\ text # "scanning")
    PROVE  WifiInv'
<1>1. /\ wifiTab' \in Tabs /\ wifiTab'.text = text
      /\ UNCHANGED <<wifiTab.rows, wifiTab.lit, wifiTab.total, wifiTab.list, wifiTab.filter, wifiTab.only, wifiTab.info>>
      /\ UNCHANGED <<wifiTab.started, wifiTab.timer, wifiTab.box>>
  BY DEF WifiInv, WifiTyped, Tabs
<1>2. WifiTyped'
  BY <1>1 DEF WifiInv, WifiTyped
<1>3. ScanHasItsText'
  BY <1>1 DEF WifiInv, ScanHasItsText
<1>4. TimersFollowBoxes' /\ TimersWait'
  BY <1>1 DEF WifiInv, TimersFollowBoxes, TimersWait
<1> QED
  BY <1>1, <1>2, <1>3, <1>4, TableStays DEF WifiInv

LEMMA WorksStep ==
    ASSUME WifiInv, NEW k \in WifiJobs, Works(k)
    PROVE  WifiInv'
<1>1. wifiJobs[k] \in WifiWorkers /\ wifiJobs[k].st = "run" /\ UNCHANGED wifiTab
  BY DEF Works, WifiInv, WifiTyped
<1>2. CASE \E got \in (CASE k = "status" -> APs \cup {NoAP} [] k = "nearby" -> SUBSET APs [] k = "oui" -> {NoAP}) :
             wifiJobs' = [wifiJobs EXCEPT ![k] = [st |-> "result", got |-> got]]
  <2>1. PICK got \in Points \cup SUBSET APs :
          /\ wifiJobs' = [wifiJobs EXCEPT ![k] = [st |-> "result", got |-> got]]
          /\ k = "status" => got \in Points
          /\ k = "nearby" => got \in SUBSET APs
    <3>1. CASE k = "status"
      BY <1>2, <3>1 DEF Points
    <3>2. CASE k = "nearby"
      BY <1>2, <3>2 DEF Points
    <3>3. CASE k = "oui"
      BY <1>2, <3>3 DEF Points
    <3> QED
      BY <3>1, <3>2, <3>3 DEF WifiJobs, Timers
  <2>2. PICK job \in WifiWorkers : job = [st |-> "result", got |-> got]
    BY DEF WifiWorkers
  <2> QED
    BY <1>1, <2>1, <2>2, WorkerMoves
<1>3. CASE wifiJobs' = [wifiJobs EXCEPT ![k].st = "error"]
  <2>1. PICK job \in WifiWorkers : job = [wifiJobs[k] EXCEPT !.st = "error"]
    BY <1>1 DEF WifiWorkers
  <2>2. job.st = "error"
    BY <1>1, <2>1 DEF WifiWorkers
  <2>3. wifiJobs' = [wifiJobs EXCEPT ![k] = job]
    BY <1>3, <2>1 DEF WifiInv, WifiTyped
  <2> QED
    BY <1>1, <2>2, <2>3, WorkerMoves
<1> QED
  BY <1>2, <1>3 DEF Works

LEMMA FinishedWorker == [st |-> "finished", got |-> NoAP] \in WifiWorkers
  BY DEF WifiWorkers, Points

LEMMA JobErrorStep ==
    ASSUME WifiInv, NEW k \in WifiJobs, JobError(k)
    PROVE  WifiInv'
<1>1. wifiTab \in Tabs /\ wifiJobs \in [WifiJobs -> WifiWorkers]
  BY DEF WifiInv, WifiTyped
<1>2. wifiJobs' = [wifiJobs EXCEPT ![k] = [st |-> "finished", got |-> NoAP]]
  BY DEF JobError, Handled
<1>3. CASE k = "status"
  <2>1. UNCHANGED wifiTab
    BY <1>3 DEF JobError
  <2>2. PICK job \in WifiWorkers : job = [st |-> "finished", got |-> NoAP]
    BY FinishedWorker
  <2> QED
    BY <1>2, <1>3, <2>1, <2>2, WorkerMoves
<1>4. CASE k # "status"
  <2>1. wifiTab' = [wifiTab EXCEPT !.text = "error"] /\ wifiTab.chosen \in Points
    BY <1>1, <1>4 DEF JobError, Tabs
  <2>2. wifiTab' = [wifiTab EXCEPT !.chosen = wifiTab.chosen, !.text = "error"]
    BY <1>1, <2>1 DEF Tabs
  <2>3. /\ wifiJobs' \in [WifiJobs -> WifiWorkers] /\ wifiJobs'["status"] = wifiJobs["status"]
        /\ wifiJobs'["nearby"] = wifiJobs["nearby"] \/ wifiJobs'["nearby"].st = "finished"
    BY <1>1, <1>2, <1>4, FinishedWorker DEF WifiJobs, Timers
  <2> QED
    BY <2>1, <2>2, <2>3, SmallChange
<1> QED
  BY <1>3, <1>4

LEMMA SetRefreshRunningStep ==
    ASSUME WifiInv, NEW k \in WifiJobs, SetRefreshRunning(k)
    PROVE  WifiInv'
<1>1. wifiJobs[k] \in WifiWorkers /\ wifiJobs[k].st = "finished" /\ UNCHANGED wifiTab
  BY DEF SetRefreshRunning, WifiInv, WifiTyped
<1>2. PICK job \in WifiWorkers : job = [wifiJobs[k] EXCEPT !.st = "idle"] /\ job.st = "idle"
  <2>1. /\ [wifiJobs[k] EXCEPT !.st = "idle"] \in WifiWorkers
        /\ [wifiJobs[k] EXCEPT !.st = "idle"].st = "idle"
    BY <1>1 DEF WifiWorkers
  <2> QED
    BY <2>1
<1>3. wifiJobs' = [wifiJobs EXCEPT ![k] = job]
  BY <1>2 DEF SetRefreshRunning, WifiInv, WifiTyped
<1>4. k = "nearby" => wifiTab.text # "scanning"
  BY <1>1 DEF WifiInv, ScanHasItsText
<1> QED
  BY <1>1, <1>2, <1>3, <1>4, WorkerMoves

LEMMA FinishOuiStep == WifiInv /\ FinishOui => WifiInv'
<1> SUFFICES ASSUME WifiInv, FinishOui PROVE WifiInv'
  OBVIOUS
<1>1. PICK jobs : jobs = Refreshed({"nearby"})
  OBVIOUS
<1>2. jobs \in [WifiJobs -> WifiWorkers]
  BY <1>1, RefreshedTold DEF WifiInv
<1>3. wifiJobs' = [jobs EXCEPT !["oui"] = [st |-> "finished", got |-> NoAP]]
  BY <1>1 DEF FinishOui
<1>4. /\ wifiJobs' \in [WifiJobs -> WifiWorkers]
      /\ wifiJobs'["status"] = jobs["status"] /\ wifiJobs'["nearby"] = jobs["nearby"]
  BY <1>2, <1>3, FinishedWorker DEF WifiJobs, Timers
<1>5. wifiTab' = Announced(wifiTab, {"nearby"})
  BY DEF FinishOui
<1> QED
  BY <1>1, <1>4, <1>5, AnnouncingStep

LEMMA RefreshOuiStep == WifiInv /\ RefreshOui => WifiInv'
<1> SUFFICES ASSUME WifiInv, RefreshOui PROVE WifiInv'
  OBVIOUS
<1>1. wifiTab \in Tabs /\ wifiTab.chosen \in Points
  BY DEF WifiInv, WifiTyped, Tabs
<1>2. wifiTab' = [wifiTab EXCEPT !.chosen = wifiTab.chosen, !.text = "vendors"]
  BY <1>1 DEF RefreshOui, Tabs
<1>3. wifiJobs' \in [WifiJobs -> WifiWorkers]
  BY RefreshedTold DEF RefreshOui, WifiInv
<1>4. wifiJobs'["status"] = wifiJobs["status"] /\ wifiJobs'["nearby"] = wifiJobs["nearby"]
  BY DEF RefreshOui, Refreshed, WifiJobs, Timers
<1> QED
  BY <1>1, <1>2, <1>3, <1>4, SmallChange

\* The handlers that fill the table, with what they fill it from.
LEMMA FillingSteps ==
    ASSUME WifiInv, \/ \E f \in Filters : SetFilter(f)
                    \/ ConnectedOnly \/ UpdateWirelessView \/ UpdateNearby
    PROVE  /\ WifiInv'
           /\ wifiTab.chosen \in wifiTab'.rows => wifiTab'.chosen = wifiTab.chosen
<1>0. wifiTab \in Tabs /\ wifiJobs \in [WifiJobs -> WifiWorkers]
  BY DEF WifiInv, WifiTyped
<1>1. PICK tab \in Tabs : /\ wifiTab' = Applied(tab) /\ tab.chosen = wifiTab.chosen
                          /\ tab.started = wifiTab.started /\ tab.box = wifiTab.box /\ tab.timer = wifiTab.timer
  <2>1. CASE \E f \in Filters : SetFilter(f)
    <3>1. PICK f \in SUBSET APs : wifiTab' = Applied([wifiTab EXCEPT !.filter = f])
      BY <2>1, WirelessAssumption DEF SetFilter
    <3> QED
      BY <1>0, <3>1 DEF Tabs
  <2>2. CASE ConnectedOnly
    <3>1. PICK only \in BOOLEAN : wifiTab' = Applied([wifiTab EXCEPT !.only = only])
      BY <1>0, <2>2 DEF ConnectedOnly, Tabs
    <3> QED
      BY <1>0, <3>1 DEF Tabs
  <2>3. CASE UpdateWirelessView
    <3>1. PICK info \in Points : wifiTab' = Applied([wifiTab EXCEPT !.info = info])
      BY <2>3 DEF UpdateWirelessView, WifiInv, WifiTyped
    <3> QED
      BY <1>0, <3>1 DEF Tabs
  <2>4. CASE UpdateNearby
    <3>1. PICK list \in SUBSET APs : wifiTab' = Applied([wifiTab EXCEPT !.list = list])
      BY <2>4 DEF UpdateNearby, WifiInv, WifiTyped
    <3> QED
      BY <1>0, <3>1 DEF Tabs
  <2> QED
    BY <2>1, <2>2, <2>3, <2>4
<1>2. \/ UNCHANGED wifiJobs
      \/ \E k \in {"status", "nearby"} : wifiJobs' = [wifiJobs EXCEPT ![k] = [st |-> "finished", got |-> NoAP]]
  BY DEF SetFilter, ConnectedOnly, UpdateWirelessView, UpdateNearby, Handled
<1>3. /\ wifiJobs' \in [WifiJobs -> WifiWorkers]
      /\ wifiJobs'["status"].st = "result" => wifiJobs'["status"].got \in Points
      /\ wifiJobs'["nearby"].st = "result" => wifiJobs'["nearby"].got \in SUBSET APs
  <2>1. CASE UNCHANGED wifiJobs
    BY <2>1 DEF WifiInv, WifiTyped
  <2>2. CASE \E k \in {"status", "nearby"} : wifiJobs' = [wifiJobs EXCEPT ![k] = [st |-> "finished", got |-> NoAP]]
    BY <1>0, <2>2, FinishedWorker DEF WifiInv, WifiTyped, WifiJobs, Timers
  <2> QED
    BY <1>2, <2>1, <2>2
<1>4. wifiTab.chosen \in wifiTab'.rows => wifiTab'.chosen = wifiTab.chosen
  BY <1>1, AppliedTold
<1>5. WifiInv'
  BY <1>1, <1>3, TableFilled
<1> QED
  BY <1>4, <1>5

LEMMA WifiStep == WifiInv /\ [WifiNext]_wifiVars => WifiInv'
<1> SUFFICES ASSUME WifiInv, [WifiNext]_wifiVars PROVE WifiInv'
  OBVIOUS
<1>1. CASE \E ap \in APs : SelectRow(ap)
  <2>1. PICK ap \in APs : wifiTab' = [wifiTab EXCEPT !.chosen = ap] /\ UNCHANGED wifiJobs
    BY <1>1 DEF SelectRow
  <2>2. /\ wifiTab \in Tabs /\ wifiTab.text \in {"counts", "scanning", "vendors", "error"}
        /\ wifiJobs' \in [WifiJobs -> WifiWorkers] /\ ap \in Points
    BY <2>1 DEF WifiInv, WifiTyped, Tabs, Points
  <2>3. wifiTab' = [wifiTab EXCEPT !.chosen = ap, !.text = wifiTab.text]
    BY <2>1, <2>2 DEF Tabs
  <2> QED
    BY <2>1, <2>2, <2>3, SmallChange
<1>2. CASE \/ \E f \in Filters : SetFilter(f)
           \/ ConnectedOnly \/ UpdateWirelessView \/ UpdateNearby
  BY <1>2, FillingSteps
<1>3. CASE \E t \in Timers : RefreshNow(t) \/ TickTimer(t)
  <2>1. PICK t \in Timers : wifiJobs' = Refreshed({t}) /\ wifiTab' = Announced(wifiTab, {t})
    BY <1>3 DEF TickTimer, RefreshNow
  <2>2. wifiJobs' \in [WifiJobs -> WifiWorkers]
    BY <2>1, RefreshedTold DEF WifiInv
  <2> QED
    BY <2>1, <2>2, AnnouncingStep
<1>4. CASE \E t \in Timers : ToggleAutoRefresh(t)
  BY <1>4, ToggleStep
<1>5. CASE \E k \in WifiJobs : Works(k) \/ JobError(k) \/ SetRefreshRunning(k)
  BY <1>5, WorksStep, JobErrorStep, SetRefreshRunningStep
<1>6. CASE RefreshOui \/ FinishOui \/ StartInitialRefresh \/ NextSession
  BY <1>6, RefreshOuiStep, FinishOuiStep, StartInitialRefreshStep, NextSessionStep
<1>7. CASE UNCHANGED wifiVars
  BY <1>7 DEF wifiVars, WifiInv, WifiTyped, TableIsCurrent, Shown, LitIn, TimersFollowBoxes, TimersWait, ScanHasItsText
<1> QED
  BY <1>1, <1>2, <1>3, <1>4, <1>5, <1>6, <1>7 DEF WifiNext

\* A selected access point that is listed stays selected.
SelectionStaysByStep ==
    wifiTab.chosen \in wifiTab'.rows => wifiTab'.chosen = wifiTab.chosen \/ \E ap \in APs : SelectRow(ap)

LEMMA SelectionStep == WifiInv /\ [WifiNext]_wifiVars => SelectionStaysByStep
<1> SUFFICES ASSUME WifiInv, [WifiNext]_wifiVars PROVE SelectionStaysByStep
  OBVIOUS
<1>0. wifiTab \in Tabs
  BY DEF WifiInv, WifiTyped
<1>1. CASE \E ap \in APs : SelectRow(ap)
  BY <1>1 DEF SelectionStaysByStep
<1>2. CASE \/ \E f \in Filters : SetFilter(f)
           \/ ConnectedOnly \/ UpdateWirelessView \/ UpdateNearby
  BY <1>2, FillingSteps DEF SelectionStaysByStep
<1>3. ASSUME NEW ks, \/ wifiTab' = Announced(wifiTab, ks)
                     \/ wifiTab' = [Announced(wifiTab, ks) EXCEPT !.started = TRUE,
                           !.timer = [t \in Timers |-> wifiTab.box[t] \/ wifiTab.timer[t]]]
                     \/ \E t \in Timers : wifiTab' = [Announced(wifiTab, ks) EXCEPT !.box[t] = TRUE, !.timer[t] = TRUE]
                     \/ \E t \in Timers : wifiTab' = [wifiTab EXCEPT !.box[t] = FALSE, !.timer[t] = FALSE]
      PROVE  wifiTab'.chosen = wifiTab.chosen
  BY <1>0, <1>3 DEF Announced, Tabs
<1>4. CASE \E t \in Timers : RefreshNow(t) \/ TickTimer(t) \/ ToggleAutoRefresh(t)
  <2>1. PICK t \in Timers : RefreshNow(t) \/ TickTimer(t) \/ ToggleAutoRefresh(t)
    BY <1>4
  <2>2. \/ wifiTab' = Announced(wifiTab, {t})
        \/ wifiTab' = [Announced(wifiTab, {t}) EXCEPT !.box[t] = TRUE, !.timer[t] = TRUE]
        \/ wifiTab' = [wifiTab EXCEPT !.box[t] = FALSE, !.timer[t] = FALSE]
    BY <2>1 DEF TickTimer, RefreshNow, ToggleAutoRefresh
  <2> QED
    BY <1>3, <2>2 DEF SelectionStaysByStep
<1>5. CASE \E k \in WifiJobs : Works(k) \/ JobError(k) \/ SetRefreshRunning(k)
  <2>1. wifiTab' = wifiTab \/ wifiTab' = [wifiTab EXCEPT !.text = "error"]
    BY <1>5 DEF Works, JobError, SetRefreshRunning
  <2> QED
    BY <1>0, <2>1 DEF SelectionStaysByStep, Tabs
<1>6. CASE RefreshOui \/ FinishOui
  <2>1. wifiTab' = Announced(wifiTab, {"nearby"}) \/ wifiTab' = [wifiTab EXCEPT !.text = "vendors"]
    BY <1>6 DEF RefreshOui, FinishOui
  <2>2. wifiTab'.chosen = wifiTab.chosen
    BY <1>0, <1>3, <2>1 DEF Tabs
  <2> QED
    BY <2>2 DEF SelectionStaysByStep
<1>7. CASE StartInitialRefresh
  BY <1>3, <1>7 DEF StartInitialRefresh, SelectionStaysByStep
<1>8. CASE NextSession
  <2>1. wifiTab'.rows = {}
    BY <1>8 DEF NextSession, Restored
  <2> QED
    BY <2>1 DEF SelectionStaysByStep
<1>9. CASE UNCHANGED wifiVars
  BY <1>9 DEF wifiVars, SelectionStaysByStep
<1> QED
  BY <1>1, <1>2, <1>4, <1>5, <1>6, <1>7, <1>8, <1>9 DEF WifiNext

(* Whatever the order of scans, statuses, filters, ticks and restarts: the   *)
(* table, its counts and the text above it are those of what was found last, *)
(* timers run for the checked boxes, and the selection stays.                *)
THEOREM WirelessAlwaysRight == WifiInit /\ [][WifiNext]_wifiVars => WirelessPageIsRight
<1>1. WifiInit => WifiInv
  BY WifiStart
<1>2. WifiInv /\ [WifiNext]_wifiVars => WifiInv'
  BY WifiStep
<1>3. WifiInv => TableIsCurrent /\ TimersFollowBoxes /\ ScanTextIsTrue
  BY DEF WifiInv, ScanHasItsText, ScanTextIsTrue, Running
<1>4. WifiInv /\ [WifiNext]_wifiVars => [SelectionStaysByStep]_wifiVars
  BY SelectionStep
<1> QED
  BY <1>1, <1>2, <1>3, <1>4, PTL DEF WirelessPageIsRight, SelectionStays, SelectionStaysByStep

----------------------------------------------------------------------------
(* NetworkPage.                                                            *)

Values == Plans \cup {Dhcp, Unset}
AnySettings == [address : Values, dns : Values, more : Values]
NicLists == UNION {[s -> AnySettings] : s \in SUBSET Adapters}
SomeNic == Adapters \cup {NoAdapter}
NicWorkers ==
    [kind : {"list", "change"},
     st : {"read", "address", "dns", "more", "cleanup", "fallback", "result", "failure", "error", "finished", "over"},
     prefer : SomeNic, rows : NicLists, at : Nat, nic : SomeNic, target : AnySettings, ok : BOOLEAN]
NicStates == [plugged : SUBSET Adapters, set : [Adapters -> AnySettings], changes : Nat, plugs : Nat]
NicTabs == [rows : NicLists, at : Nat, chosen : SomeNic, loading : BOOLEAN, changing : BOOLEAN, pending : SomeNic]
NicBoxes == {NoBox} \cup [open : {TRUE}, nic : Adapters, target : Settings]

NicTyped ==
    /\ nics \in NicStates /\ nicTab \in NicTabs
    /\ nicBox \in NicBoxes /\ nicJobs \in Seq(NicWorkers)

\* One worker of each kind, and the flag of its kind is up while it lives.
Lives(i, kind) == nicJobs[i].kind = kind /\ nicJobs[i].st # "over"
OneOfAKind ==
    \A i, j \in NicJob : \A kind \in {"list", "change"} : Lives(i, kind) /\ Lives(j, kind) => i = j
FlagsFit ==
    /\ nicTab.changing <=> \E i \in NicJob : Lives(i, "change")
    /\ nicTab.loading <=> \E i \in NicJob : Lives(i, "list")

\* Further servers are only for a fixed address, the cleaning up only for DHCP.
StagesFit ==
    \A j \in NicJob : /\ At(j, "more") => IsStatic(j)
                      /\ At(j, "cleanup") => ~IsStatic(j)

\* A list that waits to be shown is no older than the one that is shown.
ListsInOrder ==
    /\ nicTab.at <= nics.changes
    /\ \A j \in NicJob : nicJobs[j].kind = "list" /\ nicJobs[j].st = "result"
                            => nicTab.at <= nicJobs[j].at /\ nicJobs[j].at <= nics.changes

\* What the commands that succeeded have left on the adapter.
OnAdapter(j) ==
    (nicJobs[j].kind = "change" /\ IsStatic(j)) =>
        /\ nicJobs[j].st \in {"dns", "more", "result"} => Now(j).address = Wanted(j).address
        /\ nicJobs[j].st \in {"more", "result"} => Now(j).dns = Wanted(j).dns
AddressIsOn ==
    nics.plugs = 0 => /\ nics.plugged = Adapters
                      /\ \A j \in NicJob : OnAdapter(j)

NicInv == NicTyped /\ OneOfAKind /\ FlagsFit /\ StagesFit /\ ListsInOrder /\ AddressIsOn

LEMMA SettingsTyped == Settings \subseteq AnySettings /\ All(Dhcp) \in AnySettings
  BY DEF Settings, All, AnySettings, Values

LEMMA NoRowsTyped == NoRows \in NicLists /\ DOMAIN NoRows = {}
<1>1. NoRows \in [{} -> AnySettings] /\ DOMAIN NoRows = {}
  BY DEF NoRows
<1>2. {} \in SUBSET Adapters
  OBVIOUS
<1> QED
  BY <1>1, <1>2 DEF NicLists

LEMMA NewJobTyped ==
    /\ NewJob \in NicWorkers
    /\ \A p \in SomeNic : LET new == [NewJob EXCEPT !.prefer = p] IN
         new \in NicWorkers /\ new.kind = "list" /\ new.st = "read"
    /\ \A k \in {"list", "change"} : LET new == [NewJob EXCEPT !.kind = k, !.st = "over"] IN
         new \in NicWorkers /\ new.kind = k /\ new.st = "over"
<1>1. NewJob \in NicWorkers
  BY SettingsTyped, NoRowsTyped DEF NewJob, NicWorkers, SomeNic
<1> QED
  BY <1>1, SettingsTyped DEF NewJob, NicWorkers, SomeNic

\* The first of a list that is not empty is in it.
LEMMA Smallest == ASSUME NEW T \in SUBSET Nat, T # {} PROVE \E x \in T : \A y \in T : x <= y
<1>1. IsWellFoundedOn(OpToRel(<, Nat), Nat)
  BY NatLessThanWellFounded
<1>2. PICK x \in T : \A y \in T : ~ (<<y, x>> \in OpToRel(<, Nat))
  BY <1>1, WFMin
<1>3. \A y \in T : ~(y < x)
  BY <1>2 DEF OpToRel
<1> QED
  BY <1>3

LEMMA FirstTyped ==
    ASSUME NEW rows \in NicLists
    PROVE  rows = NoRows \/ First(rows) \in Adapters
<1>1. PICK s \in SUBSET Adapters : rows \in [s -> AnySettings]
  BY DEF NicLists
<1>2. CASE s = {}
  BY <1>1, <1>2 DEF NoRows
<1>3. CASE s # {}
  <2>1. s \in SUBSET Nat
    BY NicAssumption DEF Adapters
  <2>2. \E a \in s : \A b \in s : a <= b
    BY <1>3, <2>1, Smallest
  <2>3. First(rows) \in s
    BY <1>1, <2>2 DEF First
  <2> QED
    BY <2>3
<1> QED
  BY <1>2, <1>3

\* Windows after a command.
LEMMA SetNicTold ==
    ASSUME nics \in NicStates, NEW a, NEW settings, SetNic(a, settings),
           a \in nics.plugged => settings \in AnySettings
    PROVE  /\ nics' \in NicStates /\ nics'.plugged = nics.plugged /\ nics'.plugs = nics.plugs
           /\ nics'.changes \in Nat /\ nics.changes <= nics'.changes
           /\ a \in nics.plugged => nics'.set[a] = settings
           /\ a \notin nics.plugged => nics' = nics
<1>1. nics.changes \in Nat /\ nics.changes + 1 \in Nat
  BY DEF NicStates
<1>2. CASE UNCHANGED nics /\ ~(a \in nics.plugged /\ settings # nics.set[a])
  BY <1>1, <1>2
<1>3. CASE a \in nics.plugged /\ nics' = [nics EXCEPT !.set[a] = settings, !.changes = nics.changes + 1]
  <2>1. PICK set \in [Adapters -> AnySettings] : set = [nics.set EXCEPT ![a] = settings] /\ set[a] = settings
    <3>1. nics.set \in [Adapters -> AnySettings] /\ a \in Adapters /\ settings \in AnySettings
      BY <1>3 DEF NicStates
    <3>2. /\ [nics.set EXCEPT ![a] = settings] \in [Adapters -> AnySettings]
          /\ [nics.set EXCEPT ![a] = settings][a] = settings
      BY <3>1
    <3> QED
      BY <3>2
  <2>2. nics' = [nics EXCEPT !.set = set, !.changes = nics.changes + 1]
    BY <1>3, <2>1 DEF NicStates
  <2>3. /\ nics' \in NicStates /\ nics'.plugged = nics.plugged /\ nics'.plugs = nics.plugs
        /\ nics'.changes = nics.changes + 1 /\ nics'.set = set
    BY <1>1, <2>2 DEF NicStates
  <2> QED
    BY <1>1, <1>3, <2>1, <2>3
<1> QED
  BY <1>2, <1>3 DEF SetNic

\* A worker goes on and keeps its kind, and Windows counts on.
LEMMA WorkerGoesOn ==
    ASSUME NicInv, NEW j \in NicJob, NEW job \in NicWorkers,
           nicJobs' = [nicJobs EXCEPT ![j] = job], job.kind = nicJobs[j].kind,
           nicJobs[j].st # "over", job.st # "over",
           nicTab' \in NicTabs, nicTab'.changing = nicTab.changing, nicTab'.loading = nicTab.loading,
           nics' \in NicStates, nicBox' \in NicBoxes
    PROVE  /\ NicTyped' /\ OneOfAKind' /\ FlagsFit'
           /\ DOMAIN nicJobs' = DOMAIN nicJobs /\ nicJobs'[j] = job
           /\ \A i \in NicJob : i # j => nicJobs'[i] = nicJobs[i]
<1>1. nicJobs \in Seq(NicWorkers)
  BY DEF NicInv, NicTyped
<1>2. nicJobs' \in Seq(NicWorkers)
  BY <1>1 DEF NicJob
<1>3. /\ DOMAIN nicJobs' = DOMAIN nicJobs /\ nicJobs'[j] = job
      /\ \A i \in NicJob : i # j => nicJobs'[i] = nicJobs[i]
  BY <1>1 DEF NicJob
<1>4. NicTyped'
  BY <1>2 DEF NicTyped
<1>5. NicJob' = NicJob /\ \A i \in NicJob, kind \in {"list", "change"} : Lives(i, kind)' <=> Lives(i, kind)
  BY <1>3 DEF Lives, NicJob
<1>6. OneOfAKind' /\ FlagsFit'
  BY <1>5 DEF NicInv, OneOfAKind, FlagsFit
<1> QED
  BY <1>3, <1>4, <1>6

\* A worker is started, where none of its kind lives; another may have ended its work.
LEMMA WorkerStarts ==
    ASSUME NicInv, NEW mid \in Seq(NicWorkers), DOMAIN mid = NicJob,
           \A i \in NicJob : \/ mid[i] = nicJobs[i]
                             \/ /\ mid[i].kind = nicJobs[i].kind /\ mid[i].st = "finished"
                                /\ nicJobs[i].st # "over",
           NEW job \in NicWorkers, job.st \in {"read", "address"}, nicJobs' = Append(mid, job),
           nicTab' \in NicTabs, UNCHANGED nics, nicBox' \in NicBoxes, nicTab'.at = nicTab.at,
           \/ /\ job.kind = "list" /\ ~nicTab.loading /\ nicTab'.loading
              /\ nicTab'.changing = nicTab.changing
           \/ /\ job.kind = "change" /\ ~nicTab.changing /\ nicTab'.changing
              /\ nicTab'.loading = nicTab.loading
    PROVE  NicInv'
<1>1. /\ nicJobs' \in Seq(NicWorkers) /\ Len(mid) \in Nat /\ DOMAIN nicJobs' = 1 .. Len(mid) + 1
      /\ NicJob = 1 .. Len(mid) /\ nicJobs'[Len(mid) + 1] = job
      /\ \A i \in NicJob : i \in DOMAIN nicJobs' /\ i # Len(mid) + 1 /\ nicJobs'[i] = mid[i]
      /\ \A i \in DOMAIN nicJobs' : i \in NicJob \/ i = Len(mid) + 1
  BY AppendTold
<1>2. NicTyped'
  BY <1>1 DEF NicInv, NicTyped
<1> DEFINE new == Len(mid) + 1
<1>3. NicJob' = NicJob \cup {new} /\ new \notin NicJob
  BY <1>1 DEF NicJob
<1>4. /\ \A i \in NicJob, kind \in {"list", "change"} : Lives(i, kind)' <=> Lives(i, kind)
      /\ \A kind \in {"list", "change"} : Lives(new, kind)' <=> job.kind = kind
  BY <1>1 DEF Lives
<1> HIDE DEF new
<1>5. OneOfAKind'
  BY <1>3, <1>4 DEF NicInv, OneOfAKind, FlagsFit
<1>6. FlagsFit'
  <2>1. CASE job.kind = "list" /\ nicTab'.loading /\ nicTab'.changing = nicTab.changing
    BY <1>3, <1>4, <2>1 DEF NicInv, FlagsFit
  <2>2. CASE job.kind = "change" /\ nicTab'.changing /\ nicTab'.loading = nicTab.loading
    BY <1>3, <1>4, <2>2 DEF NicInv, FlagsFit
  <2> QED
    BY <2>1, <2>2
<1>7. \A i \in NicJob : nicJobs'[i] = nicJobs[i] \/ nicJobs'[i].st = "finished"
  BY <1>1
<1>8. nicJobs'[new].st \in {"read", "address"}
  BY <1>1 DEF new
<1>9. \A i \in NicJob' : \/ i \in NicJob /\ nicJobs'[i] = nicJobs[i]
                        \/ nicJobs'[i].st \in {"read", "address", "finished"}
  BY <1>3, <1>7, <1>8
<1>10. StagesFit'
  <2> SUFFICES ASSUME NEW i \in NicJob' PROVE (At(i, "more")' => IsStatic(i)') /\ (At(i, "cleanup")' => ~IsStatic(i)')
    BY DEF StagesFit
  <2>1. CASE i \in NicJob /\ nicJobs'[i] = nicJobs[i]
    BY <2>1 DEF NicInv, StagesFit, At, IsStatic
  <2>2. CASE nicJobs'[i].st \in {"read", "address", "finished"}
    BY <2>2 DEF At
  <2> QED
    BY <1>9, <2>1, <2>2
<1>11. ListsInOrder'
  <2>1. nicTab'.at <= nics'.changes
    BY DEF NicInv, ListsInOrder
  <2>2. ASSUME NEW i \in NicJob', nicJobs'[i].kind = "list", nicJobs'[i].st = "result"
        PROVE  nicTab'.at <= nicJobs'[i].at /\ nicJobs'[i].at <= nics'.changes
    <3>1. i \in NicJob /\ nicJobs'[i] = nicJobs[i]
      BY <1>9, <2>2
    <3> QED
      BY <2>2, <3>1 DEF NicInv, ListsInOrder
  <2> QED
    BY <2>1, <2>2 DEF ListsInOrder
<1>12. AddressIsOn'
  <2> SUFFICES ASSUME nics'.plugs = 0 PROVE nics'.plugged = Adapters /\ \A i \in NicJob' : OnAdapter(i)'
    BY DEF AddressIsOn
  <2>1. nics.plugged = Adapters /\ \A i \in NicJob : OnAdapter(i)
    BY DEF NicInv, AddressIsOn
  <2>2. ASSUME NEW i \in NicJob' PROVE OnAdapter(i)'
    <3>1. CASE i \in NicJob /\ nicJobs'[i] = nicJobs[i]
      BY <2>1, <3>1 DEF OnAdapter, IsStatic, Now, Wanted
    <3>2. CASE nicJobs'[i].st \in {"read", "address", "finished"}
      BY <3>2 DEF OnAdapter
    <3> QED
      BY <1>9, <3>1, <3>2
  <2> QED
    BY <2>1, <2>2
<1> QED
  BY <1>2, <1>5, <1>6, <1>10, <1>11, <1>12 DEF NicInv

\* A worker goes on without touching Windows.
LEMMA WorkerReports ==
    ASSUME NicInv, NEW j \in NicJob, NEW job \in NicWorkers,
           nicJobs' = [nicJobs EXCEPT ![j] = job], job.kind = nicJobs[j].kind,
           nicJobs[j].st # "over", UNCHANGED nics, nicBox' \in NicBoxes,
           nicTab' \in NicTabs, nicTab'.changing = nicTab.changing, nicTab'.loading = nicTab.loading,
           \/ job.st \in {"finished", "error", "failure"} /\ nicTab'.at = nicTab.at
           \/ /\ job.kind = "list" /\ job.st = "result" /\ nicTab'.at = nicTab.at
              /\ nicTab.at <= job.at /\ job.at <= nics.changes
           \/ /\ job.kind = "list" /\ job.st = "finished"
              /\ nicJobs[j].st = "result" /\ nicTab'.at = nicJobs[j].at
    PROVE  NicInv'
<1>0. job.st # "over"
  OBVIOUS
<1>1. /\ NicTyped' /\ OneOfAKind' /\ FlagsFit'
      /\ DOMAIN nicJobs' = DOMAIN nicJobs /\ nicJobs'[j] = job
      /\ \A i \in NicJob : i # j => nicJobs'[i] = nicJobs[i]
  BY <1>0, WorkerGoesOn DEF NicInv, NicTyped
<1>2. NicJob' = NicJob
  BY <1>1 DEF NicJob
<1>3. StagesFit'
  BY <1>1, <1>2 DEF NicInv, StagesFit, At, IsStatic
<1>4. AddressIsOn'
  <2>1. job.st \in {"dns", "more", "result"} => job.kind # "change"
    OBVIOUS
  <2> QED
    BY <1>1, <1>2, <2>1 DEF NicInv, AddressIsOn, OnAdapter, IsStatic, Now, Wanted
<1>5. ListsInOrder'
  <2>1. CASE nicTab'.at = nicTab.at
    BY <1>1, <1>2, <2>1 DEF NicInv, ListsInOrder
  <2>2. CASE /\ job.kind = "list" /\ job.st = "finished"
             /\ nicJobs[j].st = "result" /\ nicTab'.at = nicJobs[j].at
    <3>1. nicTab'.at <= nics.changes
      BY <2>2 DEF NicInv, ListsInOrder
    <3>2. ASSUME NEW i \in NicJob, nicJobs'[i].kind = "list", nicJobs'[i].st = "result" PROVE FALSE
      <4>1. i # j
        BY <1>1, <2>2, <3>2
      <4>2. Lives(i, "list") /\ Lives(j, "list")
        BY <1>1, <2>2, <3>2, <4>1 DEF Lives
      <4> QED
        BY <4>1, <4>2 DEF NicInv, OneOfAKind
    <3> QED
      BY <1>2, <3>1, <3>2 DEF ListsInOrder
  <2> QED
    BY <2>1, <2>2
<1> QED
  BY <1>1, <1>3, <1>4, <1>5 DEF NicInv

\* A worker ends.
LEMMA JobFinishedStep ==
    ASSUME NicInv, NEW j \in NicJob, JobFinished(j)
    PROVE  NicInv'
<1>1. PICK job \in NicWorkers : /\ job = [NewJob EXCEPT !.kind = nicJobs[j].kind, !.st = "over"]
                                /\ job.kind = nicJobs[j].kind /\ job.st = "over"
  <2>1. nicJobs[j].kind \in {"list", "change"}
    <3>1. nicJobs[j] \in NicWorkers
      BY DEF NicInv, NicTyped, NicJob
    <3> QED
      BY <3>1 DEF NicWorkers
  <2>2. LET new == [NewJob EXCEPT !.kind = nicJobs[j].kind, !.st = "over"] IN
         new \in NicWorkers /\ new.kind = nicJobs[j].kind /\ new.st = "over"
    BY <2>1, NewJobTyped
  <2> QED
    BY <2>2
<1>2. nicJobs' = [nicJobs EXCEPT ![j] = job] /\ UNCHANGED <<nics, nicBox>> /\ nicJobs[j].st = "finished"
  BY <1>1 DEF JobFinished, Step
<1>3. nicJobs \in Seq(NicWorkers) /\ nicTab \in NicTabs /\ nicJobs[j] \in NicWorkers
  BY DEF NicInv, NicTyped, NicJob
<1>4. /\ nicJobs' \in Seq(NicWorkers) /\ NicJob' = NicJob /\ nicJobs'[j] = job
      /\ \A i \in NicJob : i # j => nicJobs'[i] = nicJobs[i]
  BY <1>2, <1>3 DEF NicJob
<1>5. \/ /\ job.kind = "list" /\ nicTab' = [nicTab EXCEPT !.loading = FALSE]
      \/ /\ job.kind = "change" /\ nicTab' = [nicTab EXCEPT !.changing = FALSE]
  BY <1>1, <1>3 DEF JobFinished, NicWorkers
<1>6. /\ nicTab' \in NicTabs /\ nicTab'.at = nicTab.at
      /\ \/ job.kind = "list" /\ ~nicTab'.loading /\ nicTab'.changing = nicTab.changing
         \/ job.kind = "change" /\ ~nicTab'.changing /\ nicTab'.loading = nicTab.loading
  BY <1>3, <1>5 DEF NicTabs
<1>7. NicTyped'
  BY <1>2, <1>4, <1>6 DEF NicInv, NicTyped
<1>8. /\ \A i \in NicJob, kind \in {"list", "change"} : Lives(i, kind)' <=> Lives(i, kind) /\ i # j
      /\ Lives(j, job.kind)
  BY <1>1, <1>2, <1>4 DEF Lives
<1>9. OneOfAKind'
  BY <1>4, <1>8 DEF NicInv, OneOfAKind
<1>10. FlagsFit'
  <2>1. CASE job.kind = "list" /\ ~nicTab'.loading /\ nicTab'.changing = nicTab.changing
    <3>1. ~Lives(j, "change")
      BY <1>1, <2>1 DEF Lives
    <3>2. \A i \in NicJob : Lives(i, "list") => i = j
      BY <1>8, <2>1 DEF NicInv, OneOfAKind
    <3> QED
      BY <1>4, <1>8, <2>1, <3>1, <3>2 DEF NicInv, FlagsFit
  <2>2. CASE job.kind = "change" /\ ~nicTab'.changing /\ nicTab'.loading = nicTab.loading
    <3>1. ~Lives(j, "list")
      BY <1>1, <2>2 DEF Lives
    <3>2. \A i \in NicJob : Lives(i, "change") => i = j
      BY <1>8, <2>2 DEF NicInv, OneOfAKind
    <3> QED
      BY <1>4, <1>8, <2>2, <3>1, <3>2 DEF NicInv, FlagsFit
  <2> QED
    BY <1>6, <2>1, <2>2
<1>11. StagesFit' /\ ListsInOrder'
  BY <1>1, <1>2, <1>4, <1>6 DEF NicInv, StagesFit, ListsInOrder, At, IsStatic
<1>12. AddressIsOn'
  BY <1>1, <1>2, <1>4 DEF NicInv, AddressIsOn, OnAdapter, IsStatic, Now, Wanted
<1> QED
  BY <1>7, <1>9, <1>10, <1>11, <1>12 DEF NicInv

LEMMA WorkerTyped == NicInv => \A j \in NicJob : nicJobs[j] \in NicWorkers
  BY DEF NicInv, NicTyped, NicJob

\* A command, or the script, has been tried.
LEMMA WindowsMoves ==
    ASSUME NicInv, NEW j \in NicJob, NEW job \in NicWorkers,
           nicJobs' = [nicJobs EXCEPT ![j] = job], nicJobs[j].kind = "change", nicJobs[j].st # "over",
           job.kind = "change", job.nic = nicJobs[j].nic, job.target = nicJobs[j].target, job.st # "over",
           UNCHANGED <<nicTab, nicBox>>,
           nics' \in NicStates, nics'.plugged = nics.plugged, nics'.plugs = nics.plugs, nics.changes <= nics'.changes,
           job.st = "more" => IsStatic(j), job.st = "cleanup" => ~IsStatic(j),
           (nics.plugs = 0 /\ IsStatic(j)) =>
              /\ job.st \in {"dns", "more", "result"} => nics'.set[job.nic].address = job.target.address
              /\ job.st \in {"more", "result"} => nics'.set[job.nic].dns = job.target.dns
    PROVE  NicInv'
<1>1. /\ NicTyped' /\ OneOfAKind' /\ FlagsFit'
      /\ DOMAIN nicJobs' = DOMAIN nicJobs /\ nicJobs'[j] = job
      /\ \A i \in NicJob : i # j => nicJobs'[i] = nicJobs[i]
  <2>1. nicTab' \in NicTabs /\ nicTab'.changing = nicTab.changing /\ nicTab'.loading = nicTab.loading /\ nicBox' \in NicBoxes
    BY DEF NicInv, NicTyped
  <2>2. job.kind = nicJobs[j].kind
    OBVIOUS
  <2> QED
    BY <2>1, <2>2, WorkerGoesOn
<1>2. NicJob' = NicJob
  BY <1>1 DEF NicJob
<1>3. StagesFit'
  BY <1>1, <1>2 DEF NicInv, StagesFit, At, IsStatic
<1>4. ListsInOrder'
  <2>1. nics.changes \in Nat /\ nics'.changes \in Nat /\ nicTab.at \in Nat
    BY DEF NicInv, NicTyped, NicStates, NicTabs
  <2>2. nicTab'.at <= nics'.changes
    BY <2>1 DEF NicInv, ListsInOrder
  <2>3. ASSUME NEW i \in NicJob, nicJobs'[i].kind = "list", nicJobs'[i].st = "result"
        PROVE  nicTab'.at <= nicJobs'[i].at /\ nicJobs'[i].at <= nics'.changes
    <3>1. nicJobs'[i] = nicJobs[i] /\ nicJobs[i] \in NicWorkers
      BY <1>1, <2>3 DEF NicInv, NicTyped, NicJob
    <3>2. nicJobs[i].at \in Nat /\ nicTab.at <= nicJobs[i].at /\ nicJobs[i].at <= nics.changes
      BY <2>3, <3>1 DEF NicInv, ListsInOrder, NicWorkers
    <3> QED
      BY <2>1, <3>1, <3>2
  <2> QED
    BY <1>2, <2>2, <2>3 DEF ListsInOrder
<1>5. AddressIsOn'
  <2> SUFFICES ASSUME nics'.plugs = 0 PROVE nics'.plugged = Adapters /\ \A i \in NicJob : OnAdapter(i)'
    BY <1>2 DEF AddressIsOn
  <2>1. nics.plugs = 0 /\ nics'.plugged = Adapters
    BY DEF NicInv, AddressIsOn
  <2>2. OnAdapter(j)'
    BY <1>1, <2>1 DEF OnAdapter, IsStatic, Now, Wanted
  <2>3. ASSUME NEW i \in NicJob, i # j PROVE OnAdapter(i)'
    <3>1. nicJobs'[i] = nicJobs[i]
      BY <1>1, <2>3
    <3>2. nicJobs[i].kind = "change" => nicJobs[i].st = "over"
      BY <2>3 DEF NicInv, OneOfAKind, Lives
    <3> QED
      BY <3>1, <3>2 DEF OnAdapter
  <2> QED
    BY <2>1, <2>2, <2>3
<1> QED
  BY <1>1, <1>3, <1>4, <1>5 DEF NicInv

\* A command as one step, with what it is to leave where it is known to have worked.
LEMMA CommandMoves ==
    ASSUME NicInv, NEW j \in NicJob, nicJobs[j].kind = "change", nicJobs[j].st # "over",
           NEW settings, nicJobs[j].nic \in nics.plugged => settings \in AnySettings,
           NEW next \in NicWorkers, NEW otherwise \in NicWorkers,
           Command(j, settings, next, otherwise), UNCHANGED <<nicTab, nicBox>>,
           \A job \in {next, otherwise} :
              /\ job.kind = "change" /\ job.nic = nicJobs[j].nic /\ job.target = nicJobs[j].target /\ job.st # "over"
              /\ job.st = "more" => IsStatic(j)
              /\ job.st = "cleanup" => ~IsStatic(j),
           (nics.plugs = 0 /\ IsStatic(j)) =>
              /\ nicJobs[j].nic \in nics.plugged =>
                    /\ next.st \in {"dns", "more", "result"} => settings.address = Wanted(j).address
                    /\ next.st \in {"more", "result"} => settings.dns = Wanted(j).dns
              /\ \/ otherwise.st = "fallback"
                 \/ /\ Now(j).address = Wanted(j).address /\ Now(j).dns = Wanted(j).dns
                    /\ nicJobs[j].nic \in nics.plugged =>
                         settings.address = Wanted(j).address /\ settings.dns = Wanted(j).dns
    PROVE  NicInv'
<1>0. nics \in NicStates
  BY DEF NicInv, NicTyped
<1>1. CASE nicJobs[j].nic \in nics.plugged /\ SetNic(nicJobs[j].nic, settings) /\ Step(j, next)
  <2>1. /\ nics' \in NicStates /\ nics'.plugged = nics.plugged /\ nics'.plugs = nics.plugs
        /\ nics.changes <= nics'.changes /\ nics'.set[nicJobs[j].nic] = settings
    BY <1>0, <1>1, SetNicTold
  <2>2. nicJobs' = [nicJobs EXCEPT ![j] = next]
    BY <1>1 DEF Step
  <2>3. (nics.plugs = 0 /\ IsStatic(j)) =>
              /\ next.st \in {"dns", "more", "result"} => nics'.set[next.nic].address = next.target.address
              /\ next.st \in {"more", "result"} => nics'.set[next.nic].dns = next.target.dns
    BY <1>1, <2>1 DEF Wanted
  <2> QED
    BY <2>1, <2>2, <2>3, WindowsMoves
<1>2. CASE SetNic(nicJobs[j].nic, settings) /\ Step(j, otherwise)
  <2>1. /\ nics' \in NicStates /\ nics'.plugged = nics.plugged /\ nics'.plugs = nics.plugs
        /\ nics.changes <= nics'.changes
        /\ nicJobs[j].nic \in nics.plugged => nics'.set[nicJobs[j].nic] = settings
        /\ nicJobs[j].nic \notin nics.plugged => nics' = nics
    BY <1>0, <1>2, SetNicTold
  <2>2. nicJobs' = [nicJobs EXCEPT ![j] = otherwise]
    BY <1>2 DEF Step
  <2>3. (nics.plugs = 0 /\ IsStatic(j)) =>
              /\ otherwise.st \in {"dns", "more", "result"} => nics'.set[otherwise.nic].address = otherwise.target.address
              /\ otherwise.st \in {"more", "result"} => nics'.set[otherwise.nic].dns = otherwise.target.dns
    BY <2>1 DEF Now, Wanted
  <2> QED
    BY <2>1, <2>2, <2>3, WindowsMoves
<1>3. CASE UNCHANGED nics /\ Step(j, otherwise)
  <2>1. /\ nics' \in NicStates /\ nics'.plugged = nics.plugged /\ nics'.plugs = nics.plugs
        /\ nics.changes <= nics'.changes
    BY <1>0, <1>3 DEF NicStates
  <2>2. nicJobs' = [nicJobs EXCEPT ![j] = otherwise]
    BY <1>3 DEF Step
  <2>3. (nics.plugs = 0 /\ IsStatic(j)) =>
              /\ otherwise.st \in {"dns", "more", "result"} => nics'.set[otherwise.nic].address = otherwise.target.address
              /\ otherwise.st \in {"more", "result"} => nics'.set[otherwise.nic].dns = otherwise.target.dns
    BY <1>3 DEF Now, Wanted
  <2> QED
    BY <2>1, <2>2, <2>3, WindowsMoves
<1> QED
  BY <1>1, <1>2, <1>3 DEF Command

\* What an adapter has, and what is wanted of it.
LEMMA NowAndWanted ==
    ASSUME NicInv, NEW j \in NicJob
    PROVE  /\ Wanted(j) \in AnySettings
           /\ nicJobs[j].nic \in nics.plugged => Now(j) \in AnySettings
<1>1. nicJobs[j] \in NicWorkers /\ nics \in NicStates
  BY DEF NicInv, NicTyped, NicJob
<1> QED
  BY <1>1 DEF NicWorkers, NicStates, Now, Wanted

\* The steps of a change.
LEMMA NetshAddressStep ==
    ASSUME NicInv, NEW j \in NicJob, NetshAddress(j), UNCHANGED <<nicTab, nicBox>>
    PROVE  NicInv'
<1>1. nicJobs[j].kind = "change" /\ nicJobs[j].st # "over" /\ IsStatic(j)
  BY DEF NetshAddress, At
<1>2. PICK next : next = [nicJobs[j] EXCEPT !.st = "dns"]
  OBVIOUS
<1>3. PICK otherwise : otherwise = [nicJobs[j] EXCEPT !.st = "fallback"]
  OBVIOUS
<1>4. PICK settings : settings = [Now(j) EXCEPT !.address = Wanted(j).address]
  OBVIOUS
<1>5. Command(j, settings, next, otherwise)
  BY <1>2, <1>3, <1>4 DEF NetshAddress
<1>6. /\ next \in NicWorkers /\ next.st = "dns" /\ next.kind = nicJobs[j].kind
      /\ next.nic = nicJobs[j].nic /\ next.target = nicJobs[j].target
  BY <1>2, WorkerTyped DEF NicWorkers
<1>7. /\ otherwise \in NicWorkers /\ otherwise.st = "fallback" /\ otherwise.kind = nicJobs[j].kind
      /\ otherwise.nic = nicJobs[j].nic /\ otherwise.target = nicJobs[j].target
  BY <1>3, WorkerTyped DEF NicWorkers
<1>8. nicJobs[j].nic \in nics.plugged => settings \in AnySettings /\ settings.address = Wanted(j).address
  BY <1>4, NowAndWanted DEF AnySettings
<1>11. nicJobs[j].nic \in nics.plugged => settings \in AnySettings
  BY <1>8
<1>12. \A job \in {next, otherwise} :
              /\ job.kind = "change" /\ job.nic = nicJobs[j].nic /\ job.target = nicJobs[j].target /\ job.st # "over"
              /\ job.st = "more" => IsStatic(j)
              /\ job.st = "cleanup" => ~IsStatic(j)
  BY <1>1, <1>6, <1>7
<1>13. (nics.plugs = 0 /\ IsStatic(j)) =>
              /\ nicJobs[j].nic \in nics.plugged =>
                    /\ next.st \in {"dns", "more", "result"} => settings.address = Wanted(j).address
                    /\ next.st \in {"more", "result"} => settings.dns = Wanted(j).dns
              /\ \/ otherwise.st = "fallback"
                 \/ /\ Now(j).address = Wanted(j).address /\ Now(j).dns = Wanted(j).dns
                    /\ nicJobs[j].nic \in nics.plugged =>
                         settings.address = Wanted(j).address /\ settings.dns = Wanted(j).dns
  BY <1>6, <1>7, <1>8
<1> QED
  BY <1>1, <1>5, <1>6, <1>7, <1>11, <1>12, <1>13, CommandMoves

LEMMA NetshDnsStep ==
    ASSUME NicInv, NEW j \in NicJob, NetshDns(j), UNCHANGED <<nicTab, nicBox>>
    PROVE  NicInv'
<1>1. nicJobs[j].kind = "change" /\ nicJobs[j].st = "dns" /\ IsStatic(j)
  BY DEF NetshDns, At
<1>2. PICK next : next = [nicJobs[j] EXCEPT !.st = "more"]
  OBVIOUS
<1>3. PICK otherwise : otherwise = [nicJobs[j] EXCEPT !.st = "fallback"]
  OBVIOUS
<1>4. PICK settings : settings = [Now(j) EXCEPT !.dns = Wanted(j).dns, !.more = Unset]
  OBVIOUS
<1>5. Command(j, settings, next, otherwise)
  BY <1>2, <1>3, <1>4 DEF NetshDns
<1>6. /\ next \in NicWorkers /\ next.st = "more" /\ next.kind = nicJobs[j].kind
      /\ next.nic = nicJobs[j].nic /\ next.target = nicJobs[j].target
  BY <1>2, WorkerTyped DEF NicWorkers
<1>7. /\ otherwise \in NicWorkers /\ otherwise.st = "fallback" /\ otherwise.kind = nicJobs[j].kind
      /\ otherwise.nic = nicJobs[j].nic /\ otherwise.target = nicJobs[j].target
  BY <1>3, WorkerTyped DEF NicWorkers
<1>8. nicJobs[j].nic \in nics.plugged =>
        settings \in AnySettings /\ settings.dns = Wanted(j).dns /\ settings.address = Now(j).address
  BY <1>4, NowAndWanted DEF AnySettings, Values
<1>9. nics.plugs = 0 => Now(j).address = Wanted(j).address
  BY <1>1 DEF NicInv, AddressIsOn, OnAdapter
<1>10. nicJobs[j].st # "over"
  BY <1>1
<1>11. nicJobs[j].nic \in nics.plugged => settings \in AnySettings
  BY <1>8
<1>12. \A job \in {next, otherwise} :
              /\ job.kind = "change" /\ job.nic = nicJobs[j].nic /\ job.target = nicJobs[j].target /\ job.st # "over"
              /\ job.st = "more" => IsStatic(j)
              /\ job.st = "cleanup" => ~IsStatic(j)
  BY <1>1, <1>6, <1>7
<1>13. (nics.plugs = 0 /\ IsStatic(j)) =>
              /\ nicJobs[j].nic \in nics.plugged =>
                    /\ next.st \in {"dns", "more", "result"} => settings.address = Wanted(j).address
                    /\ next.st \in {"more", "result"} => settings.dns = Wanted(j).dns
              /\ \/ otherwise.st = "fallback"
                 \/ /\ Now(j).address = Wanted(j).address /\ Now(j).dns = Wanted(j).dns
                    /\ nicJobs[j].nic \in nics.plugged =>
                         settings.address = Wanted(j).address /\ settings.dns = Wanted(j).dns
  BY <1>6, <1>7, <1>8, <1>9
<1> QED
  BY <1>1, <1>5, <1>6, <1>7, <1>11, <1>12, <1>13, <1>10, CommandMoves

LEMMA NetshMoreDnsStep ==
    ASSUME NicInv, NEW j \in NicJob, NetshMoreDns(j), UNCHANGED <<nicTab, nicBox>>
    PROVE  NicInv'
<1>1. nicJobs[j].kind = "change" /\ nicJobs[j].st = "more" /\ IsStatic(j)
  BY DEF NetshMoreDns, At, NicInv, StagesFit
<1>2. PICK next : next = [nicJobs[j] EXCEPT !.st = "result"]
  OBVIOUS
<1>4. PICK settings : settings = [Now(j) EXCEPT !.more = Wanted(j).more]
  OBVIOUS
<1>5. Command(j, settings, next, next)
  BY <1>2, <1>4 DEF NetshMoreDns
<1>6. /\ next \in NicWorkers /\ next.st = "result" /\ next.kind = nicJobs[j].kind
      /\ next.nic = nicJobs[j].nic /\ next.target = nicJobs[j].target
  BY <1>2, WorkerTyped DEF NicWorkers
<1>8. nicJobs[j].nic \in nics.plugged =>
        settings \in AnySettings /\ settings.dns = Now(j).dns /\ settings.address = Now(j).address
  BY <1>4, NowAndWanted DEF AnySettings
<1>9. nics.plugs = 0 => Now(j).address = Wanted(j).address /\ Now(j).dns = Wanted(j).dns
  BY <1>1 DEF NicInv, AddressIsOn, OnAdapter
<1>10. nicJobs[j].st # "over"
  BY <1>1
<1>11. nicJobs[j].nic \in nics.plugged => settings \in AnySettings
  BY <1>8
<1>12. \A job \in {next, next} :
              /\ job.kind = "change" /\ job.nic = nicJobs[j].nic /\ job.target = nicJobs[j].target /\ job.st # "over"
              /\ job.st = "more" => IsStatic(j)
              /\ job.st = "cleanup" => ~IsStatic(j)
  BY <1>1, <1>6
<1>13. (nics.plugs = 0 /\ IsStatic(j)) =>
              /\ nicJobs[j].nic \in nics.plugged =>
                    /\ next.st \in {"dns", "more", "result"} => settings.address = Wanted(j).address
                    /\ next.st \in {"more", "result"} => settings.dns = Wanted(j).dns
              /\ \/ next.st = "fallback"
                 \/ /\ Now(j).address = Wanted(j).address /\ Now(j).dns = Wanted(j).dns
                    /\ nicJobs[j].nic \in nics.plugged =>
                         settings.address = Wanted(j).address /\ settings.dns = Wanted(j).dns
  BY <1>6, <1>8, <1>9
<1> QED
  BY <1>1, <1>5, <1>6, <1>11, <1>12, <1>13, <1>10, CommandMoves

LEMMA NetshDhcpSteps ==
    ASSUME NicInv, NEW j \in NicJob, NetshDhcp(j) \/ NetshDhcpDns(j), UNCHANGED <<nicTab, nicBox>>
    PROVE  NicInv'
<1>1. nicJobs[j].kind = "change" /\ nicJobs[j].st # "over" /\ ~IsStatic(j)
  BY DEF NetshDhcp, NetshDhcpDns, At
<1>2. PICK settings, st :
        /\ st \in {"dns", "cleanup"}
        /\ \/ settings = [Now(j) EXCEPT !.address = Dhcp]
           \/ settings = [Now(j) EXCEPT !.dns = Dhcp, !.more = Dhcp]
        /\ Command(j, settings, [nicJobs[j] EXCEPT !.st = st], [nicJobs[j] EXCEPT !.st = st, !.ok = FALSE])
  BY DEF NetshDhcp, NetshDhcpDns
<1>3. PICK next : next = [nicJobs[j] EXCEPT !.st = st]
  OBVIOUS
<1>4. PICK otherwise : otherwise = [nicJobs[j] EXCEPT !.st = st, !.ok = FALSE]
  OBVIOUS
<1>5. Command(j, settings, next, otherwise)
  BY <1>2, <1>3, <1>4
<1>6. /\ next \in NicWorkers /\ next.st = st /\ next.kind = nicJobs[j].kind
      /\ next.nic = nicJobs[j].nic /\ next.target = nicJobs[j].target
  BY <1>2, <1>3, WorkerTyped DEF NicWorkers
<1>7. /\ otherwise \in NicWorkers /\ otherwise.st = st /\ otherwise.kind = nicJobs[j].kind
      /\ otherwise.nic = nicJobs[j].nic /\ otherwise.target = nicJobs[j].target
  BY <1>2, <1>4, WorkerTyped DEF NicWorkers
<1>8. nicJobs[j].nic \in nics.plugged => settings \in AnySettings
  BY <1>2, NowAndWanted DEF AnySettings, Values
<1>9. st # "over" /\ st # "more"
  BY <1>2
<1>11. nicJobs[j].nic \in nics.plugged => settings \in AnySettings
  BY <1>8
<1>12. \A job \in {next, otherwise} :
              /\ job.kind = "change" /\ job.nic = nicJobs[j].nic /\ job.target = nicJobs[j].target /\ job.st # "over"
              /\ job.st = "more" => IsStatic(j)
              /\ job.st = "cleanup" => ~IsStatic(j)
  BY <1>1, <1>6, <1>7, <1>9
<1>13. (nics.plugs = 0 /\ IsStatic(j)) =>
              /\ nicJobs[j].nic \in nics.plugged =>
                    /\ next.st \in {"dns", "more", "result"} => settings.address = Wanted(j).address
                    /\ next.st \in {"more", "result"} => settings.dns = Wanted(j).dns
              /\ \/ otherwise.st = "fallback"
                 \/ /\ Now(j).address = Wanted(j).address /\ Now(j).dns = Wanted(j).dns
                    /\ nicJobs[j].nic \in nics.plugged =>
                         settings.address = Wanted(j).address /\ settings.dns = Wanted(j).dns
  BY <1>1
<1> QED
  BY <1>1, <1>5, <1>6, <1>7, <1>11, <1>12, <1>13, CommandMoves

\* The script that sets an address has set all of it, or has failed.
LEMMA ScriptStaticStep ==
    ASSUME NicInv, NEW j \in NicJob, ScriptStatic(j), UNCHANGED <<nicTab, nicBox>>
    PROVE  NicInv'
<1>0. nics \in NicStates
  BY DEF NicInv, NicTyped
<1>1. nicJobs[j].kind = "change" /\ nicJobs[j].st # "over" /\ IsStatic(j)
  BY DEF ScriptStatic, At
<1>2. CASE /\ nicJobs[j].nic \in nics.plugged
           /\ SetNic(nicJobs[j].nic, Wanted(j))
           /\ Goto(j, "result")
  <2>1. PICK job : job = [nicJobs[j] EXCEPT !.st = "result"]
    OBVIOUS
  <2>2. /\ job \in NicWorkers /\ job.st = "result" /\ job.kind = nicJobs[j].kind
        /\ job.nic = nicJobs[j].nic /\ job.target = nicJobs[j].target
    BY <2>1, WorkerTyped DEF NicWorkers
  <2>3. /\ nics' \in NicStates /\ nics'.plugged = nics.plugged /\ nics'.plugs = nics.plugs
        /\ nics.changes <= nics'.changes /\ nics'.set[nicJobs[j].nic] = Wanted(j)
    BY <1>0, <1>2, SetNicTold, NowAndWanted
  <2>4. nicJobs' = [nicJobs EXCEPT ![j] = job]
    BY <1>2, <2>1 DEF Goto, Step
  <2>5. /\ nics'.set[job.nic].address = job.target.address
        /\ nics'.set[job.nic].dns = job.target.dns
    BY <2>2, <2>3 DEF Wanted
  <2> QED
    BY <1>1, <2>2, <2>3, <2>4, <2>5, WindowsMoves
<1>3. CASE /\ \/ SetNic(nicJobs[j].nic, [Now(j) EXCEPT !.address = Unset])
              \/ SetNic(nicJobs[j].nic, [Now(j) EXCEPT !.address = Wanted(j).address])
              \/ UNCHANGED nics
           /\ Goto(j, "failure")
  <2>1. PICK job : job = [nicJobs[j] EXCEPT !.st = "failure"]
    OBVIOUS
  <2>2. /\ job \in NicWorkers /\ job.st = "failure" /\ job.kind = nicJobs[j].kind
        /\ job.nic = nicJobs[j].nic /\ job.target = nicJobs[j].target
    BY <2>1, WorkerTyped DEF NicWorkers
  <2>3. nicJobs[j].nic \in nics.plugged => /\ [Now(j) EXCEPT !.address = Unset] \in AnySettings
                                           /\ [Now(j) EXCEPT !.address = Wanted(j).address] \in AnySettings
    BY NowAndWanted DEF AnySettings, Values
  <2>4. /\ nics' \in NicStates /\ nics'.plugged = nics.plugged /\ nics'.plugs = nics.plugs
        /\ nics.changes <= nics'.changes
    <3>1. CASE SetNic(nicJobs[j].nic, [Now(j) EXCEPT !.address = Unset])
      BY <1>0, <2>3, <3>1, SetNicTold
    <3>2. CASE SetNic(nicJobs[j].nic, [Now(j) EXCEPT !.address = Wanted(j).address])
      BY <1>0, <2>3, <3>2, SetNicTold
    <3>3. CASE UNCHANGED nics
      BY <1>0, <3>3 DEF NicStates
    <3> QED
      BY <1>3, <3>1, <3>2, <3>3
  <2>5. nicJobs' = [nicJobs EXCEPT ![j] = job]
    BY <1>3, <2>1 DEF Goto, Step
  <2> QED
    BY <1>1, <2>2, <2>4, <2>5, WindowsMoves
<1> QED
  BY <1>2, <1>3 DEF ScriptStatic

\* What is tried after DHCP, and what has not begun.
LEMMA OtherChangeSteps ==
    ASSUME NicInv, NEW j \in NicJob, CleanUpAndRenew(j) \/ ScriptDhcp(j) \/ CannotStart(j),
           UNCHANGED <<nicTab, nicBox>>
    PROVE  NicInv'
<1>0. nics \in NicStates
  BY DEF NicInv, NicTyped
<1>1. PICK st \in {"result", "fallback", "failure", "error"} :
        /\ Goto(j, st)
        /\ st \in {"result", "fallback"} => ~IsStatic(j)
  BY DEF CleanUpAndRenew, ScriptDhcp, CannotStart, At, NicInv, StagesFit
<1>2. nicJobs[j].kind = "change" /\ nicJobs[j].st # "over"
  BY DEF CleanUpAndRenew, ScriptDhcp, CannotStart, At
<1>3. /\ nics' \in NicStates /\ nics'.plugged = nics.plugged /\ nics'.plugs = nics.plugs
      /\ nics.changes <= nics'.changes
  <2>1. CASE SetNic(nicJobs[j].nic, All(Dhcp))
    BY <1>0, <2>1, SetNicTold, SettingsTyped
  <2>2. CASE UNCHANGED nics
    BY <1>0, <2>2 DEF NicStates
  <2> QED
    BY <2>1, <2>2 DEF CleanUpAndRenew, ScriptDhcp, CannotStart
<1>4. PICK job : job = [nicJobs[j] EXCEPT !.st = st]
  OBVIOUS
<1>5. /\ job \in NicWorkers /\ job.st = st /\ job.kind = nicJobs[j].kind
      /\ job.nic = nicJobs[j].nic /\ job.target = nicJobs[j].target
  BY <1>4, WorkerTyped DEF NicWorkers
<1>6. nicJobs' = [nicJobs EXCEPT ![j] = job]
  BY <1>1, <1>4 DEF Goto, Step
<1> QED
  BY <1>1, <1>2, <1>3, <1>5, <1>6, WindowsMoves

LEMMA NicStart == NicInit => NicInv
<1> SUFFICES ASSUME NicInit PROVE NicInv
  OBVIOUS
<1>1. PICK waits \in SomeNic :
        nicTab = [rows |-> NoRows, at |-> 0, chosen |-> NoAdapter,
                  loading |-> FALSE, changing |-> FALSE, pending |-> waits]
  BY DEF NicInit, SomeNic
<1>2. nicTab \in NicTabs /\ ~nicTab.loading /\ ~nicTab.changing /\ nicTab.at = 0
  BY <1>1, NoRowsTyped DEF NicTabs, SomeNic
<1>3. [a \in Adapters |-> All(Dhcp)] \in [Adapters -> AnySettings]
  BY SettingsTyped
<1>4. nics \in NicStates /\ nics.changes = 0 /\ nics.plugged = Adapters
  BY <1>3 DEF NicInit, NicStates
<1>5. nicJobs = <<>> /\ nicBox = NoBox
  BY DEF NicInit
<1>6. nicJobs \in Seq(NicWorkers) /\ NicJob = {}
  BY <1>5 DEF NicJob
<1> QED
  BY <1>2, <1>4, <1>5, <1>6
     DEF NicInv, NicTyped, NicBoxes, OneOfAKind, FlagsFit, StagesFit, ListsInOrder, AddressIsOn

\* A step of the page alone.
LEMMA PageMoves ==
    ASSUME NicInv, UNCHANGED <<nics, nicJobs>>, nicTab' \in NicTabs, nicBox' \in NicBoxes,
           nicTab'.at = nicTab.at, nicTab'.loading = nicTab.loading, nicTab'.changing = nicTab.changing
    PROVE  NicInv'
<1>1. NicTyped'
  BY DEF NicInv, NicTyped
<1>2. OneOfAKind' /\ FlagsFit' /\ StagesFit' /\ ListsInOrder'
  BY DEF NicInv, OneOfAKind, FlagsFit, StagesFit, ListsInOrder, Lives, NicJob, At, IsStatic
<1>3. AddressIsOn'
  BY DEF NicInv, AddressIsOn, OnAdapter, NicJob, IsStatic, Now, Wanted
<1> QED
  BY <1>1, <1>2, <1>3 DEF NicInv

LEMMA ListJobTyped ==
    ASSUME NicInv
    PROVE  ListJob \in NicWorkers /\ ListJob.kind = "list" /\ ListJob.st = "read"
<1>1. nicTab.chosen \in SomeNic
  BY DEF NicInv, NicTyped, NicTabs
<1>2. LET new == [NewJob EXCEPT !.prefer = nicTab.chosen] IN
         new \in NicWorkers /\ new.kind = "list" /\ new.st = "read"
  BY <1>1, NewJobTyped
<1> QED
  BY <1>2 DEF ListJob

LEMMA RefreshAdaptersStep == NicInv /\ RefreshAdapters => NicInv'
<1> SUFFICES ASSUME NicInv, RefreshAdapters PROVE NicInv'
  OBVIOUS
<1>1. PICK job \in NicWorkers : job = ListJob /\ job.kind = "list" /\ job.st = "read"
  BY ListJobTyped
<1>2. /\ ~nicTab.loading /\ nicJobs' = Append(nicJobs, job)
      /\ nicTab' = [nicTab EXCEPT !.loading = TRUE] /\ UNCHANGED <<nics, nicBox>>
  BY <1>1 DEF RefreshAdapters
<1>3. nicTab \in NicTabs /\ nicBox \in NicBoxes /\ nicJobs \in Seq(NicWorkers)
  BY DEF NicInv, NicTyped
<1>4. nicTab' \in NicTabs /\ nicTab'.loading /\ nicTab'.changing = nicTab.changing /\ nicTab'.at = nicTab.at
  BY <1>2, <1>3 DEF NicTabs
<1>5. DOMAIN nicJobs = NicJob
  BY DEF NicJob
<1> QED
  BY <1>1, <1>2, <1>3, <1>4, <1>5, WorkerStarts

LEMMA ListAdaptersStep ==
    ASSUME NicInv, NEW j \in NicJob, ListAdapters(j)
    PROVE  NicInv'
<1>1. nicJobs[j].kind = "list" /\ nicJobs[j].st = "read" /\ UNCHANGED <<nics, nicTab, nicBox>>
  BY DEF ListAdapters
<1>2. nicTab' \in NicTabs /\ nicBox' \in NicBoxes /\ nics \in NicStates
  BY <1>1 DEF NicInv, NicTyped
<1>3. CASE Step(j, [nicJobs[j] EXCEPT !.st = "result", !.at = nics.changes,
                                      !.rows = [a \in nics.plugged |-> nics.set[a]]])
  <2>1. nics.changes \in Nat /\ nics.plugged \in SUBSET Adapters /\ nics.set \in [Adapters -> AnySettings]
    BY <1>2 DEF NicStates
  <2>2. PICK rows \in NicLists : rows = [a \in nics.plugged |-> nics.set[a]]
    <3>1. [a \in nics.plugged |-> nics.set[a]] \in [nics.plugged -> AnySettings]
      BY <2>1
    <3>2. [a \in nics.plugged |-> nics.set[a]] \in NicLists
      BY <2>1, <3>1 DEF NicLists
    <3> QED
      BY <3>2
  <2>3. PICK job : job = [nicJobs[j] EXCEPT !.st = "result", !.at = nics.changes, !.rows = rows]
    OBVIOUS
  <2>4. job \in NicWorkers /\ job.kind = "list" /\ job.st = "result" /\ job.at = nics.changes
    BY <1>1, <2>1, <2>3, WorkerTyped DEF NicWorkers
  <2>5. nicJobs' = [nicJobs EXCEPT ![j] = job]
    BY <1>3, <2>2, <2>3 DEF Step
  <2>6. nicTab.at <= job.at /\ job.at <= nics.changes
    BY <2>1, <2>4 DEF NicInv, ListsInOrder
  <2>7. job.kind = nicJobs[j].kind /\ nicJobs[j].st # "over"
    BY <1>1, <2>4
  <2> QED
    BY <1>1, <1>2, <2>4, <2>5, <2>6, <2>7, WorkerReports
<1>4. CASE Goto(j, "error")
  <2>1. PICK job : job = [nicJobs[j] EXCEPT !.st = "error"]
    OBVIOUS
  <2>2. job \in NicWorkers /\ job.kind = nicJobs[j].kind /\ job.st = "error"
    BY <2>1, WorkerTyped DEF NicWorkers
  <2>3. nicJobs' = [nicJobs EXCEPT ![j] = job] /\ nicJobs[j].st # "over"
    BY <1>1, <1>4, <2>1 DEF Goto, Step
  <2> QED
    BY <1>1, <1>2, <2>2, <2>3, WorkerReports
<1> QED
  BY <1>3, <1>4 DEF ListAdapters

LEMMA ShowAdaptersStep ==
    ASSUME NicInv, NEW j \in NicJob, ShowAdapters(j)
    PROVE  NicInv' /\ nicTab'.at >= nicTab.at
<1>1. /\ nicJobs[j].kind = "list" /\ nicJobs[j].st = "result" /\ Goto(j, "finished")
      /\ UNCHANGED <<nics, nicBox>> /\ Populate(nicJobs[j].rows, nicJobs[j].at, nicJobs[j].prefer)
  BY DEF ShowAdapters
<1>2. nicTab \in NicTabs /\ nicBox' \in NicBoxes /\ nics \in NicStates
  BY <1>1 DEF NicInv, NicTyped
<1>3. PICK rows \in NicLists, at \in Nat, prefer \in SomeNic :
        rows = nicJobs[j].rows /\ at = nicJobs[j].at /\ prefer = nicJobs[j].prefer
  BY WorkerTyped DEF NicWorkers
<1>4. PICK first \in SomeNic : first = IF rows = NoRows THEN NoAdapter ELSE First(rows)
  BY FirstTyped DEF SomeNic
<1>5. PICK chosen, waits : /\ nicTab' = [nicTab EXCEPT !.rows = rows, !.at = at, !.chosen = chosen, !.pending = waits]
                             /\ waits \in SomeNic
                             /\ chosen \in {nicTab.pending, prefer, first}
  <2>1. nicTab.pending \in SomeNic
    BY <1>2 DEF NicTabs
  <2>2. PICK waits : waits = IF rows = NoRows THEN nicTab.pending ELSE NoAdapter
    OBVIOUS
  <2>3. waits \in SomeNic
    BY <2>1, <2>2 DEF SomeNic
  <2>4. PICK chosen : chosen = IF nicTab.pending \in DOMAIN rows THEN nicTab.pending
                               ELSE IF prefer \in DOMAIN rows THEN prefer
                               ELSE IF rows = NoRows THEN NoAdapter ELSE First(rows)
    OBVIOUS
  <2>5. nicTab' = [nicTab EXCEPT !.rows = rows, !.at = at, !.chosen = chosen, !.pending = waits]
    BY <1>1, <1>3, <2>2, <2>4 DEF Populate
  <2> QED
    BY <1>4, <2>3, <2>4, <2>5
<1>6. chosen \in SomeNic
  BY <1>2, <1>5 DEF NicTabs
<1>7. /\ nicTab' \in NicTabs /\ nicTab'.at = nicJobs[j].at
      /\ nicTab'.changing = nicTab.changing /\ nicTab'.loading = nicTab.loading
  BY <1>2, <1>3, <1>5, <1>6 DEF NicTabs
<1>8. PICK job : job = [nicJobs[j] EXCEPT !.st = "finished"]
  OBVIOUS
<1>9. job \in NicWorkers /\ job.kind = nicJobs[j].kind /\ job.kind = "list" /\ job.st = "finished"
  BY <1>1, <1>8, WorkerTyped DEF NicWorkers
<1>10. nicJobs' = [nicJobs EXCEPT ![j] = job] /\ nicJobs[j].st # "over"
  BY <1>1, <1>8 DEF Goto, Step
<1>11. NicInv'
  BY <1>1, <1>2, <1>7, <1>9, <1>10, WorkerReports
<1>12. nicTab'.at >= nicTab.at
  <2>1. nicTab.at \in Nat /\ nicJobs[j].at \in Nat /\ nicTab.at <= nicJobs[j].at
    BY <1>1, <1>2, <1>3 DEF NicInv, ListsInOrder, NicTabs
  <2> QED
    BY <1>7, <2>1
<1> QED
  BY <1>11, <1>12

LEMMA PageSteps ==
    ASSUME NicInv,
           \/ \E a \in Adapters : ChooseAdapter(a)
           \/ \E f \in Settings : Apply(f)
           \/ Decline
    PROVE  NicInv'
<1>0. nicTab \in NicTabs /\ nicBox \in NicBoxes
  BY DEF NicInv, NicTyped
<1>1. CASE \E a \in Adapters : ChooseAdapter(a)
  <2>1. PICK a \in SomeNic : /\ nicTab' = [nicTab EXCEPT !.chosen = a]
                             /\ UNCHANGED <<nics, nicBox, nicJobs>>
    BY <1>1 DEF ChooseAdapter, SomeNic
  <2>2. /\ nicTab' \in NicTabs /\ nicTab'.at = nicTab.at
        /\ nicTab'.loading = nicTab.loading /\ nicTab'.changing = nicTab.changing
    BY <1>0, <2>1 DEF NicTabs
  <2> QED
    BY <1>0, <2>1, <2>2, PageMoves
<1>2. CASE \E f \in Settings : Apply(f)
  <2>1. nicTab.chosen \in SomeNic
    BY <1>0 DEF NicTabs
  <2>2. PICK a \in Adapters, f \in Settings : AskToApply(a, f)
    BY <1>2, <2>1 DEF Apply, SomeNic
  <2>3. nicBox' \in NicBoxes /\ UNCHANGED <<nics, nicTab, nicJobs>>
    BY <2>2 DEF AskToApply, NicBoxes
  <2> QED
    BY <1>0, <2>3, PageMoves
<1>3. CASE Decline
  <2>1. nicBox' \in NicBoxes /\ UNCHANGED <<nics, nicTab, nicJobs>>
    BY <1>3 DEF Decline, NicBoxes
  <2> QED
    BY <1>0, <2>1, PageMoves
<1> QED
  BY <1>1, <1>2, <1>3

\* What was confirmed is what is started.
LEMMA ConfirmStep ==
    ASSUME NicInv, Confirm
    PROVE  /\ NicInv'
           /\ \A j \in DOMAIN nicJobs' \ DOMAIN nicJobs :
                nicBox.open /\ nicJobs'[j].nic = nicBox.nic /\ nicJobs'[j].target = nicBox.target
<1>1. /\ nicBox.open /\ ~nicTab.changing /\ UNCHANGED nics /\ nicBox' = NoBox
      /\ nicTab' = [nicTab EXCEPT !.changing = TRUE]
      /\ nicJobs' = Append(nicJobs, [NewJob EXCEPT !.kind = "change", !.st = "address",
                                                   !.nic = nicBox.nic, !.target = nicBox.target])
  BY DEF Confirm, StartChange
<1>2. nicTab \in NicTabs /\ nicBox \in NicBoxes /\ nicJobs \in Seq(NicWorkers)
  BY DEF NicInv, NicTyped
<1>3. nicBox.nic \in Adapters /\ nicBox.target \in Settings
  <2>1. nicBox # NoBox
    BY <1>1 DEF NoBox
  <2>2. nicBox \in [open : {TRUE}, nic : Adapters, target : Settings]
    BY <1>2, <2>1 DEF NicBoxes
  <2> QED
    BY <2>2
<1>4. LET new == [NewJob EXCEPT !.kind = "change", !.st = "address", !.nic = nicBox.nic, !.target = nicBox.target] IN
         new \in NicWorkers /\ new.kind = "change" /\ new.st = "address" /\ new.nic = nicBox.nic /\ new.target = nicBox.target
  <2>1. NewJob \in NicWorkers
    BY NewJobTyped
  <2>2. nicBox.target \in AnySettings
    BY <1>3, SettingsTyped
  <2> QED
    BY <1>3, <2>1, <2>2 DEF NicWorkers, SomeNic
<1>5. PICK job \in NicWorkers : /\ nicJobs' = Append(nicJobs, job)
                                /\ job.kind = "change" /\ job.st = "address"
                                /\ job.nic = nicBox.nic /\ job.target = nicBox.target
  BY <1>1, <1>4
<1>6. nicTab' \in NicTabs /\ nicTab'.changing /\ nicTab'.loading = nicTab.loading /\ nicTab'.at = nicTab.at
  BY <1>1, <1>2 DEF NicTabs
<1>7. DOMAIN nicJobs = NicJob /\ nicBox' \in NicBoxes
  BY <1>1 DEF NicJob, NicBoxes
<1>8. NicInv'
  BY <1>1, <1>2, <1>5, <1>6, <1>7, WorkerStarts
<1>9. \A j \in DOMAIN nicJobs' \ DOMAIN nicJobs : nicJobs'[j] = job
  BY <1>2, <1>5, AppendTold
<1> QED
  BY <1>1, <1>5, <1>8, <1>9

LEMMA ChangeSucceededStep ==
    ASSUME NicInv, NEW j \in NicJob, ChangeSucceeded(j)
    PROVE  NicInv' /\ nicTab'.at = nicTab.at /\ \A i \in DOMAIN nicJobs' \ DOMAIN nicJobs : nicJobs'[i].kind = "list"
<1>1. nicJobs[j].kind = "change" /\ nicJobs[j].st = "result" /\ UNCHANGED <<nics, nicBox>>
  BY DEF ChangeSucceeded
<1>2. nicTab \in NicTabs /\ nicBox' \in NicBoxes /\ nicJobs \in Seq(NicWorkers)
  BY <1>1 DEF NicInv, NicTyped
<1>3. PICK done : done = [nicJobs[j] EXCEPT !.st = "finished"]
  OBVIOUS
<1>4. done \in NicWorkers /\ done.kind = nicJobs[j].kind /\ done.st = "finished" /\ nicJobs[j].st # "over"
  BY <1>1, <1>3, WorkerTyped DEF NicWorkers
<1>5. PICK mid : mid = [nicJobs EXCEPT ![j] = done]
  OBVIOUS
<1>6. /\ mid \in Seq(NicWorkers) /\ DOMAIN mid = NicJob /\ mid[j] = done
      /\ \A i \in NicJob : i # j => mid[i] = nicJobs[i]
  BY <1>2, <1>4, <1>5 DEF NicJob
<1>7. CASE Goto(j, "finished") /\ UNCHANGED nicTab
  <2>1. nicJobs' = [nicJobs EXCEPT ![j] = done] /\ DOMAIN nicJobs' = DOMAIN nicJobs
    BY <1>3, <1>7 DEF Goto, Step
  <2>2. NicInv'
    BY <1>1, <1>2, <1>4, <1>7, <2>1, WorkerReports
  <2> QED
    BY <1>7, <2>1, <2>2
<1>8. CASE /\ ~nicTab.loading /\ nicJobs' = Append([nicJobs EXCEPT ![j].st = "finished"], ListJob)
           /\ nicTab' = [nicTab EXCEPT !.loading = TRUE]
  <2>1. PICK job \in NicWorkers : job = ListJob /\ job.kind = "list" /\ job.st = "read"
    BY ListJobTyped
  <2>2. [nicJobs EXCEPT ![j].st = "finished"] = mid
    BY <1>3, <1>5
  <2>3. nicJobs' = Append(mid, job)
    BY <1>8, <2>1, <2>2
  <2>4. nicTab' \in NicTabs /\ nicTab'.loading /\ nicTab'.changing = nicTab.changing /\ nicTab'.at = nicTab.at
    BY <1>2, <1>8 DEF NicTabs
  <2>5. \A i \in NicJob : \/ mid[i] = nicJobs[i]
                          \/ /\ mid[i].kind = nicJobs[i].kind /\ mid[i].st = "finished"
                             /\ nicJobs[i].st # "over"
    BY <1>4, <1>6
  <2>6. NicInv'
    BY <1>1, <1>2, <1>6, <1>8, <2>1, <2>3, <2>4, <2>5, WorkerStarts
  <2>7. \A i \in DOMAIN nicJobs' \ DOMAIN mid : nicJobs'[i] = job
    BY <1>6, <2>3, AppendTold
  <2> QED
    BY <1>6, <2>1, <2>4, <2>6, <2>7 DEF NicJob
<1> QED
  BY <1>7, <1>8 DEF ChangeSucceeded

LEMMA ShowErrorStep ==
    ASSUME NicInv, NEW j \in NicJob, ShowError(j)
    PROVE  NicInv'
<1>1. nicJobs[j].st \in {"failure", "error"} /\ Goto(j, "finished") /\ UNCHANGED <<nics, nicTab, nicBox>>
  BY DEF ShowError
<1>2. nicTab' \in NicTabs /\ nicBox' \in NicBoxes
  BY <1>1 DEF NicInv, NicTyped
<1>3. PICK job : job = [nicJobs[j] EXCEPT !.st = "finished"]
  OBVIOUS
<1>4. job \in NicWorkers /\ job.kind = nicJobs[j].kind /\ job.st = "finished" /\ nicJobs[j].st # "over"
  BY <1>1, <1>3, WorkerTyped DEF NicWorkers
<1>5. nicJobs' = [nicJobs EXCEPT ![j] = job]
  BY <1>1, <1>3 DEF Goto, Step
<1> QED
  BY <1>1, <1>2, <1>4, <1>5, WorkerReports

LEMMA ChangeStepStep ==
    ASSUME NicInv, NEW j \in NicJob, ChangeStep(j)
    PROVE  NicInv'
  BY NetshAddressStep, NetshDnsStep, NetshMoreDnsStep, NetshDhcpSteps, ScriptStaticStep, OtherChangeSteps DEF ChangeStep

LEMMA PlugStep == NicInv /\ Plug => NicInv'
<1> SUFFICES ASSUME NicInv, Plug PROVE NicInv'
  OBVIOUS
<1>0. nics \in NicStates /\ nicTab \in NicTabs /\ nicTab.at \in Nat
  BY DEF NicInv, NicTyped, NicTabs
<1>1. PICK a \in Adapters :
         nics' = [nics EXCEPT !.plugs = nics.plugs + 1, !.changes = nics.changes + 1, !.set[a] = All(Dhcp),
                              !.plugged = IF a \in nics.plugged THEN nics.plugged \ {a} ELSE nics.plugged \cup {a}]
  BY DEF Plug
<1>2. nics.plugs \in Nat /\ nics.changes \in Nat /\ nics.plugged \in SUBSET Adapters /\ nics.set \in [Adapters -> AnySettings]
  BY <1>0 DEF NicStates
<1>3. nics.plugs + 1 \in Nat \ {0} /\ nics.changes + 1 \in Nat
  BY <1>2
<1>4. PICK plugged \in SUBSET Adapters :
        plugged = IF a \in nics.plugged THEN nics.plugged \ {a} ELSE nics.plugged \cup {a}
  BY <1>2
<1>5. PICK set : set = [nics.set EXCEPT ![a] = All(Dhcp)]
  OBVIOUS
<1>6. set \in [Adapters -> AnySettings]
  BY <1>2, <1>5, SettingsTyped
<1>7. nics' = [nics EXCEPT !.plugs = nics.plugs + 1, !.changes = nics.changes + 1, !.set = set, !.plugged = plugged]
  BY <1>0, <1>1, <1>4, <1>5 DEF NicStates
<1>8. nics' \in NicStates /\ nics'.plugs = nics.plugs + 1 /\ nics'.changes = nics.changes + 1
  BY <1>0, <1>3, <1>6, <1>7 DEF NicStates
<1>9. UNCHANGED <<nicTab, nicBox, nicJobs>>
  BY DEF Plug
<1>10. NicTyped'
  BY <1>8, <1>9 DEF NicInv, NicTyped
<1>11. OneOfAKind' /\ FlagsFit' /\ StagesFit'
  BY <1>9 DEF NicInv, OneOfAKind, FlagsFit, StagesFit, Lives, NicJob, At, IsStatic
<1>12. ListsInOrder'
  <2>1. nicTab.at <= nics.changes + 1
    BY <1>0, <1>2 DEF NicInv, ListsInOrder
  <2>2. ASSUME NEW j \in NicJob, nicJobs[j].kind = "list", nicJobs[j].st = "result"
        PROVE  nicTab.at <= nicJobs[j].at /\ nicJobs[j].at <= nics.changes + 1
    <3>1. nicJobs[j].at \in Nat
      BY WorkerTyped DEF NicWorkers
    <3>2. nicTab.at <= nicJobs[j].at /\ nicJobs[j].at <= nics.changes
      BY <2>2 DEF NicInv, ListsInOrder
    <3> QED
      BY <1>2, <3>1, <3>2
  <2> QED
    BY <1>8, <1>9, <2>1, <2>2 DEF ListsInOrder, NicJob
<1>13. AddressIsOn'
  <2>1. nics'.plugs # 0
    BY <1>2, <1>8
  <2> QED
    BY <2>1 DEF AddressIsOn
<1> QED
  BY <1>10, <1>11, <1>12, <1>13 DEF NicInv

LEMMA NicStep == NicInv /\ [NicNext]_nicVars => NicInv'
<1> SUFFICES ASSUME NicInv, [NicNext]_nicVars PROVE NicInv'
  OBVIOUS
<1>1. CASE RefreshAdapters \/ Confirm \/ Decline \/ Plug
  BY <1>1, RefreshAdaptersStep, ConfirmStep, PageSteps, PlugStep
<1>2. CASE \E a \in Adapters : ChooseAdapter(a)
  BY <1>2, PageSteps
<1>3. CASE \E f \in Settings : Apply(f)
  BY <1>3, PageSteps
<1>4. CASE \E j \in NicJob : \/ ListAdapters(j) \/ ShowAdapters(j) \/ ChangeSucceeded(j)
                             \/ ShowError(j) \/ JobFinished(j) \/ ChangeStep(j)
  BY <1>4, ListAdaptersStep, ShowAdaptersStep, ChangeSucceededStep, ShowErrorStep, JobFinishedStep, ChangeStepStep
<1>5. CASE UNCHANGED nicVars
  <2>1. nicTab' \in NicTabs /\ nicBox' \in NicBoxes
    BY <1>5 DEF nicVars, NicInv, NicTyped
  <2> QED
    BY <1>5, <2>1, PageMoves DEF nicVars
<1> QED
  BY <1>1, <1>2, <1>3, <1>4, <1>5 DEF NicNext

\* What a step starts, and what it shows.
StartedIsConfirmed ==
    \A j \in DOMAIN nicJobs' \ DOMAIN nicJobs :
       nicJobs'[j].kind = "change" => nicBox.open /\ nicJobs'[j].nic = nicBox.nic
                                                  /\ nicJobs'[j].target = nicBox.target
ListGoesOn == nicTab'.at >= nicTab.at

LEMMA StartedStep == NicInv /\ [NicNext]_nicVars => StartedIsConfirmed
<1> SUFFICES ASSUME NicInv, [NicNext]_nicVars PROVE StartedIsConfirmed
  OBVIOUS
<1>1. CASE Confirm
  BY <1>1, ConfirmStep DEF StartedIsConfirmed
<1>2. CASE \E j \in NicJob : ChangeSucceeded(j)
  BY <1>2, ChangeSucceededStep DEF StartedIsConfirmed
<1>3. CASE RefreshAdapters
  <2>1. nicJobs \in Seq(NicWorkers) /\ ListJob \in NicWorkers /\ ListJob.kind = "list"
    BY ListJobTyped DEF NicInv, NicTyped
  <2>2. \A j \in DOMAIN nicJobs' \ DOMAIN nicJobs : nicJobs'[j] = ListJob
    BY <1>3, <2>1, AppendTold DEF RefreshAdapters
  <2> QED
    BY <2>1, <2>2 DEF StartedIsConfirmed
<1>4. CASE DOMAIN nicJobs' = DOMAIN nicJobs
  BY <1>4 DEF StartedIsConfirmed
<1>5. ASSUME NEW j \in NicJob,
             \/ ListAdapters(j) \/ ShowAdapters(j) \/ ShowError(j) \/ JobFinished(j) \/ ChangeStep(j)
      PROVE  DOMAIN nicJobs' = DOMAIN nicJobs
  <2>1. \E job : nicJobs' = [nicJobs EXCEPT ![j] = job]
    BY <1>5 DEF ListAdapters, ShowAdapters, ShowError, JobFinished, ChangeStep, Goto, Step, Command,
       NetshAddress, NetshDns, NetshMoreDns, ScriptStatic, NetshDhcp, NetshDhcpDns, CleanUpAndRenew,
       ScriptDhcp, CannotStart
  <2> QED
    BY <2>1
<1>6. CASE \/ Decline \/ Plug \/ UNCHANGED nicVars
           \/ \E a \in Adapters : ChooseAdapter(a)
           \/ \E f \in Settings : Apply(f)
  BY <1>6 DEF Decline, Plug, nicVars, ChooseAdapter, Apply, AskToApply, StartedIsConfirmed
<1> QED
  BY <1>1, <1>2, <1>3, <1>4, <1>5, <1>6 DEF NicNext

LEMMA ListGoesOnStep == NicInv /\ [NicNext]_nicVars => ListGoesOn
<1> SUFFICES ASSUME NicInv, [NicNext]_nicVars PROVE ListGoesOn
  OBVIOUS
<1>0. nicTab \in NicTabs /\ nicTab.at \in Nat
  BY DEF NicInv, NicTyped, NicTabs
<1>1. CASE \E j \in NicJob : ShowAdapters(j)
  BY <1>1, ShowAdaptersStep DEF ListGoesOn
<1>2. CASE nicTab'.at = nicTab.at
  BY <1>0, <1>2 DEF ListGoesOn
<1>3. ASSUME \/ RefreshAdapters \/ Confirm \/ Decline \/ Plug \/ UNCHANGED nicVars
             \/ \E a \in Adapters : ChooseAdapter(a)
             \/ \E f \in Settings : Apply(f)
             \/ \E j \in NicJob : ListAdapters(j) \/ ShowError(j) \/ JobFinished(j) \/ ChangeStep(j)
      PROVE  nicTab'.at = nicTab.at
  BY <1>0, <1>3 DEF RefreshAdapters, Confirm, StartChange, Decline, Plug, nicVars, ChooseAdapter, Apply, AskToApply,
     ListAdapters, ShowError, JobFinished, ChangeStep, NicTabs
<1> QED
  BY <1>1, <1>2, <1>3, ChangeSucceededStep DEF NicNext

\* The two invariants of the page as it is checked.
LEMMA OneAndApplied == NicInv => OneChangeAtATime /\ ReportedIsApplied
<1> SUFFICES ASSUME NicInv PROVE OneChangeAtATime /\ ReportedIsApplied
  OBVIOUS
<1>1. Changing = {j \in NicJob : Lives(j, "change")}
  BY DEF Changing, Alive, Lives
<1>2. \A i, j \in Changing : i = j
  BY <1>1 DEF NicInv, OneOfAKind
<1>3. nicTab.changing <=> Changing # {}
  BY <1>1 DEF NicInv, FlagsFit
<1>4. Cardinality(Changing) <= 1
  <2>1. CASE Changing = {}
    BY <2>1, FS_EmptySet
  <2>2. CASE Changing # {}
    <3>1. PICK j \in Changing : TRUE
      BY <2>2
    <3>2. Changing = {j}
      BY <1>2, <3>1
    <3>3. Cardinality({j}) = 1
      BY FS_Singleton
    <3> QED
      BY <3>2, <3>3
  <2> QED
    BY <2>1, <2>2
<1>5. OneChangeAtATime
  BY <1>3, <1>4 DEF OneChangeAtATime
<1>6. ReportedIsApplied
  BY DEF ReportedIsApplied, NicInv, AddressIsOn, OnAdapter, At
<1> QED
  BY <1>5, <1>6

(* For any adapters, settings, jobs and pluggings: one change at a time, the *)
(* one that was confirmed; what is reported as applied is on the adapter;    *)
(* and the list of adapters never goes back.                                 *)
THEOREM NetworkAlwaysRight == NicInit /\ [][NicNext]_nicVars => NetworkChangeIsRight
<1>1. NicInit => NicInv
  BY NicStart
<1>2. NicInv /\ [NicNext]_nicVars => NicInv'
  BY NicStep
<1>3. NicInv => OneChangeAtATime /\ ReportedIsApplied
  BY OneAndApplied
<1>4. NicInv /\ [NicNext]_nicVars => [StartedIsConfirmed]_nicVars
  BY StartedStep
<1>5. NicInv /\ [NicNext]_nicVars => [ListGoesOn]_nicVars
  BY ListGoesOnStep
<1> QED
  BY <1>1, <1>2, <1>3, <1>4, <1>5, PTL
     DEF NetworkChangeIsRight, ConfirmedIsStarted, ListNeverGoesBack, StartedIsConfirmed, ListGoesOn

----------------------------------------------------------------------------
(* MCSettings: the parts together.                                         *)

LEMMA StepsAreOfOnePart ==
    [MCNext]_settingsVars => /\ [StoreNext]_storeVars
                             /\ [NicNext]_nicVars
                             /\ [WifiNext]_wifiVars
                             /\ [WindowNext]_window
                             /\ [DataNext]_dataVars
<1> SUFFICES ASSUME [MCNext]_settingsVars
             PROVE  /\ [StoreNext]_storeVars /\ [NicNext]_nicVars /\ [WifiNext]_wifiVars
                    /\ [WindowNext]_window /\ [DataNext]_dataVars
  OBVIOUS
<1>1. CASE UNCHANGED settingsVars
  BY <1>1 DEF settingsVars
<1>2. CASE MCNext
  BY <1>2 DEF MCNext, OthersThanStore, OthersThanNetwork, OthersThanWireless, OthersThanScan, OthersThanData
<1> QED
  BY <1>1, <1>2

(* The pages of the adapters and of the Wi-Fi, and the window scan, are      *)
(* right together with whatever else the program does.                       *)
THEOREM PagesAlwaysRight == MCSpec => PagesAreRight
<1>1. MCInit => NicInit /\ WifiInit /\ WindowInit
  BY DEF MCInit
<1>2. [MCNext]_settingsVars => [NicNext]_nicVars /\ [WifiNext]_wifiVars /\ [WindowNext]_window
  BY StepsAreOfOnePart
<1> QED
  BY <1>1, <1>2, NetworkAlwaysRight, WirelessAlwaysRight, ScanAlwaysRight, PTL DEF MCSpec, PagesAreRight

(* So the settings and the folder of data keep what they hold as well.       *)
THEOREM SettingsAlwaysRight ==
    MCSpec => []NothingSavedIsLost /\ []ResetIsComplete /\ PagesAreRight /\ DataIsKept
<1>1. MCInit => StoreInit /\ DataInit
  BY DEF MCInit
<1>2. [MCNext]_settingsVars => [StoreNext]_storeVars /\ [DataNext]_dataVars
  BY StepsAreOfOnePart
<1> QED
  BY <1>1, <1>2, SavedIsNeverLost, ResetAlwaysComplete, PagesAlwaysRight, DataAlwaysKept, PTL DEF MCSpec, StoreSpec
=============================================================================
