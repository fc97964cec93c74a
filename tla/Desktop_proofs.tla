--------------------------- MODULE Desktop_proofs ---------------------------
(***************************************************************************)
(* What the window's parts promise for every table, folder, release and    *)
(* order of clicks: the updater's swap, the profile files of the           *)
(* configuration builder, the update dialogue, the pages and the device    *)
(* table.  Each part has an inductive invariant of its own; the last       *)
(* theorems put them together for the window as a whole.                   *)
(***************************************************************************)
EXTENDS MCDesktop, FiniteSetTheorems, SequenceTheorems, TLAPS

----------------------------------------------------------------------------
(* The updater's swap.  The inductive invariant says, for each loop of the *)
(* updater, what the items it has passed and those still before it look    *)
(* like in the two folders.  After the last loop only the two facts to be  *)
(* shown remain.                                                           *)


\* Nothing is touched before the checks are over.
Untouched ==
    pc \in {"wait", "validate"} =>
        /\ moved = {} /\ copied = {} /\ ~errors
        /\ \A i \in Shipped : live[i] = IF i \in Existing THEN "old" ELSE "absent"

\* The first loop: items it has passed are in the backup folder.
MovingOut ==
    pc = "move" =>
        /\ copied = {} /\ ~errors
        /\ moved = {i \in Existing : i < next}
        /\ \A i \in moved : live[i] = "absent" /\ kept[i] = "old"
        /\ \A i \in Shipped \ moved : live[i] = IF i \in Existing THEN "old" ELSE "absent"

\* The second loop: items it has passed are new, and the backup is complete.
Copying ==
    pc = "copy" =>
        /\ moved = Existing /\ ~errors
        /\ copied = 1..(next - 1)
        /\ \A i \in copied : live[i] = "new"
        /\ \A i \in Existing : kept[i] = "old"

\* The loops of the roll back: what was moved is in the backup folder until it
\* is put back; what was not moved is where it was.
RollingBack ==
    pc \in {"uncopy", "unmove"} =>
        /\ copied # Shipped
        /\ copied # {} => moved = Existing
        /\ \A i \in Existing \ moved : live[i] = "old"
        /\ \A i \in moved : kept[i] = "old" \/ (pc = "unmove" /\ live[i] = "old")
        /\ pc = "unmove" =>
              \A i \in moved : /\ i < next => (live[i] = "old" \/ errors)
                               /\ i >= next => kept[i] = "old"

\* After the loops the outcome is decided.
Settled ==
    pc = "cleanup" =>
        \/ copied = Shipped /\ WholeNew /\ ~errors
        \/ copied # Shipped /\ ~errors /\ WholeOld
        \/ errors

\* The outcome is known from then on, and only then.
Reported ==
    /\ report # "none" => pc \in {"write", "relaunch", "done", "crashed"}
    /\ file \in {"none", report} /\ shown \in {"none", report}

SwapInv ==
    /\ TypeOK
    /\ Untouched /\ MovingOut /\ Copying /\ RollingBack /\ Settled
    /\ Reported
    /\ OldVersionIsNeverLost
    /\ ReportIsTrue

LEMMA AdvanceSteps ==
    ASSUME NEW place, next \in 1..Items, Advance(place)
    PROVE  /\ next' \in 1..Items
           /\ \/ pc' = pc /\ next' = next + 1 /\ next < Items
              \/ pc' = place /\ next' = 1 /\ next = Items
BY SwapAssumption DEF Advance

\* The items before a place of the loop, and before its end.
LEMMA ItemsBefore ==
    /\ \A n \in Nat : {i \in Existing : i < n + 1} = {i \in Existing : i < n} \cup (Existing \cap {n})
    /\ {i \in Existing : i < 1} = {}
    /\ {i \in Existing : i < Items + 1} = Existing
    /\ Items \in Nat \ {0}
<1>1. \A i \in Existing : i \in Nat /\ 1 <= i /\ i <= Items
  BY SwapAssumption
<1>2. Items \in Nat \ {0}
  BY <1>1, SwapAssumption
<1>3. ASSUME NEW n \in Nat, NEW i \in Existing
      PROVE  i < n + 1 <=> (i < n \/ i = n)
  BY <1>1
<1>4. \A i \in Existing : ~(i < 1) /\ i < Items + 1
  BY <1>1, <1>2
<1> QED BY <1>2, <1>3, <1>4

LEMMA SwapInvInit == Init => SwapInv
<1> SUFFICES ASSUME Init PROVE SwapInv
  OBVIOUS
<1> USE DEF Shipped
<1>1. TypeOK
  <2>1. 1 \in 1..Items
    BY ItemsBefore
  <2>2. live \in [Shipped -> Contents] /\ kept \in [Shipped -> {"absent", "old"}]
    BY DEF Init, Contents
  <2> QED BY <2>1, <2>2 DEF Init, TypeOK, Reports, Places
<1>2. Untouched /\ MovingOut /\ Copying /\ RollingBack /\ Settled /\ Reported
  BY DEF Init, Untouched, MovingOut, Copying, RollingBack, Settled, Reported
<1>3. OldVersionIsNeverLost /\ ReportIsTrue
  BY SwapAssumption DEF Init, OldVersionIsNeverLost, ReportIsTrue
<1> QED BY <1>1, <1>2, <1>3 DEF SwapInv

LEMMA SwapInvNext == SwapInv /\ [Next]_vars => SwapInv'
<1> SUFFICES ASSUME SwapInv, [Next]_vars PROVE SwapInv'
  OBVIOUS
<1>t. TypeOK /\ Existing \subseteq Shipped /\ Items \in Nat \ {0}
  BY SwapAssumption, ItemsBefore DEF SwapInv, Shipped
<1> USE DEF Shipped
\* a round of the first loop, whatever it did with its item
<1>l. ASSUME /\ pc = "move" /\ report = "none" /\ copied = {} /\ ~errors /\ next \in 1..Items
             /\ UNCHANGED <<copied, errors, report, file, shown, app>>
             /\ Advance("copy")
             /\ moved' = {i \in Existing : i < next + 1}
             /\ \A i \in moved' : live'[i] = "absent" /\ kept'[i] = "old"
             /\ \A i \in Shipped \ moved' : live'[i] = IF i \in Existing THEN "old" ELSE "absent"
             /\ live' \in [Shipped -> Contents] /\ kept' \in [Shipped -> {"absent", "old"}]
      PROVE  SwapInv'
  <2>1. /\ next' \in 1..Items
        /\ \/ pc' = "move" /\ next' = next + 1
           \/ pc' = "copy" /\ next' = 1 /\ next = Items
    BY <1>l, AdvanceSteps
  <2>2. \A i \in Existing : live'[i] = "old" \/ kept'[i] = "old"
    BY <1>l, <1>t
  <2>3. pc' = "copy" => moved' = Existing
    BY <1>l, <2>1, ItemsBefore
  <2>4. TypeOK'
    BY <1>l, <1>t, <2>1 DEF TypeOK, Places
  <2>5. MovingOut'
    BY <1>l, <2>1 DEF MovingOut
  <2>6. Copying'
    <3>1. CASE pc' = "copy"
      <4>1. next' = 1 /\ copied' = 1..(next' - 1)
        BY <1>l, <2>1, <3>1
      <4> QED BY <1>l, <2>3, <3>1, <4>1 DEF Copying
    <3> QED BY <3>1 DEF Copying
  <2> QED BY <1>l, <2>1, <2>2, <2>4, <2>5, <2>6 DEF SwapInv, TypeOK, Untouched, MovingOut, Copying, RollingBack, Settled, Reported,
          OldVersionIsNeverLost, ReportIsTrue
<1>1. CASE OldExits
  BY <1>1 DEF SwapInv, OldExits, folders, lists, TypeOK, Untouched, MovingOut, Copying,
     RollingBack, Settled, Reported, OldVersionIsNeverLost, ReportIsTrue, WholeOld, WholeNew
<1>2. CASE WaitForExit
  BY <1>2 DEF SwapInv, WaitForExit, folders, lists, TypeOK, Untouched, MovingOut, Copying, Places,
     RollingBack, Settled, Reported, OldVersionIsNeverLost, ReportIsTrue, WholeOld, WholeNew
<1>3. CASE Validate
  <2>1. WholeOld /\ report = "none" /\ moved = {i \in Existing : i < 1}
    <3>1. \A i \in Existing : i \in Nat /\ ~(i < 1)
      BY <1>t
    <3> QED BY <1>3, <1>t, <3>1 DEF Validate, SwapInv, Untouched, Reported, WholeOld
  <2> QED BY <1>3, <1>t, <2>1 DEF SwapInv, Validate, Refuse, folders, lists, TypeOK, Untouched,
          MovingOut, Copying, Places, Reports, RollingBack, Settled, Reported,
          OldVersionIsNeverLost, ReportIsTrue, WholeOld, WholeNew
<1>4. CASE MoveAside
  <2>1. /\ pc = "move" /\ report = "none" /\ copied = {} /\ ~errors /\ next \in 1..Items
        /\ moved = {i \in Existing : i < next}
        /\ \A i \in moved : live[i] = "absent" /\ kept[i] = "old"
        /\ \A i \in Shipped \ moved : live[i] = IF i \in Existing THEN "old" ELSE "absent"
        /\ UNCHANGED <<copied, errors, report, file, shown, app>>
    BY <1>4 DEF MoveAside, SwapInv, MovingOut, Reported, TypeOK
  <2>2. next \notin moved /\ next \in Shipped
    BY <2>1
  <2>3. CASE live[next] = "absent" /\ Advance("copy") /\ UNCHANGED <<folders, moved>>
    <3>1. next \notin Existing
      BY <2>1, <2>2, <2>3
    <3>2. moved' = {i \in Existing : i < next + 1}
      BY <2>1, <2>3, <3>1, ItemsBefore
    <3>3. /\ \A i \in moved' : live'[i] = "absent" /\ kept'[i] = "old"
          /\ \A i \in Shipped \ moved' : live'[i] = IF i \in Existing THEN "old" ELSE "absent"
      BY <2>1, <2>3 DEF folders
    <3>4. live' \in [Shipped -> Contents] /\ kept' \in [Shipped -> {"absent", "old"}]
      BY <1>t, <2>3 DEF folders, TypeOK
    <3> QED BY <1>l, <2>1, <2>3, <3>2, <3>3, <3>4
  <2>4. CASE /\ live[next] # "absent"
             /\ live' = [live EXCEPT ![next] = "absent"]
             /\ kept' = [kept EXCEPT ![next] = live[next]]
             /\ moved' = moved \cup {next}
             /\ Advance("copy")
    <3>1. next \in Existing /\ live[next] = "old"
      BY <2>1, <2>2, <2>4
    <3>2. moved' = {i \in Existing : i < next + 1}
      BY <2>1, <2>4, <3>1, ItemsBefore
    <3>3. /\ \A i \in moved' : live'[i] = "absent" /\ kept'[i] = "old"
          /\ \A i \in Shipped \ moved' : live'[i] = IF i \in Existing THEN "old" ELSE "absent"
          /\ live' \in [Shipped -> Contents] /\ kept' \in [Shipped -> {"absent", "old"}]
      BY <1>t, <2>1, <2>4, <3>1 DEF TypeOK, Contents
    <3> QED BY <1>l, <2>1, <2>4, <3>2, <3>3
  <2>5. CASE live[next] # "absent" /\ Rollback /\ UNCHANGED <<folders, moved>>
    BY <1>t, <2>1, <2>5 DEF Rollback, folders, SwapInv, TypeOK, Untouched, MovingOut, Copying, RollingBack, Settled, Reported,
          OldVersionIsNeverLost, ReportIsTrue, Places
  <2> QED BY <1>4, <2>3, <2>4, <2>5 DEF MoveAside
<1>5. CASE CopyNew
  <2>1. /\ pc = "copy" /\ report = "none" /\ ~errors /\ next \in 1..Items
        /\ moved = Existing /\ copied = 1..(next - 1)
        /\ \A i \in copied : live[i] = "new"
        /\ \A i \in Existing : kept[i] = "old"
        /\ UNCHANGED <<app, kept, moved, errors, report, file, shown>>
    BY <1>5 DEF CopyNew, SwapInv, Copying, Reported, TypeOK
  <2>2. OldVersionIsNeverLost' /\ ReportIsTrue'
    BY <2>1 DEF OldVersionIsNeverLost, ReportIsTrue
  <2>3. CASE /\ live' = [live EXCEPT ![next] = "new"]
             /\ copied' = copied \cup {next}
             /\ Advance("cleanup")
    <3>1. /\ next' \in 1..Items
          /\ \/ pc' = "copy" /\ next' = next + 1
             \/ pc' = "cleanup" /\ next' = 1 /\ next = Items
      BY <2>1, <2>3, AdvanceSteps
    <3>2. copied' = 1..next
      BY <2>1, <2>3
    <3>3. \A i \in copied' : live'[i] = "new"
      BY <1>t, <2>1, <2>3 DEF TypeOK
    <3>4. TypeOK'
      BY <1>t, <2>1, <2>3, <3>1, <3>2 DEF TypeOK, Places, Contents
    <3>5. Copying' /\ Settled'
      BY <1>t, <2>1, <3>1, <3>2, <3>3 DEF Copying, Settled, WholeNew
    <3> QED BY <2>1, <2>2, <3>1, <3>4, <3>5
            DEF SwapInv, Untouched, MovingOut, RollingBack, Reported
  <2>4. CASE /\ \E left \in {"absent", "partial"} : live' = [live EXCEPT ![next] = left]
             /\ Rollback
             /\ UNCHANGED copied
    <3>1. TypeOK'
      BY <1>t, <2>1, <2>4 DEF TypeOK, Rollback, Places, Contents
    <3>2. copied' # Shipped
      BY <1>t, <2>1, <2>4
    <3> QED BY <2>1, <2>2, <2>4, <3>1, <3>2
            DEF SwapInv, Rollback, Untouched, MovingOut, Copying, RollingBack, Settled, Reported
  <2> QED BY <1>5, <2>3, <2>4 DEF CopyNew
<1>6. CASE RemoveCopied
  <2>1. /\ pc = "uncopy" /\ report = "none" /\ next \in 1..Items
        /\ UNCHANGED <<app, kept, lists, report, file, shown>>
        /\ Advance("unmove")
    BY <1>6 DEF RemoveCopied, SwapInv, Reported, TypeOK
  <2>2. /\ next' \in 1..Items
        /\ pc' = "uncopy" \/ (pc' = "unmove" /\ next' = 1)
    BY <2>1, AdvanceSteps
  <2>3. /\ copied # Shipped /\ (copied # {} => moved = Existing)
        /\ \A i \in Existing \ moved : live[i] = "old"
        /\ \A i \in moved : kept[i] = "old" 
    BY <2>1 DEF SwapInv, RollingBack
  <2>4. /\ live' \in [Shipped -> Contents] /\ errors' \in BOOLEAN
        /\ \A i \in Existing \ moved : live'[i] = live[i]
    BY <1>6, <1>t, <2>1, <2>3 DEF RemoveCopied, TypeOK, Contents
  <2>5. TypeOK'
    BY <1>t, <2>1, <2>2, <2>4 DEF TypeOK, lists, Places
  <2>6. RollingBack'
    BY <1>t, <2>1, <2>2, <2>3, <2>4 DEF RollingBack, lists, TypeOK
  <2> QED BY <2>1, <2>2, <2>3, <2>4, <2>5, <2>6
          DEF SwapInv, lists, Untouched, MovingOut, Copying, Settled, Reported,
              OldVersionIsNeverLost, ReportIsTrue
<1>7. CASE PutBack
  <2>1. /\ pc = "unmove" /\ report = "none" /\ next \in 1..Items
        /\ UNCHANGED <<app, lists, report, file, shown>>
        /\ Advance("cleanup")
    BY <1>7 DEF PutBack, SwapInv, Reported, TypeOK
  <2>2. /\ next' \in 1..Items
        /\ \/ pc' = "unmove" /\ next' = next + 1
           \/ pc' = "cleanup" /\ next = Items
    BY <2>1, AdvanceSteps
  <2>3. /\ copied # Shipped /\ (copied # {} => moved = Existing)
        /\ \A i \in Existing \ moved : live[i] = "old"
        /\ \A i \in moved : kept[i] = "old" \/ live[i] = "old"
        /\ \A i \in moved : /\ i < next => (live[i] = "old" \/ errors)
                            /\ i >= next => kept[i] = "old"
    BY <2>1 DEF SwapInv, RollingBack
  <2>4. /\ live' \in [Shipped -> Contents] /\ kept' \in [Shipped -> {"absent", "old"}]
        /\ errors' \in BOOLEAN /\ (errors => errors')
        /\ \A i \in Shipped \ {next} : live'[i] = live[i] /\ kept'[i] = kept[i]
        /\ next \notin moved => live'[next] = live[next]
        /\ next \in moved => \/ live'[next] = "old"
                             \/ kept'[next] = "old" /\ errors'
    <3>1. CASE next \notin moved /\ UNCHANGED <<folders, errors>>
      BY <1>t, <3>1 DEF folders, TypeOK
    <3>2. CASE /\ next \in moved
               /\ live' = [live EXCEPT ![next] = kept[next]]
               /\ kept' = [kept EXCEPT ![next] = "absent"]
               /\ UNCHANGED errors
      <4>1. kept[next] = "old"
        BY <2>1, <2>3, <3>2
      <4> QED BY <1>t, <2>1, <3>2, <4>1 DEF TypeOK, Contents
    <3>3. CASE /\ next \in moved
               /\ \E left \in Clearing : live' = [live EXCEPT ![next] = left]
               /\ errors' = TRUE
               /\ UNCHANGED kept
      <4>1. kept[next] = "old"
        BY <2>1, <2>3, <3>3
      <4>2. Clearing \subseteq Contents
        BY <1>t, <2>1 DEF Clearing, TypeOK, Contents
      <4> QED BY <1>t, <2>1, <3>3, <4>1, <4>2 DEF TypeOK
    <3> QED BY <1>7, <3>1, <3>2, <3>3 DEF PutBack
  <2>5. TypeOK'
    BY <1>t, <2>1, <2>2, <2>4 DEF TypeOK, lists, Places
  <2>6. /\ \A i \in Existing \ moved : live'[i] = "old"
        /\ \A i \in moved : kept'[i] = "old" \/ live'[i] = "old"
        /\ \A i \in moved : /\ i < next + 1 => (live'[i] = "old" \/ errors')
                            /\ i >= next + 1 => kept'[i] = "old"
    BY <1>t, <2>1, <2>3, <2>4 DEF TypeOK
  <2>7. RollingBack'
    BY <2>1, <2>2, <2>3, <2>6 DEF RollingBack, lists
  <2>8. Settled'
    <3>1. pc' = "cleanup" => \A i \in moved : live'[i] = "old" \/ errors'
      BY <1>t, <2>2, <2>6 DEF TypeOK
    <3> QED BY <2>1, <2>3, <2>6, <3>1 DEF Settled, WholeOld, lists
  <2> QED BY <2>1, <2>2, <2>5, <2>6, <2>7, <2>8
          DEF SwapInv, lists, Untouched, MovingOut, Copying, Reported,
              OldVersionIsNeverLost, ReportIsTrue
<1>8. CASE Cleanup
  <2>1. report = "none" /\ file = "none" /\ shown = "none"
    BY <1>8 DEF Cleanup, SwapInv, Reported
  <2> QED BY <1>8, <1>t, <2>1 DEF SwapInv, Cleanup, lists, TypeOK, Untouched,
          MovingOut, Copying, Places, Reports, RollingBack, Settled, Reported,
          OldVersionIsNeverLost, ReportIsTrue, WholeOld, WholeNew
<1>9. CASE WriteResult \/ Relaunch \/ Crash \/ StartProgram
  <2>1. /\ UNCHANGED <<app, next, folders, lists, errors, report>>
        /\ pc' \in {"write", "relaunch", "done", "crashed"}
        /\ file' \in {file, report, "none"} /\ shown' \in {shown, file}
    BY <1>9 DEF WriteResult, Relaunch, Crash, StartProgram
  <2>2. TypeOK'
    BY <1>t, <2>1 DEF TypeOK, folders, lists, Places, Reports
  <2>3. OldVersionIsNeverLost' /\ ReportIsTrue'
    BY <2>1 DEF SwapInv, OldVersionIsNeverLost, ReportIsTrue, WholeOld, WholeNew, folders
  <2> QED BY <2>1, <2>2, <2>3 DEF SwapInv, Untouched, MovingOut, Copying, RollingBack, Settled, Reported
<1>10. CASE UNCHANGED vars
  BY <1>10 DEF vars, folders, lists, SwapInv, TypeOK, Untouched, MovingOut, Copying, RollingBack,
     Settled, Reported, OldVersionIsNeverLost, ReportIsTrue, WholeOld, WholeNew
<1> QED BY <1>1, <1>2, <1>3, <1>4, <1>5, <1>6, <1>7, <1>8, <1>9, <1>10
        DEF Next, Updater, Finished

LEMMA SwapInvHolds == Spec => []SwapInv
BY SwapInvInit, SwapInvNext, PTL DEF Spec

\* The updater gets to its last steps only with an outcome.
DoneIsReported == pc \in {"write", "relaunch", "done"} => report # "none"

LEMMA DoneIsReportedHolds == Spec => []DoneIsReported
<1>1. Init => DoneIsReported
  BY DEF Init, DoneIsReported
<1>2. DoneIsReported /\ SwapInv /\ [Next]_vars => DoneIsReported'
  <2> SUFFICES ASSUME DoneIsReported, SwapInv, [Next]_vars PROVE DoneIsReported'
    OBVIOUS
  <2>1. CASE OldExits \/ WaitForExit \/ Validate \/ Cleanup
    BY <2>1 DEF OldExits, WaitForExit, Validate, Refuse, Cleanup, DoneIsReported
  <2>2. CASE MoveAside \/ CopyNew \/ RemoveCopied \/ PutBack
    BY <2>2 DEF MoveAside, CopyNew, RemoveCopied, PutBack, Advance, Rollback, DoneIsReported
  <2>3. CASE WriteResult \/ Relaunch \/ Crash \/ StartProgram \/ UNCHANGED vars
    BY <2>3 DEF WriteResult, Relaunch, Crash, StartProgram, vars, DoneIsReported
  <2> QED BY <2>1, <2>2, <2>3 DEF Next, Updater, Finished
<1> QED BY <1>1, <1>2, SwapInvHolds, PTL DEF Spec

----------------------------------------------------------------------------
(* The theorems.                                                           *)

\* Every variable of the updater keeps its type.
THEOREM TypeCorrect == Spec => []TypeOK
BY SwapInvHolds, PTL DEF SwapInv

\* Whatever fails, and wherever the updater is killed, the new program is whole
\* or each item of the old one still exists.
THEOREM NothingIsLost == Spec => []OldVersionIsNeverLost
BY SwapInvHolds, PTL DEF SwapInv

\* A success is the whole new program, a refused or reverted update the old one.
THEOREM ReportsAreTrue == Spec => []ReportIsTrue
BY SwapInvHolds, PTL DEF SwapInv

\* What the next start shows as a success is one.
THEOREM ShownSuccesses == Spec => []ShownSuccessIsWhole
<1>1. SwapInv => ShownSuccessIsWhole
  BY DEF SwapInv, Reported, ReportIsTrue, ShownSuccessIsWhole
<1> QED BY <1>1, SwapInvHolds, PTL

\* An update that comes to its end without being stuck leaves an executable.
THEOREM ExecutableStays == Spec => []ExecutableIsThere
<1>1. SwapInv /\ DoneIsReported => ExecutableIsThere
  BY SwapAssumption DEF SwapInv, ReportIsTrue, ExecutableIsThere, DoneIsReported, TypeOK, Reports,
     WholeOld, WholeNew, Shipped
<1> QED BY <1>1, SwapInvHolds, DoneIsReportedHolds, PTL

----------------------------------------------------------------------------
(* The profile files.  While a save runs nobody else writes, so what the    *)
(* last look at the folder found still holds when the file is replaced: no  *)
(* other file has the id, and the old text is the backup.                   *)

Texts == {NoProfileText, Unparsable} \cup [id : ProfileIds, version : Nat \ {0}]
SaveStages == {"idle", "dialog", "asked", "backup", "replace", "verify", "refused", "stuck", "dead"}
Savings ==
    [st : SaveStages, id : ProfileIds \cup {"none"}, name : FileNames \cup {"none"}, new : BOOLEAN,
     existed : BOOLEAN, allow : BOOLEAN, text : Texts, before : Texts]

ProfileTypeOK ==
    /\ folder \in [file : [FileNames -> Texts], bak : [FileNames -> Texts]]
    /\ saving \in Savings
    /\ profileOps \in Nat

Writing == saving.st \in {"backup", "replace", "verify"}

\* no other file that is read has the id of the text
NoOtherHas(text, files) == \A n \in files \ {saving.name} : folder.file[n].id # text.id

SavingInv ==
    /\ saving.st # "idle" => saving.name \in FileNames
    /\ saving.st \in {"dialog", "asked"} \/ Writing => saving.text.id = saving.id
    /\ saving.st \in {"idle", "dialog", "asked"} => saving.before = NoProfileText
    /\ saving.st \in {"backup", "replace"} => folder.file[saving.name] = saving.before
    /\ Writing => (saving.existed <=> saving.before # NoProfileText)
    /\ saving.st = "backup" => saving.existed
    /\ saving.st \in {"replace", "verify"} /\ saving.existed => folder.bak[saving.name] = saving.before
    /\ saving.st = "verify" => folder.file[saving.name] = saving.text
    /\ Writing => NoOtherHas(saving.text, LoadedProfiles)
    /\ Writing /\ saving.name \notin foreign /\ saving.before \notin {NoProfileText, Unparsable} =>
         NoOtherHas(saving.before, LoadedProfiles \ foreign)

ProfileInv == ProfileTypeOK /\ SavingInv /\ SaveIsAllOrNothing /\ OneFileForEachId

\* a text that was saved is neither of the two special ones
LEMMA TextsAreTold ==
    /\ NoProfileText \in Texts /\ Unparsable \in Texts
    /\ \A id \in ProfileIds, v \in Nat \ {0} :
         [id |-> id, version |-> v] \in Texts \ {NoProfileText, Unparsable}
BY DEF Texts, NoProfileText, Unparsable

LEMMA IdleIsTyped ==
    /\ Idle \in Savings /\ Idle.st = "idle" /\ Idle.before = NoProfileText
BY TextsAreTold DEF Idle, Savings, SaveStages

LEMMA ProfileStart == ProfileInit => ProfileInv
<1> SUFFICES ASSUME ProfileInit PROVE ProfileInv OBVIOUS
<1>1. /\ saving = Idle /\ profileOps = 0
      /\ folder = [file |-> [n \in FileNames |-> NoProfileText], bak |-> [n \in FileNames |-> NoProfileText]]
  BY DEF ProfileInit
<1>2. ProfileTypeOK BY <1>1, TextsAreTold, IdleIsTyped DEF ProfileTypeOK
<1>3. SavingInv BY <1>1, IdleIsTyped DEF SavingInv, Writing
<1>4. SaveIsAllOrNothing BY <1>1, IdleIsTyped DEF SaveIsAllOrNothing
<1>5. OneFileForEachId BY <1>1 DEF OneFileForEachId, LoadedProfiles, Has
<1> QED BY <1>2, <1>3, <1>4, <1>5 DEF ProfileInv

\* A save that is over leaves only what the folder holds.
LEMMA SaveIsOver ==
    ASSUME ProfileInv, saving' = Idle, UNCHANGED folder, profileOps' \in Nat,
           OneFileForEachId'
    PROVE  ProfileInv'
<1>1. ProfileTypeOK' BY IdleIsTyped DEF ProfileInv, ProfileTypeOK
<1>2. SavingInv' BY IdleIsTyped DEF SavingInv, Writing
<1>3. SaveIsAllOrNothing' BY IdleIsTyped DEF SaveIsAllOrNothing
<1> QED BY <1>1, <1>2, <1>3 DEF ProfileInv

LEMMA FolderIsKept ==
    ASSUME ProfileInv, UNCHANGED <<folder, foreign>>
    PROVE  OneFileForEachId' /\ profileOps \in Nat
BY DEF ProfileInv, ProfileTypeOK, OneFileForEachId, LoadedProfiles, Has

LEMMA OpenProfileDialogKeeps == ProfileInv /\ OpenProfileDialog => ProfileInv'
<1> SUFFICES ASSUME ProfileInv, OpenProfileDialog PROVE ProfileInv' OBVIOUS
<1>1. UNCHANGED <<folder, foreign>> /\ profileOps' \in Nat \ {0}
  <2>1. profileOps \in Nat BY DEF ProfileInv, ProfileTypeOK
  <2>2. Act /\ UNCHANGED <<folder, foreign>> BY DEF OpenProfileDialog
  <2> QED BY <2>1, <2>2 DEF Act
<1>2. PICK id \in ProfileIds, name \in FileNames :
        \/ saving' = [Idle EXCEPT !.st = "dialog", !.id = id, !.name = name, !.new = TRUE,
                                  !.text = [id |-> id, version |-> profileOps']]
        \/ saving' = [Idle EXCEPT !.st = "dialog", !.id = id, !.name = name,
                                  !.text = [id |-> id, version |-> profileOps']]
  <2>1. \A id \in ProfileIds : FileNameOf[id] \in FileNames BY ProfileFilesAssumption
  <2>2. LoadedProfiles \subseteq FileNames BY DEF LoadedProfiles
  <2> QED BY <2>1, <2>2 DEF OpenProfileDialog
<1>3. /\ saving' \in Savings /\ saving'.st = "dialog" /\ saving'.name \in FileNames
      /\ saving'.text.id = saving'.id /\ saving'.before = NoProfileText
  <2>1. PICK text \in Texts : text = [id |-> id, version |-> profileOps'] BY <1>1, TextsAreTold
  <2>2. CASE saving' = [Idle EXCEPT !.st = "dialog", !.id = id, !.name = name, !.new = TRUE, !.text = text]
    BY <2>1, <2>2, TextsAreTold DEF Idle, Savings, SaveStages
  <2>3. CASE saving' = [Idle EXCEPT !.st = "dialog", !.id = id, !.name = name, !.text = text]
    BY <2>1, <2>3, TextsAreTold DEF Idle, Savings, SaveStages
  <2> QED BY <1>2, <2>1, <2>2, <2>3
<1>4. ProfileTypeOK' BY <1>1, <1>3 DEF ProfileInv, ProfileTypeOK
<1>5. SavingInv' BY <1>3 DEF SavingInv, Writing
<1>6. SaveIsAllOrNothing' BY <1>3 DEF SaveIsAllOrNothing
<1> QED BY <1>1, <1>4, <1>5, <1>6, FolderIsKept DEF ProfileInv

LEMMA AskToSaveKeeps == ProfileInv /\ AskToSave => ProfileInv'
<1> SUFFICES ASSUME ProfileInv, AskToSave PROVE ProfileInv' OBVIOUS
<1>1. UNCHANGED <<folder, foreign, profileOps>> /\ saving.st = "dialog" /\ saving \in Savings
  BY DEF AskToSave, ProfileInv, ProfileTypeOK
<1>2. CASE saving' = Idle BY <1>1, <1>2, SaveIsOver, FolderIsKept
<1>3. CASE saving' = [saving EXCEPT !.st = "asked", !.allow = Has(saving.name)]
  <2>1. Has(saving.name) \in BOOLEAN BY DEF Has
  <2>2. /\ saving' \in Savings /\ saving'.st = "asked" /\ saving'.name = saving.name
        /\ saving'.text = saving.text /\ saving'.id = saving.id /\ saving'.before = saving.before
    BY <1>1, <1>3, <2>1 DEF Savings, SaveStages
  <2>3. ProfileTypeOK' BY <1>1, <2>2 DEF ProfileInv, ProfileTypeOK
  <2>4. SavingInv' BY <1>1, <2>2 DEF ProfileInv, SavingInv, Writing
  <2>5. SaveIsAllOrNothing' BY <1>1, <2>2 DEF ProfileInv, SavingInv, SaveIsAllOrNothing
  <2> QED BY <1>1, <2>3, <2>4, <2>5, FolderIsKept DEF ProfileInv
<1> QED BY <1>2, <1>3 DEF AskToSave

LEMMA BeginSaveKeeps == ProfileInv /\ BeginSave => ProfileInv'
<1> SUFFICES ASSUME ProfileInv, BeginSave PROVE ProfileInv' OBVIOUS
<1>1. UNCHANGED <<folder, foreign, profileOps>> /\ saving.st = "asked" /\ saving \in Savings
  BY DEF BeginSave, ProfileInv, ProfileTypeOK
<1>2. CASE saving' = Idle BY <1>1, <1>2, SaveIsOver, FolderIsKept
<1>3. CASE /\ MayTake(saving)
           /\ saving' = [saving EXCEPT !.st = IF Has(saving.name) THEN "backup" ELSE "replace",
                                       !.existed = Has(saving.name),
                                       !.before = folder.file[saving.name]]
  <2>1. /\ Has(saving.name) \in BOOLEAN /\ folder.file[saving.name] \in Texts /\ saving.name \in FileNames
    BY <1>1 DEF Has, ProfileInv, ProfileTypeOK, SavingInv
  <2>2. /\ saving' \in Savings /\ saving'.st = (IF Has(saving.name) THEN "backup" ELSE "replace")
        /\ saving'.name = saving.name /\ saving'.text = saving.text /\ saving'.id = saving.id
        /\ saving'.existed = Has(saving.name) /\ saving'.before = folder.file[saving.name]
    BY <1>1, <1>3, <2>1 DEF Savings, SaveStages
  <2>3. ProfileTypeOK' BY <1>1, <2>2 DEF ProfileInv, ProfileTypeOK
  <2>4. saving.text.id = saving.id BY <1>1 DEF ProfileInv, SavingInv
  <2>5. NoOtherHas(saving.text, LoadedProfiles)' BY <1>1, <1>3, <2>2, <2>4
    DEF MayTake, NoOtherHas, LoadedProfiles, Has
  <2>6. saving'.name \notin foreign' /\ saving'.before \notin {NoProfileText, Unparsable} =>
          NoOtherHas(saving.before, LoadedProfiles \ foreign)'
    BY <1>1, <2>1, <2>2 DEF ProfileInv, OneFileForEachId, NoOtherHas, LoadedProfiles, Has
  <2>7. SavingInv'
    BY <1>1, <2>1, <2>2, <2>4, <2>5, <2>6 DEF SavingInv, Writing, Has
  <2>8. SaveIsAllOrNothing' BY <1>1, <2>2 DEF SaveIsAllOrNothing
  <2> QED BY <1>1, <2>3, <2>7, <2>8, FolderIsKept DEF ProfileInv
<1> QED BY <1>2, <1>3 DEF BeginSave

LEMMA KeepBackupKeeps == ProfileInv /\ KeepBackup => ProfileInv'
<1> SUFFICES ASSUME ProfileInv, KeepBackup PROVE ProfileInv' OBVIOUS
<1>1. UNCHANGED <<foreign, profileOps>> /\ saving.st = "backup" /\ saving \in Savings
  BY DEF KeepBackup, ProfileInv, ProfileTypeOK
<1>2. CASE saving' = Idle /\ UNCHANGED folder BY <1>1, <1>2, SaveIsOver, FolderIsKept
<1>3. CASE /\ folder' = [folder EXCEPT !.bak[saving.name] = folder.file[saving.name]]
           /\ saving' = [saving EXCEPT !.st = "replace"]
  <2>1. /\ saving' \in Savings /\ saving'.st = "replace" /\ saving'.name = saving.name
        /\ saving'.text = saving.text /\ saving'.id = saving.id /\ saving'.existed = saving.existed
        /\ saving'.before = saving.before /\ saving.name \in FileNames
    BY <1>1, <1>3 DEF Savings, SaveStages, ProfileInv, SavingInv
  <2>2. /\ folder' \in [file : [FileNames -> Texts], bak : [FileNames -> Texts]]
        /\ folder'.file = folder.file /\ folder'.bak[saving.name] = folder.file[saving.name]
    BY <1>3, <2>1 DEF ProfileInv, ProfileTypeOK
  <2>3. ProfileTypeOK' BY <1>1, <2>1, <2>2 DEF ProfileInv, ProfileTypeOK
  <2>4. LoadedProfiles' = LoadedProfiles BY <2>2 DEF LoadedProfiles, Has
  <2>5. SavingInv' BY <1>1, <2>1, <2>2, <2>4 DEF ProfileInv, SavingInv, Writing, NoOtherHas
  <2>6. SaveIsAllOrNothing' BY <1>1, <2>1, <2>2 DEF ProfileInv, SavingInv, SaveIsAllOrNothing
  <2>7. OneFileForEachId' BY <1>1, <2>2, <2>4 DEF ProfileInv, OneFileForEachId
  <2> QED BY <2>3, <2>5, <2>6, <2>7 DEF ProfileInv
<1> QED BY <1>2, <1>3 DEF KeepBackup

LEMMA ReplaceTargetKeeps == ProfileInv /\ ReplaceTarget => ProfileInv'
<1> SUFFICES ASSUME ProfileInv, ReplaceTarget PROVE ProfileInv' OBVIOUS
<1>1. UNCHANGED <<foreign, profileOps>> /\ saving.st = "replace" /\ saving \in Savings
  BY DEF ReplaceTarget, ProfileInv, ProfileTypeOK
<1>2. CASE saving' = Idle /\ UNCHANGED folder BY <1>1, <1>2, SaveIsOver, FolderIsKept
<1>3. CASE /\ folder' = [folder EXCEPT !.file[saving.name] = saving.text]
           /\ saving' = [saving EXCEPT !.st = "verify"]
  <2>1. /\ saving' \in Savings /\ saving'.st = "verify" /\ saving'.name = saving.name
        /\ saving'.text = saving.text /\ saving'.id = saving.id /\ saving'.existed = saving.existed
        /\ saving'.before = saving.before /\ saving.name \in FileNames /\ saving.text \in Texts
    BY <1>1, <1>3 DEF Savings, SaveStages, ProfileInv, SavingInv
  <2>2. /\ folder' \in [file : [FileNames -> Texts], bak : [FileNames -> Texts]]
        /\ folder'.bak = folder.bak /\ folder'.file[saving.name] = saving.text
        /\ \A n \in FileNames \ {saving.name} : folder'.file[n] = folder.file[n]
    BY <1>3, <2>1 DEF ProfileInv, ProfileTypeOK
  <2>3. ProfileTypeOK' BY <1>1, <2>1, <2>2 DEF ProfileInv, ProfileTypeOK
  <2>4. LoadedProfiles' \ {saving.name} = LoadedProfiles \ {saving.name} BY <2>2 DEF LoadedProfiles, Has
  <2>5. \A n \in LoadedProfiles' \ {saving.name} : folder'.file[n] = folder.file[n]
    BY <2>2 DEF LoadedProfiles
  <2>6. NoOtherHas(saving.text, LoadedProfiles)'
    BY <1>1, <2>1, <2>4, <2>5 DEF ProfileInv, SavingInv, Writing, NoOtherHas
  <2>7. saving'.name \notin foreign' /\ saving'.before \notin {NoProfileText, Unparsable} =>
          NoOtherHas(saving.before, LoadedProfiles \ foreign)'
    BY <1>1, <2>1, <2>4, <2>5 DEF ProfileInv, SavingInv, Writing, NoOtherHas
  <2>8. SavingInv'
    <3>1. /\ saving.text.id = saving.id /\ (saving.existed <=> saving.before # NoProfileText)
          /\ saving.existed => folder.bak[saving.name] = saving.before
      BY <1>1 DEF ProfileInv, SavingInv, Writing
    <3> QED BY <2>1, <2>2, <2>6, <2>7, <3>1 DEF SavingInv, Writing
  <2>9. SaveIsAllOrNothing' BY <1>1, <2>1, <2>2 DEF ProfileInv, SavingInv, Writing, SaveIsAllOrNothing
  <2>10. OneFileForEachId'
    <3>1. \A n \in LoadedProfiles \ {saving.name} : folder.file[n].id # saving.text.id
      BY <1>1 DEF ProfileInv, SavingInv, Writing, NoOtherHas
    <3> QED BY <1>1, <2>2, <2>4, <2>5, <3>1 DEF ProfileInv, OneFileForEachId
  <2> QED BY <2>3, <2>8, <2>9, <2>10 DEF ProfileInv
<1> QED BY <1>2, <1>3 DEF ReplaceTarget

\* Undoing the save puts the folder where it was before it, but for the backup.
LEMMA VerifySavedKeeps == ProfileInv /\ VerifySaved => ProfileInv'
<1> SUFFICES ASSUME ProfileInv, VerifySaved PROVE ProfileInv' OBVIOUS
<1>1. /\ UNCHANGED profileOps /\ saving.st = "verify" /\ saving \in Savings /\ saving.name \in FileNames
      /\ profileOps \in Nat /\ folder \in [file : [FileNames -> Texts], bak : [FileNames -> Texts]]
      /\ folder.file[saving.name] = saving.text
  BY DEF VerifySaved, ProfileInv, ProfileTypeOK, SavingInv
<1>2. CASE saving' = Idle /\ foreign' = foreign \ {saving.name} /\ UNCHANGED folder
  <2>1. LoadedProfiles' = LoadedProfiles /\ folder' = folder BY <1>2 DEF LoadedProfiles, Has
  <2>2. \A n \in LoadedProfiles \ {saving.name} : folder.file[n].id # folder.file[saving.name].id
    BY <1>1 DEF ProfileInv, SavingInv, Writing, NoOtherHas
  <2>3. OneFileForEachId' BY <1>2, <2>1, <2>2 DEF ProfileInv, OneFileForEachId
  <2> QED BY <1>1, <1>2, <2>3, SaveIsOver
<1>3. CASE saving' = [saving EXCEPT !.st = "refused"] /\ folder' = RolledBack /\ UNCHANGED foreign
  <2>1. /\ saving' \in Savings /\ saving'.st = "refused" /\ saving'.name = saving.name
        /\ saving'.text = saving.text /\ saving'.before = saving.before
    BY <1>1, <1>3 DEF Savings, SaveStages
  <2>2. /\ saving.existed <=> saving.before # NoProfileText
        /\ saving.existed => folder.bak[saving.name] = saving.before
    BY <1>1 DEF ProfileInv, SavingInv, Writing
  <2>3. /\ folder' \in [file : [FileNames -> Texts], bak : [FileNames -> Texts]]
        /\ folder'.file[saving.name] = saving.before
        /\ \A n \in FileNames \ {saving.name} : folder'.file[n] = folder.file[n]
    <3>1. CASE saving.existed BY <1>1, <1>3, <2>2, <3>1, TextsAreTold DEF RolledBack
    <3>2. CASE ~saving.existed BY <1>1, <1>3, <2>2, <3>2, TextsAreTold DEF RolledBack
    <3> QED BY <3>1, <3>2
  <2>4. ProfileTypeOK' BY <1>1, <2>1, <2>3 DEF ProfileTypeOK
  <2>5. SavingInv' BY <1>1, <2>1 DEF SavingInv, Writing
  <2>6. SaveIsAllOrNothing' BY <2>1, <2>3 DEF SaveIsAllOrNothing
  <2>7. OneFileForEachId'
    <3>1. LoadedProfiles' \ {saving.name} = LoadedProfiles \ {saving.name} BY <2>3 DEF LoadedProfiles, Has
    <3>2. saving.name \in LoadedProfiles' => saving.before \notin {NoProfileText, Unparsable}
      BY <2>3 DEF LoadedProfiles, Has
    <3>3. saving.name \in LoadedProfiles' \ foreign =>
            \A n \in LoadedProfiles \ (foreign \cup {saving.name}) : folder.file[n].id # saving.before.id
      BY <1>1, <3>2 DEF ProfileInv, SavingInv, Writing, NoOtherHas
    <3>4. LoadedProfiles \subseteq FileNames BY DEF LoadedProfiles
    <3> QED BY <1>3, <2>3, <3>1, <3>3, <3>4 DEF ProfileInv, OneFileForEachId
  <2> QED BY <2>4, <2>5, <2>6, <2>7 DEF ProfileInv
<1>4. CASE saving' = [saving EXCEPT !.st = "stuck"] /\ UNCHANGED <<folder, foreign>>
  <2>1. /\ saving' \in Savings /\ saving'.st = "stuck" /\ saving'.name = saving.name
        /\ saving'.text = saving.text /\ saving'.before = saving.before /\ saving'.existed = saving.existed
    BY <1>1, <1>4 DEF Savings, SaveStages
  <2>2. ProfileTypeOK' BY <1>1, <1>4, <2>1 DEF ProfileTypeOK
  <2>3. SavingInv' BY <1>1, <2>1 DEF SavingInv, Writing
  <2>4. SaveIsAllOrNothing'
    BY <1>1, <1>4, <2>1 DEF ProfileInv, SavingInv, Writing, SaveIsAllOrNothing
  <2> QED BY <1>4, <2>2, <2>3, <2>4, FolderIsKept DEF ProfileInv
<1> QED BY <1>2, <1>3, <1>4 DEF VerifySaved

\* What others put there and what is deleted makes no two files of one profile.
LEMMA FolderChangesKeep ==
    ASSUME ProfileInv, DeleteProfileFile \/ PutFile
    PROVE  ProfileInv'
<1>1. /\ saving' = saving /\ saving \in Savings /\ saving.st \in {"idle", "dialog", "asked"}
      /\ profileOps' \in Nat \ {0} /\ folder \in [file : [FileNames -> Texts], bak : [FileNames -> Texts]]
  <2>1. profileOps \in Nat /\ profileOps' = profileOps + 1
    BY DEF DeleteProfileFile, PutFile, Act, ProfileInv, ProfileTypeOK
  <2> QED BY <2>1 DEF DeleteProfileFile, PutFile, ProfileInv, ProfileTypeOK
<1>2. PICK n \in FileNames, text \in Texts :
        /\ folder' = [folder EXCEPT !.file[n] = text]
        /\ foreign \subseteq foreign'
        /\ text = NoProfileText \/ n \in foreign'
  <2>1. CASE DeleteProfileFile
    <3>1. PICK n \in LoadedProfiles : folder' = [folder EXCEPT !.file[n] = NoProfileText]
      BY <2>1 DEF DeleteProfileFile
    <3> QED BY <2>1, <3>1, TextsAreTold DEF DeleteProfileFile, LoadedProfiles
  <2>2. CASE PutFile
    <3>1. PICK n \in FileNames, id \in ProfileIds :
         /\ folder' \in {[folder EXCEPT !.file[n] = Unparsable],
                         [folder EXCEPT !.file[n] = [id |-> id, version |-> profileOps']]}
         /\ foreign' = foreign \cup {n}
      BY <2>2 DEF PutFile
    <3>2. [id |-> id, version |-> profileOps'] \in Texts /\ Unparsable \in Texts BY <1>1, TextsAreTold
    <3> QED BY <3>1, <3>2
  <2> QED BY <2>1, <2>2
<1>3. /\ folder' \in [file : [FileNames -> Texts], bak : [FileNames -> Texts]]
      /\ folder'.file[n] = text /\ \A m \in FileNames \ {n} : folder'.file[m] = folder.file[m]
  BY <1>1, <1>2
<1>4. ProfileTypeOK' BY <1>1, <1>3 DEF ProfileTypeOK
<1>5. SavingInv' BY <1>1 DEF ProfileInv, SavingInv, Writing
<1>6. SaveIsAllOrNothing' BY <1>1 DEF ProfileInv, SavingInv, SaveIsAllOrNothing
<1>7. OneFileForEachId'
  <2>1. LoadedProfiles' \ foreign' \subseteq (LoadedProfiles \ foreign) \ {n}
    BY <1>2, <1>3 DEF LoadedProfiles, Has
  <2>2. LoadedProfiles \subseteq FileNames BY DEF LoadedProfiles
  <2> QED BY <1>3, <2>1, <2>2 DEF ProfileInv, OneFileForEachId
<1> QED BY <1>4, <1>5, <1>6, <1>7 DEF ProfileInv

LEMMA DieWhileSavingKeeps == ProfileInv /\ DieWhileSaving => ProfileInv'
<1> SUFFICES ASSUME ProfileInv, DieWhileSaving PROVE ProfileInv' OBVIOUS
<1>1. UNCHANGED <<folder, foreign, profileOps>> /\ saving.st # "idle" /\ saving \in Savings
  BY DEF DieWhileSaving, ProfileInv, ProfileTypeOK
<1>2. /\ saving' \in Savings /\ saving'.st = "dead" /\ saving'.name = saving.name
      /\ saving'.text = saving.text /\ saving'.before = saving.before
  BY <1>1 DEF DieWhileSaving, Savings, SaveStages
<1>3. ProfileTypeOK' BY <1>1, <1>2 DEF ProfileInv, ProfileTypeOK
<1>4. SavingInv' BY <1>1, <1>2 DEF ProfileInv, SavingInv, Writing
<1>5. SaveIsAllOrNothing' BY <1>1, <1>2 DEF ProfileInv, SaveIsAllOrNothing
<1> QED BY <1>1, <1>3, <1>4, <1>5, FolderIsKept DEF ProfileInv

\* The profile's file is there and whole wherever a save stops, and the program
\* makes no second file of a profile id, whoever else writes into the folder and
\* whatever two ids come to the same file name.
THEOREM ProfileFilesAlwaysSafe == ProfileSpec => []ProfileFilesAreSafe
<1>1. ProfileInv /\ [ProfileNext]_profileVars => ProfileInv'
  <2> SUFFICES ASSUME ProfileInv, [ProfileNext]_profileVars PROVE ProfileInv' OBVIOUS
  <2>1. CASE UNCHANGED profileVars
    <3>1. UNCHANGED <<folder, saving, foreign, profileOps>> BY <2>1 DEF profileVars
    <3> QED BY <3>1 DEF ProfileInv, ProfileTypeOK, SavingInv, Writing, NoOtherHas, LoadedProfiles, Has,
                        SaveIsAllOrNothing, OneFileForEachId
  <2>2. CASE GiveUpSaving \/ ShowSaveError \/ StartAgain
    BY <2>2, SaveIsOver, FolderIsKept DEF GiveUpSaving, ShowSaveError, StartAgain
  <2> QED BY <2>1, <2>2, OpenProfileDialogKeeps, AskToSaveKeeps, BeginSaveKeeps, KeepBackupKeeps,
             ReplaceTargetKeeps, VerifySavedKeeps, FolderChangesKeep, DieWhileSavingKeeps DEF ProfileNext
<1>2. ProfileInv => ProfileFilesAreSafe BY DEF ProfileInv, ProfileFilesAreSafe
<1> QED BY <1>1, <1>2, ProfileStart, PTL DEF ProfileSpec

----------------------------------------------------------------------------
(* The update dialogue.  A job is live while its yes may still come: it     *)
(* runs, its good answer waits to be handled or the question it led to is   *)
(* on the screen.  Each job is live in at most one of these ways, and what  *)
(* a yes starts uses the live job up; so nothing is started twice for one   *)
(* answer.                                                                  *)

Events == {"offer", "tell", "error", "verified", "prepared", "finished"}
GoodEvent == [check |-> "offer", download |-> "verified", prepare |-> "prepared"]
Question == [check |-> "found", download |-> "confirm", prepare |-> "none"]

UpdateTypeOK ==
    /\ program \in [portable : BOOLEAN, checkOnStartup : BOOLEAN]
    /\ busy \in BOOLEAN
    /\ jobs \in Seq([kind : Kinds, manual : BOOLEAN, state : {"running", "answered", "ended"}])
    /\ queue \in Seq([job : Nat, event : Events])
    /\ boxes \in Seq([box : {"notice", "found", "confirm"}, job : Nat])
    /\ launched \in Nat

\* events and boxes are of jobs that were started, and say what such a job can say
EventsAndBoxesFit ==
    /\ \A i \in DOMAIN queue :
         /\ queue[i].job \in Job
         /\ queue[i].event \in Outcomes[jobs[queue[i].job].kind] \cup {"finished"}
    /\ \A i \in DOMAIN boxes :
         /\ boxes[i].job \in Job
         /\ boxes[i].box \in {"notice", Question[jobs[boxes[i].job].kind]}

\* a job has run before its answer waits, at most once, and that before its box
OneTrace ==
    /\ \A i \in DOMAIN queue : jobs[queue[i].job].state # "running"
    /\ \A i \in DOMAIN boxes : jobs[boxes[i].job].state # "running"
    /\ \A i, k \in DOMAIN queue :
         queue[i].job = queue[k].job /\ "finished" \notin {queue[i].event, queue[k].event} => i = k
    /\ \A i \in DOMAIN queue, k \in DOMAIN boxes :
         queue[i].job = boxes[k].job => queue[i].event = "finished"
    /\ \A i, k \in DOMAIN boxes : boxes[i].job = boxes[k].job => i = k

Live(kind) ==
    {j \in Job :
        /\ jobs[j].kind = kind
        /\ \/ jobs[j].state = "running"
           \/ \E i \in DOMAIN queue : queue[i].job = j /\ queue[i].event = GoodEvent[kind]
           \/ \E i \in DOMAIN boxes : boxes[i].job = j /\ boxes[i].box = Question[kind]}

Counts ==
    /\ Started("download") + Cardinality(Live("check")) <= Started("check")
    /\ program.portable =>
         /\ Started("prepare") + Cardinality(Live("download")) <= Started("download")
         /\ launched + Cardinality(Live("prepare")) <= Started("prepare")
    /\ ~program.portable =>
         /\ Started("prepare") = 0
         /\ launched + Cardinality(Live("download")) <= Started("download")

\* without the check at start-up everything under way is of the last job
LastJobOnly ==
    /\ \A j \in Job : j # Len(jobs) => jobs[j].state = "ended"
    /\ \A i \in DOMAIN queue : queue[i].job = Len(jobs)
    /\ \A i \in DOMAIN boxes : i = 1 /\ boxes[i].job = Len(jobs)
    /\ \A i \in DOMAIN queue : queue[i].event = "finished" => i = Len(queue) /\ jobs[Len(jobs)].state = "ended"
    /\ \A i \in DOMAIN queue : queue[i].event # "finished" => boxes = <<>>
    /\ \A j \in Job : jobs[j].state = "running" => queue = <<>> /\ boxes = <<>>
    /\ \A j \in Job : jobs[j].state = "answered" => Len(queue) <= 1
    /\ ~busy => queue = <<>> /\ \A j \in Job : jobs[j].state = "ended"
    /\ jobs # <<>> /\ jobs[Len(jobs)].state = "ended" /\ queue # <<>> => queue[Len(queue)].event = "finished"

Single == ~program.checkOnStartup => LastJobOnly

UpdateInv == UpdateTypeOK /\ EventsAndBoxesFit /\ OneTrace /\ Counts /\ Single

\* What appending, taking the first and dropping the last do to a sequence.
LEMMA AppendTold ==
    ASSUME NEW S, NEW s \in Seq(S), NEW e \in S, NEW t, t = Append(s, e)
    PROVE  /\ t \in Seq(S) /\ Len(s) \in Nat /\ Len(t) = Len(s) + 1
           /\ DOMAIN s = 1 .. Len(s) /\ DOMAIN t = 1 .. Len(s) + 1
           /\ \A i \in DOMAIN s : i \in DOMAIN t /\ i # Len(s) + 1 /\ t[i] = s[i]
           /\ \A i \in DOMAIN t : i \in DOMAIN s \/ i = Len(s) + 1
           /\ t[Len(s) + 1] = e
OBVIOUS

LEMMA TailTold ==
    ASSUME NEW S, NEW s \in Seq(S), s # <<>>, NEW t, t = Tail(s)
    PROVE  /\ t \in Seq(S) /\ Len(s) \in Nat \ {0} /\ Len(t) = Len(s) - 1
           /\ DOMAIN s = 1 .. Len(s) /\ DOMAIN t = 1 .. Len(s) - 1
           /\ \A i \in DOMAIN t : i \in Nat \ {0} /\ i + 1 \in DOMAIN s /\ t[i] = s[i + 1]
           /\ 1 \in DOMAIN s /\ Head(s) = s[1] /\ s[1] \in S
OBVIOUS

LEMMA FrontTold ==
    ASSUME NEW S, NEW s \in Seq(S), s # <<>>, NEW t, t = Front(s)
    PROVE  /\ t \in Seq(S) /\ Len(s) \in Nat \ {0} /\ Len(t) = Len(s) - 1
           /\ DOMAIN s = 1 .. Len(s) /\ DOMAIN t = 1 .. Len(s) - 1
           /\ \A i \in DOMAIN t : i \in DOMAIN s /\ i # Len(s) /\ t[i] = s[i]
           /\ Len(s) \in DOMAIN s /\ Last(s) = s[Len(s)] /\ s[Len(s)] \in S
<1>1. Len(s) \in Nat \ {0} /\ DOMAIN s = 1 .. Len(s) /\ Len(s) \in DOMAIN s /\ s[Len(s)] \in S OBVIOUS
<1>2. t = SubSeq(s, 1, Len(s) - 1) BY DEF Front
<1>3. /\ t \in Seq(S) /\ Len(t) = Len(s) - 1 /\ \A i \in 1 .. Len(s) - 1 : t[i] = s[i]
  BY <1>1, <1>2, SubSeqProperties
<1>4. DOMAIN t = 1 .. Len(s) - 1 BY <1>1, <1>3
<1> QED BY <1>1, <1>3, <1>4 DEF Last

Jobs == [kind : Kinds, manual : BOOLEAN, state : {"running", "answered", "ended"}]
QueueEvents == [job : Nat, event : Events]
Boxes == [box : {"notice", "found", "confirm"}, job : Nat]

LEMMA UpdateTypes ==
    ASSUME UpdateTypeOK
    PROVE  /\ jobs \in Seq(Jobs) /\ queue \in Seq(QueueEvents) /\ boxes \in Seq(Boxes)
           /\ Job = 1 .. Len(jobs) /\ Len(jobs) \in Nat /\ Job \subseteq Nat
           /\ \A j \in Job : jobs[j] \in Jobs
           /\ \A i \in DOMAIN queue : queue[i] \in QueueEvents
           /\ \A i \in DOMAIN boxes : boxes[i] \in Boxes
<1>1. /\ jobs \in Seq(Jobs) /\ queue \in Seq(QueueEvents) /\ boxes \in Seq(Boxes)
  BY DEF UpdateTypeOK, Jobs, QueueEvents, Boxes
<1>2. Job = 1 .. Len(jobs) /\ Len(jobs) \in Nat BY <1>1 DEF Job
<1>3. Job \subseteq Nat BY <1>2
<1>4. \A j \in Job : jobs[j] \in Jobs BY <1>1 DEF Job
<1>5. \A i \in DOMAIN queue : queue[i] \in QueueEvents BY <1>1
<1>6. \A i \in DOMAIN boxes : boxes[i] \in Boxes BY <1>1
<1> QED BY <1>1, <1>2, <1>3, <1>4, <1>5, <1>6

UpdateShape == UpdateTypeOK /\ EventsAndBoxesFit /\ OneTrace

LEMMA UpdateStart == UpdateInit => UpdateInv
<1> SUFFICES ASSUME UpdateInit PROVE UpdateInv OBVIOUS
<1>1. /\ jobs = <<>> /\ queue = <<>> /\ boxes = <<>> /\ launched = 0 /\ busy = FALSE
      /\ program \in [portable : BOOLEAN, checkOnStartup : BOOLEAN]
  BY DEF UpdateInit
<1>2. Job = {} BY <1>1 DEF Job
<1>3. UpdateTypeOK
  <2>1. \A S : <<>> \in Seq(S) OBVIOUS
  <2> QED BY <1>1, <2>1 DEF UpdateTypeOK
<1>4. EventsAndBoxesFit /\ OneTrace BY <1>1 DEF EventsAndBoxesFit, OneTrace
<1>5. \A kind : Cardinality(Live(kind)) = 0 /\ Started(kind) = 0
  <2>1. \A kind : Live(kind) = {} /\ {j \in Job : jobs[j].kind = kind} = {} BY <1>2 DEF Live
  <2> QED BY <2>1, FS_EmptySet DEF Started
<1>6. Counts BY <1>1, <1>5 DEF Counts
<1>7. Single BY <1>1, <1>2 DEF Single, LastJobOnly
<1> QED BY <1>3, <1>4, <1>6, <1>7 DEF UpdateInv

\* A job begins, at a click, at the timer or when the box on top is answered with yes.
JobBegins(kind, manual) ==
    /\ jobs' = Append(jobs, [kind |-> kind, manual |-> manual, state |-> "running"])
    /\ busy' = TRUE
    /\ UNCHANGED <<program, queue, launched>>

LEMMA JobBeginsKeepsShape ==
    ASSUME UpdateShape, NEW kind \in Kinds, NEW manual \in BOOLEAN, JobBegins(kind, manual),
           boxes' = boxes \/ (boxes # <<>> /\ boxes' = Front(boxes))
    PROVE  /\ UpdateShape' /\ Job' = Job \cup {Len(jobs) + 1} /\ Len(jobs) + 1 \notin Job
           /\ Len(jobs') = Len(jobs) + 1
           /\ \A j \in Job : jobs'[j] = jobs[j]
           /\ jobs'[Len(jobs) + 1] = [kind |-> kind, manual |-> manual, state |-> "running"]
           /\ jobs'[Len(jobs) + 1].kind = kind
           /\ \A i \in DOMAIN boxes' : i \in DOMAIN boxes /\ boxes'[i] = boxes[i]
<1>1. [kind |-> kind, manual |-> manual, state |-> "running"] \in Jobs BY DEF Jobs
<1>2. /\ jobs \in Seq(Jobs) /\ boxes \in Seq(Boxes) /\ Job = 1 .. Len(jobs) /\ Len(jobs) \in Nat
  BY UpdateTypes DEF UpdateShape
<1>3. /\ jobs' \in Seq(Jobs) /\ Len(jobs') = Len(jobs) + 1 /\ DOMAIN jobs' = 1 .. Len(jobs) + 1
      /\ \A j \in DOMAIN jobs : jobs'[j] = jobs[j]
      /\ jobs'[Len(jobs) + 1] = [kind |-> kind, manual |-> manual, state |-> "running"]
  BY <1>1, <1>2, AppendTold DEF JobBegins
<1>4. Job' = Job \cup {Len(jobs) + 1} /\ Len(jobs) + 1 \notin Job BY <1>2, <1>3 DEF Job
<1>5. /\ boxes' \in Seq(Boxes)
      /\ \A i \in DOMAIN boxes' : i \in DOMAIN boxes /\ boxes'[i] = boxes[i]
  BY <1>2, FrontTold
<1>6. \A j \in Job : jobs'[j] = jobs[j] BY <1>3 DEF Job
<1>7. UpdateTypeOK' BY <1>3, <1>5 DEF UpdateShape, UpdateTypeOK, JobBegins, Jobs, Boxes
<1>8. /\ \A i \in DOMAIN queue : queue[i].job \in Job /\ jobs'[queue[i].job] = jobs[queue[i].job]
      /\ \A i \in DOMAIN boxes : boxes[i].job \in Job /\ jobs'[boxes[i].job] = jobs[boxes[i].job]
      /\ queue' = queue
  BY <1>6 DEF UpdateShape, EventsAndBoxesFit, JobBegins
<1>9. EventsAndBoxesFit'
  <2>1. ASSUME NEW i \in DOMAIN queue'
        PROVE  /\ queue'[i].job \in Job'
               /\ queue'[i].event \in Outcomes[jobs'[queue'[i].job].kind] \cup {"finished"}
    BY <1>4, <1>8 DEF UpdateShape, EventsAndBoxesFit
  <2>2. ASSUME NEW i \in DOMAIN boxes'
        PROVE  boxes'[i].job \in Job' /\ boxes'[i].box \in {"notice", Question[jobs'[boxes'[i].job].kind]}
    BY <1>4, <1>5, <1>8 DEF UpdateShape, EventsAndBoxesFit
  <2> QED BY <2>1, <2>2 DEF EventsAndBoxesFit
<1>10. OneTrace'
  <2>1. /\ \A i \in DOMAIN queue' : jobs'[queue'[i].job].state # "running"
        /\ \A i \in DOMAIN boxes' : jobs'[boxes'[i].job].state # "running"
    BY <1>5, <1>8 DEF UpdateShape, OneTrace
  <2>2. \A i, k \in DOMAIN queue' :
          queue'[i].job = queue'[k].job /\ "finished" \notin {queue'[i].event, queue'[k].event} => i = k
    BY <1>8 DEF UpdateShape, OneTrace
  <2>3. \A i \in DOMAIN queue', k \in DOMAIN boxes' :
          queue'[i].job = boxes'[k].job => queue'[i].event = "finished"
    BY <1>5, <1>8 DEF UpdateShape, OneTrace
  <2>4. \A i, k \in DOMAIN boxes' : boxes'[i].job = boxes'[k].job => i = k
    BY <1>5 DEF UpdateShape, OneTrace
  <2> QED BY <2>1, <2>2, <2>3, <2>4 DEF OneTrace
<1> QED BY <1>3, <1>4, <1>5, <1>6, <1>7, <1>9, <1>10 DEF UpdateShape

\* A job's state goes on and it emits one event, which is the first answer or the end.
LEMMA JobEmitsKeepsShape ==
    ASSUME UpdateShape, NEW j \in Job, NEW state \in {"answered", "ended"}, NEW event \in Events,
           \/ jobs[j].state = "running" /\ event \in Outcomes[jobs[j].kind]
           \/ jobs[j].state = "answered" /\ event = "finished",
           jobs' = [jobs EXCEPT ![j].state = state], Emit(j, event),
           UNCHANGED <<program, busy, boxes, launched>>
    PROVE  /\ UpdateShape' /\ Job' = Job /\ Len(jobs') = Len(jobs)
           /\ \A k \in Job : jobs'[k].kind = jobs[k].kind /\ jobs'[k].manual = jobs[k].manual
           /\ \A k \in Job \ {j} : jobs'[k] = jobs[k]
           /\ jobs'[j].state = state
           /\ queue \in Seq(QueueEvents) /\ Len(queue') = Len(queue) + 1 /\ Len(queue) \in Nat
           /\ DOMAIN queue = 1 .. Len(queue) /\ DOMAIN queue' = 1 .. Len(queue) + 1
           /\ \A i \in DOMAIN queue : i \in DOMAIN queue' /\ i # Len(queue) + 1 /\ queue'[i] = queue[i]
           /\ \A i \in DOMAIN queue' : i \in DOMAIN queue \/ i = Len(queue) + 1
           /\ queue'[Len(queue) + 1] = [job |-> j, event |-> event]
<1>1. /\ jobs \in Seq(Jobs) /\ queue \in Seq(QueueEvents) /\ j \in Nat /\ jobs[j] \in Jobs
      /\ Job = 1 .. Len(jobs) /\ Len(jobs) \in Nat
  BY UpdateTypes DEF UpdateShape
<1>2. [job |-> j, event |-> event] \in QueueEvents BY <1>1 DEF QueueEvents
<1>3. /\ queue' \in Seq(QueueEvents) /\ Len(queue') = Len(queue) + 1 /\ Len(queue) \in Nat
      /\ DOMAIN queue = 1 .. Len(queue) /\ DOMAIN queue' = 1 .. Len(queue) + 1
      /\ \A i \in DOMAIN queue : i \in DOMAIN queue' /\ i # Len(queue) + 1 /\ queue'[i] = queue[i]
      /\ \A i \in DOMAIN queue' : i \in DOMAIN queue \/ i = Len(queue) + 1
      /\ queue'[Len(queue) + 1] = [job |-> j, event |-> event]
  BY <1>1, <1>2, AppendTold DEF Emit
<1> DEFINE new == [jobs[j] EXCEPT !.state = state]
<1>4. new \in Jobs /\ new.kind = jobs[j].kind /\ new.manual = jobs[j].manual /\ new.state = state
  BY <1>1 DEF Jobs
<1>5. jobs' = [jobs EXCEPT ![j] = new] OBVIOUS
<1> HIDE DEF new
<1>6. /\ jobs' \in Seq(Jobs) /\ Len(jobs') = Len(jobs) /\ DOMAIN jobs' = DOMAIN jobs
      /\ jobs'[j] = new /\ \A k \in Job \ {j} : jobs'[k] = jobs[k]
  BY <1>1, <1>4, <1>5 DEF Job
<1>7. /\ Job' = Job
      /\ \A k \in Job : jobs'[k].kind = jobs[k].kind /\ jobs'[k].manual = jobs[k].manual
  BY <1>4, <1>6 DEF Job
<1>8. UpdateTypeOK' BY <1>3, <1>6 DEF UpdateShape, UpdateTypeOK, Jobs, QueueEvents
<1>9. EventsAndBoxesFit'
  <2>1. ASSUME NEW i \in DOMAIN queue'
        PROVE  /\ queue'[i].job \in Job'
               /\ queue'[i].event \in Outcomes[jobs'[queue'[i].job].kind] \cup {"finished"}
    <3>1. CASE i \in DOMAIN queue BY <1>3, <1>7, <3>1 DEF UpdateShape, EventsAndBoxesFit
    <3>2. CASE i = Len(queue) + 1 BY <1>3, <1>7, <3>2
    <3> QED BY <1>3, <3>1, <3>2
  <2>2. ASSUME NEW i \in DOMAIN boxes'
        PROVE  boxes'[i].job \in Job' /\ boxes'[i].box \in {"notice", Question[jobs'[boxes'[i].job].kind]}
    BY <1>7 DEF UpdateShape, EventsAndBoxesFit
  <2> QED BY <2>1, <2>2 DEF EventsAndBoxesFit
<1>10. \A k \in Job : jobs'[k].state = "running" => jobs[k].state = "running" /\ k # j BY <1>4, <1>6
<1>11. OneTrace'
  <2>1. \A i \in DOMAIN queue' : jobs'[queue'[i].job].state # "running"
    <3> SUFFICES ASSUME NEW i \in DOMAIN queue' PROVE jobs'[queue'[i].job].state # "running" OBVIOUS
    <3>1. CASE i \in DOMAIN queue BY <1>3, <1>10, <3>1 DEF UpdateShape, EventsAndBoxesFit, OneTrace
    <3>2. CASE i = Len(queue) + 1 BY <1>3, <1>10, <3>2
    <3> QED BY <1>3, <3>1, <3>2
  <2>2. \A i \in DOMAIN boxes' : jobs'[boxes'[i].job].state # "running"
    BY <1>10 DEF UpdateShape, EventsAndBoxesFit, OneTrace
  <2>3. event # "finished" => \A i \in DOMAIN queue : queue[i].job # j
    BY DEF UpdateShape, OneTrace, Outcomes, CheckForUpdates, DownloadUpdate, PreparePortableUpdate
  <2>4. \A i, k \in DOMAIN queue' :
          queue'[i].job = queue'[k].job /\ "finished" \notin {queue'[i].event, queue'[k].event} => i = k
    <3> SUFFICES ASSUME NEW i \in DOMAIN queue', NEW k \in DOMAIN queue', queue'[i].job = queue'[k].job,
                        "finished" \notin {queue'[i].event, queue'[k].event}
                 PROVE  i = k
      OBVIOUS
    <3>1. CASE i \in DOMAIN queue /\ k \in DOMAIN queue BY <1>3, <3>1 DEF UpdateShape, OneTrace
    <3>2. CASE i = Len(queue) + 1 /\ k \in DOMAIN queue BY <1>3, <2>3, <3>2
    <3>3. CASE k = Len(queue) + 1 /\ i \in DOMAIN queue BY <1>3, <2>3, <3>3
    <3> QED BY <1>3, <3>1, <3>2, <3>3
  <2>5. \A i \in DOMAIN queue', k \in DOMAIN boxes' :
          queue'[i].job = boxes'[k].job => queue'[i].event = "finished"
    <3> SUFFICES ASSUME NEW i \in DOMAIN queue', NEW k \in DOMAIN boxes, queue'[i].job = boxes[k].job
                 PROVE  queue'[i].event = "finished"
      OBVIOUS
    <3>1. CASE i \in DOMAIN queue BY <1>3, <3>1 DEF UpdateShape, OneTrace
    <3>2. CASE i = Len(queue) + 1
      <4>1. jobs[j].state # "running" BY <1>3, <3>2 DEF UpdateShape, OneTrace
      <4> QED BY <1>3, <3>2, <4>1
    <3> QED BY <1>3, <3>1, <3>2
  <2>6. \A i, k \in DOMAIN boxes' : boxes'[i].job = boxes'[k].job => i = k
    BY DEF UpdateShape, OneTrace
  <2> QED BY <2>1, <2>2, <2>4, <2>5, <2>6 DEF OneTrace
<1> QED BY <1>1, <1>3, <1>4, <1>6, <1>7, <1>8, <1>9, <1>11 DEF UpdateShape

\* The window handles the first event and may open a box for its job.
LEMMA EventTakenKeepsShape ==
    ASSUME UpdateShape, queue # <<>>, queue' = Tail(queue), UNCHANGED <<program, jobs>>,
           busy' \in BOOLEAN, launched' \in Nat,
           NEW box \in {"notice", Question[jobs[Head(queue).job].kind]}, box # "none",
           \/ boxes' = boxes
           \/ Head(queue).event # "finished" /\ boxes' = Append(boxes, [box |-> box, job |-> Head(queue).job])
    PROVE  /\ UpdateShape' /\ queue[1] \in QueueEvents /\ Head(queue) = queue[1] /\ queue[1].job \in Job
           /\ queue \in Seq(QueueEvents) /\ Len(queue) \in Nat \ {0} /\ Len(queue') = Len(queue) - 1
           /\ DOMAIN queue = 1 .. Len(queue) /\ DOMAIN queue' = 1 .. Len(queue) - 1 /\ 1 \in DOMAIN queue
           /\ \A i \in DOMAIN queue' : i \in Nat \ {0} /\ i + 1 \in DOMAIN queue /\ queue'[i] = queue[i + 1]
           /\ queue[1].event # "finished" =>
                \A i \in DOMAIN queue' : queue'[i].job = queue[1].job => queue'[i].event = "finished"
           /\ \A i \in DOMAIN boxes' :
                (i \in DOMAIN boxes /\ boxes'[i] = boxes[i]) \/ boxes'[i] = [box |-> box, job |-> queue[1].job]
<1>1. /\ queue \in Seq(QueueEvents) /\ boxes \in Seq(Boxes) /\ Job \subseteq Nat
  BY UpdateTypes DEF UpdateShape
<1>2. /\ queue' \in Seq(QueueEvents) /\ Len(queue) \in Nat \ {0} /\ Len(queue') = Len(queue) - 1
      /\ DOMAIN queue = 1 .. Len(queue) /\ DOMAIN queue' = 1 .. Len(queue) - 1
      /\ \A i \in DOMAIN queue' : i \in Nat \ {0} /\ i + 1 \in DOMAIN queue /\ queue'[i] = queue[i + 1]
      /\ 1 \in DOMAIN queue /\ Head(queue) = queue[1] /\ queue[1] \in QueueEvents
  BY <1>1, TailTold
<1>3. queue[1].job \in Job /\ jobs[queue[1].job].state # "running"
  BY <1>2 DEF UpdateShape, EventsAndBoxesFit, OneTrace
<1>4. queue[1].event # "finished" =>
        /\ \A i \in DOMAIN queue' : queue'[i].job = queue[1].job => queue'[i].event = "finished"
        /\ \A i \in DOMAIN boxes : boxes[i].job # queue[1].job
  <2>1. ASSUME queue[1].event # "finished", NEW i \in DOMAIN queue', queue'[i].job = queue[1].job
        PROVE  queue'[i].event = "finished"
    <3>1. i + 1 \in DOMAIN queue /\ i + 1 # 1 /\ queue'[i] = queue[i + 1] BY <1>2
    <3> QED BY <1>2, <2>1, <3>1 DEF UpdateShape, OneTrace
  <2>2. queue[1].event # "finished" => \A i \in DOMAIN boxes : boxes[i].job # queue[1].job
    BY <1>2 DEF UpdateShape, OneTrace
  <2> QED BY <2>1, <2>2
<1>5. box \in {"notice", "found", "confirm"} BY <1>2, <1>3, UpdateTypes DEF UpdateShape, Question, Jobs, Kinds
<1>6. /\ boxes' \in Seq(Boxes)
      /\ \/ boxes' = boxes
         \/ /\ queue[1].event # "finished" /\ Len(boxes) \in Nat
            /\ \A i \in DOMAIN boxes : i \in DOMAIN boxes' /\ i # Len(boxes) + 1 /\ boxes'[i] = boxes[i]
            /\ \A i \in DOMAIN boxes' : i \in DOMAIN boxes \/ i = Len(boxes) + 1
            /\ boxes'[Len(boxes) + 1] = [box |-> box, job |-> queue[1].job]
  <2>1. CASE boxes' = boxes BY <1>1, <2>1
  <2>2. CASE queue[1].event # "finished" /\ boxes' = Append(boxes, [box |-> box, job |-> queue[1].job])
    <3>1. [box |-> box, job |-> queue[1].job] \in Boxes BY <1>1, <1>3, <1>5 DEF Boxes
    <3> QED BY <1>1, <2>2, <3>1, AppendTold
  <2> QED BY <1>2, <2>1, <2>2
<1>7. \A i \in DOMAIN boxes' :
        (i \in DOMAIN boxes /\ boxes'[i] = boxes[i]) \/ boxes'[i] = [box |-> box, job |-> queue[1].job]
  BY <1>6
<1>8. UpdateTypeOK' BY <1>2, <1>6 DEF UpdateShape, UpdateTypeOK, QueueEvents, Boxes
<1>9. EventsAndBoxesFit'
  <2>1. ASSUME NEW i \in DOMAIN queue'
        PROVE  /\ queue'[i].job \in Job'
               /\ queue'[i].event \in Outcomes[jobs'[queue'[i].job].kind] \cup {"finished"}
    <3>1. i + 1 \in DOMAIN queue /\ queue'[i] = queue[i + 1] BY <1>2
    <3> QED BY <3>1 DEF UpdateShape, EventsAndBoxesFit, Job
  <2>2. ASSUME NEW i \in DOMAIN boxes'
        PROVE  boxes'[i].job \in Job' /\ boxes'[i].box \in {"notice", Question[jobs'[boxes'[i].job].kind]}
    <3>1. CASE i \in DOMAIN boxes /\ boxes'[i] = boxes[i] BY <3>1 DEF UpdateShape, EventsAndBoxesFit, Job
    <3>2. CASE boxes'[i] = [box |-> box, job |-> queue[1].job] BY <1>2, <1>3, <3>2 DEF Job
    <3> QED BY <1>7, <3>1, <3>2
  <2> QED BY <2>1, <2>2 DEF EventsAndBoxesFit
<1>10. OneTrace'
  <2>1. \A i \in DOMAIN queue' : jobs'[queue'[i].job].state # "running"
    BY <1>2 DEF UpdateShape, OneTrace
  <2>2. \A i \in DOMAIN boxes' : jobs'[boxes'[i].job].state # "running"
    BY <1>3, <1>7 DEF UpdateShape, OneTrace
  <2>3. \A i, k \in DOMAIN queue' :
          queue'[i].job = queue'[k].job /\ "finished" \notin {queue'[i].event, queue'[k].event} => i = k
    <3> SUFFICES ASSUME NEW i \in DOMAIN queue', NEW k \in DOMAIN queue', queue'[i].job = queue'[k].job,
                        "finished" \notin {queue'[i].event, queue'[k].event}
                 PROVE  i = k
      OBVIOUS
    <3>1. /\ i + 1 \in DOMAIN queue /\ queue'[i] = queue[i + 1] /\ i \in Nat
          /\ k + 1 \in DOMAIN queue /\ queue'[k] = queue[k + 1] /\ k \in Nat
      BY <1>2
    <3>2. i + 1 = k + 1 BY <3>1 DEF UpdateShape, OneTrace
    <3> QED BY <3>1, <3>2
  <2>4. \A i \in DOMAIN queue', k \in DOMAIN boxes' :
          queue'[i].job = boxes'[k].job => queue'[i].event = "finished"
    <3> SUFFICES ASSUME NEW i \in DOMAIN queue', NEW k \in DOMAIN boxes', queue'[i].job = boxes'[k].job
                 PROVE  queue'[i].event = "finished"
      OBVIOUS
    <3>1. CASE k \in DOMAIN boxes /\ boxes'[k] = boxes[k] BY <1>2, <3>1 DEF UpdateShape, OneTrace
    <3>2. CASE ~(k \in DOMAIN boxes /\ boxes'[k] = boxes[k])
      <4>1. queue[1].event # "finished" /\ boxes'[k].job = queue[1].job BY <1>6, <1>7, <3>2
      <4> QED BY <1>4, <4>1
    <3> QED BY <3>1, <3>2
  <2>5. \A i, k \in DOMAIN boxes' : boxes'[i].job = boxes'[k].job => i = k
    <3>1. CASE boxes' = boxes BY <3>1 DEF UpdateShape, OneTrace
    <3>2. CASE /\ queue[1].event # "finished"
               /\ \A i \in DOMAIN boxes : i \in DOMAIN boxes' /\ i # Len(boxes) + 1 /\ boxes'[i] = boxes[i]
               /\ \A i \in DOMAIN boxes' : i \in DOMAIN boxes \/ i = Len(boxes) + 1
               /\ boxes'[Len(boxes) + 1] = [box |-> box, job |-> queue[1].job]
      <4> SUFFICES ASSUME NEW i \in DOMAIN boxes', NEW k \in DOMAIN boxes', boxes'[i].job = boxes'[k].job
                   PROVE  i = k
        OBVIOUS
      <4>1. CASE i \in DOMAIN boxes /\ k \in DOMAIN boxes BY <3>2, <4>1 DEF UpdateShape, OneTrace
      <4>2. CASE i = Len(boxes) + 1 /\ k \in DOMAIN boxes BY <1>4, <3>2, <4>2
      <4>3. CASE k = Len(boxes) + 1 /\ i \in DOMAIN boxes BY <1>4, <3>2, <4>3
      <4> QED BY <3>2, <4>1, <4>2, <4>3
    <3> QED BY <1>6, <3>1, <3>2
  <2> QED BY <2>1, <2>2, <2>3, <2>4, <2>5 DEF OneTrace
<1> QED BY <1>1, <1>2, <1>3, <1>4, <1>7, <1>8, <1>9, <1>10 DEF UpdateShape

\* The box on top is answered, and may give way to a notice for the same job.
LEMMA BoxAnsweredKeepsShape ==
    ASSUME UpdateShape, boxes # <<>>, UNCHANGED <<program, jobs, queue, busy>>, launched' \in Nat,
           boxes' = Front(boxes) \/ boxes' = Append(Front(boxes), [box |-> "notice", job |-> Top.job])
    PROVE  /\ UpdateShape' /\ Top \in Boxes /\ Top.job \in Job /\ Top = boxes[Len(boxes)]
           /\ boxes \in Seq(Boxes) /\ DOMAIN boxes = 1 .. Len(boxes) /\ Len(boxes) \in Nat \ {0}
           /\ \A i \in DOMAIN boxes' :
                \/ i \in DOMAIN boxes /\ i # Len(boxes) /\ boxes'[i] = boxes[i]
                \/ i = Len(boxes) /\ boxes'[i] = [box |-> "notice", job |-> Top.job]
<1>1. boxes \in Seq(Boxes) /\ Job \subseteq Nat BY UpdateTypes DEF UpdateShape
<1> DEFINE rest == Front(boxes)
<1>2. /\ rest \in Seq(Boxes) /\ Len(boxes) \in Nat \ {0} /\ Len(rest) = Len(boxes) - 1
      /\ DOMAIN boxes = 1 .. Len(boxes) /\ DOMAIN rest = 1 .. Len(boxes) - 1
      /\ \A i \in DOMAIN rest : i \in DOMAIN boxes /\ i # Len(boxes) /\ rest[i] = boxes[i]
      /\ Len(boxes) \in DOMAIN boxes /\ Top = boxes[Len(boxes)] /\ Top \in Boxes
  BY <1>1, FrontTold DEF Top
<1>3. Top.job \in Job BY <1>2 DEF UpdateShape, EventsAndBoxesFit
<1>4. boxes' = rest \/ boxes' = Append(rest, [box |-> "notice", job |-> Top.job]) OBVIOUS
<1> HIDE DEF rest
<1>5. /\ boxes' \in Seq(Boxes)
      /\ \A i \in DOMAIN boxes' :
           \/ i \in DOMAIN boxes /\ i # Len(boxes) /\ boxes'[i] = boxes[i]
           \/ i = Len(boxes) /\ boxes'[i] = [box |-> "notice", job |-> Top.job]
  <2>1. CASE boxes' = rest BY <1>2, <2>1
  <2>2. CASE boxes' = Append(rest, [box |-> "notice", job |-> Top.job])
    <3>1. [box |-> "notice", job |-> Top.job] \in Boxes BY <1>1, <1>3 DEF Boxes
    <3>2. /\ boxes' \in Seq(Boxes)
          /\ \A i \in DOMAIN rest : boxes'[i] = rest[i]
          /\ \A i \in DOMAIN boxes' : i \in DOMAIN rest \/ i = Len(rest) + 1
          /\ boxes'[Len(rest) + 1] = [box |-> "notice", job |-> Top.job]
      BY <1>2, <2>2, <3>1, AppendTold
    <3>3. Len(rest) + 1 = Len(boxes) BY <1>2
    <3> QED BY <1>2, <3>2, <3>3
  <2> QED BY <1>4, <2>1, <2>2
<1>6. UpdateTypeOK' BY <1>5 DEF UpdateShape, UpdateTypeOK, Boxes
<1>7. EventsAndBoxesFit'
  <2>1. ASSUME NEW i \in DOMAIN queue'
        PROVE  /\ queue'[i].job \in Job'
               /\ queue'[i].event \in Outcomes[jobs'[queue'[i].job].kind] \cup {"finished"}
    BY DEF UpdateShape, EventsAndBoxesFit, Job
  <2>2. ASSUME NEW i \in DOMAIN boxes'
        PROVE  boxes'[i].job \in Job' /\ boxes'[i].box \in {"notice", Question[jobs'[boxes'[i].job].kind]}
    BY <1>3, <1>5 DEF UpdateShape, EventsAndBoxesFit, Job
  <2> QED BY <2>1, <2>2 DEF EventsAndBoxesFit
<1>8. \A i \in DOMAIN boxes' : \E k \in DOMAIN boxes : boxes'[i].job = boxes[k].job /\ (i = k)
  BY <1>2, <1>5
<1>9. OneTrace'
  <2>1. /\ \A i \in DOMAIN queue' : jobs'[queue'[i].job].state # "running"
        /\ \A i, k \in DOMAIN queue' :
             queue'[i].job = queue'[k].job /\ "finished" \notin {queue'[i].event, queue'[k].event} => i = k
    BY DEF UpdateShape, OneTrace
  <2>2. \A i \in DOMAIN boxes' : jobs'[boxes'[i].job].state # "running" BY <1>8 DEF UpdateShape, OneTrace
  <2>3. \A i \in DOMAIN queue', k \in DOMAIN boxes' :
          queue'[i].job = boxes'[k].job => queue'[i].event = "finished"
    BY <1>8 DEF UpdateShape, OneTrace
  <2>4. \A i, k \in DOMAIN boxes' : boxes'[i].job = boxes'[k].job => i = k BY <1>8 DEF UpdateShape, OneTrace
  <2> QED BY <2>1, <2>2, <2>3, <2>4 DEF OneTrace
<1> QED BY <1>1, <1>2, <1>3, <1>5, <1>6, <1>7, <1>9 DEF UpdateShape

OfKind(kind) == {j \in Job : jobs[j].kind = kind}

LEMMA LiveIsFinite ==
    ASSUME UpdateTypeOK, NEW kind
    PROVE  /\ IsFiniteSet(Live(kind)) /\ Cardinality(Live(kind)) \in Nat
           /\ IsFiniteSet(OfKind(kind)) /\ Cardinality(OfKind(kind)) \in Nat
           /\ Started(kind) = Cardinality(OfKind(kind))
<1>1. IsFiniteSet(Job) BY UpdateTypes, FS_Interval
<1>2. Live(kind) \subseteq Job /\ OfKind(kind) \subseteq Job BY DEF Live, OfKind
<1>3. IsFiniteSet(Live(kind)) /\ IsFiniteSet(OfKind(kind)) BY <1>1, <1>2, FS_Subset
<1> QED BY <1>3, FS_CardinalityType DEF Started, OfKind

\* A yes that is used up, or lost, is one less.
LEMMA LiveShrinks ==
    ASSUME UpdateTypeOK, NEW kind, Live(kind)' \subseteq Live(kind)
    PROVE  /\ Cardinality(Live(kind)') <= Cardinality(Live(kind)) /\ Cardinality(Live(kind)') \in Nat
           /\ \A j \in Live(kind) : j \notin Live(kind)' => Cardinality(Live(kind)') + 1 <= Cardinality(Live(kind))
<1>1. IsFiniteSet(Live(kind)) /\ Cardinality(Live(kind)) \in Nat BY LiveIsFinite
<1>2. IsFiniteSet(Live(kind)') /\ Cardinality(Live(kind)') <= Cardinality(Live(kind)) BY <1>1, FS_Subset
<1>3. Cardinality(Live(kind)') \in Nat BY <1>2, FS_CardinalityType
<1>4. ASSUME NEW j \in Live(kind), j \notin Live(kind)'
      PROVE  Cardinality(Live(kind)') + 1 <= Cardinality(Live(kind))
  <2>1. /\ IsFiniteSet(Live(kind) \ {j}) /\ Cardinality(Live(kind) \ {j}) = Cardinality(Live(kind)) - 1
    BY <1>1, <1>4, FS_RemoveElement
  <2>2. Live(kind)' \in SUBSET (Live(kind) \ {j}) BY <1>4
  <2>3. Cardinality(Live(kind)') <= Cardinality(Live(kind) \ {j}) BY <2>1, <2>2, FS_Subset
  <2> QED BY <1>1, <1>3, <2>1, <2>3
<1> QED BY <1>2, <1>3, <1>4

LEMMA LiveGrowsByOne ==
    ASSUME UpdateTypeOK, NEW kind, NEW n, Live(kind)' \subseteq Live(kind) \cup {n}
    PROVE  Cardinality(Live(kind)') <= Cardinality(Live(kind)) + 1 /\ Cardinality(Live(kind)') \in Nat
<1>1. IsFiniteSet(Live(kind)) /\ Cardinality(Live(kind)) \in Nat BY LiveIsFinite
<1>2. /\ IsFiniteSet(Live(kind) \cup {n}) /\ Cardinality(Live(kind) \cup {n}) \in Nat
      /\ Cardinality(Live(kind) \cup {n}) <= Cardinality(Live(kind)) + 1
  <2>1. /\ IsFiniteSet(Live(kind) \cup {n})
        /\ Cardinality(Live(kind) \cup {n}) \in {Cardinality(Live(kind)), Cardinality(Live(kind)) + 1}
    BY <1>1, FS_AddElement
  <2> QED BY <1>1, <2>1
<1>3. IsFiniteSet(Live(kind)') /\ Cardinality(Live(kind)') <= Cardinality(Live(kind) \cup {n})
  BY <1>2, FS_Subset
<1> QED BY <1>1, <1>2, <1>3, FS_CardinalityType

\* No job begins: what is live does not grow, and a launch uses one up.
LEMMA CountsWithoutStart ==
    ASSUME UpdateTypeOK, Counts, Job' = Job, program' = program, launched' \in Nat,
           \A j \in Job : jobs'[j].kind = jobs[j].kind,
           \A kind \in Kinds : Live(kind)' \subseteq Live(kind),
           \/ launched' = launched
           \/ /\ launched' = launched + 1
              /\ \E j \in Job : LET last == IF program.portable THEN "prepare" ELSE "download" IN
                                j \in Live(last) /\ j \notin Live(last)'
    PROVE  Counts'
<1>1. ASSUME NEW kind \in Kinds
      PROVE  Started(kind)' = Started(kind) /\ Started(kind) \in Nat /\ Cardinality(Live(kind)) \in Nat
  <2>1. OfKind(kind)' = OfKind(kind) BY DEF OfKind
  <2> QED BY <2>1, LiveIsFinite DEF Started, OfKind
<1>2. /\ Started("check")' = Started("check") /\ Started("check") \in Nat
      /\ Started("download")' = Started("download") /\ Started("download") \in Nat
      /\ Started("prepare")' = Started("prepare") /\ Started("prepare") \in Nat
      /\ Cardinality(Live("check")) \in Nat /\ Cardinality(Live("download")) \in Nat
      /\ Cardinality(Live("prepare")) \in Nat
  BY <1>1 DEF Kinds
<1>3. /\ Cardinality(Live("check")') <= Cardinality(Live("check")) /\ Cardinality(Live("check")') \in Nat
      /\ Cardinality(Live("download")') <= Cardinality(Live("download")) /\ Cardinality(Live("download")') \in Nat
      /\ Cardinality(Live("prepare")') <= Cardinality(Live("prepare")) /\ Cardinality(Live("prepare")') \in Nat
  BY LiveShrinks DEF Kinds
<1>4. launched \in Nat BY DEF UpdateTypeOK
<1>5. CASE launched' = launched BY <1>2, <1>3, <1>4, <1>5 DEF Counts
<1>6. CASE launched' = launched + 1 /\ program.portable
  <2>1. PICK j \in Job : j \in Live("prepare") /\ j \notin Live("prepare")' BY <1>4, <1>6
  <2>2. Cardinality(Live("prepare")') + 1 <= Cardinality(Live("prepare")) BY <2>1, LiveShrinks DEF Kinds
  <2> QED BY <1>2, <1>3, <1>4, <1>6, <2>2 DEF Counts
<1>7. CASE launched' = launched + 1 /\ ~program.portable
  <2>1. PICK j \in Job : j \in Live("download") /\ j \notin Live("download")' BY <1>4, <1>7
  <2>2. Cardinality(Live("download")') + 1 <= Cardinality(Live("download")) BY <2>1, LiveShrinks DEF Kinds
  <2> QED BY <1>2, <1>3, <1>4, <1>7, <2>2 DEF Counts
<1> QED BY <1>5, <1>6, <1>7

\* A job begins: a check, or what a yes to the job before it begins.
LEMMA CountsWithStart ==
    ASSUME UpdateTypeOK, Counts, NEW kind \in Kinds, program' = program, launched' = launched,
           Job' = Job \cup {Len(jobs) + 1}, Len(jobs) + 1 \notin Job,
           \A j \in Job : jobs'[j].kind = jobs[j].kind, jobs'[Len(jobs) + 1].kind = kind,
           Live(kind)' \subseteq Live(kind) \cup {Len(jobs) + 1},
           \A other \in Kinds \ {kind} : Live(other)' \subseteq Live(other),
           kind = "download" => \E j \in Live("check") : j \notin Live("check")',
           kind = "prepare" => program.portable /\ \E j \in Live("download") : j \notin Live("download")'
    PROVE  Counts'
<1>1. ASSUME NEW k \in Kinds
      PROVE  /\ Started(k) \in Nat /\ Cardinality(Live(k)) \in Nat
             /\ Started(k)' = IF k = kind THEN Started(k) + 1 ELSE Started(k)
  <2>1. OfKind(k)' = IF k = kind THEN OfKind(k) \cup {Len(jobs) + 1} ELSE OfKind(k) BY DEF OfKind
  <2>2. Len(jobs) + 1 \notin OfKind(k) BY DEF OfKind
  <2>3. IsFiniteSet(OfKind(k)) /\ Started(k) = Cardinality(OfKind(k)) /\ Started(k) \in Nat BY LiveIsFinite
  <2>4. Cardinality(OfKind(k) \cup {Len(jobs) + 1}) = Cardinality(OfKind(k)) + 1
    BY <2>2, <2>3, FS_AddElement
  <2>5. Started(k)' = Cardinality(OfKind(k)') BY DEF Started, OfKind
  <2> QED BY <2>1, <2>3, <2>4, <2>5, LiveIsFinite
<1>2. /\ Started("check") \in Nat /\ Started("download") \in Nat /\ Started("prepare") \in Nat
      /\ Cardinality(Live("check")) \in Nat /\ Cardinality(Live("download")) \in Nat
      /\ Cardinality(Live("prepare")) \in Nat
      /\ Started("check")' = IF "check" = kind THEN Started("check") + 1 ELSE Started("check")
      /\ Started("download")' = IF "download" = kind THEN Started("download") + 1 ELSE Started("download")
      /\ Started("prepare")' = IF "prepare" = kind THEN Started("prepare") + 1 ELSE Started("prepare")
  BY <1>1 DEF Kinds
<1>3. Cardinality(Live(kind)') <= Cardinality(Live(kind)) + 1 /\ Cardinality(Live(kind)') \in Nat
  BY LiveGrowsByOne
<1>4. \A other \in Kinds \ {kind} :
        Cardinality(Live(other)') <= Cardinality(Live(other)) /\ Cardinality(Live(other)') \in Nat
  BY LiveShrinks
<1>5. launched \in Nat BY DEF UpdateTypeOK
<1>6. CASE kind = "check"
  <2>1. /\ Cardinality(Live("download")') <= Cardinality(Live("download")) /\ Cardinality(Live("download")') \in Nat
        /\ Cardinality(Live("prepare")') <= Cardinality(Live("prepare")) /\ Cardinality(Live("prepare")') \in Nat
    BY <1>4, <1>6 DEF Kinds
  <2>2. Started("check")' = Started("check") + 1 /\ Started("download")' = Started("download")
        /\ Started("prepare")' = Started("prepare")
    BY <1>2, <1>6
  <2>3. Cardinality(Live("check")') <= Cardinality(Live("check")) + 1 /\ Cardinality(Live("check")') \in Nat
    BY <1>3, <1>6
  <2>4. Started("download")' + Cardinality(Live("check")') <= Started("check")'
    BY SMTT(60), <1>2, <1>5, <2>1, <2>2, <2>3 DEF Counts
  <2>5. program.portable =>
          /\ Started("prepare")' + Cardinality(Live("download")') <= Started("download")'
          /\ launched + Cardinality(Live("prepare")') <= Started("prepare")'
    BY SMTT(60), <1>2, <1>5, <2>1, <2>2, <2>3 DEF Counts
  <2>6. ~program.portable =>
          /\ Started("prepare")' = 0
          /\ launched + Cardinality(Live("download")') <= Started("download")'
    BY SMTT(60), <1>2, <1>5, <2>1, <2>2, <2>3 DEF Counts
  <2> QED BY <2>4, <2>5, <2>6 DEF Counts
<1>7. CASE kind = "download"
  <2>1. /\ Cardinality(Live("prepare")') <= Cardinality(Live("prepare")) /\ Cardinality(Live("prepare")') \in Nat
        /\ Cardinality(Live("check")') \in Nat
    BY <1>4, <1>7 DEF Kinds
  <2>2. Started("check")' = Started("check") /\ Started("download")' = Started("download") + 1
        /\ Started("prepare")' = Started("prepare")
    BY <1>2, <1>7
  <2>3. Cardinality(Live("download")') <= Cardinality(Live("download")) + 1 /\ Cardinality(Live("download")') \in Nat
    BY <1>3, <1>7
  <2>4. Cardinality(Live("check")') + 1 <= Cardinality(Live("check"))
    <3>1. Live("check")' \subseteq Live("check") BY <1>7 DEF Kinds
    <3>2. PICK j \in Live("check") : j \notin Live("check")' BY <1>7
    <3> QED BY <3>1, <3>2, LiveShrinks
  <2>5. Started("download")' + Cardinality(Live("check")') <= Started("check")'
    BY SMTT(60), <1>2, <1>5, <2>1, <2>2, <2>3, <2>4 DEF Counts
  <2>6. program.portable =>
          /\ Started("prepare")' + Cardinality(Live("download")') <= Started("download")'
          /\ launched + Cardinality(Live("prepare")') <= Started("prepare")'
    <3>1. program.portable =>
            /\ Started("prepare") + Cardinality(Live("download")) <= Started("download")
            /\ launched + Cardinality(Live("prepare")) <= Started("prepare")
      BY DEF Counts
    <3>2. program.portable => Started("prepare")' + Cardinality(Live("download")') <= Started("download")'
      BY SMTT(60), <1>2, <1>5, <2>1, <2>2, <2>3, <2>4, <3>1
    <3>3. program.portable => launched + Cardinality(Live("prepare")') <= Started("prepare")'
      BY SMTT(60), <1>2, <1>5, <2>1, <2>2, <2>3, <2>4, <3>1
    <3> QED BY <3>2, <3>3
  <2>7. ~program.portable =>
          /\ Started("prepare")' = 0
          /\ launched + Cardinality(Live("download")') <= Started("download")'
    BY SMTT(60), <1>2, <1>5, <2>1, <2>2, <2>3, <2>4 DEF Counts
  <2> QED BY <2>5, <2>6, <2>7 DEF Counts
<1>8. CASE kind = "prepare"
  <2>1. /\ Cardinality(Live("check")') <= Cardinality(Live("check")) /\ Cardinality(Live("check")') \in Nat
        /\ Cardinality(Live("download")') \in Nat
    BY <1>4, <1>8 DEF Kinds
  <2>2. Started("check")' = Started("check") /\ Started("download")' = Started("download")
        /\ Started("prepare")' = Started("prepare") + 1
    BY <1>2, <1>8
  <2>3. Cardinality(Live("prepare")') <= Cardinality(Live("prepare")) + 1 /\ Cardinality(Live("prepare")') \in Nat
    BY <1>3, <1>8
  <2>4. Cardinality(Live("download")') + 1 <= Cardinality(Live("download"))
    <3>1. Live("download")' \subseteq Live("download") BY <1>8 DEF Kinds
    <3>2. PICK j \in Live("download") : j \notin Live("download")' BY <1>8
    <3> QED BY <3>1, <3>2, LiveShrinks
  <2>5. Started("download")' + Cardinality(Live("check")') <= Started("check")'
    BY SMTT(60), <1>2, <1>5, <1>8, <2>1, <2>2, <2>3, <2>4 DEF Counts
  <2>6. program.portable =>
          /\ Started("prepare")' + Cardinality(Live("download")') <= Started("download")'
          /\ launched + Cardinality(Live("prepare")') <= Started("prepare")'
    <3>1. program.portable =>
            /\ Started("prepare") + Cardinality(Live("download")) <= Started("download")
            /\ launched + Cardinality(Live("prepare")) <= Started("prepare")
      BY DEF Counts
    <3>2. program.portable => Started("prepare")' + Cardinality(Live("download")') <= Started("download")'
      BY SMTT(60), <1>2, <1>5, <1>8, <2>1, <2>2, <2>3, <2>4, <3>1
    <3>3. program.portable => launched + Cardinality(Live("prepare")') <= Started("prepare")'
      BY SMTT(60), <1>2, <1>5, <1>8, <2>1, <2>2, <2>3, <2>4, <3>1
    <3> QED BY <3>2, <3>3
  <2>7. ~program.portable =>
          /\ Started("prepare")' = 0
          /\ launched + Cardinality(Live("download")') <= Started("download")'
    BY SMTT(60), <1>2, <1>5, <1>8, <2>1, <2>2, <2>3, <2>4 DEF Counts
  <2> QED BY <2>5, <2>6, <2>7 DEF Counts
<1> QED BY <1>6, <1>7, <1>8 DEF Kinds

LEMMA QuestionsTold ==
    /\ Question["check"] = "found" /\ Question["download"] = "confirm" /\ Question["prepare"] = "none"
    /\ GoodEvent["check"] = "offer" /\ GoodEvent["download"] = "verified" /\ GoodEvent["prepare"] = "prepared"
    /\ \A kind \in Kinds : Question[kind] # "notice" /\ GoodEvent[kind] # "finished"
    /\ \A kind \in Kinds : \A event \in Outcomes[kind] :
         /\ event \in Events \ {"finished"}
         /\ event = "offer" => kind = "check"
         /\ event = "tell" => kind = "check"
         /\ event = "verified" => kind = "download"
         /\ event = "prepared" => kind = "prepare"
<1>1. /\ Question["check"] = "found" /\ Question["download"] = "confirm" /\ Question["prepare"] = "none"
      /\ GoodEvent["check"] = "offer" /\ GoodEvent["download"] = "verified" /\ GoodEvent["prepare"] = "prepared"
  BY DEF Question, GoodEvent
<1>2. \A kind \in Kinds : Question[kind] # "notice" /\ GoodEvent[kind] # "finished" BY <1>1 DEF Kinds
<1>3. /\ Outcomes["check"] = {"offer", "tell", "error"} /\ Outcomes["download"] = {"verified", "error"}
      /\ Outcomes["prepare"] = {"prepared", "error"}
  BY DEF Outcomes, CheckForUpdates, DownloadUpdate, PreparePortableUpdate
<1>4. ASSUME NEW kind \in Kinds, NEW event \in Outcomes[kind]
      PROVE  /\ event \in Events \ {"finished"}
             /\ event = "offer" => kind = "check"
             /\ event = "tell" => kind = "check"
             /\ event = "verified" => kind = "download"
             /\ event = "prepared" => kind = "prepare"
  BY <1>3 DEF Kinds, Events
<1> QED BY <1>1, <1>2, <1>4

LEMMA JobBeginsLive ==
    ASSUME UpdateShape, NEW kind \in Kinds, NEW manual \in BOOLEAN, JobBegins(kind, manual),
           boxes' = boxes \/ (boxes # <<>> /\ boxes' = Front(boxes))
    PROVE  /\ Live(kind)' \subseteq Live(kind) \cup {Len(jobs) + 1}
           /\ \A other \in Kinds \ {kind} : Live(other)' \subseteq Live(other)
<1>1. /\ Job' = Job \cup {Len(jobs) + 1} /\ \A j \in Job : jobs'[j] = jobs[j]
      /\ jobs'[Len(jobs) + 1] = [kind |-> kind, manual |-> manual, state |-> "running"]
      /\ \A i \in DOMAIN boxes' : i \in DOMAIN boxes /\ boxes'[i] = boxes[i]
      /\ queue' = queue
  BY JobBeginsKeepsShape DEF JobBegins
<1>2. ASSUME NEW k \in Kinds, NEW j \in Live(k)', j \in Job PROVE j \in Live(k)
  <2>1. /\ jobs[j].kind = k
        /\ \/ jobs[j].state = "running"
           \/ \E i \in DOMAIN queue : queue[i].job = j /\ queue[i].event = GoodEvent[k]
           \/ \E i \in DOMAIN boxes' : boxes'[i].job = j /\ boxes'[i].box = Question[k]
    BY <1>1, <1>2 DEF Live
  <2> QED BY <1>1, <1>2, <2>1 DEF Live
<1>3. ASSUME NEW k \in Kinds, NEW j \in Live(k)', j \notin Job PROVE j = Len(jobs) + 1 /\ k = kind
  <2>1. j \in Job' /\ jobs'[j].kind = k BY DEF Live
  <2> QED BY <1>1, <1>3, <2>1
<1> QED BY <1>2, <1>3

LEMMA SingleBegins ==
    ASSUME UpdateShape, NEW kind \in Kinds, NEW manual \in BOOLEAN, JobBegins(kind, manual),
           boxes' = boxes \/ (boxes # <<>> /\ boxes' = Front(boxes)),
           ~program.checkOnStartup => queue = <<>> /\ boxes' = <<>> /\ \A j \in Job : jobs[j].state = "ended"
    PROVE  Single'
<1>1. /\ Job' = Job \cup {Len(jobs) + 1} /\ \A j \in Job : jobs'[j] = jobs[j]
      /\ jobs'[Len(jobs) + 1] = [kind |-> kind, manual |-> manual, state |-> "running"]
      /\ Len(jobs') = Len(jobs) + 1 /\ program' = program /\ queue' = queue /\ busy' = TRUE
  BY JobBeginsKeepsShape DEF JobBegins
<1> SUFFICES ASSUME ~program.checkOnStartup PROVE LastJobOnly' BY <1>1 DEF Single
<1>2. queue' = <<>> /\ boxes' = <<>> /\ (\A j \in Job' : j # Len(jobs') => jobs'[j].state = "ended") BY <1>1
<1>3. jobs'[Len(jobs')].state = "running" BY <1>1
<1>4. \A j \in Job' : jobs'[j].state # "answered" BY <1>1
<1> QED BY <1>1, <1>2, <1>3, <1>4 DEF LastJobOnly

LEMMA ClickCheckKeeps == UpdateInv /\ UNCHANGED program /\ ClickCheck => UpdateInv'
<1> SUFFICES ASSUME UpdateInv, UNCHANGED program, ClickCheck PROVE UpdateInv' OBVIOUS
<1>1. UpdateShape /\ JobBegins("check", TRUE) /\ boxes' = boxes /\ boxes = <<>> /\ ~busy
  BY DEF UpdateInv, UpdateShape, ClickCheck, StartJob, JobBegins
<1>2. "check" \in Kinds BY DEF Kinds
<1>3. UpdateShape' BY <1>1, <1>2, JobBeginsKeepsShape
<1>4. Counts'
  <2>1. /\ Job' = Job \cup {Len(jobs) + 1} /\ Len(jobs) + 1 \notin Job
        /\ \A j \in Job : jobs'[j].kind = jobs[j].kind
        /\ jobs'[Len(jobs) + 1].kind = "check"
    BY <1>1, <1>2, JobBeginsKeepsShape
  <2>2. /\ Live("check")' \subseteq Live("check") \cup {Len(jobs) + 1}
        /\ \A other \in Kinds \ {"check"} : Live(other)' \subseteq Live(other)
    BY <1>1, <1>2, JobBeginsLive
  <2> QED BY <1>1, <1>2, <2>1, <2>2, CountsWithStart DEF UpdateInv, UpdateShape, JobBegins
<1>5. Single'
  <2>1. ~program.checkOnStartup => queue = <<>> /\ boxes' = <<>> /\ \A j \in Job : jobs[j].state = "ended"
    BY <1>1 DEF UpdateInv, Single, LastJobOnly
  <2> QED BY <1>1, <1>2, <2>1, SingleBegins
<1> QED BY <1>3, <1>4, <1>5 DEF UpdateInv, UpdateShape

LEMMA StartupTimerKeeps == UpdateInv /\ UNCHANGED program /\ StartupTimer => UpdateInv'
<1> SUFFICES ASSUME UpdateInv, UNCHANGED program, StartupTimer PROVE UpdateInv' OBVIOUS
<1>1. CASE UNCHANGED <<jobs, busy>>
  <2>1. UNCHANGED <<program, busy, jobs, queue, boxes, launched>> BY <1>1 DEF StartupTimer
  <2>2. /\ Job' = Job /\ \A kind : Live(kind)' = Live(kind) /\ Started(kind)' = Started(kind)
    BY <2>1 DEF Job, Live, Started
  <2>3. UpdateTypeOK' /\ EventsAndBoxesFit' /\ OneTrace' /\ Single'
    BY <2>1, <2>2 DEF UpdateInv, UpdateTypeOK, EventsAndBoxesFit, OneTrace, Single, LastJobOnly
  <2>4. Counts' BY <2>1, <2>2 DEF UpdateInv, Counts
  <2> QED BY <2>3, <2>4 DEF UpdateInv
<1>2. CASE program.checkOnStartup /\ StartJob("check", FALSE)
  <2>1. UpdateShape /\ JobBegins("check", FALSE) /\ boxes' = boxes
    BY <1>2 DEF UpdateInv, UpdateShape, StartupTimer, StartJob, JobBegins
  <2>2. "check" \in Kinds BY DEF Kinds
  <2>3. UpdateShape' BY <2>1, <2>2, JobBeginsKeepsShape
  <2>4. /\ Job' = Job \cup {Len(jobs) + 1} /\ Len(jobs) + 1 \notin Job
        /\ \A j \in Job : jobs'[j].kind = jobs[j].kind
        /\ jobs'[Len(jobs) + 1].kind = "check"
    BY <2>1, <2>2, JobBeginsKeepsShape
  <2>5. /\ Live("check")' \subseteq Live("check") \cup {Len(jobs) + 1}
        /\ \A other \in Kinds \ {"check"} : Live(other)' \subseteq Live(other)
    BY <2>1, <2>2, JobBeginsLive
  <2>6. Counts' BY <2>1, <2>2, <2>4, <2>5, CountsWithStart DEF UpdateInv, UpdateShape, JobBegins
  <2>7. Single' BY <1>2 DEF Single
  <2> QED BY <2>3, <2>6, <2>7 DEF UpdateInv, UpdateShape
<1> QED BY <1>1, <1>2 DEF StartupTimer

\* The yes that begins the next job is used up with its box.
LEMMA ProceedKeeps == UpdateInv /\ UNCHANGED program /\ Proceed => UpdateInv'
<1> SUFFICES ASSUME UpdateInv, UNCHANGED program, Proceed PROVE UpdateInv' OBVIOUS
<1>1. /\ UpdateShape /\ JobBegins(NextKind[jobs[Top.job].kind], TRUE)
      /\ boxes # <<>> /\ boxes' = Front(boxes)
  BY DEF UpdateInv, UpdateShape, Proceed, Answerable, StartJob, JobBegins
<1>2. boxes \in Seq(Boxes) BY <1>1, UpdateTypes DEF UpdateShape
<1>3. /\ Len(boxes) \in DOMAIN boxes /\ Top = boxes[Len(boxes)] /\ Top \in Boxes
      /\ \A i \in DOMAIN boxes' : i \in DOMAIN boxes /\ i # Len(boxes) /\ boxes'[i] = boxes[i]
      /\ DOMAIN boxes = 1 .. Len(boxes) /\ Len(boxes') = Len(boxes) - 1 /\ Len(boxes) \in Nat
      /\ boxes' \in Seq(Boxes)
  BY <1>1, <1>2, FrontTold DEF Top
<1>4. /\ Top.job \in Job /\ jobs[Top.job].kind \in Kinds
      /\ Top.box \in {"notice", Question[jobs[Top.job].kind]}
  BY <1>1, <1>3, UpdateTypes DEF UpdateShape, EventsAndBoxesFit, Jobs
<1>5. /\ jobs[Top.job].state = "ended" /\ \A i \in DOMAIN queue : queue[i].job # Top.job
  BY DEF Proceed, Answerable
<1>6. PICK before \in Kinds, kind \in Kinds :
        /\ kind # before /\ before = jobs[Top.job].kind /\ kind = NextKind[before] /\ Top.box = Question[before]
        /\ \/ before = "check" /\ kind = "download"
           \/ before = "download" /\ kind = "prepare" /\ program.portable
  <2>1. Top.box = "found" \/ (Top.box = "confirm" /\ program.portable) BY DEF Proceed
  <2>2. Top.box = Question[jobs[Top.job].kind] BY <1>4, <2>1
  <2> QED BY <1>4, <2>1, <2>2 DEF Question, NextKind, Kinds
<1>7. kind \in Kinds /\ before \in Kinds \ {kind} /\ JobBegins(kind, TRUE) BY <1>1, <1>6
<1>8. UpdateShape' BY <1>1, <1>7, JobBeginsKeepsShape
<1>9. /\ Job' = Job \cup {Len(jobs) + 1} /\ Len(jobs) + 1 \notin Job
      /\ \A j \in Job : jobs'[j] = jobs[j]
      /\ jobs'[Len(jobs) + 1].kind = kind
  BY <1>1, <1>7, JobBeginsKeepsShape
<1>10. /\ Live(kind)' \subseteq Live(kind) \cup {Len(jobs) + 1}
       /\ \A other \in Kinds \ {kind} : Live(other)' \subseteq Live(other)
  BY <1>1, <1>7, JobBeginsLive
<1>11. Top.job \in Live(before) BY <1>3, <1>4, <1>6 DEF Live
<1>12. Top.job \notin Live(before)'
  <2>1. jobs'[Top.job].state = "ended" BY <1>4, <1>5, <1>9
  <2>2. \A i \in DOMAIN queue' : queue'[i].job # Top.job BY <1>1, <1>5 DEF JobBegins
  <2>3. \A i \in DOMAIN boxes' : boxes'[i].job # Top.job BY <1>1, <1>3 DEF UpdateShape, OneTrace
  <2> QED BY <2>1, <2>2, <2>3 DEF Live
<1>13. Counts'
  <2>1. \A j \in Job : jobs'[j].kind = jobs[j].kind BY <1>9
  <2>2. program' = program /\ launched' = launched /\ UpdateTypeOK /\ Counts
    BY <1>1 DEF UpdateInv, UpdateShape, JobBegins
  <2>3. kind = "download" => \E j \in Live("check") : j \notin Live("check")' BY <1>6, <1>11, <1>12
  <2>4. kind = "prepare" => program.portable /\ \E j \in Live("download") : j \notin Live("download")'
    BY <1>6, <1>11, <1>12
  <2> QED BY <1>7, <1>9, <1>10, <2>1, <2>2, <2>3, <2>4, CountsWithStart
<1>14. Single'
  <2>1. ASSUME ~program.checkOnStartup
        PROVE  queue = <<>> /\ boxes' = <<>> /\ \A j \in Job : jobs[j].state = "ended"
    <3>1. LastJobOnly BY <2>1 DEF UpdateInv, Single
    <3>2. Top.job = Len(jobs) /\ Len(boxes) = 1 BY <1>3, <3>1 DEF LastJobOnly
    <3>3. boxes' = <<>> BY <1>3, <3>2
    <3>4. DOMAIN queue = {} BY <1>5, <3>1, <3>2 DEF LastJobOnly
    <3>5. queue = <<>> BY <1>1, <3>4, UpdateTypes DEF UpdateShape
    <3>6. \A j \in Job : jobs[j].state = "ended" BY <1>5, <3>1, <3>2 DEF LastJobOnly
    <3> QED BY <3>3, <3>5, <3>6
  <2> QED BY <1>1, <1>7, <2>1, SingleBegins
<1> QED BY <1>8, <1>13, <1>14 DEF UpdateInv, UpdateShape

LEMMA AnswerKeeps == ASSUME UpdateInv, UNCHANGED program, NEW j \in Job, Answer(j) \/ Finish(j) PROVE UpdateInv'
<1>1. PICK state \in {"answered", "ended"}, event \in Events :
        /\ jobs' = [jobs EXCEPT ![j].state = state] /\ Emit(j, event)
        /\ \/ state = "answered" /\ jobs[j].state = "running" /\ event \in Outcomes[jobs[j].kind]
           \/ state = "ended" /\ jobs[j].state = "answered" /\ event = "finished"
  <2>1. CASE Answer(j)
    <3>1. jobs[j].kind \in Kinds BY UpdateTypes DEF UpdateInv, Jobs
    <3>2. Outcomes[jobs[j].kind] \subseteq Events BY <3>1, QuestionsTold
    <3> QED BY <2>1, <3>2 DEF Answer
  <2>2. CASE Finish(j) BY <2>2 DEF Finish, Events
  <2> QED BY <2>1, <2>2
<1>2. UpdateShape /\ UNCHANGED <<program, busy, boxes, launched>>
  BY DEF UpdateInv, UpdateShape, Answer, Finish
<1>3. /\ UpdateShape' /\ Job' = Job /\ Len(jobs') = Len(jobs)
      /\ \A k \in Job : jobs'[k].kind = jobs[k].kind /\ jobs'[k].manual = jobs[k].manual
      /\ \A k \in Job \ {j} : jobs'[k] = jobs[k]
      /\ jobs'[j].state = state
      /\ queue \in Seq(QueueEvents) /\ Len(queue') = Len(queue) + 1 /\ Len(queue) \in Nat
      /\ DOMAIN queue = 1 .. Len(queue) /\ DOMAIN queue' = 1 .. Len(queue) + 1
      /\ \A i \in DOMAIN queue : i \in DOMAIN queue' /\ i # Len(queue) + 1 /\ queue'[i] = queue[i]
      /\ \A i \in DOMAIN queue' : i \in DOMAIN queue \/ i = Len(queue) + 1
      /\ queue'[Len(queue) + 1] = [job |-> j, event |-> event]
  BY <1>1, <1>2, JobEmitsKeepsShape
<1>4. ASSUME NEW kind \in Kinds, NEW k \in Live(kind)' PROVE k \in Live(kind)
  <2>1. k \in Job /\ jobs[k].kind = kind BY <1>3 DEF Live
  <2>2. CASE jobs'[k].state = "running" BY <1>1, <1>3, <2>1, <2>2 DEF Live
  <2>3. ASSUME NEW i \in DOMAIN queue', queue'[i].job = k, queue'[i].event = GoodEvent[kind] PROVE k \in Live(kind)
    <3>1. CASE i \in DOMAIN queue BY <1>3, <2>1, <2>3, <3>1 DEF Live
    <3>2. CASE i = Len(queue) + 1
      <4>1. k = j /\ event # "finished" BY <1>3, <2>3, <3>2, QuestionsTold
      <4>2. jobs[j].state = "running" BY <1>1, <4>1
      <4> QED BY <2>1, <4>1, <4>2 DEF Live
    <3> QED BY <1>3, <3>1, <3>2
  <2>4. CASE \E i \in DOMAIN boxes' : boxes'[i].job = k /\ boxes'[i].box = Question[kind]
    BY <1>2, <2>1, <2>4 DEF Live
  <2> QED BY <2>2, <2>3, <2>4 DEF Live
<1>5. Counts'
  <2>1. launched' \in Nat /\ launched' = launched BY <1>2 DEF UpdateShape, UpdateTypeOK
  <2> QED BY <1>2, <1>3, <1>4, <2>1, CountsWithoutStart DEF UpdateInv
<1>6. ASSUME ~program.checkOnStartup PROVE LastJobOnly'
  <2>1. LastJobOnly BY <1>6 DEF UpdateInv, Single
  <2>2. jobs[j].state # "ended" BY <1>1
  <2>3. j = Len(jobs) BY <2>1, <2>2 DEF LastJobOnly
  <2>4. \A i \in DOMAIN queue : queue[i].event # "finished" BY <2>1, <2>2, <2>3 DEF LastJobOnly
  <2>5. busy BY <2>1, <2>2 DEF LastJobOnly
  <2>6. /\ Len(jobs') = Len(jobs) /\ busy' = busy /\ boxes' = boxes
        /\ \A k \in Job' : k # Len(jobs') => jobs'[k].state = "ended"
        /\ jobs'[Len(jobs')].state = state
    BY <1>2, <1>3, <2>1, <2>3 DEF LastJobOnly
  <2>7. \A i \in DOMAIN queue' : queue'[i].job = Len(jobs') BY <1>3, <2>1, <2>3 DEF LastJobOnly
  <2>8. \A i \in DOMAIN boxes' : i = 1 /\ boxes'[i].job = Len(jobs') BY <2>1, <2>6 DEF LastJobOnly
  <2>9. state = "answered" => queue = <<>> /\ boxes = <<>> BY <1>1, <2>1 DEF LastJobOnly
  <2>10. \A i \in DOMAIN queue' :
           /\ queue'[i].event = "finished" => i = Len(queue') /\ jobs'[Len(jobs')].state = "ended"
           /\ queue'[i].event # "finished" => boxes' = <<>>
    <3> SUFFICES ASSUME NEW i \in DOMAIN queue'
                 PROVE  /\ queue'[i].event = "finished" => i = Len(queue') /\ state = "ended"
                        /\ queue'[i].event # "finished" => boxes = <<>>
      BY <2>6
    <3>1. CASE i \in DOMAIN queue BY <1>3, <2>1, <2>4, <3>1 DEF LastJobOnly
    <3>2. CASE i = Len(queue) + 1
      <4>1. event = "finished" => state = "ended" BY <1>1, UpdateTypes, QuestionsTold DEF UpdateInv, Jobs
      <4>2. event # "finished" => state = "answered" BY <1>1
      <4> QED BY <1>3, <2>9, <3>2, <4>1, <4>2
    <3> QED BY <1>3, <3>1, <3>2
  <2>11. \A k \in Job' : jobs'[k].state # "running" BY <2>6
  <2>12. \A k \in Job' : jobs'[k].state = "answered" => Len(queue') <= 1
    <3>1. state = "answered" => Len(queue) = 0 BY <2>9
    <3> QED BY <1>3, <2>6, <3>1
  <2>13. jobs'[Len(jobs')].state = "ended" => queue'[Len(queue')].event = "finished"
    BY <1>1, <1>3, <2>6
  <2> QED BY <2>5, <2>6, <2>7, <2>8, <2>10, <2>11, <2>12, <2>13 DEF LastJobOnly
<1> QED BY <1>3, <1>5, <1>6, <1>2 DEF UpdateInv, UpdateShape, Single

\* Handling an event keeps the counts, and what is of the last job.
LEMMA EventTakenKeeps ==
    ASSUME UpdateInv, queue # <<>>, queue' = Tail(queue), UNCHANGED <<program, jobs>>,
           launched' \in Nat,
           NEW box \in {"notice", Question[jobs[Head(queue).job].kind]}, box # "none",
           box # "notice" => Head(queue).event = GoodEvent[jobs[Head(queue).job].kind],
           \/ boxes' = boxes
           \/ Head(queue).event # "finished" /\ boxes' = Append(boxes, [box |-> box, job |-> Head(queue).job]),
           busy' = (Head(queue).event # "finished" /\ busy),
           \/ launched' = launched
           \/ launched' = launched + 1 /\ Head(queue).event = "prepared" /\ boxes' = boxes
    PROVE  UpdateInv'
<1>1. UpdateShape /\ busy' \in BOOLEAN BY DEF UpdateInv, UpdateShape
<1>2. /\ UpdateShape' /\ queue[1] \in QueueEvents /\ Head(queue) = queue[1] /\ queue[1].job \in Job
      /\ queue \in Seq(QueueEvents) /\ Len(queue) \in Nat \ {0} /\ Len(queue') = Len(queue) - 1
      /\ DOMAIN queue = 1 .. Len(queue) /\ DOMAIN queue' = 1 .. Len(queue) - 1 /\ 1 \in DOMAIN queue
      /\ \A i \in DOMAIN queue' : i \in Nat \ {0} /\ i + 1 \in DOMAIN queue /\ queue'[i] = queue[i + 1]
      /\ queue[1].event # "finished" =>
           \A i \in DOMAIN queue' : queue'[i].job = queue[1].job => queue'[i].event = "finished"
      /\ \A i \in DOMAIN boxes' :
           (i \in DOMAIN boxes /\ boxes'[i] = boxes[i]) \/ boxes'[i] = [box |-> box, job |-> queue[1].job]
  BY <1>1, EventTakenKeepsShape
<1>3. Job' = Job BY DEF Job
<1>4. ASSUME NEW kind \in Kinds, NEW k \in Live(kind)' PROVE k \in Live(kind)
  <2>1. k \in Job /\ jobs[k].kind = kind BY <1>3 DEF Live
  <2>2. CASE jobs'[k].state = "running" BY <2>1, <2>2 DEF Live
  <2>3. ASSUME NEW i \in DOMAIN queue', queue'[i].job = k, queue'[i].event = GoodEvent[kind] PROVE k \in Live(kind)
    BY <1>2, <2>1, <2>3 DEF Live
  <2>4. ASSUME NEW i \in DOMAIN boxes', boxes'[i].job = k, boxes'[i].box = Question[kind] PROVE k \in Live(kind)
    <3>1. CASE i \in DOMAIN boxes /\ boxes'[i] = boxes[i] BY <2>1, <2>4, <3>1 DEF Live
    <3>2. CASE boxes'[i] = [box |-> box, job |-> queue[1].job]
      <4>1. k = queue[1].job /\ box = Question[kind] BY <2>4, <3>2
      <4>2. box # "notice" BY <4>1, QuestionsTold
      <4>3. queue[1].event = GoodEvent[kind] BY <1>2, <2>1, <4>1, <4>2
      <4> QED BY <1>2, <2>1, <4>1, <4>3 DEF Live
    <3> QED BY <1>2, <3>1, <3>2
  <2> QED BY <2>2, <2>3, <2>4 DEF Live
<1>5. Counts'
  <2>1. CASE launched' = launched
    BY <1>1, <1>3, <1>4, <2>1, CountsWithoutStart DEF UpdateInv
  <2>2. CASE launched' = launched + 1 /\ queue[1].event = "prepared" /\ boxes' = boxes
    <3>1. jobs[queue[1].job].kind = "prepare"
      <4>1. jobs[queue[1].job].kind \in Kinds BY <1>1, <1>2, UpdateTypes DEF UpdateShape, Jobs
      <4>2. queue[1].event \in Outcomes[jobs[queue[1].job].kind]
        BY <1>2, <2>2 DEF UpdateInv, EventsAndBoxesFit
      <4> QED BY <2>2, <4>1, <4>2, QuestionsTold
    <3>2. queue[1].job \in Live("prepare") BY <1>2, <2>2, <3>1, QuestionsTold DEF Live
    <3>3. queue[1].job \notin Live("prepare")'
      <4>1. jobs'[queue[1].job].state # "running" BY <1>2 DEF UpdateInv, OneTrace
      <4>2. \A i \in DOMAIN queue' : queue'[i].job = queue[1].job => queue'[i].event # "prepared" BY <1>2, <2>2
      <4>3. \A i \in DOMAIN boxes' : boxes'[i].job # queue[1].job
        BY <1>2, <2>2 DEF UpdateInv, OneTrace
      <4> QED BY <4>1, <4>2, <4>3, QuestionsTold DEF Live
    <3>4. program.portable
      <4>1. queue[1].job \in OfKind("prepare") BY <1>2, <3>1 DEF OfKind
      <4>2. Started("prepare") # 0 BY <1>1, <4>1, LiveIsFinite, FS_EmptySet DEF UpdateShape
      <4> QED BY <4>2 DEF UpdateInv, Counts
    <3>5. \E j \in Job : LET last == IF program.portable THEN "prepare" ELSE "download" IN
                         j \in Live(last) /\ j \notin Live(last)'
      <4>1. "prepare" = IF program.portable THEN "prepare" ELSE "download" BY <3>4
      <4> QED BY <1>2, <3>2, <3>3, <3>4
    <3> QED BY <1>1, <1>3, <1>4, <2>2, <3>5, CountsWithoutStart DEF UpdateInv
  <2> QED BY <1>2, <2>1, <2>2
<1>6. ASSUME ~program.checkOnStartup PROVE LastJobOnly'
  <2>1. LastJobOnly BY <1>6 DEF UpdateInv, Single
  <2>2. queue[1].job = Len(jobs) BY <1>2, <2>1 DEF LastJobOnly
  <2>3. busy /\ \A j \in Job : jobs[j].state # "running" BY <2>1 DEF LastJobOnly
  <2>4. CASE queue[1].event = "finished"
    <3>1. Len(queue) = 1 /\ jobs[Len(jobs)].state = "ended" BY <1>2, <2>1, <2>4 DEF LastJobOnly
    <3>2. queue' = <<>> BY <1>2, <3>1
    <3>3. boxes' = boxes BY <1>2, <2>4
    <3>4. \A j \in Job : jobs[j].state = "ended" BY <2>1, <3>1 DEF LastJobOnly
    <3> QED BY <1>3, <2>1, <3>1, <3>2, <3>3, <3>4 DEF LastJobOnly
  <2>5. CASE queue[1].event # "finished"
    <3>1. boxes = <<>> BY <1>2, <2>1, <2>5 DEF LastJobOnly
    <3>2. \A i \in DOMAIN queue' :
            /\ queue'[i].job = Len(jobs) /\ queue'[i].event = "finished" /\ i = Len(queue')
            /\ jobs[Len(jobs)].state = "ended"
      <4> SUFFICES ASSUME NEW i \in DOMAIN queue'
                   PROVE  /\ queue'[i].job = Len(jobs) /\ queue'[i].event = "finished" /\ i = Len(queue')
                          /\ jobs[Len(jobs)].state = "ended"
        OBVIOUS
      <4>1. i + 1 \in DOMAIN queue /\ queue'[i] = queue[i + 1] /\ i \in Nat BY <1>2
      <4>2. queue'[i].job = Len(jobs) /\ queue'[i].event = "finished" BY <1>2, <2>1, <2>2, <2>5, <4>1 DEF LastJobOnly
      <4>3. i + 1 = Len(queue) /\ jobs[Len(jobs)].state = "ended" BY <2>1, <4>1, <4>2 DEF LastJobOnly
      <4> QED BY <1>2, <4>1, <4>2, <4>3
    <3>3. \A i \in DOMAIN boxes' : i = 1 /\ boxes'[i].job = Len(jobs)
      <4>1. CASE boxes' = boxes BY <2>1, <4>1 DEF LastJobOnly
      <4>2. CASE boxes' = Append(boxes, [box |-> box, job |-> Head(queue).job])
        <5>1. boxes' = <<[box |-> box, job |-> queue[1].job]>> BY <1>2, <3>1, <4>2
        <5> QED BY <2>2, <5>1
      <4> QED BY <4>1, <4>2
    <3>4. busy' BY <1>2, <2>3, <2>5
    <3>5. \A j \in Job : jobs[j].state = "answered" => Len(queue') <= 1 BY <1>2, <2>1 DEF LastJobOnly
    <3>6. queue' # <<>> => queue'[Len(queue')].event = "finished"
      <4>1. queue' # <<>> => Len(queue') \in DOMAIN queue' BY <1>2
      <4> QED BY <3>2, <4>1
    <3>7. \A j \in Job : j # Len(jobs) => jobs[j].state = "ended" BY <2>1 DEF LastJobOnly
    <3> QED BY <1>3, <2>3, <3>2, <3>3, <3>4, <3>5, <3>6, <3>7 DEF LastJobOnly
  <2> QED BY <2>4, <2>5
<1> QED BY <1>2, <1>5, <1>6 DEF UpdateInv, UpdateShape, Single

LEMMA HandlersKeep == UpdateInv /\ UNCHANGED program /\ EventSteps => UpdateInv'
<1> SUFFICES ASSUME UpdateInv, UNCHANGED program, EventSteps PROVE UpdateInv' OBVIOUS
<1> DEFINE e == Head(queue)
           kind == jobs[e.job].kind
<1>1. queue # <<>> /\ queue' = Tail(queue) /\ UNCHANGED <<program, jobs>>
  BY DEF EventSteps, HandleFinished, HandleError, HandleCheckResult, HandleDownloaded, HandlePrepared, Handle
<1>2. e = queue[1] /\ 1 \in DOMAIN queue /\ launched \in Nat /\ busy \in BOOLEAN
  BY <1>1, TailTold, UpdateTypes DEF UpdateInv, UpdateTypeOK
<1>3. e.job \in Job /\ kind \in Kinds /\ e.event \in Outcomes[kind] \cup {"finished"}
  BY <1>2, UpdateTypes DEF UpdateInv, EventsAndBoxesFit, Jobs
<1>4. "notice" \in {"notice", Question[kind]} OBVIOUS
<1> HIDE DEF e, kind
<1>5. CASE HandleFinished
  <2>1. e.event = "finished" /\ busy' = FALSE /\ boxes' = boxes /\ launched' = launched
    BY <1>5 DEF HandleFinished, Handle, e
  <2>2. busy' = (e.event # "finished" /\ busy) BY <2>1
  <2> QED BY <1>1, <1>2, <1>4, <2>1, <2>2, EventTakenKeeps DEF e, kind
<1>6. ASSUME e.event # "finished", UNCHANGED <<busy, launched>>,
             boxes' = boxes \/ boxes' = Append(boxes, [box |-> "notice", job |-> e.job])
      PROVE  UpdateInv'
  <2>1. busy' = (e.event # "finished" /\ busy) /\ launched' \in Nat BY <1>2, <1>6
  <2> QED BY <1>1, <1>4, <1>6, <2>1, EventTakenKeeps DEF e, kind
<1>7. ASSUME e.event = GoodEvent[kind], UNCHANGED <<busy, launched>>, kind # "prepare",
             boxes' = Append(boxes, [box |-> Question[kind], job |-> e.job])
      PROVE  UpdateInv'
  <2>1. e.event # "finished" /\ Question[kind] # "none" BY <1>3, <1>7, QuestionsTold DEF Kinds
  <2>2. busy' = (e.event # "finished" /\ busy) /\ launched' \in Nat BY <1>2, <1>7, <2>1
  <2> QED BY <1>1, <1>7, <2>1, <2>2, EventTakenKeeps DEF e, kind
<1>8. CASE HandleError
  <2>1. e.event = "error" /\ UNCHANGED <<busy, launched>> BY <1>8 DEF HandleError, Handle, e
  <2>2. boxes' = boxes \/ boxes' = Append(boxes, [box |-> "notice", job |-> e.job])
    BY <1>8 DEF HandleError, Open, e
  <2> QED BY <1>6, <2>1, <2>2
<1>9. CASE HandleCheckResult
  <2>1. UNCHANGED <<busy, launched>> BY <1>9 DEF HandleCheckResult
  <2>2. CASE Handle("offer") /\ Open("found", Head(queue).job)
    <3>1. e.event = "offer" /\ boxes' = Append(boxes, [box |-> "found", job |-> e.job])
      BY <2>2 DEF Handle, Open, e
    <3>2. kind = "check" BY <1>3, <3>1, QuestionsTold
    <3> QED BY <1>7, <2>1, <3>1, <3>2, QuestionsTold
  <2>3. CASE Handle("tell") /\ IF jobs[Head(queue).job].manual
                                 THEN Open("notice", Head(queue).job) ELSE UNCHANGED boxes
    <3>1. e.event = "tell" BY <2>3 DEF Handle, e
    <3>2. boxes' = boxes \/ boxes' = Append(boxes, [box |-> "notice", job |-> e.job]) BY <2>3 DEF Open, e
    <3> QED BY <1>6, <2>1, <3>1, <3>2
  <2> QED BY <1>9, <2>2, <2>3 DEF HandleCheckResult
<1>10. CASE HandleDownloaded
  <2>1. /\ e.event = "verified" /\ UNCHANGED <<busy, launched>>
        /\ boxes' = Append(boxes, [box |-> "confirm", job |-> e.job])
    BY <1>10 DEF HandleDownloaded, Handle, Open, e
  <2>2. kind = "download" BY <1>3, <2>1, QuestionsTold
  <2> QED BY <1>7, <2>1, <2>2, QuestionsTold
<1>11. CASE HandlePrepared
  <2>1. e.event = "prepared" /\ busy' = busy BY <1>11 DEF HandlePrepared, Handle, e
  <2>2. \/ launched' = launched + 1 /\ boxes' = boxes
        \/ launched' = launched /\ boxes' = Append(boxes, [box |-> "notice", job |-> e.job])
    BY <1>11 DEF HandlePrepared, Launch, e
  <2>3. CASE launched' = launched + 1 /\ boxes' = boxes
    <3>1. busy' = (e.event # "finished" /\ busy) /\ launched' \in Nat BY <1>2, <2>1, <2>3
    <3> QED BY <1>1, <1>4, <2>1, <2>3, <3>1, EventTakenKeeps DEF e, kind
  <2>4. CASE launched' = launched /\ boxes' = Append(boxes, [box |-> "notice", job |-> e.job])
    BY <1>6, <2>1, <2>4
  <2> QED BY <2>2, <2>3, <2>4
<1> QED BY <1>5, <1>8, <1>9, <1>10, <1>11 DEF EventSteps

\* The box on top is gone, and no job is started by it: what is live shrinks by
\* the box's job, if its question was still open.
LEMMA BoxAnsweredKeeps ==
    ASSUME UpdateInv, UNCHANGED program, Dismiss \/ RunInstaller
    PROVE  UpdateInv'
<1>1. /\ UpdateShape /\ boxes # <<>> /\ UNCHANGED <<program, jobs, queue, busy>> /\ launched \in Nat
      /\ jobs[Top.job].state = "ended" /\ \A i \in DOMAIN queue : queue[i].job # Top.job
  BY DEF UpdateInv, UpdateShape, UpdateTypeOK, Dismiss, RunInstaller, Answerable
<1>2. \/ launched' = launched /\ (boxes' = Front(boxes) \/ boxes' = Append(Front(boxes), [box |-> "notice", job |-> Top.job]))
      \/ /\ launched' = launched + 1 /\ boxes' = Front(boxes)
         /\ Top.box = "confirm" /\ ~program.portable
  BY DEF Dismiss, RunInstaller, Launch
<1>3. /\ UpdateShape' /\ Top \in Boxes /\ Top.job \in Job /\ Top = boxes[Len(boxes)]
      /\ boxes \in Seq(Boxes) /\ DOMAIN boxes = 1 .. Len(boxes) /\ Len(boxes) \in Nat \ {0}
      /\ \A i \in DOMAIN boxes' :
           \/ i \in DOMAIN boxes /\ i # Len(boxes) /\ boxes'[i] = boxes[i]
           \/ i = Len(boxes) /\ boxes'[i] = [box |-> "notice", job |-> Top.job]
  <2>1. launched' \in Nat BY <1>1, <1>2
  <2>2. boxes' = Front(boxes) \/ boxes' = Append(Front(boxes), [box |-> "notice", job |-> Top.job]) BY <1>2
  <2> QED BY <1>1, <2>1, <2>2, BoxAnsweredKeepsShape
<1>4. Job' = Job BY <1>1 DEF Job
<1>5. ASSUME NEW kind \in Kinds, NEW k \in Live(kind)' PROVE k \in Live(kind)
  <2>1. k \in Job /\ jobs[k].kind = kind BY <1>1, <1>4 DEF Live
  <2>2. ASSUME NEW i \in DOMAIN boxes', boxes'[i].job = k, boxes'[i].box = Question[kind] PROVE k \in Live(kind)
    <3>1. boxes'[i].box # "notice" BY <2>2, QuestionsTold
    <3>2. i \in DOMAIN boxes /\ boxes'[i] = boxes[i] BY <1>3, <3>1
    <3> QED BY <2>1, <2>2, <3>2 DEF Live
  <2>3. CASE ~\E i \in DOMAIN boxes' : boxes'[i].job = k /\ boxes'[i].box = Question[kind]
    BY <1>1, <2>1, <2>3 DEF Live
  <2> QED BY <2>2, <2>3
<1>6. Counts'
  <2>1. CASE launched' = launched BY <1>1, <1>4, <1>5, <2>1, CountsWithoutStart DEF UpdateInv, UpdateShape
  <2>2. CASE launched' = launched + 1 /\ boxes' = Front(boxes) /\ Top.box = "confirm" /\ ~program.portable
    <3>1. Len(boxes) \in DOMAIN boxes BY <1>3
    <3>2. jobs[Top.job].kind = "download"
      <4>1. Top.box \in {"notice", Question[jobs[Top.job].kind]}
        BY <1>3, <3>1 DEF UpdateInv, EventsAndBoxesFit
      <4>2. jobs[Top.job].kind \in Kinds BY <1>1, <1>3, UpdateTypes DEF UpdateShape, Jobs
      <4>3. Question[jobs[Top.job].kind] = "confirm" BY <2>2, <4>1
      <4> QED BY <4>2, <4>3, QuestionsTold DEF Kinds
    <3>3. Top.job \in Live("download") BY <1>3, <2>2, <3>1, <3>2, QuestionsTold DEF Live
    <3>4. Top.job \notin Live("download")'
      <4>1. \A i \in DOMAIN boxes' : i \in DOMAIN boxes /\ i # Len(boxes) /\ boxes'[i] = boxes[i]
        <5>1. DOMAIN Front(boxes) = 1 .. Len(boxes) - 1 BY <1>1, <1>3, FrontTold
        <5> QED BY <1>3, <2>2, <5>1
      <4>2. \A i \in DOMAIN boxes' : boxes'[i].job # Top.job
        BY <1>3, <3>1, <4>1 DEF UpdateInv, OneTrace
      <4> QED BY <1>1, <4>2 DEF Live
    <3>5. \E j \in Job : LET last == IF program.portable THEN "prepare" ELSE "download" IN
                         j \in Live(last) /\ j \notin Live(last)'
      <4>1. "download" = IF program.portable THEN "prepare" ELSE "download" BY <2>2
      <4> QED BY <1>3, <2>2, <3>3, <3>4
    <3> QED BY <1>1, <1>4, <1>5, <2>2, <3>5, CountsWithoutStart DEF UpdateInv, UpdateShape
  <2> QED BY <1>2, <2>1, <2>2
<1>7. ASSUME ~program.checkOnStartup PROVE LastJobOnly'
  <2>1. LastJobOnly BY <1>7 DEF UpdateInv, Single
  <2>2. Len(boxes) = 1 /\ Top.job = Len(jobs) BY <1>3, <2>1 DEF LastJobOnly
  <2>3. DOMAIN queue = {} BY <1>1, <2>1, <2>2 DEF LastJobOnly
  <2>4. \A i \in DOMAIN boxes' : i = 1 /\ boxes'[i].job = Len(jobs) BY <1>3, <2>1, <2>2 DEF LastJobOnly
  <2>5. \A j \in Job : jobs[j].state = "ended" BY <1>1, <2>1, <2>2 DEF LastJobOnly
  <2> QED BY <1>1, <1>4, <2>1, <2>3, <2>4, <2>5 DEF LastJobOnly
<1> QED BY <1>1, <1>3, <1>6, <1>7 DEF UpdateInv, UpdateShape, Single

LEMMA UpdateStays == UpdateInv /\ [UpdateNext]_updateVars => UpdateInv'
<1> SUFFICES ASSUME UpdateInv, [UpdateNext]_updateVars PROVE UpdateInv' OBVIOUS
<1>1. CASE UNCHANGED <<program, busy, jobs, queue, boxes, launched>>
  <2>1. Job' = Job /\ \A kind : Live(kind)' = Live(kind) /\ Started(kind)' = Started(kind)
    BY <1>1 DEF Job, Live, Started
  <2>2. UpdateTypeOK' /\ EventsAndBoxesFit' /\ OneTrace' /\ Single'
    BY <1>1, <2>1 DEF UpdateInv, UpdateTypeOK, EventsAndBoxesFit, OneTrace, Single, LastJobOnly
  <2>3. Counts' BY <1>1, <2>1 DEF UpdateInv, Counts
  <2> QED BY <2>2, <2>3 DEF UpdateInv
<1>2. CASE JobSteps /\ UNCHANGED program BY <1>2, AnswerKeeps DEF JobSteps
<1>3. CASE UserSteps /\ UNCHANGED program
  <2>1. CASE CloseWindow BY <1>1, <1>3, <2>1 DEF CloseWindow
  <2> QED BY <1>3, <2>1, ClickCheckKeeps, BoxAnsweredKeeps, ProceedKeeps DEF UserSteps
<1>4. CASE UNCHANGED updateVars BY <1>1, <1>4 DEF updateVars
<1> QED BY <1>2, <1>3, <1>4, HandlersKeep, StartupTimerKeeps DEF UpdateNext

LEMMA UpdateIsSafe == UpdateInv => OneUpdateAtATime
<1> SUFFICES ASSUME UpdateInv PROVE OneUpdateAtATime OBVIOUS
<1>1. ASSUME ~program.checkOnStartup PROVE Cardinality(Working) <= 1 /\ (Working # {} => busy)
  <2>1. LastJobOnly BY <1>1 DEF UpdateInv, Single
  <2>2. Working \subseteq {Len(jobs)} BY <2>1 DEF Working, LastJobOnly
  <2>3. Cardinality({Len(jobs)}) = 1 /\ IsFiniteSet({Len(jobs)}) BY FS_Singleton
  <2>4. Cardinality(Working) <= 1 BY <2>2, <2>3, FS_Subset
  <2>5. Working # {} => busy BY <2>1 DEF Working, LastJobOnly
  <2> QED BY <2>4, <2>5
<1>2. /\ Started("check") \in Nat /\ Started("download") \in Nat /\ Started("prepare") \in Nat
      /\ Cardinality(Live("check")) \in Nat /\ Cardinality(Live("download")) \in Nat
      /\ Cardinality(Live("prepare")) \in Nat /\ launched \in Nat
  BY LiveIsFinite DEF UpdateInv, UpdateTypeOK
<1>3. ChainsDoNotFork
  <2>1. CASE program.portable BY <1>2, <2>1 DEF UpdateInv, Counts, ChainsDoNotFork
  <2>2. CASE ~program.portable BY <1>2, <2>2 DEF UpdateInv, Counts, ChainsDoNotFork
  <2> QED BY <2>1, <2>2
<1> QED BY <1>1, <1>3 DEF OneUpdateAtATime, OneJobAtATime

\* However the boxes of the update are stacked and answered: one job at a time
\* unless the program checks at start-up, a download for each check at most, and
\* for each download at most one process that replaces the program.
THEOREM OneUpdateAlways == UpdateSpec => []OneUpdateAtATime
<1> QED BY UpdateStart, UpdateStays, UpdateIsSafe, PTL DEF UpdateSpec

----------------------------------------------------------------------------
(* The pages of the window.  The invariant is the state of all widgets at   *)
(* once: marks and combo follow the page, the docks are the tabs that are   *)
(* enlarged, and what has been shown since the start-up is loaded.  Each    *)
(* way to change the window is shown to keep it as a function of the        *)
(* window's state, before the clicks are told apart.                        *)

Loadable == LoadsAtFirst \cup {"tools", "iperf"}

WinStates ==
    [page : Pages, nav : Pages, tool : Tools, combo : Tools \cup {"none"}, loaded : SUBSET Loadable,
     activated : BOOLEAN, shown : BOOLEAN, views : Seq(ResultKeys), tab : Nat, docks : SUBSET ResultKeys,
     checked : SUBSET ResultKeys, large : BOOLEAN, guide : Pages \cup Tools \cup {NoGuide}]

Agree(w) ==
    /\ w.nav = w.page
    /\ w.combo = IF w.tool \in Selectable THEN w.tool ELSE "none"
    /\ w.checked = w.docks
    /\ w.guide \in {NoGuide, GuideOf(w)}

InReach(w) ==
    /\ ToSet(w.views) = w.docks /\ IsInjective(w.views)
    /\ w.large <=> w.docks # {}
    /\ IF w.views = <<>> THEN w.tab = 0 ELSE w.tab \in DOMAIN w.views

\* Nothing is loaded before the start-up has called for it; what is shown after it is loaded.
IsReady(w) ==
    /\ ~w.activated => w.loaded = {} /\ ~w.shown
    /\ w.shown => OnScreen(w) \cap Loadable \subseteq w.loaded

WinOK(w) == w \in WinStates /\ Agree(w) /\ InReach(w) /\ IsReady(w)

PagesInv == WinOK(win) /\ win.loaded \subseteq seen /\ winSaved \in [page : Pages, tool : Tools]

\* the fields a load leaves alone
SameButLoaded(v, w) ==
    /\ v.page = w.page /\ v.nav = w.nav /\ v.tool = w.tool /\ v.combo = w.combo
    /\ v.activated = w.activated /\ v.shown = w.shown /\ v.views = w.views /\ v.tab = w.tab
    /\ v.docks = w.docks /\ v.checked = w.checked /\ v.large = w.large /\ v.guide = w.guide

LEMMA GroupsKnown ==
    /\ \A tool : GroupOf(tool) \subseteq {"tools", "iperf"}
    /\ GroupOf("ping") = {} /\ GroupOf("transfer") = {}
<1>1. ASSUME NEW tool PROVE GroupOf(tool) \subseteq {"tools", "iperf"} BY DEF GroupOf
<1>2. GroupOf("ping") = {} /\ GroupOf("transfer") = {} BY DEF GroupOf
<1> QED BY <1>1, <1>2

LEMMA LoadedFits ==
    ASSUME NEW w \in WinStates, NEW l \in SUBSET Loadable
    PROVE  LET v == [w EXCEPT !.loaded = l] IN v \in WinStates /\ SameButLoaded(v, w) /\ v.loaded = l
BY DEF WinStates, SameButLoaded

LEMMA LoadToolTold ==
    ASSUME NEW w \in WinStates
    PROVE  /\ LoadTool(w) \in WinStates /\ SameButLoaded(LoadTool(w), w)
           /\ LoadTool(w).loaded = IF "diagnostics" \in w.loaded THEN w.loaded \cup GroupOf(w.tool) ELSE w.loaded
<1>1. w.loaded \cup GroupOf(w.tool) \in SUBSET Loadable BY GroupsKnown DEF WinStates, Loadable
<1>2. CASE "diagnostics" \in w.loaded
  <2>1. LoadTool(w) = [w EXCEPT !.loaded = w.loaded \cup GroupOf(w.tool)] BY <1>2 DEF LoadTool
  <2> QED BY <1>1, <1>2, <2>1, LoadedFits
<1>3. CASE "diagnostics" \notin w.loaded BY <1>3 DEF LoadTool, SameButLoaded
<1> QED BY <1>2, <1>3

LEMMA LoadPageTold ==
    ASSUME NEW w \in WinStates, w.activated => w.page \in Pages
    PROVE  LET v == LoadPage(w) IN
           /\ v \in WinStates /\ SameButLoaded(v, w)
           /\ w.loaded \subseteq v.loaded /\ v.loaded \subseteq w.loaded \cup OnScreen(w)
           /\ ~w.activated => v.loaded = w.loaded
           /\ w.activated => OnScreen(w) \cap Loadable \subseteq v.loaded
<1> DEFINE v == LoadPage(w)
<1>1. CASE ~w.activated \/ w.page \notin LoadsAtFirst
  <2>1. v = w BY <1>1 DEF LoadPage
  <2>2. SameButLoaded(w, w) BY DEF SameButLoaded
  <2>3. w.activated => OnScreen(w) \cap Loadable = {}
    <3> SUFFICES ASSUME w.activated PROVE OnScreen(w) \cap Loadable = {} OBVIOUS
    <3>1. OnScreen(w) = {w.page} BY <1>1 DEF OnScreen, LoadsAtFirst
    <3>2. w.page \notin {"tools", "iperf"} BY PagesAssumption DEF WinStates
    <3> QED BY <1>1, <3>1, <3>2 DEF Loadable
  <2> QED BY <2>1, <2>2, <2>3
<1>2. CASE w.activated /\ w.page \in LoadsAtFirst
  <2> DEFINE l == [w EXCEPT !.loaded = w.loaded \cup {w.page}]
  <2>1. w.loaded \cup {w.page} \in SUBSET Loadable BY <1>2 DEF WinStates, Loadable
  <2>2. l \in WinStates /\ SameButLoaded(l, w) /\ l.loaded = w.loaded \cup {w.page} BY <2>1, LoadedFits
  <2>3. v = IF w.page = "diagnostics" THEN LoadTool(l) ELSE l BY <1>2 DEF LoadPage
  <2> HIDE DEF l
  <2>4. CASE w.page = "diagnostics"
    <3>1. v \in WinStates /\ SameButLoaded(v, l) /\ v.loaded = w.loaded \cup {w.page} \cup GroupOf(w.tool)
      <4>1. v = LoadTool(l) BY <2>3, <2>4
      <4>2. "diagnostics" \in l.loaded /\ l.tool = w.tool BY <2>2, <2>4 DEF SameButLoaded
      <4>3. LoadTool(l).loaded = l.loaded \cup GroupOf(l.tool) BY <2>2, <4>2, LoadToolTold
      <4>4. LoadTool(l) \in WinStates /\ SameButLoaded(LoadTool(l), l) BY <2>2, LoadToolTold
      <4> QED BY <2>2, <4>1, <4>2, <4>3, <4>4
    <3>2. OnScreen(w) = {w.page} \cup GroupOf(w.tool) BY <1>2, <2>4 DEF OnScreen
    <3>3. SameButLoaded(v, w) BY <2>2, <3>1 DEF SameButLoaded
    <3> QED BY <1>2, <3>1, <3>2, <3>3
  <2>5. CASE w.page # "diagnostics"
    <3>1. v = l BY <2>3, <2>5
    <3>2. OnScreen(w) = {w.page} BY <1>2, <2>5 DEF OnScreen
    <3> QED BY <1>2, <2>2, <3>1, <3>2
  <2> QED BY <2>4, <2>5
<1> QED BY <1>1, <1>2

\* What agreement and reach are about is not what a load changes.
LEMMA LoadKeepsShape ==
    ASSUME NEW v, NEW w, SameButLoaded(v, w)
    PROVE  /\ (Agree(w) => Agree(v)) /\ (InReach(w) => InReach(v)) /\ OnScreen(v) = OnScreen(w)
           /\ GuideOf(v) = GuideOf(w)
BY DEF SameButLoaded, Agree, InReach, OnScreen, GuideOf

LEMMA SetPageKeeps ==
    ASSUME NEW w, WinOK(w), NEW page \in Pages
    PROVE  LET v == SetPage(w, page) IN
           /\ WinOK(v) /\ v.page = page /\ v.tool = w.tool /\ v.large = w.large /\ v.activated = w.activated
           /\ v.loaded \subseteq w.loaded \cup OnScreen(v)
<1> DEFINE v == SetPage(w, page)
<1>1. CASE page = w.page BY <1>1 DEF SetPage
<1>2. CASE page # w.page
  <2> DEFINE a == [w EXCEPT !.page = page]
             b == [a EXCEPT !.nav = a.page]
             c == Help(b)
  <2>1. v = LoadPage(c) BY <1>2 DEF SetPage, SyncNav
  <2>2. /\ b \in WinStates /\ b.page = page /\ b.nav = page /\ b.tool = w.tool /\ b.combo = w.combo
        /\ b.loaded = w.loaded /\ b.activated = w.activated /\ b.shown = w.shown /\ b.views = w.views
        /\ b.tab = w.tab /\ b.docks = w.docks /\ b.checked = w.checked /\ b.large = w.large
        /\ b.guide = w.guide
    BY DEF WinOK, WinStates
  <2> HIDE DEF b
  <2>3. GuideOf(b) \in Pages \cup Tools BY <2>2 DEF GuideOf, WinStates
  <2>4. /\ c \in WinStates /\ c.page = page /\ c.nav = page /\ c.tool = w.tool /\ c.combo = w.combo
        /\ c.loaded = w.loaded /\ c.activated = w.activated /\ c.shown = w.shown /\ c.views = w.views
        /\ c.tab = w.tab /\ c.docks = w.docks /\ c.checked = w.checked /\ c.large = w.large
        /\ c.guide \in {NoGuide, GuideOf(b)}
    BY <2>2, <2>3 DEF Help, WinStates
  <2>5. GuideOf(c) = GuideOf(b) BY <2>2, <2>4 DEF GuideOf
  <2> HIDE DEF c
  <2>6. Agree(c) BY <2>4, <2>5 DEF Agree, WinOK
  <2>7. InReach(c) BY <2>4 DEF InReach, WinOK
  <2>8. /\ v \in WinStates /\ SameButLoaded(v, c) /\ v.loaded \subseteq c.loaded \cup OnScreen(c)
        /\ ~c.activated => v.loaded = c.loaded
        /\ c.activated => OnScreen(c) \cap Loadable \subseteq v.loaded
    BY <2>1, <2>4, LoadPageTold
  <2> HIDE DEF v
  <2>9. Agree(v) /\ InReach(v) /\ OnScreen(v) = OnScreen(c) BY <2>6, <2>7, <2>8, LoadKeepsShape
  <2>10. IsReady(v) BY <2>4, <2>8, <2>9 DEF IsReady, WinOK, SameButLoaded
  <2>11. v.page = page /\ v.tool = w.tool /\ v.large = w.large /\ v.activated = w.activated
    BY <2>4, <2>8 DEF SameButLoaded
  <2>12. WinOK(v) BY <2>8, <2>9, <2>10 DEF WinOK
  <2>13. v.loaded \subseteq w.loaded \cup OnScreen(v) BY <2>4, <2>8, <2>9
  <2> QED BY <2>11, <2>12, <2>13 DEF v
<1> QED BY <1>1, <1>2
LEMMA CloseKeeps ==
    ASSUME NEW w, WinOK(w)
    PROVE  LET v == CloseResultFocus(w) IN
           /\ WinOK(v) /\ v.page = w.page /\ v.tool = w.tool /\ ~v.large /\ v.activated = w.activated
           /\ v.loaded = w.loaded
<1> DEFINE v == CloseResultFocus(w)
<1>1. /\ v.page = w.page /\ v.nav = w.nav /\ v.tool = w.tool /\ v.combo = w.combo /\ v.loaded = w.loaded
      /\ v.activated = w.activated /\ v.shown = w.shown /\ v.views = <<>> /\ v.tab = 0
      /\ v.docks = w.docks \ ToSet(w.views) /\ v.checked = w.checked \ ToSet(w.views) /\ v.large = FALSE
      /\ v.guide = w.guide
  BY DEF CloseResultFocus, WinOK, WinStates
<1>2. v \in WinStates
  <2>1. <<>> \in Seq(ResultKeys) BY EmptySeq
  <2> QED BY <2>1 DEF CloseResultFocus, WinOK, WinStates
<1> HIDE DEF v
<1>3. v.docks = {} /\ v.checked = {} BY <1>1 DEF WinOK, InReach, Agree
<1>4. Agree(v)
  <2>1. GuideOf(v) = GuideOf(w) BY <1>1 DEF GuideOf
  <2> QED BY <1>1, <1>3, <2>1 DEF WinOK, Agree
<1>5. InReach(v)
  <2>1. ToSet(v.views) = {} /\ IsInjective(v.views) BY <1>1 DEF ToSet, IsInjective
  <2> QED BY <1>1, <1>3, <2>1 DEF InReach
<1>6. IsReady(v)
  <2>1. OnScreen(v) = OnScreen(w) BY <1>1 DEF OnScreen
  <2> QED BY <1>1, <2>1 DEF WinOK, IsReady
<1> QED BY <1>1, <1>2, <1>4, <1>5, <1>6 DEF WinOK, v

LEMMA ClosedIfLargeKeeps ==
    ASSUME NEW w, WinOK(w)
    PROVE  LET v == ClosedIfLarge(w) IN
           /\ WinOK(v) /\ v.page = w.page /\ v.tool = w.tool /\ ~v.large /\ v.activated = w.activated
           /\ v.loaded = w.loaded
<1>1. CASE w.large
  <2>1. ClosedIfLarge(w) = CloseResultFocus(w) BY <1>1 DEF ClosedIfLarge
  <2> QED BY <2>1, CloseKeeps
<1>2. CASE ~w.large BY <1>2 DEF ClosedIfLarge
<1> QED BY <1>1, <1>2

\* A tool is chosen on its page, or is one that loads nothing, or the start-up is not over.
LEMMA SelectToolKeeps ==
    ASSUME NEW w, WinOK(w), NEW tool \in Tools,
           tool \in {"ping", "transfer"} \/ ~w.activated \/ (w.page = "diagnostics" /\ tool # "transfer")
    PROVE  LET v == SelectTool(w, tool) IN
           /\ WinOK(v) /\ v.tool = tool /\ v.activated = w.activated
           /\ v.loaded \subseteq w.loaded \cup OnScreen(v)
           /\ tool = "ping" => v.loaded = w.loaded /\ v.page = w.page /\ v.large = w.large
<1> DEFINE v == SelectTool(w, tool)
<1>1. CASE tool = w.tool BY <1>1 DEF SelectTool
<1>2. CASE tool # w.tool
  <2> DEFINE a == [w EXCEPT !.tool = tool, !.combo = IF tool \in Selectable THEN tool ELSE "none"]
             m == Help(a)
             t == IF tool = "transfer" THEN SetPage(ClosedIfLarge(m), "transfer") ELSE m
  <2>1. v = LoadTool(t) BY <1>2 DEF SelectTool
  <2>2. /\ a \in WinStates /\ a.page = w.page /\ a.nav = w.nav /\ a.tool = tool
        /\ a.combo = (IF tool \in Selectable THEN tool ELSE "none")
        /\ a.loaded = w.loaded /\ a.activated = w.activated /\ a.shown = w.shown /\ a.views = w.views
        /\ a.tab = w.tab /\ a.docks = w.docks /\ a.checked = w.checked /\ a.large = w.large
        /\ a.guide = w.guide
    <3>1. (IF tool \in Selectable THEN tool ELSE "none") \in Tools \cup {"none"} OBVIOUS
    <3> DEFINE combo == IF tool \in Selectable THEN tool ELSE "none"
    <3>2. combo \in Tools \cup {"none"} BY <3>1
    <3>3. a = [w EXCEPT !.tool = tool, !.combo = combo] OBVIOUS
    <3> HIDE DEF combo, a
    <3>4. /\ a \in WinStates /\ a.page = w.page /\ a.nav = w.nav /\ a.tool = tool /\ a.combo = combo
          /\ a.loaded = w.loaded /\ a.activated = w.activated /\ a.shown = w.shown /\ a.views = w.views
          /\ a.tab = w.tab /\ a.docks = w.docks /\ a.checked = w.checked /\ a.large = w.large
          /\ a.guide = w.guide
      BY <3>2, <3>3 DEF WinOK, WinStates
    <3> QED BY <3>4 DEF combo
  <2> HIDE DEF a
  <2>3. GuideOf(a) \in Pages \cup Tools BY <2>2 DEF GuideOf, WinStates
  <2>4. /\ m \in WinStates /\ m.page = w.page /\ m.nav = w.nav /\ m.tool = tool
        /\ m.combo = (IF tool \in Selectable THEN tool ELSE "none")
        /\ m.loaded = w.loaded /\ m.activated = w.activated /\ m.shown = w.shown /\ m.views = w.views
        /\ m.tab = w.tab /\ m.docks = w.docks /\ m.checked = w.checked /\ m.large = w.large
        /\ m.guide \in {NoGuide, GuideOf(a)}
    BY <2>2, <2>3 DEF Help, WinStates, WinOK, Agree
  <2>5. GuideOf(m) = GuideOf(a) BY <2>2, <2>4 DEF GuideOf
  <2> HIDE DEF m
  <2>6. Agree(m) BY <2>4, <2>5 DEF Agree, WinOK
  <2>7. InReach(m) BY <2>4 DEF InReach, WinOK
  <2>8. tool \in {"ping", "transfer"} => IsReady(m)
    <3> SUFFICES ASSUME tool \in {"ping", "transfer"} PROVE IsReady(m) OBVIOUS
    <3>1. GroupOf(tool) = {} BY GroupsKnown
    <3>2. OnScreen(m) \subseteq OnScreen(w) BY <2>4, <3>1 DEF OnScreen
    <3> QED BY <2>4, <3>2 DEF IsReady, WinOK
  <2>9. CASE tool = "transfer"
    <3> DEFINE c == ClosedIfLarge(m)
    <3>1. WinOK(m) BY <2>4, <2>6, <2>7, <2>8, <2>9 DEF WinOK
    <3>2. WinOK(c) /\ c.tool = tool /\ c.loaded = w.loaded /\ c.activated = w.activated
      BY <2>4, <3>1, ClosedIfLargeKeeps
    <3>3. t = SetPage(c, "transfer") BY <2>9
    <3> HIDE DEF c, t
    <3>4. "transfer" \in Pages BY PagesAssumption
    <3>5. /\ WinOK(t) /\ t.tool = tool /\ t.activated = w.activated
          /\ t.loaded \subseteq w.loaded \cup OnScreen(t)
      BY <3>2, <3>3, <3>4, SetPageKeeps
    <3>6. v \in WinStates /\ SameButLoaded(v, t) /\ v.loaded = t.loaded
      <4>1. GroupOf(t.tool) = {} BY <2>9, <3>5, GroupsKnown
      <4>2. t \in WinStates BY <3>5 DEF WinOK
      <4> QED BY <2>1, <4>1, <4>2, LoadToolTold
    <3> HIDE DEF v
    <3>7. Agree(v) /\ InReach(v) /\ OnScreen(v) = OnScreen(t) BY <3>5, <3>6, LoadKeepsShape DEF WinOK
    <3>8. v.tool = tool /\ v.activated = w.activated BY <3>5, <3>6 DEF SameButLoaded
    <3>9. WinOK(v) BY <3>5, <3>6, <3>7 DEF WinOK, IsReady, SameButLoaded
    <3>10. tool # "ping" BY <2>9
    <3> QED BY <3>5, <3>6, <3>7, <3>8, <3>9, <3>10 DEF v
  <2>10. CASE tool # "transfer"
    <3>1. v = LoadTool(m) BY <2>1, <2>10
    <3>2. /\ v \in WinStates /\ SameButLoaded(v, m)
          /\ v.loaded = IF "diagnostics" \in w.loaded THEN w.loaded \cup GroupOf(tool) ELSE w.loaded
      BY <2>4, <3>1, LoadToolTold
    <3> HIDE DEF v
    <3>3. Agree(v) /\ InReach(v) /\ OnScreen(v) = OnScreen(m) BY <2>6, <2>7, <3>2, LoadKeepsShape
    <3>4. /\ v.page = w.page /\ v.tool = tool /\ v.activated = w.activated /\ v.shown = w.shown
          /\ v.large = w.large
      BY <2>4, <3>2 DEF SameButLoaded
    <3>5. CASE tool = "ping"
      <4>1. v.loaded = w.loaded BY <3>2, <3>5, GroupsKnown
      <4>2. IsReady(m) BY <2>8, <3>5
      <4>3. IsReady(v) BY <2>4, <3>3, <3>4, <4>1, <4>2 DEF IsReady
      <4>4. WinOK(v) BY <3>2, <3>3, <4>3 DEF WinOK
      <4> QED BY <3>4, <4>1, <4>4 DEF v
    <3>6. CASE ~w.activated
      <4>1. w.loaded = {} /\ ~w.shown BY <3>6 DEF WinOK, IsReady
      <4>2. v.loaded = {} BY <3>2, <4>1
      <4>3. WinOK(v) BY <3>2, <3>3, <3>4, <3>6, <4>1, <4>2 DEF WinOK, IsReady
      <4> QED BY <3>4, <4>1, <4>2, <4>3 DEF v
    <3>7. CASE w.activated /\ w.page = "diagnostics"
      <4>1. OnScreen(v) = {"diagnostics"} \cup GroupOf(tool) BY <3>4, <3>7 DEF OnScreen
      <4>2. v.loaded \subseteq w.loaded \cup OnScreen(v) BY <3>2, <4>1
      <4>3. w.shown => "diagnostics" \in w.loaded
        BY <3>7 DEF WinOK, IsReady, OnScreen, Loadable, LoadsAtFirst
      <4>4. IsReady(v) BY <3>2, <3>4, <3>7, <4>1, <4>3 DEF IsReady
      <4>5. WinOK(v) BY <3>2, <3>3, <4>4 DEF WinOK
      <4>6. tool = "ping" => v.loaded = w.loaded BY <3>2, GroupsKnown
      <4> QED BY <3>4, <4>2, <4>5, <4>6 DEF v
    <3> QED BY <2>10, <3>5, <3>6, <3>7
  <2> QED BY <2>9, <2>10
<1> QED BY <1>1, <1>2

LEMMA NavigateKeeps ==
    ASSUME NEW w, WinOK(w), NEW page \in Pages
    PROVE  LET v == Navigate(w, page) IN
           /\ WinOK(v) /\ v.page = page /\ ~v.large /\ (page = "diagnostics" => v.tool # "transfer")
           /\ v.activated = w.activated /\ v.loaded \subseteq w.loaded \cup OnScreen(v)
<1> DEFINE c == ClosedIfLarge(w)
           t == IF page = "diagnostics" /\ c.tool = "transfer" THEN SelectTool(c, "ping") ELSE c
<1>1. Navigate(w, page) = SetPage(t, page) BY DEF Navigate
<1>2. WinOK(c) /\ ~c.large /\ c.activated = w.activated /\ c.loaded = w.loaded BY ClosedIfLargeKeeps
<1> HIDE DEF c
<1>3. /\ WinOK(t) /\ ~t.large /\ t.activated = w.activated /\ t.loaded = w.loaded
      /\ page = "diagnostics" => t.tool # "transfer"
  <2>1. CASE page = "diagnostics" /\ c.tool = "transfer"
    <3>1. t = SelectTool(c, "ping") BY <2>1
    <3>2. "ping" \in Tools BY PagesAssumption
    <3>3. /\ WinOK(SelectTool(c, "ping")) /\ SelectTool(c, "ping").tool = "ping"
          /\ SelectTool(c, "ping").activated = c.activated /\ SelectTool(c, "ping").loaded = c.loaded
          /\ SelectTool(c, "ping").large = c.large
      BY <1>2, <3>2, SelectToolKeeps
    <3> QED BY <1>2, <3>1, <3>3
  <2>2. CASE ~(page = "diagnostics" /\ c.tool = "transfer") BY <1>2, <2>2
  <2> QED BY <2>1, <2>2
<1> HIDE DEF t
<1> QED BY <1>1, <1>3, SetPageKeeps

LEMMA RemoveAtTold ==
    ASSUME NEW S, NEW s \in Seq(S), NEW i \in 1 .. Len(s)
    PROVE  LET r == RemoveAt(s, i) IN
           /\ r \in Seq(S) /\ Len(r) = Len(s) - 1 /\ DOMAIN r = 1 .. Len(s) - 1
           /\ \A k \in 1 .. Len(s) - 1 : r[k] = IF k < i THEN s[k] ELSE s[k + 1]
<1> DEFINE a == SubSeq(s, 1, i - 1)
           b == SubSeq(s, i + 1, Len(s))
<1>1. /\ Len(s) \in Nat /\ i \in Nat /\ 1 <= i /\ i <= Len(s) /\ i - 1 \in Int /\ i + 1 \in Int /\ 1 \in Int
      /\ Len(s) \in Int /\ \A k \in 1 .. Len(s) : s[k] \in S
  OBVIOUS
<1>2. a \in Seq(S) /\ Len(a) = i - 1 /\ \A k \in 1 .. i - 1 : a[k] = s[k]
  <2>1. \A k \in 1 .. i - 1 : s[k] \in S BY <1>1
  <2>2. /\ a \in Seq(S) /\ Len(a) = (IF 1 <= i - 1 THEN i - 1 - 1 + 1 ELSE 0)
        /\ \A k \in 1 .. i - 1 - 1 + 1 : a[k] = s[1 + k - 1]
    BY <1>1, <2>1, SubSeqProperties
  <2> QED BY <1>1, <2>2
<1>3. b \in Seq(S) /\ Len(b) = Len(s) - i /\ \A k \in 1 .. Len(s) - i : b[k] = s[i + k]
  <2>1. \A k \in i + 1 .. Len(s) : s[k] \in S BY <1>1
  <2>2. /\ b \in Seq(S) /\ Len(b) = (IF i + 1 <= Len(s) THEN Len(s) - (i + 1) + 1 ELSE 0)
        /\ \A k \in 1 .. Len(s) - (i + 1) + 1 : b[k] = s[i + 1 + k - 1]
    BY <1>1, <2>1, SubSeqProperties
  <2> QED BY <1>1, <2>2
<1> HIDE DEF a, b
<1>4. /\ a \o b \in Seq(S) /\ Len(a \o b) = Len(a) + Len(b)
      /\ \A k \in 1 .. Len(a) + Len(b) : (a \o b)[k] = IF k <= Len(a) THEN a[k] ELSE b[k - Len(a)]
  BY <1>2, <1>3, ConcatProperties
<1>5. ASSUME NEW k \in 1 .. Len(s) - 1 PROVE (a \o b)[k] = IF k < i THEN s[k] ELSE s[k + 1]
  <2>1. CASE k < i BY <1>1, <1>2, <1>3, <1>4, <2>1
  <2>2. CASE ~(k < i)
    <3>1. (a \o b)[k] = b[k - (i - 1)] /\ k - (i - 1) \in 1 .. Len(s) - i BY <1>1, <1>2, <1>3, <1>4, <2>2
    <3>2. i + (k - (i - 1)) = k + 1 BY <1>1
    <3> QED BY <1>3, <2>2, <3>1, <3>2
  <2> QED BY <2>1, <2>2
<1>6. RemoveAt(s, i) = a \o b BY DEF RemoveAt, a, b
<1>7. Len(a \o b) = Len(s) - 1 /\ DOMAIN (a \o b) = 1 .. Len(s) - 1 BY <1>1, <1>2, <1>3, <1>4
<1> QED BY <1>4, <1>5, <1>6, <1>7

LEMMA AttachKeeps ==
    ASSUME NEW w, WinOK(w), NEW key \in w.docks
    PROVE  LET v == Attach(w, key) IN
           WinOK(v) /\ v.loaded = w.loaded /\ v.activated = w.activated
<1> DEFINE p == Position(w, key)
           left == RemoveAt(w.views, p)
           at == IF w.tab > p \/ w.tab > Len(left) THEN w.tab - 1 ELSE w.tab
           v == Attach(w, key)
<1>1. /\ w.views \in Seq(ResultKeys) /\ Len(w.views) \in Nat /\ DOMAIN w.views = 1 .. Len(w.views)
      /\ w.tab \in Nat
  BY DEF WinOK, WinStates
<1>2. p \in 1 .. Len(w.views) /\ w.views[p] = key
  <2>1. \E i \in DOMAIN w.views : w.views[i] = key BY DEF WinOK, InReach, ToSet
  <2> QED BY <1>1, <2>1 DEF Position
<1> HIDE DEF p
<1>3. /\ left \in Seq(ResultKeys) /\ Len(left) = Len(w.views) - 1 /\ DOMAIN left = 1 .. Len(w.views) - 1
      /\ \A k \in 1 .. Len(w.views) - 1 : left[k] = IF k < p THEN w.views[k] ELSE w.views[k + 1]
  BY <1>1, <1>2, RemoveAtTold
<1>4. v = [w EXCEPT !.views = left, !.tab = at, !.docks = @ \ {key}, !.checked = @ \ {key},
                    !.large = @ /\ left # <<>>]
  BY DEF Attach, p
<1> HIDE DEF left
<1>5. w.tab \in 1 .. Len(w.views) BY <1>1, <1>2 DEF WinOK, InReach
<1>6. at \in Nat /\ IF left = <<>> THEN at = 0 ELSE at \in DOMAIN left
  <2>1. left = <<>> <=> Len(w.views) = 1
    <3>1. left = <<>> => Len(left) = 0 OBVIOUS
    <3>2. left # <<>> => Len(left) \in Nat \ {0} BY <1>3, EmptySeq
    <3> QED BY <1>1, <1>2, <1>3, <3>1, <3>2
  <2>2. Len(left) \in Nat BY <1>1, <1>2, <1>3
  <2> QED BY SMTT(30), <1>1, <1>2, <1>3, <1>5, <2>1, <2>2
<1> HIDE DEF at, v
<1>7. /\ v.page = w.page /\ v.nav = w.nav /\ v.tool = w.tool /\ v.combo = w.combo /\ v.loaded = w.loaded
      /\ v.activated = w.activated /\ v.shown = w.shown /\ v.views = left /\ v.tab = at
      /\ v.docks = w.docks \ {key} /\ v.checked = w.checked \ {key} /\ v.large = (w.large /\ left # <<>>)
      /\ v.guide = w.guide
  BY <1>4 DEF WinOK, WinStates
<1>8. v \in WinStates
  <2>1. (w.large /\ left # <<>>) \in BOOLEAN OBVIOUS
  <2>2. PICK b \in BOOLEAN : b = (w.large /\ left # <<>>) BY <2>1
  <2>3. v = [w EXCEPT !.views = left, !.tab = at, !.docks = @ \ {key}, !.checked = @ \ {key}, !.large = b]
    BY <1>4, <2>2
  <2> QED BY <1>3, <1>6, <2>3 DEF WinOK, WinStates
<1>9. Agree(v)
  <2>1. GuideOf(v) = GuideOf(w) BY <1>7 DEF GuideOf
  <2> QED BY <1>7, <2>1 DEF WinOK, Agree
<1>10. IsInjective(left)
  <2> SUFFICES ASSUME NEW i \in DOMAIN left, NEW j \in DOMAIN left, left[i] = left[j] PROVE i = j
    BY DEF IsInjective
  <2> DEFINE ui == IF i < p THEN i ELSE i + 1
             uj == IF j < p THEN j ELSE j + 1
  <2>1. /\ ui \in DOMAIN w.views /\ left[i] = w.views[ui]
        /\ uj \in DOMAIN w.views /\ left[j] = w.views[uj]
    <3>1. i \in 1 .. Len(w.views) - 1 /\ j \in 1 .. Len(w.views) - 1 BY <1>3
    <3>2. left[i] = (IF i < p THEN w.views[i] ELSE w.views[i + 1])
          /\ left[j] = (IF j < p THEN w.views[j] ELSE w.views[j + 1])
      BY <1>3, <3>1
    <3>3. ui \in DOMAIN w.views /\ uj \in DOMAIN w.views BY <1>1, <1>2, <3>1
    <3>4. left[i] = w.views[ui] BY <3>2
    <3>5. left[j] = w.views[uj] BY <3>2
    <3> QED BY <3>3, <3>4, <3>5
  <2>2. ui = uj
    <3> HIDE DEF ui, uj
    <3> QED BY <2>1 DEF WinOK, InReach, IsInjective
  <2> QED BY <1>1, <1>2, <1>3, <2>2
<1>11. ToSet(left) = w.docks \ {key}
  <2>1. ASSUME NEW i \in DOMAIN left PROVE left[i] \in w.docks \ {key}
    <3> DEFINE up == IF i < p THEN i ELSE i + 1
    <3>1. up \in DOMAIN w.views /\ up # p /\ left[i] = w.views[up] BY <1>1, <1>2, <1>3
    <3> QED BY <1>1, <1>2, <3>1 DEF WinOK, InReach, IsInjective, ToSet
  <2>2. ASSUME NEW other \in w.docks \ {key} PROVE other \in ToSet(left)
    <3>1. PICK i \in DOMAIN w.views : w.views[i] = other BY DEF WinOK, InReach, ToSet
    <3>2. i # p BY <1>2, <3>1
    <3> DEFINE down == IF i < p THEN i ELSE i - 1
    <3>3. down \in DOMAIN left /\ left[down] = other BY <1>1, <1>2, <1>3, <3>1, <3>2
    <3> QED BY <3>3 DEF ToSet
  <2> QED BY <2>1, <2>2 DEF ToSet
<1>12. InReach(v)
  <2>1. left # <<>> <=> w.docks \ {key} # {}
    <3>1. left # <<>> => 1 \in DOMAIN left BY <1>1, <1>2, <1>3
    <3> QED BY <1>11, <3>1 DEF ToSet
  <2>2. w.large BY DEF WinOK, InReach
  <2> QED BY <1>6, <1>7, <1>10, <1>11, <2>1, <2>2 DEF InReach
<1>13. IsReady(v)
  <2>1. OnScreen(v) = OnScreen(w) BY <1>7 DEF OnScreen
  <2> QED BY <1>7, <2>1 DEF WinOK, IsReady
<1> QED BY <1>7, <1>8, <1>9, <1>12, <1>13 DEF WinOK, v

LEMMA ShowLargeKeeps ==
    ASSUME NEW w, WinOK(w), NEW key \in ResultKeys, key \notin w.docks
    PROVE  LET v == ShowLarge(w, key) IN
           WinOK(v) /\ v.loaded = w.loaded /\ v.activated = w.activated
<1> DEFINE longer == Append(w.views, key)
           at == Len(w.views) + 1
           v == ShowLarge(w, key)
<1>1. /\ w.views \in Seq(ResultKeys) /\ Len(w.views) \in Nat /\ DOMAIN w.views = 1 .. Len(w.views)
  BY DEF WinOK, WinStates
<1>2. /\ longer \in Seq(ResultKeys) /\ Len(longer) = at /\ DOMAIN longer = 1 .. at /\ longer # <<>>
      /\ longer[at] = key /\ \A i \in 1 .. Len(w.views) : longer[i] = w.views[i]
  BY <1>1, AppendProperties
<1>3. v = [w EXCEPT !.views = longer, !.tab = at, !.docks = @ \cup {key}, !.checked = @ \cup {key},
                    !.large = TRUE]
  BY DEF ShowLarge
<1>4. at \in Nat /\ at \in DOMAIN longer BY <1>1, <1>2
<1> HIDE DEF longer, v
<1>5. ToSet(longer) = w.docks \cup {key}
  <2>1. ASSUME NEW i \in DOMAIN longer PROVE longer[i] \in w.docks \cup {key}
    <3>1. CASE i = at BY <1>2, <3>1
    <3>2. CASE i \in 1 .. Len(w.views) BY <1>1, <1>2, <3>2 DEF WinOK, InReach, ToSet
    <3> QED BY <1>1, <1>2, <3>1, <3>2
  <2>2. ASSUME NEW other \in w.docks PROVE other \in ToSet(longer)
    <3>1. PICK i \in DOMAIN w.views : w.views[i] = other BY DEF WinOK, InReach, ToSet
    <3>2. i \in DOMAIN longer /\ longer[i] = other BY <1>1, <1>2, <3>1
    <3> QED BY <3>2 DEF ToSet
  <2>3. key \in ToSet(longer) BY <1>2, <1>4 DEF ToSet
  <2> QED BY <2>1, <2>2, <2>3 DEF ToSet
<1>6. IsInjective(longer)
  <2> SUFFICES ASSUME NEW i \in DOMAIN longer, NEW j \in DOMAIN longer, longer[i] = longer[j] PROVE i = j
    BY DEF IsInjective
  <2>1. \A k \in 1 .. Len(w.views) : w.views[k] # key BY <1>1 DEF WinOK, InReach, ToSet
  <2>2. \A k \in 1 .. at : k \in 1 .. Len(w.views) \/ k = at BY <1>1
  <2> QED BY <1>1, <1>2, <2>1, <2>2 DEF WinOK, InReach, IsInjective
<1> HIDE DEF at
<1>7. /\ v.page = w.page /\ v.nav = w.nav /\ v.tool = w.tool /\ v.combo = w.combo /\ v.loaded = w.loaded
      /\ v.activated = w.activated /\ v.shown = w.shown /\ v.views = longer /\ v.tab = at
      /\ v.docks = w.docks \cup {key} /\ v.checked = w.checked \cup {key} /\ v.large = TRUE
      /\ v.guide = w.guide
  BY <1>3 DEF WinOK, WinStates
<1>8. v \in WinStates BY <1>2, <1>3, <1>4 DEF WinOK, WinStates
<1>9. Agree(v)
  <2>1. GuideOf(v) = GuideOf(w) BY <1>7 DEF GuideOf
  <2> QED BY <1>7, <2>1 DEF WinOK, Agree
<1>10. InReach(v) BY <1>2, <1>4, <1>5, <1>6, <1>7 DEF InReach
<1>11. IsReady(v)
  <2>1. OnScreen(v) = OnScreen(w) BY <1>7 DEF OnScreen
  <2> QED BY <1>7, <2>1 DEF WinOK, IsReady
<1> QED BY <1>7, <1>8, <1>9, <1>10, <1>11 DEF WinOK, v

LEMMA RestoredKeeps ==
    ASSUME NEW saved \in [page : Pages, tool : Tools]
    PROVE  WinOK(Restored(saved)) /\ Restored(saved).loaded = {}
<1> DEFINE w == SelectTool(Fresh, saved.tool)
           page == IF saved.page = "diagnostics" /\ w.tool = "transfer" THEN "transfer" ELSE saved.page
<1>1. WinOK(Fresh) /\ ~Fresh.activated
  <2>1. /\ <<>> \in Seq(ResultKeys) /\ ToSet(<<>>) = {} /\ IsInjective(<<>>)
    BY EmptySeq DEF ToSet, IsInjective
  <2>2. PICK h \in Pages, t \in Tools : h = "home" /\ t = "ping" /\ t \in Selectable
    BY PagesAssumption DEF Selectable
  <2>3. Fresh = [page |-> h, nav |-> h, tool |-> t, combo |-> t, loaded |-> {}, activated |-> FALSE,
                 shown |-> FALSE, views |-> <<>>, tab |-> 0, docks |-> {}, checked |-> {}, large |-> FALSE,
                 guide |-> NoGuide]
    BY <2>2 DEF Fresh
  <2>4. Fresh \in WinStates BY <2>1, <2>3 DEF WinStates
  <2>5. Agree(Fresh) /\ InReach(Fresh) /\ IsReady(Fresh)
    BY <2>1, <2>2, <2>3 DEF Agree, InReach, IsReady
  <2>6. ~Fresh.activated BY <2>3
  <2> QED BY <2>4, <2>5, <2>6 DEF WinOK
<1>2. WinOK(w) /\ ~w.activated BY <1>1, SelectToolKeeps
<1>3. page \in Pages BY PagesAssumption
<1>4. Restored(saved) = Navigate(w, page) BY DEF Restored
<1> HIDE DEF w, page
<1>5. WinOK(Restored(saved)) /\ ~Restored(saved).activated BY <1>2, <1>3, <1>4, NavigateKeeps
<1> QED BY <1>5 DEF WinOK, IsReady

LEMMA BecomesKeeps ==
    ASSUME PagesInv, NEW w, WinOK(w), w.loaded \subseteq win.loaded \cup OnScreen(w), Becomes(w)
    PROVE  PagesInv'
<1>1. win' = w /\ seen' = seen \cup OnScreen(w) /\ winSaved' = winSaved BY DEF Becomes
<1>2. WinOK(win)' BY <1>1 DEF WinOK, WinStates, Agree, InReach, IsReady, GuideOf, OnScreen
<1>3. (win.loaded \subseteq seen)' BY <1>1 DEF PagesInv
<1> QED BY <1>1, <1>2, <1>3 DEF PagesInv

LEMMA ClicksKeep == PagesInv /\ win.activated /\ Clicks => PagesInv'
<1> SUFFICES ASSUME PagesInv, win.activated, Clicks PROVE PagesInv' OBVIOUS
<1>0. WinOK(win) BY DEF PagesInv
<1>1. ASSUME NEW page \in Pages, Click(page) PROVE PagesInv'
  BY <1>0, <1>1, NavigateKeeps, BecomesKeeps DEF Click
<1>2. ASSUME NEW page \in Pages, CtrlTab(page) PROVE PagesInv'
  BY <1>0, <1>2, SetPageKeeps, BecomesKeeps DEF CtrlTab
<1>3. ASSUME NEW tool \in Tools, ChooseTool(tool) PROVE PagesInv'
  <2>1. win.page = "diagnostics" /\ tool # "transfer" /\ Becomes(SelectTool(win, tool))
    BY <1>3 DEF ChooseTool, Selectable
  <2> QED BY <1>0, <2>1, SelectToolKeeps, BecomesKeeps
<1>4. ASSUME NEW key \in ResultKeys, ToggleLarge(key) PROVE PagesInv'
  <2>1. CASE key \in win.docks
    <3>1. Becomes(Attach(win, key)) BY <1>4, <2>1 DEF ToggleLarge
    <3> QED BY <1>0, <2>1, <3>1, AttachKeeps, BecomesKeeps
  <2>2. CASE key \notin win.docks
    <3>1. Becomes(ShowLarge(win, key)) BY <1>4, <2>2 DEF ToggleLarge
    <3> QED BY <1>0, <2>2, <3>1, ShowLargeKeeps, BecomesKeeps
  <2> QED BY <2>1, <2>2
<1>5. ASSUME NEW i \in 1 .. Len(win.views), ChooseTab(i) PROVE PagesInv'
  <2> DEFINE v == [win EXCEPT !.tab = i]
  <2>1. i \in DOMAIN win.views /\ Becomes(v) BY <1>5 DEF ChooseTab
  <2>2. i \in Nat /\ win.views # <<>> BY <1>0, <2>1 DEF WinOK, WinStates
  <2>3. v \in WinStates BY <1>0, <2>2 DEF WinOK, WinStates
  <2>4. /\ v.page = win.page /\ v.nav = win.nav /\ v.tool = win.tool /\ v.combo = win.combo
        /\ v.loaded = win.loaded /\ v.activated = win.activated /\ v.shown = win.shown
        /\ v.views = win.views /\ v.tab = i /\ v.docks = win.docks /\ v.checked = win.checked
        /\ v.large = win.large /\ v.guide = win.guide
    BY <1>0 DEF WinOK, WinStates
  <2> HIDE DEF v
  <2>5. GuideOf(v) = GuideOf(win) /\ OnScreen(v) = OnScreen(win) BY <2>4 DEF GuideOf, OnScreen
  <2>6. WinOK(v) BY <1>0, <2>1, <2>2, <2>3, <2>4, <2>5 DEF WinOK, Agree, InReach, IsReady
  <2> QED BY <2>1, <2>4, <2>6, BecomesKeeps
<1>6. ASSUME BackFromLarge PROVE PagesInv'
  BY <1>0, <1>6, CloseKeeps, BecomesKeeps DEF BackFromLarge
<1>7. ASSUME ShowHelp \/ HideHelp PROVE PagesInv'
  <2>1. PICK g \in {NoGuide, GuideOf(win)} : Becomes([win EXCEPT !.guide = g]) BY <1>7 DEF ShowHelp, HideHelp
  <2> DEFINE v == [win EXCEPT !.guide = g]
  <2>2. g \in Pages \cup Tools \cup {NoGuide} BY <1>0 DEF GuideOf, WinOK, WinStates
  <2>3. v \in WinStates BY <1>0, <2>2 DEF WinOK, WinStates
  <2>4. /\ v.page = win.page /\ v.nav = win.nav /\ v.tool = win.tool /\ v.combo = win.combo
        /\ v.loaded = win.loaded /\ v.activated = win.activated /\ v.shown = win.shown
        /\ v.views = win.views /\ v.tab = win.tab /\ v.docks = win.docks /\ v.checked = win.checked
        /\ v.large = win.large /\ v.guide = g
    BY <1>0 DEF WinOK, WinStates
  <2>5. Becomes(v) BY <2>1
  <2> HIDE DEF v
  <2>6. GuideOf(v) = GuideOf(win) /\ OnScreen(v) = OnScreen(win) BY <2>4 DEF GuideOf, OnScreen
  <2>7. WinOK(v) BY <1>0, <2>3, <2>4, <2>6 DEF WinOK, Agree, InReach, IsReady
  <2> QED BY <2>4, <2>5, <2>7, BecomesKeeps
<1>8. ASSUME NextStart \/ RestartAsAdmin PROVE PagesInv'
  <2>1. /\ winSaved' \in [page : Pages, tool : Tools]
        /\ win' = Restored(winSaved') /\ seen' = {}
    <3>1. CASE NextStart BY <1>0, <3>1 DEF NextStart, WinOK, WinStates
    <3>2. CASE RestartAsAdmin BY <3>2 DEF RestartAsAdmin, PagesInv
    <3> QED BY <1>8, <3>1, <3>2
  <2>2. WinOK(Restored(winSaved')) /\ Restored(winSaved').loaded = {} BY <2>1, RestoredKeeps
  <2>3. WinOK(win)' BY <2>1, <2>2 DEF WinOK, WinStates, Agree, InReach, IsReady, GuideOf, OnScreen
  <2> QED BY <2>1, <2>2, <2>3 DEF PagesInv
<1> QED BY <1>1, <1>2, <1>3, <1>4, <1>5, <1>6, <1>7, <1>8 DEF Clicks

LEMMA StartUpKeeps == PagesInv /\ (Activate \/ StartVisibleTab) => PagesInv'
<1> SUFFICES ASSUME PagesInv, Activate \/ StartVisibleTab PROVE PagesInv' OBVIOUS
<1>0. WinOK(win) BY DEF PagesInv
<1>1. CASE Activate
  <2> DEFINE v == [win EXCEPT !.activated = TRUE]
  <2>1. ~win.activated /\ Becomes(v) BY <1>1 DEF Activate
  <2>2. v \in WinStates BY <1>0 DEF WinOK, WinStates
  <2>3. /\ v.page = win.page /\ v.nav = win.nav /\ v.tool = win.tool /\ v.combo = win.combo
        /\ v.loaded = win.loaded /\ v.activated /\ v.shown = win.shown
        /\ v.views = win.views /\ v.tab = win.tab /\ v.docks = win.docks /\ v.checked = win.checked
        /\ v.large = win.large /\ v.guide = win.guide
    BY <1>0 DEF WinOK, WinStates
  <2> HIDE DEF v
  <2>4. GuideOf(v) = GuideOf(win) BY <2>3 DEF GuideOf
  <2>5. WinOK(v) BY <1>0, <2>1, <2>2, <2>3, <2>4 DEF WinOK, Agree, InReach, IsReady
  <2> QED BY <2>1, <2>3, <2>5, BecomesKeeps
<1>2. CASE StartVisibleTab
  <2> DEFINE u == [win EXCEPT !.shown = TRUE]
             v == LoadPage(u)
  <2>1. win.activated /\ Becomes(v) BY <1>2 DEF StartVisibleTab
  <2>2. u \in WinStates BY <1>0 DEF WinOK, WinStates
  <2>3. /\ u.page = win.page /\ u.nav = win.nav /\ u.tool = win.tool /\ u.combo = win.combo
        /\ u.loaded = win.loaded /\ u.activated /\ u.shown
        /\ u.views = win.views /\ u.tab = win.tab /\ u.docks = win.docks /\ u.checked = win.checked
        /\ u.large = win.large /\ u.guide = win.guide
    BY <1>0, <2>1 DEF WinOK, WinStates
  <2> HIDE DEF u
  <2>4. GuideOf(u) = GuideOf(win) BY <2>3 DEF GuideOf
  <2>5. Agree(u) /\ InReach(u) BY <1>0, <2>3, <2>4 DEF WinOK, Agree, InReach
  <2>6. /\ v \in WinStates /\ SameButLoaded(v, u) /\ v.loaded \subseteq u.loaded \cup OnScreen(u)
        /\ OnScreen(u) \cap Loadable \subseteq v.loaded
    <3>1. u.page \in Pages BY <2>2 DEF WinStates
    <3> QED BY <2>2, <2>3, <3>1, LoadPageTold
  <2> HIDE DEF v
  <2>7. Agree(v) /\ InReach(v) /\ OnScreen(v) = OnScreen(u) BY <2>5, <2>6, LoadKeepsShape
  <2>8. WinOK(v) BY <2>3, <2>6, <2>7 DEF WinOK, IsReady, SameButLoaded
  <2> QED BY <2>1, <2>3, <2>6, <2>7, <2>8, BecomesKeeps
<1> QED BY <1>1, <1>2

LEMMA PagesAreSafe == PagesInv => WindowIsConsistent
<1> SUFFICES ASSUME PagesInv PROVE WindowIsConsistent OBVIOUS
<1>1. WidgetsAgree BY DEF PagesInv, WinOK, Agree, WidgetsAgree
<1>2. ResultsAreReachable BY DEF PagesInv, WinOK, InReach, ResultsAreReachable
<1>3. LoadedWhenSeen BY DEF PagesInv, WinOK, IsReady, LoadedWhenSeen, Loadable
<1>4. ClickShowsThePage
  <2> SUFFICES ASSUME NEW page \in Pages
               PROVE  LET w == Navigate(win, page) IN
                      w.page = page /\ ~w.large /\ (page = "diagnostics" => w.tool # "transfer")
    BY DEF ClickShowsThePage
  <2>1. WinOK(win) BY DEF PagesInv
  <2> QED BY <2>1, NavigateKeeps
<1> QED BY <1>1, <1>2, <1>3, <1>4 DEF WindowIsConsistent

\* For any pages, tools and results, and any order of clicks, restores and start-ups
\* (main_window.py, diagnostics/core.py, result_focus.py): the side bar, the tool list
\* and the check marks say what is shown, every enlarged result can be reached and
\* closed, nothing is shown that was not loaded, and a click shows its page.
THEOREM WindowAlwaysConsistent == PagesInit /\ [][PagesNext]_winVars => []WindowIsConsistent
<1>1. PagesInit => PagesInv
  <2> SUFFICES ASSUME PagesInit PROVE PagesInv OBVIOUS
  <2>1. winSaved \in [page : Pages, tool : Tools] /\ win = Restored(winSaved) BY DEF PagesInit
  <2>2. WinOK(win) /\ win.loaded = {} BY <2>1, RestoredKeeps
  <2> QED BY <2>1, <2>2 DEF PagesInv
<1>2. PagesInv /\ [PagesNext]_winVars => PagesInv'
  <2> SUFFICES ASSUME PagesInv, [PagesNext]_winVars PROVE PagesInv' OBVIOUS
  <2>1. CASE UNCHANGED winVars
    <3>1. UNCHANGED <<win, seen, winSaved>> BY <2>1 DEF winVars
    <3> QED BY <3>1 DEF PagesInv, WinOK, WinStates, Agree, InReach, IsReady, GuideOf, OnScreen
  <2>2. CASE PagesNext BY <2>2, ClicksKeep, StartUpKeeps DEF PagesNext
  <2> QED BY <2>1, <2>2
<1> QED BY <1>1, <1>2, PagesAreSafe, PTL

----------------------------------------------------------------------------
(* The device table.  The invariant adds types to the two facts that each   *)
(* step has to keep; that the history is of this document is the type of    *)
(* its snapshots.  StepKeeps lists what a step has to show, and the edits   *)
(* share what a change of the table sets off.                               *)

Rows == [name : DeviceNames \cup {Blank}, ok : BOOLEAN, profile : ConfigProfiles \cup {Blank}]
Tables == [rows : Seq(Rows), columns : SUBSET ConfigProfiles]
SnapshotsOf(n) == [table : Tables, of : {n}]
HistoryOf(n) == [undo : Seq(SnapshotsOf(n)), redo : Seq(SnapshotsOf(n))]
Documents == [file : TableFiles \cup {NoTableFile}, dirty : BOOLEAN, quiet : BOOLEAN, extended : BOOLEAN,
              dismissed : SUBSET ConfigProfiles, number : Nat]

TableTypeOK ==
    /\ table \in Tables
    /\ timers \subseteq {"render", "save"}
    /\ doc \in Documents
    /\ profiles \in [known : SUBSET ConfigProfiles, blockOff : SUBSET ConfigProfiles]
    /\ options \in [live : BOOLEAN, evenErrors : BOOLEAN]
    /\ tableDisk \in [files : [TableFiles -> Seq(Rows)], backups : SUBSET Seq(Rows)]
    /\ edits \in [done : Nat, closed : BOOLEAN]

\* The table and the history have their types, the snapshots are of this document, and
\* the two facts that hold of every table.
TableInv ==
    /\ TableTypeOK
    /\ undoRedo \in HistoryOf(doc.number)
    /\ CleanMeansSaved
    /\ ShownCliIsCurrent

----------------------------------------------------------------------------

LEMMA InsertAtFits ==
    ASSUME NEW S, NEW s \in Seq(S), NEW i \in 1 .. Len(s) + 1, NEW e \in S
    PROVE  InsertAt(s, i, e) \in Seq(S)
<1> DEFINE a == SubSeq(s, 1, i - 1)
           b == SubSeq(s, i, Len(s))
<1>1. /\ Len(s) \in Nat /\ i \in Int /\ i - 1 \in Int /\ 1 \in Int /\ Len(s) \in Int
      /\ \A k \in 1 .. Len(s) : s[k] \in S
  OBVIOUS
<1>2. a \in Seq(S)
  <2>1. \A k \in 1 .. i - 1 : s[k] \in S BY <1>1
  <2> QED BY <1>1, <2>1, SubSeqProperties
<1>3. b \in Seq(S)
  <2>1. \A k \in i .. Len(s) : s[k] \in S BY <1>1
  <2> QED BY <1>1, <2>1, SubSeqProperties
<1> HIDE DEF a, b
<1>4. <<e>> \in Seq(S) OBVIOUS
<1>5. a \o <<e>> \in Seq(S) BY <1>2, <1>4, ConcatProperties
<1>6. (a \o <<e>>) \o b \in Seq(S) BY <1>3, <1>5, ConcatProperties
<1> QED BY <1>6 DEF InsertAt, a, b

LEMMA FrontFits ==
    ASSUME NEW S, NEW s \in Seq(S), s # <<>>
    PROVE  Front(s) \in Seq(S) /\ Last(s) \in S
<1>1. Len(s) \in Nat \ {0} BY EmptySeq
<1>2. Len(s) - 1 \in Int /\ 1 \in Int /\ \A k \in 1 .. Len(s) - 1 : s[k] \in S BY <1>1
<1>3. Front(s) \in Seq(S) BY <1>2, SubSeqProperties DEF Front
<1>4. Len(s) \in 1 .. Len(s) BY <1>1
<1>5. s[Len(s)] \in S BY <1>4, ElementOfSeq
<1> QED BY <1>3, <1>5 DEF Last

\* A snapshot put on the undo stack, with the oldest one let go when there are too many.
LEMMA LongerFits ==
    ASSUME NEW S, NEW s \in Seq(S), NEW e \in S
    PROVE  LET longer == Append(s, e)
           IN  (IF Len(longer) > UndoDepth THEN Tail(longer) ELSE longer) \in Seq(S)
<1>1. Append(s, e) \in Seq(S) /\ Append(s, e) # <<>> BY AppendProperties
<1>2. Tail(Append(s, e)) \in Seq(S) BY <1>1, HeadTailProperties
<1> QED BY <1>1, <1>2

LEMMA CapturedFits ==
    ASSUME table \in Tables, doc \in Documents, undoRedo \in HistoryOf(doc.number)
    PROVE  Captured \in HistoryOf(doc.number)
<1>1. Snapshot \in SnapshotsOf(doc.number) BY DEF Snapshot, SnapshotsOf
<1>2. undoRedo.undo \in Seq(SnapshotsOf(doc.number)) /\ <<>> \in Seq(SnapshotsOf(doc.number))
  BY EmptySeq DEF HistoryOf
<1> DEFINE longer == Append(undoRedo.undo, Snapshot)
           new == IF Len(longer) > UndoDepth THEN Tail(longer) ELSE longer
<1>3. new \in Seq(SnapshotsOf(doc.number)) BY <1>1, <1>2, LongerFits
<1>4. Captured = undoRedo \/ Captured = [undo |-> new, redo |-> <<>>] BY DEF Captured
<1> HIDE DEF new
<1>5. [undo |-> new, redo |-> <<>>] \in HistoryOf(doc.number) BY <1>2, <1>3 DEF HistoryOf
<1> QED BY <1>4, <1>5

LEMMA ColumnsFit ==
    ASSUME NEW t \in Tables, profiles.known \subseteq ConfigProfiles
    PROVE  /\ Extended(t) \in SUBSET ConfigProfiles
           /\ Obsolete(t) \in SUBSET ConfigProfiles
           /\ \A c \in SUBSET ConfigProfiles :
                 LET u == [t EXCEPT !.columns = c] IN u \in Tables /\ u.rows = t.rows
<1>1. t.columns \in SUBSET ConfigProfiles BY DEF Tables
<1>2. Referenced(t.rows) \subseteq ConfigProfiles BY DEF Referenced
<1>3. Extended(t) \in SUBSET ConfigProfiles BY <1>1, <1>2 DEF Extended
<1>4. Obsolete(t) \in SUBSET ConfigProfiles BY <1>1 DEF Obsolete
<1>5. ASSUME NEW c \in SUBSET ConfigProfiles
      PROVE  LET u == [t EXCEPT !.columns = c] IN u \in Tables /\ u.rows = t.rows
  BY DEF Tables
<1> QED BY <1>3, <1>4, <1>5

\* What any step has to show.
LEMMA StepKeeps ==
    ASSUME TableInv,
           table' \in Tables, timers' \subseteq {"render", "save"}, doc' \in Documents,
           profiles' \in [known : SUBSET ConfigProfiles, blockOff : SUBSET ConfigProfiles],
           options' \in [live : BOOLEAN, evenErrors : BOOLEAN],
           tableDisk' \in [files : [TableFiles -> Seq(Rows)], backups : SUBSET Seq(Rows)],
           edits' \in [done : Nat, closed : BOOLEAN],
           undoRedo' \in HistoryOf(doc'.number),
           CleanMeansSaved', ShownCliIsCurrent'
    PROVE  TableInv'
BY DEF TableInv, TableTypeOK

LEMMA UserFits == TableInv /\ User => edits' \in [done : Nat, closed : BOOLEAN]
BY DEF TableInv, TableTypeOK, User

LEMMA OnTableChangedKeeps ==
    ASSUME TableInv, User, NEW t \in Tables, OnTableChanged(t), undoRedo' \in HistoryOf(doc.number),
           UNCHANGED <<profiles, options, tableDisk>>
    PROVE  TableInv'
<1>0. TableTypeOK /\ doc \in Documents /\ profiles.known \subseteq ConfigProfiles BY DEF TableInv, TableTypeOK
<1>1. edits' \in [done : Nat, closed : BOOLEAN] BY UserFits
<1> DEFINE changed == [doc EXCEPT !.dirty = TRUE]
           obsolete == Obsolete(t)
<1>2. changed \in Documents /\ changed.dirty /\ changed.number = doc.number BY <1>0 DEF Documents
<1>3. Extended(t) \in SUBSET ConfigProfiles /\ obsolete \in SUBSET ConfigProfiles BY <1>0, ColumnsFit
<1>4. PICK started : started \subseteq {"save"} /\ started = IF LiveSaveOf(doc) THEN {"save"} ELSE {}
  OBVIOUS
<1>5. \/ /\ table' = [t EXCEPT !.columns = Extended(t)]
         /\ doc' = [changed EXCEPT !.extended = TRUE]
         /\ UNCHANGED <<rendered, timers>>
      \/ /\ table' = [t EXCEPT !.columns = t.columns \ obsolete]
         /\ doc' = [changed EXCEPT !.dismissed = {}, !.extended = FALSE]
         /\ rendered' = Render(t.rows, profiles)
         /\ timers' = timers \cup started
      \/ /\ table' = t
         /\ doc' = [changed EXCEPT !.dismissed = obsolete]
         /\ timers' = timers \cup {"render"} \cup started
  BY <1>4 DEF OnTableChanged, RefreshRenderState
<1> HIDE DEF changed, obsolete
<1>6. timers' \subseteq {"render", "save"} BY <1>0, <1>4, <1>5 DEF TableTypeOK
<1>7. /\ doc' \in Documents /\ doc'.number = doc.number /\ doc'.dirty
      /\ \/ doc'.extended
         \/ "render" \in timers'
         \/ table' = [t EXCEPT !.columns = t.columns \ obsolete] /\ rendered' = Render(t.rows, profiles)
  <2>1. CASE doc' = [changed EXCEPT !.extended = TRUE] BY <1>2, <2>1 DEF Documents
  <2>2. CASE /\ table' = [t EXCEPT !.columns = t.columns \ obsolete]
             /\ doc' = [changed EXCEPT !.dismissed = {}, !.extended = FALSE]
             /\ rendered' = Render(t.rows, profiles)
    BY <1>2, <2>2 DEF Documents
  <2>3. CASE doc' = [changed EXCEPT !.dismissed = obsolete] /\ "render" \in timers'
    BY <1>2, <1>3, <2>3 DEF Documents
  <2> QED BY <1>5, <2>1, <2>2, <2>3
<1>8. t.columns \ obsolete \in SUBSET ConfigProfiles BY DEF Tables
<1>9. table' \in Tables BY <1>0, <1>3, <1>5, <1>8, ColumnsFit
<1>10. CleanMeansSaved' BY <1>7 DEF CleanMeansSaved
<1>11. ShownCliIsCurrent'
  <2>1. CASE doc'.extended \/ "render" \in timers' BY <2>1 DEF ShownCliIsCurrent
  <2>2. CASE table' = [t EXCEPT !.columns = t.columns \ obsolete] /\ rendered' = Render(t.rows, profiles)
    <3>1. table'.rows = t.rows BY <1>0, <1>8, <2>2, ColumnsFit
    <3> QED BY <2>2, <3>1 DEF ShownCliIsCurrent
  <2> QED BY <1>7, <2>1, <2>2
<1>12. /\ profiles' \in [known : SUBSET ConfigProfiles, blockOff : SUBSET ConfigProfiles]
       /\ options' \in [live : BOOLEAN, evenErrors : BOOLEAN]
       /\ tableDisk' \in [files : [TableFiles -> Seq(Rows)], backups : SUBSET Seq(Rows)]
  BY <1>0 DEF TableTypeOK
<1> QED BY <1>1, <1>6, <1>7, <1>9, <1>10, <1>11, <1>12, StepKeeps

LEMMA EditKeeps == ASSUME TableInv, NEW t \in Tables, Edit(t) PROVE TableInv'
<1>1. User /\ undoRedo' = Captured /\ OnTableChanged(t) /\ UNCHANGED <<profiles, options, tableDisk>> BY DEF Edit
<1>2. Captured \in HistoryOf(doc.number) BY CapturedFits DEF TableInv, TableTypeOK
<1> QED BY <1>1, <1>2, OnTableChangedKeeps

LEMMA RowsFit ==
    ASSUME NEW t \in Tables, NEW rs \in Seq(Rows)
    PROVE  [t EXCEPT !.rows = rs] \in Tables
BY DEF Tables

LEMMA EditsKeep ==
    ASSUME TableInv, SetCell \/ SetProfile \/ AddRow \/ DuplicateRow \/ DeleteRow \/ MoveRow
    PROVE  TableInv'
<1>0. table \in Tables /\ table.rows \in Seq(Rows) /\ DOMAIN table.rows = 1 .. Len(table.rows) /\ Len(table.rows) \in Nat
  BY DEF TableInv, TableTypeOK, Tables
<1>a. \A i \in 1 .. Len(table.rows) : table.rows[i] \in Rows BY <1>0
<1>1. CASE SetCell
  <2>1. PICK i \in DOMAIN table.rows, n \in DeviceNames \cup {Blank}, b \in BOOLEAN :
          Edit([table EXCEPT !.rows[i].name = n, !.rows[i].ok = b])
    BY <1>1 DEF SetCell
  <2> DEFINE row == [table.rows[i] EXCEPT !.name = n, !.ok = b]
             rs == [table.rows EXCEPT ![i] = row]
  <2>2. row \in Rows BY <1>0, <1>a DEF Rows
  <2> HIDE DEF row
  <2>3. rs \in Seq(Rows) BY <1>0, <2>2, ExceptSeq
  <2>4. [table EXCEPT !.rows[i].name = n, !.rows[i].ok = b] = [table EXCEPT !.rows = rs]
    BY <1>0, <1>a DEF row, Tables, Rows
  <2> HIDE DEF rs
  <2> QED BY <1>0, <2>1, <2>3, <2>4, RowsFit, EditKeeps
<1>2. CASE SetProfile
  <2>1. PICK i \in DOMAIN table.rows, p \in ConfigProfiles, b \in BOOLEAN :
          Edit([table EXCEPT !.rows[i].profile = p, !.rows[i].ok = b])
    BY <1>2 DEF SetProfile
  <2> DEFINE row == [table.rows[i] EXCEPT !.profile = p, !.ok = b]
             rs == [table.rows EXCEPT ![i] = row]
  <2>2. row \in Rows BY <1>0, <1>a DEF Rows
  <2> HIDE DEF row
  <2>3. rs \in Seq(Rows) BY <1>0, <2>2, ExceptSeq
  <2>4. [table EXCEPT !.rows[i].profile = p, !.rows[i].ok = b] = [table EXCEPT !.rows = rs]
    BY <1>0, <1>a DEF row, Tables, Rows
  <2> HIDE DEF rs
  <2> QED BY <1>0, <2>1, <2>3, <2>4, RowsFit, EditKeeps
<1>3. CASE AddRow
  <2> DEFINE wide(p) == [table EXCEPT !.columns = table.columns \cup {p}]
             snap(p) == [table |-> wide(p), of |-> doc.number]
             longer(p) == Append(undoRedo.undo, snap(p))
             undo(p) == IF Len(longer(p)) > UndoDepth THEN Tail(longer(p)) ELSE longer(p)
             new(p) == [name |-> Blank, ok |-> FALSE, profile |-> p]
             tall(p) == [wide(p) EXCEPT !.rows = Append(wide(p).rows, new(p))]
  <2>1. PICK p \in profiles.known :
          /\ User
          /\ undoRedo' = undoRedo \/ undoRedo' = [undo |-> undo(p), redo |-> <<>>]
          /\ OnTableChanged(tall(p))
          /\ UNCHANGED <<profiles, options, tableDisk>>
    BY <1>3 DEF AddRow
  <2>2. p \in ConfigProfiles BY DEF TableInv, TableTypeOK
  <2>3. wide(p) \in Tables /\ wide(p).rows = table.rows BY <1>0, <2>2 DEF Tables
  <2>4. new(p) \in Rows BY <2>2 DEF Rows
  <2> HIDE DEF wide, new
  <2>5. Append(wide(p).rows, new(p)) \in Seq(Rows) BY <1>0, <2>3, <2>4, AppendProperties
  <2>6. tall(p) \in Tables BY <2>3, <2>5, RowsFit
  <2>7. undoRedo' \in HistoryOf(doc.number)
    <3>1. undoRedo \in HistoryOf(doc.number) /\ undoRedo.undo \in Seq(SnapshotsOf(doc.number))
      BY DEF TableInv, HistoryOf
    <3>2. snap(p) \in SnapshotsOf(doc.number) BY <2>3 DEF SnapshotsOf
    <3> HIDE DEF snap
    <3>3. undo(p) \in Seq(SnapshotsOf(doc.number)) BY <3>1, <3>2, LongerFits
    <3> HIDE DEF undo
    <3>4. <<>> \in Seq(SnapshotsOf(doc.number)) BY EmptySeq
    <3>5. [undo |-> undo(p), redo |-> <<>>] \in HistoryOf(doc.number) BY <3>3, <3>4 DEF HistoryOf
    <3> QED BY <2>1, <3>1, <3>5
  <2> HIDE DEF tall
  <2> QED BY <2>1, <2>6, <2>7, OnTableChangedKeeps
<1>4. CASE DuplicateRow
  <2>1. PICK i \in DOMAIN table.rows : Edit([table EXCEPT !.rows = InsertAt(table.rows, i + 1, table.rows[i])])
    BY <1>4 DEF DuplicateRow
  <2>2. i + 1 \in 1 .. Len(table.rows) + 1 /\ table.rows[i] \in Rows BY <1>0, <1>a
  <2>3. InsertAt(table.rows, i + 1, table.rows[i]) \in Seq(Rows) BY <1>0, <2>2, InsertAtFits
  <2> QED BY <1>0, <2>1, <2>3, RowsFit, EditKeeps
<1>5. CASE DeleteRow
  <2>1. PICK i \in DOMAIN table.rows : Edit([table EXCEPT !.rows = RemoveAt(table.rows, i)])
    BY <1>5 DEF DeleteRow
  <2>2. RemoveAt(table.rows, i) \in Seq(Rows) BY <1>0, RemoveAtTold
  <2> QED BY <1>0, <2>1, <2>2, RowsFit, EditKeeps
<1>6. CASE MoveRow
  <2>1. PICK i \in DOMAIN table.rows, j \in DOMAIN table.rows :
          /\ i # j
          /\ Edit([table EXCEPT !.rows =
                     InsertAt(RemoveAt(table.rows, i), IF j > i THEN j - 1 ELSE j, table.rows[i])])
    BY <1>6 DEF MoveRow
  <2>2. PICK r : r = RemoveAt(table.rows, i) OBVIOUS
  <2>3. r \in Seq(Rows) /\ Len(r) = Len(table.rows) - 1 BY <1>0, <2>2, RemoveAtTold
  <2>4. PICK k : k = IF j > i THEN j - 1 ELSE j OBVIOUS
  <2>5. k \in 1 .. Len(r) + 1 /\ table.rows[i] \in Rows BY <1>0, <1>a, <2>1, <2>3, <2>4
  <2>6. InsertAt(r, k, table.rows[i]) \in Seq(Rows) BY <2>3, <2>5, InsertAtFits
  <2> QED BY <1>0, <2>1, <2>2, <2>4, <2>6, RowsFit, EditKeeps
<1> QED BY <1>1, <1>2, <1>3, <1>4, <1>5, <1>6

LEMMA IncrementCopyKeeps == ASSUME TableInv, IncrementCopy PROVE TableInv'
<1>0. /\ TableTypeOK /\ table \in Tables /\ table.rows \in Seq(Rows) /\ doc \in Documents
      /\ DOMAIN table.rows = 1 .. Len(table.rows) /\ Len(table.rows) \in Nat
  BY DEF TableInv, TableTypeOK, Tables
<1>1. PICK i \in DOMAIN table.rows, n \in DeviceNames :
        table' = [table EXCEPT !.rows = InsertAt(table.rows, i + 1, [table.rows[i] EXCEPT !.name = n])]
  BY DEF IncrementCopy
<1>2. /\ User /\ undoRedo' = Captured /\ rendered' = Render(table'.rows, profiles)
      /\ doc' = [doc EXCEPT !.quiet = TRUE, !.extended = FALSE]
      /\ UNCHANGED <<timers, profiles, options, tableDisk>>
  BY DEF IncrementCopy, RefreshRenderState
<1>3. [table.rows[i] EXCEPT !.name = n] \in Rows
  <2>1. table.rows[i] \in Rows BY <1>0
  <2> QED BY <2>1 DEF Rows
<1>4. table' \in Tables
  <2>1. i + 1 \in 1 .. Len(table.rows) + 1 BY <1>0
  <2>2. InsertAt(table.rows, i + 1, [table.rows[i] EXCEPT !.name = n]) \in Seq(Rows)
    BY <1>0, <1>3, <2>1, InsertAtFits
  <2> QED BY <1>0, <1>1, <2>2, RowsFit
<1>5. doc' \in Documents /\ doc'.number = doc.number /\ doc'.quiet BY <1>0, <1>2 DEF Documents
<1>6. undoRedo' \in HistoryOf(doc'.number) BY <1>0, <1>2, <1>5, CapturedFits DEF TableInv
<1>7. edits' \in [done : Nat, closed : BOOLEAN] BY <1>2, UserFits
<1>8. CleanMeansSaved' BY <1>5 DEF CleanMeansSaved
<1>9. ShownCliIsCurrent' BY <1>2 DEF ShownCliIsCurrent
<1>10. /\ timers' \subseteq {"render", "save"}
       /\ profiles' \in [known : SUBSET ConfigProfiles, blockOff : SUBSET ConfigProfiles]
       /\ options' \in [live : BOOLEAN, evenErrors : BOOLEAN]
       /\ tableDisk' \in [files : [TableFiles -> Seq(Rows)], backups : SUBSET Seq(Rows)]
  BY <1>0, <1>2 DEF TableTypeOK
<1> QED BY <1>4, <1>5, <1>6, <1>7, <1>8, <1>9, <1>10, StepKeeps

LEMMA RestoreKeeps ==
    ASSUME TableInv, User, NEW s \in SnapshotsOf(doc.number), Restore(s),
           undoRedo' \in HistoryOf(doc.number)
    PROVE  TableInv'
<1>0. TableTypeOK /\ doc \in Documents BY DEF TableInv, TableTypeOK
<1>1. /\ table' = s.table /\ rendered' = Render(s.table.rows, profiles)
      /\ doc' = [doc EXCEPT !.quiet = TRUE, !.extended = FALSE]
      /\ UNCHANGED <<timers, profiles, options, tableDisk>>
  BY DEF Restore, RefreshRenderState
<1>2. table' \in Tables BY <1>1 DEF SnapshotsOf
<1>3. doc' \in Documents /\ doc'.number = doc.number /\ doc'.quiet BY <1>0, <1>1 DEF Documents
<1>4. edits' \in [done : Nat, closed : BOOLEAN] BY UserFits
<1>5. CleanMeansSaved' BY <1>3 DEF CleanMeansSaved
<1>6. ShownCliIsCurrent' BY <1>1 DEF ShownCliIsCurrent
<1>7. /\ timers' \subseteq {"render", "save"}
      /\ profiles' \in [known : SUBSET ConfigProfiles, blockOff : SUBSET ConfigProfiles]
      /\ options' \in [live : BOOLEAN, evenErrors : BOOLEAN]
      /\ tableDisk' \in [files : [TableFiles -> Seq(Rows)], backups : SUBSET Seq(Rows)]
  BY <1>0, <1>1 DEF TableTypeOK
<1> QED BY <1>2, <1>3, <1>4, <1>5, <1>6, <1>7, StepKeeps

LEMMA HistoryKeeps == ASSUME TableInv, UndoLastChange \/ RedoLastChange PROVE TableInv'
<1> DEFINE S == SnapshotsOf(doc.number)
<1>1. undoRedo.undo \in Seq(S) /\ undoRedo.redo \in Seq(S) BY DEF TableInv, HistoryOf
<1>2. Snapshot \in S BY DEF Snapshot, SnapshotsOf, TableInv, TableTypeOK
<1>3. CASE UndoLastChange
  <2>1. /\ User /\ undoRedo.undo # <<>> /\ Restore(Last(undoRedo.undo))
        /\ undoRedo' = [undo |-> Front(undoRedo.undo), redo |-> Append(undoRedo.redo, Snapshot)]
    BY <1>3 DEF UndoLastChange
  <2>2. Front(undoRedo.undo) \in Seq(S) /\ Last(undoRedo.undo) \in S BY <1>1, <2>1, FrontFits
  <2>3. Append(undoRedo.redo, Snapshot) \in Seq(S) BY <1>1, <1>2, AppendProperties
  <2>4. undoRedo' \in HistoryOf(doc.number) BY <2>1, <2>2, <2>3 DEF HistoryOf
  <2> QED BY <2>1, <2>2, <2>4, RestoreKeeps
<1>4. CASE RedoLastChange
  <2>1. /\ User /\ undoRedo.redo # <<>> /\ Restore(Last(undoRedo.redo))
        /\ undoRedo' = [undo |-> Append(undoRedo.undo, Snapshot), redo |-> Front(undoRedo.redo)]
    BY <1>4 DEF RedoLastChange
  <2>2. Front(undoRedo.redo) \in Seq(S) /\ Last(undoRedo.redo) \in S BY <1>1, <2>1, FrontFits
  <2>3. Append(undoRedo.undo, Snapshot) \in Seq(S) BY <1>1, <1>2, AppendProperties
  <2>4. undoRedo' \in HistoryOf(doc.number) BY <2>1, <2>2, <2>3 DEF HistoryOf
  <2> QED BY <2>1, <2>2, <2>4, RestoreKeeps
<1> QED BY <1>3, <1>4

----------------------------------------------------------------------------
(* The document.                                                           *)

\* The new document is the file it was read from, or has none.
LEMMA ReplacedKeeps ==
    ASSUME TableInv, User, NEW rs \in Seq(Rows), NEW f \in TableFiles \cup {NoTableFile}, NEW dirty \in BOOLEAN,
           Replaced(rs, f, dirty), f = NoTableFile \/ tableDisk.files[f] = rs
    PROVE  TableInv'
<1>0. /\ TableTypeOK /\ doc.number \in Nat /\ doc.dismissed \in SUBSET ConfigProfiles
      /\ profiles.known \subseteq ConfigProfiles
  BY DEF TableInv, TableTypeOK, Documents
<1> DEFINE bare == [rows |-> rs, columns |-> {}]
<1>1. /\ table' = [rows |-> rs, columns |-> Extended(bare)]
      /\ doc' = [file |-> f, dirty |-> dirty, quiet |-> FALSE, extended |-> FALSE,
                 dismissed |-> doc.dismissed, number |-> doc.number + 1]
      /\ undoRedo' = [undo |-> <<>>, redo |-> <<>>]
      /\ rendered' = Render(rs, profiles)
      /\ UNCHANGED <<timers, profiles, options, tableDisk>>
  BY DEF Replaced, RefreshRenderState
<1>2. bare \in Tables BY DEF Tables
<1> HIDE DEF bare
<1>3. Extended(bare) \in SUBSET ConfigProfiles BY <1>0, <1>2, ColumnsFit
<1>4. table' \in Tables /\ table'.rows = rs BY <1>1, <1>3 DEF Tables
<1>5. doc' \in Documents /\ doc'.file = f BY <1>0, <1>1 DEF Documents
<1>6. undoRedo' \in HistoryOf(doc'.number)
  <2>1. <<>> \in Seq(SnapshotsOf(doc'.number)) BY EmptySeq
  <2> QED BY <1>1, <2>1 DEF HistoryOf
<1>7. edits' \in [done : Nat, closed : BOOLEAN] BY UserFits
<1>8. CleanMeansSaved' BY <1>1, <1>4, <1>5 DEF CleanMeansSaved
<1>9. ShownCliIsCurrent' BY <1>1, <1>4 DEF ShownCliIsCurrent
<1>10. /\ timers' \subseteq {"render", "save"}
       /\ profiles' \in [known : SUBSET ConfigProfiles, blockOff : SUBSET ConfigProfiles]
       /\ options' \in [live : BOOLEAN, evenErrors : BOOLEAN]
       /\ tableDisk' \in [files : [TableFiles -> Seq(Rows)], backups : SUBSET Seq(Rows)]
  BY <1>0, <1>1 DEF TableTypeOK
<1> QED BY <1>4, <1>5, <1>6, <1>7, <1>8, <1>9, <1>10, StepKeeps

LEMMA OpeningKeeps == ASSUME TableInv, LoadDeviceFile \/ StartSample PROVE TableInv'
<1>0. TableTypeOK BY DEF TableInv
<1>1. CASE LoadDeviceFile
  <2>1. PICK f \in TableFiles : User /\ Replaced(tableDisk.files[f], f, FALSE) BY <1>1 DEF LoadDeviceFile
  <2>2. tableDisk.files[f] \in Seq(Rows) BY <1>0 DEF TableTypeOK
  <2> QED BY <2>1, <2>2, ReplacedKeeps
<1>2. CASE StartSample
  <2>1. PICK p \in profiles.known, n \in DeviceNames :
          User /\ Replaced(<<[name |-> n, ok |-> TRUE, profile |-> p]>>, NoTableFile, TRUE)
    BY <1>2 DEF StartSample
  <2>2. p \in ConfigProfiles BY <1>0 DEF TableTypeOK
  <2>3. [name |-> n, ok |-> TRUE, profile |-> p] \in Rows BY <2>2 DEF Rows
  <2>4. <<[name |-> n, ok |-> TRUE, profile |-> p]>> \in Seq(Rows) BY <2>3
  <2> QED BY <2>1, <2>4, ReplacedKeeps
<1> QED BY <1>1, <1>2

LEMMA UnreadableIsStored == Unreadable \in Seq(Rows)
<1>1. [name |-> Blank, ok |-> FALSE, profile |-> Blank] \in Rows BY DEF Rows
<1> QED BY <1>1 DEF Unreadable

\* A live save writes the file, or leaves the table dirty.
LEMMA WriteTold ==
    ASSUME TableTypeOK, doc.dirty, NEW f \in TableFiles, Write(f)
    PROVE  /\ tableDisk' \in [files : [TableFiles -> Seq(Rows)], backups : SUBSET Seq(Rows)]
           /\ doc' \in Documents /\ doc'.number = doc.number /\ ~doc'.extended
           /\ doc'.dirty \/ (doc'.file = f /\ tableDisk'.files[f] = table.rows)
<1>0. /\ tableDisk \in [files : [TableFiles -> Seq(Rows)], backups : SUBSET Seq(Rows)]
      /\ table.rows \in Seq(Rows) /\ doc \in Documents
  BY DEF TableTypeOK, Tables
<1>1. ASSUME NEW rs \in Seq(Rows), tableDisk' = [tableDisk EXCEPT !.files[f] = rs]
      PROVE  /\ tableDisk' \in [files : [TableFiles -> Seq(Rows)], backups : SUBSET Seq(Rows)]
             /\ tableDisk'.files[f] = rs
  BY <1>0, <1>1
<1>2. CASE /\ tableDisk' = [tableDisk EXCEPT !.files[f] = table.rows]
           /\ doc' = [doc EXCEPT !.file = f, !.dirty = FALSE, !.quiet = FALSE, !.extended = FALSE]
  <2>1. doc' \in Documents /\ doc'.number = doc.number /\ ~doc'.extended /\ doc'.file = f
    BY <1>0, <1>2 DEF Documents
  <2> QED BY <1>0, <1>1, <1>2, <2>1
<1>3. CASE /\ \E after \in {Unreadable, tableDisk.files[f]} : tableDisk' = [tableDisk EXCEPT !.files[f] = after]
           /\ doc' = [doc EXCEPT !.extended = FALSE]
  <2>1. doc' \in Documents /\ doc'.number = doc.number /\ ~doc'.extended /\ doc'.dirty
    BY <1>0, <1>3 DEF Documents
  <2>2. PICK after \in {Unreadable, tableDisk.files[f]} : tableDisk' = [tableDisk EXCEPT !.files[f] = after]
    BY <1>3
  <2>3. after \in Seq(Rows) BY <1>0, UnreadableIsStored
  <2> QED BY <1>1, <2>1, <2>2, <2>3
<1> QED BY <1>2, <1>3 DEF Write

LEMMA AutoSaveTold ==
    ASSUME TableInv, LiveSaveOf(doc), doc.dirty, AutoSave
    PROVE  /\ tableDisk' \in [files : [TableFiles -> Seq(Rows)], backups : SUBSET Seq(Rows)]
           /\ doc' \in Documents /\ doc'.number = doc.number /\ ~doc'.extended
           /\ doc'.dirty \/ (doc'.file \in TableFiles /\ tableDisk'.files[doc'.file] = table.rows)
           /\ rendered' = Render(table.rows, profiles)
<1>0. TableTypeOK /\ doc \in Documents BY DEF TableInv, TableTypeOK
<1>1. doc.file \in TableFiles BY <1>0 DEF LiveSaveOf, Documents
<1>2. rendered' = Render(table.rows, profiles) BY DEF AutoSave, RefreshRenderState
<1>3. CASE doc' = [doc EXCEPT !.extended = FALSE] /\ UNCHANGED tableDisk
  <2>1. doc' \in Documents /\ doc'.number = doc.number /\ ~doc'.extended /\ doc'.dirty
    BY <1>0, <1>3 DEF Documents
  <2> QED BY <1>0, <1>2, <1>3, <2>1 DEF TableTypeOK
<1>4. CASE Write(doc.file) BY <1>0, <1>1, <1>2, <1>4, WriteTold
<1> QED BY <1>3, <1>4 DEF AutoSave

\* What the timer and the closing window do with the file.
LEMMA LastSaveTold ==
    ASSUME TableInv, UNCHANGED <<table, undoRedo, profiles, options>>,
           IF LiveSaveOf(doc) /\ doc.dirty THEN AutoSave ELSE UNCHANGED <<rendered, doc, tableDisk>>
    PROVE  /\ tableDisk' \in [files : [TableFiles -> Seq(Rows)], backups : SUBSET Seq(Rows)]
           /\ doc' \in Documents /\ undoRedo' \in HistoryOf(doc'.number)
           /\ CleanMeansSaved'
           /\ \/ rendered' = Render(table.rows, profiles)
              \/ UNCHANGED <<rendered, doc>>
<1>0. TableTypeOK /\ undoRedo \in HistoryOf(doc.number) /\ CleanMeansSaved BY DEF TableInv
<1>1. CASE LiveSaveOf(doc) /\ doc.dirty /\ AutoSave
  <2>1. /\ tableDisk' \in [files : [TableFiles -> Seq(Rows)], backups : SUBSET Seq(Rows)]
        /\ doc' \in Documents /\ doc'.number = doc.number
        /\ doc'.dirty \/ (doc'.file \in TableFiles /\ tableDisk'.files[doc'.file] = table.rows)
        /\ rendered' = Render(table.rows, profiles)
    BY <1>1, AutoSaveTold
  <2>2. CleanMeansSaved' BY <2>1 DEF CleanMeansSaved
  <2> QED BY <1>0, <2>1, <2>2
<1>2. CASE UNCHANGED <<rendered, doc, tableDisk>> BY <1>0, <1>2 DEF TableTypeOK, CleanMeansSaved
<1> QED BY <1>1, <1>2

LEMMA SavingKeeps == ASSUME TableInv, AutoSaveTimer \/ PrepareClose PROVE TableInv'
<1>0. TableTypeOK /\ ShownCliIsCurrent BY DEF TableInv
<1>1. /\ UNCHANGED <<table, undoRedo, profiles, options>>
      /\ IF LiveSaveOf(doc) /\ doc.dirty THEN AutoSave ELSE UNCHANGED <<rendered, doc, tableDisk>>
  BY DEF AutoSaveTimer, PrepareClose
<1>2. /\ tableDisk' \in [files : [TableFiles -> Seq(Rows)], backups : SUBSET Seq(Rows)]
      /\ doc' \in Documents /\ undoRedo' \in HistoryOf(doc'.number)
      /\ CleanMeansSaved'
      /\ \/ rendered' = Render(table.rows, profiles)
         \/ UNCHANGED <<rendered, doc>>
  BY <1>1, LastSaveTold
<1>3. /\ table' \in Tables
      /\ profiles' \in [known : SUBSET ConfigProfiles, blockOff : SUBSET ConfigProfiles]
      /\ options' \in [live : BOOLEAN, evenErrors : BOOLEAN]
  BY <1>0, <1>1 DEF TableTypeOK
<1>4. CASE AutoSaveTimer
  <2>1. timers' = timers \ {"save"} /\ UNCHANGED edits BY <1>4 DEF AutoSaveTimer
  <2>2. timers' \subseteq {"render", "save"} /\ edits' \in [done : Nat, closed : BOOLEAN]
    BY <1>0, <2>1 DEF TableTypeOK
  <2>3. ShownCliIsCurrent' BY <1>0, <1>1, <1>2, <2>1 DEF ShownCliIsCurrent
  <2> QED BY <1>2, <1>3, <2>2, <2>3, StepKeeps
<1>5. CASE PrepareClose
  <2>1. timers' = {} /\ edits' = [edits EXCEPT !.done = @ + 1, !.closed = TRUE] BY <1>5 DEF PrepareClose
  <2>2. timers' \subseteq {"render", "save"} /\ edits' \in [done : Nat, closed : BOOLEAN] /\ edits'.closed
    <3>1. edits \in [done : Nat, closed : BOOLEAN] BY <1>0 DEF TableTypeOK
    <3>2. edits.done + 1 \in Nat BY <3>1
    <3> QED BY <2>1, <3>1, <3>2
  <2>3. ShownCliIsCurrent' BY <2>2 DEF ShownCliIsCurrent
  <2> QED BY <1>2, <1>3, <2>2, <2>3, StepKeeps
<1> QED BY <1>4, <1>5

\* A save by hand keeps a copy of the file it may tear.
LEMMA SaveByHandKeeps == ASSUME TableInv, SaveCurrentFileAs PROVE TableInv'
<1>0. /\ TableTypeOK /\ CleanMeansSaved /\ undoRedo \in HistoryOf(doc.number) /\ doc \in Documents
      /\ tableDisk \in [files : [TableFiles -> Seq(Rows)], backups : SUBSET Seq(Rows)]
      /\ table.rows \in Seq(Rows)
  BY DEF TableInv, TableTypeOK, Tables
<1>1. PICK f \in TableFiles :
        /\ User
        /\ rendered' = Render(table.rows, profiles)
        /\ LET copies == tableDisk.backups \cup ({tableDisk.files[f]} \ {Unreadable})
           IN  \/ /\ tableDisk' = [files |-> [tableDisk.files EXCEPT ![f] = table.rows], backups |-> copies]
                  /\ doc' = [doc EXCEPT !.file = f, !.dirty = FALSE, !.quiet = FALSE, !.extended = FALSE]
               \/ /\ \E after \in {Unreadable, tableDisk.files[f]} :
                        tableDisk' = [files |-> [tableDisk.files EXCEPT ![f] = after], backups |-> copies]
                  /\ doc' = [doc EXCEPT !.extended = FALSE]
        /\ UNCHANGED <<table, timers, undoRedo, profiles, options>>
  BY DEF SaveCurrentFileAs, RefreshRenderState
<1>2. PICK copies : copies = tableDisk.backups \cup ({tableDisk.files[f]} \ {Unreadable}) OBVIOUS
<1>3. /\ copies \in SUBSET Seq(Rows) /\ tableDisk.backups \subseteq copies
      /\ tableDisk.files[f] = Unreadable \/ tableDisk.files[f] \in copies
  BY <1>0, <1>2
<1>4. /\ edits' \in [done : Nat, closed : BOOLEAN]
      /\ table' \in Tables /\ timers' \subseteq {"render", "save"}
      /\ profiles' \in [known : SUBSET ConfigProfiles, blockOff : SUBSET ConfigProfiles]
      /\ options' \in [live : BOOLEAN, evenErrors : BOOLEAN]
      /\ ShownCliIsCurrent'
  BY <1>0, <1>1, UserFits DEF TableTypeOK, ShownCliIsCurrent
<1>5. CASE /\ tableDisk' = [files |-> [tableDisk.files EXCEPT ![f] = table.rows], backups |-> copies]
           /\ doc' = [doc EXCEPT !.file = f, !.dirty = FALSE, !.quiet = FALSE, !.extended = FALSE]
  <2>1. doc' \in Documents /\ doc'.number = doc.number /\ doc'.file = f BY <1>0, <1>5 DEF Documents
  <2>2. /\ tableDisk' \in [files : [TableFiles -> Seq(Rows)], backups : SUBSET Seq(Rows)]
        /\ tableDisk'.files[f] = table.rows
    BY <1>0, <1>3, <1>5
  <2>3. CleanMeansSaved' BY <1>1, <2>1, <2>2 DEF CleanMeansSaved
  <2> QED BY <1>0, <1>1, <1>4, <2>1, <2>2, <2>3, StepKeeps
<1>6. CASE /\ \E after \in {Unreadable, tableDisk.files[f]} :
                 tableDisk' = [files |-> [tableDisk.files EXCEPT ![f] = after], backups |-> copies]
           /\ doc' = [doc EXCEPT !.extended = FALSE]
  <2>1. PICK after \in {Unreadable, tableDisk.files[f]} :
          tableDisk' = [files |-> [tableDisk.files EXCEPT ![f] = after], backups |-> copies]
    BY <1>6
  <2>2. /\ doc' \in Documents /\ doc'.number = doc.number /\ doc'.file = doc.file
        /\ doc'.dirty = doc.dirty /\ doc'.quiet = doc.quiet
    BY <1>0, <1>6 DEF Documents
  <2>3. after \in Seq(Rows) BY <1>0, UnreadableIsStored
  <2>4. /\ tableDisk' \in [files : [TableFiles -> Seq(Rows)], backups : SUBSET Seq(Rows)]
        /\ tableDisk'.backups = copies
        /\ \A g \in TableFiles : tableDisk'.files[g] = IF g = f THEN after ELSE tableDisk.files[g]
    BY <1>0, <1>3, <2>1, <2>3
  <2>5. CleanMeansSaved'
    <3> SUFFICES ASSUME doc.file # NoTableFile, ~doc.dirty, ~doc.quiet
                 PROVE  \/ tableDisk'.files[doc.file] = table.rows
                        \/ tableDisk'.files[doc.file] = Unreadable /\ table.rows \in tableDisk'.backups
      BY <1>1, <2>2 DEF CleanMeansSaved
    <3>1. doc.file \in TableFiles BY <1>0 DEF Documents
    <3>2. \/ tableDisk.files[doc.file] = table.rows
          \/ tableDisk.files[doc.file] = Unreadable /\ table.rows \in tableDisk.backups
      BY <1>0 DEF CleanMeansSaved
    <3>3. CASE doc.file = f BY <1>3, <2>1, <2>4, <3>1, <3>2, <3>3
    <3>4. CASE doc.file # f BY <1>3, <2>4, <3>1, <3>2, <3>4
    <3> QED BY <3>3, <3>4
  <2> QED BY <1>0, <1>1, <1>4, <2>2, <2>4, <2>5, StepKeeps
<1> QED BY <1>1, <1>2, <1>5, <1>6

\* Steps that leave rows, file and marks of the document alone.
LEMMA DocumentStays ==
    ASSUME TableInv, UNCHANGED <<table, undoRedo, tableDisk>>,
           doc' = doc \/ doc' = [doc EXCEPT !.extended = FALSE]
    PROVE  doc' \in Documents /\ undoRedo' \in HistoryOf(doc'.number) /\ CleanMeansSaved'
<1>0. doc \in Documents /\ CleanMeansSaved /\ undoRedo \in HistoryOf(doc.number) BY DEF TableInv, TableTypeOK
<1>1. /\ doc' \in Documents /\ doc'.number = doc.number /\ doc'.file = doc.file
      /\ doc'.dirty = doc.dirty /\ doc'.quiet = doc.quiet
  BY <1>0 DEF Documents
<1> QED BY <1>0, <1>1 DEF CleanMeansSaved

LEMMA RenderTimerKeeps == ASSUME TableInv, RenderTimer PROVE TableInv'
<1>0. TableTypeOK BY DEF TableInv
<1>1. /\ timers' = timers \ {"render"} /\ rendered' = Render(table.rows, profiles)
      /\ doc' = [doc EXCEPT !.extended = FALSE]
      /\ UNCHANGED <<table, undoRedo, profiles, options, tableDisk, edits>>
  BY DEF RenderTimer, RefreshRenderState
<1>2. doc' \in Documents /\ undoRedo' \in HistoryOf(doc'.number) /\ CleanMeansSaved' BY <1>1, DocumentStays
<1>3. ShownCliIsCurrent' BY <1>1 DEF ShownCliIsCurrent
<1>4. /\ table' \in Tables /\ timers' \subseteq {"render", "save"}
      /\ profiles' \in [known : SUBSET ConfigProfiles, blockOff : SUBSET ConfigProfiles]
      /\ options' \in [live : BOOLEAN, evenErrors : BOOLEAN]
      /\ tableDisk' \in [files : [TableFiles -> Seq(Rows)], backups : SUBSET Seq(Rows)]
      /\ edits' \in [done : Nat, closed : BOOLEAN]
  BY <1>0, <1>1 DEF TableTypeOK
<1> QED BY <1>2, <1>3, <1>4, StepKeeps

LEMMA SwitchLiveSaveKeeps == ASSUME TableInv, SwitchLiveSave PROVE TableInv'
<1>0. TableTypeOK /\ ShownCliIsCurrent BY DEF TableInv
<1>1. /\ User
      /\ options' \in {[options EXCEPT !.live = ~@], [options EXCEPT !.evenErrors = ~@]}
      /\ timers' = timers \cup {"save"} \/ timers' = timers
      /\ UNCHANGED <<table, rendered, doc, undoRedo, profiles, tableDisk>>
  BY DEF SwitchLiveSave
<1>2. doc' \in Documents /\ undoRedo' \in HistoryOf(doc'.number) /\ CleanMeansSaved' BY <1>1, DocumentStays
<1>3. edits' \in [done : Nat, closed : BOOLEAN] /\ ~edits.closed BY <1>1, UserFits DEF User
<1>4. ShownCliIsCurrent' BY <1>0, <1>1, <1>3 DEF ShownCliIsCurrent
<1>5. options' \in [live : BOOLEAN, evenErrors : BOOLEAN] BY <1>0, <1>1 DEF TableTypeOK
<1>6. /\ table' \in Tables /\ timers' \subseteq {"render", "save"}
      /\ profiles' \in [known : SUBSET ConfigProfiles, blockOff : SUBSET ConfigProfiles]
      /\ tableDisk' \in [files : [TableFiles -> Seq(Rows)], backups : SUBSET Seq(Rows)]
  BY <1>0, <1>1 DEF TableTypeOK
<1> QED BY <1>2, <1>3, <1>4, <1>5, <1>6, StepKeeps

LEMMA ReloadProfilesKeeps ==
    ASSUME TableInv, User, NEW known \in SUBSET ConfigProfiles, ReloadProfiles(known)
    PROVE  TableInv'
<1>0. /\ TableTypeOK /\ table \in Tables /\ doc \in Documents
      /\ undoRedo \in HistoryOf(doc.number) /\ CleanMeansSaved
  BY DEF TableInv, TableTypeOK
<1> DEFINE columns == table.columns \cup ({table.rows[i].profile : i \in DOMAIN table.rows} \cap known)
<1>1. /\ profiles' = [profiles EXCEPT !.known = known]
      /\ table' = [table EXCEPT !.columns = columns]
      /\ rendered' = Render(table.rows, profiles')
      /\ doc' = [doc EXCEPT !.extended = FALSE]
      /\ UNCHANGED <<timers, undoRedo, options, tableDisk>>
  BY DEF ReloadProfiles, RefreshRenderState
<1>2. columns \in SUBSET ConfigProfiles BY <1>0 DEF Tables
<1> HIDE DEF columns
<1>3. table' \in Tables /\ table'.rows = table.rows BY <1>0, <1>1, <1>2 DEF Tables
<1>4. /\ doc' \in Documents /\ doc'.number = doc.number /\ doc'.file = doc.file
      /\ doc'.dirty = doc.dirty /\ doc'.quiet = doc.quiet
  BY <1>0, <1>1 DEF Documents
<1>5. CleanMeansSaved' BY <1>0, <1>1, <1>3, <1>4 DEF CleanMeansSaved
<1>6. ShownCliIsCurrent' BY <1>1, <1>3 DEF ShownCliIsCurrent
<1>7. /\ timers' \subseteq {"render", "save"}
      /\ profiles' \in [known : SUBSET ConfigProfiles, blockOff : SUBSET ConfigProfiles]
      /\ options' \in [live : BOOLEAN, evenErrors : BOOLEAN]
      /\ tableDisk' \in [files : [TableFiles -> Seq(Rows)], backups : SUBSET Seq(Rows)]
      /\ edits' \in [done : Nat, closed : BOOLEAN]
  BY <1>0, <1>1, UserFits DEF TableTypeOK
<1> QED BY <1>0, <1>1, <1>3, <1>4, <1>5, <1>6, <1>7, StepKeeps

LEMMA ProfilesKeep == ASSUME TableInv, TableProfiles PROVE TableInv'
<1>0. TableTypeOK /\ profiles.known \in SUBSET ConfigProfiles BY DEF TableInv, TableTypeOK
<1>1. CASE DeleteProfile
  <2>1. PICK p \in profiles.known : User /\ ReloadProfiles(profiles.known \ {p}) BY <1>1 DEF DeleteProfile
  <2>2. profiles.known \ {p} \in SUBSET ConfigProfiles BY <1>0
  <2> QED BY <2>1, <2>2, ReloadProfilesKeeps
<1>2. CASE SaveProfile
  <2>1. PICK p \in ConfigProfiles : User /\ ReloadProfiles(profiles.known \cup {p}) BY <1>2 DEF SaveProfile
  <2>2. profiles.known \cup {p} \in SUBSET ConfigProfiles BY <1>0
  <2> QED BY <2>1, <2>2, ReloadProfilesKeeps
<1>3. CASE ToggleBlock
  <2>1. PICK p \in profiles.known :
          profiles' = [profiles EXCEPT !.blockOff = IF p \in @ THEN @ \ {p} ELSE @ \cup {p}]
    BY <1>3 DEF ToggleBlock
  <2>2. User /\ timers' = timers \cup {"render"} /\ UNCHANGED <<table, rendered, doc, undoRedo, options, tableDisk>>
    BY <1>3 DEF ToggleBlock
  <2>3. doc' \in Documents /\ undoRedo' \in HistoryOf(doc'.number) /\ CleanMeansSaved' BY <2>2, DocumentStays
  <2>4. ShownCliIsCurrent' BY <2>2 DEF ShownCliIsCurrent
  <2>5. profiles' \in [known : SUBSET ConfigProfiles, blockOff : SUBSET ConfigProfiles]
    BY <1>0, <2>1 DEF TableTypeOK
  <2>6. /\ table' \in Tables /\ timers' \subseteq {"render", "save"}
        /\ options' \in [live : BOOLEAN, evenErrors : BOOLEAN]
        /\ tableDisk' \in [files : [TableFiles -> Seq(Rows)], backups : SUBSET Seq(Rows)]
        /\ edits' \in [done : Nat, closed : BOOLEAN]
    BY <1>0, <2>2, UserFits DEF TableTypeOK
  <2> QED BY <2>3, <2>4, <2>5, <2>6, StepKeeps
<1> QED BY <1>1, <1>2, <1>3 DEF TableProfiles

LEMMA OutputKeeps == ASSUME TableInv, TableOutput PROVE TableInv'
<1>0. TableTypeOK /\ ShownCliIsCurrent BY DEF TableInv
<1>1. User /\ UNCHANGED <<table, rendered, timers, doc, undoRedo, profiles, options, tableDisk>>
  BY DEF TableOutput, CopyRowCli, SendToInspector
<1>2. doc' \in Documents /\ undoRedo' \in HistoryOf(doc'.number) /\ CleanMeansSaved' BY <1>1, DocumentStays
<1>3. edits' \in [done : Nat, closed : BOOLEAN] /\ ~edits.closed BY <1>1, UserFits DEF User
<1>4. ShownCliIsCurrent' BY <1>0, <1>1, <1>3 DEF ShownCliIsCurrent
<1>5. /\ table' \in Tables /\ timers' \subseteq {"render", "save"}
      /\ profiles' \in [known : SUBSET ConfigProfiles, blockOff : SUBSET ConfigProfiles]
      /\ options' \in [live : BOOLEAN, evenErrors : BOOLEAN]
      /\ tableDisk' \in [files : [TableFiles -> Seq(Rows)], backups : SUBSET Seq(Rows)]
  BY <1>0, <1>1 DEF TableTypeOK
<1> QED BY <1>2, <1>3, <1>4, <1>5, StepKeeps

LEMMA TableStarts == TableInit => TableInv
<1> SUFFICES ASSUME TableInit PROVE TableInv OBVIOUS
<1>1. /\ table = [rows |-> <<>>, columns |-> {}] /\ rendered = <<>> /\ timers = {}
      /\ doc = [file |-> NoTableFile, dirty |-> FALSE, quiet |-> FALSE, extended |-> FALSE,
                dismissed |-> {}, number |-> 0]
      /\ undoRedo = [undo |-> <<>>, redo |-> <<>>]
      /\ profiles = [known |-> ConfigProfiles, blockOff |-> {}]
      /\ options \in [live : BOOLEAN, evenErrors : BOOLEAN]
      /\ tableDisk \in [files : [TableFiles -> StoredTables], backups : {{}}]
      /\ edits = [done |-> 0, closed |-> FALSE]
  BY DEF TableInit
<1>2. <<>> \in Seq(Rows) /\ <<>> \in Seq(SnapshotsOf(0)) BY EmptySeq
<1>3. table \in Tables /\ doc \in Documents BY <1>1, <1>2 DEF Tables, Documents
<1>4. undoRedo \in HistoryOf(doc.number) BY <1>1, <1>2 DEF HistoryOf
<1>5. StoredTables \subseteq Seq(Rows)
  <2>1. ASSUME NEW r \in TableRows PROVE <<r>> \in Seq(Rows)
    <3>1. r \in Rows BY DEF TableRows, Rows
    <3> QED BY <3>1
  <2> QED BY <2>1, UnreadableIsStored DEF StoredTables
<1>6. tableDisk \in [files : [TableFiles -> Seq(Rows)], backups : SUBSET Seq(Rows)] BY <1>1, <1>5
<1>7. CleanMeansSaved BY <1>1 DEF CleanMeansSaved
<1>8. ShownCliIsCurrent
  <2>1. Render(<<>>, profiles) = <<>> BY DEF Render
  <2> QED BY <1>1, <2>1 DEF ShownCliIsCurrent
<1>9. TableTypeOK BY <1>1, <1>3, <1>6 DEF TableTypeOK
<1> QED BY <1>4, <1>7, <1>8, <1>9 DEF TableInv

LEMMA TableIsSafe == TableInv => TableIsRight
<1> SUFFICES ASSUME TableInv PROVE TableIsRight OBVIOUS
<1>1. undoRedo.undo \in Seq(SnapshotsOf(doc.number)) /\ undoRedo.redo \in Seq(SnapshotsOf(doc.number))
  BY DEF TableInv, HistoryOf
<1>2. HistoryIsOfThisDocument
  <2> SUFFICES ASSUME NEW s \in Range(undoRedo.undo) \cup Range(undoRedo.redo) PROVE s.of = doc.number
    BY DEF HistoryIsOfThisDocument
  <2>1. s \in SnapshotsOf(doc.number) BY <1>1 DEF Range
  <2> QED BY <2>1 DEF SnapshotsOf
<1> QED BY <1>2 DEF TableInv, TableIsRight

\* For any tables, files, profiles and history depth, and any order of edits, timers,
\* saves that work or fail, undo and redo, and profiles that come and go
\* (desktop_impl.py on_table_changed, _save_to_path, _restore_history_snapshot): a
\* table that counts as saved is in its file or in a backup, undo never reaches into
\* another document, and the CLI shown is that of the rows.
THEOREM TableAlwaysRight == TableInit /\ [][TableNext]_tableVars => []TableIsRight
<1>1. TableInit => TableInv BY TableStarts
<1>2. TableInv /\ [TableNext]_tableVars => TableInv'
  <2> SUFFICES ASSUME TableInv, [TableNext]_tableVars PROVE TableInv' OBVIOUS
  <2>1. CASE UNCHANGED tableVars
    BY <2>1 DEF tableVars, TableInv, TableTypeOK, CleanMeansSaved, ShownCliIsCurrent
  <2>2. CASE TableEdits BY <2>2, EditsKeep, IncrementCopyKeeps DEF TableEdits
  <2>3. CASE TableHistory BY <2>3, HistoryKeeps DEF TableHistory
  <2>4. CASE TableDocument BY <2>4, OpeningKeeps, SaveByHandKeeps, SwitchLiveSaveKeeps, SavingKeeps DEF TableDocument
  <2>5. CASE TableTimers BY <2>5, SavingKeeps, RenderTimerKeeps DEF TableTimers
  <2>6. CASE TableProfiles BY <2>6, ProfilesKeep
  <2>7. CASE TableOutput BY <2>7, OutputKeeps
  <2> QED BY <2>1, <2>2, <2>3, <2>4, <2>5, <2>6, <2>7 DEF TableNext
<1> QED BY <1>1, <1>2, TableIsSafe, PTL

----------------------------------------------------------------------------
(* The window as a whole: a step of it is a step of one part and leaves the *)
(* others alone, the updater included, which runs on when the window is     *)
(* gone.  What is proved of the parts therefore holds of the whole.         *)

LEMMA StepsAreOfOnePart ==
    [MCNext]_allVars =>
        /\ [TableNext]_tableVars /\ [ProfileNext]_profileVars /\ [PagesNext]_winVars
        /\ [UpdateNext]_updateVars /\ [Next]_vars
<1> SUFFICES ASSUME [MCNext]_allVars
             PROVE  /\ [TableNext]_tableVars /\ [ProfileNext]_profileVars /\ [PagesNext]_winVars
                    /\ [UpdateNext]_updateVars /\ [Next]_vars
  OBVIOUS
<1>1. CASE UNCHANGED allVars
  <2>1. UNCHANGED <<tableVars, profileVars, winVars, updateVars, vars>> BY <1>1 DEF allVars
  <2> QED BY <2>1
<1>2. CASE Editors
  <2>1. UNCHANGED <<winVars, updateVars, vars>> BY <1>2 DEF Editors
  <2>2. \/ TableNext /\ UNCHANGED profileVars
        \/ ProfileNext /\ UNCHANGED tableVars
    BY <1>2 DEF Editors, Editor
  <2> QED BY <2>1, <2>2
<1>3. CASE Moving
  <2>1. PagesNext /\ UNCHANGED <<tableVars, profileVars, updateVars, vars>> BY <1>3 DEF Moving
  <2> QED BY <2>1
<1>4. CASE Update
  <2>1. UNCHANGED <<tableVars, profileVars, winVars>> BY <1>4 DEF Update
  <2>2. \/ UpdateNext /\ UNCHANGED vars
        \/ Next /\ UNCHANGED updateVars
    BY <1>4 DEF Update, UpdateStep, Next
  <2> QED BY <2>1, <2>2
<1> QED BY <1>1, <1>2, <1>3, <1>4 DEF MCNext

\* Whatever the user does in the window, and wherever the window or the updater ends
\* meanwhile: the table, the profile files, the update, the two folders of the swap and
\* the pages each keep what they promise.
THEOREM DesktopAlwaysRight ==
    MCSpec => [](/\ TableIsRight /\ ProfileFilesAreSafe /\ WindowIsConsistent
                 /\ OneUpdateAtATime /\ OldVersionIsNeverLost /\ ReportIsTrue)
<1>1. MCInit => TableInit /\ ProfileInit /\ UpdateInit /\ Init /\ PagesInit BY DEF MCInit
<1>2. UpdateInit /\ [][UpdateNext]_updateVars => []OneUpdateAtATime
  BY UpdateStart, UpdateStays, UpdateIsSafe, PTL
<1>3. SwapInv => OldVersionIsNeverLost /\ ReportIsTrue BY DEF SwapInv
<1>4. Init /\ [][Next]_vars => [](OldVersionIsNeverLost /\ ReportIsTrue)
  BY <1>3, SwapInvInit, SwapInvNext, PTL
<1>5. MCSpec => MCInit /\ [][MCNext]_allVars BY PTL DEF MCSpec
<1>6. ProfileInit /\ [][ProfileNext]_profileVars => []ProfileFilesAreSafe
  BY ProfileFilesAlwaysSafe, PTL DEF ProfileSpec
<1> QED BY <1>1, <1>2, <1>4, <1>5, <1>6, StepsAreOfOnePart, TableAlwaysRight, WindowAlwaysConsistent, PTL
=============================================================================
