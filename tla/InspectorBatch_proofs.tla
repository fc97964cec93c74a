------------------------ MODULE InspectorBatch_proofs ------------------------
(***************************************************************************)
(* Theorems about a run over the device list, for any number of devices    *)
(* and workers.                                                            *)
(***************************************************************************)
EXTENDS InspectorBatch, DeviceSession_proofs

----------------------------------------------------------------------------
(* The batch runs device sessions and nothing else.                        *)

LEMMA BatchStepIsSessionStep == [BatchNext]_allVars => [Next]_vars
<1> SUFFICES ASSUME [BatchNext]_allVars PROVE [Next]_vars
  OBVIOUS
<1>1. CASE JobThread
  BY <1>1 DEF JobThread, Submit, SubmitEnd, Collect, Return
<1>2. CASE Pool
  BY <1>2 DEF Pool, PickUp, SkipCancelled, Next
<1>3. ASSUME NEW d \in Devices, Talk(d) \/ Complete(d)
      PROVE  [Next]_vars
  BY <1>3 DEF Talk, Complete, Next, Step
<1>4. CASE RequestStop
  BY <1>4 DEF RequestStop, Next
<1>5. CASE UNCHANGED allVars
  BY <1>5 DEF allVars
<1> QED BY <1>1, <1>2, <1>3, <1>4, <1>5 DEF BatchNext, BatchTerminated

\* What is proved of the sessions on their own holds of them in the batch.
THEOREM BatchSessionsBehave ==
    BatchSpec => [](/\ TypeOK
                    /\ SessionsAreBounded
                    /\ RetryLoopAlwaysReturns
                    /\ StopSparesOnlyTheCommandInFlight
                    /\ ScriptSentInOrder
                    /\ HandlerReplaysOnlyWholeScripts
                    /\ RowTellsTheTruth)
<1> DEFINE IInv == /\ TypeOK /\ SessionInv /\ LooseInv /\ StopInv /\ ScriptInv /\ RowInv /\ WholeScript
<1>1. BatchInit => IInv
  BY InitType, SessionInvInit, LooseInvInit, StopInvInit, ScriptInvInit, RowInvInit, WholeScriptInit
     DEF BatchInit
<1>2. IInv /\ [BatchNext]_allVars => IInv'
  BY BatchStepIsSessionStep, NextType, SessionInvNext, LooseInvNext, StopInvNext, ScriptInvNext,
     RowInvNext, WholeScriptNext
<1>3. IInv => /\ SessionsAreBounded /\ RetryLoopAlwaysReturns
              /\ StopSparesOnlyTheCommandInFlight /\ RowTellsTheTruth
  BY BoundsAssumption
     DEF TypeOK, SessionInv, Sessionless, Retrying, LooseInv, SessionsAreBounded, RetryLoopAlwaysReturns,
         StopInv, StopSparesOnlyTheCommandInFlight, RowInv, WholeScript, RowTellsTheTruth
<1>4. IInv => ScriptSentInOrder /\ HandlerReplaysOnlyWholeScripts
  BY DevicesAssumption
     DEF ScriptInv, ScriptCount, ScriptOrder, ScriptEven, ScriptSentInOrder,
         HandlerReplaysOnlyWholeScripts
<1> QED BY <1>1, <1>2, <1>3, <1>4, PTL DEF BatchSpec

----------------------------------------------------------------------------
(* The pool.                                                               *)

\* What a step of a session does to its device, as the batch sees it: the
\* thread stays with the device until Finish, the other devices keep their
\* place and their answer, and a cancelled run sends only what is in flight.
SeenFromBatch(d) ==
    /\ pc[d] \notin {"idle", "done"} /\ pc'[d] \notin {"idle", "done"}
    /\ \A e \in Devices \ {d} : pc'[e] = pc[e] /\ outcome'[e] = outcome[e] /\ late'[e] = late[e]
    /\ cancel => (late'[d] > 0 \/ pc'[d] \in Sending => late[d] > 0 \/ pc[d] \in Sending)
    /\ cancel' = cancel

LEMMA ConverseSeen ==
    ASSUME TypeOK, NEW d \in Devices, Converse(d)
    PROVE  SeenFromBatch(d)
<1> USE DEF SeenFromBatch, Sending, Goto
<1>a. /\ pc \in [Devices -> Locations]
      /\ after \in [Devices -> Targets]
      /\ outcome \in [Devices -> Outcomes]
      /\ late \in [Devices -> Nat]
  BY DEF TypeOK
<1>1. CASE Begin(d)
  BY <1>a, <1>1 DEF Begin
<1>2. CASE Probe(d)
  BY <1>a, <1>2 DEF Probe
<1>3. CASE Attempt(d)
  BY <1>a, <1>3 DEF Attempt, Leave, Unwind
<1>4. CASE Connect(d)
  BY <1>a, <1>4 DEF Connect, AttemptFails, AttemptStops, HandlerFails, NetmikoFails, Leave, Unwind
<1>5. CASE Enable(d)
  BY <1>a, <1>5 DEF Enable, FirstPhase, AttemptFails, AttemptStops, HandlerFails, NetmikoFails, Leave, Unwind
<1>6. CASE InspectNext(d)
  BY <1>a, <1>6 DEF InspectNext, Leave, Unwind
<1>7. CASE InspectCommand(d)
  BY <1>a, <1>7 DEF InspectCommand, NetmikoCommandFails, AttemptStops, NetmikoFails, Leave, Unwind, CountLate
<1>8. CASE InspectDone(d)
  BY <1>a, <1>8 DEF InspectDone, Leave, Unwind
<1>9. CASE CustomNext(d)
  BY <1>a, <1>9 DEF CustomNext, Leave, Unwind
<1>10. CASE CustomCommand(d)
  BY <1>a, <1>10 DEF CustomCommand, NetmikoCommandFails, AttemptStops, NetmikoFails, Leave, Unwind, CountLate
<1>11. CASE StoreOutputs(d)
  BY <1>a, <1>11 DEF StoreOutputs, AttemptFails, AttemptStops, HandlerFails, NetmikoFails, Leave, Unwind
<1>12. CASE BackupNext(d)
  BY <1>a, <1>12 DEF BackupNext, Leave, Unwind
<1>13. CASE BackupCommand(d)
  BY <1>a, <1>13 DEF BackupCommand, NetmikoCommandFails, AttemptStops, NetmikoFails, Leave, Unwind, CountLate
<1>14. CASE Close(d)
  BY <1>a, <1>14 DEF Close, Targets
<1>15. CASE Cooldown(d)
  BY <1>a, <1>15 DEF Cooldown, Targets
<1>16. CASE Backoff(d)
  BY <1>a, <1>16 DEF Backoff, Leave, Unwind
<1>17. CASE OuterExcept(d)
  BY <1>a, <1>17 DEF OuterExcept
<1> QED BY <1>1, <1>2, <1>3, <1>4, <1>5, <1>6, <1>7, <1>8, <1>9, <1>10, <1>11, <1>12, <1>13, <1>14, <1>15, <1>16, <1>17 DEF Converse


\* The pool's bookkeeping: the futures are those of the devices submitted, a
\* thread is busy exactly while its device's session is, and a future is only
\* cancelled in a cancelled run.
PoolInv ==
    /\ main \in {"submit", "collect", "returned"}
    /\ submitted \in 0..Total
    /\ future \in [Devices -> FutureStates]
    /\ \A d \in Devices :
        /\ future[d] = "none" <=> d > submitted
        /\ future[d] = "running" <=> pc[d] \notin {"idle", "done"}
        /\ future[d] = "finished" <=> pc[d] = "done"
        /\ future[d] \in {"cancelled", "notified"} => cancel
    /\ Cardinality(Running) <= MaxWorkers
    /\ main # "submit" => cancel \/ submitted = Total

LEMMA RunningIsFinite == IsFiniteSet(Running)
BY DevicesAssumption, FS_Subset DEF Running

LEMMA PoolInvInit == BatchInit => PoolInv
<1> SUFFICES ASSUME BatchInit PROVE PoolInv
  OBVIOUS
<1>1. Running = {}
  BY DEF BatchInit, Running
<1>2. Cardinality(Running) = 0
  BY <1>1, FS_EmptySet
<1> QED BY <1>2, BatchAssumption DEF BatchInit, Init, PoolInv, FutureStates

LEMMA PoolInvNext == TypeOK /\ PoolInv /\ [BatchNext]_allVars => PoolInv'
<1> SUFFICES ASSUME TypeOK, PoolInv, [BatchNext]_allVars PROVE PoolInv'
  OBVIOUS
<1> USE BatchAssumption DEF PoolInv
<1>a. pc \in [Devices -> Locations]
  BY DEF TypeOK
<1>1. CASE Submit
  <2>1. submitted + 1 \in Devices /\ future[submitted + 1] = "none"
    BY <1>1 DEF Submit
  <2>2. future' \in [Devices -> FutureStates]
    BY <1>1 DEF Submit, FutureStates
  <2>3. Running' = Running
    BY <1>1, <2>1 DEF Submit, Running
  <2> QED BY <1>1, <2>1, <2>2, <2>3 DEF Submit, vars
<1>2. CASE SubmitEnd
  BY <1>2 DEF SubmitEnd, vars, Running
<1>3. ASSUME NEW d \in Devices, Collect(d)
      PROVE  PoolInv'
  <2>1. future' \in [Devices -> FutureStates]
    BY <1>3 DEF Collect, FutureStates
  <2>2. Running' = Running
    BY <1>3 DEF Collect, Running
  <2> QED BY <1>3, <2>1, <2>2 DEF Collect, vars
<1>4. CASE Return
  BY <1>4 DEF Return, vars, Running
<1>5. ASSUME NEW d \in Devices, PickUp(d)
      PROVE  PoolInv'
  <2>1. Running' = Running \cup {d} /\ d \notin Running
    BY <1>5 DEF PickUp, Running
  <2>2. Cardinality(Running') = Cardinality(Running) + 1
    BY <2>1, RunningIsFinite, FS_AddElement
  <2>3. Cardinality(Running') <= MaxWorkers
    BY <1>5, <2>2, RunningIsFinite, FS_CardinalityType DEF PickUp
  <2>4. future' \in [Devices -> FutureStates]
    BY <1>5 DEF PickUp, FutureStates
  <2> QED BY <1>a, <1>5, <2>3, <2>4 DEF PickUp, Start, Goto
<1>6. ASSUME NEW d \in Devices, SkipCancelled(d)
      PROVE  PoolInv'
  <2>1. future' \in [Devices -> FutureStates]
    BY <1>6 DEF SkipCancelled, FutureStates
  <2>2. Running' = Running
    BY <1>6 DEF SkipCancelled, Running
  <2> QED BY <1>6, <2>1, <2>2 DEF SkipCancelled, vars
<1>7. ASSUME NEW d \in Devices, Talk(d)
      PROVE  PoolInv'
  <2>1. SeenFromBatch(d)
    BY <1>7, ConverseSeen DEF Talk
  <2> QED BY <1>7, <2>1 DEF Talk, SeenFromBatch, batchVars, Running
<1>8. ASSUME NEW d \in Devices, Complete(d)
      PROVE  PoolInv'
  <2>1. Running' \subseteq Running
    BY <1>8 DEF Complete, Running
  <2>2. Cardinality(Running') <= Cardinality(Running)
    BY <2>1, RunningIsFinite, FS_Subset
  <2>3. Cardinality(Running') \in Nat /\ Cardinality(Running) \in Nat
    BY <2>1, RunningIsFinite, FS_Subset, FS_CardinalityType
  <2>4. Cardinality(Running') <= MaxWorkers
    BY <2>2, <2>3
  <2>5. future' \in [Devices -> FutureStates]
    BY <1>8 DEF Complete, FutureStates
  <2> QED BY <1>a, <1>8, <2>4, <2>5 DEF Complete, Finish, Goto
<1>9. CASE RequestStop
  BY <1>9 DEF RequestStop, Cancel, batchVars, Running
<1>10. CASE UNCHANGED allVars
  BY <1>10 DEF allVars, batchVars, vars, Running
<1> QED BY <1>1, <1>2, <1>3, <1>4, <1>5, <1>6, <1>7, <1>8, <1>9, <1>10
        DEF BatchNext, JobThread, Pool, BatchTerminated

----------------------------------------------------------------------------
(* The stop request, over all devices.                                     *)

\* The devices that a command has reached late, or may still: in a cancelled
\* run none joins them.
LateOrSending == {d \in Devices : late[d] > 0 \/ pc[d] \in Sending}

LateBound == cancel => Cardinality(LateOrSending) <= MaxWorkers

LEMMA LateFinite == IsFiniteSet(LateOrSending)
BY DevicesAssumption, FS_Subset DEF LateOrSending

LEMMA LateBoundNext ==
    TypeOK /\ StopInv /\ PoolInv /\ LateBound /\ [BatchNext]_allVars => LateBound'
<1> SUFFICES ASSUME TypeOK, StopInv, PoolInv, LateBound, [BatchNext]_allVars, cancel'
             PROVE  Cardinality(LateOrSending') <= MaxWorkers
  BY DEF LateBound
<1>1. CASE RequestStop
  <2>1. LateOrSending' \subseteq Running
    BY <1>1 DEF RequestStop, Cancel, StopInv, PoolInv, LateOrSending, Running, Sending
  <2>2. Cardinality(LateOrSending') <= Cardinality(Running)
    BY <2>1, RunningIsFinite, FS_Subset
  <2>3. Cardinality(LateOrSending') \in Nat /\ Cardinality(Running) \in Nat
    BY <2>1, RunningIsFinite, FS_Subset, FS_CardinalityType
  <2> QED BY <2>2, <2>3, BatchAssumption DEF PoolInv
<1>2. ASSUME cancel, LateOrSending' \subseteq LateOrSending
      PROVE  Cardinality(LateOrSending') <= MaxWorkers
  <2>1. Cardinality(LateOrSending') <= Cardinality(LateOrSending)
    BY <1>2, LateFinite, FS_Subset
  <2>2. Cardinality(LateOrSending') \in Nat /\ Cardinality(LateOrSending) \in Nat
    BY <1>2, LateFinite, FS_Subset, FS_CardinalityType
  <2> QED BY <1>2, <2>1, <2>2, BatchAssumption DEF LateBound
<1>3. ASSUME UNCHANGED vars
      PROVE  Cardinality(LateOrSending') <= MaxWorkers
  BY <1>2, <1>3 DEF vars, LateOrSending
<1>4. CASE JobThread
  BY <1>3, <1>4 DEF JobThread, Submit, SubmitEnd, Collect, Return
<1>5. ASSUME NEW d \in Devices, PickUp(d)
      PROVE  Cardinality(LateOrSending') <= MaxWorkers
  <2>1. cancel /\ LateOrSending' \subseteq LateOrSending
    BY <1>5 DEF PickUp, Start, Goto, LateOrSending, Sending, TypeOK
  <2> QED BY <1>2, <2>1
<1>6. ASSUME NEW d \in Devices, SkipCancelled(d)
      PROVE  Cardinality(LateOrSending') <= MaxWorkers
  BY <1>3, <1>6 DEF SkipCancelled
<1>7. ASSUME NEW d \in Devices, Talk(d)
      PROVE  Cardinality(LateOrSending') <= MaxWorkers
  <2>1. SeenFromBatch(d)
    BY <1>7, ConverseSeen DEF Talk
  <2>2. cancel /\ LateOrSending' \subseteq LateOrSending
    BY <2>1 DEF SeenFromBatch, LateOrSending
  <2> QED BY <1>2, <2>2
<1>8. ASSUME NEW d \in Devices, Complete(d)
      PROVE  Cardinality(LateOrSending') <= MaxWorkers
  <2>1. cancel /\ LateOrSending' \subseteq LateOrSending
    BY <1>8 DEF Complete, Finish, Goto, LateOrSending, Sending, TypeOK
  <2> QED BY <1>2, <2>1
<1> QED BY <1>1, <1>3, <1>4, <1>5, <1>6, <1>7, <1>8
        DEF BatchNext, Pool, BatchTerminated, allVars

LEMMA BatchInvHolds ==
    BatchSpec => [](TypeOK /\ SessionInv /\ StopInv /\ RowInv /\ PoolInv)
<1> DEFINE IInv == TypeOK /\ SessionInv /\ StopInv /\ RowInv /\ PoolInv
<1>1. BatchInit => IInv
  BY InitType, SessionInvInit, StopInvInit, RowInvInit, PoolInvInit DEF BatchInit
<1>2. IInv /\ [BatchNext]_allVars => IInv'
  BY BatchStepIsSessionStep, NextType, SessionInvNext, StopInvNext, RowInvNext, PoolInvNext
<1> QED BY <1>1, <1>2, PTL DEF BatchSpec

\* Once stopped, a run sends at most one command for each of its workers, however
\* many devices still wait, retry or change phase.
THEOREM StopIsHeededByAll == BatchSpec => []StopSparesOneCommandPerWorker
<1>1. BatchInit => LateBound
  BY DEF BatchInit, Init, LateBound
<1>2. TypeOK /\ StopInv /\ LateBound => StopSparesOneCommandPerWorker
  <2> SUFFICES ASSUME TypeOK, StopInv, LateBound PROVE StopSparesOneCommandPerWorker
    OBVIOUS
  <2> DEFINE Late == {d \in Devices : late[d] > 0}
  <2>1. CASE cancel
    <3>1. Late \subseteq LateOrSending
      BY DEF LateOrSending
    <3>2. Cardinality(Late) <= Cardinality(LateOrSending)
      BY <3>1, LateFinite, FS_Subset
    <3>3. Cardinality(Late) \in Nat /\ Cardinality(LateOrSending) \in Nat
      BY <3>1, LateFinite, FS_Subset, FS_CardinalityType
    <3> QED BY <2>1, <3>2, <3>3, BatchAssumption DEF LateBound, StopSparesOneCommandPerWorker
  <2>2. CASE ~cancel
    <3>1. Late = {}
      BY <2>2 DEF StopInv
    <3>2. Cardinality(Late) = 0
      BY <3>1, FS_EmptySet
    <3> QED BY <3>2, BatchAssumption DEF StopSparesOneCommandPerWorker
  <2> QED BY <2>1, <2>2
<1> QED BY <1>1, <1>2, LateBoundNext, BatchInvHolds, PTL DEF BatchSpec

----------------------------------------------------------------------------
(* The list of rows.                                                       *)

Rows == [device : Devices, status : {"success", "error"}]
EndedStates == {"finished", "notified"}

\* Rows are of devices that are over, each once, and a success row is of a
\* session that ended well.
ListInv ==
    /\ results \in Seq(Rows)
    /\ NoDuplicateRow
    /\ \A i \in DOMAIN results :
        /\ future[results[i].device] \in EndedStates
        /\ results[i].status = "success" => outcome[results[i].device] = "ok"
    /\ main = "returned" =>
        /\ Collected = 1..submitted
        /\ \A i, j \in DOMAIN results :
              i < j => results[i].device < results[j].device

LEMMA ListInvInit == BatchInit => ListInv
BY DEF BatchInit, ListInv, NoDuplicateRow, Collected

\* Nothing a device that is over has achieved is taken back.
LEMMA OverStays ==
    ASSUME TypeOK, PoolInv, [BatchNext]_allVars, NEW d \in Devices, future[d] \in EndedStates
    PROVE  future'[d] \in EndedStates /\ outcome'[d] = outcome[d]
<1> USE DEF EndedStates
<1>0. /\ future \in [Devices -> FutureStates] /\ Devices = 1..Total
      /\ future[d] = "running" <=> pc[d] \notin {"idle", "done"}
      /\ future[d] = "none" <=> d > submitted
      /\ pc \in [Devices -> Locations]
  BY BatchAssumption DEF PoolInv, TypeOK
<1>1. CASE JobThread
  <2>1. UNCHANGED outcome
    BY <1>1 DEF JobThread, Submit, SubmitEnd, Collect, Return, vars
  <2>2. CASE Submit
    BY <1>0, <2>1, <2>2 DEF Submit, PoolInv
  <2>3. CASE SubmitEnd \/ Return
    BY <2>1, <2>3 DEF SubmitEnd, Return
  <2>4. ASSUME NEW e \in Devices, Collect(e)
        PROVE  future'[d] \in EndedStates
    BY <1>0, <2>4 DEF Collect
  <2> QED BY <1>1, <2>1, <2>2, <2>3, <2>4 DEF JobThread
<1>2. ASSUME NEW e \in Devices, PickUp(e) \/ SkipCancelled(e)
      PROVE  future'[d] \in EndedStates /\ outcome'[d] = outcome[d]
  BY <1>0, <1>2 DEF PickUp, SkipCancelled, Start, vars
<1>3. ASSUME NEW e \in Devices, Talk(e)
      PROVE  future'[d] \in EndedStates /\ outcome'[d] = outcome[d]
  <2>1. SeenFromBatch(e)
    BY <1>3, ConverseSeen DEF Talk
  <2> QED BY <1>0, <1>3, <2>1 DEF Talk, SeenFromBatch, batchVars
<1>4. ASSUME NEW e \in Devices, Complete(e)
      PROVE  future'[d] \in EndedStates /\ outcome'[d] = outcome[d]
  BY <1>0, <1>4 DEF Complete, Finish
<1>5. CASE RequestStop
  BY <1>5 DEF RequestStop, Cancel, batchVars
<1>6. CASE UNCHANGED allVars
  BY <1>6 DEF allVars, batchVars, vars
<1> QED BY <1>1, <1>2, <1>3, <1>4, <1>5, <1>6 DEF BatchNext, Pool, BatchTerminated

LEMMA ListInvNext ==
    TypeOK /\ RowInv /\ PoolInv /\ ListInv /\ [BatchNext]_allVars => ListInv'
<1> SUFFICES ASSUME TypeOK, RowInv, PoolInv, ListInv, [BatchNext]_allVars PROVE ListInv'
  OBVIOUS
<1>a. \A i \in DOMAIN results : results[i] \in Rows /\ results[i].device \in Devices
  <2>1. \A i \in DOMAIN results : results[i] \in Rows
    BY DEF ListInv
  <2>2. \A r \in Rows : r.device \in Devices
    BY DEF Rows
  <2> QED BY <2>1, <2>2
<1>b. \A i \in DOMAIN results :
        /\ future'[results[i].device] \in EndedStates
        /\ results[i].status = "success" => outcome'[results[i].device] = "ok"
  BY <1>a, OverStays DEF ListInv
<1>1. ASSUME UNCHANGED results, main' = "returned" => main = "returned" /\ UNCHANGED submitted
      PROVE  ListInv'
  BY <1>1, <1>b DEF ListInv, NoDuplicateRow, Collected
<1>2. ASSUME NEW d \in Devices, Collect(d)
      PROVE  ListInv'
  <2> DEFINE new == [device |-> d,
                     status |-> IF future[d] = "finished" THEN row[d] ELSE "error"]
  <2>1. new \in Rows
    BY <1>2 DEF Collect, Rows, PoolInv, RowInv, TypeOK
  <2>2. new.device = d /\ (new.status = "success" => outcome[d] = "ok")
    BY <1>2 DEF Collect, PoolInv, RowInv
  <2>3. future'[d] \in EndedStates /\ outcome'[d] = outcome[d]
    BY <1>2, OverStays DEF Collect, EndedStates
  <2>4. results' = Append(results, new) /\ main' = "collect"
    BY <1>2 DEF Collect
  <2>5. \A i \in DOMAIN results : results[i].device # d
    BY <1>2 DEF Collect, Collected
  <2> HIDE DEF new
  <2>6. /\ results \in Seq(Rows) /\ results' \in Seq(Rows)
        /\ DOMAIN results = 1..Len(results) /\ Len(results) \in Nat
        /\ DOMAIN results' = 1..(Len(results) + 1)
        /\ results'[Len(results) + 1] = new
        /\ \A i \in DOMAIN results : results'[i] = results[i]
    BY <2>1, <2>4 DEF ListInv
  <2>7. \A i \in DOMAIN results' : i \in DOMAIN results \/ i = Len(results) + 1
    BY <2>6
  <2>8. NoDuplicateRow'
    BY <2>2, <2>5, <2>6, <2>7 DEF ListInv, NoDuplicateRow
  <2>9. \A i \in DOMAIN results' :
          /\ future'[results'[i].device] \in EndedStates
          /\ results'[i].status = "success" => outcome'[results'[i].device] = "ok"
    BY <1>b, <2>2, <2>3, <2>6, <2>7
  <2> QED BY <2>4, <2>6, <2>8, <2>9 DEF ListInv
<1>3. CASE Return
  <2>1. PICK order \in Orders(DOMAIN results) :
          /\ \A i, j \in DOMAIN results :
                i < j => results[order[i]].device < results[order[j]].device
          /\ results' = [i \in DOMAIN results |-> results[order[i]]]
    BY <1>3 DEF Return
  <2>2. /\ order \in [DOMAIN results -> DOMAIN results]
        /\ \A w \in DOMAIN results : \E v \in DOMAIN results : order[v] = w
    BY <2>1 DEF Orders
  <2>3. DOMAIN results = 1..Len(results) /\ Len(results) \in Nat
    BY DEF ListInv
  <2>4. results' \in Seq(Rows) /\ DOMAIN results' = DOMAIN results
    BY <1>a, <2>1, <2>2, <2>3
  <2>5. \A i, j \in DOMAIN results' : i < j => results'[i].device < results'[j].device
    BY <2>1, <2>4
  <2>6. NoDuplicateRow'
    <3>1. ASSUME NEW i \in DOMAIN results, NEW j \in DOMAIN results,
                 results'[i].device = results'[j].device
          PROVE  i = j
      <4>1. results'[i].device \in Devices /\ results'[j].device \in Devices
        BY <1>a, <2>1, <2>2
      <4>2. ~(i < j) /\ ~(j < i)
        BY <2>4, <2>5, <3>1, <4>1, BatchAssumption
      <4> QED BY <2>3, <4>2
    <3> QED BY <2>4, <3>1 DEF NoDuplicateRow
  <2>7. \A i \in DOMAIN results' :
          /\ future'[results'[i].device] \in EndedStates
          /\ results'[i].status = "success" => outcome'[results'[i].device] = "ok"
    BY <1>b, <2>1, <2>2, <2>4
  <2>8. Collected' = 1..submitted
    <3>1. Collected' = Collected
      BY <2>1, <2>2, <2>4 DEF Collected
    <3>2. Collected \subseteq 1..submitted
      <4>1. \A d \in Collected : d \in Devices /\ future[d] \in EndedStates
        BY <1>a DEF ListInv, Collected
      <4> QED BY <4>1, BatchAssumption DEF PoolInv, EndedStates
    <3>3. 1..submitted \subseteq Collected
      BY <1>3 DEF Return
    <3> QED BY <3>1, <3>2, <3>3
  <2>9. submitted' = submitted
    BY <1>3 DEF Return
  <2> QED BY <2>4, <2>5, <2>6, <2>7, <2>8, <2>9 DEF ListInv
<1>4. CASE Submit \/ SubmitEnd
  BY <1>1, <1>4 DEF Submit, SubmitEnd
<1>5. ASSUME NEW d \in Devices, PickUp(d) \/ SkipCancelled(d) \/ Talk(d) \/ Complete(d)
      PROVE  ListInv'
  BY <1>1, <1>5 DEF PickUp, SkipCancelled, Talk, Complete, batchVars
<1>6. CASE RequestStop \/ UNCHANGED allVars
  BY <1>1, <1>6 DEF RequestStop, allVars, batchVars
<1> QED BY <1>2, <1>3, <1>4, <1>5, <1>6 DEF BatchNext, JobThread, Pool, BatchTerminated

LEMMA ListInvHolds == BatchSpec => []ListInv
BY BatchInvHolds, ListInvInit, ListInvNext, PTL DEF BatchSpec

\* The batch's own variables keep their types.
THEOREM BatchTypes == BatchSpec => []BatchTypeOK
<1>1. PoolInv /\ ListInv => BatchTypeOK
  BY DEF PoolInv, ListInv, BatchTypeOK, Rows
<1> QED BY <1>1, BatchInvHolds, ListInvHolds, PTL

\* No device has two rows, although a stop request may turn its future from
\* waiting to cancelled between any two rounds of the collecting loop.
THEOREM NoDuplicates == BatchSpec => []NoDuplicateRow
<1>1. ListInv => NoDuplicateRow
  BY DEF ListInv
<1> QED BY <1>1, ListInvHolds, PTL

\* The list handed to the service is complete, in the order of the inventory,
\* and calls no session a success that was none.
THEOREM ListIsRight == BatchSpec => []ReturnedListIsRight
<1>1. PoolInv /\ ListInv => ReturnedListIsRight
  BY DEF PoolInv, ListInv, ReturnedListIsRight
<1> QED BY <1>1, BatchInvHolds, ListInvHolds, PTL

\* When the method returns the pool is empty: no thread, no session, no waiting
\* device is left behind.
THEOREM NothingIsLeftRunning == BatchSpec => []NothingRunsAfterReturn
<1>1. TypeOK /\ SessionInv /\ PoolInv /\ ListInv => NothingRunsAfterReturn
  <2> SUFFICES ASSUME TypeOK, SessionInv, PoolInv, ListInv, main = "returned"
               PROVE  /\ Running = {} /\ Queued = {}
                      /\ \A d \in Devices : pc[d] \in {"idle", "done"} /\ ~held[d]
    BY DEF NothingRunsAfterReturn
  <2>1. ASSUME NEW d \in Devices
        PROVE  future[d] \in {"none", "finished", "notified"}
    <3>1. CASE d > submitted
      BY <3>1 DEF PoolInv
    <3>2. CASE ~(d > submitted)
      <4>1. d \in 1..submitted
        BY <3>2, BatchAssumption DEF PoolInv
      <4>2. d \in Collected
        BY <4>1 DEF ListInv
      <4> QED BY <4>2 DEF ListInv, Collected, EndedStates
    <3> QED BY <3>1, <3>2
  <2>2. \A d \in Devices : pc[d] \in {"idle", "done"}
    BY <2>1 DEF PoolInv
  <2> QED BY <2>1, <2>2 DEF Running, Queued, SessionInv, Sessionless
<1> QED BY <1>1, BatchInvHolds, ListInvHolds, PTL

----------------------------------------------------------------------------
(* The order in which devices are taken up.                                *)

Begun == {"running", "finished", "notified"}

\* A device a thread has met stays met, and only the head of the queue starts.
LEMMA TakenUpNext ==
    TypeOK /\ PoolInv /\ TakenUpInOrder /\ [BatchNext]_allVars => TakenUpInOrder'
<1> SUFFICES ASSUME TypeOK, PoolInv, TakenUpInOrder, [BatchNext]_allVars
             PROVE  TakenUpInOrder'
  OBVIOUS
<1>a. /\ Devices = 1..Total /\ Total \in Nat /\ submitted \in Nat
      /\ future \in [Devices -> FutureStates]
      /\ pc \in [Devices -> Locations]
  BY BatchAssumption DEF PoolInv, TypeOK
<1>1. ASSUME \A e \in Devices : pc'[e] # "idle" => pc[e] # "idle",
             \A d \in Devices : future[d] \in Begun => future'[d] \in Begun
      PROVE  TakenUpInOrder'
  BY <1>1 DEF TakenUpInOrder, Begun
<1>2. CASE Submit
  <2>1. \A d \in Devices : future[d] \in Begun => future'[d] \in Begun
    BY <1>a, <1>2 DEF Submit, PoolInv, Begun
  <2> QED BY <1>1, <1>2, <2>1 DEF Submit, vars
<1>3. CASE SubmitEnd \/ Return
  BY <1>1, <1>3 DEF SubmitEnd, Return, vars
<1>4. ASSUME NEW d \in Devices, Collect(d)
      PROVE  TakenUpInOrder'
  <2>1. \A e \in Devices : future[e] \in Begun => future'[e] \in Begun
    BY <1>4 DEF Collect, Begun
  <2> QED BY <1>1, <1>4, <2>1 DEF Collect, vars
<1>5. ASSUME NEW e \in Devices, PickUp(e)
      PROVE  TakenUpInOrder'
  <2>1. \A d \in Devices : future[d] \in Begun => future'[d] \in Begun
    BY <1>a, <1>5 DEF PickUp, Begun
  <2>2. \A d \in Devices : d < e => future[d] \in Begun
    <3> SUFFICES ASSUME NEW d \in Devices, d < e PROVE future[d] \in Begun
      OBVIOUS
    <3>1. d \notin Queued
      BY <1>a, <1>5 DEF PickUp, HeadOfQueue
    <3>2. future[d] # "none"
      BY <1>a, <1>5 DEF PickUp, PoolInv
    <3> QED BY <1>a, <3>1, <3>2 DEF Queued, FutureStates, Begun
  <2>3. \A f \in Devices \ {e} : pc'[f] = pc[f]
    BY <1>5 DEF PickUp, Start, Goto
  <2> QED BY <2>1, <2>2, <2>3 DEF TakenUpInOrder, Begun
<1>6. ASSUME NEW d \in Devices, SkipCancelled(d)
      PROVE  TakenUpInOrder'
  <2>1. \A e \in Devices : future[e] \in Begun => future'[e] \in Begun
    BY <1>a, <1>6 DEF SkipCancelled, Begun
  <2> QED BY <1>1, <1>6, <2>1 DEF SkipCancelled, vars
<1>7. ASSUME NEW d \in Devices, Talk(d)
      PROVE  TakenUpInOrder'
  <2>1. SeenFromBatch(d)
    BY <1>7, ConverseSeen DEF Talk
  <2> QED BY <1>1, <1>7, <2>1 DEF Talk, SeenFromBatch, batchVars
<1>8. ASSUME NEW d \in Devices, Complete(d)
      PROVE  TakenUpInOrder'
  <2>1. \A e \in Devices : future[e] \in Begun => future'[e] \in Begun
    BY <1>a, <1>8 DEF Complete, Begun
  <2> QED BY <1>a, <1>1, <1>8, <2>1 DEF Complete, Finish, Goto
<1>9. CASE RequestStop \/ UNCHANGED allVars
  BY <1>1, <1>9 DEF RequestStop, Cancel, allVars, batchVars, vars
<1> QED BY <1>2, <1>3, <1>4, <1>5, <1>6, <1>7, <1>8, <1>9
        DEF BatchNext, JobThread, Pool, BatchTerminated

\* Devices start in the order of the inventory, whatever is cancelled meanwhile.
THEOREM DevicesTakenInOrder == BatchSpec => []TakenUpInOrder
<1>1. BatchInit => TakenUpInOrder
  BY DEF BatchInit, Init, TakenUpInOrder
<1> QED BY <1>1, BatchInvHolds, TakenUpNext, PTL DEF BatchSpec

----------------------------------------------------------------------------
(* The batch implements BatchPromise.                                      *)

LEMMA WorkValues ==
    ASSUME PoolInv
    PROVE  \A d \in Devices :
             /\ Work[d] = "active" <=> future[d] = "running"
             /\ Work[d] = "over" <=> future[d] \in EndedStates
             /\ Work[d] = "waiting" <=> future[d] \in {"none", "pending", "cancelled"}
BY DEF Work, PoolInv, FutureStates, EndedStates

LEMMA PromiseActive == PoolInv => Promise!Active = Running
<1> SUFFICES ASSUME PoolInv PROVE Promise!Active = Running
  OBVIOUS
<1>1. Promise!Active = {d \in Devices : Work[d] = "active"}
  BY DEF Promise!Active
<1> QED BY <1>1, WorkValues DEF Running

\* The contract counts as the batch does: both take Cardinality from FiniteSets.
LEMMA PromiseCardinality == \A S : Promise!Cardinality(S) = Cardinality(S)
BY Zenon DEF Cardinality, Promise!Cardinality

LEMMA PromiseReported == Promise!Reported = Collected
BY DEF Promise!Reported, Collected, RowSet

LEMMA PromiseInit == BatchInit => Promise!Init
BY DEF BatchInit, Init, Promise!Init, Work, RowSet

LEMMA PromiseStep ==
    TypeOK /\ RowInv /\ PoolInv /\ ListInv /\ [BatchNext]_allVars => [Promise!Next]_(Promise!vars)
<1> SUFFICES ASSUME TypeOK, RowInv, PoolInv, ListInv, [BatchNext]_allVars
             PROVE  [Promise!Next]_(Promise!vars)
  OBVIOUS
<1>a. PoolInv' /\ ListInv'
  BY PoolInvNext, ListInvNext
<1>b. /\ Promise!Active = Running
      /\ Promise!Reported = Collected
  BY PromiseActive, PromiseReported
<1>c. /\ future \in [Devices -> FutureStates] /\ Devices = 1..Total
      /\ Total \in Nat /\ submitted \in Nat
  BY BatchAssumption DEF PoolInv
<1>s. ASSUME Work' = Work, RowSet' = RowSet, UNCHANGED cancel,
             (main' = "returned") = (main = "returned")
      PROVE  UNCHANGED Promise!vars
  BY <1>s DEF Promise!vars
<1>1. CASE Submit
  <2>1. Work' = Work
    BY <1>c, <1>1 DEF Submit, Work, PoolInv
  <2> QED BY <1>1, <1>s, <2>1 DEF Submit, vars, RowSet
<1>2. CASE SubmitEnd
  BY <1>2, <1>s DEF SubmitEnd, vars, Work, RowSet
<1>3. ASSUME NEW d \in Devices, Collect(d)
      PROVE  [Promise!Next]_(Promise!vars)
  <2> DEFINE status == IF future[d] = "finished" THEN row[d] ELSE "error"
             new == [device |-> d, status |-> status]
  <2>1. status \in {"success", "error"}
    BY <1>3 DEF Collect, PoolInv, RowInv, TypeOK
  <2>2. Work' = Work
    BY <1>c, <1>3 DEF Collect, Work
  <2>3. RowSet' = RowSet \cup {new}
    <3>1. results' = Append(results, new) /\ results \in Seq(Rows)
      BY <1>3 DEF Collect, ListInv
    <3> HIDE DEF new
    <3>2. /\ DOMAIN results = 1..Len(results) /\ Len(results) \in Nat
          /\ DOMAIN results' = 1..(Len(results) + 1)
          /\ results'[Len(results) + 1] = new
          /\ \A i \in DOMAIN results : results'[i] = results[i]
      BY <3>1, <1>a DEF ListInv
    <3>3. DOMAIN results' = DOMAIN results \cup {Len(results) + 1}
      BY <3>2
    <3> QED BY <3>2, <3>3 DEF RowSet
  <2>4. /\ main # "returned" /\ main' # "returned"
        /\ d \notin Promise!Reported
        /\ UNCHANGED cancel
    BY <1>3, <1>b DEF Collect, vars
  <2>5. Work[d] = "over"
    BY <1>3, WorkValues DEF Collect, EndedStates
  <2>6. (main' = "returned") = (main = "returned")
    BY <2>4
  <2> HIDE DEF status
  <2>7. Promise!Report(d, status)
    BY <2>2, <2>3, <2>4, <2>5, <2>6 DEF Promise!Report
  <2> QED BY <2>1, <2>7 DEF Promise!Next, Promise!Statuses
<1>4. CASE Return
  <2>1. main' = "returned" /\ main # "returned" /\ UNCHANGED <<cancel, future>>
    BY <1>4 DEF Return, vars
  <2>2. RowSet' = RowSet
    <3>1. PICK order \in Orders(DOMAIN results) :
             results' = [i \in DOMAIN results |-> results[order[i]]]
      BY <1>4 DEF Return
    <3> QED BY <3>1 DEF Orders, RowSet
  <2>3. \A d \in Devices : future[d] \in {"none", "finished", "notified"}
    <3> SUFFICES ASSUME NEW d \in Devices, d \in 1..submitted
                 PROVE  future[d] \in {"finished", "notified"}
      BY <1>c DEF PoolInv
    <3>1. d \in Collected
      BY <1>4 DEF Return
    <3> QED BY <3>1 DEF ListInv, Collected, EndedStates
  <2>4. Promise!Active = {}
    BY <1>b, <2>3 DEF Running
  <2>5. \A d \in Devices : Work[d] = "over" => d \in Promise!Reported
    <3> SUFFICES ASSUME NEW d \in Devices, future[d] \in EndedStates PROVE d \in Collected
      BY <1>b, WorkValues
    <3>1. d \in 1..submitted
      BY <1>c DEF PoolInv, EndedStates
    <3> QED BY <1>4, <3>1 DEF Return
  <2>6. cancel \/ \A d \in Devices : Work[d] = "over"
    <3>1. cancel \/ submitted = Total
      BY <1>4 DEF Return, PoolInv
    <3>2. submitted = Total => \A d \in Devices : future[d] \in EndedStates
      BY <1>c, <2>3 DEF PoolInv, EndedStates
    <3> QED BY <3>1, <3>2, WorkValues
  <2>7. Work' = Work
    BY <2>1 DEF Work
  <2>8. Promise!Return
    BY <2>1, <2>2, <2>4, <2>5, <2>6, <2>7 DEF Promise!Return
  <2> QED BY <2>8 DEF Promise!Next
<1>5. ASSUME NEW d \in Devices, PickUp(d)
      PROVE  [Promise!Next]_(Promise!vars)
  <2>1. Work' = [Work EXCEPT ![d] = "active"]
    BY <1>c, <1>5 DEF PickUp, Work
  <2>2. /\ Work[d] = "waiting" /\ Cardinality(Promise!Active) < MaxWorkers
        /\ UNCHANGED <<cancel, main, results>>
    BY <1>5, <1>b, WorkValues DEF PickUp, Start
  <2>3. main # "returned"
    <3>1. SUFFICES ASSUME main = "returned" PROVE FALSE
      OBVIOUS
    <3>2. d \in 1..submitted
      BY <1>c, <1>5 DEF PickUp, PoolInv
    <3>3. d \in Collected
      BY <3>1, <3>2 DEF ListInv
    <3> QED BY <1>5, <3>3 DEF PickUp, ListInv, Collected, EndedStates
  <2>4. RowSet' = RowSet /\ (main' = "returned") = (main = "returned")
    BY <2>2 DEF RowSet
  <2>5. Promise!Cardinality(Promise!Active) < MaxWorkers
    BY <2>2, PromiseCardinality
  <2>6. UNCHANGED cancel /\ Work[d] = "waiting"
    BY <2>2
  <2>7. Promise!Take(d)
    BY <2>1, <2>3, <2>4, <2>5, <2>6 DEF Promise!Take
  <2> QED BY <2>7 DEF Promise!Next
<1>6. ASSUME NEW d \in Devices, SkipCancelled(d)
      PROVE  [Promise!Next]_(Promise!vars)
  <2>1. Work' = [Work EXCEPT ![d] = "over"]
    BY <1>c, <1>6 DEF SkipCancelled, Work
  <2>2. cancel /\ Work[d] = "waiting" /\ UNCHANGED <<cancel, main, results>>
    BY <1>6, WorkValues DEF SkipCancelled, PoolInv, vars
  <2>3. Promise!Drop(d)
    BY <2>1, <2>2 DEF Promise!Drop, RowSet
  <2> QED BY <2>3 DEF Promise!Next
<1>7. ASSUME NEW d \in Devices, Talk(d)
      PROVE  [Promise!Next]_(Promise!vars)
  <2>1. UNCHANGED cancel
    BY <1>7, ConverseSeen DEF Talk, SeenFromBatch
  <2> QED BY <1>7, <1>s, <2>1 DEF Talk, batchVars, Work, RowSet
<1>8. ASSUME NEW d \in Devices, Complete(d)
      PROVE  [Promise!Next]_(Promise!vars)
  <2>1. future[d] = "running"
    BY <1>8 DEF Complete, Finish, PoolInv
  <2>2. Work' = [Work EXCEPT ![d] = "over"]
    BY <1>c, <1>8 DEF Complete, Work
  <2>3. Work[d] = "active" /\ UNCHANGED <<cancel, main, results>>
    BY <1>8, <2>1, WorkValues DEF Complete, Finish
  <2>4. Promise!Release(d)
    BY <2>2, <2>3 DEF Promise!Release, RowSet
  <2> QED BY <2>4 DEF Promise!Next
<1>9. CASE RequestStop
  BY <1>9 DEF RequestStop, Cancel, batchVars, Promise!Next, Promise!Cancel, Work, RowSet
<1>10. CASE UNCHANGED allVars
  BY <1>10, <1>s DEF allVars, batchVars, vars, Work, RowSet
<1> QED BY <1>1, <1>2, <1>3, <1>4, <1>5, <1>6, <1>7, <1>8, <1>9, <1>10
        DEF BatchNext, JobThread, Pool, BatchTerminated

\* Every step of the batch is a step of its contract or none: the safety half of
\* PromiseKept, for any number of devices, workers, commands and retries.
THEOREM BatchKeepsPromise == BatchSpec => Promise!Init /\ [][Promise!Next]_(Promise!vars)
<1>1. BatchSpec => [](TypeOK /\ RowInv /\ PoolInv /\ ListInv)
  BY BatchInvHolds, ListInvHolds, PTL
<1> QED BY <1>1, PromiseInit, PromiseStep, PTL DEF BatchSpec

=============================================================================
