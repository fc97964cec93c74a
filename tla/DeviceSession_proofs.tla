------------------------ MODULE DeviceSession_proofs ------------------------
(***************************************************************************)
(* Theorems about a device session, for any number of devices, commands    *)
(* and retries, about what a run is given, for any files and lists, and    *)
(* about what its profiles tell it, for any profiles and settings.         *)
(***************************************************************************)
EXTENDS MCDeviceSession, FiniteSetTheorems, SequenceTheorems, WellFoundedInduction, TLAPS

----------------------------------------------------------------------------
(* Type correctness.                                                       *)

\* The variables through which control moves have their types.
ControlType ==
    /\ pc \in [Devices -> Locations]
    /\ after \in [Devices -> Targets]
    /\ retries \in [Devices -> Nat]
    /\ outcome \in [Devices -> Outcomes]

LEMMA GotoType ==
    ASSUME pc \in [Devices -> Locations], NEW d \in Devices, NEW where,
           where \in Locations, Goto(d, where)
    PROVE  pc' \in [Devices -> Locations]
BY DEF Goto

LEMMA TargetsAreLocations == Targets \subseteq Locations
BY DEF Targets, Locations

LEMMA UnwindType ==
    ASSUME ControlType, NEW d \in Devices, NEW where, where \in Targets, Unwind(d, where)
    PROVE  pc' \in [Devices -> Locations] /\ after' \in [Devices -> Targets]
<1>1. "close" \in Locations /\ where \in Locations
  BY TargetsAreLocations DEF Locations
<1>2. (IF held[d] THEN "close" ELSE where) \in Locations
  BY <1>1
<1>3. Goto(d, IF held[d] THEN "close" ELSE where)
  BY DEF Unwind
<1>4. pc' \in [Devices -> Locations]
  BY <1>2, <1>3, GotoType DEF ControlType
<1>5. after' \in [Devices -> Targets]
  BY DEF Unwind, ControlType
<1> QED BY <1>4, <1>5

LEMMA LeaveType ==
    ASSUME ControlType, NEW d \in Devices, NEW what, what \in Outcomes, Leave(d, what)
    PROVE  /\ pc' \in [Devices -> Locations]
           /\ after' \in [Devices -> Targets]
           /\ outcome' \in [Devices -> Outcomes]
<1>1. "returned" \in Targets
  BY DEF Targets
<1>2. Unwind(d, "returned")
  BY DEF Leave
<1>3. pc' \in [Devices -> Locations] /\ after' \in [Devices -> Targets]
  BY <1>1, <1>2, UnwindType
<1>4. outcome' \in [Devices -> Outcomes]
  BY DEF Leave, ControlType
<1> QED BY <1>3, <1>4

LEMMA HandlerFailsType ==
    ASSUME ControlType, NEW d \in Devices, HandlerFails(d)
    PROVE  ControlType'
<1>1. retries' \in [Devices -> Nat]
  BY DEF ControlType, HandlerFails
<1>2. CASE Unwind(d, "outer") /\ UNCHANGED outcome
  BY <1>1, <1>2, UnwindType DEF ControlType, Targets
<1>3. CASE /\ after' = [after EXCEPT ![d] = "attempt"]
           /\ Goto(d, "backoff")
           /\ UNCHANGED outcome
  BY <1>1, <1>3, GotoType DEF ControlType, Targets, Locations
<1>4. CASE Leave(d, "failed")
  BY <1>1, <1>4, LeaveType DEF ControlType, Outcomes, Errors
<1> QED BY <1>2, <1>3, <1>4 DEF HandlerFails

LEMMA NetmikoFailsType ==
    ASSUME ControlType, NEW d \in Devices, NetmikoFails(d)
    PROVE  ControlType'
<1>1. retries' \in [Devices -> Nat]
  BY DEF ControlType, NetmikoFails
<1>2. CASE Unwind(d, "backoff") /\ UNCHANGED outcome
  BY <1>1, <1>2, UnwindType DEF ControlType, Targets
<1>3. CASE Leave(d, "failed")
  BY <1>1, <1>3, LeaveType DEF ControlType, Outcomes, Errors
<1> QED BY <1>2, <1>3 DEF NetmikoFails

LEMMA AttemptStopsType ==
    ASSUME ControlType, NEW d \in Devices, AttemptStops(d)
    PROVE  ControlType'
BY LeaveType DEF AttemptStops, ControlType, Outcomes, Errors

LEMMA AttemptFailsType ==
    ASSUME ControlType, NEW d \in Devices, AttemptFails(d)
    PROVE  ControlType'
BY HandlerFailsType, NetmikoFailsType DEF AttemptFails

LEMMA NetmikoCommandFailsType ==
    ASSUME ControlType, NEW d \in Devices, NetmikoCommandFails(d)
    PROVE  ControlType'
BY NetmikoFailsType, AttemptStopsType DEF NetmikoCommandFails

\* The other variables have their types.
DataType ==
    /\ cancel \in BOOLEAN
    /\ step \in [Devices -> Nat \ {0}]
    /\ held \in [Devices -> BOOLEAN]
    /\ loose \in [Devices -> Nat]
    /\ sent \in [Devices -> [1..NCustom -> Nat]]
    /\ late \in [Devices -> Nat]
    /\ saved \in [Devices -> {"none", "partial", "complete"}]
    /\ reported \in [Devices -> BOOLEAN]
    /\ row \in [Devices -> {"none", "success", "error"}]
    /\ inspectionDone \in Nat /\ backupTotal \in Nat /\ backupDone \in Nat

LEMMA TypeParts == TypeOK <=> ControlType /\ DataType
BY DEF TypeOK, ControlType, DataType

\* a history counter of late commands stays a number
LEMMA CountLateType ==
    ASSUME late \in [Devices -> Nat], NEW d \in Devices, CountLate(d)
    PROVE  late' \in [Devices -> Nat]
BY DEF CountLate

\* a forgotten connection is counted
LEMMA LeaveOpenType ==
    ASSUME loose \in [Devices -> Nat], NEW d \in Devices, LeaveOpen(d) \/ UNCHANGED loose
    PROVE  loose' \in [Devices -> Nat]
BY DEF LeaveOpen

\* counting one more send of a command
LEMMA CountUpType ==
    ASSUME NEW S, NEW f \in [S -> Nat], NEW i
    PROVE  [f EXCEPT ![i] = f[i] + 1] \in [S -> Nat]
<1>1. CASE i \in S
  <2>1. f[i] + 1 \in Nat
    BY <1>1
  <2> QED BY <2>1
<1>2. CASE i \notin S
  BY <1>2
<1> QED BY <1>1, <1>2

\* The count of the one goes up, the others stay.
LEMMA CountedOneUp ==
    ASSUME NEW Things, NEW f \in [Things -> Nat], NEW i \in Things, NEW g, g = [f EXCEPT ![i] = f[i] + 1]
    PROVE  g \in [Things -> Nat] /\ g[i] = f[i] + 1 /\ \A j \in Things : j # i => g[j] = f[j]
<1>1. f[i] + 1 \in Nat
  OBVIOUS
<1> QED BY <1>1

\* the next command's index
LEMMA StepOnType ==
    ASSUME DataType, NEW d \in Devices,
           step' = [step EXCEPT ![d] = @ + 1] \/ UNCHANGED step
    PROVE  step' \in [Devices -> Nat \ {0}]
<1>1. step[d] + 1 \in Nat \ {0}
  BY DEF DataType
<1> QED BY <1>1 DEF DataType

LEMMA InitType == Init => TypeOK
<1> SUFFICES ASSUME Init PROVE ControlType /\ DataType
  BY TypeParts
<1>1. ControlType
  <2>1. "idle" \in Locations /\ "returned" \in Targets /\ "none" \in Outcomes
    BY DEF Locations, Targets, Outcomes
  <2> QED BY <2>1 DEF Init, ControlType
<1>2. DataType
  <2>1. sent \in [Devices -> [1..NCustom -> Nat]]
    BY DEF Init
  <2>2. step \in [Devices -> Nat \ {0}]
    BY DEF Init
  <2> QED BY <2>1, <2>2 DEF Init, DataType
<1> QED BY <1>1, <1>2

\* One case per action: where control can go, then the data the action writes.
LEMMA StepType ==
    ASSUME TypeOK, NEW d \in Devices, Start(d) \/ Step(d)
    PROVE  TypeOK'
<1> USE DEF counters
<1>a. ControlType /\ DataType
  BY TypeParts
<1> SUFFICES ControlType' /\ DataType'
  BY TypeParts, PTL
<1>1. CASE Start(d)
  <2>1. ControlType'
    BY <1>a, <1>1, GotoType DEF Start, ControlType, Locations
  <2> QED BY <1>a, <1>1, <2>1 DEF Start, DataType
<1>2. CASE Begin(d)
  <2>1. ControlType'
    BY <1>a, <1>2, GotoType DEF Begin, ControlType, Locations, Outcomes, Errors
  <2> QED BY <1>a, <1>2, <2>1 DEF Begin, DataType
<1>3. CASE Probe(d)
  <2>1. ControlType'
    BY <1>a, <1>3, GotoType DEF Probe, ControlType, Locations, Outcomes, Errors
  <2> QED BY <1>a, <1>3, <2>1 DEF Probe, DataType
<1>4. CASE Attempt(d)
  <2>1. ControlType'
    BY <1>a, <1>4, GotoType, LeaveType DEF Attempt, ControlType, Locations, Outcomes, Errors
  <2> QED BY <1>a, <1>4, <2>1 DEF Attempt, DataType
<1>5. CASE Connect(d)
  <2>1. ControlType'
    BY <1>a, <1>5, GotoType, AttemptFailsType, AttemptStopsType
       DEF Connect, ControlType, Locations
  <2>2. loose' \in [Devices -> Nat]
    BY <1>a, <1>5, LeaveOpenType DEF Connect, DataType
  <2> QED BY <1>a, <1>5, <2>1, <2>2 DEF Connect, DataType
<1>6. CASE Enable(d)
  <2>1. FirstPhase \in Locations
    BY DEF FirstPhase, Locations
  <2>2. ControlType'
    BY <1>a, <1>6, <2>1, GotoType, AttemptFailsType, AttemptStopsType
       DEF Enable, ControlType
  <2> QED BY <1>a, <1>6, <2>2 DEF Enable, DataType
<1>7. CASE InspectNext(d)
  <2>1. ControlType'
    BY <1>a, <1>7, GotoType, LeaveType DEF InspectNext, ControlType, Locations, Outcomes, Errors
  <2> QED BY <1>a, <1>7, <2>1 DEF InspectNext, DataType
<1>8. CASE InspectCommand(d)
  <2>1. ControlType'
    BY <1>a, <1>8, GotoType, NetmikoCommandFailsType DEF InspectCommand, ControlType, Locations
  <2>2. late' \in [Devices -> Nat]
    BY <1>a, <1>8, CountLateType DEF InspectCommand, DataType
  <2>3. step' \in [Devices -> Nat \ {0}]
    BY <1>a, <1>8, StepOnType DEF InspectCommand
  <2> QED BY <1>a, <1>8, <2>1, <2>2, <2>3 DEF InspectCommand, DataType
<1>9. CASE InspectDone(d)
  <2>1. ControlType'
    BY <1>a, <1>9, GotoType, LeaveType DEF InspectDone, ControlType, Locations, Outcomes
  <2>2. /\ inspectionDone' \in Nat
        /\ backupTotal' \in Nat
    BY <1>a, <1>9 DEF InspectDone, DataType
  <2>3. reported' \in [Devices -> BOOLEAN]
    BY <1>a, <1>9 DEF InspectDone, DataType
  <2> QED BY <1>a, <1>9, <2>1, <2>2, <2>3 DEF InspectDone, DataType
<1>10. CASE CustomNext(d)
  <2>1. ControlType'
    BY <1>a, <1>10, GotoType, LeaveType DEF CustomNext, ControlType, Locations, Outcomes, Errors
  <2> QED BY <1>a, <1>10, <2>1 DEF CustomNext, DataType
<1>11. CASE CustomCommand(d)
  <2>1. ControlType'
    BY <1>a, <1>11, GotoType, LeaveType, NetmikoCommandFailsType
       DEF CustomCommand, ControlType, Locations, Outcomes, Errors
  <2>2. late' \in [Devices -> Nat]
    BY <1>a, <1>11, CountLateType DEF CustomCommand, DataType
  <2>3. sent' \in [Devices -> [1..NCustom -> Nat]]
    <3>1. sent[d] \in [1..NCustom -> Nat]
      BY <1>a DEF DataType
    <3>2. [sent[d] EXCEPT ![step[d]] = sent[d][step[d]] + 1] \in [1..NCustom -> Nat]
      BY <3>1, CountUpType
    <3>3. sent' = [sent EXCEPT ![d] = [sent[d] EXCEPT ![step[d]] = sent[d][step[d]] + 1]]
      BY <1>11 DEF CustomCommand
    <3> QED BY <1>a, <3>2, <3>3 DEF DataType
  <2>4. step' \in [Devices -> Nat \ {0}]
    BY <1>a, <1>11, StepOnType DEF CustomCommand
  <2> QED BY <1>a, <1>11, <2>1, <2>2, <2>3, <2>4 DEF CustomCommand, DataType
<1>12. CASE StoreOutputs(d)
  <2>1. ControlType'
    BY <1>a, <1>12, LeaveType, AttemptFailsType DEF StoreOutputs, ControlType, Outcomes
  <2> QED BY <1>a, <1>12, <2>1 DEF StoreOutputs, DataType
<1>13. CASE BackupNext(d)
  <2>1. ControlType'
    BY <1>a, <1>13, GotoType, LeaveType DEF BackupNext, ControlType, Locations, Outcomes, Errors
  <2> QED BY <1>a, <1>13, <2>1 DEF BackupNext, DataType
<1>14. CASE BackupCommand(d)
  <2>1. ControlType'
    BY <1>a, <1>14, LeaveType, NetmikoCommandFailsType DEF BackupCommand, ControlType, Outcomes
  <2>2. late' \in [Devices -> Nat]
    BY <1>a, <1>14, CountLateType DEF BackupCommand, DataType
  <2> QED BY <1>a, <1>14, <2>1, <2>2 DEF BackupCommand, DataType
<1>15. CASE Close(d)
  <2>1. after[d] \in Locations
    BY <1>a, TargetsAreLocations DEF ControlType
  <2>2. ControlType'
    BY <1>a, <1>15, <2>1, GotoType DEF Close, ControlType, Locations
  <2>3. loose' \in [Devices -> Nat]
    BY <1>a, <1>15, LeaveOpenType DEF Close, DataType
  <2> QED BY <1>a, <1>15, <2>2, <2>3 DEF Close, DataType
<1>16. CASE Cooldown(d)
  <2>1. after[d] \in Locations
    BY <1>a, TargetsAreLocations DEF ControlType
  <2>2. ControlType'
    BY <1>a, <1>16, <2>1, GotoType DEF Cooldown, ControlType
  <2> QED BY <1>a, <1>16, <2>2 DEF Cooldown, DataType
<1>17. CASE Backoff(d)
  <2>1. ControlType'
    BY <1>a, <1>17, UnwindType, LeaveType DEF Backoff, ControlType, Targets, Outcomes, Errors
  <2> QED BY <1>a, <1>17, <2>1 DEF Backoff, DataType
<1>18. CASE OuterExcept(d)
  <2>1. ControlType'
    BY <1>a, <1>18, GotoType DEF OuterExcept, ControlType, Locations, Outcomes, Errors
  <2> QED BY <1>a, <1>18, <2>1 DEF OuterExcept, DataType
<1>19. CASE Finish(d)
  <2>1. ControlType'
    BY <1>a, <1>19, GotoType DEF Finish, ControlType, Locations
  <2> QED BY <1>a, <1>19, <2>1 DEF Finish, DataType
<1> QED BY <1>1, <1>2, <1>3, <1>4, <1>5, <1>6, <1>7, <1>8, <1>9, <1>10, <1>11,
           <1>12, <1>13, <1>14, <1>15, <1>16, <1>17, <1>18, <1>19 DEF Step, Converse

LEMMA NextType == TypeOK /\ [Next]_vars => TypeOK'
<1> SUFFICES ASSUME TypeOK, [Next]_vars PROVE TypeOK'
  OBVIOUS
<1>1. CASE Cancel
  BY <1>1 DEF Cancel, TypeOK, counters
<1>2. CASE \E d \in Devices : Start(d) \/ Step(d)
  BY <1>2, StepType
<1>3. CASE UNCHANGED vars
  BY <1>3 DEF vars, counters, TypeOK
<1> QED BY <1>1, <1>2, <1>3 DEF Next, Terminated

\* Whatever the devices, the disk and the user do, the session state has its
\* types (_connect_to_device and the wrappers around it).
THEOREM TypeCorrect == Spec => []TypeOK
BY InitType, NextType, PTL DEF Spec

----------------------------------------------------------------------------
(* Sessions and retries.                                                   *)

Sessionless == {"idle", "begin", "probe", "attempt", "connect", "outer",
                "cooldown", "returned", "done"}
Retrying == {"idle", "begin", "probe", "attempt", "connect", "enable", "inspect",
             "inspecting", "custom", "commanding", "backup", "backing", "store",
             "backoff"}

\* Where a thread may hold a session, and that one that is on its way to another
\* attempt, through `close` and `cooldown` too, has an attempt left.
SessionInv ==
    \A d \in Devices :
        /\ pc[d] \in Sessionless => ~held[d]
        /\ pc[d] \in Retrying => retries[d] < MaxRetries
        /\ (pc[d] \in {"close", "cooldown"} /\ after[d] \in {"attempt", "backoff"})
              => retries[d] < MaxRetries

LEMMA SessionInvInit == Init => SessionInv
BY BoundsAssumption DEF Init, SessionInv, Sessionless, Retrying

LEMMA SessionInvStep ==
    ASSUME TypeOK, SessionInv, NEW d \in Devices, Start(d) \/ Step(d)
    PROVE  SessionInv'
<1> USE DEF SessionInv, Sessionless, Retrying, Goto
<1>a. /\ pc \in [Devices -> Locations]
      /\ after \in [Devices -> Targets]
      /\ retries \in [Devices -> Nat]
      /\ held \in [Devices -> BOOLEAN]
      /\ MaxRetries \in Nat
  BY BoundsAssumption DEF TypeOK
<1>1. CASE Start(d)
  BY <1>a, <1>1 DEF Start
<1>2. CASE Begin(d)
  BY <1>a, <1>2 DEF Begin
<1>3. CASE Probe(d)
  BY <1>a, <1>3 DEF Probe
<1>4. CASE Attempt(d)
  BY <1>a, <1>4 DEF Attempt, Leave, Unwind
<1>5. CASE Connect(d)
  BY <1>a, <1>5 DEF Connect, AttemptFails, AttemptStops, HandlerFails, NetmikoFails, Leave, Unwind
<1>6. CASE Enable(d)
  BY <1>a, <1>6 DEF Enable, FirstPhase, AttemptFails, AttemptStops, HandlerFails, NetmikoFails, Leave, Unwind
<1>7. CASE InspectNext(d)
  BY <1>a, <1>7 DEF InspectNext, Leave, Unwind
<1>8. CASE InspectCommand(d)
  BY <1>a, <1>8 DEF InspectCommand, NetmikoCommandFails, AttemptStops, NetmikoFails, Leave, Unwind
<1>9. CASE InspectDone(d)
  BY <1>a, <1>9 DEF InspectDone, Leave, Unwind
<1>10. CASE CustomNext(d)
  BY <1>a, <1>10 DEF CustomNext, Leave, Unwind
<1>11. CASE CustomCommand(d)
  BY <1>a, <1>11 DEF CustomCommand, NetmikoCommandFails, AttemptStops, NetmikoFails, Leave, Unwind
<1>12. CASE StoreOutputs(d)
  BY <1>a, <1>12 DEF StoreOutputs, AttemptFails, HandlerFails, NetmikoFails, Leave, Unwind
<1>13. CASE BackupNext(d)
  BY <1>a, <1>13 DEF BackupNext, Leave, Unwind
<1>14. CASE BackupCommand(d)
  BY <1>a, <1>14 DEF BackupCommand, NetmikoCommandFails, AttemptStops, NetmikoFails, Leave, Unwind
<1>15. CASE Close(d)
  BY <1>a, <1>15 DEF Close, Targets
<1>16. CASE Cooldown(d)
  BY <1>a, <1>16 DEF Cooldown, Targets
<1>17. CASE Backoff(d)
  BY <1>a, <1>17 DEF Backoff, Leave, Unwind
<1>18. CASE OuterExcept(d)
  BY <1>a, <1>18 DEF OuterExcept
<1>19. CASE Finish(d)
  BY <1>a, <1>19 DEF Finish
<1> QED BY <1>1, <1>2, <1>3, <1>4, <1>5, <1>6, <1>7, <1>8, <1>9, <1>10, <1>11, <1>12, <1>13, <1>14, <1>15, <1>16, <1>17, <1>18, <1>19 DEF Step, Converse

LEMMA SessionInvNext == TypeOK /\ SessionInv /\ [Next]_vars => SessionInv'
<1> SUFFICES ASSUME TypeOK, SessionInv, [Next]_vars PROVE SessionInv'
  OBVIOUS
<1>1. CASE Cancel
  BY <1>1 DEF Cancel, SessionInv
<1>2. CASE \E d \in Devices : Start(d) \/ Step(d)
  BY <1>2, SessionInvStep
<1>3. CASE UNCHANGED vars
  BY <1>3 DEF vars, SessionInv
<1> QED BY <1>1, <1>2, <1>3 DEF Next, Terminated

\* Where a thread has no more connections open than attempts it has counted; at
\* `close` and `cooldown` it depends on where they lead.
Counted(d) ==
    \/ pc[d] \in {"idle", "begin", "probe", "attempt", "connect", "backoff", "outer"}
    \/ pc[d] \in {"close", "cooldown"} /\ after[d] # "returned"

\* Only a handler forgets connections.  There are as many as attempts were
\* counted, and one more only while an attempt goes on or after the last.
LooseInv ==
    \A d \in Devices :
        /\ d \notin VendorPath => loose[d] = 0
        /\ loose[d] <= MaxRetries
        /\ held[d] => loose[d] + 1 <= MaxRetries
        /\ Counted(d) => /\ loose[d] <= retries[d]
                         /\ held[d] => loose[d] + 1 <= retries[d]
        /\ pc[d] \in Retrying => loose[d] <= retries[d]
        /\ pc[d] = "close" => held[d]

LEMMA LooseInvInit == Init => LooseInv
BY BoundsAssumption DEF Init, LooseInv, Counted

LEMMA LooseInvStep ==
    ASSUME TypeOK, SessionInv, LooseInv, NEW d \in Devices, Start(d) \/ Step(d)
    PROVE  LooseInv'
<1> USE DEF LooseInv, Counted, Retrying, Goto
<1>a. /\ pc \in [Devices -> Locations]
      /\ after \in [Devices -> Targets]
      /\ retries \in [Devices -> Nat]
      /\ held \in [Devices -> BOOLEAN]
      /\ loose \in [Devices -> Nat]
      /\ MaxRetries \in Nat
  BY BoundsAssumption DEF TypeOK
<1>1. CASE Start(d)
  BY <1>a, <1>1 DEF Start
<1>2. CASE Begin(d)
  BY <1>a, <1>2 DEF Begin
<1>3. CASE Probe(d)
  BY <1>a, <1>3 DEF Probe
<1>4. CASE Attempt(d)
  BY <1>a, <1>4 DEF Attempt, Leave, Unwind
<1>5. CASE Connect(d)
  BY <1>a, <1>5 DEF Connect, LeaveOpen, SessionInv, Sessionless, AttemptFails, AttemptStops, HandlerFails, NetmikoFails, Leave, Unwind
<1>6. CASE Enable(d)
  BY <1>a, <1>6 DEF Enable, FirstPhase, AttemptFails, AttemptStops, HandlerFails, NetmikoFails, Leave, Unwind
<1>7. CASE InspectNext(d)
  BY <1>a, <1>7 DEF InspectNext, Leave, Unwind
<1>8. CASE InspectCommand(d)
  BY <1>a, <1>8 DEF InspectCommand, NetmikoCommandFails, AttemptStops, NetmikoFails, Leave, Unwind
<1>9. CASE InspectDone(d)
  BY <1>a, <1>9 DEF InspectDone, Leave, Unwind
<1>10. CASE CustomNext(d)
  BY <1>a, <1>10 DEF CustomNext, Leave, Unwind
<1>11. CASE CustomCommand(d)
  BY <1>a, <1>11 DEF CustomCommand, NetmikoCommandFails, AttemptStops, NetmikoFails, Leave, Unwind
<1>12. CASE StoreOutputs(d)
  BY <1>a, <1>12 DEF StoreOutputs, AttemptFails, HandlerFails, NetmikoFails, Leave, Unwind
<1>13. CASE BackupNext(d)
  BY <1>a, <1>13 DEF BackupNext, Leave, Unwind
<1>14. CASE BackupCommand(d)
  BY <1>a, <1>14 DEF BackupCommand, NetmikoCommandFails, AttemptStops, NetmikoFails, Leave, Unwind
<1>15. CASE Close(d)
  BY <1>a, <1>15 DEF Close, LeaveOpen, Targets, SessionInv
<1>16. CASE Cooldown(d)
  BY <1>a, <1>16 DEF Cooldown, Targets, SessionInv, Sessionless
<1>17. CASE Backoff(d)
  BY <1>a, <1>17 DEF Backoff, Leave, Unwind
<1>18. CASE OuterExcept(d)
  BY <1>a, <1>18 DEF OuterExcept
<1>19. CASE Finish(d)
  BY <1>a, <1>19 DEF Finish
<1> QED BY <1>1, <1>2, <1>3, <1>4, <1>5, <1>6, <1>7, <1>8, <1>9, <1>10, <1>11, <1>12, <1>13, <1>14, <1>15, <1>16, <1>17, <1>18, <1>19 DEF Step, Converse

LEMMA LooseInvNext == TypeOK /\ SessionInv /\ LooseInv /\ [Next]_vars => LooseInv'
<1> SUFFICES ASSUME TypeOK, SessionInv, LooseInv, [Next]_vars PROVE LooseInv'
  OBVIOUS
<1>1. CASE Cancel
  BY <1>1 DEF Cancel, LooseInv, Counted
<1>2. CASE \E d \in Devices : Start(d) \/ Step(d)
  BY <1>2, LooseInvStep
<1>3. CASE UNCHANGED vars
  BY <1>3 DEF vars, LooseInv, Counted
<1> QED BY <1>1, <1>2, <1>3 DEF Next, Terminated

\* A session that logged in is disconnected before the next attempt starts or the
\* device returns; what a failed login or disconnect of a handler leaves open is
\* bounded by the attempts, however a failure is counted (_connect_to_device).
THEOREM SessionsStayBounded == Spec => []SessionsAreBounded
<1>1. TypeOK /\ SessionInv /\ LooseInv => SessionsAreBounded
  BY BoundsAssumption DEF TypeOK, SessionInv, Sessionless, LooseInv, SessionsAreBounded
<1>2. Init => TypeOK /\ SessionInv /\ LooseInv
  BY InitType, SessionInvInit, LooseInvInit
<1>3. TypeOK /\ SessionInv /\ LooseInv /\ [Next]_vars => (TypeOK /\ SessionInv /\ LooseInv)'
  BY NextType, SessionInvNext, LooseInvNext
<1> QED BY <1>1, <1>2, <1>3, PTL DEF Spec

\* The `while` condition of the retry loop is true whenever it is evaluated, so
\* _connect_to_device never falls off its end and returns None.
THEOREM RetryLoopNeverFallsThrough == Spec => []RetryLoopAlwaysReturns
<1>1. SessionInv => RetryLoopAlwaysReturns
  BY DEF SessionInv, Retrying, RetryLoopAlwaysReturns
<1> QED BY <1>1, TypeCorrect, SessionInvInit, SessionInvNext, PTL DEF Spec

----------------------------------------------------------------------------
(* The stop request.                                                       *)

Sending == {"inspecting", "commanding", "backing"}

\* A late command was the one in flight: the thread is past it, and every send
\* is preceded by a look at the cancel event.
StopInv ==
    \A d \in Devices :
        /\ late[d] <= 1
        /\ (~cancel \/ pc[d] \in Sending) => late[d] = 0

LEMMA StopInvInit == Init => StopInv
BY DEF Init, StopInv

LEMMA StopInvStep ==
    ASSUME TypeOK, StopInv, NEW d \in Devices, Start(d) \/ Step(d)
    PROVE  StopInv'
<1> USE DEF StopInv, Sending, Goto
<1>a. /\ pc \in [Devices -> Locations]
      /\ after \in [Devices -> Targets]
      /\ late \in [Devices -> Nat]
      /\ cancel \in BOOLEAN
  BY DEF TypeOK
<1>1. CASE Start(d)
  BY <1>a, <1>1 DEF Start
<1>2. CASE Begin(d)
  BY <1>a, <1>2 DEF Begin
<1>3. CASE Probe(d)
  BY <1>a, <1>3 DEF Probe
<1>4. CASE Attempt(d)
  BY <1>a, <1>4 DEF Attempt, Leave, Unwind
<1>5. CASE Connect(d)
  BY <1>a, <1>5 DEF Connect, AttemptFails, AttemptStops, HandlerFails, NetmikoFails, Leave, Unwind
<1>6. CASE Enable(d)
  BY <1>a, <1>6 DEF Enable, FirstPhase, AttemptFails, AttemptStops, HandlerFails, NetmikoFails, Leave, Unwind
<1>7. CASE InspectNext(d)
  BY <1>a, <1>7 DEF InspectNext, Leave, Unwind
<1>8. CASE InspectCommand(d)
  BY <1>a, <1>8 DEF InspectCommand, NetmikoCommandFails, AttemptStops, NetmikoFails, Leave, Unwind, CountLate
<1>9. CASE InspectDone(d)
  BY <1>a, <1>9 DEF InspectDone, Leave, Unwind
<1>10. CASE CustomNext(d)
  BY <1>a, <1>10 DEF CustomNext, Leave, Unwind
<1>11. CASE CustomCommand(d)
  BY <1>a, <1>11 DEF CustomCommand, NetmikoCommandFails, AttemptStops, NetmikoFails, Leave, Unwind, CountLate
<1>12. CASE StoreOutputs(d)
  BY <1>a, <1>12 DEF StoreOutputs, AttemptFails, AttemptStops, HandlerFails, NetmikoFails, Leave, Unwind
<1>13. CASE BackupNext(d)
  BY <1>a, <1>13 DEF BackupNext, Leave, Unwind
<1>14. CASE BackupCommand(d)
  BY <1>a, <1>14 DEF BackupCommand, NetmikoCommandFails, AttemptStops, NetmikoFails, Leave, Unwind, CountLate
<1>15. CASE Close(d)
  BY <1>a, <1>15 DEF Close, Targets
<1>16. CASE Cooldown(d)
  BY <1>a, <1>16 DEF Cooldown, Targets
<1>17. CASE Backoff(d)
  BY <1>a, <1>17 DEF Backoff, Leave, Unwind
<1>18. CASE OuterExcept(d)
  BY <1>a, <1>18 DEF OuterExcept
<1>19. CASE Finish(d)
  BY <1>a, <1>19 DEF Finish
<1> QED BY <1>1, <1>2, <1>3, <1>4, <1>5, <1>6, <1>7, <1>8, <1>9, <1>10, <1>11, <1>12, <1>13, <1>14, <1>15, <1>16, <1>17, <1>18, <1>19 DEF Step, Converse

LEMMA StopInvNext == TypeOK /\ StopInv /\ [Next]_vars => StopInv'
<1> SUFFICES ASSUME TypeOK, StopInv, [Next]_vars PROVE StopInv'
  OBVIOUS
<1>1. CASE Cancel
  BY <1>1 DEF Cancel, StopInv
<1>2. CASE \E d \in Devices : Start(d) \/ Step(d)
  BY <1>2, StopInvStep
<1>3. CASE UNCHANGED vars
  BY <1>3 DEF vars, StopInv
<1> QED BY <1>1, <1>2, <1>3 DEF Next, Terminated

\* After a stop request a device is sent at most one command, whatever its mode,
\* phase and remaining retries.
THEOREM StopIsHeeded == Spec => []StopSparesOnlyTheCommandInFlight
<1>1. StopInv => StopSparesOnlyTheCommandInFlight
  BY DEF StopInv, StopSparesOnlyTheCommandInFlight
<1> QED BY <1>1, TypeCorrect, StopInvInit, StopInvNext, PTL DEF Spec

----------------------------------------------------------------------------
(* The script, seen from outside: the kinds of step that matter to it.     *)

Scripted == {"custom", "commanding", "store"}

\* no attempt of d has begun the script without having ended since, and another
\* attempt may follow
Between(d) == \/ pc[d] \in {"idle", "begin", "probe", "attempt", "connect", "enable",
                            "inspect", "inspecting", "backup", "backing", "backoff",
                            "outer"}
              \/ pc[d] \in {"close", "cooldown"} /\ after[d] # "returned"

\* d will not be tried again
Leaving(d) == ~Between(d) /\ pc[d] \notin Scripted

OthersStay(d) == \A e \in Devices : e # d =>
    /\ pc'[e] = pc[e] /\ after'[e] = after[e] /\ retries'[e] = retries[e]
    /\ step'[e] = step[e] /\ sent'[e] = sent[e]

SentStays(d) == sent'[d] = sent[d]
SentOnce(d) == sent'[d] = [sent[d] EXCEPT ![step[d]] = sent[d][step[d]] + 1]

Elsewhere(d) == Between(d) /\ Between(d)' /\ SentStays(d) /\ retries'[d] >= retries[d]
GoesAway(d) == Leaving(d)' /\ SentStays(d)
Opens(d) == /\ Between(d) /\ pc'[d] = "custom" /\ step'[d] = 1
            /\ SentStays(d) /\ retries'[d] = retries[d]
TakesNext(d) == /\ pc[d] = "custom" /\ pc'[d] = "commanding" /\ step[d] <= NCustom
                /\ SentStays(d) /\ retries'[d] = retries[d] /\ step'[d] = step[d]
Ends(d) == /\ pc[d] = "custom" /\ pc'[d] = "store" /\ step[d] > NCustom
           /\ SentStays(d) /\ retries'[d] = retries[d] /\ step'[d] = step[d]
Sends(d) == /\ pc[d] = "commanding" /\ pc'[d] = "custom" /\ step'[d] = step[d] + 1
            /\ SentOnce(d) /\ retries'[d] = retries[d]
SendsAndFails(d) == /\ pc[d] = "commanding" /\ Between(d)' /\ d \notin VendorPath
                    /\ SentOnce(d) /\ retries'[d] = retries[d] + 1
SendsAndLeaves(d) == pc[d] = "commanding" /\ Leaving(d)' /\ SentOnce(d)
StoreFails(d) == /\ pc[d] = "store" /\ Between(d)'
                 /\ SentStays(d) /\ retries'[d] = retries[d] + 1

ScriptMove(d) ==
    \/ Elsewhere(d) \/ GoesAway(d) \/ Opens(d) \/ TakesNext(d) \/ Ends(d)
    \/ Sends(d) \/ SendsAndFails(d) \/ SendsAndLeaves(d) \/ StoreFails(d)

LEMMA StepIsScriptMove ==
    ASSUME TypeOK, NEW d \in Devices, Start(d) \/ Step(d)
    PROVE  ScriptMove(d) /\ OthersStay(d)
<1> USE DEF ScriptMove, OthersStay, Scripted, Between, Leaving, SentStays, Goto
<1>a. /\ pc \in [Devices -> Locations]
      /\ after \in [Devices -> Targets]
      /\ retries \in [Devices -> Nat]
      /\ step \in [Devices -> Nat \ {0}]
      /\ sent \in [Devices -> [1..NCustom -> Nat]]
  BY DEF TypeOK
<1>1. CASE Start(d)
  BY <1>a, <1>1 DEF Start, Elsewhere
<1>2. CASE Begin(d)
  BY <1>a, <1>2 DEF Begin, Elsewhere, GoesAway
<1>3. CASE Probe(d)
  BY <1>a, <1>3 DEF Probe, Elsewhere, GoesAway
<1>4. CASE Attempt(d)
  BY <1>a, <1>4 DEF Attempt, Elsewhere, GoesAway, Leave, Unwind
<1>5. CASE Connect(d)
  BY <1>a, <1>5 DEF Connect, Elsewhere, GoesAway, AttemptFails, AttemptStops, HandlerFails, NetmikoFails, Leave, Unwind
<1>6. CASE Enable(d)
  BY <1>a, <1>6 DEF Enable, Elsewhere, GoesAway, Opens, FirstPhase, AttemptFails, AttemptStops, HandlerFails, NetmikoFails, Leave, Unwind
<1>7. CASE InspectNext(d)
  BY <1>a, <1>7 DEF InspectNext, Elsewhere, GoesAway, Leave, Unwind
<1>8. CASE InspectCommand(d)
  BY <1>a, <1>8 DEF InspectCommand, Elsewhere, GoesAway, NetmikoCommandFails, AttemptStops, NetmikoFails, Leave, Unwind
<1>9. CASE InspectDone(d)
  BY <1>a, <1>9 DEF InspectDone, Elsewhere, GoesAway, Leave, Unwind
<1>10. CASE CustomNext(d)
  BY <1>a, <1>10 DEF CustomNext, GoesAway, TakesNext, Ends, Leave, Unwind
<1>11. CASE CustomCommand(d)
  BY <1>a, <1>11 DEF CustomCommand, Sends, SendsAndFails, SendsAndLeaves, SentOnce, NetmikoCommandFails, AttemptStops, NetmikoFails, Leave, Unwind
<1>12. CASE StoreOutputs(d)
  BY <1>a, <1>12 DEF StoreOutputs, GoesAway, StoreFails, AttemptFails, AttemptStops, HandlerFails, NetmikoFails, Leave, Unwind
<1>13. CASE BackupNext(d)
  BY <1>a, <1>13 DEF BackupNext, Elsewhere, GoesAway, Leave, Unwind
<1>14. CASE BackupCommand(d)
  BY <1>a, <1>14 DEF BackupCommand, Elsewhere, GoesAway, NetmikoCommandFails, AttemptStops, NetmikoFails, Leave, Unwind
<1>15. CASE Close(d)
  BY <1>a, <1>15 DEF Close, Elsewhere, GoesAway, Targets
<1>16. CASE Cooldown(d)
  BY <1>a, <1>16 DEF Cooldown, Elsewhere, GoesAway, Targets
<1>17. CASE Backoff(d)
  BY <1>a, <1>17 DEF Backoff, Elsewhere, GoesAway, Leave, Unwind
<1>18. CASE OuterExcept(d)
  BY <1>a, <1>18 DEF OuterExcept, Elsewhere, GoesAway
<1>19. CASE Finish(d)
  BY <1>a, <1>19 DEF Finish, GoesAway
<1> QED BY <1>1, <1>2, <1>3, <1>4, <1>5, <1>6, <1>7, <1>8, <1>9, <1>10, <1>11, <1>12, <1>13, <1>14, <1>15, <1>16, <1>17, <1>18, <1>19 DEF Step, Converse


----------------------------------------------------------------------------
(* The script reaches the device in order and at most once per attempt.    *)

\* The index is inside the script when its command is sent, and past the end
\* when the outputs are stored.
ScriptIndex(d) ==
    /\ pc[d] = "commanding" => step[d] <= NCustom
    /\ pc[d] = "store" => step[d] > NCustom

\* A command has been sent at most once by each counted attempt, and once more
\* by the running one if the index is past it.
ScriptCount(d) ==
    \A i \in 1..NCustom :
        /\ sent[d][i] <= MaxRetries
        /\ Between(d) => sent[d][i] <= retries[d]
        /\ pc[d] \in Scripted =>
              sent[d][i] <= retries[d] + (IF i < step[d] THEN 1 ELSE 0)

\* No command overtakes an earlier one: the running attempt has left every
\* command before its index ahead of every command from it on.
ScriptOrder(d) ==
    \A i, j \in 1..NCustom :
        /\ i <= j => sent[d][j] <= sent[d][i]
        /\ (pc[d] \in Scripted /\ i < step[d] /\ step[d] <= j)
              => sent[d][j] < sent[d][i]

\* Every command before the index has been sent.
ScriptStarted(d) ==
    pc[d] \in Scripted => \A i \in 1..NCustom : i < step[d] => sent[d][i] > 0

\* On the handler path each attempt that may be followed by another has sent
\* all of the script or nothing of it.
ScriptEven(d) ==
    d \in VendorPath => \A i, j \in 1..NCustom :
        /\ sent[d][i] <= sent[d][j] + 1
        /\ Between(d) => sent[d][i] = sent[d][j]
        /\ (/\ pc[d] \in Scripted
            /\ (i < step[d] /\ j < step[d]) \/ (step[d] <= i /\ step[d] <= j))
              => sent[d][i] = sent[d][j]

ScriptInv == \A d \in Devices :
    ScriptIndex(d) /\ ScriptCount(d) /\ ScriptOrder(d) /\ ScriptStarted(d) /\ ScriptEven(d)

LEMMA ScriptInvInit == Init => ScriptInv
<1> SUFFICES ASSUME Init, NEW d \in Devices
             PROVE  ScriptIndex(d) /\ ScriptCount(d) /\ ScriptOrder(d) /\ ScriptStarted(d) /\ ScriptEven(d)
  BY DEF ScriptInv
<1>1. pc[d] = "idle" /\ retries[d] = 0 /\ \A i \in 1..NCustom : sent[d][i] = 0
  BY DEF Init
<1> QED BY <1>1, BoundsAssumption
        DEF ScriptIndex, ScriptCount, ScriptOrder, ScriptStarted, ScriptEven, Scripted, Between

\* One more send of command k, which no command before it has fallen behind:
\* what the running attempt has sent is now one command longer.
LEMMA OneMoreSend ==
    ASSUME NEW n \in Nat, NEW k \in 1..n, NEW r \in Nat,
           NEW S \in [1..n -> Nat], NEW T \in [1..n -> Nat],
           T[k] = S[k] + 1,
           \A i \in 1..n : i # k => T[i] = S[i],
           \A i \in 1..n : S[i] <= r + (IF i < k THEN 1 ELSE 0),
           \A i, j \in 1..n : i <= j => S[j] <= S[i],
           \A i, j \in 1..n : i < k /\ k <= j => S[j] < S[i]
    PROVE  /\ \A i \in 1..n : T[i] <= r + (IF i < k + 1 THEN 1 ELSE 0)
           /\ \A i, j \in 1..n : i <= j => T[j] <= T[i]
           /\ \A i, j \in 1..n : i < k + 1 /\ k + 1 <= j => T[j] < T[i]
<1>1. ASSUME NEW i \in 1..n
      PROVE  T[i] <= r + (IF i < k + 1 THEN 1 ELSE 0)
  <2>1. S[i] \in Nat /\ i \in Nat /\ k \in Nat
    OBVIOUS
  <2>2. CASE i = k
    BY <2>1, <2>2
  <2>3. CASE i # k
    BY <2>1, <2>3
  <2> QED BY <2>2, <2>3
<1>2. ASSUME NEW i \in 1..n, NEW j \in 1..n, i <= j
      PROVE  T[j] <= T[i]
  <2>1. S[i] \in Nat /\ S[j] \in Nat
    OBVIOUS
  <2>2. CASE j = k /\ i # k
    BY <1>2, <2>1, <2>2
  <2>3. CASE j # k
    <3>1. T[j] = S[j] /\ S[j] <= S[i]
      BY <1>2, <2>3
    <3>2. T[i] = S[i] \/ T[i] = S[i] + 1
      OBVIOUS
    <3> QED BY <2>1, <3>1, <3>2
  <2>4. CASE i = k /\ j = k
    BY <1>2, <2>1, <2>4
  <2> QED BY <2>2, <2>3, <2>4
<1>3. ASSUME NEW i \in 1..n, NEW j \in 1..n, i < k + 1, k + 1 <= j
      PROVE  T[j] < T[i]
  <2>1. S[i] \in Nat /\ S[j] \in Nat /\ j # k
    BY <1>3
  <2>2. CASE i = k
    BY <1>3, <2>1, <2>2
  <2>3. CASE i # k
    BY <1>3, <2>1, <2>3
  <2> QED BY <2>2, <2>3
<1> QED BY <1>1, <1>2, <1>3

\* One case per kind of move of the device that moves.
LEMMA ScriptInvMove ==
    ASSUME TypeOK, SessionInv, ScriptInv, NEW d \in Devices, ScriptMove(d),
           pc'[d] \in Locations, retries'[d] \in Nat, step'[d] \in Nat \ {0}
    PROVE  ScriptIndex(d)' /\ ScriptCount(d)' /\ ScriptOrder(d)' /\ ScriptStarted(d)' /\ ScriptEven(d)'
<1> DEFINE S == sent[d]
           T == sent'[d]
<1>a. /\ S \in [1..NCustom -> Nat] /\ retries[d] \in Nat /\ step[d] \in Nat \ {0}
      /\ MaxRetries \in Nat /\ NCustom \in Nat
      /\ pc[d] \in Retrying => retries[d] < MaxRetries
  BY BoundsAssumption DEF TypeOK, SessionInv
<1>b. ScriptIndex(d) /\ ScriptCount(d) /\ ScriptOrder(d) /\ ScriptStarted(d) /\ ScriptEven(d)
  BY DEF ScriptInv
<1> USE DEF ScriptIndex, ScriptCount, ScriptOrder, ScriptStarted, ScriptEven, Scripted, Between, Leaving
<1>1. CASE Elsewhere(d)
  <2>a. /\ Between(d) /\ Between(d)' /\ sent'[d] = S /\ retries'[d] >= retries[d]
        /\ pc[d] \notin Scripted /\ pc'[d] \notin Scripted
    BY <1>a, <1>1 DEF Elsewhere, SentStays
  <2>1. ScriptIndex(d)'
    BY <1>a, <1>b, <2>a
  <2>2. ScriptCount(d)'
    BY <1>a, <1>b, <2>a
  <2>3. ScriptOrder(d)'
    BY <1>a, <1>b, <2>a
  <2>4. ScriptEven(d)'
    BY <1>a, <1>b, <2>a
  <2>5. ScriptStarted(d)'
    BY <2>a
  <2> QED BY <2>1, <2>2, <2>3, <2>4, <2>5
<1>2. CASE GoesAway(d)
  BY <1>a, <1>b, <1>2 DEF GoesAway, SentStays
<1>3. CASE Opens(d)
  BY <1>a, <1>b, <1>3 DEF Opens, SentStays
<1>4. CASE TakesNext(d)
  BY <1>a, <1>b, <1>4 DEF TakesNext, SentStays
<1>5. CASE Ends(d)
  BY <1>a, <1>b, <1>5 DEF Ends, SentStays
<1>s. ASSUME pc[d] = "commanding", SentOnce(d)
      PROVE  /\ T \in [1..NCustom -> Nat]
             /\ \A i \in 1..NCustom : T[i] <= retries[d] + (IF i < step[d] + 1 THEN 1 ELSE 0)
             /\ \A i \in 1..NCustom : T[i] <= retries[d] + 1 /\ T[i] <= MaxRetries
             /\ \A i \in 1..NCustom : i < step[d] + 1 => T[i] > 0
             /\ \A i, j \in 1..NCustom : i <= j => T[j] <= T[i]
             /\ \A i, j \in 1..NCustom : i < step[d] + 1 /\ step[d] + 1 <= j => T[j] < T[i]
             /\ d \in VendorPath =>
                   /\ \A i, j \in 1..NCustom : T[i] <= T[j] + 1
                   /\ \A i, j \in 1..NCustom :
                         (i < step[d] + 1 /\ j < step[d] + 1) \/ (step[d] + 1 <= i /\ step[d] + 1 <= j)
                         => T[i] = T[j]
  <2> DEFINE k == step[d]
             r == retries[d]
  <2>1. k \in 1..NCustom /\ r \in Nat /\ r < MaxRetries
    BY <1>a, <1>b, <1>s DEF Retrying
  <2>2. T = [S EXCEPT ![k] = S[k] + 1]
    BY <1>s DEF SentOnce
  <2>3. T \in [1..NCustom -> Nat] /\ T[k] = S[k] + 1 /\ \A i \in 1..NCustom : i # k => T[i] = S[i]
    <3>1. S \in [1..NCustom -> Nat] /\ k \in 1..NCustom
      BY <1>a, <2>1
    <3> HIDE DEF S, T, k
    <3> QED BY <2>2, <3>1, CountedOneUp
  <2>4. T[k] = S[k] + 1 /\ \A i \in 1..NCustom : i # k => T[i] = S[i]
    BY <2>3
  <2>5. \A i \in 1..NCustom : S[i] <= r + (IF i < k THEN 1 ELSE 0)
    BY <1>b, <1>s
  <2>6. /\ \A i, j \in 1..NCustom : i <= j => S[j] <= S[i]
        /\ \A i, j \in 1..NCustom : i < k /\ k <= j => S[j] < S[i]
    BY <1>b, <1>s
  <2>7. /\ \A i \in 1..NCustom : T[i] <= r + (IF i < k + 1 THEN 1 ELSE 0)
        /\ \A i, j \in 1..NCustom : i <= j => T[j] <= T[i]
        /\ \A i, j \in 1..NCustom : i < k + 1 /\ k + 1 <= j => T[j] < T[i]
    <3> HIDE DEF S, T, k, r
    <3> QED BY <1>a, <2>1, <2>3, <2>4, <2>5, <2>6, OneMoreSend DEF S
  <2>8. ASSUME d \in VendorPath
        PROVE  /\ \A i, j \in 1..NCustom : T[i] <= T[j] + 1
               /\ \A i, j \in 1..NCustom : (i < k + 1 /\ j < k + 1) \/ (k + 1 <= i /\ k + 1 <= j)
                  => T[i] = T[j]
    <3>1. /\ \A i, j \in 1..NCustom : S[i] <= S[j] + 1
          /\ \A i, j \in 1..NCustom : (i < k /\ j < k) \/ (k <= i /\ k <= j) => S[i] = S[j]
      BY <1>b, <1>s, <2>8
    <3>2. \A i \in 1..NCustom : /\ S[i] \in Nat /\ T[i] \in Nat /\ i \in Nat
                                /\ S[k] \in Nat /\ k \in Nat
      <4>1. S \in [1..NCustom -> Nat] /\ T \in [1..NCustom -> Nat] /\ k \in 1..NCustom
        BY <1>a, <2>1, <2>3
      <4> HIDE DEF S, T, k
      <4> QED BY <4>1
    <3> HIDE DEF S, T, k
    <3>3. ASSUME NEW i \in 1..NCustom PROVE T[i] = S[k] + (IF i < k + 1 THEN 1 ELSE 0)
      <4>1. CASE i = k
        BY <2>4, <3>2, <4>1
      <4>2. CASE i < k
        <5>1. S[i] <= S[k] + 1 /\ S[k] < S[i]
          BY <2>1, <2>6, <3>1, <3>2, <4>2
        <5>2. T[i] = S[i]
          BY <2>4, <3>2, <4>2
        <5> QED BY <3>2, <4>2, <5>1, <5>2
      <4>3. CASE i > k
        <5>1. S[i] = S[k]
          BY <2>1, <3>1, <3>2, <4>3
        <5>2. T[i] = S[i]
          BY <2>4, <3>2, <4>3
        <5> QED BY <3>2, <4>3, <5>1, <5>2
      <4> QED BY <3>2, <4>1, <4>2, <4>3
    <3>4. ASSUME NEW i \in 1..NCustom, NEW j \in 1..NCustom
          PROVE  /\ T[i] <= T[j] + 1
                 /\ (i < k + 1 /\ j < k + 1) \/ (k + 1 <= i /\ k + 1 <= j)
                      => T[i] = T[j]
      <4>1. /\ T[i] = S[k] + (IF i < k + 1 THEN 1 ELSE 0)
            /\ T[j] = S[k] + (IF j < k + 1 THEN 1 ELSE 0)
        BY <3>3
      <4> QED BY <3>2, <4>1
    <3> QED BY <3>4
  <2>9. \A i \in 1..NCustom : T[i] <= r + 1 /\ T[i] <= MaxRetries
    <3>1. ASSUME NEW i \in 1..NCustom PROVE T[i] <= r + 1 /\ T[i] <= MaxRetries
      <4>1. T[i] \in Nat /\ T[i] <= r + (IF i < k + 1 THEN 1 ELSE 0)
        BY <2>3, <2>7
      <4> HIDE DEF T, k, r
      <4> QED BY <1>a, <2>1, <4>1
    <3> QED BY <3>1
  <2>10. \A i \in 1..NCustom : i < k + 1 => T[i] > 0
    <3>1. ASSUME NEW i \in 1..NCustom, i < k + 1 PROVE T[i] > 0
      <4>1. S[i] \in Nat /\ S[k] \in Nat /\ (i < k => S[i] > 0) /\ (i # k => T[i] = S[i])
        BY <1>a, <1>b, <1>s, <2>1, <2>4
      <4>2. i = k \/ i < k
        BY <2>1, <3>1
      <4> HIDE DEF S, T, k
      <4> QED BY <2>4, <4>1, <4>2
    <3> QED BY <3>1
  <2> QED BY <2>3, <2>7, <2>8, <2>9, <2>10
<1>6. CASE Sends(d)
  <2>a. /\ pc[d] = "commanding" /\ SentOnce(d)
        /\ pc'[d] = "custom" /\ step'[d] = step[d] + 1 /\ retries'[d] = retries[d]
    BY <1>6 DEF Sends
  <2> QED BY <1>s, <2>a
<1>7. CASE SendsAndFails(d)
  <2>a. /\ pc[d] = "commanding" /\ SentOnce(d) /\ d \notin VendorPath
        /\ pc'[d] \notin Scripted /\ retries'[d] = retries[d] + 1
    BY <1>7 DEF SendsAndFails
  <2> QED BY <1>s, <2>a
<1>8. CASE SendsAndLeaves(d)
  <2>a. /\ pc[d] = "commanding" /\ SentOnce(d) /\ pc'[d] \notin Scripted /\ ~Between(d)'
    BY <1>8 DEF SendsAndLeaves
  <2> QED BY <1>s, <2>a
<1>9. CASE StoreFails(d)
  <2>a. /\ pc[d] = "store" /\ Between(d)' /\ pc'[d] \notin Scripted /\ sent'[d] = S
        /\ retries'[d] = retries[d] + 1
    BY <1>a, <1>9 DEF StoreFails, SentStays
  <2>1. ScriptIndex(d)'
    BY <1>a, <1>b, <2>a
  <2>2. ScriptCount(d)'
    BY <1>a, <1>b, <2>a
  <2>3. ScriptOrder(d)'
    BY <1>a, <1>b, <2>a
  <2>4. ScriptEven(d)'
    BY <1>a, <1>b, <2>a
  <2>5. ScriptStarted(d)'
    BY <2>a
  <2> QED BY <2>1, <2>2, <2>3, <2>4, <2>5
<1> QED BY <1>1, <1>2, <1>3, <1>4, <1>5, <1>6, <1>7, <1>8, <1>9 DEF ScriptMove

LEMMA ScriptInvNext == TypeOK /\ SessionInv /\ ScriptInv /\ [Next]_vars => ScriptInv'
<1> SUFFICES ASSUME TypeOK, SessionInv, ScriptInv, [Next]_vars PROVE ScriptInv'
  OBVIOUS
<1> USE DEF ScriptIndex, ScriptCount, ScriptOrder, ScriptStarted, ScriptEven, Between
<1>1. CASE Cancel
  BY <1>1 DEF Cancel, ScriptInv
<1>2. ASSUME NEW d \in Devices, Start(d) \/ Step(d)
      PROVE  ScriptInv'
  <2>1. ScriptMove(d) /\ OthersStay(d)
    BY <1>2, StepIsScriptMove
  <2>2. TypeOK'
    BY <1>2, StepType
  <2>3. pc'[d] \in Locations /\ retries'[d] \in Nat /\ step'[d] \in Nat \ {0}
    BY <2>2 DEF TypeOK
  <2>4. ScriptIndex(d)' /\ ScriptCount(d)' /\ ScriptOrder(d)' /\ ScriptStarted(d)' /\ ScriptEven(d)'
    BY <2>1, <2>3, ScriptInvMove
  <2>5. ASSUME NEW e \in Devices, e # d
        PROVE  ScriptIndex(e)' /\ ScriptCount(e)' /\ ScriptOrder(e)' /\ ScriptStarted(e)' /\ ScriptEven(e)'
    <3>1. ScriptIndex(e) /\ ScriptCount(e) /\ ScriptOrder(e) /\ ScriptStarted(e) /\ ScriptEven(e)
      BY DEF ScriptInv
    <3>2. /\ pc'[e] = pc[e] /\ after'[e] = after[e] /\ retries'[e] = retries[e]
          /\ step'[e] = step[e] /\ sent'[e] = sent[e]
      BY <2>1, <2>5 DEF OthersStay
    <3> QED BY <3>1, <3>2
  <2> QED BY <2>4, <2>5 DEF ScriptInv
<1>3. CASE UNCHANGED vars
  BY <1>3 DEF vars, ScriptInv
<1> QED BY <1>1, <1>2, <1>3 DEF Next, Terminated

LEMMA ScriptInvHolds == Spec => []ScriptInv
<1>1. Spec => [](TypeOK /\ SessionInv)
  BY TypeCorrect, SessionInvInit, SessionInvNext, PTL DEF Spec
<1> QED BY <1>1, ScriptInvInit, ScriptInvNext, PTL DEF Spec

\* However often the connection or a command fails and is retried, no command is
\* sent before the ones above it in the script, or more often than the attempts.
THEOREM ScriptInOrder == Spec => []ScriptSentInOrder
<1>1. ScriptInv => ScriptSentInOrder
  BY DEF ScriptInv, ScriptCount, ScriptOrder, ScriptSentInOrder
<1> QED BY <1>1, ScriptInvHolds, PTL

\* On the handler path a failed command ends the device, so a script is only
\* repeated after all of it went out (when storing its output failed).
THEOREM HandlerReplay == Spec => []HandlerReplaysOnlyWholeScripts
<1>1. ScriptInv => HandlerReplaysOnlyWholeScripts
  BY DevicesAssumption DEF ScriptInv, ScriptEven, HandlerReplaysOnlyWholeScripts
<1> QED BY <1>1, ScriptInvHolds, PTL

----------------------------------------------------------------------------
(* The row.                                                                *)

\* _connect_to_device has its answer, or is on its way out with it
Settled(d) == \/ pc[d] \in {"returned", "done"}
              \/ pc[d] \in {"close", "cooldown"} /\ after[d] = "returned"

\* The answer is given once, on the way out; each phase runs in its modes only;
\* and an answer that is not an error comes from the last step of the work.
RowInv ==
    \A d \in Devices :
        /\ outcome[d] # "none" <=> Settled(d)
        /\ pc[d] \in {"inspect", "inspecting"} => Inspecting
        /\ pc[d] \in {"backup", "backing"} => BackingUp /\ (Combined => reported[d])
        /\ pc[d] \in Scripted => Mode = "custom_commands"
        /\ (BackingUp /\ d \in HasBackup) => (saved[d] = "complete" <=> outcome[d] = "ok")
        /\ (Combined /\ outcome[d] \in {"ok", "backup_error"}) => reported[d]
        /\ pc[d] = "done" => row[d] # "none" /\ (row[d] = "success" <=> outcome[d] = "ok")

LEMMA RowInvInit == Init => RowInv
BY DEF Init, RowInv, Settled, Scripted

LEMMA RowInvStep ==
    ASSUME TypeOK, RowInv, NEW d \in Devices, Start(d) \/ Step(d)
    PROVE  RowInv'
<1> USE DEF RowInv, Settled, Scripted, Goto
<1>a. /\ pc \in [Devices -> Locations]
      /\ after \in [Devices -> Targets]
      /\ outcome \in [Devices -> Outcomes]
      /\ saved \in [Devices -> {"none", "partial", "complete"}]
      /\ row \in [Devices -> {"none", "success", "error"}]
      /\ reported \in [Devices -> BOOLEAN]
  BY DEF TypeOK
<1>b. /\ Inspecting <=> Mode \in {"inspection", "inspection_backup"}
      /\ BackingUp <=> Mode \in {"backup", "inspection_backup"}
      /\ Combined <=> Mode = "inspection_backup"
      /\ Mode \in {"inspection", "backup", "inspection_backup", "custom_commands"}
  BY ModeAssumption DEF Inspecting, BackingUp, Combined, Modes
<1>1. CASE Start(d)
  BY <1>a, <1>b, <1>1 DEF Start
<1>2. CASE Begin(d)
  BY <1>a, <1>b, <1>2 DEF Begin
<1>3. CASE Probe(d)
  BY <1>a, <1>b, <1>3 DEF Probe
<1>4. CASE Attempt(d)
  BY <1>a, <1>b, <1>4 DEF Attempt, Leave, Unwind
<1>5. CASE Connect(d)
  BY <1>a, <1>b, <1>5 DEF Connect, AttemptFails, AttemptStops, HandlerFails, NetmikoFails, Leave, Unwind
<1>6. CASE Enable(d)
  BY <1>a, <1>b, <1>6 DEF Enable, FirstPhase, AttemptFails, AttemptStops, HandlerFails, NetmikoFails, Leave, Unwind
<1>7. CASE InspectNext(d)
  BY <1>a, <1>b, <1>7 DEF InspectNext, Leave, Unwind
<1>8. CASE InspectCommand(d)
  BY <1>a, <1>b, <1>8 DEF InspectCommand, NetmikoCommandFails, AttemptStops, NetmikoFails, Leave, Unwind
<1>9. CASE InspectDone(d)
  BY <1>a, <1>b, <1>9 DEF InspectDone, Leave, Unwind
<1>10. CASE CustomNext(d)
  BY <1>a, <1>b, <1>10 DEF CustomNext, Leave, Unwind
<1>11. CASE CustomCommand(d)
  BY <1>a, <1>b, <1>11 DEF CustomCommand, NetmikoCommandFails, AttemptStops, NetmikoFails, Leave, Unwind
<1>12. CASE StoreOutputs(d)
  BY <1>a, <1>b, <1>12 DEF StoreOutputs, AttemptFails, AttemptStops, HandlerFails, NetmikoFails, Leave, Unwind
<1>13. CASE BackupNext(d)
  BY <1>a, <1>b, <1>13 DEF BackupNext, Leave, Unwind
<1>14. CASE BackupCommand(d)
  BY <1>a, <1>b, <1>14 DEF BackupCommand, NetmikoCommandFails, AttemptStops, NetmikoFails, Leave, Unwind
<1>15. CASE Close(d)
  BY <1>a, <1>b, <1>15 DEF Close, Targets
<1>16. CASE Cooldown(d)
  BY <1>a, <1>b, <1>16 DEF Cooldown, Targets
<1>17. CASE Backoff(d)
  BY <1>a, <1>b, <1>17 DEF Backoff, Leave, Unwind
<1>18. CASE OuterExcept(d)
  BY <1>a, <1>b, <1>18 DEF OuterExcept
<1>19. CASE Finish(d)
  BY <1>a, <1>b, <1>19 DEF Finish, Outcomes, Errors
<1> QED BY <1>1, <1>2, <1>3, <1>4, <1>5, <1>6, <1>7, <1>8, <1>9, <1>10, <1>11, <1>12, <1>13, <1>14, <1>15, <1>16, <1>17, <1>18, <1>19 DEF Step, Converse

LEMMA RowInvNext == TypeOK /\ RowInv /\ [Next]_vars => RowInv'
<1> SUFFICES ASSUME TypeOK, RowInv, [Next]_vars PROVE RowInv'
  OBVIOUS
<1>1. CASE Cancel
  BY <1>1 DEF Cancel, RowInv, Settled, counters
<1>2. CASE \E d \in Devices : Start(d) \/ Step(d)
  BY <1>2, RowInvStep
<1>3. CASE UNCHANGED vars
  BY <1>3 DEF vars, RowInv, Settled
<1> QED BY <1>1, <1>2, <1>3 DEF Next, Terminated

\* A script that ended well went out whole: its outputs were stored last.
WholeScript ==
    \A d \in Devices : (Mode = "custom_commands" /\ outcome[d] = "ok")
                           => \A i \in 1..NCustom : sent[d][i] > 0

LEMMA WholeScriptStep ==
    ASSUME TypeOK, RowInv, ScriptInv, WholeScript, NEW d \in Devices, Start(d) \/ Step(d)
    PROVE  WholeScript'
<1> USE DEF WholeScript
<1>a. /\ outcome \in [Devices -> Outcomes]
      /\ step \in [Devices -> Nat \ {0}]
      /\ NCustom \in Nat
  BY BoundsAssumption DEF TypeOK
<1>b. \A e \in Devices : /\ pc[e] \in {"inspect", "inspecting", "backup", "backing"}
                              => Mode # "custom_commands"
                         /\ pc[e] \in Scripted => outcome[e] # "ok"
  BY DEF RowInv, Settled, Scripted, Inspecting, BackingUp
<1>c. pc[d] = "store" => \A i \in 1..NCustom : sent[d][i] > 0
  <2> SUFFICES ASSUME pc[d] = "store", NEW i \in 1..NCustom PROVE sent[d][i] > 0
    OBVIOUS
  <2>1. step[d] > NCustom /\ (i < step[d] => sent[d][i] > 0)
    BY DEF ScriptInv, ScriptIndex, ScriptStarted, Scripted
  <2> QED BY <1>a, <2>1
<1>1. CASE Start(d)
  BY <1>a, <1>1 DEF Start
<1>2. CASE Begin(d)
  BY <1>a, <1>2 DEF Begin
<1>3. CASE Probe(d)
  BY <1>a, <1>3 DEF Probe
<1>4. CASE Attempt(d)
  BY <1>a, <1>4 DEF Attempt, Leave, Unwind
<1>5. CASE Connect(d)
  BY <1>a, <1>5 DEF Connect, AttemptFails, AttemptStops, HandlerFails, NetmikoFails, Leave, Unwind
<1>6. CASE Enable(d)
  BY <1>a, <1>6 DEF Enable, AttemptFails, AttemptStops, HandlerFails, NetmikoFails, Leave, Unwind
<1>7. CASE InspectNext(d)
  BY <1>a, <1>7 DEF InspectNext, Leave, Unwind
<1>8. CASE InspectCommand(d)
  BY <1>a, <1>8 DEF InspectCommand, NetmikoCommandFails, AttemptStops, NetmikoFails, Leave, Unwind
<1>9. CASE InspectDone(d)
  BY <1>a, <1>b, <1>9 DEF InspectDone, Leave, Unwind
<1>10. CASE CustomNext(d)
  BY <1>a, <1>10 DEF CustomNext, Leave, Unwind
<1>11. CASE CustomCommand(d)
  BY <1>a, <1>b, <1>11 DEF CustomCommand, NetmikoCommandFails, AttemptStops, NetmikoFails, Leave, Unwind, Scripted
<1>12. CASE StoreOutputs(d)
  BY <1>a, <1>c, <1>12 DEF StoreOutputs, AttemptFails, AttemptStops, HandlerFails, NetmikoFails, Leave, Unwind
<1>13. CASE BackupNext(d)
  BY <1>a, <1>b, <1>13 DEF BackupNext, Leave, Unwind
<1>14. CASE BackupCommand(d)
  BY <1>a, <1>b, <1>14 DEF BackupCommand, NetmikoCommandFails, AttemptStops, NetmikoFails, Leave, Unwind
<1>15. CASE Close(d)
  BY <1>a, <1>15 DEF Close
<1>16. CASE Cooldown(d)
  BY <1>a, <1>16 DEF Cooldown
<1>17. CASE Backoff(d)
  BY <1>a, <1>17 DEF Backoff, Leave, Unwind
<1>18. CASE OuterExcept(d)
  BY <1>a, <1>18 DEF OuterExcept
<1>19. CASE Finish(d)
  BY <1>a, <1>19 DEF Finish
<1> QED BY <1>1, <1>2, <1>3, <1>4, <1>5, <1>6, <1>7, <1>8, <1>9, <1>10, <1>11, <1>12, <1>13, <1>14, <1>15, <1>16, <1>17, <1>18, <1>19 DEF Step, Converse

LEMMA WholeScriptNext ==
    TypeOK /\ RowInv /\ ScriptInv /\ WholeScript /\ [Next]_vars => WholeScript'
<1> SUFFICES ASSUME TypeOK, RowInv, ScriptInv, WholeScript, [Next]_vars PROVE WholeScript'
  OBVIOUS
<1>1. CASE Cancel
  BY <1>1 DEF Cancel, WholeScript
<1>2. CASE \E d \in Devices : Start(d) \/ Step(d)
  BY <1>2, WholeScriptStep
<1>3. CASE UNCHANGED vars
  BY <1>3 DEF vars, WholeScript
<1> QED BY <1>1, <1>2, <1>3 DEF Next, Terminated

LEMMA WholeScriptInit == Init => WholeScript
BY DEF Init, WholeScript

\* A success row is never earned by half a script or half a backup file, and a
\* device whose backup is whole never gets an error row.
THEOREM RowsTellTheTruth == Spec => []RowTellsTheTruth
<1>1. RowInv /\ WholeScript => RowTellsTheTruth
  BY DEF RowInv, WholeScript, RowTellsTheTruth
<1>2. Spec => [](TypeOK /\ RowInv)
  BY TypeCorrect, RowInvInit, RowInvNext, PTL DEF Spec
<1> QED BY <1>1, <1>2, ScriptInvHolds, WholeScriptInit, WholeScriptNext, PTL DEF Spec

----------------------------------------------------------------------------
(* The progress line of the combined mode.                                 *)

Inspected == {d \in Devices : reported[d]}
Failed == {d \in Devices : pc[d] = "done" /\ outcome[d] \in Errors}
Ended == {d \in Devices : pc[d] = "done" /\ outcome[d] \notin Errors}

\* What each counter of the progress line counts.
CountersInv ==
    IF Combined
    THEN /\ inspectionDone = Cardinality(Inspected \cup Failed)
         /\ backupTotal = Cardinality(Inspected)
         /\ backupDone = Cardinality(Ended)
    ELSE inspectionDone = 0 /\ backupTotal = 0 /\ backupDone = 0

LEMMA CountersInvInit == Init => CountersInv
<1> SUFFICES ASSUME Init PROVE CountersInv
  OBVIOUS
<1>1. Inspected \cup Failed = {} /\ Inspected = {} /\ Ended = {}
  BY DEF Init, Inspected, Failed, Ended
<1> QED BY <1>1, FS_EmptySet DEF Init, CountersInv

\* A counter goes up by one exactly when its set gains a device.
LEMMA CountOneMore ==
    ASSUME NEW S, IsFiniteSet(S), NEW T, NEW x, T = S \cup {x}
    PROVE  /\ x \notin S => Cardinality(T) = Cardinality(S) + 1
           /\ x \in S => Cardinality(T) = Cardinality(S)
<1>1. x \in S => T = S
  OBVIOUS
<1> QED BY <1>1, FS_AddElement

LEMMA SetsAreFinite ==
    /\ IsFiniteSet(Inspected) /\ IsFiniteSet(Failed) /\ IsFiniteSet(Ended)
    /\ IsFiniteSet(Inspected \cup Failed)
BY DevicesAssumption, FS_Subset DEF Inspected, Failed, Ended

LEMMA CountersInvStep ==
    ASSUME TypeOK, RowInv, CountersInv, NEW d \in Devices, Start(d) \/ Step(d)
    PROVE  CountersInv'
<1> USE DEF counters
<1>a. /\ pc \in [Devices -> Locations]
      /\ outcome \in [Devices -> Outcomes]
      /\ reported \in [Devices -> BOOLEAN]
  BY DEF TypeOK
<1>b. \A e \in Devices : pc[e] = "done" => outcome[e] # "none"
  BY DEF RowInv, Settled
<1>1. CASE InspectDone(d)
  <2>1. Failed' = Failed /\ Ended' = Ended
    BY <1>a, <1>1 DEF InspectDone, Goto, Leave, Unwind, Failed, Ended
  <2>2. CASE Combined
    <3>1. Inspected' = Inspected \cup {d}
      BY <1>a, <1>1, <2>2 DEF InspectDone, Inspected
    <3>2. (Inspected \cup Failed)' = (Inspected \cup Failed) \cup {d}
      BY <2>1, <3>1
    <3>3. d \notin Failed /\ (d \in Inspected <=> reported[d])
      BY <1>1 DEF InspectDone, Failed, Inspected
    <3>4. /\ inspectionDone' = inspectionDone + (IF reported[d] THEN 0 ELSE 1)
          /\ backupTotal' = backupTotal + (IF reported[d] THEN 0 ELSE 1)
          /\ backupDone' = backupDone
      BY <1>1, <2>2 DEF InspectDone
    <3>5. Cardinality(Inspected') = backupTotal'
      BY <2>2, <3>1, <3>3, <3>4, SetsAreFinite, CountOneMore, FS_CardinalityType DEF CountersInv
    <3>6. Cardinality((Inspected \cup Failed)') = inspectionDone'
      <4>1. d \in Inspected \cup Failed <=> reported[d]
        BY <3>3
      <4>2. /\ reported[d] => Cardinality((Inspected \cup Failed)') = Cardinality(Inspected \cup Failed)
            /\ ~reported[d] => Cardinality((Inspected \cup Failed)') = Cardinality(Inspected \cup Failed) + 1
        BY <3>2, <4>1, SetsAreFinite, CountOneMore
      <4>3. Cardinality(Inspected \cup Failed) \in Nat
        BY SetsAreFinite, FS_CardinalityType
      <4> QED BY <2>2, <3>4, <4>2, <4>3 DEF CountersInv
    <3> QED BY <2>1, <2>2, <3>4, <3>5, <3>6 DEF CountersInv
  <2>3. CASE ~Combined
    BY <1>1, <2>3 DEF InspectDone, CountersInv
  <2> QED BY <2>2, <2>3
<1>2. CASE Finish(d)
  <2>1. Inspected' = Inspected
    BY <1>2 DEF Finish, Inspected
  <2>2. CASE ~Combined
    BY <1>2, <2>2 DEF Finish, CountersInv
  <2>3. CASE Combined /\ outcome[d] \in Errors
    <3>1. Failed' = Failed \cup {d} /\ Ended' = Ended
      BY <1>a, <1>2, <2>3 DEF Finish, Goto, Failed, Ended
    <3>2. (Inspected \cup Failed)' = (Inspected \cup Failed) \cup {d}
      BY <2>1, <3>1
    <3>3. d \in Inspected \cup Failed <=> reported[d]
      BY <1>2 DEF Finish, Failed, Inspected
    <3>4. /\ inspectionDone' = inspectionDone + (IF reported[d] THEN 0 ELSE 1)
          /\ backupTotal' = backupTotal /\ backupDone' = backupDone
      BY <1>2, <2>3 DEF Finish
    <3>5. Cardinality((Inspected \cup Failed)') = inspectionDone'
      <4>1. /\ reported[d] => Cardinality((Inspected \cup Failed)') = Cardinality(Inspected \cup Failed)
            /\ ~reported[d] => Cardinality((Inspected \cup Failed)') = Cardinality(Inspected \cup Failed) + 1
        BY <3>2, <3>3, SetsAreFinite, CountOneMore
      <4>2. Cardinality(Inspected \cup Failed) \in Nat
        BY SetsAreFinite, FS_CardinalityType
      <4> QED BY <2>3, <3>4, <4>1, <4>2 DEF CountersInv
    <3> QED BY <2>1, <2>3, <3>1, <3>4, <3>5 DEF CountersInv
  <2>4. CASE Combined /\ outcome[d] \notin Errors
    <3>1. Failed' = Failed /\ Ended' = Ended \cup {d} /\ d \notin Ended
      BY <1>a, <1>2, <2>4 DEF Finish, Goto, Failed, Ended
    <3>2. /\ inspectionDone' = inspectionDone /\ backupTotal' = backupTotal
          /\ backupDone' = backupDone + 1
      BY <1>2, <2>4 DEF Finish
    <3>3. Cardinality(Ended') = backupDone'
      BY <2>4, <3>1, <3>2, SetsAreFinite, CountOneMore, FS_CardinalityType DEF CountersInv
    <3> QED BY <2>1, <2>4, <3>1, <3>2, <3>3 DEF CountersInv
  <2> QED BY <2>2, <2>3, <2>4
<1>3. ASSUME UNCHANGED <<inspectionDone, backupTotal, backupDone>>,
             Inspected' = Inspected, Failed' = Failed, Ended' = Ended
      PROVE  CountersInv'
  BY <1>3 DEF CountersInv
<1>c. after[d] # "done"
  BY DEF TypeOK, Targets
<1> USE DEF Inspected, Failed, Ended, Goto
<1>4. CASE Start(d)
  BY <1>a, <1>c, <1>3, <1>4 DEF Start
<1>5. CASE Begin(d)
  BY <1>a, <1>c, <1>3, <1>5 DEF Begin
<1>6. CASE Probe(d)
  BY <1>a, <1>c, <1>3, <1>6 DEF Probe
<1>7. CASE Attempt(d)
  BY <1>a, <1>c, <1>3, <1>7 DEF Attempt, Leave, Unwind
<1>8. CASE Connect(d)
  BY <1>a, <1>c, <1>3, <1>8 DEF Connect, AttemptFails, AttemptStops, HandlerFails, NetmikoFails, Leave, Unwind
<1>9. CASE Enable(d)
  BY <1>a, <1>c, <1>3, <1>9 DEF Enable, FirstPhase, AttemptFails, AttemptStops, HandlerFails, NetmikoFails, Leave, Unwind
<1>10. CASE InspectNext(d)
  BY <1>a, <1>c, <1>3, <1>10 DEF InspectNext, Leave, Unwind
<1>11. CASE InspectCommand(d)
  BY <1>a, <1>c, <1>3, <1>11 DEF InspectCommand, NetmikoCommandFails, AttemptStops, NetmikoFails, Leave, Unwind
<1>12. CASE CustomNext(d)
  BY <1>a, <1>c, <1>3, <1>12 DEF CustomNext, Leave, Unwind
<1>13. CASE CustomCommand(d)
  BY <1>a, <1>c, <1>3, <1>13 DEF CustomCommand, NetmikoCommandFails, AttemptStops, NetmikoFails, Leave, Unwind
<1>14. CASE StoreOutputs(d)
  BY <1>a, <1>c, <1>3, <1>14 DEF StoreOutputs, AttemptFails, AttemptStops, HandlerFails, NetmikoFails, Leave, Unwind
<1>15. CASE BackupNext(d)
  BY <1>a, <1>c, <1>3, <1>15 DEF BackupNext, Leave, Unwind
<1>16. CASE BackupCommand(d)
  BY <1>a, <1>c, <1>3, <1>16 DEF BackupCommand, NetmikoCommandFails, AttemptStops, NetmikoFails, Leave, Unwind
<1>17. CASE Close(d)
  BY <1>a, <1>c, <1>3, <1>17 DEF Close, Targets
<1>18. CASE Cooldown(d)
  BY <1>a, <1>c, <1>3, <1>18 DEF Cooldown, Targets
<1>19. CASE Backoff(d)
  BY <1>a, <1>c, <1>3, <1>19 DEF Backoff, Leave, Unwind
<1>20. CASE OuterExcept(d)
  BY <1>a, <1>c, <1>3, <1>20 DEF OuterExcept
<1> QED BY <1>1, <1>2, <1>4, <1>5, <1>6, <1>7, <1>8, <1>9, <1>10, <1>11, <1>12, <1>13, <1>14, <1>15, <1>16, <1>17, <1>18, <1>19, <1>20 DEF Step, Converse

LEMMA CountersInvNext == TypeOK /\ RowInv /\ CountersInv /\ [Next]_vars => CountersInv'
<1> SUFFICES ASSUME TypeOK, RowInv, CountersInv, [Next]_vars PROVE CountersInv'
  OBVIOUS
<1>1. CASE Cancel
  BY <1>1 DEF Cancel, CountersInv, counters, Inspected, Failed, Ended
<1>2. CASE \E d \in Devices : Start(d) \/ Step(d)
  BY <1>2, CountersInvStep
<1>3. CASE UNCHANGED vars
  BY <1>3 DEF vars, CountersInv, counters, Inspected, Failed, Ended
<1> QED BY <1>1, <1>2, <1>3 DEF Next, Terminated

LEMMA CountersInvHolds == Spec => [](TypeOK /\ RowInv /\ CountersInv)
BY TypeCorrect, RowInvInit, RowInvNext, CountersInvInit, CountersInvNext, PTL DEF Spec

\* The backups done never pass the backups announced, nor those the devices
\* inspected, nor those the devices of the run.
THEOREM ProgressStaysWithinTotals == Spec => []ProgressWithinTotals
<1>1. TypeOK /\ RowInv /\ CountersInv => ProgressWithinTotals
  <2> SUFFICES ASSUME TypeOK, RowInv, CountersInv PROVE ProgressWithinTotals
    OBVIOUS
  <2>1. CASE ~Combined
    BY <2>1, DevicesAssumption, FS_CardinalityType DEF CountersInv, ProgressWithinTotals
  <2>2. CASE Combined
    <3>1. Ended \subseteq Inspected
      <4>1. \A d \in Devices : pc[d] = "done" => outcome[d] # "none"
        BY DEF RowInv, Settled
      <4>2. \A d \in Devices : outcome[d] \in Outcomes
        BY DEF TypeOK
      <4> QED BY <2>2, <4>1, <4>2 DEF RowInv, Ended, Inspected, Outcomes
    <3>2. Inspected \cup Failed \subseteq Devices
      BY DEF Inspected, Failed
    <3>3. /\ Cardinality(Ended) <= Cardinality(Inspected)
          /\ Cardinality(Inspected) <= Cardinality(Inspected \cup Failed)
          /\ Cardinality(Inspected \cup Failed) <= Cardinality(Devices)
      BY <3>1, <3>2, SetsAreFinite, DevicesAssumption, FS_Subset
    <3> QED BY <2>2, <3>3 DEF CountersInv, ProgressWithinTotals
  <2> QED BY <2>1, <2>2
<1> QED BY <1>1, CountersInvHolds, PTL

\* When every device has its row the inspection half of the line reads "all of
\* them", although failures are counted in one place and successes in another.
THEOREM ProgressCompletes == Spec => []InspectionProgressCompletes
<1>1. TypeOK /\ RowInv /\ CountersInv => InspectionProgressCompletes
  <2> SUFFICES ASSUME TypeOK, RowInv, CountersInv, Combined,
                      \A d \in Devices : pc[d] = "done"
               PROVE  inspectionDone = Cardinality(Devices)
    BY DEF InspectionProgressCompletes
  <2>1. Inspected \cup Failed = Devices
    <3>1. \A d \in Devices : outcome[d] # "none" /\ outcome[d] \in Outcomes
      BY DEF RowInv, Settled, TypeOK
    <3> QED BY <3>1 DEF RowInv, Inspected, Failed, Outcomes
  <2> QED BY <2>1 DEF CountersInv
<1> QED BY <1>1, CountersInvHolds, PTL


----------------------------------------------------------------------------
(* What a run is given (inspector_tab.py, inventory_editor_dialog.py).     *)

PageFields == {"list", "account", "mode", "source", "typed", "received", "first", "ok", "checked", "seen",
               "preview", "profiles", "missing", "result"}

\* ValidCommands, for commands that were read earlier
FitCommands(devices, p, text) ==
    /\ ByDevice(p) => Addresses(devices) \cap p.received # {}
    /\ (Custom(p) /\ ~ByDevice(p)) => text \notin {"", "broken"}
    /\ (Custom(p) /\ ~ByDevice(p) /\ text = "variable") => \A i \in DOMAIN devices : devices[i].filled

\* what the check saw passes it
SeenFits(p) ==
    /\ ValidList(p.seen[1], p.profiles)
    /\ FitCommands(p.seen[1], p, p.seen[2])
    /\ Custom(p) => p.preview = p.seen[1][Min(Wanted(p.seen[1], p))].ip

PageOK(p) ==
    /\ DOMAIN p = PageFields
    /\ p.list \in ListFiles \cup {NoList}
    /\ p.ok => p.checked = Inputs(p) /\ SeenFits(p)
    /\ p.result # NoList => p.result = p.list

EditorOK ==
    /\ DOMAIN editor = {"open", "lines", "needs"}
    /\ editor.lines \in Seq(Device)
    /\ editor.open => editor.lines # <<>> /\ task.st = "idle"

\* a task goes by the page as it was confirmed, and the page stays as it was
TaskOK ==
    /\ task.st \in {"box", "start"} => DOMAIN task = {"st", "as"}
    /\ task.st # "idle" =>
         /\ task.as.list = prep.list /\ task.as.list \in ListFiles
         /\ task.as.profiles = prep.profiles
         /\ SeenFits(task.as)

InputsInv ==
    /\ lists \in [ListFiles -> Seq(Device)]
    /\ PageOK(prep)
    /\ EditorOK
    /\ TaskOK
    /\ RunsOnlyWhatFits

----------------------------------------------------------------------------
(* Pages.                                                                  *)

\* SeenFits looks at no more of a page than this.
LEMMA SeenFitsOf ==
    ASSUME NEW p, NEW q, SeenFits(p), q.mode = p.mode, q.source = p.source, q.received = p.received,
           q.seen = p.seen, q.preview = p.preview, q.profiles = p.profiles
    PROVE  SeenFits(q)
<1>1. Custom(q) = Custom(p) BY DEF Custom
<1>2. ByDevice(q) = ByDevice(p) BY <1>1 DEF ByDevice
<1>3. Wanted(q.seen[1], q) = Wanted(p.seen[1], p) BY <1>2 DEF Wanted
<1>4. FitCommands(q.seen[1], q, q.seen[2]) BY <1>1, <1>2 DEF SeenFits, FitCommands
<1> QED BY <1>1, <1>3, <1>4 DEF SeenFits

LEMMA InputsOf ==
    ASSUME NEW p, NEW q, q.list = p.list, q.account = p.account, q.mode = p.mode, q.source = p.source,
           q.typed = p.typed, q.received = p.received
    PROVE  Inputs(q) = Inputs(p)
  BY DEF Inputs, Custom, ByDevice

\* A page whose check no longer stands (_invalidate_validation).
LEMMA UncheckedTells ==
    ASSUME NEW p, DOMAIN p = PageFields
    PROVE  LET q == Unchecked(p) IN
           /\ DOMAIN q = PageFields /\ q.ok = FALSE
           /\ q.list = p.list /\ q.result = p.result /\ q.profiles = p.profiles
           /\ q.mode = p.mode /\ q.source = p.source /\ q.received = p.received
  BY DEF Unchecked, PageFields

LEMMA UncheckedIsOK ==
    ASSUME NEW p, PageOK(p), NEW q, DOMAIN q = PageFields, q.ok = FALSE, q.list = p.list, q.result = p.result
    PROVE  PageOK(q)
  BY DEF PageOK

LEMMA ListChangedIsOK ==
    ASSUME NEW p, PageOK(p), NEW l \in ListFiles \cup {NoList}
    PROVE  /\ PageOK(ListChanged(p, l)) /\ ListChanged(p, l).list = l
           /\ PageOK(PathSet(p, l))
<1>1. PICK u : u = Unchecked(p) OBVIOUS
<1>2. DOMAIN u = PageFields /\ u.ok = FALSE BY <1>1, UncheckedTells DEF PageOK
<1>3. ListChanged(p, l) = [u EXCEPT !.list = l, !.missing = "", !.result = NoList] BY <1>1 DEF ListChanged
<1>4. PICK q : q = ListChanged(p, l) OBVIOUS
<1>5. DOMAIN q = PageFields /\ q.ok = FALSE /\ q.list = l /\ q.result = NoList
  BY <1>2, <1>3, <1>4 DEF PageFields
<1>6. PageOK(q) BY <1>5 DEF PageOK
<1> QED BY <1>4, <1>5, <1>6 DEF PathSet

\* What a check leaves (_validate_inventory).
LEMMA CheckedIsOK ==
    ASSUME NEW p, PageOK(p)
    PROVE  LET q == Checked(p) IN
           PageOK(q) /\ q.list = p.list /\ q.result = p.result /\ q.profiles = p.profiles
<1> DEFINE devices == ReadList(p)
<1>1. CASE ValidList(devices, p.profiles) /\ ValidCommands(devices, p)
  <2>1. PICK n : n = IF Custom(p) THEN devices[Min(Wanted(devices, p))].ip ELSE Blank OBVIOUS
  <2>2. PICK q : q = [p EXCEPT !.ok = TRUE, !.checked = Inputs(p), !.seen = <<devices, ScriptOf(p)>>, !.missing = "",
                               !.preview = n]
    OBVIOUS
  <2>3. Checked(p) = q BY <1>1, <2>1, <2>2 DEF Checked
  <2>4. /\ DOMAIN q = PageFields /\ q.ok = TRUE /\ q.checked = Inputs(p) /\ q.preview = n
        /\ q.seen = <<devices, ScriptOf(p)>>
        /\ q.list = p.list /\ q.result = p.result /\ q.profiles = p.profiles
        /\ q.account = p.account /\ q.mode = p.mode /\ q.source = p.source /\ q.typed = p.typed /\ q.received = p.received
    BY <2>2 DEF PageOK, PageFields
  <2>5. Inputs(q) = Inputs(p) BY <2>4, InputsOf
  <2>6. q.seen[1] = devices /\ q.seen[2] = ScriptOf(p) BY <2>4
  <2>7. Custom(q) = Custom(p) /\ ByDevice(q) = ByDevice(p) BY <2>4 DEF Custom, ByDevice
  <2>8. Wanted(devices, q) = Wanted(devices, p) BY <2>7, <2>4 DEF Wanted
  <2>9. FitCommands(devices, q, ScriptOf(p))
    BY <1>1, <2>4, <2>7 DEF FitCommands, ValidCommands, UsesVariable
  <2>10. SeenFits(q) BY <1>1, <2>1, <2>4, <2>6, <2>7, <2>8, <2>9 DEF SeenFits
  <2> QED BY <2>3, <2>4, <2>5, <2>10 DEF PageOK
<1>2. CASE ~(ValidList(devices, p.profiles) /\ ValidCommands(devices, p))
  <2>1. PICK u : u = Unchecked(p) OBVIOUS
  <2>2. DOMAIN u = PageFields /\ u.ok = FALSE /\ u.list = p.list /\ u.result = p.result /\ u.profiles = p.profiles
    BY <2>1, UncheckedTells DEF PageOK
  <2>3. PICK m : Checked(p) = [u EXCEPT !.preview = p.preview, !.missing = m]
    BY <1>2, <2>1 DEF Checked
  <2>4. PICK q : q = Checked(p) OBVIOUS
  <2>5. DOMAIN q = PageFields /\ q.ok = FALSE /\ q.list = p.list /\ q.result = p.result /\ q.profiles = p.profiles
    BY <2>2, <2>3, <2>4 DEF PageFields
  <2> QED BY <2>4, <2>5, UncheckedIsOK
<1> QED BY <1>1, <1>2

----------------------------------------------------------------------------
(* Reading the inputs again (run, service.py).                             *)

LEMMA LeastOf ==
    ASSUME NEW S, S \subseteq Nat, S # {}
    PROVE  Min(S) \in S
<1>1. IsWellFoundedOn(OpToRel(<, Nat), Nat) BY NatLessThanWellFounded
<1>2. PICK m \in S : \A k \in S : ~ (<<k, m>> \in OpToRel(<, Nat)) BY <1>1, WFMin
<1>3. \A k \in S : ~(k < m) BY <1>2 DEF OpToRel
<1>4. m \in Nat /\ \A k \in S : k \in Nat OBVIOUS
<1>5. \A k \in S : m <= k BY <1>3, <1>4
<1> QED BY <1>5 DEF Min

LEMMA LeastOfOne == ASSUME NEW n \in Nat PROVE Min({n}) = n
  BY DEF Min

\* What is read is what was checked, or fits all the same, or the run fails.
LEMMA ReadFits ==
    ASSUME NEW p, p.list \in ListFiles, lists \in [ListFiles -> Seq(Device)], SeenFits(p)
    PROVE  LET t == RunOf(p) IN
           /\ t.as = p /\ t.st \in {"run", "error"}
           /\ t.st = "run" =>
                /\ Distinct(t.devices)
                /\ \A i \in DOMAIN t.devices :
                      /\ t.devices[i].ip # Blank /\ t.devices[i].vendor \in p.profiles
                      /\ ByDevice(p) => t.devices[i].ip \in p.received
                      /\ (Custom(p) /\ t.seen[2] = "variable") => ByDevice(p) \/ t.devices[i].filled
                /\ p.first => Cardinality(DOMAIN t.devices) = 1
                /\ (Custom(p) /\ t.seen = p.seen) => t.devices[Min(DOMAIN t.devices)].ip = p.preview
           /\ t.st = "error" => t.seen # p.seen
<1>1. PICK read : read = ReadList(p) OBVIOUS
<1>2. PICK text : text = ScriptOf(p) OBVIOUS
<1>3. PICK wanted : wanted = Wanted(read, p) OBVIOUS
<1>4. PICK devices : devices = [i \in IF p.first THEN {Min(wanted)} ELSE wanted |-> read[i]] OBVIOUS
<1>5. PICK t : t = RunOf(p) OBVIOUS
<1>6. read \in Seq(Device) /\ DOMAIN read = 1 .. Len(read) /\ Len(read) \in Nat /\ wanted \subseteq DOMAIN read
  <2>1. read \in Seq(Device) BY <1>1 DEF ReadList
  <2> QED BY <1>3, <2>1 DEF Wanted
<1>7. /\ (~ValidList(read, p.profiles) \/ wanted = {}) => t = [st |-> "error", as |-> p, seen |-> <<read, text>>]
      /\ ValidList(read, p.profiles) /\ wanted # {} /\ ~ValidCommands(devices, p)
           => t = [st |-> "error", as |-> p, seen |-> <<read, text>>]
      /\ ValidList(read, p.profiles) /\ wanted # {} /\ ValidCommands(devices, p)
           => t = [st |-> "run", as |-> p, devices |-> devices, seen |-> <<read, text>>]
  BY <1>1, <1>2, <1>3, <1>4, <1>5 DEF RunOf
<1>8. wanted # {} => Min(wanted) \in wanted /\ DOMAIN devices \subseteq wanted /\ DOMAIN devices # {}
  <2> SUFFICES ASSUME wanted # {} PROVE Min(wanted) \in wanted /\ DOMAIN devices \subseteq wanted /\ DOMAIN devices # {}
    OBVIOUS
  <2>1. wanted \subseteq Nat BY <1>6
  <2>2. Min(wanted) \in wanted BY <2>1, LeastOf
  <2>3. DOMAIN devices = IF p.first THEN {Min(wanted)} ELSE wanted BY <1>4
  <2> QED BY <2>2, <2>3
<1>9. \A i \in DOMAIN devices : devices[i] = read[i] BY <1>4
<1>10. \A i \in wanted : i \in DOMAIN read /\ (ByDevice(p) => read[i].ip \in p.received) BY <1>3 DEF Wanted
<1>11. CASE ValidList(read, p.profiles) /\ wanted # {} /\ ValidCommands(devices, p)
  <2>1. t = [st |-> "run", as |-> p, devices |-> devices, seen |-> <<read, text>>] BY <1>7, <1>11
  <2>2. t.st = "run" /\ t.as = p /\ t.devices = devices /\ t.seen = <<read, text>> BY <2>1
  <2>3. Distinct(devices) BY <1>8, <1>9, <1>10, <1>11 DEF ValidList, Distinct
  <2>4. ASSUME NEW i \in DOMAIN devices
        PROVE  /\ devices[i].ip # Blank /\ devices[i].vendor \in p.profiles
               /\ ByDevice(p) => devices[i].ip \in p.received
               /\ (Custom(p) /\ text = "variable") => ByDevice(p) \/ devices[i].filled
    <3>1. i \in wanted /\ i \in DOMAIN read /\ devices[i] = read[i] BY <1>8, <1>9, <1>10, <1>11
    <3>2. read[i].ip # Blank /\ read[i].vendor \in p.profiles BY <1>11, <3>1 DEF ValidList, Addresses
    <3>3. ByDevice(p) => read[i].ip \in p.received BY <1>10, <3>1
    <3>4. (Custom(p) /\ text = "variable") => ByDevice(p) \/ devices[i].filled
      BY <1>2, <1>11 DEF ValidCommands, UsesVariable
    <3> QED BY <3>1, <3>2, <3>3, <3>4
  <2>5. p.first => Cardinality(DOMAIN devices) = 1
    <3>1. p.first => DOMAIN devices = {Min(wanted)} BY <1>4
    <3> QED BY <3>1, FS_Singleton
  <2>6. (Custom(p) /\ t.seen = p.seen) => devices[Min(DOMAIN devices)].ip = p.preview
    <3> SUFFICES ASSUME Custom(p), t.seen = p.seen PROVE devices[Min(DOMAIN devices)].ip = p.preview OBVIOUS
    <3>1. p.seen[1] = read BY <2>2
    <3>2. p.preview = read[Min(wanted)].ip BY <1>3, <3>1 DEF SeenFits
    <3>3. Min(DOMAIN devices) = Min(wanted)
      <4>1. CASE p.first
        <5>1. DOMAIN devices = {Min(wanted)} BY <1>4, <4>1
        <5>2. Min(wanted) \in Nat BY <1>6, <1>8, <1>11
        <5> QED BY <5>1, <5>2, LeastOfOne
      <4>2. CASE ~p.first BY <1>4, <4>2
      <4> QED BY <4>1, <4>2
    <3>4. Min(wanted) \in DOMAIN devices
      <4>1. DOMAIN devices = IF p.first THEN {Min(wanted)} ELSE wanted BY <1>4
      <4> QED BY <1>8, <1>11, <4>1
    <3> QED BY <1>9, <3>2, <3>3, <3>4
  <2> QED BY <1>5, <2>2, <2>3, <2>4, <2>5, <2>6
<1>12. CASE ~(ValidList(read, p.profiles) /\ wanted # {} /\ ValidCommands(devices, p))
  <2>1. t = [st |-> "error", as |-> p, seen |-> <<read, text>>] BY <1>7, <1>12
  <2>2. t.st = "error" /\ t.as = p /\ t.seen = <<read, text>> BY <2>1
  <2>3. ASSUME t.seen = p.seen PROVE FALSE
    <3>1. p.seen[1] = read /\ p.seen[2] = text BY <2>2, <2>3
    <3>2. ValidList(read, p.profiles) /\ FitCommands(read, p, text) BY <3>1 DEF SeenFits
    <3>3. wanted # {}
      <4>1. CASE ByDevice(p)
        <5>1. PICK i \in DOMAIN read : read[i].ip \in p.received BY <3>2, <4>1 DEF FitCommands, Addresses
        <5> QED BY <1>3, <5>1 DEF Wanted
      <4>2. CASE ~ByDevice(p)
        <5>1. wanted = DOMAIN read BY <1>3, <4>2 DEF Wanted
        <5>2. read # <<>> BY <3>2 DEF ValidList
        <5>3. Len(read) # 0 BY <1>6, <5>2, EmptySeq
        <5>4. 1 \in 1 .. Len(read) BY <1>6, <5>3
        <5> QED BY <1>6, <5>1, <5>4
      <4> QED BY <4>1, <4>2
    <3>4. ValidCommands(devices, p)
      <4>1. ByDevice(p) => Addresses(devices) \cap p.received # {}
        <5> SUFFICES ASSUME ByDevice(p) PROVE Addresses(devices) \cap p.received # {} OBVIOUS
        <5>1. PICK i : i \in DOMAIN devices BY <1>8, <3>3
        <5>2. devices[i].ip \in p.received BY <1>8, <1>9, <1>10, <3>3, <5>1
        <5>3. devices[i].ip \in Addresses(devices) BY <5>1 DEF Addresses
        <5> QED BY <5>2, <5>3
      <4>2. (Custom(p) /\ ~ByDevice(p)) => ScriptOf(p) \notin {"", "broken"} BY <1>2, <3>2 DEF FitCommands
      <4>3. UsesVariable(p) => \A i \in DOMAIN devices : devices[i].filled
        <5> SUFFICES ASSUME UsesVariable(p), NEW i \in DOMAIN devices PROVE devices[i].filled OBVIOUS
        <5>1. i \in DOMAIN read /\ devices[i] = read[i] BY <1>8, <1>9, <1>10, <3>3
        <5>2. Custom(p) /\ ~ByDevice(p) /\ text = "variable" BY <1>2 DEF UsesVariable
        <5> QED BY <3>2, <5>1, <5>2 DEF FitCommands
      <4> QED BY <4>1, <4>2, <4>3 DEF ValidCommands
    <3> QED BY <1>12, <3>2, <3>3, <3>4
  <2> QED BY <1>5, <2>2, <2>3
<1> QED BY <1>11, <1>12

----------------------------------------------------------------------------
(* Steps of the page.                                                      *)

LEMMA PageStep ==
    ASSUME InputsInv, Free, UNCHANGED <<editor, task>>, lists' \in [ListFiles -> Seq(Device)], PageOK(prep')
    PROVE  InputsInv'
  BY DEF InputsInv, Free, EditorOK, TaskOK, RunsOnlyWhatFits

LEMMA ListPicked ==
    ASSUME InputsInv, NEW l \in ListFiles \cup {NoList}, PickInventory(l)
    PROVE  InputsInv'
<1>1. PageOK(prep') BY ListChangedIsOK DEF InputsInv, PickInventory
<1> QED BY <1>1, PageStep DEF PickInventory, Page, InputsInv

\* Any change of what the check was made from takes the check away.
LEMMA ChoiceChanged ==
    ASSUME InputsInv,
           \/ \E a \in 0 .. 2 : SetAccount(a)
           \/ \E m \in {"inspection", "custom"} : SetMode(m)
           \/ \E s \in Typed : TypeCommands(s)
           \/ \E s \in {"inline", "file", "device"} : SetSource(s)
           \/ \E ips \in SUBSET (1 .. MaxAddress) \ {{}} : ReceiveDeviceCommands(ips)
           \/ ClearDeviceCommands \/ OpenProfileEditor
    PROVE  InputsInv'
<1>1. PICK u : u = Unchecked(prep) OBVIOUS
<1>2. PageOK(prep) BY DEF InputsInv
<1>3. DOMAIN u = PageFields /\ u.ok = FALSE /\ u.list = prep.list /\ u.result = prep.result
  BY <1>1, <1>2, UncheckedTells DEF PageOK
<1>4. Free /\ Page /\ DOMAIN prep' = PageFields /\ prep'.ok = FALSE /\ prep'.list = prep.list /\ prep'.result = prep.result
  <2>1. CASE \E a \in 0 .. 2 : SetAccount(a)
    <3>1. PICK a : Free /\ Page /\ prep' = [u EXCEPT !.account = a] BY <1>1, <2>1 DEF SetAccount
    <3> QED BY <1>3, <3>1 DEF PageFields
  <2>2. CASE \E m \in {"inspection", "custom"} : SetMode(m)
    <3>1. PICK m : Free /\ Page /\ prep' = [u EXCEPT !.mode = m] BY <1>1, <2>2 DEF SetMode
    <3> QED BY <1>3, <3>1 DEF PageFields
  <2>3. CASE \E s \in Typed : TypeCommands(s)
    <3>1. PICK s : Free /\ Page /\ prep' = [u EXCEPT !.typed = s] BY <1>1, <2>3 DEF TypeCommands
    <3> QED BY <1>3, <3>1 DEF PageFields
  <2>4. CASE \E s \in {"inline", "file", "device"} : SetSource(s)
    <3>1. PICK s : Free /\ Page /\ prep' = [u EXCEPT !.source = s] BY <1>1, <2>4 DEF SetSource
    <3> QED BY <1>3, <3>1 DEF PageFields
  <2>5. CASE \E ips \in SUBSET (1 .. MaxAddress) \ {{}} : ReceiveDeviceCommands(ips)
    <3>1. PICK ips : Free /\ Page /\ prep' = [u EXCEPT !.received = ips, !.mode = "custom", !.source = "device", !.first = TRUE]
      BY <1>1, <2>5 DEF ReceiveDeviceCommands
    <3> QED BY <1>3, <3>1 DEF PageFields
  <2>6. CASE ClearDeviceCommands
    <3>1. Free /\ Page /\ prep' = [u EXCEPT !.received = {}, !.source = "inline"] BY <1>1, <2>6 DEF ClearDeviceCommands
    <3> QED BY <1>3, <3>1 DEF PageFields
  <2>7. CASE OpenProfileEditor
    <3>1. PICK more : Free /\ Page /\ prep' = [u EXCEPT !.profiles = @ \cup more] BY <1>1, <2>7 DEF OpenProfileEditor
    <3> QED BY <1>3, <3>1 DEF PageFields
  <2> QED BY <2>1, <2>2, <2>3, <2>4, <2>5, <2>6, <2>7
<1>5. PageOK(prep') BY <1>2, <1>4, UncheckedIsOK
<1> QED BY <1>4, <1>5, PageStep DEF Page, InputsInv

\* A run of the first device only is no other run for the check.
LEMMA FirstToggled == InputsInv /\ ToggleFirst => InputsInv'
<1> SUFFICES ASSUME InputsInv, ToggleFirst PROVE InputsInv' OBVIOUS
<1>1. PICK n : prep' = [prep EXCEPT !.first = n] BY DEF ToggleFirst
<1>2. PageOK(prep) BY DEF InputsInv
<1>3. /\ DOMAIN prep' = PageFields /\ prep'.ok = prep.ok /\ prep'.list = prep.list /\ prep'.result = prep.result
      /\ prep'.checked = prep.checked /\ prep'.mode = prep.mode /\ prep'.source = prep.source
      /\ prep'.received = prep.received /\ prep'.seen = prep.seen /\ prep'.preview = prep.preview
      /\ prep'.profiles = prep.profiles /\ prep'.account = prep.account /\ prep'.typed = prep.typed
  BY <1>1, <1>2 DEF PageOK, PageFields
<1>4. Inputs(prep') = Inputs(prep) BY <1>3, InputsOf
<1>5. SeenFits(prep) => SeenFits(prep') BY <1>3, SeenFitsOf
<1>6. PageOK(prep') BY <1>2, <1>3, <1>4, <1>5 DEF PageOK
<1> QED BY <1>6, PageStep DEF ToggleFirst, Page, InputsInv

\* What a run leaves of the page.
LEMMA ResultSet ==
    ASSUME NEW p, PageOK(p), NEW r, r \in {NoList, p.list}
    PROVE  LET q == [p EXCEPT !.result = r] IN
           /\ PageOK(q) /\ q.list = p.list /\ q.profiles = p.profiles
<1>1. PICK q : q = [p EXCEPT !.result = r] OBVIOUS
<1>2. /\ DOMAIN q = PageFields /\ q.ok = p.ok /\ q.list = p.list /\ q.result = r
      /\ q.checked = p.checked /\ q.mode = p.mode /\ q.source = p.source
      /\ q.received = p.received /\ q.seen = p.seen /\ q.preview = p.preview
      /\ q.profiles = p.profiles /\ q.account = p.account /\ q.typed = p.typed
  BY <1>1 DEF PageOK, PageFields
<1>3. Inputs(q) = Inputs(p) BY <1>2, InputsOf
<1>4. SeenFits(p) => SeenFits(q) BY <1>2, SeenFitsOf
<1> QED BY <1>1, <1>2, <1>3, <1>4 DEF PageOK

LEMMA Validated == InputsInv /\ ValidateInventory => InputsInv'
  BY CheckedIsOK, PageStep DEF ValidateInventory, Page, InputsInv

----------------------------------------------------------------------------
(* Lists.                                                                  *)

LEMMA AddressesThere == MaxAddress \in Nat /\ MaxAddress >= 2 /\ Blank \in Nat /\ Blank = 0
<1>1. MaxAddress \in Nat /\ MaxAddress >= 2 BY InputsAssumption
<1> QED BY <1>1 DEF Blank

LEMMA SampleIsList == ASSUME NEW p PROVE Sample(p) \in Seq(Device)
<1>1. ASSUME NEW i \in 1 .. 2 PROVE [ip |-> i, vendor |-> "known", filled |-> UsesVariable(p)] \in Device
  <2>1. UsesVariable(p) \in BOOLEAN BY DEF UsesVariable
  <2>2. i \in Blank .. MaxAddress BY AddressesThere
  <2>3. "known" \in Vendors BY DEF Vendors
  <2> QED BY <2>1, <2>2, <2>3 DEF Device
<1>2. Sample(p) \in [1 .. 2 -> Device] BY <1>1 DEF Sample
<1>3. PICK n \in Nat : n = 2 OBVIOUS
<1>4. Sample(p) \in [1 .. n -> Device] BY <1>2, <1>3
<1> QED BY <1>4

LEMMA SampleCreated ==
    ASSUME InputsInv, NEW l \in ListFiles, CreateSampleInventory(l)
    PROVE  InputsInv'
<1>1. lists' \in [ListFiles -> Seq(Device)]
  <2>1. Sample(prep) \in Seq(Device) BY SampleIsList
  <2>2. PICK s \in Seq(Device) : s = Sample(prep) BY <2>1
  <2> QED BY <2>2 DEF CreateSampleInventory, InputsInv
<1>2. PageOK(prep') BY ListChangedIsOK DEF CreateSampleInventory, InputsInv
<1> QED BY <1>1, <1>2, PageStep DEF CreateSampleInventory

LEMMA ChangedOutside == InputsInv /\ ChangeOutside => InputsInv'
<1> SUFFICES ASSUME InputsInv, ChangeOutside PROVE InputsInv' OBVIOUS
<1>1. lists' \in [ListFiles -> Seq(Device)]
  BY OutsideAssumption DEF ChangeOutside, WriteList, InputsInv
<1>2. UNCHANGED <<prep, editor, task>> BY DEF ChangeOutside
<1> QED BY <1>1, <1>2 DEF InputsInv, EditorOK, TaskOK, RunsOnlyWhatFits

----------------------------------------------------------------------------
(* The table editor.                                                       *)

LEMMA BlankIsAddress == Blank \in Blank .. MaxAddress /\ NewLine \in Device
<1>1. Blank \in Blank .. MaxAddress BY AddressesThere
<1>2. "known" \in Vendors BY DEF Vendors
<1> QED BY <1>1, <1>2 DEF NewLine, Device

LEMMA LineBelowIsDevice ==
    ASSUME NEW lines \in Seq(Device), lines # <<>>
    PROVE  LineBelow(lines) \in Device
<1>1. Len(lines) \in 1 .. Len(lines) BY EmptySeq
<1>2. lines[Len(lines)] \in Device BY <1>1
<1>3. PICK v \in Vendors : v = lines[Len(lines)].vendor BY <1>2 DEF Device
<1>4. PICK n \in Device : n = NewLine BY BlankIsAddress
<1>5. [n EXCEPT !.vendor = v] \in Device BY DEF Device
<1> QED BY <1>3, <1>4, <1>5 DEF LineBelow

\* Edits of the table.
LEMMA EditKeepsInputs ==
    ASSUME InputsInv, NEW lines \in Seq(Device), lines # <<>>, Edit(lines)
    PROVE  InputsInv'
<1>1. editor' = [editor EXCEPT !.lines = lines] /\ UNCHANGED <<lists, prep, task>> /\ editor.open BY DEF Edit, Table
<1>2. DOMAIN editor' = DOMAIN editor /\ editor'.lines = lines /\ editor'.open = editor.open BY <1>1 DEF InputsInv, EditorOK
<1> QED BY <1>1, <1>2 DEF InputsInv, EditorOK, TaskOK, RunsOnlyWhatFits

LEMMA OneLineLess ==
    ASSUME NEW s \in Seq(Device), NEW i \in 1 .. Len(s)
    PROVE  RemoveAt(s, i) \in Seq(Device)
<1> DEFINE a == SubSeq(s, 1, i - 1)
           b == SubSeq(s, i + 1, Len(s))
<1>1. /\ Len(s) \in Nat /\ i \in Nat /\ 1 <= i /\ i <= Len(s) /\ i - 1 \in Int /\ i + 1 \in Int /\ 1 \in Int
      /\ Len(s) \in Int /\ \A k \in 1 .. Len(s) : s[k] \in Device
  OBVIOUS
<1>2. a \in Seq(Device)
  <2>1. \A k \in 1 .. i - 1 : s[k] \in Device BY <1>1
  <2> QED BY <1>1, <2>1, SubSeqProperties
<1>3. b \in Seq(Device)
  <2>1. \A k \in i + 1 .. Len(s) : s[k] \in Device BY <1>1
  <2> QED BY <1>1, <2>1, SubSeqProperties
<1> HIDE DEF a, b
<1>4. a \o b \in Seq(Device) BY <1>2, <1>3, ConcatProperties
<1> QED BY <1>4 DEF RemoveAt, a, b

LEMMA TableEdited ==
    ASSUME InputsInv,
           \/ AddRow
           \/ \E i \in DOMAIN editor.lines :
                \/ DuplicateRow(i) \/ DeleteRow(i) \/ \E line \in Device : EditCell(i, line)
                \/ \E n \in 1 .. 2 : PasteAddresses(i, n)
    PROVE  InputsInv'
<1>1. PICK lines : lines = editor.lines OBVIOUS
<1>2. lines \in Seq(Device) /\ DOMAIN lines = 1 .. Len(lines) /\ Len(lines) \in Nat BY <1>1 DEF InputsInv, EditorOK
<1>3. editor.open => lines # <<>> BY <1>1 DEF InputsInv, EditorOK
<1>4. CASE AddRow
  <2>1. Edit(Append(lines, LineBelow(lines))) BY <1>1, <1>4 DEF AddRow
  <2>2. lines # <<>> BY <1>3, <2>1 DEF Edit
  <2>3. PICK new \in Device : new = LineBelow(lines) BY <1>2, <2>2, LineBelowIsDevice
  <2>4. Append(lines, new) \in Seq(Device) /\ Append(lines, new) # <<>> BY <1>2, AppendProperties
  <2> QED BY <2>1, <2>3, <2>4, EditKeepsInputs
<1>5. ASSUME NEW i \in DOMAIN editor.lines, DuplicateRow(i) PROVE InputsInv'
  <2>1. Edit(Append(lines, [lines[i] EXCEPT !.ip = Bumped(@)])) BY <1>1, <1>5 DEF DuplicateRow
  <2>2. lines[i] \in Device BY <1>1, <1>2, <1>5
  <2>3. PICK m \in Device : m = lines[i] BY <2>2
  <2>4. Bumped(m.ip) \in Blank .. MaxAddress
    <3>1. m.ip \in Blank .. MaxAddress BY DEF Device
    <3>2. Bumped(m.ip) = IF m.ip = Blank \/ m.ip = MaxAddress THEN Blank ELSE m.ip + 1 BY DEF Bumped
    <3> QED BY <3>1, <3>2, AddressesThere
  <2>5. PICK b \in Blank .. MaxAddress : b = Bumped(m.ip) BY <2>4
  <2>6. [m EXCEPT !.ip = b] \in Device BY DEF Device
  <2>7. PICK new \in Device : new = [m EXCEPT !.ip = b] BY <2>6
  <2>8. new = [lines[i] EXCEPT !.ip = Bumped(@)] BY <2>3, <2>5, <2>7
  <2>9. Append(lines, new) \in Seq(Device) /\ Append(lines, new) # <<>> BY <1>2, AppendProperties
  <2> QED BY <2>1, <2>8, <2>9, EditKeepsInputs
<1>6. ASSUME NEW i \in DOMAIN editor.lines, DeleteRow(i) PROVE InputsInv'
  <2>1. PICK left : left = RemoveAt(lines, i) OBVIOUS
  <2>2. left \in Seq(Device) BY <1>1, <1>2, <1>6, <2>1, OneLineLess
  <2>3. Edit(IF left = <<>> THEN <<NewLine>> ELSE left) BY <1>1, <1>6, <2>1 DEF DeleteRow
  <2>4. PICK new : new = IF left = <<>> THEN <<NewLine>> ELSE left OBVIOUS
  <2>5. <<NewLine>> \in Seq(Device) /\ <<NewLine>> # <<>> BY BlankIsAddress
  <2>6. new \in Seq(Device) /\ new # <<>> BY <2>2, <2>4, <2>5
  <2> QED BY <2>3, <2>4, <2>6, EditKeepsInputs
<1>7. ASSUME NEW i \in DOMAIN editor.lines, NEW line \in Device, EditCell(i, line) PROVE InputsInv'
  <2>1. Edit([lines EXCEPT ![i] = line]) BY <1>1, <1>7 DEF EditCell
  <2>2. lines # <<>> BY <1>3, <2>1 DEF Edit
  <2>3. [lines EXCEPT ![i] = line] \in Seq(Device) /\ DOMAIN [lines EXCEPT ![i] = line] = DOMAIN lines BY <1>1, <1>2, <1>7
  <2>4. [lines EXCEPT ![i] = line] # <<>>
    <3>1. i \in DOMAIN [lines EXCEPT ![i] = line] BY <1>1, <1>7, <2>3
    <3> QED BY <3>1
  <2> QED BY <2>1, <2>3, <2>4, EditKeepsInputs
<1>8. ASSUME NEW i \in DOMAIN editor.lines, NEW n \in 1 .. 2, PasteAddresses(i, n) PROVE InputsInv'
  <2>1. PICK last : last = IF i + n - 1 > Len(lines) THEN i + n - 1 ELSE Len(lines) OBVIOUS
  <2>2. PICK new : new = [k \in 1 .. last |->
                           LET line == IF k <= Len(lines) THEN lines[k] ELSE LineBelow(lines) IN
                           IF k \in i .. i + n - 1 THEN [line EXCEPT !.ip = k - i + 1] ELSE line]
    OBVIOUS
  <2>3. Edit(new) /\ n <= MaxAddress BY <1>1, <1>8, <2>1, <2>2 DEF PasteAddresses
  <2>4. lines # <<>> BY <1>3, <2>3 DEF Edit
  <2>5. last \in Nat /\ 1 <= last /\ i \in Nat /\ n \in Nat BY <1>1, <1>2, <1>8, <2>1
  <2>6. ASSUME NEW k \in 1 .. last PROVE new[k] \in Device
    <3>1. PICK line : line = IF k <= Len(lines) THEN lines[k] ELSE LineBelow(lines) OBVIOUS
    <3>2. line \in Device
      <4>1. CASE k <= Len(lines)
        <5>1. k \in 1 .. Len(lines) BY <1>2, <2>5, <4>1
        <5>2. lines[k] \in Device BY <1>2, <5>1
        <5> QED BY <3>1, <4>1, <5>2
      <4>2. CASE ~(k <= Len(lines)) BY <1>2, <2>4, <3>1, <4>2, LineBelowIsDevice
      <4> QED BY <4>1, <4>2
    <3>3. new[k] = IF k \in i .. i + n - 1 THEN [line EXCEPT !.ip = k - i + 1] ELSE line BY <2>2, <3>1
    <3>4. CASE k \in i .. i + n - 1
      <4>1. k - i + 1 \in Blank .. MaxAddress BY <2>3, <2>5, <3>4, AddressesThere
      <4>2. PICK a \in Blank .. MaxAddress : a = k - i + 1 BY <4>1
      <4>3. [line EXCEPT !.ip = a] \in Device BY <3>2 DEF Device
      <4> QED BY <3>3, <3>4, <4>2, <4>3
    <3>5. CASE k \notin i .. i + n - 1 BY <3>2, <3>3, <3>5
    <3> QED BY <3>4, <3>5
  <2>7. new \in [1 .. last -> Device] BY <2>2, <2>6
  <2>8. new \in Seq(Device) BY <2>5, <2>7
  <2>9. new # <<>>
    <3>1. 1 \in DOMAIN new BY <2>5, <2>7
    <3> QED BY <3>1
  <2> QED BY <2>3, <2>8, <2>9, EditKeepsInputs
<1> QED BY <1>4, <1>5, <1>6, <1>7, <1>8

LEMMA EditorOpened == InputsInv /\ OpenInventoryEditor => InputsInv'
<1> SUFFICES ASSUME InputsInv, OpenInventoryEditor PROVE InputsInv' OBVIOUS
<1>1. PICK found : found = IF prep.list = NoList THEN <<>> ELSE ReadList(prep) OBVIOUS
<1>2. found \in Seq(Device) BY <1>1 DEF InputsInv, PageOK, ReadList
<1>3. PICK lines : lines = IF found = <<>> THEN <<NewLine>> ELSE found OBVIOUS
<1>4. <<NewLine>> \in Seq(Device) /\ <<NewLine>> # <<>> BY BlankIsAddress
<1>5. lines \in Seq(Device) /\ lines # <<>> BY <1>2, <1>3, <1>4
<1>6. /\ task.st = "idle" /\ UNCHANGED <<lists, prep, task>>
      /\ editor' = [open |-> TRUE, needs |-> UsesVariable(prep), lines |-> lines]
  BY <1>1, <1>3 DEF OpenInventoryEditor, Free
<1>7. DOMAIN editor' = {"open", "lines", "needs"} /\ editor'.lines = lines BY <1>6
<1> QED BY <1>5, <1>6, <1>7 DEF InputsInv, EditorOK, TaskOK, RunsOnlyWhatFits

LEMMA ClosedIsOK == ASSUME editor' = Closed PROVE EditorOK'
<1>1. DOMAIN Closed = {"open", "lines", "needs"} /\ Closed.lines = <<>> /\ Closed.open = FALSE BY DEF Closed
<1>2. <<>> \in Seq(Device) OBVIOUS
<1> QED BY <1>1, <1>2 DEF EditorOK

LEMMA EditorCancelled == InputsInv /\ CancelEditor => InputsInv'
  BY ClosedIsOK DEF CancelEditor, Table, InputsInv, TaskOK, RunsOnlyWhatFits

LEMMA EditorSaved ==
    ASSUME InputsInv, NEW l \in ListFiles, SaveEditor(l)
    PROVE  InputsInv'
<1>1. PICK lines : lines = editor.lines OBVIOUS
<1>2. lines \in Seq(Device) /\ task.st = "idle" BY <1>1 DEF InputsInv, EditorOK, SaveEditor
<1>3. lists' = [lists EXCEPT ![l] = lines] /\ editor' = Closed /\ prep' = ListChanged(prep, l) /\ task' = task
  BY <1>1 DEF SaveEditor
<1>4. lists' \in [ListFiles -> Seq(Device)] BY <1>2, <1>3 DEF InputsInv
<1>5. PageOK(prep') BY <1>3, ListChangedIsOK DEF InputsInv
<1> QED BY <1>2, <1>3, <1>4, <1>5, ClosedIsOK DEF InputsInv, TaskOK, RunsOnlyWhatFits

----------------------------------------------------------------------------
(* The run.                                                                *)

LEMMA AskedToRun == InputsInv /\ AskToRun => InputsInv'
<1> SUFFICES ASSUME InputsInv, AskToRun PROVE InputsInv' OBVIOUS
<1>1. /\ Free /\ prep.list # NoList /\ UNCHANGED <<lists, editor>>
      /\ prep' = IF prep.ok THEN prep ELSE Checked(prep)
      /\ task' = IF prep'.ok THEN [st |-> "box", as |-> prep'] ELSE task
  BY DEF AskToRun, HasInput
<1>2. PageOK(prep') /\ prep'.list = prep.list BY <1>1, CheckedIsOK DEF InputsInv
<1>3. CASE prep'.ok
  <2>1. task' = [st |-> "box", as |-> prep'] BY <1>1, <1>3
  <2>2. DOMAIN task' = {"st", "as"} /\ task'.st = "box" /\ task'.as = prep' BY <2>1
  <2>3. SeenFits(prep') /\ prep'.list \in ListFiles BY <1>1, <1>2, <1>3 DEF PageOK
  <2>4. TaskOK' BY <2>2, <2>3 DEF TaskOK
  <2>5. RunsOnlyWhatFits' BY <2>2 DEF RunsOnlyWhatFits
  <2>6. EditorOK' BY <1>1 DEF InputsInv, EditorOK, Free
  <2> QED BY <1>1, <1>2, <2>4, <2>5, <2>6 DEF InputsInv
<1>4. CASE ~prep'.ok
  <2>1. task' = task /\ task.st = "idle" BY <1>1, <1>4 DEF Free
  <2> QED BY <1>1, <1>2, <2>1, PageStep DEF InputsInv
<1> QED BY <1>3, <1>4

LEMMA RunDeclined == InputsInv /\ DeclineRun => InputsInv'
<1> SUFFICES ASSUME InputsInv, DeclineRun PROVE InputsInv' OBVIOUS
<1>1. task' = NoTask /\ UNCHANGED <<lists, prep, editor>> BY DEF DeclineRun
<1>2. task'.st = "idle" BY <1>1 DEF NoTask
<1> QED BY <1>1, <1>2 DEF InputsInv, EditorOK, TaskOK, RunsOnlyWhatFits

LEMMA RunConfirmed == InputsInv /\ ConfirmRun => InputsInv'
<1> SUFFICES ASSUME InputsInv, ConfirmRun PROVE InputsInv' OBVIOUS
<1>1. /\ task.st = "box" /\ task' = [task EXCEPT !.st = "start"] /\ prep' = [prep EXCEPT !.result = NoList]
      /\ UNCHANGED <<lists, editor>>
  BY DEF ConfirmRun
<1>2. DOMAIN task = {"st", "as"} BY <1>1 DEF InputsInv, TaskOK
<1>3. DOMAIN task' = {"st", "as"} /\ task'.st = "start" /\ task'.as = task.as BY <1>1, <1>2
<1>4. PageOK(prep') /\ prep'.list = prep.list /\ prep'.profiles = prep.profiles BY <1>1, ResultSet DEF InputsInv
<1>5. TaskOK' BY <1>1, <1>3, <1>4 DEF InputsInv, TaskOK
<1>6. RunsOnlyWhatFits' BY <1>3 DEF RunsOnlyWhatFits
<1>7. EditorOK' BY <1>1 DEF InputsInv, EditorOK
<1> QED BY <1>1, <1>4, <1>5, <1>6, <1>7 DEF InputsInv

LEMMA InputsRead == InputsInv /\ ReadInputs => InputsInv'
<1> SUFFICES ASSUME InputsInv, ReadInputs PROVE InputsInv' OBVIOUS
<1>1. task.st = "start" /\ task' = RunOf(task.as) /\ UNCHANGED <<lists, prep, editor>> BY DEF ReadInputs
<1>2. PICK p : p = task.as OBVIOUS
<1>3. /\ p.list \in ListFiles /\ p.list = prep.list /\ p.profiles = prep.profiles /\ SeenFits(p)
      /\ lists \in [ListFiles -> Seq(Device)]
  BY <1>1, <1>2 DEF InputsInv, TaskOK
<1>4. PICK t : t = RunOf(p) OBVIOUS
<1>5. /\ t.as = p /\ t.st \in {"run", "error"}
      /\ t.st = "run" =>
           /\ Distinct(t.devices)
           /\ \A i \in DOMAIN t.devices :
                 /\ t.devices[i].ip # Blank /\ t.devices[i].vendor \in p.profiles
                 /\ ByDevice(p) => t.devices[i].ip \in p.received
                 /\ (Custom(p) /\ t.seen[2] = "variable") => ByDevice(p) \/ t.devices[i].filled
           /\ p.first => Cardinality(DOMAIN t.devices) = 1
           /\ (Custom(p) /\ t.seen = p.seen) => t.devices[Min(DOMAIN t.devices)].ip = p.preview
      /\ t.st = "error" => t.seen # p.seen
  BY <1>3, <1>4, ReadFits
<1>6. task' = t BY <1>1, <1>2, <1>4
<1>7. TaskOK' BY <1>1, <1>3, <1>5, <1>6 DEF TaskOK
<1>8. RunsOnlyWhatFits' BY <1>1, <1>3, <1>5, <1>6 DEF RunsOnlyWhatFits
<1>9. EditorOK' BY <1>1 DEF InputsInv, EditorOK
<1> QED BY <1>1, <1>7, <1>8, <1>9 DEF InputsInv

LEMMA TaskEnded == InputsInv /\ EndTask => InputsInv'
<1> SUFFICES ASSUME InputsInv, EndTask PROVE InputsInv' OBVIOUS
<1>1. /\ task.st # "idle" /\ task' = NoTask /\ UNCHANGED <<lists, editor>>
      /\ prep' = [prep EXCEPT !.result = IF task.st = "run" THEN task.as.list ELSE NoList]
  BY DEF EndTask
<1>2. PICK r : r = IF task.st = "run" THEN task.as.list ELSE NoList OBVIOUS
<1>3. r \in {NoList, prep.list} BY <1>1, <1>2 DEF InputsInv, TaskOK
<1>4. PageOK(prep') BY <1>1, <1>2, <1>3, ResultSet DEF InputsInv
<1>5. task'.st = "idle" BY <1>1 DEF NoTask
<1> QED BY <1>1, <1>4, <1>5 DEF InputsInv, EditorOK, TaskOK, RunsOnlyWhatFits

LEMMA InputsStart == InputsInit => InputsInv
<1> SUFFICES ASSUME InputsInit PROVE InputsInv OBVIOUS
<1>1. lists \in [ListFiles -> Seq(Device)]
  <2>1. <<>> \in Seq(Device) OBVIOUS
  <2> QED BY <2>1 DEF InputsInit
<1>2. DOMAIN prep = PageFields /\ prep.list = NoList /\ prep.ok = FALSE /\ prep.result = NoList
  BY DEF InputsInit, PageFields
<1>3. PageOK(prep) BY <1>2 DEF PageOK
<1>4. DOMAIN editor = {"open", "lines", "needs"} /\ editor.lines = <<>> /\ editor.open = FALSE BY DEF InputsInit, Closed
<1>5. EditorOK BY <1>4 DEF EditorOK
<1>6. task.st = "idle" BY DEF InputsInit, NoTask
<1> QED BY <1>1, <1>3, <1>5, <1>6 DEF InputsInv, TaskOK, RunsOnlyWhatFits

LEMMA InputsStep == InputsInv /\ [InputsNext]_prepVars => InputsInv'
<1> SUFFICES ASSUME InputsInv, [InputsNext]_prepVars PROVE InputsInv' OBVIOUS
<1>1. CASE \E l \in ListFiles : PickInventory(l) \/ PickInventory(NoList) \/ CreateSampleInventory(l) \/ SaveEditor(l)
  BY <1>1, ListPicked, SampleCreated, EditorSaved
<1>2. CASE \/ \E a \in 0 .. 2 : SetAccount(a)
           \/ \E m \in {"inspection", "custom"} : SetMode(m)
           \/ \E s \in Typed : TypeCommands(s)
           \/ \E s \in {"inline", "file", "device"} : SetSource(s)
           \/ \E ips \in SUBSET (1 .. MaxAddress) \ {{}} : ReceiveDeviceCommands(ips)
           \/ ClearDeviceCommands \/ OpenProfileEditor
  BY <1>2, ChoiceChanged
<1>3. CASE ToggleFirst \/ ValidateInventory \/ ChangeOutside
  BY <1>3, FirstToggled, Validated, ChangedOutside
<1>4. CASE OpenInventoryEditor \/ CancelEditor
  BY <1>4, EditorOpened, EditorCancelled
<1>5. CASE \/ AddRow
           \/ \E i \in DOMAIN editor.lines :
                \/ DuplicateRow(i) \/ DeleteRow(i) \/ \E line \in Device : EditCell(i, line)
                \/ \E n \in 1 .. 2 : PasteAddresses(i, n)
  BY <1>5, TableEdited
<1>6. CASE AskToRun \/ DeclineRun \/ ConfirmRun \/ ReadInputs \/ EndTask
  BY <1>6, AskedToRun, RunDeclined, RunConfirmed, InputsRead, TaskEnded
<1>7. CASE UNCHANGED prepVars
  BY <1>7 DEF prepVars, InputsInv, EditorOK, TaskOK, RunsOnlyWhatFits
<1> QED BY <1>1, <1>2, <1>3, <1>4, <1>5, <1>6, <1>7 DEF InputsNext

\* What the editor saves passes the page's check (save_to).
LEMMA SavedIsAccepted ==
    ASSUME InputsInv, [InputsNext]_prepVars, editor.open, ~editor'.open, NEW l \in ListFiles, lists'[l] # lists[l]
    PROVE  /\ prep'.list = l /\ ValidList(lists'[l], Vendors)
           /\ (UsesVariable(prep) /\ editor.needs) => \A i \in DOMAIN lists'[l] : lists'[l][i].filled
<1>1. PICK k \in ListFiles : SaveEditor(k)
  <2> SUFFICES ASSUME ~ \E k \in ListFiles : SaveEditor(k) PROVE FALSE OBVIOUS
  <2>1. ~Free BY DEF Free
  <2>2. editor' # editor /\ lists' # lists OBVIOUS
  <2>3. ~ \E a \in 0 .. 2 : SetAccount(a) BY <2>1 DEF SetAccount
  <2>4. ~ \E m \in {"inspection", "custom"} : SetMode(m) BY <2>1 DEF SetMode
  <2>5. ~ \E s \in Typed : TypeCommands(s) BY <2>1 DEF TypeCommands
  <2>6. ~ \E s \in {"inline", "file", "device"} : SetSource(s) BY <2>1 DEF SetSource
  <2>7. ~ \E ips \in SUBSET (1 .. MaxAddress) \ {{}} : ReceiveDeviceCommands(ips) BY <2>1 DEF ReceiveDeviceCommands
  <2>8. ~(ClearDeviceCommands \/ OpenProfileEditor \/ ToggleFirst \/ ValidateInventory \/ OpenInventoryEditor \/ AskToRun)
    BY <2>1 DEF ClearDeviceCommands, OpenProfileEditor, ToggleFirst, ValidateInventory, OpenInventoryEditor, AskToRun
  <2>9. ~ \E j \in ListFiles : PickInventory(j) \/ PickInventory(NoList) \/ CreateSampleInventory(j)
    BY <2>1 DEF PickInventory, CreateSampleInventory
  <2>10. ~(ChangeOutside \/ DeclineRun \/ ConfirmRun \/ ReadInputs \/ EndTask \/ UNCHANGED prepVars)
    BY <2>2 DEF ChangeOutside, DeclineRun, ConfirmRun, ReadInputs, EndTask, prepVars
  <2>11. ~(AddRow \/ CancelEditor) BY <2>2 DEF AddRow, CancelEditor, Edit, Table
  <2>12. ~ \E i \in DOMAIN editor.lines :
                \/ DuplicateRow(i) \/ DeleteRow(i) \/ \E line \in Device : EditCell(i, line)
                \/ \E n \in 1 .. 2 : PasteAddresses(i, n)
    BY <2>2 DEF DuplicateRow, DeleteRow, EditCell, PasteAddresses, Edit, Table
  <2> QED BY <2>3, <2>4, <2>5, <2>6, <2>7, <2>8, <2>9, <2>10, <2>11, <2>12 DEF InputsNext
<1>2. PICK lines : lines = editor.lines OBVIOUS
<1>3. lists' = [lists EXCEPT ![k] = lines] /\ prep' = ListChanged(prep, k) /\ NoProblems BY <1>1, <1>2 DEF SaveEditor
<1>4. k = l /\ lists'[l] = lines BY <1>3 DEF InputsInv
<1>5. prep'.list = k BY <1>3, ListChangedIsOK DEF InputsInv
<1>6. lines \in Seq(Device) /\ lines # <<>> BY <1>2 DEF InputsInv, EditorOK
<1>7. \A i \in DOMAIN lines : lines[i].vendor \in Vendors
  <2> SUFFICES ASSUME NEW i \in DOMAIN lines PROVE lines[i].vendor \in Vendors OBVIOUS
  <2>1. lines[i] \in Device BY <1>6
  <2> QED BY <2>1 DEF Device
<1>8. ValidList(lines, Vendors) BY <1>2, <1>3, <1>6, <1>7 DEF ValidList, NoProblems
<1>9. editor.needs => \A i \in DOMAIN lines : lines[i].filled BY <1>2, <1>3 DEF NoProblems
<1> QED BY <1>4, <1>5, <1>8, <1>9

\* For any files, lists of other programs, commands and sizes of the table: the mark that
\* spares the check stands only for what the page shows, a run contacts only devices that
\* fit however old the check is and fails only if something changed, and what the editor
\* saves is accepted (inspector_tab.py, inventory_editor_dialog.py, service.py).
THEOREM InputsAlwaysRight == InputsInit /\ [][InputsNext]_prepVars => RunInputsAreRight
<1>1. InputsInv => CheckIsOfWhatIsShown /\ RunsOnlyWhatFits BY DEF InputsInv, PageOK, CheckIsOfWhatIsShown
<1>2. InputsInv /\ [InputsNext]_prepVars =>
        [(editor.open /\ ~editor'.open) =>
          \A l \in ListFiles : lists'[l] # lists[l] =>
              /\ prep'.list = l /\ ValidList(lists'[l], Vendors)
              /\ (UsesVariable(prep) /\ editor.needs) => \A i \in DOMAIN lists'[l] : lists'[l][i].filled]_prepVars
  BY SavedIsAccepted
<1> QED BY <1>1, <1>2, InputsStart, InputsStep, PTL DEF RunInputsAreRight, EditedListIsAccepted
----------------------------------------------------------------------------
(* Profiles: what the operators on sequences tell.                         *)

\* A set that has 0 and, with a number below n, the next one, has all up to n.
LEMMA UpTo ==
    ASSUME NEW n \in Nat, NEW S, 0 \in S, \A k \in 0 .. n - 1 : k \in S => k + 1 \in S
    PROVE  \A k \in 0 .. n : k \in S
<1> SUFFICES ASSUME NEW l \in 0 .. n, l \notin S PROVE FALSE OBVIOUS
<1> DEFINE R == {k \in 0 .. n : k \notin S}
<1>1. R \subseteq Nat /\ R # {} OBVIOUS
<1>2. PICK m \in R : \A k \in R : ~ (<<k, m>> \in OpToRel(<, Nat)) BY <1>1, NatLessThanWellFounded, WFMin
<1>3. \A k \in R : ~(k < m) BY <1>1, <1>2 DEF OpToRel
<1>4. m \in Nat /\ m # 0 /\ m \in 0 .. n /\ m \notin S OBVIOUS
<1>5. m - 1 \in 0 .. n - 1 /\ m - 1 < m /\ (m - 1) + 1 = m /\ m - 1 \in 0 .. n BY <1>4
<1>6. m - 1 \in S BY <1>3, <1>5
<1>7. m \in S BY <1>5, <1>6
<1> QED BY <1>4, <1>7

\* A function on the first numbers is a sequence.
LEMMA IsSequence ==
    ASSUME NEW n \in Nat, NEW s, s = [k \in 1 .. n |-> s[k]]
    PROVE  IsSeq(s) /\ Len(s) = n /\ DOMAIN s = 1 .. n
<1>1. DOMAIN s = 1 .. n OBVIOUS
<1>2. \A k \in 1 .. n : s[k] \in ToSet(s) BY <1>1 DEF ToSet
<1>3. s \in [1 .. n -> ToSet(s)] BY <1>2
<1>4. s \in Seq(ToSet(s)) BY <1>3
<1>5. Len(s) = n BY <1>1, <1>4
<1> QED BY <1>1, <1>4, <1>5 DEF IsSeq

\* The length and the positions of a sequence.
LEMMA SeqHas ==
    ASSUME NEW s, IsSeq(s)
    PROVE  /\ Len(s) \in Nat /\ DOMAIN s = 1 .. Len(s) /\ s = [k \in 1 .. Len(s) |-> s[k]]
           /\ \A x : x \in ToSet(s) <=> \E k \in 1 .. Len(s) : x = s[k]
<1>1. PICK T : T = ToSet(s) OBVIOUS
<1>2. s \in Seq(T) BY <1>1 DEF IsSeq
<1>3. Len(s) \in Nat /\ DOMAIN s = 1 .. Len(s) /\ s = [k \in 1 .. Len(s) |-> s[k]] BY <1>2, LenProperties
<1>4. ToSet(s) = {s[k] : k \in DOMAIN s} BY DEF ToSet
<1>5. \A x : x \in ToSet(s) <=> \E k \in 1 .. Len(s) : x = s[k] BY <1>3, <1>4
<1> QED BY <1>3, <1>5

\* "at" numbers the positions P in their order.
Numbers(s, P, c, at) ==
    /\ at \in [1 .. c -> P]
    /\ Chosen(s, P) = [k \in 1 .. c |-> s[at[k]]]
    /\ \A i, k \in 1 .. c : i < k => at[i] < at[k]
    /\ \A i \in P : \E k \in 1 .. c : at[k] = i

\* Each position has its number.
LEMMA ChosenTells ==
    ASSUME NEW s, NEW n \in Nat, NEW P \in SUBSET (1 .. n)
    PROVE  \E c \in Nat : \E at : Numbers(s, P, c, at)
<1>1. IsFiniteSet(P)
  <2>1. IsFiniteSet(1 .. n) BY FS_Interval
  <2> QED BY <2>1, FS_Subset
<1>2. PICK c \in Nat : c = Cardinality(P) BY <1>1, FS_CardinalityType
<1> DEFINE Upto(i) == {j \in P : j <= i}
           rank == [i \in P |-> Cardinality(Upto(i))]
<1>0. \A j \in P : j \in Nat OBVIOUS
<1>3. ASSUME NEW i \in P PROVE IsFiniteSet(Upto(i)) /\ rank[i] \in 1 .. c
  <2>1. Upto(i) \in SUBSET P OBVIOUS
  <2>2. IsFiniteSet(Upto(i)) /\ Cardinality(Upto(i)) <= c BY <1>1, <1>2, <2>1, FS_Subset
  <2>3. Cardinality(Upto(i)) \in Nat BY <2>2, FS_CardinalityType
  <2>4. i \in Upto(i) BY <1>0
  <2>5. Cardinality(Upto(i)) # 0 BY <2>2, <2>4, FS_EmptySet
  <2> QED BY <1>2, <2>2, <2>3, <2>5
<1>4. ASSUME NEW i \in P, NEW k \in P, i < k PROVE rank[i] < rank[k]
  <2>1. Upto(i) \in SUBSET Upto(k)
    <3>1. ASSUME NEW j \in P, j <= i PROVE j <= k
      <4>1. j \in Nat /\ i \in Nat /\ k \in Nat BY <1>0
      <4> QED BY <1>4, <3>1, <4>1
    <3> QED BY <3>1
  <2>2. k \in Upto(k) /\ k \notin Upto(i) BY <1>0, <1>4
  <2>3. IsFiniteSet(Upto(k)) BY <1>3
  <2>4. Cardinality(Upto(i)) <= Cardinality(Upto(k)) /\ Cardinality(Upto(i)) # Cardinality(Upto(k))
    BY <2>1, <2>2, <2>3, FS_Subset
  <2>5. rank[i] \in Nat /\ rank[k] \in Nat BY <1>3
  <2> QED BY <2>4, <2>5
<1>5. rank \in [P -> 1 .. c] BY <1>3
<1>6. \A k \in 1 .. c : \E i \in P : rank[i] = k
  <2> HIDE DEF rank
  <2>1. \A i, k \in P : rank[i] = rank[k] => i = k
    <3> SUFFICES ASSUME NEW i \in P, NEW k \in P, i # k PROVE rank[i] # rank[k] OBVIOUS
    <3>1. rank[i] \in Nat /\ rank[k] \in Nat BY <1>5
    <3>2. i \in Nat /\ k \in Nat BY <1>0
    <3>3. i < k \/ k < i BY <3>2
    <3> QED BY <1>4, <3>1, <3>3
  <2>2. rank \in Injection(P, 1 .. c) BY <1>5, <2>1 DEF Injection, IsInjective
  <2>3. IsFiniteSet(1 .. c) /\ Cardinality(1 .. c) = c BY <1>2, FS_Interval
  <2>4. rank \in Surjection(P, 1 .. c) BY <1>2, <2>2, <2>3, FS_Injection
  <2> QED BY <2>4 DEF Surjection
<1> DEFINE at == [k \in 1 .. c |-> CHOOSE i \in P : rank[i] = k]
<1>7. \A k \in 1 .. c : at[k] \in P /\ rank[at[k]] = k
  <2> HIDE DEF rank
  <2> QED BY <1>6
<1>8. at \in [1 .. c -> P] BY <1>7
<1>9. Chosen(s, P) = [k \in 1 .. c |-> s[at[k]]]
  <2>1. ASSUME NEW k \in 1 .. c PROVE at[k] = CHOOSE i \in P : Cardinality({j \in P : j <= i}) = k
    <3>1. \A i \in P : rank[i] = k <=> Cardinality({j \in P : j <= i}) = k OBVIOUS
    <3>2. at[k] = CHOOSE i \in P : rank[i] = k OBVIOUS
    <3> HIDE DEF rank, at
    <3> QED BY <3>1, <3>2, Zenon
  <2> HIDE DEF at
  <2>2. PICK f : f = at OBVIOUS
  <2>3. \A k \in 1 .. c : f[k] = CHOOSE i \in P : Cardinality({j \in P : j <= i}) = k BY <2>1, <2>2
  <2>4. Chosen(s, P) = [k \in 1 .. c |-> s[CHOOSE i \in P : Cardinality({j \in P : j <= i}) = k]]
    BY <1>2 DEF Chosen
  <2>5. Chosen(s, P) = [k \in 1 .. c |-> s[f[k]]] BY <2>3, <2>4, Zenon
  <2> QED BY <2>2, <2>5
<1> HIDE DEF rank, at
<1>10. ASSUME NEW i \in 1 .. c, NEW k \in 1 .. c, i < k PROVE at[i] < at[k]
  <2>1. at[i] \in Nat /\ at[k] \in Nat BY <1>0, <1>7
  <2>2. CASE at[i] = at[k] BY <1>7, <2>2, <1>10
  <2>3. CASE at[k] < at[i]
    <3>1. rank[at[k]] < rank[at[i]] BY <1>4, <1>7, <2>3
    <3>2. k < i BY <1>7, <3>1
    <3> QED BY <1>10, <3>2
  <2> QED BY <2>1, <2>2, <2>3
<1>11. ASSUME NEW i \in P PROVE \E k \in 1 .. c : at[k] = i
  <2>1. rank[i] \in 1 .. c BY <1>5
  <2>2. PICK k : k = rank[i] OBVIOUS
  <2>3. k \in 1 .. c /\ at[k] \in P /\ rank[at[k]] = rank[i]
    <3>1. k \in 1 .. c BY <2>1, <2>2
    <3> QED BY <1>7, <2>2, <3>1, Zenon
  <2>4. at[k] \in Nat /\ i \in Nat
    <3>1. at[k] \in P BY <2>3
    <3>2. at[k] \in Nat BY <1>0, <3>1, Zenon
    <3>3. i \in Nat BY <1>0
    <3> QED BY <3>2, <3>3
  <2>5. PICK a : a = at[k] OBVIOUS
  <2>6. a \in P /\ a \in Nat /\ rank[a] = rank[i] BY <2>3, <2>4, <2>5
  <2>7. rank[i] \in Nat BY <2>1
  <2>8. ASSUME a < i PROVE FALSE
    <3>1. rank[a] < rank[i] BY <1>4, <2>6, <2>8
    <3> QED BY <2>6, <2>7, <3>1
  <2>9. ASSUME i < a PROVE FALSE
    <3>1. rank[i] < rank[a] BY <1>4, <2>6, <2>9
    <3> QED BY <2>6, <2>7, <3>1
  <2>10. a = i BY <2>4, <2>6, <2>8, <2>9
  <2> QED BY <2>3, <2>5, <2>10
<1> QED BY <1>8, <1>9, <1>10, <1>11 DEF Numbers

\* What is chosen is a sequence of what is at the positions, each value in its order.
LEMMA ChosenIs ==
    ASSUME NEW s, IsSeq(s), NEW P \in SUBSET (1 .. Len(s))
    PROVE  /\ IsSeq(Chosen(s, P))
           /\ \A x : x \in ToSet(Chosen(s, P)) <=> \E i \in P : s[i] = x
<1>1. Len(s) \in Nat BY SeqHas
<1>2. PICK c \in Nat : \E at : Numbers(s, P, c, at) BY <1>1, ChosenTells
<1>a. PICK at : Numbers(s, P, c, at) BY <1>2
<1>3. PICK t : t = Chosen(s, P) OBVIOUS
<1>4. t = [k \in 1 .. c |-> t[k]] /\ \A k \in 1 .. c : t[k] = s[at[k]] BY <1>a, <1>3 DEF Numbers
<1>5. IsSeq(t) /\ Len(t) = c BY <1>4, IsSequence
<1>6. \A x : x \in ToSet(t) <=> \E k \in 1 .. c : x = t[k] BY <1>5, SeqHas
<1>7. ASSUME NEW x PROVE x \in ToSet(t) <=> \E i \in P : s[i] = x
  <2>1. ASSUME NEW k \in 1 .. c, x = t[k] PROVE \E i \in P : s[i] = x
    <3>1. at[k] \in P /\ s[at[k]] = x BY <1>a, <1>4, <2>1 DEF Numbers
    <3> QED BY <3>1
  <2>2. ASSUME NEW i \in P, s[i] = x PROVE \E k \in 1 .. c : x = t[k]
    <3>1. PICK k \in 1 .. c : at[k] = i BY <1>a DEF Numbers
    <3> QED BY <1>4, <2>2, <3>1
  <2> QED BY <1>6, <2>1, <2>2
<1> QED BY <1>3, <1>5, <1>7

\* Positions of single values give single values.
Single(s) == \A i, k \in 1 .. Len(s) : s[i] = s[k] => i = k

LEMMA ChosenSingle ==
    ASSUME NEW s, IsSeq(s), NEW P \in SUBSET (1 .. Len(s)), \A i, k \in P : s[i] = s[k] => i = k
    PROVE  Single(Chosen(s, P))
<1>1. Len(s) \in Nat BY SeqHas
<1>2. PICK c \in Nat : \E at : Numbers(s, P, c, at) BY <1>1, ChosenTells
<1>3. PICK at : Numbers(s, P, c, at) BY <1>2
<1>4. PICK t : t = Chosen(s, P) OBVIOUS
<1>5. t = [k \in 1 .. c |-> t[k]] /\ \A k \in 1 .. c : t[k] = s[at[k]] /\ at[k] \in P BY <1>3, <1>4 DEF Numbers
<1>6. Len(t) = c BY <1>5, IsSequence
<1>7. ASSUME NEW i \in 1 .. c, NEW k \in 1 .. c, t[i] = t[k] PROVE i = k
  <2>1. at[i] = at[k] BY <1>5, <1>7
  <2>2. at[i] \in Nat /\ at[k] \in Nat BY <1>1, <1>5
  <2>3. ~(i < k) /\ ~(k < i) BY <1>3, <2>1, <2>2 DEF Numbers
  <2> QED BY <2>3
<1> QED BY <1>4, <1>6, <1>7 DEF Single

\* Choosing keeps an order as long as its first value is chosen.
LEMMA ChosenBefore ==
    ASSUME NEW s, IsSeq(s), NEW P \in SUBSET (1 .. Len(s)), NEW b, NEW i \in P, \A j \in P : j <= i => s[j] # b
    PROVE  Before(Chosen(s, P), s[i], b)
<1>1. Len(s) \in Nat BY SeqHas
<1>2. PICK c \in Nat : \E at : Numbers(s, P, c, at) BY <1>1, ChosenTells
<1>3. PICK at : Numbers(s, P, c, at) BY <1>2
<1>4. PICK t : t = Chosen(s, P) OBVIOUS
<1>5. t = [k \in 1 .. c |-> t[k]] /\ \A k \in 1 .. c : t[k] = s[at[k]] /\ at[k] \in P BY <1>3, <1>4 DEF Numbers
<1>6. DOMAIN t = 1 .. c BY <1>5
<1>7. PICK k \in 1 .. c : at[k] = i BY <1>3 DEF Numbers
<1>8. ASSUME NEW j \in 1 .. k PROVE t[j] # b
  <2>1. j \in 1 .. c OBVIOUS
  <2>2. at[j] \in P /\ at[j] \in Nat /\ i \in Nat BY <1>1, <1>5, <2>1
  <2>3. at[j] <= i
    <3>1. CASE j = k BY <1>7, <2>2, <3>1
    <3>2. CASE j < k
      <4>1. at[j] < at[k] BY <1>3, <2>1, <3>2 DEF Numbers
      <4> QED BY <1>7, <2>2, <4>1
    <3> QED BY <3>1, <3>2
  <2> QED BY <1>5, <2>1, <2>2, <2>3
<1>9. t[k] = s[i] BY <1>5, <1>7
<1> QED BY <1>4, <1>6, <1>8, <1>9 DEF Before

\* What is in a set, in its order.
LEMMA OnlyTells ==
    ASSUME NEW s, IsSeq(s), NEW S
    PROVE  /\ IsSeq(Only(s, S))
           /\ \A x : x \in ToSet(Only(s, S)) <=> x \in ToSet(s) /\ x \in S
<1>1. DOMAIN s = 1 .. Len(s) /\ \A x : x \in ToSet(s) <=> \E k \in 1 .. Len(s) : x = s[k] BY SeqHas
<1>2. PICK P \in SUBSET (1 .. Len(s)) : P = {i \in DOMAIN s : s[i] \in S} BY <1>1
<1>3. Only(s, S) = Chosen(s, P) BY <1>2 DEF Only
<1>4. IsSeq(Chosen(s, P)) /\ \A x : x \in ToSet(Chosen(s, P)) <=> \E i \in P : s[i] = x BY ChosenIs
<1>5. \A x : (\E i \in P : s[i] = x) <=> x \in ToSet(s) /\ x \in S BY <1>1, <1>2
<1> QED BY <1>3, <1>4, <1>5

LEMMA OnlySingle ==
    ASSUME NEW s, IsSeq(s), Single(s), NEW S PROVE Single(Only(s, S))
<1>1. DOMAIN s = 1 .. Len(s) BY SeqHas
<1>2. PICK P \in SUBSET (1 .. Len(s)) : P = {i \in DOMAIN s : s[i] \in S} BY <1>1
<1>3. Only(s, S) = Chosen(s, P) BY <1>2 DEF Only
<1>4. \A i, k \in P : s[i] = s[k] => i = k BY DEF Single
<1> QED BY <1>3, <1>4, ChosenSingle

LEMMA OnlyBefore ==
    ASSUME NEW s, IsSeq(s), NEW S, NEW a \in S, NEW b, Before(s, a, b) PROVE Before(Only(s, S), a, b)
<1>1. DOMAIN s = 1 .. Len(s) BY SeqHas
<1>2. PICK P \in SUBSET (1 .. Len(s)) : P = {i \in DOMAIN s : s[i] \in S} BY <1>1
<1>3. Only(s, S) = Chosen(s, P) BY <1>2 DEF Only
<1>4. PICK i \in 1 .. Len(s) : s[i] = a /\ \A j \in 1 .. i : s[j] # b BY <1>1 DEF Before
<1>5. i \in P BY <1>1, <1>2, <1>4
<1>6. ASSUME NEW j \in P, j <= i PROVE s[j] # b
  <2>1. j \in 1 .. i BY <1>6
  <2> QED BY <1>4, <2>1
<1>7. Before(Chosen(s, P), s[i], b) BY <1>5, <1>6, ChosenBefore
<1> QED BY <1>3, <1>4, <1>7

\* Of what was taken from a sequence nothing else is taken the second time.
LEMMA OnlyTwice ==
    ASSUME NEW s, IsSeq(s), NEW S PROVE Only(s, ToSet(Only(s, S))) = Only(s, S)
<1>1. \A x : x \in ToSet(Only(s, S)) <=> x \in ToSet(s) /\ x \in S BY OnlyTells
<1>2. \A i \in DOMAIN s : s[i] \in ToSet(s) BY DEF ToSet
<1>3. PICK T : T = ToSet(Only(s, S)) OBVIOUS
<1>4. {i \in DOMAIN s : s[i] \in T} = {i \in DOMAIN s : s[i] \in S} BY <1>1, <1>2, <1>3
<1>5. Only(s, T) = Only(s, S) BY <1>4 DEF Only
<1> QED BY <1>3, <1>5

\* Taking all there is.
LEMMA OnlyAll ==
    ASSUME NEW s, IsSeq(s), NEW S, ToSet(s) \subseteq S PROVE Only(s, S) = s
<1>1. PICK n \in Nat : n = Len(s) /\ DOMAIN s = 1 .. n /\ s = [k \in 1 .. n |-> s[k]] BY SeqHas
<1>2. \A i \in DOMAIN s : s[i] \in S BY DEF ToSet
<1>3. {i \in DOMAIN s : s[i] \in S} = 1 .. n BY <1>1, <1>2
<1>4. Cardinality(1 .. n) = n BY FS_Interval
<1>5. ASSUME NEW k \in 1 .. n PROVE (CHOOSE i \in 1 .. n : Cardinality({j \in 1 .. n : j <= i}) = k) = k
  <2>1. ASSUME NEW i \in 1 .. n PROVE Cardinality({j \in 1 .. n : j <= i}) = i
    <3>1. {j \in 1 .. n : j <= i} = 1 .. i OBVIOUS
    <3>2. Cardinality(1 .. i) = i BY FS_Interval
    <3> QED BY <3>1, <3>2
  <2>2. \A i \in 1 .. n : Cardinality({j \in 1 .. n : j <= i}) = k <=> i = k BY <2>1
  <2>3. PICK m : m = CHOOSE i \in 1 .. n : Cardinality({j \in 1 .. n : j <= i}) = k OBVIOUS
  <2>4. m \in 1 .. n /\ Cardinality({j \in 1 .. n : j <= m}) = k BY <2>2, <2>3, Zenon
  <2>5. m = k BY <2>2, <2>4, Zenon
  <2> QED BY <2>3, <2>5
<1>6. Only(s, S) = Chosen(s, 1 .. n) BY <1>3 DEF Only
<1>7. Chosen(s, 1 .. n) = [k \in 1 .. n |-> s[CHOOSE i \in 1 .. n : Cardinality({j \in 1 .. n : j <= i}) = k]]
  BY <1>4 DEF Chosen
<1>8. Chosen(s, 1 .. n) = [k \in 1 .. n |-> s[k]] BY <1>5, <1>7, Zenon
<1> QED BY <1>1, <1>6, <1>8

\* Everything once, where it was first.
LEMMA OnceTells ==
    ASSUME NEW s, IsSeq(s)
    PROVE  /\ IsSeq(Once(s)) /\ Single(Once(s))
           /\ \A x : x \in ToSet(Once(s)) <=> x \in ToSet(s)
           /\ \A a, b : Before(s, a, b) => Before(Once(s), a, b)
<1>1. PICK n \in Nat : n = Len(s) /\ DOMAIN s = 1 .. n /\ \A x : x \in ToSet(s) <=> \E k \in 1 .. n : x = s[k] BY SeqHas
<1>2. PICK P \in SUBSET (1 .. n) : P = {i \in DOMAIN s : \A j \in 1 .. i - 1 : s[j] # s[i]} BY <1>1
<1>3. Once(s) = Chosen(s, P) BY <1>2 DEF Once
<1>4. \A i \in 1 .. n : i \in P <=> \A j \in 1 .. i - 1 : s[j] # s[i] BY <1>1, <1>2
<1>5. ASSUME NEW i \in 1 .. n PROVE \E m \in P : s[m] = s[i] /\ m <= i
  <2> DEFINE R == {k \in 1 .. n : s[k] = s[i]}
  <2>1. R \subseteq Nat /\ R # {} OBVIOUS
  <2>2. PICK m \in R : \A k \in R : ~ (<<k, m>> \in OpToRel(<, Nat)) BY <2>1, NatLessThanWellFounded, WFMin
  <2>3. \A k \in R : ~(k < m) BY <2>1, <2>2 DEF OpToRel
  <2>4. m \in 1 .. n /\ s[m] = s[i] OBVIOUS
  <2>5. m <= i
    <3>1. i \in R OBVIOUS
    <3> QED BY <2>3, <2>4, <3>1
  <2>6. ASSUME NEW j \in 1 .. m - 1 PROVE s[j] # s[m]
    <3>1. j \in 1 .. n /\ j < m BY <2>4
    <3> QED BY <2>3, <2>4, <3>1
  <2>7. m \in P BY <1>4, <2>4, <2>6
  <2> QED BY <2>4, <2>5, <2>7
<1>6. IsSeq(Chosen(s, P)) /\ \A x : x \in ToSet(Chosen(s, P)) <=> \E i \in P : s[i] = x BY <1>1, ChosenIs
<1>7. \A x : (\E i \in P : s[i] = x) <=> \E k \in 1 .. n : x = s[k] BY <1>5
<1>8. ASSUME NEW i \in P, NEW k \in P, s[i] = s[k] PROVE i = k
  <2>1. i \in 1 .. n /\ k \in 1 .. n OBVIOUS
  <2>2. ~(i < k)
    <3> SUFFICES ASSUME i < k PROVE FALSE OBVIOUS
    <3>1. i \in 1 .. k - 1 BY <2>1
    <3> QED BY <1>4, <1>8, <2>1, <3>1
  <2>3. ~(k < i)
    <3> SUFFICES ASSUME k < i PROVE FALSE OBVIOUS
    <3>1. k \in 1 .. i - 1 BY <2>1
    <3> QED BY <1>4, <1>8, <2>1, <3>1
  <2> QED BY <2>1, <2>2, <2>3
<1>9. Single(Chosen(s, P)) BY <1>1, <1>8, ChosenSingle
<1>10. ASSUME NEW a, NEW b, Before(s, a, b) PROVE Before(Chosen(s, P), a, b)
  <2>1. PICK i \in 1 .. n : s[i] = a /\ \A j \in 1 .. i : s[j] # b BY <1>1, <1>10 DEF Before
  <2>2. PICK m \in P : s[m] = s[i] /\ m <= i BY <1>5
  <2>3. ASSUME NEW j \in P, j <= m PROVE s[j] # b
    <3>1. j \in 1 .. i BY <2>2, <2>3
    <3> QED BY <2>1, <3>1
  <2>4. Before(Chosen(s, P), s[m], b) BY <1>1, <2>3, ChosenBefore
  <2> QED BY <2>1, <2>2, <2>4
<1> QED BY <1>1, <1>3, <1>6, <1>7, <1>9, <1>10

\* Two sequences one after the other.
LEMMA Joined ==
    ASSUME NEW s, IsSeq(s), NEW t, IsSeq(t)
    PROVE  /\ IsSeq(s \o t)
           /\ \A x : x \in ToSet(s \o t) <=> x \in ToSet(s) \/ x \in ToSet(t)
           /\ \A a, b : Before(s, a, b) => Before(s \o t, a, b)
           /\ \A i \in DOMAIN s : i \in DOMAIN (s \o t) /\ (s \o t)[i] = s[i]
<1>1. PICK m \in Nat : m = Len(s) /\ DOMAIN s = 1 .. m /\ \A x : x \in ToSet(s) <=> \E k \in 1 .. m : x = s[k] BY SeqHas
<1>2. PICK n \in Nat : n = Len(t) /\ DOMAIN t = 1 .. n /\ \A x : x \in ToSet(t) <=> \E k \in 1 .. n : x = t[k] BY SeqHas
<1>3. PICK X : X = ToSet(s) \cup ToSet(t) OBVIOUS
<1>4. s \in Seq(X) /\ t \in Seq(X)
  <2>1. s \in Seq(ToSet(s)) /\ t \in Seq(ToSet(t)) BY DEF IsSeq
  <2>2. PICK S : S = ToSet(s) OBVIOUS
  <2>3. PICK T : T = ToSet(t) OBVIOUS
  <2>4. s \in Seq(S) /\ t \in Seq(T) /\ S \subseteq X /\ T \subseteq X BY <1>3, <2>1, <2>2, <2>3
  <2> QED BY <2>4
<1>5. PICK u : u = s \o t OBVIOUS
<1>6. u \in Seq(X) /\ Len(u) = m + n /\ \A i \in 1 .. m + n : u[i] = IF i <= m THEN s[i] ELSE t[i - m]
  BY <1>1, <1>2, <1>4, <1>5, ConcatProperties
<1>7. DOMAIN u = 1 .. m + n /\ u = [k \in 1 .. m + n |-> u[k]] BY <1>6, LenProperties
<1>8. IsSeq(u) /\ \A x : x \in ToSet(u) <=> \E k \in 1 .. m + n : x = u[k]
  <2>1. IsSeq(u) BY <1>7, IsSequence
  <2> QED BY <1>6, <2>1, SeqHas
<1>9. \A k \in 1 .. m : k \in 1 .. m + n /\ u[k] = s[k] BY <1>6
<1>10. ASSUME NEW k \in 1 .. n PROVE m + k \in 1 .. m + n /\ u[m + k] = t[k]
  <2>1. m + k \in 1 .. m + n /\ ~(m + k <= m) /\ (m + k) - m = k OBVIOUS
  <2> QED BY <1>6, <2>1
<1>11. ASSUME NEW k \in 1 .. m + n PROVE (\E i \in 1 .. m : u[k] = s[i]) \/ (\E i \in 1 .. n : u[k] = t[i])
  <2>1. CASE k <= m
    <3>1. k \in 1 .. m BY <2>1
    <3> QED BY <1>9, <3>1
  <2>2. CASE ~(k <= m)
    <3>1. k - m \in 1 .. n BY <2>2
    <3> QED BY <1>6, <2>2, <3>1
  <2> QED BY <2>1, <2>2
<1>12. ASSUME NEW x PROVE x \in ToSet(u) <=> x \in ToSet(s) \/ x \in ToSet(t)
  <2>1. x \in ToSet(u) => x \in ToSet(s) \/ x \in ToSet(t) BY <1>1, <1>2, <1>8, <1>11
  <2>2. x \in ToSet(s) => x \in ToSet(u) BY <1>1, <1>8, <1>9
  <2>3. x \in ToSet(t) => x \in ToSet(u)
    <3> SUFFICES ASSUME x \in ToSet(t) PROVE x \in ToSet(u) OBVIOUS
    <3>1. PICK k \in 1 .. n : x = t[k] BY <1>2
    <3> QED BY <1>8, <1>10, <3>1
  <2> QED BY <2>1, <2>2, <2>3
<1>13. ASSUME NEW a, NEW b, Before(s, a, b) PROVE Before(u, a, b)
  <2>1. PICK i \in 1 .. m : s[i] = a /\ \A j \in 1 .. i : s[j] # b BY <1>1, <1>13 DEF Before
  <2>2. \A j \in 1 .. i : j \in 1 .. m OBVIOUS
  <2>3. i \in DOMAIN u /\ u[i] = a BY <1>7, <1>9, <2>1
  <2>4. \A j \in 1 .. i : u[j] # b BY <1>9, <2>1, <2>2
  <2> QED BY <2>3, <2>4 DEF Before
<1>14. \A i \in DOMAIN s : i \in DOMAIN u /\ u[i] = s[i] BY <1>1, <1>7, <1>9
<1> QED BY <1>5, <1>8, <1>12, <1>13, <1>14

LEMMA SingleBefore ==
    ASSUME NEW s, IsSeq(s), Single(s), NEW m \in DOMAIN s, NEW n \in DOMAIN s, Before(s, s[m], s[n])
    PROVE  m < n
<1>1. PICK l \in Nat : l = Len(s) /\ DOMAIN s = 1 .. l BY SeqHas
<1>2. PICK i \in 1 .. l : s[i] = s[m] /\ \A j \in 1 .. i : s[j] # s[n] BY <1>1 DEF Before
<1>3. i = m BY <1>1, <1>2 DEF Single
<1>4. m \in Nat /\ n \in Nat /\ n >= 1 BY <1>1
<1>5. n \notin 1 .. m BY <1>2, <1>3
<1> QED BY <1>4, <1>5

LEMMA SingleCounted ==
    ASSUME NEW s, IsSeq(s), Single(s) PROVE Cardinality(ToSet(s)) = Len(s)
<1>1. PICK l \in Nat : l = Len(s) /\ DOMAIN s = 1 .. l /\ \A x : x \in ToSet(s) <=> \E k \in 1 .. l : x = s[k] BY SeqHas
<1>2. s = [k \in 1 .. l |-> s[k]] BY <1>1, SeqHas
<1>3. PICK X : X = ToSet(s) OBVIOUS
<1>4. s \in [1 .. l -> X] BY <1>1, <1>2, <1>3
<1>5. s \in Injection(1 .. l, X) BY <1>1, <1>4 DEF Single, Injection, IsInjective
<1>6. s \in Surjection(1 .. l, X) BY <1>1, <1>3, <1>4 DEF Surjection
<1>7. ExistsBijection(1 .. l, X) BY <1>5, <1>6 DEF ExistsBijection, Bijection
<1>8. IsFiniteSet(1 .. l) /\ Cardinality(1 .. l) = l BY FS_Interval
<1> QED BY <1>1, <1>3, <1>7, <1>8, FS_Bijection

\* Sequences one after the other, up to the n-th.
Flattens(f, n, seqs) == f = [i \in 1 .. n |-> IF i = 1 THEN seqs[i] ELSE f[i - 1] \o seqs[i]]

LEMMA FlattenExists ==
    ASSUME NEW seqs, NEW l \in Nat PROVE \E f : Flattens(f, l, seqs)
<1> DEFINE S == {n \in 0 .. l : \E f : Flattens(f, n, seqs)}
<1>1. 0 \in S
  <2> DEFINE f == [i \in 1 .. 0 |-> seqs]
  <2>1. f = [i \in 1 .. 0 |-> IF i = 1 THEN seqs[i] ELSE f[i - 1] \o seqs[i]] OBVIOUS
  <2> HIDE DEF f
  <2>2. Flattens(f, 0, seqs) BY <2>1 DEF Flattens
  <2> QED BY <2>2
<1>2. ASSUME NEW n \in 0 .. l - 1, n \in S PROVE n + 1 \in S
  <2>1. PICK f : Flattens(f, n, seqs) BY <1>2
  <2> DEFINE g == [i \in 1 .. n + 1 |-> IF i \in 1 .. n THEN f[i] ELSE IF i = 1 THEN seqs[i] ELSE f[n] \o seqs[i]]
  <2>2. ASSUME NEW i \in 1 .. n + 1 PROVE g[i] = IF i = 1 THEN seqs[i] ELSE g[i - 1] \o seqs[i]
    <3>1. CASE i \in 1 .. n
      <4>1. f[i] = IF i = 1 THEN seqs[i] ELSE f[i - 1] \o seqs[i] BY <2>1, <3>1 DEF Flattens
      <4>2. g[i] = f[i] BY <3>1
      <4>3. CASE i = 1 BY <4>1, <4>2, <4>3
      <4>4. CASE i # 1
        <5>1. i - 1 \in 1 .. n /\ i - 1 \in 1 .. n + 1 BY <3>1, <4>4
        <5>2. g[i - 1] = f[i - 1] BY <5>1
        <5> HIDE DEF g
        <5> QED BY <4>1, <4>2, <4>4, <5>2
      <4> QED BY <4>3, <4>4
    <3>2. CASE i \notin 1 .. n
      <4>1. i = n + 1 BY <3>2
      <4>2. g[i] = IF i = 1 THEN seqs[i] ELSE f[n] \o seqs[i] BY <3>2
      <4>3. CASE i = 1 BY <4>2, <4>3
      <4>4. CASE i # 1
        <5>1. i - 1 = n /\ n \in 1 .. n /\ n \in 1 .. n + 1 BY <4>1, <4>4
        <5>2. g[n] = f[n] BY <5>1
        <5>3. g[i - 1] = f[n] BY <5>1, <5>2
        <5> HIDE DEF g
        <5> QED BY <4>2, <4>4, <5>3
      <4> QED BY <4>3, <4>4
    <3> QED BY <3>1, <3>2
  <2>3. g = [i \in 1 .. n + 1 |-> g[i]] OBVIOUS
  <2> HIDE DEF g
  <2>4. g = [i \in 1 .. n + 1 |-> IF i = 1 THEN seqs[i] ELSE g[i - 1] \o seqs[i]] BY <2>2, <2>3, Zenon
  <2>5. Flattens(g, n + 1, seqs) BY <2>4 DEF Flattens
  <2>6. n + 1 \in 0 .. l OBVIOUS
  <2> QED BY <2>5, <2>6
<1> HIDE DEF S
<1>3. \A k \in 0 .. l : k \in S BY <1>1, <1>2, UpTo
<1>4. l \in S BY <1>3
<1> QED BY <1>4 DEF S

\* What a sequence of sequences has, one after the other.
LEMMA FlattenTells ==
    ASSUME NEW seqs, IsSeq(seqs), \A i \in DOMAIN seqs : IsSeq(seqs[i])
    PROVE  /\ IsSeq(FlattenSeq(seqs))
           /\ \A x : x \in ToSet(FlattenSeq(seqs)) <=> \E i \in DOMAIN seqs : x \in ToSet(seqs[i])
<1>1. PICK l \in Nat : l = Len(seqs) /\ DOMAIN seqs = 1 .. l BY SeqHas
<1>2. CASE l = 0
  <2>1. FlattenSeq(seqs) = seqs BY <1>1, <1>2 DEF FlattenSeq
  <2>2. DOMAIN seqs = {} BY <1>1, <1>2
  <2>3. ToSet(seqs) = {} BY <2>2 DEF ToSet
  <2> QED BY <2>1, <2>2, <2>3
<1>3. CASE l # 0
  <2>1. PICK f : f = CHOOSE h : h = [i \in 1 .. l |-> IF i = 1 THEN seqs[i] ELSE h[i - 1] \o seqs[i]] OBVIOUS
  <2>2. FlattenSeq(seqs) = f[l] BY <1>1, <1>3, <2>1 DEF FlattenSeq
  <2>3. f = [i \in 1 .. l |-> IF i = 1 THEN seqs[i] ELSE f[i - 1] \o seqs[i]]
    <3>1. PICK g : Flattens(g, l, seqs) BY FlattenExists
    <3>2. g = [i \in 1 .. l |-> IF i = 1 THEN seqs[i] ELSE g[i - 1] \o seqs[i]] BY <3>1 DEF Flattens
    <3> QED BY <2>1, <3>2, Zenon
  <2> DEFINE S == {n \in 0 .. l : n # 0 => /\ IsSeq(f[n])
                                           /\ \A x : x \in ToSet(f[n]) <=> \E i \in 1 .. n : x \in ToSet(seqs[i])}
  <2>4. 0 \in S OBVIOUS
  <2>5. ASSUME NEW n \in 0 .. l - 1, n \in S PROVE n + 1 \in S
    <3>1. n + 1 \in 1 .. l /\ n + 1 \in 0 .. l BY <1>3
    <3>2. f[n + 1] = IF n + 1 = 1 THEN seqs[n + 1] ELSE f[(n + 1) - 1] \o seqs[n + 1] BY <2>3, <3>1
    <3>3. IsSeq(seqs[n + 1]) BY <1>1, <3>1
    <3>4. CASE n = 0
      <4>1. f[n + 1] = seqs[n + 1] BY <3>2, <3>4
      <4>2. \A i \in 1 .. n + 1 : i = n + 1 BY <3>4
      <4>3. n + 1 \in 1 .. n + 1 BY <3>4
      <4> QED BY <3>1, <3>3, <4>1, <4>2, <4>3
    <3>5. CASE n # 0
      <4>1. IsSeq(f[n]) /\ \A x : x \in ToSet(f[n]) <=> \E i \in 1 .. n : x \in ToSet(seqs[i]) BY <2>5, <3>5
      <4>2. (n + 1) - 1 = n /\ n + 1 # 1 BY <3>5
      <4>3. f[n + 1] = f[n] \o seqs[n + 1] BY <3>2, <4>2
      <4>4. /\ IsSeq(f[n + 1])
            /\ \A x : x \in ToSet(f[n + 1]) <=> x \in ToSet(f[n]) \/ x \in ToSet(seqs[n + 1])
        BY <3>3, <4>1, <4>3, Joined
      <4>5. \A i : i \in 1 .. n + 1 <=> i \in 1 .. n \/ i = n + 1 BY <3>1
      <4>6. \A x : x \in ToSet(f[n + 1]) <=> \E i \in 1 .. n + 1 : x \in ToSet(seqs[i]) BY <4>1, <4>4, <4>5, Zenon
      <4> QED BY <3>1, <4>4, <4>6
    <3> QED BY <3>4, <3>5
  <2> HIDE DEF S
  <2>6. \A k \in 0 .. l : k \in S BY <2>4, <2>5, UpTo
  <2>7. l \in S BY <2>6
  <2> QED BY <1>1, <1>3, <2>2, <2>7 DEF S
<1> QED BY <1>2, <1>3

\* The columns an output has after the items, up to the n-th.
Applies(f, n, items, hits) ==
    f = [m \in 0 .. n |-> IF m = 0 THEN {} ELSE IF m \in hits THEN Applied(f[m - 1], items[m]) ELSE f[m - 1]]

LEMMA AfterExists ==
    ASSUME NEW items, NEW hits, NEW l \in Nat PROVE \E f : Applies(f, l, items, hits)
<1> DEFINE S == {n \in 0 .. l : \E f : Applies(f, n, items, hits)}
<1>1. 0 \in S
  <2> DEFINE f == [m \in 0 .. 0 |-> {}]
  <2>1. f = [m \in 0 .. 0 |-> IF m = 0 THEN {} ELSE IF m \in hits THEN Applied(f[m - 1], items[m]) ELSE f[m - 1]]
    OBVIOUS
  <2> HIDE DEF f
  <2>2. Applies(f, 0, items, hits) BY <2>1 DEF Applies
  <2> QED BY <2>2
<1>2. ASSUME NEW n \in 0 .. l - 1, n \in S PROVE n + 1 \in S
  <2>1. PICK f : Applies(f, n, items, hits) BY <1>2
  <2> DEFINE next == IF n + 1 \in hits THEN Applied(f[n], items[n + 1]) ELSE f[n]
             g == [m \in 0 .. n + 1 |-> IF m \in 0 .. n THEN f[m] ELSE next]
  <2>2. ASSUME NEW m \in 0 .. n + 1
        PROVE  g[m] = IF m = 0 THEN {} ELSE IF m \in hits THEN Applied(g[m - 1], items[m]) ELSE g[m - 1]
    <3>1. CASE m \in 0 .. n
      <4>1. f[m] = IF m = 0 THEN {} ELSE IF m \in hits THEN Applied(f[m - 1], items[m]) ELSE f[m - 1]
        BY <2>1, <3>1 DEF Applies
      <4>2. g[m] = f[m] BY <3>1
      <4>3. CASE m = 0 BY <4>1, <4>2, <4>3
      <4>4. CASE m # 0
        <5>1. m - 1 \in 0 .. n /\ m - 1 \in 0 .. n + 1 BY <3>1, <4>4
        <5>2. g[m - 1] = f[m - 1] BY <5>1
        <5> HIDE DEF g
        <5> QED BY <4>1, <4>2, <4>4, <5>2
      <4> QED BY <4>3, <4>4
    <3>2. CASE m \notin 0 .. n
      <4>1. m = n + 1 /\ m # 0 /\ m - 1 = n BY <3>2
      <4>2. g[m] = next BY <3>2
      <4>3. g[n] = f[n] OBVIOUS
      <4> HIDE DEF g
      <4> QED BY <4>1, <4>2, <4>3
    <3> QED BY <3>1, <3>2
  <2>3. g = [m \in 0 .. n + 1 |-> g[m]] OBVIOUS
  <2> HIDE DEF g
  <2>4. g = [m \in 0 .. n + 1 |-> IF m = 0 THEN {} ELSE IF m \in hits THEN Applied(g[m - 1], items[m]) ELSE g[m - 1]]
    BY <2>2, <2>3, Zenon
  <2>5. Applies(g, n + 1, items, hits) BY <2>4 DEF Applies
  <2>6. n + 1 \in 0 .. l OBVIOUS
  <2> QED BY <2>5, <2>6
<1> HIDE DEF S
<1>3. \A k \in 0 .. l : k \in S BY <1>1, <1>2, UpTo
<1>4. l \in S BY <1>3
<1> QED BY <1>4 DEF S

\* The columns of an output are among those the items name, or their code gives.
LEMMA AfterTells ==
    ASSUME NEW items, IsSeq(items), NEW hits, NEW X,
           \A i \in DOMAIN items : /\ IsItem(items[i]) /\ ToSet(items[i].cols) \subseteq X
                                   /\ items[i].kind = "code" => items[i].more \subseteq X
    PROVE  After(items, hits)[Len(items)] \subseteq X
<1>1. PICK l \in Nat : l = Len(items) /\ DOMAIN items = 1 .. l BY SeqHas
<1>2. PICK f : f = CHOOSE h : h = [m \in 0 .. l |-> IF m = 0 THEN {} ELSE IF m \in hits THEN Applied(h[m - 1], items[m]) ELSE h[m - 1]]
  OBVIOUS
<1>3. After(items, hits) = f BY <1>1, <1>2 DEF After
<1>4. f = [m \in 0 .. l |-> IF m = 0 THEN {} ELSE IF m \in hits THEN Applied(f[m - 1], items[m]) ELSE f[m - 1]]
  <2>1. \E h : h = [m \in 0 .. l |-> IF m = 0 THEN {} ELSE IF m \in hits THEN Applied(h[m - 1], items[m]) ELSE h[m - 1]]
    <3>1. PICK g : Applies(g, l, items, hits) BY AfterExists
    <3>2. g = [m \in 0 .. l |-> IF m = 0 THEN {} ELSE IF m \in hits THEN Applied(g[m - 1], items[m]) ELSE g[m - 1]]
      BY <3>1 DEF Applies
    <3> QED BY <3>2, Zenon
  <2> QED BY <1>2, <2>1, Zenon
<1> DEFINE S == {n \in 0 .. l : f[n] \subseteq X}
<1>5. 0 \in S
  <2>1. 0 \in 0 .. l OBVIOUS
  <2>2. f[0] = {} BY <1>4, <2>1, Zenon
  <2> QED BY <2>1, <2>2
<1>6. ASSUME NEW n \in 0 .. l - 1, n \in S PROVE n + 1 \in S
  <2>1. n + 1 \in 0 .. l /\ n + 1 \in 1 .. l /\ n + 1 # 0 /\ (n + 1) - 1 = n OBVIOUS
  <2>2. f[n + 1] = IF n + 1 \in hits THEN Applied(f[n], items[n + 1]) ELSE f[n] BY <1>4, <2>1
  <2>3. PICK got : got = f[n] OBVIOUS
  <2>4. PICK item : item = items[n + 1] OBVIOUS
  <2>5. got \subseteq X BY <1>6, <2>3
  <2>6. IsItem(item) /\ ToSet(item.cols) \subseteq X /\ (item.kind = "code" => item.more \subseteq X)
    BY <1>1, <2>1, <2>4
  <2>7. Applied(got, item) \subseteq X
    <3>1. CASE item.kind = "usage"
      <4>1. IsSeq(item.cols) /\ Len(item.cols) = 2 BY <2>6, <3>1 DEF IsItem
      <4>2. 2 \in DOMAIN item.cols BY <4>1, SeqHas
      <4>3. item.cols[2] \in X BY <2>6, <4>2 DEF ToSet
      <4> QED BY <2>5, <3>1, <4>3 DEF Applied
    <3>2. CASE item.kind = "code" BY <2>5, <2>6, <3>2 DEF Applied
    <3>3. CASE item.kind \notin {"usage", "code"} BY <2>5, <2>6, <3>3 DEF Applied, Named
    <3> QED BY <3>1, <3>2, <3>3
  <2>8. f[n + 1] \subseteq X BY <2>2, <2>3, <2>4, <2>5, <2>7
  <2> QED BY <2>1, <2>8
<1> HIDE DEF S
<1>7. \A k \in 0 .. l : k \in S BY <1>5, <1>6, UpTo
<1>8. l \in S BY <1>7
<1> QED BY <1>1, <1>3, <1>8 DEF S

----------------------------------------------------------------------------
(* Profiles: what a device is sent, and what its answers may fill.          *)

\* What is shipped, or nothing, is a profile.
LEMMA BuiltInIs == ASSUME NEW p PROVE IsProfile(BuiltIn(p))
<1>1. CASE p = "shipped" BY <1>1, RulesAssumption DEF BuiltIn
<1>2. CASE p # "shipped"
  <2>1. PICK b : b = BuiltIn(p) OBVIOUS
  <2>2. b = [cmds |-> <<>>, backup |-> "", rules |-> Nothing, conn |-> Nothing, handler |-> Nothing]
    BY <1>2, <2>1 DEF BuiltIn
  <2>3. DOMAIN b.rules = {} /\ b.cmds = <<>>
    <3>1. b.rules = <<>> /\ b.cmds = <<>> BY <2>2 DEF Nothing
    <3>2. DOMAIN <<>> = {} OBVIOUS
    <3> QED BY <3>1, <3>2
  <2>4. IsSeq(b.cmds) BY <2>3 DEF IsSeq
  <2>5. b.rules = [c \in DOMAIN b.rules |-> b.rules[c]]
    <3>1. b.rules = <<>> BY <2>2 DEF Nothing
    <3> QED BY <3>1
  <2>6. DOMAIN b = {"cmds", "backup", "rules", "conn", "handler"} BY <2>2
  <2> QED BY <2>1, <2>3, <2>4, <2>5, <2>6 DEF IsProfile
<1> QED BY <1>1, <1>2

\* A profile that can be read from a file.
LEMMA FileHas ==
    ASSUME NEW f, IsFile(f), f.ok, NEW p \in Pairs
    PROVE  /\ f.base[p] = NoProfile \/ IsProfile(f.base[p])
           /\ f.model[p] = NoProfile \/ IsProfile(f.model[p])
<1>1. f # Unreadable BY DEF Unreadable
<1> QED BY <1>1 DEF IsFile

\* What is loaded for a kind of device is a profile.
LEMMA LoadedIs ==
    ASSUME NEW f, IsFile(f), NEW p \in Pairs PROVE IsProfile(Loaded(f, p))
<1>1. PICK had : had = BuiltIn(p) OBVIOUS
<1>2. IsProfile(had) BY <1>1, BuiltInIs
<1>3. CASE ~f.ok \/ f.base[p] = NoProfile BY <1>1, <1>2, <1>3 DEF Loaded
<1>4. CASE f.ok /\ f.base[p] # NoProfile
  <2>1. PICK own : own = f.base[p] OBVIOUS
  <2>2. IsProfile(own) BY <1>4, <2>1, FileHas
  <2>3. PICK conn : conn = IF DOMAIN own.conn = {} THEN had.conn ELSE own.conn OBVIOUS
  <2>4. PICK hand : hand = IF DOMAIN own.handler = {} THEN had.handler ELSE own.handler OBVIOUS
  <2>5. PICK backup : backup = IF own.backup = "" THEN had.backup ELSE own.backup OBVIOUS
  <2>6. PICK rules : rules = Over(had.rules, own.rules) OBVIOUS
  <2>7. PICK cmds : cmds = AddedCommands(had.cmds, own.cmds) OBVIOUS
  <2>8. Loaded(f, p) = [cmds |-> cmds, backup |-> backup, rules |-> rules, conn |-> conn, handler |-> hand]
    BY <1>1, <1>4, <2>1, <2>3, <2>4, <2>5, <2>6, <2>7 DEF Loaded
  <2>9. IsSeq(cmds)
    <3>1. IsSeq(had.cmds) /\ IsSeq(own.cmds) BY <1>2, <2>2 DEF IsProfile
    <3>2. IsSeq(Only(own.cmds, ToSet(own.cmds) \ ToSet(had.cmds))) BY <3>1, OnlyTells
    <3>3. IsSeq(had.cmds \o Only(own.cmds, ToSet(own.cmds) \ ToSet(had.cmds))) BY <3>1, <3>2, Joined
    <3> QED BY <2>7, <3>3 DEF AddedCommands
  <2>10. /\ DOMAIN rules = DOMAIN had.rules \cup DOMAIN own.rules
         /\ rules = [c \in DOMAIN rules |-> rules[c]]
         /\ \A c \in DOMAIN rules : \/ c \in DOMAIN had.rules /\ rules[c] = had.rules[c]
                                    \/ c \in DOMAIN own.rules /\ rules[c] = own.rules[c]
    BY <2>6 DEF Over
  <2>11. ASSUME NEW c \in DOMAIN rules
         PROVE  IsSeq(rules[c]) /\ \A item \in ToSet(rules[c]) : IsItem(item)
    <3>1. CASE c \in DOMAIN had.rules /\ rules[c] = had.rules[c] BY <1>2, <3>1 DEF IsProfile
    <3>2. CASE c \in DOMAIN own.rules /\ rules[c] = own.rules[c] BY <2>2, <3>2 DEF IsProfile
    <3> QED BY <2>10, <3>1, <3>2
  <2>12. PICK all : all = Loaded(f, p) OBVIOUS
  <2>13. /\ DOMAIN all = {"cmds", "backup", "rules", "conn", "handler"}
         /\ all.cmds = cmds /\ all.rules = rules
    BY <2>8, <2>12
  <2>14. IsProfile(all) BY <2>9, <2>10, <2>11, <2>13 DEF IsProfile
  <2> QED BY <2>12, <2>14
<1> QED BY <1>3, <1>4

\* A profile with other ways to connect tells the same.
LEMMA ConnectedOtherwise ==
    ASSUME NEW own, IsProfile(own), NEW k, NEW l, k = [own EXCEPT !.conn = l[1], !.handler = l[2]]
    PROVE  IsProfile(k) /\ k.cmds = own.cmds /\ k.backup = own.backup /\ k.rules = own.rules
<1>1. DOMAIN k = {"cmds", "backup", "rules", "conn", "handler"} BY DEF IsProfile
<1>2. k.cmds = own.cmds /\ k.backup = own.backup /\ k.rules = own.rules BY DEF IsProfile
<1> QED BY <1>1, <1>2 DEF IsProfile

\* What a model's own profile says, apart from the ways to connect.
LEMMA ResolvedOwn ==
    ASSUME NEW f, IsFile(f), NEW d, d.pair \in Pairs, d.model, HasModel(f, d.pair)
    PROVE  LET own == f.model[d.pair]  is == Resolved(f, d) IN
           IsProfile(own) /\ IsProfile(is) /\ is.cmds = own.cmds /\ is.backup = own.backup /\ is.rules = own.rules
<1>1. PICK own : own = f.model[d.pair] OBVIOUS
<1>2. IsProfile(own) BY <1>1, FileHas DEF HasModel
<1>3. PICK is : is = Resolved(f, d) OBVIOUS
<1>4. PICK l : l = <<Over(Loaded(f, d.pair).conn, own.conn), Over(Loaded(f, d.pair).handler, own.handler)>> OBVIOUS
<1>5. is = [own EXCEPT !.conn = Over(Loaded(f, d.pair).conn, @), !.handler = Over(Loaded(f, d.pair).handler, @)]
  BY <1>1, <1>3 DEF Resolved
<1>6. l[1] = Over(Loaded(f, d.pair).conn, own.conn) /\ l[2] = Over(Loaded(f, d.pair).handler, own.handler) BY <1>4
<1>7. is = [own EXCEPT !.conn = l[1], !.handler = l[2]] BY <1>2, <1>5, <1>6 DEF IsProfile
<1>8. IsProfile(is) /\ is.cmds = own.cmds /\ is.backup = own.backup /\ is.rules = own.rules
  BY <1>2, <1>7, ConnectedOtherwise
<1> QED BY <1>1, <1>2, <1>3, <1>8

LEMMA ResolvedIs ==
    ASSUME NEW f, IsFile(f), NEW d, d.pair \in Pairs, d.model \in BOOLEAN PROVE IsProfile(Resolved(f, d))
<1>1. CASE d.model /\ HasModel(f, d.pair) BY <1>1, ResolvedOwn
<1>2. CASE ~d.model \/ ~HasModel(f, d.pair)
  <2>1. Resolved(f, d) = Loaded(f, d.pair) BY <1>2 DEF Resolved
  <2> QED BY <2>1, LoadedIs
<1> QED BY <1>1, <1>2

\* The rule for a command, and the columns it names.
LEMMA RuleTells ==
    ASSUME NEW profile, IsProfile(profile), NEW c
    PROVE  LET items == RulesFor(profile, c) IN
           /\ IsSeq(items)
           /\ \A i \in DOMAIN items : IsItem(items[i]) /\ ToSet(items[i].cols) \subseteq ColumnsOf(profile, c)
           /\ IsSeq(Listed(profile, c))
<1>1. PICK items : items = RulesFor(profile, c) OBVIOUS
<1>2. IsSeq(items) /\ \A item \in ToSet(items) : IsItem(item)
  <2>1. CASE c \in DOMAIN profile.rules BY <1>1, <2>1 DEF RulesFor, IsProfile
  <2>2. CASE c \notin DOMAIN profile.rules
    <3>1. items = <<>> BY <1>1, <2>2 DEF RulesFor
    <3>2. DOMAIN items = {} BY <3>1
    <3>3. ToSet(items) = {} BY <3>2 DEF ToSet
    <3>4. IsSeq(items) BY <3>1 DEF IsSeq
    <3> QED BY <3>3, <3>4
  <2> QED BY <2>1, <2>2
<1>3. \A i \in DOMAIN items : IsItem(items[i]) BY <1>2 DEF ToSet
<1>4. PICK l \in Nat : DOMAIN items = 1 .. l BY <1>2, SeqHas
<1>5. PICK t : t = [i \in DOMAIN items |-> items[i].cols] OBVIOUS
<1>6. IsSeq(t) /\ DOMAIN t = DOMAIN items
  <2>1. t = [i \in 1 .. l |-> t[i]] BY <1>4, <1>5
  <2> QED BY <1>4, <2>1, IsSequence
<1>7. \A i \in DOMAIN t : IsSeq(t[i]) /\ t[i] = items[i].cols BY <1>3, <1>5 DEF IsItem
<1>8. Listed(profile, c) = FlattenSeq(t) BY <1>1, <1>5 DEF Listed
<1>9. IsSeq(FlattenSeq(t)) /\ \A x : x \in ToSet(FlattenSeq(t)) <=> \E i \in DOMAIN t : x \in ToSet(t[i])
  BY <1>6, <1>7, FlattenTells
<1>10. \A i \in DOMAIN items : ToSet(items[i].cols) \subseteq ColumnsOf(profile, c)
  BY <1>6, <1>7, <1>8, <1>9 DEF ColumnsOf
<1> QED BY <1>1, <1>2, <1>3, <1>8, <1>9, <1>10

\* The columns code may give beside those a rule names.
ByCode(profile) ==
    LET items == UNION {ToSet(profile.rules[c]) : c \in DOMAIN profile.rules} IN
    UNION {item.more : item \in {k \in items : k.kind = "code"}}

\* What an output fills is not hidden, and is named by a rule or given by code.
LEMMA ParsedTells ==
    ASSUME NEW s, NEW p, NEW profile, IsProfile(profile), NEW c, NEW hits, NEW col \in Parsed(s, p, profile, c, hits)
    PROVE  \E k \in ColumnsOf(profile, c) \cup ByCode(profile) : Alias(s, k) = col /\ ~Hidden(s, p, c, k)
<1>1. PICK items : items = RulesFor(profile, c) OBVIOUS
<1>2. PICK X : X = ColumnsOf(profile, c) \cup ByCode(profile) OBVIOUS
<1>3. IsSeq(items) /\ \A i \in DOMAIN items : IsItem(items[i]) /\ ToSet(items[i].cols) \subseteq ColumnsOf(profile, c)
  BY <1>1, RuleTells
<1>4. ASSUME NEW i \in DOMAIN items, items[i].kind = "code" PROVE items[i].more \subseteq X
  <2>1. c \in DOMAIN profile.rules /\ items = profile.rules[c]
    <3>1. CASE c \notin DOMAIN profile.rules
      <4>1. items = <<>> BY <1>1, <3>1 DEF RulesFor
      <4> QED BY <4>1
    <3> QED BY <1>1, <3>1 DEF RulesFor
  <2>2. items[i] \in ToSet(profile.rules[c]) BY <2>1 DEF ToSet
  <2>3. PICK item : item = items[i] OBVIOUS
  <2>4. item.more \subseteq ByCode(profile) BY <1>4, <2>1, <2>2, <2>3 DEF ByCode
  <2> QED BY <1>2, <2>3, <2>4
<1>5. After(items, hits)[Len(items)] \subseteq X BY <1>2, <1>3, <1>4, AfterTells
<1>6. PICK k \in After(items, hits)[Len(items)] : ~Hidden(s, p, c, k) /\ col = Alias(s, k) BY <1>1 DEF Parsed
<1> QED BY <1>2, <1>5, <1>6

LEMMA FilledTells ==
    ASSUME NEW s, NEW p, NEW profile, IsProfile(profile), NEW cmds, NEW hits, NEW col \in Filled(s, p, profile, cmds, hits)
    PROVE  \E c \in ToSet(cmds) :
              \E k \in ColumnsOf(profile, c) \cup ByCode(profile) : Alias(s, k) = col /\ ~Hidden(s, p, c, k)
<1>1. PICK k \in DOMAIN cmds :
          col \in Parsed(s, p, profile, cmds[k], {i \in DOMAIN RulesFor(profile, cmds[k]) : <<k, i>> \in hits})
  BY DEF Filled
<1>2. PICK c : c = cmds[k] OBVIOUS
<1>3. PICK h : h = {i \in DOMAIN RulesFor(profile, cmds[k]) : <<k, i>> \in hits} OBVIOUS
<1>4. col \in Parsed(s, p, profile, c, h) BY <1>1, <1>2, <1>3
<1>5. c \in ToSet(cmds) BY <1>2 DEF ToSet
<1> QED BY <1>4, <1>5, ParsedTells

\* Every column of a command that is sent is shown, unless it is left out.
LEMMA ShownTells ==
    ASSUME NEW s, NEW p, NEW profile, IsProfile(profile), NEW c
    PROVE  /\ IsSeq(Shown(s, p, profile, c))
           /\ \A col \in ColumnsOf(profile, c) : ~Hidden(s, p, c, col) => Alias(s, col) \in ToSet(Shown(s, p, profile, c))
<1>1. PICK S : S = {col \in ColumnsOf(profile, c) : ~Hidden(s, p, c, col)} OBVIOUS
<1>2. PICK shown : shown = Only(Listed(profile, c), S) OBVIOUS
<1>3. IsSeq(Listed(profile, c)) BY RuleTells
<1>4. IsSeq(shown) /\ \A x : x \in ToSet(shown) <=> x \in ToSet(Listed(profile, c)) /\ x \in S
  BY <1>2, <1>3, OnlyTells
<1>5. PICK n \in Nat : DOMAIN shown = 1 .. n /\ \A x : x \in ToSet(shown) <=> \E k \in 1 .. n : x = shown[k]
  BY <1>4, SeqHas
<1>6. PICK t : t = [j \in DOMAIN shown |-> Alias(s, shown[j])] OBVIOUS
<1>7. Shown(s, p, profile, c) = t BY <1>1, <1>2, <1>6 DEF Shown
<1>8. t = [j \in 1 .. n |-> t[j]] /\ \A j \in 1 .. n : t[j] = Alias(s, shown[j]) BY <1>5, <1>6
<1>9. IsSeq(t) /\ Len(t) = n BY <1>8, IsSequence
<1>10. \A x : x \in ToSet(t) <=> \E k \in 1 .. n : x = t[k] BY <1>9, SeqHas
<1>11. ASSUME NEW col \in ColumnsOf(profile, c), ~Hidden(s, p, c, col) PROVE Alias(s, col) \in ToSet(t)
  <2>1. col \in S BY <1>1, <1>11
  <2>2. col \in ToSet(shown) BY <1>4, <2>1 DEF ColumnsOf
  <2>3. PICK k \in 1 .. n : col = shown[k] BY <1>5, <2>2
  <2>4. t[k] = Alias(s, col) BY <1>8, <2>3
  <2> QED BY <1>10, <2>4
<1> QED BY <1>7, <1>9, <1>11

LEMMA CommandsTell ==
    ASSUME NEW s, NEW p, NEW profile, IsProfile(profile)
    PROVE  /\ IsSeq(CommandsFor(s, p, profile))
           /\ CommandsFor(s, p, profile) = Only(profile.cmds, ToSet(CommandsFor(s, p, profile)))
           /\ \A c \in ToSet(profile.cmds) \ ToSet(CommandsFor(s, p, profile)) :
                 \/ c \in LeftOut(s, p).cmds
                 \/ ColumnsOf(profile, c) # {} /\ \A col \in ColumnsOf(profile, c) : Hidden(s, p, c, col)
<1>1. PICK S : S = {c \in ToSet(profile.cmds) :
                       /\ c \notin LeftOut(s, p).cmds
                       /\ ColumnsOf(profile, c) = {} \/ \E col \in ColumnsOf(profile, c) : ~Hidden(s, p, c, col)}
  OBVIOUS
<1>2. CommandsFor(s, p, profile) = Only(profile.cmds, S) BY <1>1 DEF CommandsFor
<1>3. IsSeq(profile.cmds) BY DEF IsProfile
<1>4. /\ IsSeq(Only(profile.cmds, S))
      /\ \A x : x \in ToSet(Only(profile.cmds, S)) <=> x \in ToSet(profile.cmds) /\ x \in S
  BY <1>3, OnlyTells
<1>5. Only(profile.cmds, ToSet(Only(profile.cmds, S))) = Only(profile.cmds, S) BY <1>3, OnlyTwice
<1>6. ASSUME NEW c \in ToSet(profile.cmds), c \notin ToSet(Only(profile.cmds, S))
      PROVE  \/ c \in LeftOut(s, p).cmds
             \/ ColumnsOf(profile, c) # {} /\ \A col \in ColumnsOf(profile, c) : Hidden(s, p, c, col)
  <2>1. c \notin S BY <1>4, <1>6
  <2> QED BY <1>1, <2>1
<1> QED BY <1>2, <1>4, <1>5, <1>6

LEMMA ShownForTells ==
    ASSUME NEW s, NEW p, NEW profile, IsProfile(profile)
    PROVE  /\ IsSeq(ShownFor(s, p, profile))
           /\ \A c \in ToSet(CommandsFor(s, p, profile)) : \A col \in ColumnsOf(profile, c) :
                 ~Hidden(s, p, c, col) => Alias(s, col) \in ToSet(ShownFor(s, p, profile))
<1>1. PICK cmds : cmds = CommandsFor(s, p, profile) OBVIOUS
<1>2. IsSeq(cmds) BY <1>1, CommandsTell
<1>3. PICK n \in Nat : DOMAIN cmds = 1 .. n /\ \A x : x \in ToSet(cmds) <=> \E k \in 1 .. n : x = cmds[k] BY <1>2, SeqHas
<1>4. PICK t : t = [k \in DOMAIN cmds |-> Shown(s, p, profile, cmds[k])] OBVIOUS
<1>5. t = [k \in 1 .. n |-> t[k]] /\ \A k \in 1 .. n : t[k] = Shown(s, p, profile, cmds[k]) BY <1>3, <1>4
<1>6. IsSeq(t) /\ DOMAIN t = 1 .. n BY <1>5, IsSequence
<1>7. \A k \in DOMAIN t : IsSeq(t[k]) BY <1>5, <1>6, ShownTells
<1>8. IsSeq(FlattenSeq(t)) /\ \A x : x \in ToSet(FlattenSeq(t)) <=> \E i \in DOMAIN t : x \in ToSet(t[i])
  BY <1>6, <1>7, FlattenTells
<1>9. ShownFor(s, p, profile) = FlattenSeq(t) BY <1>1, <1>4 DEF ShownFor
<1>10. ASSUME NEW c \in ToSet(cmds), NEW col \in ColumnsOf(profile, c), ~Hidden(s, p, c, col)
       PROVE  Alias(s, col) \in ToSet(FlattenSeq(t))
  <2>1. PICK k \in 1 .. n : c = cmds[k] BY <1>3
  <2>2. t[k] = Shown(s, p, profile, c) BY <1>5, <2>1
  <2>3. Alias(s, col) \in ToSet(t[k]) BY <1>10, <2>2, ShownTells
  <2> QED BY <1>6, <1>8, <2>3
<1> QED BY <1>1, <1>8, <1>9, <1>10

LEMMA AvailableTells ==
    ASSUME NEW s, NEW rules, IsFile(rules), NEW devices, IsInventory(devices)
    PROVE  /\ IsSeq(Available(s, rules, devices))
           /\ \A i \in DOMAIN devices :
                 ToSet(ShownFor(s, devices[i].pair, Resolved(rules, devices[i]))) \subseteq ToSet(Available(s, rules, devices))
<1>1. IsSeq(devices) /\ \A i \in DOMAIN devices : devices[i].pair \in Pairs /\ devices[i].model \in BOOLEAN
  BY DEF IsInventory, ToSet
<1>2. PICK n \in Nat : DOMAIN devices = 1 .. n BY <1>1, SeqHas
<1>3. PICK t : t = [i \in DOMAIN devices |-> ShownFor(s, devices[i].pair, Resolved(rules, devices[i]))] OBVIOUS
<1>4. t = [i \in 1 .. n |-> t[i]] /\ \A i \in 1 .. n : t[i] = ShownFor(s, devices[i].pair, Resolved(rules, devices[i]))
  BY <1>2, <1>3
<1>5. IsSeq(t) /\ DOMAIN t = 1 .. n BY <1>4, IsSequence
<1>6. ASSUME NEW i \in DOMAIN t PROVE IsSeq(t[i])
  <2>1. PICK d : d = devices[i] OBVIOUS
  <2>2. IsProfile(Resolved(rules, d)) BY <1>1, <1>2, <1>5, <2>1, ResolvedIs
  <2>3. t[i] = ShownFor(s, d.pair, Resolved(rules, d)) BY <1>4, <1>5, <2>1
  <2> QED BY <2>2, <2>3, ShownForTells
<1>7. IsSeq(FlattenSeq(t)) /\ \A x : x \in ToSet(FlattenSeq(t)) <=> \E i \in DOMAIN t : x \in ToSet(t[i])
  BY <1>5, <1>6, FlattenTells
<1>8. Available(s, rules, devices) = Once(FlattenSeq(t)) BY <1>3 DEF Available
<1>9. IsSeq(Once(FlattenSeq(t))) /\ \A x : x \in ToSet(Once(FlattenSeq(t))) <=> x \in ToSet(FlattenSeq(t))
  BY <1>7, OnceTells
<1>10. \A i \in 1 .. n : ToSet(t[i]) \subseteq ToSet(Once(FlattenSeq(t))) BY <1>5, <1>7, <1>9
<1> QED BY <1>2, <1>4, <1>8, <1>9, <1>10

\* The columns in their order, each once; those the user ordered are in his.
LEMMA OrderTells ==
    ASSUME NEW s, IsSetup(s), NEW rules, IsFile(rules), NEW devices, IsInventory(devices)
    PROVE  LET order == OrderOf(s, rules, devices) IN
           /\ IsSeq(order) /\ Single(order)
           /\ \A x : x \in ToSet(order) <=> x \in ToSet(Available(s, rules, devices))
           /\ \A a \in ToSet(order) : \A b : Before(Aliased(s, s.order), a, b) => Before(order, a, b)
<1>1. PICK there : there = Available(s, rules, devices) OBVIOUS
<1>2. IsSeq(there) BY <1>1, AvailableTells
<1>3. IsSeq(devices) /\ \A i \in DOMAIN devices : devices[i].pair \in Pairs BY DEF IsInventory, ToSet
<1>4. PICK n \in Nat : DOMAIN devices = 1 .. n BY <1>3, SeqHas
<1>5. PICK pairs : pairs = [i \in DOMAIN devices |-> devices[i].pair] OBVIOUS
<1>6. pairs = [i \in 1 .. n |-> pairs[i]] /\ \A i \in 1 .. n : pairs[i] \in Pairs BY <1>3, <1>4, <1>5
<1>7. IsSeq(pairs) /\ DOMAIN pairs = 1 .. n BY <1>6, IsSequence
<1>8. PICK profiles : profiles = Once(pairs) OBVIOUS
<1>9. IsSeq(profiles) /\ \A x : x \in ToSet(profiles) <=> x \in ToSet(pairs) BY <1>7, <1>8, OnceTells
<1>10. \A i \in DOMAIN profiles : profiles[i] \in Pairs
  <2>1. \A i \in DOMAIN profiles : profiles[i] \in ToSet(profiles) BY DEF ToSet
  <2>2. \A x \in ToSet(pairs) : x \in Pairs BY <1>6, <1>7 DEF ToSet
  <2> QED BY <1>9, <2>1, <2>2
<1>11. PICK t : t = [i \in DOMAIN profiles |-> s.orders[profiles[i]]] OBVIOUS
<1>12. IsSeq(t) /\ \A i \in DOMAIN t : IsSeq(t[i])
  <2>1. PICK m \in Nat : DOMAIN profiles = 1 .. m BY <1>9, SeqHas
  <2>2. t = [i \in 1 .. m |-> t[i]] BY <1>11, <2>1
  <2>3. IsSeq(t) /\ DOMAIN t = 1 .. m BY <2>1, <2>2, IsSequence
  <2>4. \A i \in 1 .. m : t[i] = s.orders[profiles[i]] BY <1>11, <2>1
  <2>5. \A i \in 1 .. m : IsSeq(s.orders[profiles[i]]) BY <1>10, <2>1 DEF IsSetup
  <2> QED BY <2>3, <2>4, <2>5
<1>13. IsSeq(FlattenSeq(t)) BY <1>12, FlattenTells
<1>14. IsSeq(s.order) BY DEF IsSetup
<1>15. PICK wanted : wanted = s.order \o FlattenSeq(t) OBVIOUS
<1>16. IsSeq(wanted) /\ \A i \in DOMAIN s.order : i \in DOMAIN wanted /\ wanted[i] = s.order[i]
  BY <1>13, <1>14, <1>15, Joined
<1>17. PICK named : named = Aliased(s, wanted) OBVIOUS
<1>18. named = [i \in DOMAIN wanted |-> Alias(s, wanted[i])] BY <1>17 DEF Aliased
<1>19. IsSeq(named)
  <2>1. PICK m \in Nat : DOMAIN wanted = 1 .. m BY <1>16, SeqHas
  <2>2. named = [i \in 1 .. m |-> named[i]] BY <1>18, <2>1
  <2> QED BY <2>1, <2>2, IsSequence
<1>20. ASSUME NEW a, NEW b, Before(Aliased(s, s.order), a, b) PROVE Before(named, a, b)
  <2>1. PICK his : his = Aliased(s, s.order) OBVIOUS
  <2>2. his = [i \in DOMAIN s.order |-> Alias(s, s.order[i])] BY <2>1 DEF Aliased
  <2>3. PICK m \in Nat : DOMAIN s.order = 1 .. m BY <1>14, SeqHas
  <2>4. \A i \in 1 .. m : his[i] = named[i] /\ i \in DOMAIN named BY <1>16, <1>18, <2>2, <2>3
  <2>5. PICK i \in 1 .. m : his[i] = a /\ \A j \in 1 .. i : his[j] # b BY <1>20, <2>1, <2>2, <2>3 DEF Before
  <2>6. \A j \in 1 .. i : j \in 1 .. m OBVIOUS
  <2>7. i \in DOMAIN named /\ named[i] = a /\ \A j \in 1 .. i : named[j] # b BY <2>4, <2>5, <2>6
  <2> QED BY <2>7 DEF Before
<1>21. PICK o : o = Only(named, ToSet(there)) OBVIOUS
<1>22. IsSeq(o) /\ \A x : x \in ToSet(o) <=> x \in ToSet(named) /\ x \in ToSet(there) BY <1>19, <1>21, OnlyTells
<1>23. PICK z : z = o \o there OBVIOUS
<1>24. /\ IsSeq(z) /\ \A x : x \in ToSet(z) <=> x \in ToSet(o) \/ x \in ToSet(there)
       /\ \A a, b : Before(o, a, b) => Before(z, a, b)
  BY <1>2, <1>22, <1>23, Joined
<1>25. OrderOf(s, rules, devices) = Once(z)
  BY <1>1, <1>5, <1>8, <1>11, <1>15, <1>17, <1>21, <1>23 DEF OrderOf
<1>26. /\ IsSeq(Once(z)) /\ Single(Once(z))
       /\ \A x : x \in ToSet(Once(z)) <=> x \in ToSet(z)
       /\ \A a, b : Before(z, a, b) => Before(Once(z), a, b)
  BY <1>24, OnceTells
<1>27. \A x : x \in ToSet(Once(z)) <=> x \in ToSet(there) BY <1>22, <1>24, <1>26
<1>28. ASSUME NEW a \in ToSet(Once(z)), NEW b, Before(Aliased(s, s.order), a, b) PROVE Before(Once(z), a, b)
  <2>1. a \in ToSet(there) BY <1>27
  <2>2. Before(named, a, b) BY <1>20, <1>28
  <2>3. Before(o, a, b) BY <1>19, <1>21, <2>1, <2>2, OnlyBefore
  <2> QED BY <1>24, <1>26, <2>3
<1> QED BY <1>1, <1>25, <1>26, <1>27, <1>28

----------------------------------------------------------------------------
(* Profiles: the run.                                                       *)

\* What the i-th device was sent and what it filled.
DeviceOK(s, w, i) ==
    LET d == w.all[i]
        profile == Resolved(w.rules, d) IN
    /\ w.sent[i] = CommandsFor(s, d.pair, profile)
    /\ \A col \in w.rows[i] : \E c \in ToSet(w.sent[i]) :
          \E k \in ColumnsOf(profile, c) \cup ByCode(profile) : Alias(s, k) = col /\ ~Hidden(s, d.pair, c, k)

WorkFields == {"st", "rules", "all", "todo", "sent", "rows", "order", "sheet"}
WorkOK(s, w) ==
    /\ w.st \in {"run", "done"} /\ DOMAIN w = WorkFields
    /\ IsFile(w.rules) /\ IsInventory(w.all) /\ IsSeq(w.todo) /\ IsSeq(w.sent)
    /\ Len(w.sent) + Len(w.todo) = Len(w.all)
    /\ \A j \in 1 .. Len(w.todo) : w.todo[j] = w.all[Len(w.sent) + j]
    /\ DOMAIN w.rows = 1 .. Len(w.all)
    /\ w.order = OrderOf(s, w.rules, w.all)
    /\ \A i \in 1 .. Len(w.sent) : DeviceOK(s, w, i)
    /\ w.st = "done" => w.sheet = Sheet(w.rows, w.order)

\* A run goes by the profiles it began with: nothing loads others before it ends.
RulesInv ==
    /\ IsFile(rulesFile) /\ IsFile(loaded) /\ IsSetup(setup)
    /\ work = NoWork \/ WorkOK(setup, work)
    /\ work.st = "run" => loaded = work.rules

\* A sequence and what comes after it.
LEMMA Appended ==
    ASSUME NEW s, IsSeq(s), NEW x
    PROVE  /\ IsSeq(Append(s, x)) /\ Len(Append(s, x)) = Len(s) + 1
           /\ \A i \in 1 .. Len(s) : Append(s, x)[i] = s[i]
           /\ Append(s, x)[Len(s) + 1] = x
<1>1. PICK n \in Nat : n = Len(s) BY SeqHas
<1>2. PICK X : X = ToSet(s) \cup {x} OBVIOUS
<1>3. s \in Seq(X)
  <2>1. PICK S : S = ToSet(s) OBVIOUS
  <2>2. s \in Seq(S) /\ S \subseteq X BY <1>2, <2>1 DEF IsSeq
  <2> QED BY <2>2
<1>4. PICK u : u = Append(s, x) OBVIOUS
<1>5. u \in Seq(X) /\ Len(u) = n + 1 /\ (\A i \in 1 .. n : u[i] = s[i]) /\ u[n + 1] = x
  BY <1>1, <1>2, <1>3, <1>4, AppendProperties
<1>6. u = [i \in 1 .. n + 1 |-> u[i]] BY <1>5, LenProperties
<1>7. IsSeq(u) BY <1>6, IsSequence
<1> QED BY <1>1, <1>4, <1>5, <1>7

LEMMA TailIs ==
    ASSUME NEW s, IsSeq(s), s # <<>>
    PROVE  /\ Len(s) \in Nat \ {0} /\ Head(s) = s[1]
           /\ IsSeq(Tail(s)) /\ Len(Tail(s)) = Len(s) - 1
           /\ \A i \in 1 .. Len(s) - 1 : Tail(s)[i] = s[i + 1]
<1>1. PICK n \in Nat : n = Len(s) BY SeqHas
<1>2. PICK X : X = ToSet(s) OBVIOUS
<1>3. s \in Seq(X) BY <1>2 DEF IsSeq
<1>4. n # 0 BY <1>1, <1>3, EmptySeq
<1>5. PICK u : u = Tail(s) OBVIOUS
<1>6. u \in Seq(X) /\ Len(u) = n - 1 /\ \A i \in 1 .. n - 1 : u[i] = s[i + 1]
  BY <1>1, <1>3, <1>5, HeadTailProperties
<1>7. n - 1 \in Nat /\ u = [i \in 1 .. n - 1 |-> u[i]] BY <1>4, <1>6, LenProperties
<1>8. IsSeq(u) BY <1>7, IsSequence
<1> QED BY <1>1, <1>3, <1>4, <1>5, <1>6, <1>8

LEMMA BeginKeeps ==
    ASSUME RulesInv, NEW devices \in Inventories, BeginWork(devices) PROVE RulesInv'
<1>1. PICK w : w = work' OBVIOUS
<1>2. w = [st |-> "run", rules |-> rulesFile, all |-> devices, todo |-> devices, sent |-> <<>>,
           rows |-> [i \in DOMAIN devices |-> {}], order |-> OrderOf(setup, rulesFile, devices), sheet |-> NoSheet]
  BY <1>1 DEF BeginWork
<1>3. IsInventory(devices) BY RulesAssumption
<1>4. IsSeq(devices) /\ Len(devices) \in Nat /\ DOMAIN devices = 1 .. Len(devices) BY <1>3, SeqHas DEF IsInventory
<1>5. IsSeq(<<>>) BY DEF IsSeq
<1>6. /\ w.st = "run" /\ DOMAIN w = WorkFields /\ w.rules = rulesFile /\ w.all = devices /\ w.todo = devices
      /\ w.sent = <<>> /\ w.order = OrderOf(setup, rulesFile, devices)
  BY <1>2 DEF WorkFields
<1>7. DOMAIN w.rows = DOMAIN devices
  <2>1. w.rows = [i \in DOMAIN devices |-> {}] BY <1>2
  <2> QED BY <2>1
<1>8. Len(w.sent) = 0 BY <1>6
<1>9. \A j \in 1 .. Len(devices) : 0 + j = j BY <1>4
<1>10. WorkOK(setup, w)
  <2>1. IsFile(w.rules) BY <1>6 DEF RulesInv
  <2>2. Len(w.sent) + Len(w.todo) = Len(w.all) BY <1>4, <1>6, <1>8
  <2>3. \A j \in 1 .. Len(w.todo) : w.todo[j] = w.all[Len(w.sent) + j] BY <1>6, <1>8, <1>9
  <2>4. \A i \in 1 .. Len(w.sent) : FALSE BY <1>8
  <2> QED BY <1>3, <1>4, <1>5, <1>6, <1>7, <2>1, <2>2, <2>3, <2>4 DEF WorkOK
<1>11. rulesFile' = rulesFile /\ loaded' = rulesFile /\ setup' = setup BY DEF BeginWork
<1>12. WorkOK(setup', work') BY <1>1, <1>10, <1>11
<1>13. work'.st = "run" /\ work'.rules = loaded' BY <1>1, <1>6, <1>11
<1> QED BY <1>11, <1>12, <1>13 DEF RulesInv

LEMMA WorkOnDeviceKeeps ==
    ASSUME RulesInv, WorkOnDevice PROVE RulesInv'
<1>1. work.st = "run" /\ work # NoWork BY DEF WorkOnDevice, NoWork
<1>2. WorkOK(setup, work) /\ loaded = work.rules BY <1>1 DEF RulesInv
<1>3. PICK w : w = work OBVIOUS
<1>4. PICK v : v = work' OBVIOUS
<1>5. PICK d : d = Head(w.todo) OBVIOUS
<1>6. PICK profile : profile = Resolved(w.rules, d) OBVIOUS
<1>7. PICK cmds : cmds = CommandsFor(setup, d.pair, profile) OBVIOUS
<1>8. PICK hits : v = [w EXCEPT !.todo = Tail(@), !.sent = Append(@, cmds),
                                !.rows[Len(w.sent) + 1] = Filled(setup, d.pair, profile, cmds, hits)]
  BY <1>2, <1>3, <1>4, <1>5, <1>6, <1>7 DEF WorkOnDevice
<1>9. PICK fills : fills = Filled(setup, d.pair, profile, cmds, hits) OBVIOUS
<1>10. PICK n \in Nat : n = Len(w.sent) BY <1>2, <1>3, SeqHas DEF WorkOK
<1>11. /\ DOMAIN v = WorkFields
       /\ v.st = w.st /\ v.rules = w.rules /\ v.all = w.all /\ v.order = w.order
       /\ v.todo = Tail(w.todo) /\ v.sent = Append(w.sent, cmds)
       /\ v.rows = [w.rows EXCEPT ![n + 1] = fills]
  <2>1. DOMAIN w = WorkFields BY <1>2, <1>3 DEF WorkOK
  <2> QED BY <1>8, <1>9, <1>10, <2>1 DEF WorkFields
<1>12. /\ IsFile(w.rules) /\ IsInventory(w.all) /\ IsSeq(w.todo) /\ IsSeq(w.sent)
       /\ n + Len(w.todo) = Len(w.all)
       /\ \A j \in 1 .. Len(w.todo) : w.todo[j] = w.all[n + j]
       /\ DOMAIN w.rows = 1 .. Len(w.all)
       /\ w.order = OrderOf(setup, w.rules, w.all)
       /\ \A i \in 1 .. n : DeviceOK(setup, w, i)
  BY <1>2, <1>3, <1>10 DEF WorkOK
<1>13. PICK m \in Nat : m = Len(w.todo) BY <1>12, SeqHas
<1>14. n \in Nat BY <1>10, <1>12, SeqHas
<1>15. /\ m # 0 /\ d = w.todo[1] /\ IsSeq(v.todo) /\ Len(v.todo) = m - 1
       /\ \A i \in 1 .. m - 1 : v.todo[i] = w.todo[i + 1]
  <2>1. w.todo # <<>> BY <1>3 DEF WorkOnDevice
  <2> QED BY <1>5, <1>11, <1>12, <1>13, <2>1, TailIs
<1>16. /\ IsSeq(v.sent) /\ Len(v.sent) = n + 1 /\ v.sent[n + 1] = cmds
       /\ \A i \in 1 .. n : v.sent[i] = w.sent[i]
  BY <1>10, <1>11, <1>12, Appended
<1>17. Len(w.all) = n + m /\ n + 1 \in 1 .. n + m /\ 1 \in 1 .. m
  <2>1. Len(w.all) = n + m BY <1>12, <1>13
  <2>2. m # 0 BY <1>15
  <2>3. n + 1 \in 1 .. n + m /\ 1 \in 1 .. m BY <1>13, <1>14, <2>2
  <2> QED BY <2>1, <2>3
<1>18. d = w.all[n + 1] BY <1>12, <1>13, <1>15, <1>17
<1>19. Len(v.sent) + Len(v.todo) = Len(v.all)
  <2>1. (n + 1) + (m - 1) = n + m
    <3>1. n \in Nat /\ m \in Nat BY <1>13, <1>14
    <3> QED BY <3>1
  <2>2. Len(v.sent) = n + 1 /\ Len(v.todo) = m - 1 /\ Len(v.all) = n + m BY <1>11, <1>15, <1>16, <1>17
  <2> QED BY <2>1, <2>2
<1>20. ASSUME NEW j \in 1 .. m - 1 PROVE v.todo[j] = v.all[(n + 1) + j]
  <2>1. j + 1 \in 1 .. m /\ n + (j + 1) = (n + 1) + j BY <1>13, <1>14
  <2>2. v.todo[j] = w.todo[j + 1] BY <1>15
  <2>3. w.todo[j + 1] = w.all[n + (j + 1)] BY <1>12, <1>13, <2>1
  <2> QED BY <1>11, <2>1, <2>2, <2>3
<1>21. DOMAIN v.rows = 1 .. Len(v.all) BY <1>11, <1>12
<1>22. v.rows[n + 1] = fills BY <1>11, <1>12, <1>17
<1>23. ASSUME NEW i \in 1 .. n + 1 PROVE DeviceOK(setup, v, i)
  <2>1. CASE i = n + 1
    <3>1. v.all[i] = d /\ v.rules = w.rules /\ v.sent[i] = cmds /\ v.rows[i] = fills BY <1>11, <1>16, <1>18, <1>22, <2>1
    <3>2. d.pair \in Pairs /\ d.model \in BOOLEAN
      <4>1. IsSeq(w.all) /\ \A x \in ToSet(w.all) : x.pair \in Pairs /\ x.model \in BOOLEAN BY <1>12 DEF IsInventory
      <4>2. d \in ToSet(w.all) BY <1>17, <1>18, <4>1, SeqHas
      <4> QED BY <4>1, <4>2
    <3>3. IsProfile(profile) BY <1>6, <1>12, <3>2, ResolvedIs
    <3>4. \A col \in fills : \E c \in ToSet(cmds) :
             \E k \in ColumnsOf(profile, c) \cup ByCode(profile) : Alias(setup, k) = col /\ ~Hidden(setup, d.pair, c, k)
      BY <1>9, <3>3, FilledTells
    <3> QED BY <1>6, <1>7, <3>1, <3>4 DEF DeviceOK
  <2>2. CASE i # n + 1
    <3>1. i \in 1 .. n BY <1>14, <2>2
    <3>2. DeviceOK(setup, w, i) BY <1>12, <3>1
    <3>3. v.all[i] = w.all[i] /\ v.rules = w.rules /\ v.sent[i] = w.sent[i] BY <1>11, <1>16, <3>1
    <3>4. i \in 1 .. Len(w.all) BY <1>13, <1>14, <1>17, <3>1
    <3>5. v.rows[i] = w.rows[i] BY <1>11, <1>12, <2>2, <3>4
    <3> QED BY <3>2, <3>3, <3>5 DEF DeviceOK
  <2> QED BY <2>1, <2>2
<1>24. v.st = "run" BY <1>1, <1>3, <1>11
<1>25. WorkOK(setup, v) BY <1>11, <1>12, <1>15, <1>16, <1>19, <1>20, <1>21, <1>23, <1>24 DEF WorkOK
<1>26. UNCHANGED <<rulesFile, loaded, setup>> BY DEF WorkOnDevice
<1>27. WorkOK(setup', work') BY <1>4, <1>25, <1>26
<1>28. loaded' = work'.rules BY <1>2, <1>3, <1>4, <1>11, <1>26
<1> QED BY <1>26, <1>27, <1>28 DEF RulesInv

LEMMA EndWorkKeeps ==
    ASSUME RulesInv, EndWork PROVE RulesInv'
<1>1. work.st = "run" /\ work # NoWork BY DEF EndWork, NoWork
<1>2. WorkOK(setup, work) /\ loaded = work.rules BY <1>1 DEF RulesInv
<1>3. PICK w : w = work OBVIOUS
<1>4. PICK v : v = work' OBVIOUS
<1>5. v = [w EXCEPT !.st = "done", !.sheet = Sheet(w.rows, w.order)] BY <1>3, <1>4 DEF EndWork
<1>6. /\ DOMAIN v = WorkFields
      /\ v.st = "done" /\ v.rules = w.rules /\ v.all = w.all /\ v.order = w.order /\ v.todo = w.todo
      /\ v.sent = w.sent /\ v.rows = w.rows /\ v.sheet = Sheet(w.rows, w.order)
  <2>1. DOMAIN w = WorkFields BY <1>2, <1>3 DEF WorkOK
  <2> QED BY <1>5, <2>1 DEF WorkFields
<1>7. ASSUME NEW i \in 1 .. Len(w.sent) PROVE DeviceOK(setup, v, i)
  <2>1. DeviceOK(setup, w, i) BY <1>2, <1>3 DEF WorkOK
  <2> QED BY <1>6, <2>1 DEF DeviceOK
<1>8. WorkOK(setup, v) BY <1>2, <1>3, <1>6, <1>7 DEF WorkOK
<1>9. UNCHANGED <<rulesFile, loaded, setup>> BY DEF EndWork
<1>10. WorkOK(setup', work') BY <1>4, <1>8, <1>9
<1>11. work'.st # "run" BY <1>4, <1>6
<1> QED BY <1>9, <1>10, <1>11 DEF RulesInv

\* What is saved into a file leaves it one.
LEMMA MergedIs ==
    ASSUME NEW f, IsFile(f), f.ok, NEW p \in Pairs, NEW isModel \in BOOLEAN, NEW doc, IsProfile(doc)
    PROVE  LET g == Merged(f, p, isModel, doc) IN
           /\ IsFile(g) /\ g.ok
           /\ \A q \in Pairs : g.base[q] = IF ~isModel /\ q = p THEN doc ELSE f.base[q]
           /\ \A q \in Pairs : g.model[q] = IF isModel /\ q = p THEN doc ELSE f.model[q]
<1>1. f # Unreadable BY DEF Unreadable
<1>2. /\ f = [ok |-> TRUE, base |-> f.base, model |-> f.model]
      /\ f.base = [q \in Pairs |-> f.base[q]] /\ f.model = [q \in Pairs |-> f.model[q]]
      /\ \A q \in Pairs : f.base[q] = NoProfile \/ IsProfile(f.base[q])
      /\ \A q \in Pairs : f.model[q] = NoProfile \/ IsProfile(f.model[q])
  BY <1>1 DEF IsFile, Readable
<1>3. PICK g : g = Merged(f, p, isModel, doc) OBVIOUS
<1>4. PICK base : base = f.base OBVIOUS
<1>5. PICK model : model = f.model OBVIOUS
<1>6. PICK b : b = [q \in Pairs |-> IF ~isModel /\ q = p THEN doc ELSE base[q]] OBVIOUS
<1>7. PICK m : m = [q \in Pairs |-> IF isModel /\ q = p THEN doc ELSE model[q]] OBVIOUS
<1>8. g = [ok |-> TRUE, base |-> b, model |-> m]
  <2>1. CASE isModel
    <3>1. b = base
      <4>1. base = [q \in Pairs |-> base[q]] BY <1>2, <1>4
      <4> QED BY <1>6, <2>1, <4>1
    <3>2. [model EXCEPT ![p] = doc] = m
      <4>1. model = [q \in Pairs |-> model[q]] BY <1>2, <1>5
      <4> QED BY <1>7, <2>1, <4>1
    <3>3. g = [f EXCEPT !.model = [model EXCEPT ![p] = doc]] BY <1>2, <1>3, <1>5, <2>1 DEF Merged
    <3> QED BY <1>2, <1>4, <3>1, <3>2, <3>3
  <2>2. CASE ~isModel
    <3>1. m = model
      <4>1. model = [q \in Pairs |-> model[q]] BY <1>2, <1>5
      <4> QED BY <1>7, <2>2, <4>1
    <3>2. [base EXCEPT ![p] = doc] = b
      <4>1. base = [q \in Pairs |-> base[q]] BY <1>2, <1>4
      <4> QED BY <1>6, <2>2, <4>1
    <3>3. g = [f EXCEPT !.base = [base EXCEPT ![p] = doc]] BY <1>2, <1>3, <1>4, <2>2 DEF Merged
    <3> QED BY <1>2, <1>5, <3>1, <3>2, <3>3
  <2> QED BY <2>1, <2>2
<1>9. g.base = b /\ g.model = m /\ g.ok = TRUE BY <1>8
<1>10. \A q \in Pairs : (b[q] = NoProfile \/ IsProfile(b[q])) /\ (m[q] = NoProfile \/ IsProfile(m[q]))
  BY <1>2, <1>4, <1>5, <1>6, <1>7
<1>11. b = [q \in Pairs |-> b[q]] /\ m = [q \in Pairs |-> m[q]] BY <1>6, <1>7
<1>12. IsFile(g) BY <1>8, <1>9, <1>10, <1>11 DEF IsFile, Readable
<1>13. \A q \in Pairs : g.base[q] = IF ~isModel /\ q = p THEN doc ELSE f.base[q] BY <1>4, <1>6, <1>9
<1>14. \A q \in Pairs : g.model[q] = IF isModel /\ q = p THEN doc ELSE f.model[q] BY <1>5, <1>7, <1>9
<1> QED BY <1>3, <1>9, <1>12, <1>13, <1>14

LEMMA SaveProfileKeeps ==
    ASSUME RulesInv, NEW p \in Pairs, NEW isModel \in BOOLEAN, NEW doc \in BaseDocs \cup ModelDocs,
           SaveProfile(p, isModel, doc)
    PROVE  RulesInv'
<1>1. IsProfile(doc) BY RulesAssumption
<1>2. IsFile(rulesFile') BY <1>1, MergedIs DEF RulesInv, SaveProfile
<1>3. loaded' = rulesFile' /\ setup' = setup /\ work' = work /\ work.st # "run" BY DEF SaveProfile, NoRun
<1> QED BY <1>2, <1>3 DEF RulesInv

\* The run begins before anything was loaded or done (settings.py, vendors/__init__.py).
LEMMA RulesStart == RulesInit => RulesInv
<1> SUFFICES ASSUME RulesInit PROVE RulesInv OBVIOUS
<1>1. IsFile(NoRules)
  <2>1. PICK none : none = [p \in Pairs |-> NoProfile] OBVIOUS
  <2>2. PICK f : f = NoRules OBVIOUS
  <2>3. f = [ok |-> TRUE, base |-> none, model |-> none] BY <2>1, <2>2 DEF NoRules, Readable
  <2>4. f.base = none /\ f.model = none BY <2>3
  <2>5. none = [p \in Pairs |-> none[p]] /\ \A p \in Pairs : none[p] = NoProfile BY <2>1
  <2>6. IsFile(f) BY <2>3, <2>4, <2>5 DEF IsFile, Readable
  <2> QED BY <2>2, <2>6
<1>2. IsFile(rulesFile) BY <1>1, RulesAssumption DEF RulesInit
<1>3. loaded = rulesFile /\ work = NoWork /\ setup \in Setups BY DEF RulesInit
<1>4. IsSetup(setup) BY <1>3, RulesAssumption
<1>5. work.st # "run" BY <1>3 DEF NoWork
<1> QED BY <1>2, <1>3, <1>4, <1>5 DEF RulesInv

LEMMA RulesStep == RulesInv /\ [RulesNext]_ruleVars => RulesInv'
<1> SUFFICES ASSUME RulesInv, [RulesNext]_ruleVars PROVE RulesInv' OBVIOUS
<1>1. CASE \E p \in Pairs, doc \in BaseDocs : SaveProfile(p, FALSE, doc) BY <1>1, SaveProfileKeeps
<1>2. CASE \E p \in Pairs, doc \in ModelDocs : SaveProfile(p, TRUE, doc) BY <1>2, SaveProfileKeeps
<1>3. CASE WriteOutside
  <2>1. rulesFile' \in Written /\ UNCHANGED <<loaded, setup, work>> BY <1>3 DEF WriteOutside
  <2>2. IsFile(rulesFile') BY <2>1, RulesAssumption
  <2> QED BY <2>1, <2>2 DEF RulesInv
<1>4. CASE Reload \/ GenerateFiles
  <2>1. loaded' = rulesFile /\ work.st # "run" /\ UNCHANGED <<rulesFile, setup, work>>
    BY <1>4 DEF Reload, GenerateFiles, NoRun
  <2> QED BY <2>1 DEF RulesInv
<1>5. CASE \E devices \in Inventories : BeginWork(devices) BY <1>5, BeginKeeps
<1>6. CASE WorkOnDevice BY <1>6, WorkOnDeviceKeeps
<1>7. CASE EndWork BY <1>7, EndWorkKeeps
<1>8. CASE PutAway
  <2>1. work' = NoWork /\ UNCHANGED <<rulesFile, loaded, setup>> BY <1>8 DEF PutAway
  <2>2. work'.st # "run" BY <2>1 DEF NoWork
  <2> QED BY <2>1, <2>2 DEF RulesInv
<1>9. CASE UNCHANGED ruleVars BY <1>9 DEF RulesInv, ruleVars
<1> QED BY <1>1, <1>2, <1>3, <1>4, <1>5, <1>6, <1>7, <1>8, <1>9 DEF RulesNext

----------------------------------------------------------------------------
(* Profiles: what the run and the sheet owe them.                           *)

LEMMA RunFollows == RulesInv => RunFollowsTheProfiles
<1> SUFFICES ASSUME RulesInv, work.st # "idle", NEW i \in DOMAIN work.sent
             PROVE  LET d == work.all[i]
                        profile == Resolved(work.rules, d)
                        items == UNION {ToSet(profile.rules[c]) : c \in DOMAIN profile.rules}
                        code == UNION {item.more : item \in {k \in items : k.kind = "code"}}
                        spared == ToSet(profile.cmds) \ ToSet(work.sent[i]) IN
                    /\ work.sent[i] = Only(profile.cmds, ToSet(work.sent[i]))
                    /\ \A c \in spared :
                          \/ c \in LeftOut(setup, d.pair).cmds
                          \/ ColumnsOf(profile, c) # {} /\ \A col \in ColumnsOf(profile, c) : Hidden(setup, d.pair, c, col)
                    /\ work.rows[i] \subseteq ToSet(work.order) \cup {Alias(setup, col) : col \in code}
                    /\ \A col \in work.rows[i] : \E c \in ToSet(work.sent[i]) :
                          \E k \in ColumnsOf(profile, c) \cup code : Alias(setup, k) = col /\ ~Hidden(setup, d.pair, c, k)
  BY DEF RunFollowsTheProfiles
<1>1. WorkOK(setup, work) BY DEF RulesInv, NoWork
<1>2. PICK d : d = work.all[i] OBVIOUS
<1>3. PICK profile : profile = Resolved(work.rules, d) OBVIOUS
<1>4. PICK code : code = ByCode(profile) OBVIOUS
<1>5. PICK told : told = work.sent[i] OBVIOUS
<1>6. /\ IsFile(work.rules) /\ IsInventory(work.all) /\ IsSeq(work.sent) /\ IsSeq(work.todo)
      /\ Len(work.sent) + Len(work.todo) = Len(work.all)
      /\ work.order = OrderOf(setup, work.rules, work.all)
      /\ \A j \in 1 .. Len(work.sent) : DeviceOK(setup, work, j)
  BY <1>1 DEF WorkOK
<1>7. PICK n \in Nat, m \in Nat : n = Len(work.sent) /\ m = Len(work.todo) BY <1>6, SeqHas
<1>8. i \in 1 .. n /\ i \in 1 .. n + m
  <2>1. i \in 1 .. n BY <1>6, <1>7, SeqHas
  <2>2. n \in Nat /\ m \in Nat BY <1>7
  <2>3. i \in 1 .. n + m BY <2>1, <2>2
  <2> QED BY <2>1, <2>3
<1>9. i \in DOMAIN work.all /\ d.pair \in Pairs /\ d.model \in BOOLEAN
  <2>1. IsSeq(work.all) /\ \A x \in ToSet(work.all) : x.pair \in Pairs /\ x.model \in BOOLEAN BY <1>6 DEF IsInventory
  <2>2. i \in 1 .. Len(work.all) BY <1>6, <1>7, <1>8
  <2>3. i \in DOMAIN work.all /\ d \in ToSet(work.all) BY <1>2, <2>1, <2>2, SeqHas
  <2> QED BY <2>1, <2>3
<1>10. IsProfile(profile) BY <1>3, <1>6, <1>9, ResolvedIs
<1>11. /\ told = CommandsFor(setup, d.pair, profile)
       /\ \A col \in work.rows[i] : \E c \in ToSet(told) :
             \E k \in ColumnsOf(profile, c) \cup code : Alias(setup, k) = col /\ ~Hidden(setup, d.pair, c, k)
  <2>1. DeviceOK(setup, work, i) BY <1>6, <1>7, <1>8
  <2> QED BY <1>2, <1>3, <1>4, <1>5, <2>1 DEF DeviceOK
<1>12. /\ told = Only(profile.cmds, ToSet(told))
       /\ \A c \in ToSet(profile.cmds) \ ToSet(told) :
             \/ c \in LeftOut(setup, d.pair).cmds
             \/ ColumnsOf(profile, c) # {} /\ \A col \in ColumnsOf(profile, c) : Hidden(setup, d.pair, c, col)
  BY <1>10, <1>11, CommandsTell
<1>13. ASSUME NEW col \in work.rows[i] PROVE col \in ToSet(work.order) \cup {Alias(setup, k) : k \in code}
  <2>1. PICK c \in ToSet(told) :
            \E k \in ColumnsOf(profile, c) \cup code : Alias(setup, k) = col /\ ~Hidden(setup, d.pair, c, k)
    BY <1>11
  <2>4. PICK k \in ColumnsOf(profile, c) \cup code : Alias(setup, k) = col /\ ~Hidden(setup, d.pair, c, k)
    BY <2>1
  <2>2. CASE k \in code BY <2>2, <2>4
  <2>3. CASE k \in ColumnsOf(profile, c)
    <3>1. Alias(setup, k) \in ToSet(ShownFor(setup, d.pair, profile)) BY <1>10, <1>11, <2>3, <2>4, ShownForTells
    <3>2. ToSet(ShownFor(setup, d.pair, profile)) \subseteq ToSet(Available(setup, work.rules, work.all))
      BY <1>2, <1>3, <1>6, <1>9, AvailableTells
    <3>3. IsSetup(setup) BY DEF RulesInv
    <3>4. \A x : x \in ToSet(work.order) <=> x \in ToSet(Available(setup, work.rules, work.all))
      BY <1>6, <3>3, OrderTells
    <3> QED BY <2>4, <3>1, <3>2, <3>4
  <2> QED BY <2>2, <2>3, <2>4
<1>14. work.rows[i] \subseteq ToSet(work.order) \cup {Alias(setup, k) : k \in code} BY <1>13
<1>15. code = UNION {item.more : item \in {k \in UNION {ToSet(profile.rules[c]) : c \in DOMAIN profile.rules} : k.kind = "code"}}
  BY <1>4 DEF ByCode
<1>16. told = work.sent[i] /\ profile = Resolved(work.rules, d) /\ d = work.all[i] BY <1>2, <1>3, <1>5
<1> QED BY SMTT(20), <1>11, <1>12, <1>14, <1>15, <1>16

LEMMA SheetTells == RulesInv => SheetIsComplete
<1> SUFFICES ASSUME RulesInv, work.st = "done" PROVE SheetIsComplete BY DEF SheetIsComplete
<1>1. WorkOK(setup, work) BY DEF RulesInv, NoWork
<1>2. PICK order : order = work.order OBVIOUS
<1>3. PICK rows : rows = work.rows OBVIOUS
<1>4. PICK there : there = UNION {rows[i] : i \in DOMAIN rows} OBVIOUS
<1>5. PICK first : first = Only(order, there) OBVIOUS
<1>6. PICK rest : rest = there \ ToSet(order) OBVIOUS
<1>7. work.sheet = [first |-> first, rest |-> rest]
  BY <1>1, <1>2, <1>3, <1>4, <1>5, <1>6 DEF WorkOK, Sheet
<1>8. work.sheet.first = first /\ work.sheet.rest = rest BY <1>7
<1>9. IsSetup(setup) /\ IsFile(work.rules) /\ IsInventory(work.all) /\ order = OrderOf(setup, work.rules, work.all)
  BY <1>1, <1>2 DEF WorkOK, RulesInv
<1>10. PICK his : his = Aliased(setup, setup.order) OBVIOUS
<1>11. /\ IsSeq(order) /\ Single(order)
       /\ \A a \in ToSet(order) : \A b : Before(his, a, b) => Before(order, a, b)
  BY <1>9, <1>10, OrderTells
<1>12. /\ IsSeq(first) /\ Single(first)
       /\ \A x : x \in ToSet(first) <=> x \in ToSet(order) /\ x \in there
  BY <1>5, <1>11, OnlyTells, OnlySingle
<1>13. ToSet(first) \cup rest = there /\ ToSet(first) \cap rest = {} BY <1>6, <1>12
<1>14. Cardinality(ToSet(first)) = Len(first) BY <1>12, SingleCounted
<1>15. ASSUME NEW m \in DOMAIN first, NEW n \in DOMAIN first, Before(his, first[m], first[n]) PROVE m < n
  <2>1. PICK a : a = first[m] OBVIOUS
  <2>2. PICK b : b = first[n] OBVIOUS
  <2>3. a \in ToSet(first) BY <2>1 DEF ToSet
  <2>4. a \in ToSet(order) /\ a \in there BY <1>12, <2>3
  <2>5. Before(order, a, b) BY <1>11, <1>15, <2>1, <2>2, <2>4
  <2>6. Before(first, a, b) BY <1>5, <1>11, <2>4, <2>5, OnlyBefore
  <2> QED BY <1>12, <2>1, <2>2, <2>6, SingleBefore
<1> QED BY <1>3, <1>4, <1>8, <1>10, <1>13, <1>14, <1>15 DEF SheetIsComplete

LEMMA ExamplesStay == ExamplesStayOffered
BY DEF ExamplesStayOffered, Offered

\* What another kind of device gets, and a model that has a profile of its own.
LEMMA OthersKeepTheirs ==
    ASSUME RulesInv, NEW p \in Pairs, NEW isModel \in BOOLEAN, NEW doc \in BaseDocs \cup ModelDocs,
           SaveProfile(p, isModel, doc), NEW d \in DeviceKinds, d # [pair |-> p, model |-> isModel],
           ~(d.pair = p /\ ~isModel /\ ~HasModel(rulesFile, p))
    PROVE  LET was == Resolved(rulesFile, d)  is == Resolved(loaded', d) IN
           /\ was.cmds = is.cmds /\ was.backup = is.backup /\ was.rules = is.rules
           /\ d.pair = p \/ was = is
<1>1. PICK f : f = rulesFile OBVIOUS
<1>2. PICK g : g = loaded' OBVIOUS
<1>3. IsProfile(doc) /\ IsFile(f) /\ f.ok /\ g = Merged(f, p, isModel, doc)
  BY <1>1, <1>2, RulesAssumption DEF SaveProfile, RulesInv
<1>4. /\ IsFile(g) /\ g.ok
      /\ \A q \in Pairs : g.base[q] = IF ~isModel /\ q = p THEN doc ELSE f.base[q]
      /\ \A q \in Pairs : g.model[q] = IF isModel /\ q = p THEN doc ELSE f.model[q]
  BY <1>3, MergedIs
<1>5. d.pair \in Pairs /\ d.model \in BOOLEAN /\ d = [pair |-> d.pair, model |-> d.model] BY DEF DeviceKinds
<1>6. PICK q \in Pairs : q = d.pair BY <1>5
<1>7. ASSUME g.base[q] = f.base[q] PROVE Loaded(g, q) = Loaded(f, q)
  BY <1>3, <1>4, <1>7 DEF Loaded
<1>8. CASE q # p
  <2>1. g.base[q] = f.base[q] /\ g.model[q] = f.model[q] BY <1>4, <1>8
  <2>2. Loaded(g, q) = Loaded(f, q) BY <1>7, <2>1
  <2>3. HasModel(g, q) <=> HasModel(f, q) BY <1>3, <1>4, <2>1 DEF HasModel
  <2>4. Resolved(g, d) = Resolved(f, d) BY <1>6, <2>1, <2>2, <2>3 DEF Resolved
  <2> QED BY <1>1, <1>2, <2>4
<1>9. CASE q = p /\ isModel
  <2>1. ~d.model BY <1>5, <1>6, <1>9
  <2>2. g.base[q] = f.base[q] BY <1>4, <1>9
  <2>3. Resolved(g, d) = Loaded(g, q) /\ Resolved(f, d) = Loaded(f, q) BY <1>6, <2>1 DEF Resolved
  <2>4. Resolved(g, d) = Resolved(f, d) BY <1>7, <2>2, <2>3
  <2> QED BY <1>1, <1>2, <2>4
<1>10. CASE q = p /\ ~isModel
  <2>1. d.model /\ HasModel(f, q) BY <1>1, <1>5, <1>6, <1>10
  <2>2. g.model[q] = f.model[q] BY <1>4, <1>10
  <2>3. HasModel(g, q) BY <1>3, <1>4, <2>1, <2>2 DEF HasModel
  <2>4. PICK own : own = f.model[q] OBVIOUS
  <2>5. LET is == Resolved(f, d) IN is.cmds = own.cmds /\ is.backup = own.backup /\ is.rules = own.rules
    BY <1>3, <1>6, <2>1, <2>4, ResolvedOwn
  <2>6. LET is == Resolved(g, d) IN is.cmds = own.cmds /\ is.backup = own.backup /\ is.rules = own.rules
    BY <1>4, <1>6, <2>1, <2>2, <2>3, <2>4, ResolvedOwn
  <2> QED BY <1>1, <1>2, <1>6, <1>10, <2>5, <2>6
<1> QED BY <1>8, <1>9, <1>10

\* What is saved for a kind of the user, or for a model, is what it then gets.
LEMMA SavedIsGot ==
    ASSUME NEW g, IsFile(g), g.ok, NEW p \in Pairs, NEW isModel \in BOOLEAN, p = "own" \/ isModel,
           NEW doc, IsProfile(doc), doc = IF isModel THEN g.model[p] ELSE g.base[p]
    PROVE  LET is == Resolved(g, [pair |-> p, model |-> isModel]) IN
           is.cmds = doc.cmds /\ is.backup = doc.backup /\ is.rules = doc.rules
<1>1. PICK d : d = [pair |-> p, model |-> isModel] OBVIOUS
<1>2. d.pair = p /\ d.model = isModel BY <1>1
<1>3. doc # NoProfile
  <2>1. "rules" \in DOMAIN doc BY DEF IsProfile
  <2>2. DOMAIN NoProfile = {"cmds"} BY DEF NoProfile
  <2> QED BY <2>1, <2>2
<1>4. CASE isModel
  <2>1. HasModel(g, d.pair) BY <1>2, <1>3, <1>4 DEF HasModel
  <2> QED BY <1>1, <1>2, <1>4, <2>1, ResolvedOwn
<1>5. CASE ~isModel
  <2>1. p = "own" /\ doc = g.base[p] BY <1>5
  <2>2. PICK had : had = BuiltIn(p) OBVIOUS
  <2>3. had.cmds = <<>> /\ had.backup = "" /\ had.rules = <<>> BY <2>1, <2>2 DEF BuiltIn, Nothing
  <2>4. PICK is : is = Loaded(g, p) OBVIOUS
  <2>5. /\ is.cmds = AddedCommands(had.cmds, doc.cmds)
        /\ is.backup = IF doc.backup = "" THEN had.backup ELSE doc.backup
        /\ is.rules = Over(had.rules, doc.rules)
    BY <1>3, <2>1, <2>2, <2>4 DEF Loaded
  <2>6. is.cmds = doc.cmds
    <3>1. IsSeq(doc.cmds) BY DEF IsProfile
    <3>2. ToSet(<<>>) = {} BY DEF ToSet
    <3>3. Only(doc.cmds, ToSet(doc.cmds) \ ToSet(<<>>)) = doc.cmds BY <3>1, <3>2, OnlyAll
    <3>4. <<>> \o doc.cmds = doc.cmds BY <3>1, ConcatEmptySeq DEF IsSeq
    <3> QED BY <2>3, <2>5, <3>3, <3>4 DEF AddedCommands
  <2>7. is.rules = doc.rules
    <3>1. PICK rules : rules = doc.rules OBVIOUS
    <3>2. rules = [c \in DOMAIN rules |-> rules[c]] BY <3>1 DEF IsProfile
    <3>3. DOMAIN <<>> = {} OBVIOUS
    <3>4. Over(<<>>, rules) = [c \in DOMAIN rules |-> rules[c]] BY <3>3 DEF Over
    <3> QED BY <2>3, <2>5, <3>1, <3>2, <3>4
  <2>8. is.backup = doc.backup BY <2>3, <2>5
  <2>9. Resolved(g, d) = is BY <1>2, <1>5, <2>4 DEF Resolved
  <2> QED BY <1>1, <2>6, <2>7, <2>8, <2>9
<1> QED BY <1>4, <1>5

LEMMA SaveTouchesOne == RulesInv /\ [RulesNext]_ruleVars => [saves' # saves => OneProfileSaved]_ruleVars
<1> SUFFICES ASSUME RulesInv, RulesNext, saves' # saves PROVE OneProfileSaved BY DEF ruleVars
<1>1. PICK p \in Pairs, isModel \in BOOLEAN, doc \in BaseDocs \cup ModelDocs : SaveProfile(p, isModel, doc)
  BY DEF RulesNext, WriteOutside, Reload, GenerateFiles, BeginWork, WorkOnDevice, EndWork, PutAway
<1>2. ASSUME NEW d \in DeviceKinds
      PROVE  \/ d = [pair |-> p, model |-> isModel]
             \/ d.pair = p /\ ~isModel /\ ~HasModel(rulesFile, p)
             \/ LET was == Resolved(rulesFile, d)  is == Resolved(loaded', d) IN
                /\ was.cmds = is.cmds /\ was.backup = is.backup /\ was.rules = is.rules
                /\ d.pair = p \/ was = is
  BY <1>1, OthersKeepTheirs
<1>3. ASSUME p = "own" \/ isModel
      PROVE  LET is == Resolved(loaded', [pair |-> p, model |-> isModel]) IN
             <<is.cmds, is.backup, is.rules>> = <<doc.cmds, doc.backup, doc.rules>>
  <2>1. PICK f : f = rulesFile OBVIOUS
  <2>2. PICK g : g = loaded' OBVIOUS
  <2>3. IsProfile(doc) /\ IsFile(f) /\ f.ok /\ g = Merged(f, p, isModel, doc)
    BY <1>1, <2>1, <2>2, RulesAssumption DEF SaveProfile, RulesInv
  <2>4. IsFile(g) /\ g.ok /\ doc = IF isModel THEN g.model[p] ELSE g.base[p] BY <2>3, MergedIs
  <2>5. LET is == Resolved(g, [pair |-> p, model |-> isModel]) IN
        is.cmds = doc.cmds /\ is.backup = doc.backup /\ is.rules = doc.rules
    BY <1>3, <2>3, <2>4, SavedIsGot
  <2> QED BY <2>2, <2>5
<1>4. rulesFile.ok BY <1>1 DEF SaveProfile
<1> QED BY <1>2, <1>3, <1>4 DEF OneProfileSaved

----------------------------------------------------------------------------
\* Whatever is shipped, saved and written by other programs, for any settings
\* and lists: saving a profile touches that profile alone, a run sends each
\* device the commands of its profile as it was when the run began, and the
\* sheet has every column that was filled, once, in the user's order
\* (custom_rules.yaml, core/profile_resolver.py, core/inspector.py).
THEOREM ProfilesAlwaysRight == RulesInit /\ [][RulesNext]_ruleVars => ProfilesAreRight
<1>1. RulesInit => RulesInv BY RulesStart
<1>2. RulesInv /\ [RulesNext]_ruleVars => RulesInv' BY RulesStep
<1>3. RulesInv => RunFollowsTheProfiles /\ SheetIsComplete /\ ExamplesStayOffered
  BY RunFollows, SheetTells, ExamplesStay
<1>4. RulesInv /\ [RulesNext]_ruleVars => [saves' # saves => OneProfileSaved]_ruleVars BY SaveTouchesOne
<1> QED BY <1>1, <1>2, <1>3, <1>4, PTL DEF ProfilesAreRight, SaveTouchesOneProfile

\* The same of both beside the session: a run is given what was checked and
\* confirmed, and does to each device what its profile says.
THEOREM RunIsAlwaysGivenWhatIsRight == MCSpec => RunIsGivenWhatIsRight
<1>1. MCInit => InputsInit /\ RulesInit BY DEF MCInit
<1>2. [MCNext]_partVars => [InputsNext]_prepVars
  BY DEF MCNext, partVars, prepVars, Session, OthersThanSession, Given, Rules
<1>3. [MCNext]_partVars => [RulesNext]_ruleVars
  BY DEF MCNext, partVars, ruleVars, Session, OthersThanSession, Given, Rules
<1> QED BY <1>1, <1>2, <1>3, InputsAlwaysRight, ProfilesAlwaysRight, PTL DEF MCSpec, RunIsGivenWhatIsRight
=============================================================================
