-------------------------- MODULE Transfers_proofs --------------------------
(***************************************************************************)
(* What is proved of the file transfer tabs: the temporary servers, the    *)
(* SCP and TFTP clients and the FTP client, for any number of files,       *)
(* clients, jobs and starts.                                               *)
(***************************************************************************)
EXTENDS MCTransfers, SequenceTheorems, WellFoundedInduction, TLAPS

----------------------------------------------------------------------------
(* Temporary servers.                                                      *)

RunStates == {"new", "certified", "prepared", "serving", "joining", "posted", "finished"}
SrvRunSet == [st : RunStates, stop : BOOLEAN, listening : BOOLEAN]
SessionStates == {"none", "accepted", "open", "receiving", "gone"}
SessionSet == [run : Nat, st : SessionStates, file : SrvFiles \cup {"none"}]

SrvTypeOK ==
    /\ srvSetup \in [tool : Tools, readOnly : BOOLEAN]
    /\ srvTab \in [running : BOOLEAN, event : Nat, closing : BOOLEAN]
    /\ srvRuns \in Seq(SrvRunSet)
    /\ srvTab.event # 0 => srvTab.event \in Run
    /\ srvQueue \in Seq([kind : {"result", "error"}, run : Nat])
    /\ srvKeys \in [cert : Nat, key : Nat]
    /\ srvSessions \in [SrvClients -> SessionSet]

\* Only the latest run is not finished, and then the tab says it runs.
OneRunAtATime == \A r \in Run : srvRuns[r].st # "finished" => r = Len(srvRuns) /\ srvTab.running

\* At most one answer is on its way, that of the run that has ended.
AnswersFit ==
    /\ Len(srvQueue) <= 1
    /\ \A i \in DOMAIN srvQueue : srvQueue[i].run \in Run /\ srvRuns[srvQueue[i].run].st = "posted"

ListensWhenServing == \A r \in Run : srvRuns[r].listening => srvRuns[r].st = "serving"

\* Only with write access does a client send a file.
ReceivesWhenWritable == \A s \in SrvClients : srvSessions[s].st = "receiving" => ~srvSetup.readOnly

\* A key that is there belongs to the certificate; a run past it has both.
KeysFit ==
    /\ srvKeys.key # 0 => srvKeys.key = srvKeys.cert
    /\ srvSetup.tool = "ftps" =>
         \A r \in Run : /\ srvRuns[r].st = "certified" => srvKeys.cert # 0
                        /\ srvRuns[r].st \in {"prepared", "serving"} => srvKeys.key # 0

SrvInv ==
    /\ SrvTypeOK /\ OneRunAtATime /\ AnswersFit /\ ListensWhenServing
    /\ ReceivesWhenWritable /\ ReadOnlyTreeIsUntouched /\ KeysFit

LEMMA SrvStart == SrvInit => SrvInv
<1> SUFFICES ASSUME SrvInit PROVE SrvInv OBVIOUS
<1>1. srvRuns = <<>> /\ srvQueue = <<>> /\ Run = {} /\ DOMAIN srvQueue = {} /\ Len(srvQueue) = 0
  BY DEF SrvInit, Run
<1>2. srvKeys \in [cert : Nat, key : Nat] /\ (srvKeys.key # 0 => srvKeys.key = srvKeys.cert)
  BY DEF SrvInit
<1>3. SrvTypeOK
  <2>1. srvRuns \in Seq(SrvRunSet) /\ srvQueue \in Seq([kind : {"result", "error"}, run : Nat]) BY <1>1
  <2>2. NoSession \in SessionSet BY DEF NoSession, SessionSet, SessionStates
  <2>3. srvSessions \in [SrvClients -> SessionSet] BY <2>2 DEF SrvInit
  <2> QED BY <1>2, <2>1, <2>3 DEF SrvInit, SrvTypeOK
<1>4. OneRunAtATime /\ AnswersFit /\ ListensWhenServing
  BY <1>1 DEF OneRunAtATime, AnswersFit, ListensWhenServing
<1>5. ReceivesWhenWritable /\ ReadOnlyTreeIsUntouched
  BY DEF SrvInit, NoSession, ReceivesWhenWritable, ReadOnlyTreeIsUntouched
<1>6. KeysFit BY <1>1, <1>2 DEF KeysFit
<1> QED BY <1>3, <1>4, <1>5, <1>6 DEF SrvInv

\* One run changed, and nothing about how many there are.
LEMMA RunChanged ==
    ASSUME NEW s \in Seq(SrvRunSet), NEW r \in DOMAIN s, NEW row \in SrvRunSet,
           NEW t, t = [s EXCEPT ![r] = row]
    PROVE  /\ t \in Seq(SrvRunSet) /\ Len(t) = Len(s) /\ DOMAIN t = DOMAIN s
           /\ t[r] = row /\ \A q \in DOMAIN s : q # r => t[q] = s[q]
OBVIOUS

\* Steps of sessions and of the TFTP server touch only sessions and files.
LEMMA SessionKeeps ==
    ASSUME SrvInv, UNCHANGED <<srvSetup, srvTab, srvRuns, srvQueue, srvKeys>>,
           srvSessions' \in [SrvClients -> SessionSet], ReceivesWhenWritable',
           srvTree' # srvTree => ~srvSetup.readOnly
    PROVE  SrvInv'
<1>1. SrvTypeOK' BY DEF SrvInv, SrvTypeOK, Run
<1>2. OneRunAtATime' /\ ListensWhenServing' BY DEF SrvInv, OneRunAtATime, ListensWhenServing, Run
<1>3. AnswersFit' BY DEF SrvInv, AnswersFit, Run
<1>4. ReadOnlyTreeIsUntouched' BY DEF SrvInv, ReadOnlyTreeIsUntouched
<1>5. KeysFit' BY DEF SrvInv, KeysFit, Run
<1> QED BY <1>1, <1>2, <1>3, <1>4, <1>5 DEF SrvInv

\* A step of the job of run r.
LEMMA JobKeeps ==
    ASSUME SrvInv, NEW r \in Run, srvRuns[r].st \notin {"finished", "posted"},
           NEW row \in SrvRunSet, srvRuns' = [srvRuns EXCEPT ![r] = row],
           row.st # "finished", row.listening => row.st = "serving",
           UNCHANGED <<srvSetup, srvTab, srvSessions, srvTree>>,
           srvKeys' \in [cert : Nat, key : Nat], srvKeys'.key # 0 => srvKeys'.key = srvKeys'.cert,
           srvSetup.tool = "ftps" => /\ row.st = "certified" => srvKeys'.cert # 0
                                     /\ row.st \in {"prepared", "serving"} => srvKeys'.key # 0,
           \/ srvQueue' = srvQueue
           \/ /\ row.st = "posted"
              /\ \E kind \in {"result", "error"} : srvQueue' = Append(srvQueue, [kind |-> kind, run |-> r])
    PROVE  SrvInv'
<1>0. /\ srvRuns \in Seq(SrvRunSet) /\ Run = DOMAIN srvRuns /\ Run = 1..Len(srvRuns) /\ Len(srvRuns) \in Nat
      /\ r \in Nat
  BY DEF SrvInv, SrvTypeOK, Run
<1>1. /\ srvRuns' \in Seq(SrvRunSet) /\ Len(srvRuns') = Len(srvRuns) /\ Run' = Run
      /\ srvRuns'[r] = row /\ \A q \in Run : q # r => srvRuns'[q] = srvRuns[q]
  BY <1>0, RunChanged DEF Run
<1>2. r = Len(srvRuns) /\ srvTab.running BY DEF SrvInv, OneRunAtATime
<1>3. \A q \in Run : q # r => srvRuns[q].st = "finished" BY <1>2 DEF SrvInv, OneRunAtATime
<1>4. srvQueue = <<>>
  <2>1. \A i \in DOMAIN srvQueue : srvQueue[i].run \in Run /\ srvRuns[srvQueue[i].run].st = "posted"
    BY DEF SrvInv, AnswersFit
  <2>2. \A i \in DOMAIN srvQueue : FALSE BY <1>3, <2>1
  <2>3. srvQueue \in Seq([kind : {"result", "error"}, run : Nat]) BY DEF SrvInv, SrvTypeOK
  <2>4. ASSUME srvQueue # <<>> PROVE FALSE
    <3>1. 1 \in DOMAIN srvQueue BY <2>3, <2>4
    <3> QED BY <2>2, <3>1
  <2> QED BY <2>4
<1>5. \/ srvQueue' = <<>>
      \/ /\ row.st = "posted"
         /\ \E kind \in {"result", "error"} : srvQueue' = <<[kind |-> kind, run |-> r]>>
  BY <1>4
<1>6. SrvTypeOK'
  <2>1. srvQueue' \in Seq([kind : {"result", "error"}, run : Nat])
    <3>1. CASE srvQueue' = <<>> BY <3>1
    <3>2. ASSUME NEW kind \in {"result", "error"}, srvQueue' = <<[kind |-> kind, run |-> r]>>
          PROVE  srvQueue' \in Seq([kind : {"result", "error"}, run : Nat])
      <4> DEFINE answer == [kind |-> kind, run |-> r]
      <4>1. answer \in [kind : {"result", "error"}, run : Nat] BY <1>0
      <4>2. srvQueue' = <<answer>> BY <3>2
      <4> HIDE DEF answer
      <4> QED BY <4>1, <4>2
    <3> QED BY <1>5, <3>1, <3>2
  <2> QED BY <1>1, <2>1 DEF SrvInv, SrvTypeOK
<1>7. OneRunAtATime' BY <1>1, <1>2, <1>3 DEF OneRunAtATime
<1>8. AnswersFit'
  <2>1. CASE srvQueue' = <<>> BY <2>1 DEF AnswersFit
  <2>2. CASE /\ row.st = "posted"
             /\ \E kind \in {"result", "error"} : srvQueue' = <<[kind |-> kind, run |-> r]>>
    <3>1. Len(srvQueue') = 1 /\ DOMAIN srvQueue' = {1} /\ srvQueue'[1].run = r BY <2>2
    <3> QED BY <1>1, <2>2, <3>1 DEF AnswersFit
  <2> QED BY <1>5, <2>1, <2>2
<1>9. ListensWhenServing' BY <1>1 DEF SrvInv, ListensWhenServing
<1>10. ReceivesWhenWritable' /\ ReadOnlyTreeIsUntouched'
  BY DEF SrvInv, ReceivesWhenWritable, ReadOnlyTreeIsUntouched
<1>11. KeysFit' BY <1>1, <1>3 DEF KeysFit
<1> QED BY <1>6, <1>7, <1>8, <1>9, <1>10, <1>11 DEF SrvInv

\* A run in another state, and one that listens or no longer does.
WithState(s, r, st) == [s EXCEPT ![r].st = st]
WithPort(s, r, st, on) == [s EXCEPT ![r].st = st, ![r].listening = on]

LEMMA StateTold ==
    ASSUME NEW s \in Seq(SrvRunSet), NEW r \in DOMAIN s, NEW st \in RunStates
    PROVE  \E row \in SrvRunSet :
              /\ WithState(s, r, st) = [s EXCEPT ![r] = row]
              /\ row.st = st /\ row.listening = s[r].listening /\ row.stop = s[r].stop
<1> DEFINE row == [s[r] EXCEPT !.st = st]
<1>1. s[r] \in SrvRunSet OBVIOUS
<1>2. row \in SrvRunSet /\ row.st = st /\ row.listening = s[r].listening /\ row.stop = s[r].stop
  BY <1>1 DEF SrvRunSet
<1>3. WithState(s, r, st) = [s EXCEPT ![r] = row] BY DEF WithState
<1> QED BY <1>2, <1>3

LEMMA ListenTold ==
    ASSUME NEW s \in Seq(SrvRunSet), NEW r \in DOMAIN s, NEW st \in RunStates, NEW on \in BOOLEAN
    PROVE  \E row \in SrvRunSet :
              /\ WithPort(s, r, st, on) = [s EXCEPT ![r] = row]
              /\ row.st = st /\ row.listening = on
<1> DEFINE old == [s[r] EXCEPT !.st = st]
<1>0. s[r] \in SrvRunSet OBVIOUS
<1>1. old \in SrvRunSet /\ old.st = st /\ [s EXCEPT ![r].st = st] = [s EXCEPT ![r] = old]
  BY <1>0 DEF SrvRunSet
<1> HIDE DEF old
<1> DEFINE row == [old EXCEPT !.listening = on]
<1>2. row \in SrvRunSet /\ row.st = st /\ row.listening = on BY <1>1 DEF SrvRunSet
<1>3. [[s EXCEPT ![r] = old] EXCEPT ![r].listening = on] = [s EXCEPT ![r] = row] OBVIOUS
<1>4. WithPort(s, r, st, on) = [[s EXCEPT ![r].st = st] EXCEPT ![r].listening = on] BY DEF WithPort
<1> QED BY <1>1, <1>2, <1>3, <1>4

LEMMA EndJobKeeps ==
    ASSUME SrvInv, NEW r \in Run, srvRuns[r].st \notin {"finished", "posted"},
           NEW kind \in {"result", "error"}, EndJob(r, kind),
           UNCHANGED <<srvSetup, srvTab, srvSessions, srvTree, srvKeys>>
    PROVE  SrvInv'
<1>1. srvRuns \in Seq(SrvRunSet) /\ srvKeys \in [cert : Nat, key : Nat] /\ r \in DOMAIN srvRuns
  BY DEF SrvInv, SrvTypeOK, Run
<1>0. PICK on \in BOOLEAN : on = FALSE OBVIOUS
<1>2. srvRuns' = WithPort(srvRuns, r, "posted", on) BY <1>0 DEF EndJob, WithPort
<1>3. "posted" \in RunStates BY DEF RunStates
<1>4. PICK row \in SrvRunSet :
        /\ WithPort(srvRuns, r, "posted", on) = [srvRuns EXCEPT ![r] = row]
        /\ row.st = "posted" /\ row.listening = on
  BY <1>1, <1>3, ListenTold
<1>5. srvKeys'.key # 0 => srvKeys'.key = srvKeys'.cert BY DEF SrvInv, KeysFit
<1>6. srvQueue' = Append(srvQueue, [kind |-> kind, run |-> r]) BY DEF EndJob
<1> QED BY <1>0, <1>1, <1>2, <1>4, <1>5, <1>6, JobKeeps

\* A step that moves run r to another state, with its port as given.
LEMMA MoveKeeps ==
    ASSUME SrvInv, NEW r \in Run, srvRuns[r].st \notin {"finished", "posted"},
           NEW st \in RunStates \ {"finished", "posted"},
           \/ srvRuns' = WithState(srvRuns, r, st) /\ ~srvRuns[r].listening
           \/ srvRuns' = WithPort(srvRuns, r, st, st = "serving"),
           UNCHANGED <<srvSetup, srvTab, srvSessions, srvQueue, srvTree>>,
           srvKeys' \in [cert : Nat, key : Nat], srvKeys'.key # 0 => srvKeys'.key = srvKeys'.cert,
           srvSetup.tool = "ftps" => /\ st = "certified" => srvKeys'.cert # 0
                                     /\ st \in {"prepared", "serving"} => srvKeys'.key # 0
    PROVE  SrvInv'
<1>1. srvRuns \in Seq(SrvRunSet) /\ r \in DOMAIN srvRuns BY DEF SrvInv, SrvTypeOK, Run
<1>2. \E row \in SrvRunSet : /\ srvRuns' = [srvRuns EXCEPT ![r] = row] /\ row.st = st
                             /\ row.listening => row.st = "serving"
  <2>1. CASE srvRuns' = WithState(srvRuns, r, st) /\ ~srvRuns[r].listening BY <1>1, <2>1, StateTold
  <2>2. CASE srvRuns' = WithPort(srvRuns, r, st, st = "serving")
    <3>1. (st = "serving") \in BOOLEAN OBVIOUS
    <3>2. PICK on \in BOOLEAN : on = (st = "serving") BY <3>1
    <3>3. srvRuns' = WithPort(srvRuns, r, st, on) BY <2>2, <3>2
    <3>4. PICK row \in SrvRunSet : /\ WithPort(srvRuns, r, st, on) = [srvRuns EXCEPT ![r] = row]
                                   /\ row.st = st /\ row.listening = on
      BY <1>1, ListenTold
    <3> QED BY <3>2, <3>3, <3>4
  <2> QED BY <2>1, <2>2
<1>3. PICK row \in SrvRunSet : /\ srvRuns' = [srvRuns EXCEPT ![r] = row] /\ row.st = st
                               /\ row.listening => row.st = "serving"
  BY <1>2
<1> QED BY <1>3, JobKeeps

LEMMA SrvJobKeeps == ASSUME SrvInv, NEW r \in Nat, SrvJob(r) PROVE SrvInv'
<1>0. /\ srvKeys \in [cert : Nat, key : Nat] /\ (srvKeys.key # 0 => srvKeys.key = srvKeys.cert)
      /\ srvSetup.tool = "ftps" =>
           \A q \in Run : /\ srvRuns[q].st = "certified" => srvKeys.cert # 0
                          /\ srvRuns[q].st \in {"prepared", "serving"} => srvKeys.key # 0
  BY DEF SrvInv, SrvTypeOK, KeysFit
<1>s. /\ "certified" \in RunStates \ {"finished", "posted"} /\ "prepared" \in RunStates \ {"finished", "posted"}
      /\ "serving" \in RunStates \ {"finished", "posted"} /\ "joining" \in RunStates \ {"finished", "posted"}
  BY DEF RunStates
<1>l. \A q \in Run : srvRuns[q].st # "serving" => ~srvRuns[q].listening BY DEF SrvInv, ListensWhenServing
<1>1. CASE EnsureCertificate(r)
  <2>1. /\ r \in Run /\ srvRuns[r].st = "new" /\ ~srvRuns[r].listening
        /\ UNCHANGED <<srvSetup, srvTab, srvSessions, srvQueue, srvTree>>
    BY <1>1, <1>l DEF EnsureCertificate, Now
  <2>2. CASE srvSetup.tool = "ftps" /\ (srvKeys.cert = 0 \/ srvKeys.key = 0)
    <3>1. srvKeys.key = 0 BY <1>0, <2>2
    <3>2. srvKeys' = [srvKeys EXCEPT !.cert = r + 1] /\ srvRuns' = WithState(srvRuns, r, "certified")
      BY <1>1, <2>2 DEF EnsureCertificate, WithState
    <3>3. srvKeys' \in [cert : Nat, key : Nat] /\ srvKeys'.key = 0 /\ srvKeys'.cert # 0 BY <1>0, <3>1, <3>2
    <3> QED BY <1>s, <2>1, <3>2, <3>3, MoveKeeps
  <2>3. CASE ~(srvSetup.tool = "ftps" /\ (srvKeys.cert = 0 \/ srvKeys.key = 0))
    <3>1. srvKeys' = srvKeys /\ srvRuns' = WithState(srvRuns, r, "prepared")
      BY <1>1, <2>3 DEF EnsureCertificate, WithState
    <3> QED BY <1>0, <1>s, <2>1, <2>3, <3>1, MoveKeeps
  <2> QED BY <2>2, <2>3
<1>2. CASE WriteKey(r)
  <2>1. /\ r \in Run /\ srvRuns[r].st = "certified" /\ ~srvRuns[r].listening
        /\ UNCHANGED <<srvSetup, srvTab, srvSessions, srvQueue, srvTree>>
        /\ srvKeys' = [srvKeys EXCEPT !.key = srvKeys.cert] /\ srvRuns' = WithState(srvRuns, r, "prepared")
    BY <1>2, <1>l DEF WriteKey, Now, WithState
  <2>2. srvKeys' \in [cert : Nat, key : Nat] /\ srvKeys'.key = srvKeys'.cert /\ srvKeys'.cert = srvKeys.cert
    BY <1>0, <2>1
  <2>3. srvSetup.tool = "ftps" => srvKeys'.key # 0 BY <1>0, <2>1, <2>2
  <2> QED BY <1>s, <2>1, <2>2, <2>3, MoveKeeps
<1>3. CASE Bind(r)
  <2>1. r \in Run /\ srvRuns[r].st = "prepared" /\ UNCHANGED <<srvSetup, srvTab, srvSessions, srvTree, srvKeys>>
    BY <1>3 DEF Bind, Now
  <2>2. CASE EndJob(r, "error") BY <2>1, <2>2, EndJobKeeps
  <2>3. CASE srvRuns' = [srvRuns EXCEPT ![r].st = "serving", ![r].listening = TRUE] /\ UNCHANGED srvQueue
    <3>1. srvRuns' = WithPort(srvRuns, r, "serving", "serving" = "serving") BY <2>3 DEF WithPort
    <3> QED BY <1>0, <1>s, <2>1, <2>3, <3>1, MoveKeeps
  <2> QED BY <1>3, <2>2, <2>3 DEF Bind
<1>4. CASE CloseListener(r)
  <2>1. /\ r \in Run /\ srvRuns[r].st = "serving"
        /\ UNCHANGED <<srvSetup, srvTab, srvSessions, srvQueue, srvTree, srvKeys>>
        /\ srvRuns' = WithPort(srvRuns, r, "joining", FALSE)
    BY <1>4 DEF CloseListener, Now, WithPort
  <2>2. FALSE = ("joining" = "serving") OBVIOUS
  <2>3. srvRuns' = WithPort(srvRuns, r, "joining", "joining" = "serving") BY <2>1, <2>2
  <2> QED BY <1>0, <1>s, <2>1, <2>3, MoveKeeps
<1>5. CASE JoinSessions(r)
  <2>1. /\ r \in Run /\ srvRuns[r].st = "joining" /\ EndJob(r, "result")
        /\ UNCHANGED <<srvSetup, srvTab, srvSessions, srvTree, srvKeys>>
    BY <1>5 DEF JoinSessions, Now
  <2> QED BY <2>1, EndJobKeeps
<1>6. CASE SeeStop(r)
  <2>1. UNCHANGED <<srvSetup, srvTab, srvRuns, srvSessions, srvQueue, srvTree, srvKeys>> BY <1>6 DEF SeeStop
  <2>2. SrvTypeOK' /\ OneRunAtATime' /\ ListensWhenServing' /\ AnswersFit'
    BY <2>1 DEF SrvInv, SrvTypeOK, OneRunAtATime, ListensWhenServing, AnswersFit, Run
  <2>3. ReceivesWhenWritable' /\ ReadOnlyTreeIsUntouched' /\ KeysFit'
    BY <2>1 DEF SrvInv, ReceivesWhenWritable, ReadOnlyTreeIsUntouched, KeysFit, Run
  <2> QED BY <2>2, <2>3 DEF SrvInv
<1> QED BY <1>1, <1>2, <1>3, <1>4, <1>5, <1>6 DEF SrvJob

\* The stop button, and the window that closes, only set a flag of a run.
LEMMA StopRunKeeps ==
    ASSUME SrvInv, srvTab.event # 0, srvRuns' = [srvRuns EXCEPT ![srvTab.event].stop = TRUE],
           UNCHANGED <<srvSetup, srvSessions, srvQueue, srvTree, srvKeys>>,
           srvTab' \in [running : BOOLEAN, event : Nat, closing : BOOLEAN],
           srvTab'.running = srvTab.running, srvTab'.event = srvTab.event
    PROVE  SrvInv'
<1>1. srvRuns \in Seq(SrvRunSet) /\ srvTab.event \in DOMAIN srvRuns BY DEF SrvInv, SrvTypeOK, Run
<1> DEFINE row == [srvRuns[srvTab.event] EXCEPT !.stop = TRUE]
<1>2. srvRuns[srvTab.event] \in SrvRunSet BY <1>1
<1>3. /\ row \in SrvRunSet /\ row.st = srvRuns[srvTab.event].st
      /\ row.listening = srvRuns[srvTab.event].listening
  BY <1>2 DEF SrvRunSet
<1>4. srvRuns' = [srvRuns EXCEPT ![srvTab.event] = row] OBVIOUS
<1> HIDE DEF row
<1>5. /\ srvRuns' \in Seq(SrvRunSet) /\ Len(srvRuns') = Len(srvRuns) /\ DOMAIN srvRuns' = DOMAIN srvRuns
      /\ srvRuns'[srvTab.event] = row
      /\ \A q \in DOMAIN srvRuns : q # srvTab.event => srvRuns'[q] = srvRuns[q]
  BY <1>1, <1>3, <1>4, RunChanged
<1>6. \A q \in Run : srvRuns'[q].st = srvRuns[q].st /\ srvRuns'[q].listening = srvRuns[q].listening
  BY <1>3, <1>5 DEF Run
<1>7. Run' = Run BY <1>5 DEF Run
<1>8. SrvTypeOK' BY <1>5, <1>7 DEF SrvInv, SrvTypeOK
<1>9. OneRunAtATime' /\ ListensWhenServing'
  BY <1>5, <1>6, <1>7 DEF SrvInv, OneRunAtATime, ListensWhenServing
<1>10. AnswersFit' BY <1>6, <1>7 DEF SrvInv, AnswersFit
<1>11. ReceivesWhenWritable' /\ ReadOnlyTreeIsUntouched'
  BY DEF SrvInv, ReceivesWhenWritable, ReadOnlyTreeIsUntouched
<1>12. KeysFit' BY <1>6, <1>7 DEF SrvInv, KeysFit
<1> QED BY <1>8, <1>9, <1>10, <1>11, <1>12 DEF SrvInv

LEMMA StartServerKeeps == ASSUME SrvInv, StartServer PROVE SrvInv'
<1> DEFINE row == [st |-> "new", stop |-> FALSE, listening |-> FALSE]
<1>1. /\ ~srvTab.running /\ srvRuns' = Append(srvRuns, row)
      /\ srvTab' = [srvTab EXCEPT !.running = TRUE, !.event = Len(srvRuns) + 1]
      /\ UNCHANGED <<srvSetup, srvSessions, srvQueue, srvTree, srvKeys>>
  BY DEF StartServer
<1>2. row \in SrvRunSet /\ row.st = "new" /\ ~row.listening BY DEF SrvRunSet, RunStates
<1> HIDE DEF row
<1>3. /\ srvRuns \in Seq(SrvRunSet) /\ Len(srvRuns) \in Nat /\ Run = 1..Len(srvRuns)
      /\ srvTab \in [running : BOOLEAN, event : Nat, closing : BOOLEAN]
  BY DEF SrvInv, SrvTypeOK, Run
<1>4. /\ srvRuns' \in Seq(SrvRunSet) /\ Len(srvRuns') = Len(srvRuns) + 1 /\ Run' = 1..Len(srvRuns) + 1
      /\ srvRuns'[Len(srvRuns) + 1] = row
      /\ \A q \in Run : srvRuns'[q] = srvRuns[q]
  BY <1>1, <1>2, <1>3 DEF Run
<1>5. \A q \in Run' : q \in Run \/ q = Len(srvRuns) + 1 BY <1>3, <1>4
<1>6. \A q \in Run : srvRuns[q].st = "finished" BY <1>1 DEF SrvInv, OneRunAtATime
<1>7. /\ srvTab' \in [running : BOOLEAN, event : Nat, closing : BOOLEAN] /\ srvTab'.running
      /\ srvTab'.event = Len(srvRuns) + 1 /\ Len(srvRuns) + 1 \in Run' /\ Run \subseteq Run'
  <2> DEFINE n == Len(srvRuns) + 1
  <2>1. n \in Nat /\ n \in Run' BY <1>3, <1>4
  <2>2. Run \subseteq Run' BY <1>3, <1>4
  <2>3. srvTab' = [srvTab EXCEPT !.running = TRUE, !.event = n] BY <1>1
  <2> HIDE DEF n
  <2>4. srvTab' \in [running : BOOLEAN, event : Nat, closing : BOOLEAN] BY <1>3, <2>1, <2>3
  <2>5. srvTab'.running /\ srvTab'.event = n BY <1>3, <2>3
  <2> QED BY <2>1, <2>2, <2>4, <2>5 DEF n
<1>8. SrvTypeOK' BY <1>1, <1>4, <1>7 DEF SrvInv, SrvTypeOK
<1>9. OneRunAtATime' BY <1>4, <1>5, <1>6, <1>7 DEF OneRunAtATime
<1>10. AnswersFit' BY <1>1, <1>4, <1>7 DEF SrvInv, AnswersFit
<1>11. ListensWhenServing' BY <1>2, <1>4, <1>5 DEF SrvInv, ListensWhenServing
<1>12. ReceivesWhenWritable' /\ ReadOnlyTreeIsUntouched'
  BY <1>1 DEF SrvInv, ReceivesWhenWritable, ReadOnlyTreeIsUntouched
<1>13. KeysFit' BY <1>1, <1>2, <1>4, <1>5 DEF SrvInv, KeysFit
<1> QED BY <1>8, <1>9, <1>10, <1>11, <1>12, <1>13 DEF SrvInv

LEMMA FinishServerKeeps == ASSUME SrvInv, FinishServer PROVE SrvInv'
<1> DEFINE r == Head(srvQueue).run
<1>1. /\ srvQueue # <<>> /\ srvQueue' = Tail(srvQueue)
      /\ srvTab' = [srvTab EXCEPT !.running = FALSE,
                                  !.event = IF Head(srvQueue).kind = "result" THEN 0 ELSE @]
      /\ srvRuns' = WithState(srvRuns, r, "finished")
      /\ UNCHANGED <<srvSetup, srvSessions, srvTree, srvKeys>>
  BY DEF FinishServer, WithState
<1>2. /\ srvQueue \in Seq([kind : {"result", "error"}, run : Nat]) /\ Len(srvQueue) <= 1
      /\ \A i \in DOMAIN srvQueue : srvQueue[i].run \in Run /\ srvRuns[srvQueue[i].run].st = "posted"
  BY DEF SrvInv, SrvTypeOK, AnswersFit
<1>3. 1 \in DOMAIN srvQueue /\ Head(srvQueue) = srvQueue[1] /\ Tail(srvQueue) = <<>> BY <1>1, <1>2
<1>4. r \in Run /\ srvRuns[r].st = "posted" BY <1>2, <1>3
<1> HIDE DEF r
<1>5. /\ srvRuns \in Seq(SrvRunSet) /\ r \in DOMAIN srvRuns /\ Run = DOMAIN srvRuns
      /\ srvTab \in [running : BOOLEAN, event : Nat, closing : BOOLEAN]
  BY <1>4 DEF SrvInv, SrvTypeOK, Run
<1>6. "finished" \in RunStates BY DEF RunStates
<1>7. PICK row \in SrvRunSet :
        /\ WithState(srvRuns, r, "finished") = [srvRuns EXCEPT ![r] = row]
        /\ row.st = "finished" /\ row.listening = srvRuns[r].listening /\ row.stop = srvRuns[r].stop
  BY <1>5, <1>6, StateTold
<1>8. srvRuns' = [srvRuns EXCEPT ![r] = row] BY <1>1, <1>7
<1>9. /\ srvRuns' \in Seq(SrvRunSet) /\ Len(srvRuns') = Len(srvRuns) /\ Run' = Run
      /\ srvRuns'[r] = row /\ \A q \in Run : q # r => srvRuns'[q] = srvRuns[q]
  BY <1>5, <1>8, RunChanged DEF Run
<1>10. r = Len(srvRuns) BY <1>4 DEF SrvInv, OneRunAtATime
<1>11. \A q \in Run : srvRuns'[q].st = "finished"
  BY <1>7, <1>9, <1>10 DEF SrvInv, OneRunAtATime
<1>12. ~srvRuns[r].listening BY <1>4 DEF SrvInv, ListensWhenServing
<1>13. SrvTypeOK'
  <2>1. /\ srvTab' \in [running : BOOLEAN, event : Nat, closing : BOOLEAN]
        /\ (srvTab'.event = 0 \/ srvTab'.event = srvTab.event)
    <3> DEFINE e == IF Head(srvQueue).kind = "result" THEN 0 ELSE srvTab.event
    <3>1. e \in Nat /\ (e = 0 \/ e = srvTab.event) BY <1>5
    <3>2. srvTab' = [srvTab EXCEPT !.running = FALSE, !.event = e] BY <1>1
    <3> HIDE DEF e
    <3>3. srvTab' \in [running : BOOLEAN, event : Nat, closing : BOOLEAN] BY <1>5, <3>1, <3>2
    <3>4. srvTab'.event = e BY <1>5, <3>2
    <3> QED BY <3>1, <3>3, <3>4
  <2>2. srvQueue' = <<>> BY <1>1, <1>3
  <2>3. srvQueue' \in Seq([kind : {"result", "error"}, run : Nat]) BY <2>2
  <2> QED BY <1>1, <1>9, <2>1, <2>3 DEF SrvInv, SrvTypeOK
<1>14. OneRunAtATime' BY <1>9, <1>11 DEF OneRunAtATime
<1>15. AnswersFit' BY <1>1, <1>3 DEF AnswersFit
<1>16. ListensWhenServing' BY <1>7, <1>9, <1>12 DEF SrvInv, ListensWhenServing
<1>17. ReceivesWhenWritable' /\ ReadOnlyTreeIsUntouched'
  BY <1>1 DEF SrvInv, ReceivesWhenWritable, ReadOnlyTreeIsUntouched
<1>18. KeysFit' BY <1>1, <1>9, <1>11 DEF SrvInv, KeysFit
<1> QED BY <1>13, <1>14, <1>15, <1>16, <1>17, <1>18 DEF SrvInv

LEMMA KillProgramKeeps == ASSUME SrvInv, KillProgram PROVE SrvInv'
<1> DEFINE row == [st |-> "finished", stop |-> FALSE, listening |-> FALSE]
<1>1. /\ srvTab' = [running |-> FALSE, event |-> 0, closing |-> FALSE]
      /\ srvRuns' = [q \in Run |-> row] /\ srvSessions' = [s \in SrvClients |-> NoSession]
      /\ srvQueue' = <<>> /\ UNCHANGED <<srvSetup, srvTree, srvKeys>>
  BY DEF KillProgram
<1>2. row \in SrvRunSet /\ row.st = "finished" /\ ~row.listening BY DEF SrvRunSet, RunStates
<1> HIDE DEF row
<1>3. srvRuns' \in Seq(SrvRunSet) /\ Run' = Run /\ \A q \in Run : srvRuns'[q] = row
  <2> DEFINE n == Len(srvRuns)
  <2>1. n \in Nat /\ Run = 1..n BY DEF SrvInv, SrvTypeOK, Run
  <2> HIDE DEF n
  <2>2. srvRuns' = [q \in 1..n |-> row] BY <1>1, <2>1
  <2>3. srvRuns' \in [1..n -> SrvRunSet] BY <1>2, <2>2
  <2>4. srvRuns' \in Seq(SrvRunSet) BY <2>1, <2>3, IsASeq
  <2>5. DOMAIN srvRuns' = 1..n BY <2>2
  <2>6. Run' = Run BY <2>1, <2>5 DEF Run
  <2>7. \A q \in Run : srvRuns'[q] = row BY <2>1, <2>2
  <2> QED BY <2>4, <2>6, <2>7
<1>4. SrvTypeOK'
  <2>1. srvQueue' \in Seq([kind : {"result", "error"}, run : Nat]) BY <1>1
  <2>2. NoSession \in SessionSet BY DEF NoSession, SessionSet, SessionStates
  <2>3. srvSessions' \in [SrvClients -> SessionSet] BY <1>1, <2>2
  <2>4. srvTab' \in [running : BOOLEAN, event : Nat, closing : BOOLEAN] /\ srvTab'.event = 0 BY <1>1
  <2> QED BY <1>1, <1>3, <2>1, <2>3, <2>4 DEF SrvInv, SrvTypeOK
<1>5. OneRunAtATime' /\ ListensWhenServing' BY <1>2, <1>3 DEF OneRunAtATime, ListensWhenServing
<1>6. AnswersFit' BY <1>1 DEF AnswersFit
<1>7. ReceivesWhenWritable' BY <1>1 DEF ReceivesWhenWritable, NoSession
<1>8. ReadOnlyTreeIsUntouched' BY <1>1 DEF SrvInv, ReadOnlyTreeIsUntouched
<1>9. KeysFit' BY <1>1, <1>2, <1>3 DEF SrvInv, KeysFit
<1> QED BY <1>4, <1>5, <1>6, <1>7, <1>8, <1>9 DEF SrvInv

LEMMA SrvSessionKeeps == ASSUME SrvInv, NEW s \in SrvClients, SrvSession(s) PROVE SrvInv'
<1>1. UNCHANGED <<srvSetup, srvTab, srvRuns, srvQueue, srvKeys>>
  BY DEF SrvSession, Accept, OpenSession, LeaveSession, EndSession, SftpOpen, SftpRemove, SftpRename,
         SftpMkdir, FtpStore, ScpUploadBegins, ScpUploadEnds
<1>2. srvSessions \in [SrvClients -> SessionSet] /\ srvSessions[s] \in SessionSet BY DEF SrvInv, SrvTypeOK
<1>3. PICK row \in SessionSet : /\ srvSessions' = [srvSessions EXCEPT ![s] = row]
                                /\ row.st = "receiving" => ~srvSetup.readOnly
  <2>1. CASE Accept(s)
    <3>1. PICK r \in Run : srvSessions' = [srvSessions EXCEPT ![s].run = r, ![s].st = "accepted"]
      BY <2>1 DEF Accept
    <3>2. r \in Nat BY DEF SrvInv, SrvTypeOK, Run
    <3> DEFINE new == [[srvSessions[s] EXCEPT !.run = r] EXCEPT !.st = "accepted"]
    <3>3. new \in SessionSet /\ new.st = "accepted" BY <1>2, <3>2 DEF SessionSet, SessionStates
    <3>4. srvSessions' = [srvSessions EXCEPT ![s] = new] BY <1>2, <3>1
    <3> QED BY <3>3, <3>4
  <2>2. CASE ScpUploadBegins(s)
    <3>1. PICK f \in SrvFiles : srvSessions' = [srvSessions EXCEPT ![s].st = "receiving", ![s].file = f]
      BY <2>2 DEF ScpUploadBegins
    <3> DEFINE new == [[srvSessions[s] EXCEPT !.st = "receiving"] EXCEPT !.file = f]
    <3>3. new \in SessionSet BY <1>2 DEF SessionSet, SessionStates
    <3>4. srvSessions' = [srvSessions EXCEPT ![s] = new] BY <1>2, <3>1
    <3>5. ~srvSetup.readOnly BY <2>2 DEF ScpUploadBegins, Writable
    <3> QED BY <3>3, <3>4, <3>5
  <2>3. CASE OpenSession(s) \/ LeaveSession(s) \/ EndSession(s) \/ ScpUploadEnds(s)
    <3>1. PICK st \in {"open", "gone"} : srvSessions' = [srvSessions EXCEPT ![s].st = st]
      BY <2>3 DEF OpenSession, LeaveSession, EndSession, ScpUploadEnds
    <3> DEFINE new == [srvSessions[s] EXCEPT !.st = st]
    <3>2. new \in SessionSet /\ new.st = st BY <1>2 DEF SessionSet, SessionStates
    <3>3. srvSessions' = [srvSessions EXCEPT ![s] = new] BY <3>1
    <3> QED BY <3>2, <3>3
  <2>4. CASE srvSessions' = srvSessions
    <3> DEFINE new == srvSessions[s]
    <3>1. srvSessions' = [srvSessions EXCEPT ![s] = new] BY <1>2, <2>4
    <3>2. new.st = "receiving" => ~srvSetup.readOnly BY DEF SrvInv, ReceivesWhenWritable
    <3> QED BY <1>2, <3>1, <3>2
  <2> QED BY <2>1, <2>2, <2>3, <2>4 DEF SrvSession, SftpOpen, SftpRemove, SftpRename, SftpMkdir, FtpStore
<1>e. srvSessions' = [srvSessions EXCEPT ![s] = row] BY <1>3
<1>f. srvSessions \in [SrvClients -> SessionSet] BY <1>2
<1>4. srvSessions' \in [SrvClients -> SessionSet] BY <1>e, <1>f
<1>r. srvSessions'[s] = row /\ \A q \in SrvClients : q # s => srvSessions'[q] = srvSessions[q] BY <1>e, <1>f
<1>5. ReceivesWhenWritable' BY <1>1, <1>3, <1>f, <1>r DEF SrvInv, ReceivesWhenWritable
<1>6. ASSUME srvTree' # srvTree, srvSetup.readOnly PROVE FALSE
  <2>1. CASE SftpOpen(s)
    <3>1. PICK f \in SrvFiles, flags \in SUBSET Flags :
            /\ ~DenyIfReadonlyIfNeeded(flags)
            /\ \/ FlagsToMode(flags) = "rb" /\ UNCHANGED srvTree
               \/ FlagsToMode(flags) # "rb" /\ Change(f, "new")
      BY <2>1 DEF SftpOpen
    <3>2. flags = {} BY <1>6, <3>1 DEF DenyIfReadonlyIfNeeded
    <3>3. FlagsToMode(flags) = "rb" BY <3>2 DEF FlagsToMode
    <3> QED BY <1>6, <3>1, <3>3
  <2>2. CASE ScpUploadEnds(s) BY <1>6, <2>2 DEF SrvInv, ReceivesWhenWritable, ScpUploadEnds, Is
  <2> QED BY <1>6, <2>1, <2>2 DEF SrvSession, Accept, OpenSession, LeaveSession, EndSession, SftpRemove,
         SftpRename, SftpMkdir, FtpStore, ScpUploadBegins, Writable
<1> QED BY <1>1, <1>4, <1>5, <1>6, SessionKeeps

\* The inductive invariant of the servers: every step of the page, of a run and of a client keeps
\* it (ftp_server_service.py, scp_server_service.py, tftp_service.py).
THEOREM SrvStep == SrvInv /\ [SrvNext]_srvVars => SrvInv'
<1> SUFFICES ASSUME SrvInv, [SrvNext]_srvVars PROVE SrvInv' OBVIOUS
<1>t. srvTab \in [running : BOOLEAN, event : Nat, closing : BOOLEAN] BY DEF SrvInv, SrvTypeOK
<1>1. CASE StartServer BY <1>1, StartServerKeeps
<1>2. CASE StopServer
  <2>1. /\ srvTab.event # 0 /\ srvRuns' = [srvRuns EXCEPT ![srvTab.event].stop = TRUE]
        /\ UNCHANGED <<srvSetup, srvTab, srvSessions, srvQueue, srvTree, srvKeys>>
    BY <1>2 DEF StopServer
  <2> QED BY <1>t, <2>1, StopRunKeeps
<1>3. CASE SrvShutdown
  <2>1. /\ srvTab' = [srvTab EXCEPT !.closing = TRUE]
        /\ UNCHANGED <<srvSetup, srvSessions, srvQueue, srvTree, srvKeys>>
    BY <1>3 DEF SrvShutdown
  <2>2. /\ srvTab' \in [running : BOOLEAN, event : Nat, closing : BOOLEAN]
        /\ srvTab'.running = srvTab.running /\ srvTab'.event = srvTab.event
    BY <1>t, <2>1
  <2>3. CASE srvTab.event # 0
    <3>1. srvRuns' = [srvRuns EXCEPT ![srvTab.event].stop = TRUE] BY <1>3, <2>3 DEF SrvShutdown
    <3> QED BY <2>1, <2>2, <2>3, <3>1, StopRunKeeps
  <2>4. CASE srvTab.event = 0
    <3>1. srvRuns' = srvRuns BY <1>3, <2>4 DEF SrvShutdown
    <3>2. SrvTypeOK' BY <2>1, <2>2, <3>1 DEF SrvInv, SrvTypeOK, Run
    <3>3. OneRunAtATime' /\ ListensWhenServing' /\ AnswersFit'
      BY <2>1, <2>2, <3>1 DEF SrvInv, OneRunAtATime, ListensWhenServing, AnswersFit, Run
    <3>4. ReceivesWhenWritable' /\ ReadOnlyTreeIsUntouched' /\ KeysFit'
      BY <2>1, <3>1 DEF SrvInv, ReceivesWhenWritable, ReadOnlyTreeIsUntouched, KeysFit, Run
    <3> QED BY <3>2, <3>3, <3>4 DEF SrvInv
  <2> QED BY <2>3, <2>4
<1>4. CASE FinishServer BY <1>4, FinishServerKeeps
<1>5. CASE KillProgram BY <1>5, KillProgramKeeps
<1>6. ASSUME NEW r \in 1..MaxServerRuns, SrvJob(r) PROVE SrvInv'
  <2>1. r \in Nat BY ServerAssumption
  <2> QED BY <1>6, <2>1, SrvJobKeeps
<1>7. ASSUME NEW r \in 1..MaxServerRuns, TftpUploadOpen(r) PROVE SrvInv'
  <2>1. /\ UNCHANGED <<srvSetup, srvTab, srvRuns, srvSessions, srvQueue, srvKeys>> /\ ~srvSetup.readOnly
    BY <1>7 DEF TftpUploadOpen, Writable
  <2>2. srvSessions' \in [SrvClients -> SessionSet] /\ ReceivesWhenWritable'
    BY <2>1 DEF SrvInv, SrvTypeOK, ReceivesWhenWritable
  <2> QED BY <2>1, <2>2, SessionKeeps
<1>8. ASSUME NEW s \in SrvClients, SrvSession(s) PROVE SrvInv' BY <1>8, SrvSessionKeeps
<1>9. CASE UNCHANGED srvVars
  <2>1. UNCHANGED <<srvSetup, srvTab, srvRuns, srvSessions, srvQueue, srvTree, srvKeys>> BY <1>9 DEF srvVars
  <2>2. srvSessions' \in [SrvClients -> SessionSet] /\ ReceivesWhenWritable'
    BY <2>1 DEF SrvInv, SrvTypeOK, ReceivesWhenWritable
  <2> QED BY <2>1, <2>2, SessionKeeps
<1> QED BY <1>1, <1>2, <1>3, <1>4, <1>5, <1>6, <1>7, <1>8, <1>9 DEF SrvNext

\* A port is held only by the run the tab shows, a read-only folder is never
\* written, and no certificate is served with a key of another.
THEOREM ServersAlwaysRight == SrvSpec => []ServersAreRight
<1>1. SrvInv => ServersAreRight
  <2> SUFFICES ASSUME SrvInv PROVE ServersAreRight OBVIOUS
  <2>1. PortHeldByTheShownRun BY DEF SrvInv, ListensWhenServing, OneRunAtATime, PortHeldByTheShownRun
  <2>2. ServedPairMatches BY DEF SrvInv, KeysFit, ServedPairMatches
  <2> QED BY <2>1, <2>2 DEF SrvInv, ServersAreRight
<1> QED BY <1>1, SrvStart, SrvStep, PTL DEF SrvSpec


----------------------------------------------------------------------------
(* The SCP and TFTP clients.                                               *)

CopyStates == {"idle", "new", "next", "sending", "source", "receiving", "packets", "posted"}
RowSet == [path : Nat, name : CopyNames \cup {"none"},
           status : {"running", "done", "failed", "stopped"}]
WorkSet == [op : {"none", "upload", "download"}, st : CopyStates, paths : Seq(CopyNames), at : Nat,
            name : CopyNames \cup {"none"}, items : Nat, first : Nat,
            outcome : {"none", "result", "error", "stopped"}]

CopyTypeOK ==
    /\ copyTool \in {"scp", "tftp"}
    /\ copyWork \in WorkSet
    /\ copyRows \in Seq(RowSet)
    /\ copyDisk \in [{"local", "remote"} -> [CopyNames -> {"none", "part", "whole"}]]

\* What a row of a job says of its file is true of the files.
RowIsTrue(row, op, files) ==
    /\ row.status = "done" => files[row.name] = "whole"
    /\ row.status \in {"stopped", "failed"} /\ op = "download" => files[row.name] = "none"

\* Row i is the last one about its file.
IsLast(rows, i) == \A k \in DOMAIN rows : k > i => rows[k].name # rows[i].name

LastRowsAreTrue ==
    \A i \in DOMAIN copyRows :
        copyRows[i].name \in CopyNames /\ IsLast(copyRows, i) =>
            RowIsTrue(copyRows[i], copyWork.op, copyDisk[Target])

\* While a file is on its way, the last row is the one about it.
InFlight == IF copyWork.st = "receiving" THEN copyWork.name ELSE Path
FlightHasItsRow ==
    copyWork.st \in {"sending", "receiving", "packets"} =>
        /\ copyRows # <<>>
        /\ copyRows[Len(copyRows)].name = InFlight /\ InFlight \in CopyNames
        /\ copyRows[Len(copyRows)].path = copyWork.at /\ copyRows[Len(copyRows)].status = "running"

WorkFits ==
    /\ copyWork.st \in {"sending", "source", "receiving", "packets"} => copyWork.at \in DOMAIN copyWork.paths
    /\ copyWork.at <= Len(copyWork.paths)
    /\ copyWork.st = "new" => copyWork.at = 0 /\ copyWork.paths # <<>> /\ copyRows = <<>>
    /\ copyWork.st \in {"sending", "packets"} /\ copyWork.op = "download" => copyTool = "tftp"
    /\ copyWork.outcome # "none" => copyWork.st \in {"posted", "idle"}

Told(rows, p) == \E i \in DOMAIN rows : rows[i].path = p /\ rows[i].status \in {"done", "failed"}

\* Every path before the one the job is at has its row, and that one too once the job has left it.
PathsAreTold ==
    copyTool = "scp" /\ copyWork.op = "download" =>
        /\ \A p \in 1..copyWork.at : p # copyWork.at => Told(copyRows, p)
        /\ copyWork.st = "next" \/ copyWork.outcome = "result" => \A p \in 1..copyWork.at : Told(copyRows, p)
        /\ copyWork.outcome = "result" => copyWork.at = Len(copyWork.paths)
        /\ copyWork.st = "source" /\ copyWork.first <= Len(copyRows) => Told(copyRows, copyWork.at)

CopyInv == CopyTypeOK /\ LastRowsAreTrue /\ FlightHasItsRow /\ WorkFits /\ PathsAreTold

LEMMA CopyStart == CopyInit => CopyInv
<1> SUFFICES ASSUME CopyInit PROVE CopyInv OBVIOUS
<1>1. copyRows = <<>> /\ DOMAIN copyRows = {} /\ copyRows \in Seq(RowSet) BY DEF CopyInit
<1>2. /\ copyWork \in WorkSet /\ copyWork.op = "none" /\ copyWork.st = "idle" /\ copyWork.at = 0
      /\ copyWork.paths = <<>> /\ copyWork.outcome = "none"
  <2>1. copyWork = NoWork BY DEF CopyInit
  <2>2. <<>> \in Seq(CopyNames) OBVIOUS
  <2> QED BY <2>1, <2>2 DEF NoWork, WorkSet, CopyStates
<1>3. copyDisk \in [{"local", "remote"} -> [CopyNames -> {"none", "part", "whole"}]] BY DEF CopyInit
<1>4. CopyTypeOK BY <1>1, <1>2, <1>3 DEF CopyInit, CopyTypeOK
<1>5. LastRowsAreTrue BY <1>1 DEF LastRowsAreTrue
<1>6. FlightHasItsRow /\ WorkFits BY <1>2 DEF FlightHasItsRow, WorkFits
<1>7. PathsAreTold BY <1>2 DEF PathsAreTold
<1> QED BY <1>4, <1>5, <1>6, <1>7 DEF CopyInv

RowAdded(row) == copyRows' = Append(copyRows, row)
DiskType == [{"local", "remote"} -> [CopyNames -> {"none", "part", "whole"}]]

\* The files of the job's own side after one of them has been written.
LEMMA PutTold ==
    ASSUME copyDisk \in DiskType, NEW side \in {"local", "remote"}, NEW name \in CopyNames,
           NEW what \in {"none", "part", "whole"}, Put(side, name, what)
    PROVE  /\ copyDisk' \in DiskType /\ copyDisk'[side][name] = what
           /\ \A f \in CopyNames : f # name => copyDisk'[side][f] = copyDisk[side][f]
<1> DEFINE row == [copyDisk[side] EXCEPT ![name] = what]
<1>1. copyDisk[side] \in [CopyNames -> {"none", "part", "whole"}] BY DEF DiskType
<1>2. /\ row \in [CopyNames -> {"none", "part", "whole"}] /\ row[name] = what
      /\ \A f \in CopyNames : f # name => row[f] = copyDisk[side][f]
  BY <1>1
<1>3. copyDisk' = [copyDisk EXCEPT ![side] = row] BY DEF Put
<1> HIDE DEF row
<1>4. copyDisk' \in DiskType BY <1>2, <1>3 DEF DiskType
<1>5. copyDisk'[side] = row BY <1>3 DEF DiskType
<1> QED BY <1>2, <1>4, <1>5

\* What the lemmas about rows start from.
RowsNow == CopyTypeOK /\ LastRowsAreTrue

\* A row added about a file on its way, or about no file, leaves the last rows true.
LEMMA AddedRowIsTrue ==
    ASSUME RowsNow, NEW row \in RowSet, RowAdded(row), copyWork'.op = copyWork.op,
           row.name \in CopyNames => row.status = "running",
           \A f \in CopyNames : f # row.name => copyDisk'[Target][f] = copyDisk[Target][f]
    PROVE  /\ copyRows' \in Seq(RowSet) /\ copyRows' # <<>> /\ copyRows'[Len(copyRows')] = row
           /\ LastRowsAreTrue'
           /\ Len(copyRows') = Len(copyRows) + 1
           /\ \A p : Told(copyRows, p) => Told(copyRows', p)
           /\ row.status = "failed" => Told(copyRows', row.path)
<1>1. copyRows \in Seq(RowSet) /\ copyRows' = Append(copyRows, row) BY DEF RowsNow, CopyTypeOK, RowAdded
<1> DEFINE n == Len(copyRows)
<1>2. n \in Nat /\ DOMAIN copyRows = 1..n BY <1>1
<1>3. copyRows' \in Seq(RowSet) /\ Len(copyRows') = n + 1 BY <1>1
<1>4. /\ DOMAIN copyRows' = 1..(n + 1) /\ copyRows'[n + 1] = row
      /\ \A i \in 1..n : copyRows'[i] = copyRows[i]
  BY <1>1
<1> HIDE DEF n
<1>5. copyRows' # <<>> /\ n + 1 \in DOMAIN copyRows' BY <1>2, <1>3, <1>4
<1>6. Target' = Target BY DEF Target
<1>7. LastRowsAreTrue'
  <2> SUFFICES ASSUME NEW i \in DOMAIN copyRows', copyRows'[i].name \in CopyNames, IsLast(copyRows', i)
               PROVE  RowIsTrue(copyRows'[i], copyWork'.op, copyDisk'[Target'])
    BY DEF LastRowsAreTrue, IsLast
  <2>1. CASE i = n + 1
    <3>1. copyRows'[i].status = "running" BY <1>4, <2>1
    <3> QED BY <3>1 DEF RowIsTrue
  <2>2. CASE i # n + 1
    <3>1. i \in 1..n /\ i < n + 1 BY <1>2, <1>4, <2>2
    <3>2. copyRows'[i] = copyRows[i] BY <1>4, <3>1
    <3>3. row.name # copyRows[i].name BY <1>4, <1>5, <3>1, <3>2 DEF IsLast
    <3>4. IsLast(copyRows, i)
      <4> SUFFICES ASSUME NEW k \in DOMAIN copyRows, k > i PROVE copyRows[k].name # copyRows[i].name
        BY DEF IsLast
      <4>1. k \in DOMAIN copyRows' /\ copyRows'[k] = copyRows[k] BY <1>2, <1>4
      <4> QED BY <3>2, <4>1 DEF IsLast
    <3>5. RowIsTrue(copyRows[i], copyWork.op, copyDisk[Target]) BY <1>2, <3>1, <3>2, <3>4 DEF RowsNow, LastRowsAreTrue
    <3>6. copyDisk'[Target][copyRows[i].name] = copyDisk[Target][copyRows[i].name] BY <3>2, <3>3
    <3> QED BY <1>6, <3>2, <3>5, <3>6 DEF RowIsTrue
  <2> QED BY <2>1, <2>2
<1>8. ASSUME NEW p, Told(copyRows, p) PROVE Told(copyRows', p)
  <2>1. PICK i \in DOMAIN copyRows : copyRows[i].path = p /\ copyRows[i].status \in {"done", "failed"}
    BY <1>8 DEF Told
  <2>2. i \in DOMAIN copyRows' /\ copyRows'[i] = copyRows[i] BY <1>2, <1>4
  <2> QED BY <2>1, <2>2 DEF Told
<1>9. row.status = "failed" => Told(copyRows', row.path) BY <1>4, <1>5 DEF Told
<1>10. copyRows'[Len(copyRows')] = row /\ Len(copyRows') = Len(copyRows) + 1 BY <1>3, <1>4 DEF n
<1> QED BY <1>3, <1>5, <1>7, <1>8, <1>9, <1>10

\* The row about the file on its way gets its end, and the file is as the row says.
LEMMA EndedRowIsTrue ==
    ASSUME RowsNow, NEW status \in {"done", "failed", "stopped"}, LastRowBecomes(status),
           copyWork'.op = copyWork.op, copyRows # <<>>,
           copyRows[Len(copyRows)].status = "running",
           NEW name \in CopyNames, copyRows[Len(copyRows)].name = name,
           \A f \in CopyNames : f # name => copyDisk'[Target][f] = copyDisk[Target][f],
           status = "done" => copyDisk'[Target][name] = "whole",
           status # "done" /\ copyWork.op = "download" => copyDisk'[Target][name] = "none"
    PROVE  /\ copyRows' \in Seq(RowSet) /\ LastRowsAreTrue' /\ Len(copyRows') = Len(copyRows)
           /\ \A p : Told(copyRows, p) => Told(copyRows', p)
           /\ status # "stopped" => Told(copyRows', copyRows[Len(copyRows)].path)
<1> DEFINE n == Len(copyRows)
           last == [copyRows[n] EXCEPT !.status = status]
<1>1. copyRows \in Seq(RowSet) /\ copyRows' = [copyRows EXCEPT ![n] = last]
  BY DEF RowsNow, CopyTypeOK, LastRowBecomes
<1>2. n \in Nat /\ DOMAIN copyRows = 1..n /\ n \in DOMAIN copyRows BY <1>1
<1>3. copyRows[n] \in RowSet BY <1>1, <1>2
<1>4. last \in RowSet /\ last.status = status /\ last.name = name /\ last.path = copyRows[n].path
  BY <1>3 DEF RowSet
<1>f. copyRows[n].status = "running" /\ copyRows[n].name = name OBVIOUS
<1>l. Len(copyRows) = n OBVIOUS
<1> HIDE DEF last, n
<1>5. copyRows' \in Seq(RowSet) /\ Len(copyRows') = n BY <1>1, <1>4, <1>l
<1>6. DOMAIN copyRows' = 1..n /\ copyRows'[n] = last /\ \A i \in 1..n : i # n => copyRows'[i] = copyRows[i]
  BY <1>1, <1>2
<1>7. \A i \in 1..n : copyRows'[i].name = copyRows[i].name BY <1>4, <1>6, <1>f
<1>8. Target' = Target BY DEF Target
<1>9. LastRowsAreTrue'
  <2> SUFFICES ASSUME NEW i \in DOMAIN copyRows', copyRows'[i].name \in CopyNames, IsLast(copyRows', i)
               PROVE  RowIsTrue(copyRows'[i], copyWork'.op, copyDisk'[Target'])
    BY DEF LastRowsAreTrue, IsLast
  <2>1. CASE i = n
    <3>1. copyRows'[i].status = status /\ copyRows'[i].name = name BY <1>4, <1>6, <2>1
    <3> QED BY <1>8, <3>1 DEF RowIsTrue
  <2>2. CASE i # n
    <3>1. i \in 1..n /\ i < n /\ n \in DOMAIN copyRows' BY <1>2, <1>6, <2>2
    <3>2. copyRows'[i] = copyRows[i] BY <1>6, <2>2, <3>1
    <3>3. copyRows[i].name # name
      <4>1. copyRows'[n].name = name BY <1>4, <1>6
      <4> QED BY <3>1, <3>2, <4>1 DEF IsLast
    <3>4. IsLast(copyRows, i)
      <4> SUFFICES ASSUME NEW k \in DOMAIN copyRows, k > i PROVE copyRows[k].name # copyRows[i].name
        BY DEF IsLast
      <4>1. k \in DOMAIN copyRows' /\ copyRows'[k].name = copyRows[k].name BY <1>2, <1>6, <1>7
      <4> QED BY <3>2, <4>1 DEF IsLast
    <3>5. RowIsTrue(copyRows[i], copyWork.op, copyDisk[Target]) BY <1>2, <3>1, <3>2, <3>4 DEF RowsNow, LastRowsAreTrue
    <3>6. copyDisk'[Target][copyRows[i].name] = copyDisk[Target][copyRows[i].name] BY <3>2, <3>3
    <3> QED BY <1>8, <3>2, <3>5, <3>6 DEF RowIsTrue
  <2> QED BY <2>1, <2>2
<1>10. ASSUME NEW p, Told(copyRows, p) PROVE Told(copyRows', p)
  <2>1. PICK i \in DOMAIN copyRows : copyRows[i].path = p /\ copyRows[i].status \in {"done", "failed"}
    BY <1>10 DEF Told
  <2>2. i # n BY <1>f, <2>1
  <2>3. i \in DOMAIN copyRows' /\ copyRows'[i] = copyRows[i] BY <1>2, <1>6, <2>2
  <2> QED BY <2>1, <2>3 DEF Told
<1>11. status # "stopped" => Told(copyRows', copyRows[n].path)
  <2>1. n \in DOMAIN copyRows' /\ copyRows'[n].path = copyRows[n].path /\ copyRows'[n].status = status
    BY <1>2, <1>4, <1>6
  <2> QED BY <2>1 DEF Told
<1> QED BY <1>5, <1>9, <1>10, <1>11, <1>l

\* The rows and the files as they were.
LEMMA RowsStay ==
    ASSUME CopyInv, UNCHANGED <<copyRows, copyDisk>>, copyWork'.op = copyWork.op
    PROVE  /\ copyRows' \in Seq(RowSet) /\ LastRowsAreTrue' /\ copyDisk' \in DiskType
           /\ \A p : Told(copyRows, p) => Told(copyRows', p)
<1>1. copyRows \in Seq(RowSet) /\ copyDisk \in DiskType BY DEF CopyInv, CopyTypeOK, DiskType
<1>2. LastRowsAreTrue' BY DEF CopyInv, LastRowsAreTrue, IsLast, RowIsTrue, Target
<1> QED BY <1>1, <1>2

\* The job ends, with what its rows say.
LEMMA EndsKeeps ==
    ASSUME CopyInv, NEW outcome \in {"result", "error", "stopped"}, Ends(outcome), copyTool' = copyTool,
           copyRows' \in Seq(RowSet), LastRowsAreTrue', copyDisk' \in DiskType,
           \A p : Told(copyRows, p) => Told(copyRows', p),
           outcome = "result" /\ copyTool = "scp" /\ copyWork.op = "download" =>
               copyWork.st = "next" /\ copyWork.at = Len(copyWork.paths)
    PROVE  CopyInv'
<1>1. copyWork \in WorkSet /\ copyWork' = [copyWork EXCEPT !.st = "posted", !.outcome = outcome]
  BY DEF CopyInv, CopyTypeOK, Ends
<1>2. copyWork' \in WorkSet BY <1>1 DEF WorkSet, CopyStates
<1>3. /\ copyWork'.st = "posted" /\ copyWork'.outcome = outcome /\ copyWork'.op = copyWork.op
      /\ copyWork'.at = copyWork.at /\ copyWork'.paths = copyWork.paths
  BY <1>1 DEF WorkSet
<1>4. CopyTypeOK' BY <1>2 DEF CopyInv, CopyTypeOK, DiskType
<1>5. FlightHasItsRow' BY <1>3 DEF FlightHasItsRow
<1>6. WorkFits' BY <1>3 DEF CopyInv, WorkFits
<1>7. PathsAreTold' BY <1>3 DEF CopyInv, PathsAreTold
<1> QED BY <1>4, <1>5, <1>6, <1>7 DEF CopyInv

\* The job goes on with its next path, or with the path it is at.
LEMMA GoesOnKeeps ==
    ASSUME CopyInv, copyTool = "scp", copyTool' = copyTool, NEW st \in {"next", "source"},
           copyWork' \in WorkSet, copyWork'.st = st, copyWork'.op = copyWork.op,
           copyWork'.paths = copyWork.paths, copyWork'.at = copyWork.at,
           copyWork'.first = copyWork.first, copyWork'.outcome = copyWork.outcome,
           copyWork.st \notin {"posted", "idle"}, copyWork.at = 0 \/ copyWork.at \in DOMAIN copyWork.paths,
           st = "source" => copyWork.at # 0,
           copyRows' \in Seq(RowSet), LastRowsAreTrue', copyDisk' \in DiskType,
           \A p : Told(copyRows, p) => Told(copyRows', p),
           st = "next" /\ copyWork.op = "download" => copyWork.at = 0 \/ Told(copyRows', copyWork.at),
           st = "source" /\ copyWork.first <= Len(copyRows') => Told(copyRows', copyWork.at)
    PROVE  CopyInv'
<1>1. CopyTypeOK' BY DEF CopyInv, CopyTypeOK, DiskType
<1>2. FlightHasItsRow' BY DEF FlightHasItsRow
<1>3. WorkFits' BY DEF CopyInv, WorkFits
<1>4. PathsAreTold'
  <2>1. copyWork'.outcome = "none" BY DEF CopyInv, WorkFits
  <2>2. copyWork.at \in Nat BY DEF CopyInv, CopyTypeOK, WorkSet
  <2>3. copyWork.op = "download" => \A p \in 1..copyWork.at : p # copyWork.at => Told(copyRows', p)
    BY DEF CopyInv, PathsAreTold
  <2>4. copyWork.op = "download" /\ st = "next" => \A p \in 1..copyWork.at : Told(copyRows', p)
    BY <2>2, <2>3
  <2> QED BY <2>1, <2>3, <2>4 DEF PathsAreTold
<1> QED BY <1>1, <1>2, <1>3, <1>4 DEF CopyInv

\* A new row, and the job is on its way with the file it is about.
LEMMA FileStartsKeeps ==
    ASSUME CopyInv, copyTool' = copyTool, NEW st \in {"sending", "receiving", "packets"},
           copyWork' \in WorkSet, copyWork'.st = st, copyWork'.op = copyWork.op,
           copyWork'.paths = copyWork.paths, copyWork'.at \in DOMAIN copyWork.paths,
           copyWork'.outcome = copyWork.outcome, copyWork.st \notin {"posted", "idle"},
           NEW name \in CopyNames, InFlight' = name,
           st # "receiving" /\ copyWork.op = "download" => copyTool = "tftp",
           st = "receiving" => copyWork'.at = copyWork.at,
           RowAdded([path |-> copyWork'.at, name |-> name, status |-> "running"]),
           NEW side \in {"local", "remote"}, side = Target, Put(side, name, "part")
    PROVE  CopyInv'
<1> DEFINE row == [path |-> copyWork'.at, name |-> name, status |-> "running"]
<1>1. copyWork'.at \in Nat BY DEF WorkSet
<1>2. row \in RowSet /\ row.path = copyWork'.at /\ row.name = name /\ row.status = "running"
  BY <1>1 DEF RowSet
<1>3. RowAdded(row) OBVIOUS
<1> HIDE DEF row
<1>4. copyDisk \in DiskType BY DEF CopyInv, CopyTypeOK, DiskType
<1>5. /\ copyDisk' \in DiskType
      /\ \A f \in CopyNames : f # name => copyDisk'[side][f] = copyDisk[side][f]
  BY <1>4, PutTold
<1>6. RowsNow BY DEF CopyInv, RowsNow
<1>7. \A f \in CopyNames : f # row.name => copyDisk'[Target][f] = copyDisk[Target][f] BY <1>2, <1>5
<1>8. PICK new \in RowSet : new = row BY <1>2
<1>9. /\ RowAdded(new) /\ (new.name \in CopyNames => new.status = "running")
      /\ \A f \in CopyNames : f # new.name => copyDisk'[Target][f] = copyDisk[Target][f]
  BY <1>2, <1>3, <1>7, <1>8
<1>10. /\ copyRows' \in Seq(RowSet) /\ copyRows' # <<>> /\ copyRows'[Len(copyRows')] = new
       /\ LastRowsAreTrue'
       /\ \A p : Told(copyRows, p) => Told(copyRows', p)
  BY <1>6, <1>9, AddedRowIsTrue
<1>11. CopyTypeOK' BY <1>5, <1>10 DEF CopyInv, CopyTypeOK, DiskType
<1>12. FlightHasItsRow' BY <1>2, <1>8, <1>10 DEF FlightHasItsRow
<1>13. WorkFits'
  <2>1. copyWork'.at <= Len(copyWork.paths) BY DEF CopyInv, CopyTypeOK, WorkSet
  <2> QED BY <2>1 DEF CopyInv, WorkFits
<1>14. PathsAreTold'
  <2>1. copyWork'.outcome = "none" BY DEF CopyInv, WorkFits
  <2>2. copyTool = "scp" /\ copyWork.op = "download" =>
          \A p \in 1..copyWork'.at : p # copyWork'.at => Told(copyRows', p)
    BY <1>10 DEF CopyInv, PathsAreTold
  <2> QED BY <2>1, <2>2 DEF PathsAreTold
<1> QED BY <1>10, <1>11, <1>12, <1>13, <1>14 DEF CopyInv

\* A path that failed gets a row of its own about no file.
LEMMA FailedRowAdded ==
    ASSUME CopyInv, RowAdded(Row("none", "failed")), copyWork'.op = copyWork.op, UNCHANGED copyDisk
    PROVE  /\ copyRows' \in Seq(RowSet) /\ LastRowsAreTrue' /\ copyDisk' \in DiskType
           /\ \A p : Told(copyRows, p) => Told(copyRows', p)
           /\ Told(copyRows', copyWork.at)
<1>1. copyDisk \in DiskType BY DEF CopyInv, CopyTypeOK, DiskType
<1>2. copyWork.at \in Nat BY DEF CopyInv, CopyTypeOK, WorkSet
<1>3. PICK row \in RowSet : row = Row("none", "failed") BY <1>2 DEF Row, RowSet
<1>4. row.name = "none" /\ row.status = "failed" /\ row.path = copyWork.at BY <1>3 DEF Row
<1>5. RowAdded(row) BY <1>3
<1>6. row.name \notin CopyNames BY <1>4, CopyAssumption
<1>7. RowsNow BY DEF CopyInv, RowsNow
<1>8. Target \in {"local", "remote"} /\ \A f \in CopyNames : f # row.name => copyDisk'[Target][f] = copyDisk[Target][f]
  BY DEF Target
<1>9. /\ copyRows' \in Seq(RowSet) /\ LastRowsAreTrue'
      /\ \A p : Told(copyRows, p) => Told(copyRows', p)
      /\ Told(copyRows', row.path)
  BY <1>4, <1>5, <1>6, <1>7, <1>8, AddedRowIsTrue
<1> QED BY <1>1, <1>4, <1>9

\* The file on its way has ended: its row says how, and the file is so.
LEMMA FlightEnds ==
    ASSUME CopyInv, NEW status \in {"done", "failed", "stopped"}, LastRowBecomes(status),
           copyWork'.op = copyWork.op, copyWork.st \in {"sending", "receiving", "packets"},
           copyDisk' \in DiskType,
           \A f \in CopyNames : f # InFlight => copyDisk'[Target][f] = copyDisk[Target][f],
           status = "done" => copyDisk'[Target][InFlight] = "whole",
           status # "done" /\ copyWork.op = "download" => copyDisk'[Target][InFlight] = "none"
    PROVE  /\ copyRows' \in Seq(RowSet) /\ LastRowsAreTrue'
           /\ \A p : Told(copyRows, p) => Told(copyRows', p)
           /\ status # "stopped" => Told(copyRows', copyWork.at)
<1>1. /\ copyRows # <<>> /\ InFlight \in CopyNames /\ copyRows[Len(copyRows)].name = InFlight
      /\ copyRows[Len(copyRows)].path = copyWork.at /\ copyRows[Len(copyRows)].status = "running"
  BY DEF CopyInv, FlightHasItsRow
<1>2. PICK name \in CopyNames : name = InFlight BY <1>1
<1>3. RowsNow BY DEF CopyInv, RowsNow
<1>4. /\ \A f \in CopyNames : f # name => copyDisk'[Target][f] = copyDisk[Target][f]
      /\ status = "done" => copyDisk'[Target][name] = "whole"
      /\ status # "done" /\ copyWork.op = "download" => copyDisk'[Target][name] = "none"
      /\ copyRows[Len(copyRows)].name = name
  BY <1>1, <1>2
<1>5. /\ copyRows' \in Seq(RowSet) /\ LastRowsAreTrue'
      /\ \A p : Told(copyRows, p) => Told(copyRows', p)
      /\ status # "stopped" => Told(copyRows', copyRows[Len(copyRows)].path)
  BY <1>1, <1>3, <1>4, EndedRowIsTrue
<1> QED BY <1>1, <1>5

LEMMA TabKeeps ==
    ASSUME CopyInv, UNCHANGED <<copyTool, copyWork, copyRows, copyDisk>> PROVE CopyInv'
<1>1. CopyTypeOK' BY DEF CopyInv, CopyTypeOK
<1>2. LastRowsAreTrue' BY DEF CopyInv, LastRowsAreTrue, IsLast, RowIsTrue, Target
<1>3. FlightHasItsRow' BY DEF CopyInv, FlightHasItsRow, InFlight, Path
<1>4. WorkFits' /\ PathsAreTold' BY DEF CopyInv, WorkFits, PathsAreTold, Told
<1> QED BY <1>1, <1>2, <1>3, <1>4 DEF CopyInv

LEMMA StartCopyKeeps ==
    ASSUME CopyInv, NEW tool, NEW op \in {"upload", "download"}, NEW paths \in Seq(CopyNames),
           paths # <<>>, StartCopy(tool, op, paths)
    PROVE  CopyInv'
<1>1. /\ copyWork' = [NoWork EXCEPT !.op = op, !.st = "new", !.paths = paths]
      /\ copyRows' = <<>> /\ UNCHANGED <<copyTool, copyDisk>>
  BY DEF StartCopy
<1>2. copyWork' \in WorkSet BY <1>1 DEF NoWork, WorkSet, CopyStates
<1>3. /\ copyWork'.st = "new" /\ copyWork'.at = 0 /\ copyWork'.paths = paths /\ copyWork'.outcome = "none"
      /\ copyWork'.first = 0
  BY <1>1 DEF NoWork
<1>4. copyRows' \in Seq(RowSet) /\ DOMAIN copyRows' = {} BY <1>1
<1>5. CopyTypeOK' BY <1>1, <1>2, <1>4 DEF CopyInv, CopyTypeOK
<1>6. LastRowsAreTrue' BY <1>4 DEF LastRowsAreTrue
<1>7. FlightHasItsRow' BY <1>3 DEF FlightHasItsRow
<1>8. WorkFits'
  <2>1. 0 <= Len(paths) OBVIOUS
  <2> QED BY <1>1, <1>3, <2>1 DEF WorkFits
<1>9. PathsAreTold' BY <1>3 DEF PathsAreTold
<1> QED BY <1>5, <1>6, <1>7, <1>8, <1>9 DEF CopyInv

LEMMA CopyClicksKeep == ASSUME CopyInv, CopyClicks PROVE CopyInv'
<1>1. ASSUME NEW paths \in Paths PROVE paths \in Seq(CopyNames) /\ paths # <<>>
  <2>1. PICK n \in 1..MaxCopyPaths : paths \in [1..n -> CopyNames] BY DEF Paths
  <2>2. n \in Nat /\ n >= 1 BY CopyAssumption
  <2>3. paths \in Seq(CopyNames) BY <2>1, <2>2, IsASeq
  <2>4. 1 \in DOMAIN paths BY <2>1, <2>2
  <2> QED BY <2>3, <2>4
<1>2. ASSUME NEW f \in CopyNames PROVE <<f>> \in Seq(CopyNames) /\ <<f>> # <<>> OBVIOUS
<1>3. CASE UploadScpFiles BY <1>1, <1>3, StartCopyKeeps DEF UploadScpFiles
<1>4. CASE DownloadScpFiles BY <1>1, <1>4, StartCopyKeeps DEF DownloadScpFiles
<1>5. CASE StartTftpUpload
  <2>1. PICK paths \in Seq(CopyNames) : paths # <<>> /\ StartCopy("tftp", "upload", paths)
    BY <1>2, <1>5 DEF StartTftpUpload
  <2> QED BY <2>1, StartCopyKeeps
<1>6. CASE StartTftpDownload
  <2>1. PICK paths \in Seq(CopyNames) : paths # <<>> /\ StartCopy("tftp", "download", paths)
    BY <1>2, <1>6 DEF StartTftpDownload
  <2> QED BY <2>1, StartCopyKeeps
<1>7. CASE CancelCopy BY <1>7, TabKeeps DEF CancelCopy
<1>8. CASE CopyShutdown BY <1>8, TabKeeps DEF CopyShutdown
<1> QED BY <1>3, <1>4, <1>5, <1>6, <1>7, <1>8 DEF CopyClicks

\* What every step of a service may use of the job.
LEMMA JobNow ==
    ASSUME CopyInv
    PROVE  /\ copyWork \in WorkSet /\ copyWork.at \in Nat /\ copyWork.paths \in Seq(CopyNames)
           /\ copyDisk \in DiskType /\ copyRows \in Seq(RowSet)
           /\ copyWork.st \in {"sending", "source", "receiving", "packets"} => copyWork.at \in DOMAIN copyWork.paths
           /\ copyWork.at = 0 \/ copyWork.at \in DOMAIN copyWork.paths
<1>1. copyWork \in WorkSet BY DEF CopyInv, CopyTypeOK
<1>2. copyWork.at \in Nat /\ copyWork.paths \in Seq(CopyNames) BY <1>1 DEF WorkSet
<1>3. copyWork.at <= Len(copyWork.paths) BY DEF CopyInv, WorkFits
<1>4. copyWork.at = 0 \/ copyWork.at \in DOMAIN copyWork.paths BY <1>2, <1>3
<1> QED BY <1>1, <1>2, <1>4 DEF CopyInv, CopyTypeOK, DiskType, WorkFits

\* The job in state st, at the path and with the outcome it had.
LEMMA WorkGoes ==
    ASSUME copyWork \in WorkSet, NEW st \in CopyStates, copyWork' = [copyWork EXCEPT !.st = st]
    PROVE  /\ copyWork' \in WorkSet /\ copyWork'.st = st /\ copyWork'.op = copyWork.op
           /\ copyWork'.paths = copyWork.paths /\ copyWork'.at = copyWork.at
           /\ copyWork'.first = copyWork.first /\ copyWork'.outcome = copyWork.outcome
           /\ copyWork'.name = copyWork.name
BY DEF WorkSet

LEMMA WorkEnds ==
    ASSUME copyWork \in WorkSet, NEW outcome, Ends(outcome)
    PROVE  copyWork'.op = copyWork.op
BY DEF WorkSet, Ends

\* The same when the file was written or removed on the job's side.
LEMMA FlightEndsWith ==
    ASSUME CopyInv, NEW status \in {"done", "failed", "stopped"}, LastRowBecomes(status),
           copyWork'.op = copyWork.op, copyWork.st \in {"sending", "receiving", "packets"},
           NEW side \in {"local", "remote"}, side = Target, NEW what \in {"none", "whole"},
           Put(side, InFlight, what), status = "done" => what = "whole",
           status # "done" /\ copyWork.op = "download" => what = "none"
    PROVE  /\ copyRows' \in Seq(RowSet) /\ LastRowsAreTrue' /\ copyDisk' \in DiskType
           /\ \A p : Told(copyRows, p) => Told(copyRows', p)
           /\ status # "stopped" => Told(copyRows', copyWork.at)
<1>1. PICK name \in CopyNames : name = InFlight BY DEF CopyInv, FlightHasItsRow
<1>2. Put(side, name, what) BY <1>1
<1>3. PICK w \in {"none", "part", "whole"} : w = what OBVIOUS
<1>4. Put(side, name, w) BY <1>2, <1>3
<1>5. /\ copyDisk' \in DiskType /\ copyDisk'[side][name] = what
      /\ \A f \in CopyNames : f # name => copyDisk'[side][f] = copyDisk[side][f]
  BY <1>3, <1>4, JobNow, PutTold
<1>6. /\ \A f \in CopyNames : f # InFlight => copyDisk'[Target][f] = copyDisk[Target][f]
      /\ status = "done" => copyDisk'[Target][InFlight] = "whole"
      /\ status # "done" /\ copyWork.op = "download" => copyDisk'[Target][InFlight] = "none"
  BY <1>1, <1>5
<1> QED BY <1>5, <1>6, FlightEnds

\* The file is complete or given up, and the job goes on.
LEMMA FlightGoesOn ==
    ASSUME CopyInv, NEW status \in {"done", "failed"}, LastRowBecomes(status), UNCHANGED copyTool,
           copyTool = "scp", copyWork.st \in {"sending", "receiving"},
           NEW side \in {"local", "remote"}, side = Target, NEW what \in {"none", "whole"},
           Put(side, InFlight, what), status = "done" => what = "whole",
           status # "done" /\ copyWork.op = "download" => what = "none",
           NEW st \in {"next", "source"}, copyWork' = [copyWork EXCEPT !.st = st]
    PROVE  CopyInv'
<1>1. st \in CopyStates BY DEF CopyStates
<1>2. /\ copyWork' \in WorkSet /\ copyWork'.st = st /\ copyWork'.op = copyWork.op
      /\ copyWork'.paths = copyWork.paths /\ copyWork'.at = copyWork.at
      /\ copyWork'.first = copyWork.first /\ copyWork'.outcome = copyWork.outcome
  BY <1>1, JobNow, WorkGoes
<1>3. PICK s \in {"done", "failed", "stopped"} : s = status OBVIOUS
<1>4. /\ copyRows' \in Seq(RowSet) /\ LastRowsAreTrue' /\ copyDisk' \in DiskType
      /\ \A p : Told(copyRows, p) => Told(copyRows', p)
      /\ Told(copyRows', copyWork.at)
  BY <1>2, <1>3, FlightEndsWith
<1>5. copyWork.at \in DOMAIN copyWork.paths /\ copyWork.at # 0
  <2>1. copyWork.at \in DOMAIN copyWork.paths /\ copyWork.paths \in Seq(CopyNames) BY JobNow
  <2> QED BY <2>1
<1> QED BY <1>2, <1>4, <1>5, GoesOnKeeps

LEMMA OpenSshClientKeeps == ASSUME CopyInv, OpenSshClient PROVE CopyInv'
<1>1. copyTool = "scp" /\ copyWork.st = "new" /\ UNCHANGED <<copyTool, copyRows, copyDisk>>
  BY DEF OpenSshClient
<1>2. CASE Ends("error") BY <1>1, <1>2, JobNow, WorkEnds, RowsStay, EndsKeeps
<1>3. CASE copyWork' = [copyWork EXCEPT !.st = "next"]
  <2>1. PICK st \in {"next", "source"} : st = "next" OBVIOUS
  <2>2. st \in CopyStates BY DEF CopyStates
  <2>3. copyWork' = [copyWork EXCEPT !.st = st] BY <1>3, <2>1
  <2>4. copyWork.at = 0 BY <1>1 DEF CopyInv, WorkFits
  <2> QED BY <1>1, <2>1, <2>2, <2>3, <2>4, JobNow, WorkGoes, RowsStay, GoesOnKeeps
<1> QED BY <1>2, <1>3 DEF OpenSshClient

\* The first bytes of path at, which the rows and the files then show.
LEMMA NextPathFits ==
    ASSUME CopyInv, copyWork.at # Len(copyWork.paths)
    PROVE  copyWork.at + 1 \in DOMAIN copyWork.paths /\ copyWork.paths[copyWork.at + 1] \in CopyNames
<1>1. copyWork.at \in Nat /\ copyWork.paths \in Seq(CopyNames) BY JobNow
<1>2. copyWork.at <= Len(copyWork.paths) BY DEF CopyInv, WorkFits
<1> QED BY <1>1, <1>2

LEMMA SendNextFileKeeps == ASSUME CopyInv, SendNextFile PROVE CopyInv'
<1>1. /\ copyWork.op = "upload" /\ copyWork.st = "next" /\ copyTool = "scp" /\ copyTool' = copyTool
      /\ copyWork \in WorkSet
  BY JobNow DEF SendNextFile, At
<1>2. ASSUME NEW outcome \in {"result", "error", "stopped"}, Ends(outcome), UNCHANGED <<copyRows, copyDisk>>
      PROVE  CopyInv'
  BY <1>1, <1>2, WorkEnds, RowsStay, EndsKeeps
<1>3. ASSUME copyWork.at # Len(copyWork.paths),
             copyWork' = [copyWork EXCEPT !.st = "sending", !.at = @ + 1],
             copyRows' = Append(copyRows, [path |-> copyWork.at + 1,
                                           name |-> copyWork.paths[copyWork.at + 1], status |-> "running"]),
             Put("remote", copyWork.paths[copyWork.at + 1], "part")
      PROVE  CopyInv'
  <2> DEFINE n == copyWork.at + 1
  <2>1. n \in DOMAIN copyWork.paths /\ copyWork.paths[n] \in CopyNames BY <1>3, NextPathFits
  <2>2. n \in Nat BY <1>1 DEF WorkSet
  <2>3. PICK name \in CopyNames : name = copyWork.paths[n] BY <2>1
  <2>4. copyWork' = [copyWork EXCEPT !.st = "sending", !.at = n] BY <1>3
  <2>r. copyRows' = Append(copyRows, [path |-> n, name |-> copyWork.paths[n], status |-> "running"]) BY <1>3
  <2>d. Put("remote", copyWork.paths[n], "part") BY <1>3
  <2> HIDE DEF n
  <2>5. copyWork' \in WorkSet BY <1>1, <2>2, <2>4 DEF WorkSet, CopyStates
  <2>6. /\ copyWork'.st = "sending" /\ copyWork'.op = copyWork.op /\ copyWork'.paths = copyWork.paths
        /\ copyWork'.at = n /\ copyWork'.outcome = copyWork.outcome
    BY <1>1, <2>4 DEF WorkSet
  <2>7. InFlight' = name BY <2>3, <2>6 DEF InFlight, Path
  <2>8. RowAdded([path |-> copyWork'.at, name |-> name, status |-> "running"])
    BY <2>3, <2>6, <2>r DEF RowAdded
  <2>9. PICK side \in {"local", "remote"} : side = "remote" OBVIOUS
  <2>10. side = Target /\ Put(side, name, "part") BY <1>1, <2>3, <2>9, <2>d DEF Target
  <2>11. PICK st \in {"sending", "receiving", "packets"} : st = "sending" OBVIOUS
  <2> QED BY <1>1, <2>1, <2>5, <2>6, <2>7, <2>8, <2>10, <2>11, FileStartsKeeps
<1> QED BY <1>2, <1>3 DEF SendNextFile

LEMMA SendFileKeeps == ASSUME CopyInv, SendFile PROVE CopyInv'
<1>1. /\ copyWork.op = "upload" /\ copyWork.st = "sending" /\ copyTool = "scp" /\ copyTool' = copyTool
      /\ copyWork \in WorkSet
  BY JobNow DEF SendFile, At
<1>2. ASSUME NEW outcome \in {"error", "stopped"}, Ends(outcome), UNCHANGED <<copyRows, copyDisk>>
      PROVE  CopyInv'
  BY <1>1, <1>2, WorkEnds, RowsStay, EndsKeeps
<1>3. ASSUME copyWork' = [copyWork EXCEPT !.st = "next"], LastRowBecomes("done"), Put("remote", Path, "whole")
      PROVE  CopyInv'
  <2>1. Target = "remote" /\ InFlight = Path BY <1>1 DEF Target, InFlight
  <2>2. PICK side \in {"local", "remote"}, status \in {"done", "failed"}, what \in {"none", "whole"},
             st \in {"next", "source"} :
          side = "remote" /\ status = "done" /\ what = "whole" /\ st = "next"
    OBVIOUS
  <2>3. Put(side, InFlight, what) /\ LastRowBecomes(status) /\ copyWork' = [copyWork EXCEPT !.st = st]
    BY <1>3, <2>1, <2>2
  <2> QED BY <1>1, <2>1, <2>2, <2>3, FlightGoesOn
<1> QED BY <1>2, <1>3 DEF SendFile

LEMMA NextSourceKeeps == ASSUME CopyInv, NextSource PROVE CopyInv'
<1>1. /\ copyWork.op = "download" /\ copyWork.st = "next" /\ copyTool = "scp"
      /\ UNCHANGED <<copyTool, copyRows, copyDisk>> /\ copyWork \in WorkSet
  BY JobNow DEF NextSource, At
<1>2. CASE Ends("stopped") BY <1>1, <1>2, WorkEnds, RowsStay, EndsKeeps
<1>3. CASE copyWork.at = Len(copyWork.paths) /\ Ends("result") BY <1>1, <1>3, WorkEnds, RowsStay, EndsKeeps
<1>4. CASE /\ copyWork.at # Len(copyWork.paths)
           /\ copyWork' = [copyWork EXCEPT !.st = "source", !.at = @ + 1, !.items = 0,
                                           !.first = Len(copyRows) + 1]
  <2> DEFINE n == copyWork.at + 1
             k == Len(copyRows) + 1
  <2>1. n \in DOMAIN copyWork.paths BY <1>4, NextPathFits
  <2>2. n \in Nat /\ k \in Nat /\ n - 1 = copyWork.at /\ ~(k <= Len(copyRows)) BY JobNow
  <2>3. copyWork' = [copyWork EXCEPT !.st = "source", !.at = n, !.items = 0, !.first = k] BY <1>4
  <2>4. \A p \in 1..n : p # n => p \in 1..copyWork.at BY JobNow
  <2> HIDE DEF n, k
  <2>5. copyWork' \in WorkSet BY <1>1, <2>2, <2>3 DEF WorkSet, CopyStates
  <2>6. /\ copyWork'.st = "source" /\ copyWork'.op = copyWork.op /\ copyWork'.paths = copyWork.paths
        /\ copyWork'.at = n /\ copyWork'.outcome = copyWork.outcome /\ copyWork'.first = k
    BY <1>1, <2>3 DEF WorkSet
  <2>7. /\ copyRows' \in Seq(RowSet) /\ LastRowsAreTrue' /\ copyDisk' \in DiskType
    BY <1>1, <2>6, RowsStay
  <2>8. CopyTypeOK' BY <1>1, <2>5, <2>7 DEF CopyInv, CopyTypeOK, DiskType
  <2>9. FlightHasItsRow' BY <2>6 DEF FlightHasItsRow
  <2>10. WorkFits'
    <3>1. n <= Len(copyWork.paths)
      <4>1. copyWork.paths \in Seq(CopyNames) BY JobNow
      <4> QED BY <2>1, <4>1
    <3> QED BY <1>1, <2>1, <2>6, <3>1 DEF CopyInv, WorkFits
  <2>11. PathsAreTold'
    <3>1. copyWork.outcome = "none" BY <1>1 DEF CopyInv, WorkFits
    <3>2. \A p \in 1..copyWork.at : Told(copyRows, p) BY <1>1 DEF CopyInv, PathsAreTold
    <3>3. \A p \in 1..n : p # n => Told(copyRows', p) BY <1>1, <2>4, <3>2
    <3>4. ~(copyWork'.first <= Len(copyRows')) BY <1>1, <2>2, <2>6
    <3> QED BY <2>6, <3>1, <3>3, <3>4 DEF PathsAreTold
  <2> QED BY <2>7, <2>8, <2>9, <2>10, <2>11 DEF CopyInv
<1> QED BY <1>2, <1>3, <1>4 DEF NextSource

\* The records of a path that write no file.
LEMMA RecordKeeps ==
    ASSUME CopyInv, SourceFails \/ ReceiveControl \/ ReceiveError \/ RemovalFails \/ SourceEnds
    PROVE  CopyInv'
<1>1. /\ copyWork.op = "download" /\ copyWork.st \in {"source", "receiving"} /\ copyTool = "scp"
      /\ UNCHANGED <<copyTool, copyDisk>> /\ copyWork \in WorkSet
  BY JobNow DEF SourceFails, ReceiveControl, ReceiveError, RemovalFails, SourceEnds, Record, At
<1>2. copyWork.at \in DOMAIN copyWork.paths /\ copyWork.at # 0
  <2>1. copyWork.at \in DOMAIN copyWork.paths /\ copyWork.paths \in Seq(CopyNames) BY <1>1, JobNow
  <2> QED BY <2>1
<1>3. PICK st \in {"next", "source"} :
        /\ copyWork' \in WorkSet /\ copyWork'.st = st /\ copyWork'.op = copyWork.op
        /\ copyWork'.paths = copyWork.paths /\ copyWork'.at = copyWork.at
        /\ copyWork'.first = copyWork.first /\ copyWork'.outcome = copyWork.outcome
        /\ st = "source" => copyWork.st = "source"
        /\ ReceiveControl => st = "source"
  <2>1. CASE copyWork' = [copyWork EXCEPT !.st = "next"]
    <3>1. "next" \in CopyStates BY DEF CopyStates
    <3>2. ~ReceiveControl
      <4>1. copyWork'.st = "next" BY <1>1, <2>1 DEF WorkSet
      <4>2. ReceiveControl => copyWork'.st = "source" BY <1>1 DEF ReceiveControl, Record, At, WorkSet
      <4> QED BY <4>1, <4>2
    <3> QED BY <1>1, <2>1, <3>1, <3>2, WorkGoes
  <2>2. CASE ReceiveControl
    <3> DEFINE k == copyWork.items + 1
    <3>1. k \in Nat BY <1>1 DEF WorkSet
    <3>2. copyWork' = [copyWork EXCEPT !.items = k] /\ copyWork.st = "source"
      BY <2>2 DEF ReceiveControl, Record, At
    <3> HIDE DEF k
    <3>3. copyWork' \in WorkSet BY <1>1, <3>1, <3>2 DEF WorkSet
    <3> QED BY <1>1, <3>2, <3>3 DEF WorkSet
  <2>3. CASE ReceiveError
    <3> DEFINE k == copyWork.items + 1
    <3>1. k \in Nat BY <1>1 DEF WorkSet
    <3>2. PICK st \in {"next", "source"} : copyWork' = [copyWork EXCEPT !.items = k, !.st = st]
      BY <2>3 DEF ReceiveError, Record, At
    <3>3. copyWork.st = "source" BY <2>3 DEF ReceiveError, Record, At
    <3> HIDE DEF k
    <3>4. copyWork' \in WorkSet BY <1>1, <3>1, <3>2 DEF WorkSet, CopyStates
    <3>5. ReceiveControl => st = "source"
      <4>1. ReceiveControl => copyWork'.st = "source" BY <1>1 DEF ReceiveControl, Record, At, WorkSet
      <4>2. copyWork'.st = st BY <1>1, <3>2 DEF WorkSet
      <4> QED BY <4>1, <4>2
    <3> QED BY <1>1, <3>2, <3>3, <3>4, <3>5 DEF WorkSet
  <2> QED BY <2>1, <2>2, <2>3 DEF SourceFails, RemovalFails, SourceEnds
<1>4. CASE RowAdded(Row("none", "failed"))
  BY <1>1, <1>2, <1>3, <1>4, FailedRowAdded, GoesOnKeeps
<1>5. CASE /\ copyRows' = copyRows /\ copyWork.st = "source"
           /\ st = "next" => copyWork.first <= Len(copyRows)
  <2>1. copyWork.first <= Len(copyRows) => Told(copyRows, copyWork.at)
    BY <1>1, <1>5 DEF CopyInv, PathsAreTold
  <2>2. /\ copyRows' \in Seq(RowSet) /\ LastRowsAreTrue' /\ copyDisk' \in DiskType
        /\ \A p : Told(copyRows, p) => Told(copyRows', p)
    BY <1>1, <1>3, <1>5, RowsStay
  <2>3. copyWork.first <= Len(copyRows') => Told(copyRows', copyWork.at) BY <1>5, <2>1, <2>2
  <2>4. st = "next" => Told(copyRows', copyWork.at) BY <1>5, <2>1, <2>2
  <2> QED BY <1>1, <1>2, <1>3, <2>2, <2>3, <2>4, GoesOnKeeps
<1>6. CASE SourceFails \/ ReceiveError \/ RemovalFails
  BY <1>4, <1>6 DEF SourceFails, ReceiveError, RemovalFails, RowAdded
<1>7. CASE ReceiveControl
  BY <1>3, <1>5, <1>7 DEF ReceiveControl, Record, At
<1>8. CASE SourceEnds
  <2>1. copyWork.first \in Nat /\ Len(copyRows) \in Nat BY <1>1, JobNow DEF WorkSet
  <2> QED BY <1>4, <1>5, <1>8, <2>1 DEF SourceEnds, At, RowAdded
<1> QED BY <1>6, <1>7, <1>8

LEMMA ReceiveHeaderKeeps == ASSUME CopyInv, ReceiveHeader PROVE CopyInv'
<1>1. /\ copyWork.op = "download" /\ copyWork.st = "source" /\ copyTool = "scp" /\ copyTool' = copyTool
      /\ copyWork \in WorkSet
  BY JobNow DEF ReceiveHeader, Record, At
<1> DEFINE k == copyWork.items + 1
<1>2. k \in Nat BY <1>1 DEF WorkSet
<1>3. PICK f \in CopyNames :
        /\ copyRows' = Append(copyRows, Row(f, "running")) /\ Put("local", f, "part")
        /\ copyWork' = [copyWork EXCEPT !.items = k, !.st = "receiving", !.name = f]
  BY DEF ReceiveHeader
<1> HIDE DEF k
<1>4. copyWork' \in WorkSet BY <1>1, <1>2, <1>3 DEF WorkSet, CopyStates
<1>5. /\ copyWork'.st = "receiving" /\ copyWork'.op = copyWork.op /\ copyWork'.paths = copyWork.paths
      /\ copyWork'.at = copyWork.at /\ copyWork'.outcome = copyWork.outcome /\ copyWork'.name = f
  BY <1>1, <1>3 DEF WorkSet
<1>6. InFlight' = f BY <1>5 DEF InFlight
<1>7. RowAdded([path |-> copyWork'.at, name |-> f, status |-> "running"]) BY <1>3, <1>5 DEF RowAdded, Row
<1>8. PICK side \in {"local", "remote"}, st \in {"sending", "receiving", "packets"} :
        side = "local" /\ st = "receiving"
  OBVIOUS
<1>9. side = Target /\ Put(side, f, "part") BY <1>1, <1>3, <1>8 DEF Target
<1>10. copyWork.at \in DOMAIN copyWork.paths BY <1>1, JobNow
<1> QED BY <1>1, <1>4, <1>5, <1>6, <1>7, <1>8, <1>9, <1>10, FileStartsKeeps

\* The file of an SCP download ends: complete, given up, or stopped.
LEMMA ReceivedKeeps == ASSUME CopyInv, ReceiveWhole \/ ReceiveFails \/ ReceiveStops PROVE CopyInv'
<1>1. /\ copyWork.op = "download" /\ copyWork.st = "receiving" /\ copyTool = "scp" /\ copyTool' = copyTool
      /\ copyWork \in WorkSet
  BY JobNow DEF ReceiveWhole, ReceiveFails, ReceiveStops, At
<1>2. Target = "local" /\ InFlight = copyWork.name BY <1>1 DEF Target, InFlight
<1>3. PICK side \in {"local", "remote"} : side = "local" OBVIOUS
<1>4. CASE ReceiveWhole
  <2>1. PICK status \in {"done", "failed"}, what \in {"none", "whole"}, st \in {"next", "source"} :
          status = "done" /\ what = "whole" /\ st = "source"
    OBVIOUS
  <2>2. Put(side, InFlight, what) /\ LastRowBecomes(status) /\ copyWork' = [copyWork EXCEPT !.st = st]
    BY <1>2, <1>3, <1>4, <2>1 DEF ReceiveWhole
  <2> QED BY <1>1, <1>2, <1>3, <2>1, <2>2, FlightGoesOn
<1>5. CASE ReceiveFails
  <2>1. PICK status \in {"done", "failed"}, what \in {"none", "whole"}, st \in {"next", "source"} :
          status = "failed" /\ what = "none" /\ st = "next"
    OBVIOUS
  <2>2. Put(side, InFlight, what) /\ LastRowBecomes(status) /\ copyWork' = [copyWork EXCEPT !.st = st]
    BY <1>2, <1>3, <1>5, <2>1 DEF ReceiveFails
  <2> QED BY <1>1, <1>2, <1>3, <2>1, <2>2, FlightGoesOn
<1>6. CASE ReceiveStops
  <2>1. PICK status \in {"done", "failed", "stopped"}, what \in {"none", "whole"},
             outcome \in {"result", "error", "stopped"} :
          status = "stopped" /\ what = "none" /\ outcome = "stopped"
    OBVIOUS
  <2>2. Put(side, InFlight, what) /\ LastRowBecomes(status) /\ Ends(outcome)
    BY <1>2, <1>3, <1>6, <2>1 DEF ReceiveStops
  <2> QED BY <1>1, <1>2, <1>3, <2>1, <2>2, WorkEnds, FlightEndsWith, EndsKeeps
<1> QED BY <1>4, <1>5, <1>6

LEMMA StartTftpKeeps == ASSUME CopyInv, StartTftp PROVE CopyInv'
<1>1. copyTool = "tftp" /\ copyWork.st = "new" /\ copyTool' = copyTool /\ copyWork \in WorkSet
  BY JobNow DEF StartTftp
<1>2. CASE Ends("error") /\ UNCHANGED <<copyRows, copyDisk>> BY <1>1, <1>2, WorkEnds, RowsStay, EndsKeeps
<1>3. CASE /\ copyWork' = [copyWork EXCEPT !.st = "packets", !.at = 1]
           /\ copyRows' = <<[path |-> 1, name |-> copyWork.paths[1], status |-> "running"]>>
           /\ Put(IF copyWork.op = "download" THEN "local" ELSE "remote", copyWork.paths[1], "part")
  <2>1. copyRows = <<>> /\ copyWork.paths # <<>> /\ copyWork.paths \in Seq(CopyNames)
    BY <1>1, JobNow DEF CopyInv, WorkFits
  <2>2. 1 \in DOMAIN copyWork.paths /\ copyWork.paths[1] \in CopyNames BY <2>1
  <2>3. PICK name \in CopyNames : name = copyWork.paths[1] BY <2>2
  <2>4. copyWork' \in WorkSet BY <1>1, <1>3 DEF WorkSet, CopyStates
  <2>5. /\ copyWork'.st = "packets" /\ copyWork'.op = copyWork.op /\ copyWork'.paths = copyWork.paths
        /\ copyWork'.at = 1 /\ copyWork'.outcome = copyWork.outcome
    BY <1>1, <1>3 DEF WorkSet
  <2>6. InFlight' = name BY <2>3, <2>5 DEF InFlight, Path
  <2>7. RowAdded([path |-> copyWork'.at, name |-> name, status |-> "running"])
    <3> DEFINE row == [path |-> 1, name |-> name, status |-> "running"]
    <3>1. copyRows' = <<row>> BY <1>3, <2>3
    <3> HIDE DEF row
    <3>2. copyRows' = Append(copyRows, row) BY <2>1, <3>1
    <3> QED BY <2>5, <3>2 DEF RowAdded, row
  <2>8. PICK side \in {"local", "remote"}, st \in {"sending", "receiving", "packets"} :
          side = (IF copyWork.op = "download" THEN "local" ELSE "remote") /\ st = "packets"
    OBVIOUS
  <2>9. side = Target BY <2>8 DEF Target
  <2>10. Put(side, name, "part") BY <1>3, <2>3, <2>8
  <2> QED BY <1>1, <2>2, <2>4, <2>5, <2>6, <2>7, <2>8, <2>9, <2>10, FileStartsKeeps
<1> QED BY <1>2, <1>3 DEF StartTftp

LEMMA TftpKeeps == ASSUME CopyInv, TftpDownload \/ TftpUpload PROVE CopyInv'
<1>1. /\ copyWork.op \in {"upload", "download"} /\ copyWork.st = "packets" /\ copyTool = "tftp"
      /\ copyTool' = copyTool /\ copyWork \in WorkSet
  BY JobNow DEF TftpDownload, TftpUpload, At
<1>2. InFlight = Path BY <1>1 DEF InFlight
<1>3. PICK side \in {"local", "remote"} : side = Target BY DEF Target
<1>4. CASE Ends("error") /\ UNCHANGED <<copyRows, copyDisk>> BY <1>1, <1>4, WorkEnds, RowsStay, EndsKeeps
<1>5. CASE LastRowBecomes("done") /\ Put(side, Path, "whole") /\ Ends("result")
  <2>1. PICK status \in {"done", "failed", "stopped"}, what \in {"none", "whole"},
             outcome \in {"result", "error", "stopped"} :
          status = "done" /\ what = "whole" /\ outcome = "result"
    OBVIOUS
  <2>2. Put(side, InFlight, what) /\ LastRowBecomes(status) /\ Ends(outcome) BY <1>2, <1>5, <2>1
  <2> QED BY <1>1, <1>3, <2>1, <2>2, WorkEnds, FlightEndsWith, EndsKeeps
<1>6. CASE copyWork.op = "download" /\ LastRowBecomes("stopped") /\ Put(side, Path, "none") /\ Ends("stopped")
  <2>1. PICK status \in {"done", "failed", "stopped"}, what \in {"none", "whole"},
             outcome \in {"result", "error", "stopped"} :
          status = "stopped" /\ what = "none" /\ outcome = "stopped"
    OBVIOUS
  <2>2. Put(side, InFlight, what) /\ LastRowBecomes(status) /\ Ends(outcome) BY <1>2, <1>6, <2>1
  <2> QED BY <1>1, <1>3, <2>1, <2>2, WorkEnds, FlightEndsWith, EndsKeeps
<1>7. CASE copyWork.op = "upload" /\ LastRowBecomes("stopped") /\ Ends("stopped") /\ UNCHANGED copyDisk
  <2>1. PICK status \in {"done", "failed", "stopped"}, outcome \in {"result", "error", "stopped"} :
          status = "stopped" /\ outcome = "stopped"
    OBVIOUS
  <2>2. LastRowBecomes(status) /\ Ends(outcome) BY <1>7, <2>1
  <2>3. copyDisk' \in DiskType /\ \A f \in CopyNames : f # InFlight => copyDisk'[Target][f] = copyDisk[Target][f]
    BY <1>7, JobNow
  <2> QED BY <1>1, <1>7, <2>1, <2>2, <2>3, WorkEnds, FlightEnds, EndsKeeps
<1>8. CASE TftpDownload
  <2>1. side = "local" BY <1>3, <1>8 DEF TftpDownload, At, Target
  <2> QED BY <1>4, <1>5, <1>6, <1>8, <2>1 DEF TftpDownload, At
<1>9. CASE TftpUpload
  <2>1. side = "remote" BY <1>3, <1>9 DEF TftpUpload, At, Target
  <2> QED BY <1>4, <1>5, <1>7, <1>9, <2>1 DEF TftpUpload, At
<1> QED BY <1>8, <1>9

LEMMA FinishCopyKeeps == ASSUME CopyInv, FinishCopy PROVE CopyInv'
<1>1. /\ copyWork \in WorkSet /\ copyWork' = [copyWork EXCEPT !.st = "idle"]
      /\ UNCHANGED <<copyTool, copyRows, copyDisk>>
  BY JobNow DEF FinishCopy
<1>2. "idle" \in CopyStates BY DEF CopyStates
<1>3. /\ copyWork' \in WorkSet /\ copyWork'.st = "idle" /\ copyWork'.op = copyWork.op
      /\ copyWork'.paths = copyWork.paths /\ copyWork'.at = copyWork.at
      /\ copyWork'.outcome = copyWork.outcome
  BY <1>1, <1>2, WorkGoes
<1>4. LastRowsAreTrue' BY <1>1, <1>3, RowsStay
<1>5. CopyTypeOK' BY <1>1, <1>3 DEF CopyInv, CopyTypeOK
<1>6. FlightHasItsRow' BY <1>3 DEF FlightHasItsRow
<1>7. WorkFits' BY <1>3 DEF CopyInv, WorkFits
<1>8. PathsAreTold' BY <1>1, <1>3 DEF CopyInv, PathsAreTold
<1> QED BY <1>4, <1>5, <1>6, <1>7, <1>8 DEF CopyInv

\* Every step of a tab and of its job keeps the rows true of the files.
THEOREM CopyStep == CopyInv /\ [CopyNext]_copyVars => CopyInv'
<1> SUFFICES ASSUME CopyInv, [CopyNext]_copyVars PROVE CopyInv' OBVIOUS
<1>1. CASE CopyClicks BY <1>1, CopyClicksKeep
<1>2. CASE CopySteps
  BY <1>2, OpenSshClientKeeps, SendNextFileKeeps, SendFileKeeps, NextSourceKeeps, RecordKeeps,
     ReceiveHeaderKeeps, ReceivedKeeps, StartTftpKeeps, TftpKeeps
  DEF CopySteps
<1>3. CASE FinishCopy BY <1>3, FinishCopyKeeps
<1>4. CASE UNCHANGED copyVars BY <1>4, TabKeeps DEF copyVars
<1> QED BY <1>1, <1>2, <1>3, <1>4 DEF CopyNext

\* Of some row numbers one is the first, and one the last.
LEMMA FirstOfSome == ASSUME NEW S \in SUBSET Nat, S # {} PROVE \E m \in S : \A k \in S : m <= k
<1>1. IsWellFoundedOn(OpToRel(<, Nat), Nat) BY NatLessThanWellFounded
<1>2. PICK m \in S : \A k \in S : ~ (<<k, m>> \in OpToRel(<, Nat)) BY <1>1, WFMin
<1>3. \A k \in S : ~(k < m) BY <1>2 DEF OpToRel
<1> QED BY <1>3

LEMMA LastOfSome ==
    ASSUME NEW n \in Nat, NEW S \in SUBSET (1..n), S # {}
    PROVE  \E m \in S : \A k \in S : k <= m
<1> DEFINE bounds == {b \in Nat : \A y \in S : y <= b}
<1>1. n \in bounds OBVIOUS
<1>2. bounds \in SUBSET Nat /\ bounds # {} BY <1>1
<1>3. PICK b \in bounds : \A c \in bounds : b <= c
  <2> HIDE DEF bounds
  <2> QED BY <1>2, FirstOfSome
<1>4. b \in S
  <2>1. SUFFICES ASSUME b \notin S PROVE FALSE OBVIOUS
  <2>2. ASSUME NEW y \in S PROVE y <= b - 1 /\ b - 1 \in Nat
    <3>1. y \in Nat \ {0} /\ b \in Nat /\ y <= b /\ y # b BY <2>1
    <3> QED BY <3>1
  <2>3. b - 1 \in Nat BY <2>2
  <2>4. b - 1 \in bounds BY <2>2, <2>3
  <2> QED BY <1>3, <2>4
<1> QED BY <1>4

\* What the tables of the SCP and TFTP tabs say of a copy is true of its
\* files, and a download passes over nothing that was asked for.
THEOREM CopyReportAlwaysTrue == CopySpec => []CopyReportIsTrue
<1>1. CopyInv => CopyReportIsTrue
  <2> SUFFICES ASSUME CopyInv PROVE CopyReportIsTrue OBVIOUS
  <2>1. LastRowTellsTheFile
    <3> SUFFICES ASSUME NEW f \in CopyNames, About(f) # {}
                 PROVE  LET i == CHOOSE i \in About(f) : \A k \in About(f) : k <= i
                            status == copyRows[i].status
                        IN  /\ status = "done" => copyDisk[Target][f] = "whole"
                            /\ status \in {"stopped", "failed"} /\ copyWork.op = "download" =>
                                 copyDisk[Target][f] = "none"
      BY DEF LastRowTellsTheFile
    <3> DEFINE i == CHOOSE i \in About(f) : \A k \in About(f) : k <= i
    <3>1. copyRows \in Seq(RowSet) BY JobNow
    <3>2. About(f) \subseteq DOMAIN copyRows /\ DOMAIN copyRows = 1..Len(copyRows) /\ Len(copyRows) \in Nat
      BY <3>1 DEF About
    <3>3. \E m \in About(f) : \A k \in About(f) : k <= m BY <3>2, LastOfSome
    <3>4. i \in About(f) /\ \A k \in About(f) : k <= i BY <3>3
    <3> HIDE DEF i
    <3>5. i \in DOMAIN copyRows /\ copyRows[i].name = f BY <3>4 DEF About
    <3>6. IsLast(copyRows, i)
      <4> SUFFICES ASSUME NEW k \in DOMAIN copyRows, k > i, copyRows[k].name = copyRows[i].name PROVE FALSE
        BY DEF IsLast
      <4>1. k \in About(f) /\ k <= i BY <3>4, <3>5 DEF About
      <4> QED BY <3>2, <3>5, <4>1
    <3>7. RowIsTrue(copyRows[i], copyWork.op, copyDisk[Target])
      BY <3>5, <3>6 DEF CopyInv, LastRowsAreTrue
    <3> QED BY <3>5, <3>7 DEF RowIsTrue, i
  <2>2. EveryPathReported
    <3>1. copyWork.paths \in Seq(CopyNames) BY JobNow
    <3> QED BY <3>1 DEF CopyInv, PathsAreTold, Told, EveryPathReported
  <2> QED BY <2>1, <2>2 DEF CopyReportIsTrue
<1> QED BY <1>1, CopyStart, CopyStep, PTL DEF CopySpec

----------------------------------------------------------------------------
(* The FTP client.                                                         *)

JobStates == {"new", "waiting", "working", "moving", "posted", "finished"}
JobOps == Changes \cup {"connect", "disconnect", "list"}
RowWords == {"none", "running", "done", "stopped"}
CellSet == [what : {"none", "old", "dir", "part", "new"}, by : Nat]
FileList == [FtpFiles -> CellSet]
JobSet == [op : JobOps, sid : Nat, st : JobStates, todo : Seq(FtpFiles), cancel : BOOLEAN,
           outcome : {"none", "result", "error"}, row : [FtpFiles -> RowWords], seen : FileList]
TabSet == [connected : BOOLEAN, busy : BOOLEAN, sid : Nat, cancels : Nat, closing : BOOLEAN,
           patient : BOOLEAN, protocol : {"ftp", "sftp"}]
LinkSet == [sessions : SUBSET Nat, open : SUBSET Nat, holder : [1..MaxFtpJobs -> Nat]]
PageSet == [local : FileList, remote : FileList, shown : FileList]

FtpTypeOK ==
    /\ ftpTab \in TabSet
    /\ ftpJobs \in Seq(JobSet)
    /\ ftpQueue \in Seq(Nat)
    /\ ftpLinks \in LinkSet
    /\ ftpDisk \in PageSet

\* What a job still has to do fits its kind and its state.
TodoFits(job) ==
    /\ job.op = "mkdir" => job.todo # <<>>
    /\ job.op = "rename" => Len(job.todo) = 2
    /\ job.st = "moving" => job.todo # <<>> /\ job.op \in Transfers

\* A file a job is at, or was at when it ended with an error.
HalfWay(job, f) ==
    \/ job.st = "moving" /\ f = Head(job.todo)
    \/ Ended(job) /\ job.outcome = "error"

\* What the rows of a job say of a file that is not through, and why.
RowsFit(job) ==
    /\ job.st = "moving" => job.row[Head(job.todo)] \in {"none", "running"}
    /\ \A f \in FtpFiles :
        /\ job.row[f] = "running" => HalfWay(job, f) \/ job.cancel
        /\ job.row[f] = "stopped" => job.cancel

Fits(job) == TodoFits(job) /\ RowsFit(job)

JobsFit == \A j \in FtpJob : Fits(ftpJobs[j])

\* The answers on their way are those of the jobs that have posted one.
QueueFits ==
    /\ \A i \in DOMAIN ftpQueue : ftpQueue[i] \in FtpJob /\ ftpJobs[ftpQueue[i]].st = "posted"
    /\ \A i, k \in DOMAIN ftpQueue : ftpQueue[i] = ftpQueue[k] => i = k

TabFits ==
    /\ ftpTab.sid # 0 => ftpTab.sid \in FtpJob
    /\ ftpTab.cancels # 0 => ftpTab.cancels \in FtpJob
    /\ ftpTab.connected <=> ftpTab.sid # 0

LocksFit ==
    \A s \in 1..MaxFtpJobs : ftpLinks.holder[s] # 0 =>
        /\ ftpLinks.holder[s] \in FtpJob /\ ftpJobs[ftpLinks.holder[s]].sid = s
        /\ ftpJobs[ftpLinks.holder[s]].st \in {"working", "moving"}

\* A session is that of a job that connected.
SessionsFit ==
    \A s \in ftpLinks.sessions :
        /\ s \in FtpJob /\ ftpJobs[s].op = "connect"
        /\ ftpJobs[s].st \in {"posted", "finished"} /\ ftpJobs[s].outcome = "result"

\* What the row of its job says of a file that job has written.
CellIsTold(cell, job, f) ==
    cell.what # "dir" =>
        /\ job.row[f] = "done" <=> cell.what = "new"
        /\ cell.what = "part" => HalfWay(job, f) \/ (job.op = "upload" /\ job.cancel)

CellsFit ==
    \A side \in {"local", "remote"}, f \in FtpFiles :
        LET cell == ftpDisk[side][f] IN
        cell.by # 0 => /\ cell.by \in FtpJob /\ side = Side(ftpJobs[cell.by].op)
                       /\ CellIsTold(cell, ftpJobs[cell.by], f)

\* One job at a time, and what the last one knows.
Alone == \A j \in FtpJob : ftpJobs[j].st # "finished" => j = Len(ftpJobs) /\ ftpTab.busy
LinkIsKnown ==
    \A j \in FtpJob : ftpJobs[j].st # "finished" =>
        /\ ftpJobs[j].op = "connect" => ftpTab.sid = 0
        /\ ftpJobs[j].op = "disconnect" => ftpJobs[j].sid = ftpTab.sid
LinkIsPopped ==
    \A j \in FtpJob :
        /\ ftpJobs[j].op = "disconnect"
        /\ ftpJobs[j].st \in {"waiting", "working"} \/ (ftpJobs[j].st = "posted" /\ ftpJobs[j].outcome = "result")
        => ftpJobs[j].sid \notin ftpLinks.sessions
Reachable == \A s \in ftpLinks.sessions : s = ftpTab.sid \/ ftpJobs[s].st = "posted"
ListIsFresh ==
    \A j \in FtpJob : j = Len(ftpJobs) /\ ftpJobs[j].op \in {"connect", "list"} /\ ftpJobs[j].outcome = "result" =>
        /\ ftpJobs[j].st = "posted" => ftpJobs[j].seen = ftpDisk.remote
        /\ ftpJobs[j].st = "finished" => ftpDisk.shown = ftpDisk.remote
LastHasRead ==
    ftpTab.connected /\ ~ftpTab.closing =>
        \A j \in FtpJob : j = Len(ftpJobs) /\ ftpJobs[j].st = "finished" =>
            ftpJobs[j].op \in {"connect", "list", "disconnect"}

\* What holds for a user who waits.
Patience ==
    ftpTab.patient => Alone /\ LinkIsKnown /\ LinkIsPopped /\ Reachable /\ ListIsFresh /\ LastHasRead

FtpInv ==
    /\ FtpTypeOK /\ JobsFit /\ QueueFits /\ TabFits /\ LocksFit /\ SessionsFit /\ CellsFit
    /\ Patience

LEMMA FtpStart == FtpInit => FtpInv
<1> SUFFICES ASSUME FtpInit PROVE FtpInv OBVIOUS
<1>1. ftpJobs = <<>> /\ ftpQueue = <<>> /\ FtpJob = {} /\ DOMAIN ftpQueue = {} BY DEF FtpInit, FtpJob
<1>2. /\ ftpTab.sid = 0 /\ ftpTab.cancels = 0 /\ ~ftpTab.connected /\ ftpLinks.sessions = {}
      /\ \A s \in 1..MaxFtpJobs : ftpLinks.holder[s] = 0
  BY DEF FtpInit
<1>3. Untouched \in CellSet /\ Untouched.by = 0 BY DEF Untouched, CellSet
<1>4. [what |-> "old", by |-> 0] \in CellSet /\ [what |-> "dir", by |-> 0] \in CellSet BY DEF CellSet
<1>5. /\ ftpDisk \in PageSet
      /\ \A side \in {"local", "remote"} : \A f \in FtpFiles : ftpDisk[side][f].by = 0
  <2>1. \A f \in FtpFiles : ftpDisk.local[f] = Untouched /\ ftpDisk.shown[f] = Untouched BY DEF FtpInit
  <2>2. \A f \in FtpFiles : ftpDisk.remote[f] \in CellSet /\ ftpDisk.remote[f].by = 0
    BY <1>3, <1>4 DEF FtpInit
  <2>3. ftpDisk.local \in FileList /\ ftpDisk.remote \in FileList /\ ftpDisk.shown \in FileList
    BY <1>3, <1>4 DEF FtpInit, FileList
  <2>4. ftpDisk \in PageSet BY <2>3 DEF FtpInit, PageSet
  <2>5. \A f \in FtpFiles : ftpDisk.local[f].by = 0 /\ ftpDisk.remote[f].by = 0 BY <1>3, <2>1, <2>2
  <2>6. \A side \in {"local", "remote"} : \A f \in FtpFiles : ftpDisk[side][f].by = 0
    <3> SUFFICES ASSUME NEW side \in {"local", "remote"}, NEW f \in FtpFiles PROVE ftpDisk[side][f].by = 0
      OBVIOUS
    <3>1. CASE side = "local" BY <2>5, <3>1
    <3>2. CASE side = "remote" BY <2>5, <3>2
    <3> QED BY <3>1, <3>2
  <2> QED BY <2>4, <2>6
<1>6. ftpTab \in TabSet
  <2>1. ftpTab \in [connected : {FALSE}, busy : {FALSE}, sid : {0}, cancels : {0}, closing : {FALSE},
                   patient : BOOLEAN, protocol : {"ftp", "sftp"}]
    BY DEF FtpInit
  <2>2. {FALSE} \subseteq BOOLEAN /\ {0} \subseteq Nat OBVIOUS
  <2> QED BY <2>1, <2>2 DEF TabSet
<1>7. ftpLinks \in LinkSet BY FtpAssumption DEF FtpInit, LinkSet
<1>8. ftpJobs \in Seq(JobSet) /\ ftpQueue \in Seq(Nat) BY <1>1
<1>9. FtpTypeOK BY <1>5, <1>6, <1>7, <1>8 DEF FtpTypeOK
<1>10. JobsFit /\ QueueFits BY <1>1 DEF JobsFit, QueueFits
<1>11. TabFits /\ LocksFit /\ SessionsFit BY <1>2 DEF TabFits, LocksFit, SessionsFit
<1>12. CellsFit BY <1>5 DEF CellsFit
<1>13. Patience
  BY <1>1, <1>2 DEF Patience, Alone, LinkIsKnown, LinkIsPopped, Reachable, ListIsFresh, LastHasRead
<1> QED BY <1>9, <1>10, <1>11, <1>12, <1>13 DEF FtpInv

\* One job changed, and nothing about how many there are.
LEMMA JobChanged ==
    ASSUME NEW s \in Seq(JobSet), NEW j \in DOMAIN s, NEW new \in JobSet,
           NEW t, t = [s EXCEPT ![j] = new]
    PROVE  /\ t \in Seq(JobSet) /\ Len(t) = Len(s) /\ DOMAIN t = DOMAIN s
           /\ t[j] = new /\ \A k \in DOMAIN s : k # j => t[k] = s[k]
OBVIOUS

\* What a step of the service may do to the files: job j writes cells of its side and tells of
\* them, or leaves a cell that is nobody's.
CellWritten(side, f, j, old, new) ==
    \/ /\ ftpDisk'[side][f] = ftpDisk[side][f]
       /\ ftpDisk[side][f].by = j /\ CellIsTold(ftpDisk[side][f], old, f) =>
            CellIsTold(ftpDisk[side][f], new, f)
    \/ ftpDisk'[side][f].by = 0
    \/ /\ ftpDisk'[side][f].by = j /\ side = Side(new.op)
       /\ CellIsTold(ftpDisk'[side][f], new, f)

\* and to the locks: only j takes one, the one of its session, while it is at work.
LockTaken(s, j, new) ==
    \/ ftpLinks'.holder[s] = 0
    \/ ftpLinks'.holder[s] = j /\ new.sid = s /\ new.st \in {"working", "moving"}
    \/ ftpLinks'.holder[s] = ftpLinks.holder[s] /\ ftpLinks.holder[s] # j

LEMMA ServiceKeeps ==
    ASSUME FtpInv, NEW j \in FtpJob, NEW old, old = ftpJobs[j], NEW new \in JobSet,
           ftpJobs' = [ftpJobs EXCEPT ![j] = new],
           old.st \notin {"posted", "finished"}, new.st # "finished",
           new.op = old.op, new.sid = old.sid, Fits(new), ftpTab' = ftpTab,
           \/ new.st # "posted" /\ ftpQueue' = ftpQueue
           \/ new.st = "posted" /\ ftpQueue' = Append(ftpQueue, j),
           ftpLinks' \in LinkSet, ftpDisk' \in PageSet, ftpDisk'.shown = ftpDisk.shown,
           \A s \in 1..MaxFtpJobs : LockTaken(s, j, new),
           \A s \in ftpLinks'.sessions : s \in ftpLinks.sessions \/ s = j,
           j \in ftpLinks'.sessions => new.op = "connect" /\ new.st = "posted" /\ new.outcome = "result",
           \A side \in {"local", "remote"}, f \in FtpFiles : CellWritten(side, f, j, old, new),
           /\ ftpTab.patient /\ new.op = "disconnect"
           /\ new.st \in {"waiting", "working"} \/ (new.st = "posted" /\ new.outcome = "result")
           => new.sid \notin ftpLinks'.sessions,
           new.op \in {"connect", "list"} /\ new.st = "posted" /\ new.outcome = "result" =>
               new.seen = ftpDisk'.remote
    PROVE  FtpInv'
<1>0. /\ ftpJobs \in Seq(JobSet) /\ FtpJob = DOMAIN ftpJobs /\ ftpQueue \in Seq(Nat) /\ ftpTab \in TabSet
      /\ ftpLinks \in LinkSet
  BY DEF FtpInv, FtpTypeOK, FtpJob
<1>1. /\ ftpJobs' \in Seq(JobSet) /\ Len(ftpJobs') = Len(ftpJobs) /\ FtpJob' = FtpJob
      /\ ftpJobs'[j] = new /\ \A k \in FtpJob : k # j => ftpJobs'[k] = ftpJobs[k]
  BY <1>0, JobChanged DEF FtpJob
<1>2. j \in Nat /\ FtpJob = 1..Len(ftpJobs) BY <1>0
<1>3. FtpTypeOK'
  <2>1. ftpQueue' \in Seq(Nat) BY <1>0, <1>2
  <2> QED BY <1>0, <1>1, <2>1 DEF FtpTypeOK
<1>4. JobsFit' BY <1>1 DEF FtpInv, JobsFit
<1>5. QueueFits'
  <2>1. \A i \in DOMAIN ftpQueue : ftpQueue[i] # j BY DEF FtpInv, QueueFits
  <2>2. \A i \in DOMAIN ftpQueue : ftpQueue[i] \in FtpJob' /\ ftpJobs'[ftpQueue[i]].st = "posted"
    BY <1>1, <2>1 DEF FtpInv, QueueFits
  <2>3. CASE ftpQueue' = ftpQueue BY <2>2, <2>3 DEF FtpInv, QueueFits
  <2>4. CASE new.st = "posted" /\ ftpQueue' = Append(ftpQueue, j)
    <3> DEFINE n == Len(ftpQueue)
    <3>1. n \in Nat /\ DOMAIN ftpQueue = 1..n BY <1>0
    <3>2. DOMAIN ftpQueue' = 1..(n + 1) /\ ftpQueue'[n + 1] = j BY <1>0, <1>2, <2>4
    <3>3. \A i \in 1..n : ftpQueue'[i] = ftpQueue[i] BY <1>0, <1>2, <2>4
    <3> HIDE DEF n
    <3>4. \A i \in DOMAIN ftpQueue' : i = n + 1 \/ i \in 1..n BY <3>1, <3>2
    <3>5. \A i \in DOMAIN ftpQueue' : ftpQueue'[i] \in FtpJob' /\ ftpJobs'[ftpQueue'[i]].st = "posted"
      BY <1>1, <2>2, <2>4, <3>1, <3>2, <3>3, <3>4
    <3>6. \A i, k \in DOMAIN ftpQueue' : ftpQueue'[i] = ftpQueue'[k] => i = k
      BY <2>1, <3>1, <3>2, <3>3, <3>4 DEF FtpInv, QueueFits
    <3> QED BY <3>5, <3>6 DEF QueueFits
  <2> QED BY <2>3, <2>4
<1>6. TabFits' BY <1>1 DEF FtpInv, TabFits
<1>7. LocksFit'
  <2> SUFFICES ASSUME NEW s \in 1..MaxFtpJobs, ftpLinks'.holder[s] # 0
               PROVE  /\ ftpLinks'.holder[s] \in FtpJob' /\ ftpJobs'[ftpLinks'.holder[s]].sid = s
                      /\ ftpJobs'[ftpLinks'.holder[s]].st \in {"working", "moving"}
    BY DEF LocksFit
  <2>1. CASE ftpLinks'.holder[s] = j /\ new.sid = s /\ new.st \in {"working", "moving"} BY <1>1, <2>1
  <2>2. CASE ftpLinks'.holder[s] = ftpLinks.holder[s] /\ ftpLinks.holder[s] # j
    BY <1>1, <2>2 DEF FtpInv, LocksFit
  <2> QED BY <2>1, <2>2 DEF LockTaken
<1>8. SessionsFit'
  <2> SUFFICES ASSUME NEW s \in ftpLinks'.sessions
               PROVE  /\ s \in FtpJob' /\ ftpJobs'[s].op = "connect"
                      /\ ftpJobs'[s].st \in {"posted", "finished"} /\ ftpJobs'[s].outcome = "result"
    BY DEF SessionsFit
  <2>1. CASE s = j BY <1>1, <2>1
  <2>2. CASE s # j BY <1>1, <2>2 DEF FtpInv, SessionsFit
  <2> QED BY <2>1, <2>2
<1>9. CellsFit'
  <2> SUFFICES ASSUME NEW side \in {"local", "remote"}, NEW f \in FtpFiles, ftpDisk'[side][f].by # 0
               PROVE  /\ ftpDisk'[side][f].by \in FtpJob'
                      /\ side = Side(ftpJobs'[ftpDisk'[side][f].by].op)
                      /\ CellIsTold(ftpDisk'[side][f], ftpJobs'[ftpDisk'[side][f].by], f)
    BY DEF CellsFit
  <2>1. CellWritten(side, f, j, old, new) OBVIOUS
  <2>2. CASE /\ ftpDisk'[side][f] = ftpDisk[side][f] /\ ftpDisk[side][f].by = j
             /\ CellIsTold(ftpDisk[side][f], old, f) => CellIsTold(ftpDisk[side][f], new, f)
    <3>1. /\ j \in FtpJob' /\ ftpJobs'[j] = new /\ ftpDisk'[side][f].by = j BY <1>1, <2>2
    <3>2. /\ side = Side(old.op) /\ CellIsTold(ftpDisk[side][f], old, f)
      BY <2>2 DEF FtpInv, CellsFit
    <3> QED BY <2>2, <3>1, <3>2
  <2>3. CASE ftpDisk'[side][f] = ftpDisk[side][f] /\ ftpDisk[side][f].by # j
    BY <1>1, <2>3 DEF FtpInv, CellsFit
  <2>4. CASE ftpDisk'[side][f].by = j /\ side = Side(new.op) /\ CellIsTold(ftpDisk'[side][f], new, f)
    BY <1>1, <2>4
  <2> QED BY <2>1, <2>2, <2>3, <2>4 DEF CellWritten
<1>10. Patience'
  <2> SUFFICES ASSUME ftpTab.patient
               PROVE  (Alone /\ LinkIsKnown /\ LinkIsPopped /\ Reachable /\ ListIsFresh /\ LastHasRead)'
    BY DEF Patience
  <2>1. Alone /\ LinkIsKnown /\ LinkIsPopped /\ Reachable BY DEF FtpInv, Patience
  <2>2. j = Len(ftpJobs) /\ ftpTab.busy BY <2>1 DEF Alone
  <2>3. \A k \in FtpJob : k # j => ftpJobs[k].st = "finished" BY <2>1, <2>2 DEF Alone
  <2>4. Alone' BY <1>1, <2>2, <2>3 DEF Alone
  <2>5. LinkIsKnown' BY <1>1, <2>1 DEF LinkIsKnown
  <2>6. LinkIsPopped' BY <1>1, <2>3 DEF LinkIsPopped
  <2>7. Reachable' BY <1>1, <2>1, <2>3 DEF FtpInv, SessionsFit, Reachable
  <2>8. ListIsFresh' BY <1>1, <2>2 DEF ListIsFresh
  <2>9. LastHasRead' BY <1>1, <2>2 DEF LastHasRead
  <2> QED BY <2>4, <2>5, <2>6, <2>7, <2>8, <2>9
<1> QED BY <1>3, <1>4, <1>5, <1>6, <1>7, <1>8, <1>9, <1>10 DEF FtpInv

\* Forms of the steps, as operators so that the lemmas can speak of them.
JobMoves(j, new) == ftpJobs' = [ftpJobs EXCEPT ![j] = new]
ToState(j, st) == ftpJobs' = [ftpJobs EXCEPT ![j].st = st]
HasListed(j) ==
    ftpJobs' = [ftpJobs EXCEPT ![j].st = "posted", ![j].outcome = "result", ![j].seen = ftpDisk.remote]
Unlocks(j) == ftpLinks' = [ftpLinks EXCEPT !.holder[ftpJobs[j].sid] = 0]
Writes(side, f, cell) == ftpDisk' = [ftpDisk EXCEPT ![side][f] = cell]

\* A job in another state, otherwise as it was.
SameWork(old, new) ==
    /\ new.op = old.op /\ new.sid = old.sid /\ new.row = old.row /\ new.todo = old.todo
    /\ new.cancel = old.cancel

\* What it left half way is still so.
Follows(old, new) == Fits(new) /\ \A f \in FtpFiles : HalfWay(old, f) => HalfWay(new, f)

LEMMA WorkFollows ==
    ASSUME NEW old, NEW new, Fits(old), SameWork(old, new), new.st # "moving",
           old.st \notin {"moving", "posted", "finished"} \/ (Ended(new) /\ new.outcome = "error")
    PROVE  Follows(old, new)
<1>1. \A f \in FtpFiles : HalfWay(old, f) => HalfWay(new, f) BY DEF HalfWay, Ended
<1>2. TodoFits(new) BY DEF Fits, TodoFits, SameWork
<1>3. RowsFit(new) BY <1>1 DEF Fits, RowsFit, SameWork
<1> QED BY <1>1, <1>2, <1>3 DEF Follows, Fits

\* A row that is not touched still tells of its file.
LEMMA StillTold ==
    ASSUME NEW cell, NEW f, NEW old, NEW new, CellIsTold(cell, old, f), new.op = old.op,
           new.row[f] = old.row[f], new.cancel = old.cancel \/ new.cancel, HalfWay(old, f) => HalfWay(new, f)
    PROVE  CellIsTold(cell, new, f)
BY DEF CellIsTold

LEMMA JobKnown ==
    ASSUME FtpInv, NEW j \in FtpJob
    PROVE  ftpJobs[j] \in JobSet /\ j \in Nat \ {0} /\ Fits(ftpJobs[j])
<1>1. ftpJobs \in Seq(JobSet) /\ FtpJob = 1..Len(ftpJobs) BY DEF FtpInv, FtpTypeOK, FtpJob
<1>2. Fits(ftpJobs[j]) BY DEF FtpInv, JobsFit
<1> QED BY <1>1, <1>2

LEMMA StateMoves ==
    ASSUME FtpInv, NEW j \in FtpJob, NEW st \in JobStates \ {"moving"}, ToState(j, st),
           ftpJobs[j].st \notin {"moving", "posted", "finished"}
    PROVE  \E new \in JobSet : /\ JobMoves(j, new) /\ SameWork(ftpJobs[j], new) /\ Follows(ftpJobs[j], new)
                               /\ new.st = st /\ new.outcome = ftpJobs[j].outcome
<1> DEFINE old == ftpJobs[j]
           new == [old EXCEPT !.st = st]
<1>1. old \in JobSet /\ Fits(old) BY JobKnown
<1>2. new \in JobSet /\ new.st = st /\ new.outcome = old.outcome BY <1>1 DEF JobSet
<1>3. SameWork(old, new) BY <1>1 DEF SameWork, JobSet
<1>4. JobMoves(j, new) BY DEF JobMoves, ToState
<1> HIDE DEF new
<1>5. Follows(old, new) BY <1>1, <1>2, <1>3, WorkFollows
<1> QED BY <1>2, <1>3, <1>4, <1>5

LEMMA PostMoves ==
    ASSUME FtpInv, NEW j \in FtpJob, NEW outcome \in {"result", "error"}, Post(j, outcome),
           ftpJobs[j].st \notin {"moving", "posted", "finished"} \/ outcome = "error"
    PROVE  \E new \in JobSet : /\ JobMoves(j, new) /\ SameWork(ftpJobs[j], new) /\ Follows(ftpJobs[j], new)
                               /\ new.st = "posted" /\ new.outcome = outcome
<1> DEFINE old == ftpJobs[j]
           mid == [old EXCEPT !.st = "posted"]
           new == [mid EXCEPT !.outcome = outcome]
<1>1. old \in JobSet /\ Fits(old) BY JobKnown
<1>2. mid \in JobSet /\ mid.st = "posted" /\ SameWork(old, mid) BY <1>1 DEF JobSet, JobStates, SameWork
<1>3. [ftpJobs EXCEPT ![j].st = "posted"] = [ftpJobs EXCEPT ![j] = mid] OBVIOUS
<1>4. ftpJobs' = [[ftpJobs EXCEPT ![j].st = "posted"] EXCEPT ![j].outcome = outcome] BY DEF Post
<1>5. j \in DOMAIN ftpJobs BY DEF FtpJob
<1> HIDE DEF mid
<1>6. new \in JobSet /\ new.st = "posted" /\ new.outcome = outcome BY <1>2 DEF JobSet
<1>7. SameWork(old, new) BY <1>2 DEF SameWork, JobSet
<1>8. JobMoves(j, new) BY <1>3, <1>4, <1>5 DEF JobMoves
<1> HIDE DEF new
<1>9. Follows(old, new) BY <1>1, <1>6, <1>7, WorkFollows DEF Ended
<1> QED BY <1>6, <1>7, <1>8, <1>9

LEMMA ListMoves ==
    ASSUME FtpInv, NEW j \in FtpJob, HasListed(j), ftpJobs[j].st \notin {"moving", "posted", "finished"}
    PROVE  \E new \in JobSet : /\ JobMoves(j, new) /\ SameWork(ftpJobs[j], new) /\ Follows(ftpJobs[j], new)
                               /\ new.st = "posted" /\ new.outcome = "result" /\ new.seen = ftpDisk.remote
<1> DEFINE old == ftpJobs[j]
           mid == [old EXCEPT !.st = "posted"]
           told == [mid EXCEPT !.outcome = "result"]
           new == [told EXCEPT !.seen = ftpDisk.remote]
<1>1. old \in JobSet /\ Fits(old) BY JobKnown
<1>2. mid \in JobSet /\ mid.st = "posted" /\ SameWork(old, mid) BY <1>1 DEF JobSet, JobStates, SameWork
<1>3. [ftpJobs EXCEPT ![j].st = "posted"] = [ftpJobs EXCEPT ![j] = mid] OBVIOUS
<1>4. ftpJobs' = [[[ftpJobs EXCEPT ![j].st = "posted"] EXCEPT ![j].outcome = "result"]
                     EXCEPT ![j].seen = ftpDisk.remote]
  BY DEF HasListed
<1>5. j \in DOMAIN ftpJobs BY DEF FtpJob
<1>6. ftpDisk.remote \in FileList BY DEF FtpInv, FtpTypeOK, PageSet
<1> HIDE DEF mid
<1>7. told \in JobSet /\ told.st = "posted" /\ told.outcome = "result" BY <1>2 DEF JobSet
<1>8. SameWork(old, told) BY <1>2 DEF SameWork, JobSet
<1>9. [[ftpJobs EXCEPT ![j] = mid] EXCEPT ![j].outcome = "result"] = [ftpJobs EXCEPT ![j] = told]
  BY <1>5
<1> HIDE DEF told
<1>10. new \in JobSet /\ new.st = "posted" /\ new.outcome = "result" /\ new.seen = ftpDisk.remote
  BY <1>6, <1>7 DEF JobSet
<1>11. SameWork(old, new) BY <1>7, <1>8 DEF SameWork, JobSet
<1>12. JobMoves(j, new) BY <1>3, <1>4, <1>5, <1>9 DEF JobMoves
<1> HIDE DEF new
<1>13. Follows(old, new) BY <1>1, <1>10, <1>11, WorkFollows
<1> QED BY <1>10, <1>11, <1>12, <1>13

\* The locks when nobody takes or gives one, and when job j gives its own.
LEMMA LocksStay ==
    ASSUME FtpInv, NEW j \in FtpJob, NEW new, new.sid = ftpJobs[j].sid,
           ftpLinks'.holder = ftpLinks.holder,
           ftpJobs[j].st \notin {"working", "moving"} \/ new.st \in {"working", "moving"}
    PROVE  \A s \in 1..MaxFtpJobs : LockTaken(s, j, new)
<1> SUFFICES ASSUME NEW s \in 1..MaxFtpJobs PROVE LockTaken(s, j, new) OBVIOUS
<1>1. j # 0 BY JobKnown
<1> QED BY <1>1 DEF FtpInv, LocksFit, LockTaken

LEMMA UnlockTold ==
    ASSUME FtpInv, NEW j \in FtpJob, Unlocks(j)
    PROVE  /\ ftpLinks' \in LinkSet /\ ftpLinks'.sessions = ftpLinks.sessions
           /\ \A new : \A s \in 1..MaxFtpJobs : LockTaken(s, j, new)
<1> DEFINE sid == ftpJobs[j].sid
           holder == [ftpLinks.holder EXCEPT ![sid] = 0]
<1>1. ftpLinks \in LinkSet BY DEF FtpInv, FtpTypeOK
<1>2. ftpLinks.holder \in [1..MaxFtpJobs -> Nat] BY <1>1 DEF LinkSet
<1>3. holder \in [1..MaxFtpJobs -> Nat] BY <1>2
<1>4. \A s \in 1..MaxFtpJobs : holder[s] = (IF s = sid THEN 0 ELSE ftpLinks.holder[s]) BY <1>2
<1>5. ftpLinks' = [ftpLinks EXCEPT !.holder = holder] BY <1>1 DEF Unlocks
<1>6. j # 0 BY JobKnown
<1>7. \A s \in 1..MaxFtpJobs : ftpLinks.holder[s] = j => s = sid BY <1>6 DEF FtpInv, LocksFit
<1> HIDE DEF holder, sid
<1>8. ftpLinks' \in LinkSet BY <1>1, <1>3, <1>5 DEF LinkSet
<1>9. ftpLinks'.sessions = ftpLinks.sessions /\ ftpLinks'.holder = holder BY <1>1, <1>5 DEF LinkSet
<1>10. \A new : \A s \in 1..MaxFtpJobs : LockTaken(s, j, new) BY <1>4, <1>7, <1>9 DEF LockTaken
<1> QED BY <1>8, <1>9, <1>10

\* A step of the service that leaves the files alone.
LEMMA CommandKeeps ==
    ASSUME FtpInv, NEW j \in FtpJob, NEW new \in JobSet, JobMoves(j, new), SameWork(ftpJobs[j], new),
           ftpJobs[j].st \notin {"posted", "finished"}, new.st # "finished", Follows(ftpJobs[j], new),
           UNCHANGED <<ftpTab, ftpDisk>>,
           \/ new.st # "posted" /\ ftpQueue' = ftpQueue
           \/ new.st = "posted" /\ ftpQueue' = Append(ftpQueue, j),
           ftpLinks' \in LinkSet,
           \A s \in 1..MaxFtpJobs : LockTaken(s, j, new),
           \A s \in ftpLinks'.sessions : s \in ftpLinks.sessions \/ s = j,
           j \in ftpLinks'.sessions => new.op = "connect" /\ new.st = "posted" /\ new.outcome = "result",
           /\ ftpTab.patient /\ new.op = "disconnect"
           /\ new.st \in {"waiting", "working"} \/ (new.st = "posted" /\ new.outcome = "result")
           => new.sid \notin ftpLinks'.sessions,
           new.op \in {"connect", "list"} /\ new.st = "posted" /\ new.outcome = "result" =>
               new.seen = ftpDisk.remote
    PROVE  FtpInv'
<1>1. PICK old : old = ftpJobs[j] OBVIOUS
<1>2. ftpDisk' \in PageSet /\ ftpDisk'.shown = ftpDisk.shown BY DEF FtpInv, FtpTypeOK
<1>3. \A side \in {"local", "remote"}, f \in FtpFiles : CellWritten(side, f, j, old, new)
  BY <1>1, StillTold DEF CellWritten, SameWork, Follows
<1>4. new.op = old.op /\ new.sid = old.sid /\ Fits(new) BY <1>1 DEF SameWork, Follows
<1>5. ftpJobs' = [ftpJobs EXCEPT ![j] = new] BY DEF JobMoves
<1> QED BY ZenonT(60), <1>1, <1>2, <1>3, <1>4, <1>5, ServiceKeeps

LEMMA ServiceConnectKeeps == ASSUME FtpInv, NEW j \in FtpJob, ServiceConnect(j) PROVE FtpInv'
<1>1. /\ ftpJobs[j].op = "connect" /\ ftpJobs[j].st = "new" /\ UNCHANGED <<ftpTab, ftpDisk>>
  BY DEF ServiceConnect
<1>2. ftpLinks \in LinkSet /\ j \in Nat BY JobKnown DEF FtpInv, FtpTypeOK
<1>3. j \notin ftpLinks.sessions BY <1>1 DEF FtpInv, SessionsFit
<1>4. ASSUME Post(j, "error"), ftpLinks' \in LinkSet, ftpLinks'.sessions = ftpLinks.sessions,
             ftpLinks'.holder = ftpLinks.holder
      PROVE  FtpInv'
  <2>1. PICK outcome \in {"result", "error"} : outcome = "error" OBVIOUS
  <2>2. Post(j, outcome) BY <1>4, <2>1
  <2>3. PICK new \in JobSet : /\ JobMoves(j, new) /\ SameWork(ftpJobs[j], new) /\ Follows(ftpJobs[j], new)
                              /\ new.st = "posted" /\ new.outcome = outcome
    BY <1>1, <2>2, PostMoves
  <2>4. new.op = "connect" /\ new.sid = ftpJobs[j].sid BY <1>1, <2>3 DEF SameWork
  <2>5. \A s \in 1..MaxFtpJobs : LockTaken(s, j, new) BY <1>1, <1>4, <2>4, LocksStay
  <2>6. ftpQueue' = Append(ftpQueue, j) BY <1>4 DEF Post
  <2> QED BY <1>1, <1>3, <1>4, <2>1, <2>3, <2>4, <2>5, <2>6, CommandKeeps
<1>5. CASE Post(j, "error") /\ UNCHANGED ftpLinks BY <1>2, <1>4, <1>5
<1>6. CASE Post(j, "error") /\ ftpLinks' = [ftpLinks EXCEPT !.open = @ \cup {j}]
  <2>1. ftpLinks' \in LinkSet BY <1>2, <1>6 DEF LinkSet
  <2>2. ftpLinks'.sessions = ftpLinks.sessions /\ ftpLinks'.holder = ftpLinks.holder BY <1>2, <1>6 DEF LinkSet
  <2> QED BY <1>4, <1>6, <2>1, <2>2
<1>7. CASE /\ ftpLinks' = [ftpLinks EXCEPT !.sessions = @ \cup {j}, !.open = @ \cup {j}]
           /\ HasListed(j) /\ ftpQueue' = Append(ftpQueue, j)
  <2>1. PICK new \in JobSet : /\ JobMoves(j, new) /\ SameWork(ftpJobs[j], new) /\ Follows(ftpJobs[j], new)
                              /\ new.st = "posted" /\ new.outcome = "result" /\ new.seen = ftpDisk.remote
    BY <1>1, <1>7, ListMoves
  <2>2. new.op = "connect" /\ new.sid = ftpJobs[j].sid BY <1>1, <2>1 DEF SameWork
  <2>3. ftpLinks' \in LinkSet BY <1>2, <1>7 DEF LinkSet
  <2>4. ftpLinks'.sessions = ftpLinks.sessions \cup {j} /\ ftpLinks'.holder = ftpLinks.holder
    BY <1>2, <1>7 DEF LinkSet
  <2>5. \A s \in 1..MaxFtpJobs : LockTaken(s, j, new) BY <1>1, <2>2, <2>4, LocksStay
  <2> QED BY <1>1, <1>7, <2>1, <2>2, <2>3, <2>4, <2>5, CommandKeeps
<1> QED BY <1>5, <1>6, <1>7 DEF ServiceConnect, HasListed

LEMMA GetSessionKeeps == ASSUME FtpInv, NEW j \in FtpJob, GetSession(j) \/ PopSession(j) PROVE FtpInv'
<1>1. /\ ftpJobs[j].op # "connect" /\ ftpJobs[j].st = "new" /\ UNCHANGED <<ftpTab, ftpDisk>>
  BY DEF GetSession, PopSession
<1>2. ftpLinks \in LinkSet BY DEF FtpInv, FtpTypeOK
<1>3. j \notin ftpLinks.sessions BY <1>1 DEF FtpInv, SessionsFit
<1>4. CASE Post(j, "error") /\ UNCHANGED ftpLinks
  <2>1. PICK outcome \in {"result", "error"} : outcome = "error" OBVIOUS
  <2>2. Post(j, outcome) BY <1>4, <2>1
  <2>3. PICK new \in JobSet : /\ JobMoves(j, new) /\ SameWork(ftpJobs[j], new) /\ Follows(ftpJobs[j], new)
                              /\ new.st = "posted" /\ new.outcome = outcome
    BY <1>1, <2>2, PostMoves
  <2>4. new.sid = ftpJobs[j].sid BY <2>3 DEF SameWork
  <2>5. \A s \in 1..MaxFtpJobs : LockTaken(s, j, new) BY <1>1, <1>4, <2>4, LocksStay
  <2>6. ftpQueue' = Append(ftpQueue, j) BY <1>4 DEF Post
  <2> QED BY <1>1, <1>2, <1>3, <1>4, <2>1, <2>3, <2>5, <2>6, CommandKeeps
<1>5. CASE /\ ToState(j, "waiting") /\ ftpQueue' = ftpQueue
           /\ ftpLinks' \in LinkSet /\ ftpLinks'.holder = ftpLinks.holder
           /\ ftpLinks'.sessions \subseteq ftpLinks.sessions
           /\ ftpJobs[j].op = "disconnect" => ftpJobs[j].sid \notin ftpLinks'.sessions
  <2>1. PICK st \in JobStates \ {"moving"} : st = "waiting" BY DEF JobStates
  <2>2. ToState(j, st) BY <1>5, <2>1
  <2>3. PICK new \in JobSet : /\ JobMoves(j, new) /\ SameWork(ftpJobs[j], new) /\ Follows(ftpJobs[j], new)
                              /\ new.st = st /\ new.outcome = ftpJobs[j].outcome
    BY <1>1, <2>2, StateMoves
  <2>4. new.sid = ftpJobs[j].sid /\ new.op = ftpJobs[j].op BY <2>3 DEF SameWork
  <2>5. \A s \in 1..MaxFtpJobs : LockTaken(s, j, new) BY <1>1, <1>5, <2>4, LocksStay
  <2>6. j \notin ftpLinks'.sessions /\ \A s \in ftpLinks'.sessions : s \in ftpLinks.sessions BY <1>3, <1>5
  <2>7. new.st = "waiting" BY <2>1, <2>3
  <2> QED BY <1>1, <1>5, <2>3, <2>4, <2>5, <2>6, <2>7, CommandKeeps
<1>6. CASE GetSession(j) BY <1>2, <1>4, <1>5, <1>6 DEF GetSession, ToState
<1>7. CASE PopSession(j)
  <2>1. CASE ftpLinks' = [ftpLinks EXCEPT !.sessions = @ \ {ftpJobs[j].sid}]
    <3>1. ftpLinks' \in LinkSet BY <1>2, <2>1 DEF LinkSet
    <3>2. ftpLinks'.sessions = ftpLinks.sessions \ {ftpJobs[j].sid} /\ ftpLinks'.holder = ftpLinks.holder
      BY <1>2, <2>1 DEF LinkSet
    <3> QED BY <1>4, <1>5, <1>7, <3>1, <3>2 DEF PopSession, ToState
  <2>2. CASE ftpLinks' # [ftpLinks EXCEPT !.sessions = @ \ {ftpJobs[j].sid}]
    BY <1>4, <1>7, <2>2 DEF PopSession
  <2> QED BY <2>1, <2>2
<1> QED BY <1>6, <1>7

LEMMA TakeLockKeeps == ASSUME FtpInv, NEW j \in FtpJob, TakeLock(j) PROVE FtpInv'
<1>1. /\ ftpJobs[j].st = "waiting" /\ UNCHANGED <<ftpTab, ftpQueue, ftpDisk>> /\ ToState(j, "working")
      /\ ftpLinks' = [ftpLinks EXCEPT !.holder[ftpJobs[j].sid] = j]
  BY DEF TakeLock, ToState
<1>2. PICK st \in JobStates \ {"moving"} : st = "working" BY DEF JobStates
<1>3. ToState(j, st) BY <1>1, <1>2
<1>4. PICK new \in JobSet : /\ JobMoves(j, new) /\ SameWork(ftpJobs[j], new) /\ Follows(ftpJobs[j], new)
                            /\ new.st = st /\ new.outcome = ftpJobs[j].outcome
  BY <1>1, <1>3, StateMoves
<1>5. new.sid = ftpJobs[j].sid /\ new.op = ftpJobs[j].op /\ new.st = "working" BY <1>2, <1>4 DEF SameWork
<1> DEFINE sid == ftpJobs[j].sid
           holder == [ftpLinks.holder EXCEPT ![sid] = j]
<1>6. ftpLinks \in LinkSet BY DEF FtpInv, FtpTypeOK
<1>7. ftpLinks.holder \in [1..MaxFtpJobs -> Nat] /\ j \in Nat BY <1>6, JobKnown DEF LinkSet
<1>8. holder \in [1..MaxFtpJobs -> Nat] BY <1>7
<1>9. \A s \in 1..MaxFtpJobs : holder[s] = (IF s = sid THEN j ELSE ftpLinks.holder[s]) BY <1>7
<1>10. ftpLinks' = [ftpLinks EXCEPT !.holder = holder] BY <1>1, <1>6
<1>11. \A s \in 1..MaxFtpJobs : ftpLinks.holder[s] # j
  BY <1>1, JobKnown DEF FtpInv, LocksFit
<1>12. new.sid = sid BY <1>5
<1> HIDE DEF holder, sid
<1>13. ftpLinks' \in LinkSet BY <1>6, <1>8, <1>10 DEF LinkSet
<1>14. ftpLinks'.sessions = ftpLinks.sessions /\ ftpLinks'.holder = holder BY <1>6, <1>10 DEF LinkSet
<1>15. \A s \in 1..MaxFtpJobs : LockTaken(s, j, new)
  BY <1>5, <1>9, <1>11, <1>12, <1>14 DEF LockTaken
<1>16. j \notin ftpLinks.sessions BY <1>1 DEF FtpInv, SessionsFit
<1>17. ftpTab.patient /\ new.op = "disconnect" => new.sid \notin ftpLinks.sessions
  BY <1>1, <1>5 DEF FtpInv, Patience, LinkIsPopped
<1> QED BY <1>1, <1>4, <1>5, <1>13, <1>14, <1>15, <1>16, <1>17, CommandKeeps

\* A session is not that of a job at work.
LEMMA NotASession ==
    ASSUME FtpInv, NEW j \in FtpJob, ftpJobs[j].st \in {"working", "moving"}
    PROVE  j \notin ftpLinks.sessions
BY DEF FtpInv, SessionsFit

LEMMA CloseSessionKeeps == ASSUME FtpInv, NEW j \in FtpJob, CloseSession(j) PROVE FtpInv'
<1>1. /\ ftpJobs[j].op = "disconnect" /\ ftpJobs[j].st = "working" /\ UNCHANGED <<ftpTab, ftpDisk>>
      /\ ftpLinks' = [ftpLinks EXCEPT !.open = @ \ {ftpJobs[j].sid}, !.holder[ftpJobs[j].sid] = 0]
  BY DEF CloseSession, Working
<1>2. PICK outcome \in {"result", "error"} : Post(j, outcome) BY DEF CloseSession
<1>3. PICK new \in JobSet : /\ JobMoves(j, new) /\ SameWork(ftpJobs[j], new) /\ Follows(ftpJobs[j], new)
                            /\ new.st = "posted" /\ new.outcome = outcome
  BY <1>1, <1>2, PostMoves
<1>4. new.sid = ftpJobs[j].sid /\ new.op = "disconnect" BY <1>1, <1>3 DEF SameWork
<1>5. ftpQueue' = Append(ftpQueue, j) BY <1>2 DEF Post
<1> DEFINE sid == ftpJobs[j].sid
           holder == [ftpLinks.holder EXCEPT ![sid] = 0]
           opened == ftpLinks.open \ {sid}
<1>6. ftpLinks \in LinkSet BY DEF FtpInv, FtpTypeOK
<1>7. ftpLinks.holder \in [1..MaxFtpJobs -> Nat] /\ opened \in SUBSET Nat BY <1>6 DEF LinkSet
<1>8. holder \in [1..MaxFtpJobs -> Nat] BY <1>7
<1>9. \A s \in 1..MaxFtpJobs : holder[s] = (IF s = sid THEN 0 ELSE ftpLinks.holder[s]) BY <1>7
<1>10. ftpLinks' = [ftpLinks EXCEPT !.open = opened, !.holder = holder] BY <1>1, <1>6 DEF LinkSet
<1>11. \A s \in 1..MaxFtpJobs : ftpLinks.holder[s] = j => s = sid
  BY JobKnown DEF FtpInv, LocksFit
<1>12. ftpTab.patient => sid \notin ftpLinks.sessions
  BY <1>1 DEF FtpInv, Patience, LinkIsPopped
<1>13. new.sid = sid BY <1>4
<1> HIDE DEF holder, sid, opened
<1>14. ftpLinks' \in LinkSet BY <1>6, <1>7, <1>8, <1>10 DEF LinkSet
<1>15. ftpLinks'.sessions = ftpLinks.sessions /\ ftpLinks'.holder = holder BY <1>6, <1>10 DEF LinkSet
<1>16. \A s \in 1..MaxFtpJobs : LockTaken(s, j, new) BY <1>9, <1>11, <1>15 DEF LockTaken
<1>17. j \notin ftpLinks.sessions BY <1>1, NotASession
<1> QED BY <1>1, <1>3, <1>4, <1>5, <1>12, <1>13, <1>14, <1>15, <1>16, <1>17, CommandKeeps

LEMMA ListDirectoryKeeps == ASSUME FtpInv, NEW j \in FtpJob, ListDirectory(j) PROVE FtpInv'
<1>1. /\ ftpJobs[j].op = "list" /\ ftpJobs[j].st = "working" /\ UNCHANGED <<ftpTab, ftpDisk>>
      /\ HasListed(j) /\ ftpQueue' = Append(ftpQueue, j) /\ Unlocks(j)
  BY DEF ListDirectory, Working, HasListed, Unlocks
<1>2. PICK new \in JobSet : /\ JobMoves(j, new) /\ SameWork(ftpJobs[j], new) /\ Follows(ftpJobs[j], new)
                            /\ new.st = "posted" /\ new.outcome = "result" /\ new.seen = ftpDisk.remote
  BY <1>1, ListMoves
<1>3. new.op = "list" BY <1>1, <1>2 DEF SameWork
<1>4. /\ ftpLinks' \in LinkSet /\ ftpLinks'.sessions = ftpLinks.sessions
      /\ \A s \in 1..MaxFtpJobs : LockTaken(s, j, new)
  BY <1>1, UnlockTold
<1>5. j \notin ftpLinks.sessions BY <1>1, NotASession
<1> QED BY <1>1, <1>2, <1>3, <1>4, <1>5, CommandKeeps

\* A command or a loop of transfers ends; none of them is a list.
LEMMA CommandEndsKeeps == ASSUME FtpInv, NEW j \in FtpJob, CommandFails(j) \/ TransferEnds(j) PROVE FtpInv'
<1>1. PICK outcome \in {"result", "error"} :
        /\ ftpJobs[j].st \in {"working", "moving"} /\ ftpJobs[j].op # "disconnect"
        /\ UNCHANGED <<ftpTab, ftpDisk>> /\ Post(j, outcome) /\ Unlocks(j)
        /\ outcome = "result" => ftpJobs[j].op \in Transfers /\ ftpJobs[j].st = "working"
  BY DEF CommandFails, TransferEnds, Working, Transfers, PostAndUnlock, Unlocks
<1>2. PICK new \in JobSet : /\ JobMoves(j, new) /\ SameWork(ftpJobs[j], new) /\ Follows(ftpJobs[j], new)
                            /\ new.st = "posted" /\ new.outcome = outcome
  BY <1>1, PostMoves
<1>3. new.op = ftpJobs[j].op /\ (outcome = "result" => new.op \notin {"connect", "list"})
  BY <1>1, <1>2 DEF SameWork, Transfers
<1>4. /\ ftpLinks' \in LinkSet /\ ftpLinks'.sessions = ftpLinks.sessions
      /\ \A s \in 1..MaxFtpJobs : LockTaken(s, j, new)
  BY <1>1, UnlockTold
<1>5. j \notin ftpLinks.sessions BY <1>1, NotASession
<1>6. ftpQueue' = Append(ftpQueue, j) BY <1>1 DEF Post
<1> QED BY <1>1, <1>2, <1>3, <1>4, <1>5, <1>6, CommandKeeps

\* One file of one side is written.
LEMMA WriteTold ==
    ASSUME FtpInv, NEW side \in {"local", "remote"}, NEW f \in FtpFiles, NEW cell \in CellSet,
           Writes(side, f, cell)
    PROVE  /\ ftpDisk' \in PageSet /\ ftpDisk'.shown = ftpDisk.shown /\ ftpDisk'[side][f] = cell
           /\ \A s \in {"local", "remote"}, g \in FtpFiles :
                <<s, g>> # <<side, f>> => ftpDisk'[s][g] = ftpDisk[s][g]
<1>1. ftpDisk \in PageSet BY DEF FtpInv, FtpTypeOK
<1> DEFINE files == [ftpDisk[side] EXCEPT ![f] = cell]
<1>2. ftpDisk[side] \in FileList BY <1>1 DEF PageSet
<1>3. /\ files \in FileList /\ files[f] = cell
      /\ \A g \in FtpFiles : g # f => files[g] = ftpDisk[side][g]
  BY <1>2 DEF FileList
<1>4. ftpDisk' = [ftpDisk EXCEPT ![side] = files] BY DEF Writes
<1> HIDE DEF files
<1>5. CASE side = "local"
  <2>1. ftpDisk' = [ftpDisk EXCEPT !.local = files] BY <1>4, <1>5
  <2>2. ftpDisk' \in PageSet BY <1>1, <1>3, <2>1 DEF PageSet
  <2>3. ftpDisk'["local"] = files /\ ftpDisk'["remote"] = ftpDisk["remote"] /\ ftpDisk'.shown = ftpDisk.shown
    BY <1>1, <2>1 DEF PageSet
  <2> QED BY <1>3, <1>5, <2>2, <2>3
<1>6. CASE side = "remote"
  <2>1. ftpDisk' = [ftpDisk EXCEPT !.remote = files] BY <1>4, <1>6
  <2>2. ftpDisk' \in PageSet BY <1>1, <1>3, <2>1 DEF PageSet
  <2>3. ftpDisk'["remote"] = files /\ ftpDisk'["local"] = ftpDisk["local"] /\ ftpDisk'.shown = ftpDisk.shown
    BY <1>1, <2>1 DEF PageSet
  <2> QED BY <1>3, <1>6, <2>2, <2>3
<1> QED BY <1>5, <1>6

\* A step of a job that changes files.
LEMMA ChangeKeeps ==
    ASSUME FtpInv, NEW j \in FtpJob, NEW old, old = ftpJobs[j], NEW new \in JobSet, JobMoves(j, new),
           old.op \in Changes, old.st \in {"working", "moving"}, new.st # "finished",
           new.op = old.op, new.sid = old.sid, Fits(new), ftpTab' = ftpTab,
           \/ new.st # "posted" /\ ftpQueue' = ftpQueue
           \/ new.st = "posted" /\ ftpQueue' = Append(ftpQueue, j),
           ftpLinks' \in LinkSet, ftpLinks'.sessions = ftpLinks.sessions,
           \A s \in 1..MaxFtpJobs : LockTaken(s, j, new),
           ftpDisk' \in PageSet, ftpDisk'.shown = ftpDisk.shown,
           \A side \in {"local", "remote"}, f \in FtpFiles : CellWritten(side, f, j, old, new)
    PROVE  FtpInv'
<1>1. j \notin ftpLinks.sessions BY NotASession
<1>2. new.op \notin {"connect", "list", "disconnect"} BY DEF Changes, Transfers
<1>3. ftpJobs' = [ftpJobs EXCEPT ![j] = new] BY DEF JobMoves
<1>4. old.st \notin {"posted", "finished"} OBVIOUS
<1>5. j \notin ftpLinks'.sessions BY <1>1
<1>6. \A s \in ftpLinks'.sessions : s \in ftpLinks.sessions \/ s = j OBVIOUS
<1>7. j \in ftpLinks'.sessions => new.op = "connect" /\ new.st = "posted" /\ new.outcome = "result" BY <1>5
<1>8. /\ ftpTab.patient /\ new.op = "disconnect"
      /\ new.st \in {"waiting", "working"} \/ (new.st = "posted" /\ new.outcome = "result")
      => new.sid \notin ftpLinks'.sessions
  BY <1>2
<1>9. new.op \in {"connect", "list"} /\ new.st = "posted" /\ new.outcome = "result" => new.seen = ftpDisk'.remote
  BY <1>2
<1> QED BY <1>3, <1>4, <1>6, <1>7, <1>8, <1>9, ServiceKeeps, ZenonT(60)

\* A transfer writes a file and tells of it.
LEMMA FileKeeps ==
    ASSUME FtpInv, NEW j \in FtpJob, ftpJobs[j].op \in Transfers, ftpJobs[j].st \in {"working", "moving"},
           NEW new \in JobSet, JobMoves(j, new), new.op = ftpJobs[j].op, new.sid = ftpJobs[j].sid,
           new.cancel = ftpJobs[j].cancel, new.st \in {"working", "moving"}, Fits(new),
           NEW f \in FtpFiles, ftpJobs[j].st = "moving" => f = Head(ftpJobs[j].todo),
           NEW cell \in CellSet, cell.by = j, Writes(Side(ftpJobs[j].op), f, cell),
           CellIsTold(cell, new, f), \A g \in FtpFiles : g # f => new.row[g] = ftpJobs[j].row[g],
           UNCHANGED <<ftpTab, ftpQueue, ftpLinks>>
    PROVE  FtpInv'
<1>1. PICK old : old = ftpJobs[j] OBVIOUS
<1>2. PICK side \in {"local", "remote"} : side = Side(old.op) BY DEF Side
<1>3. Writes(side, f, cell) BY <1>1, <1>2
<1>4. /\ ftpDisk' \in PageSet /\ ftpDisk'.shown = ftpDisk.shown /\ ftpDisk'[side][f] = cell
      /\ \A s \in {"local", "remote"}, g \in FtpFiles : <<s, g>> # <<side, f>> => ftpDisk'[s][g] = ftpDisk[s][g]
  BY <1>3, WriteTold
<1>5. \A s \in {"local", "remote"}, g \in FtpFiles : ftpDisk[s][g].by = j => s = side
  BY <1>1, <1>2, JobKnown DEF FtpInv, CellsFit
<1>6. \A s \in {"local", "remote"}, g \in FtpFiles : CellWritten(s, g, j, old, new)
  <2> SUFFICES ASSUME NEW s \in {"local", "remote"}, NEW g \in FtpFiles PROVE CellWritten(s, g, j, old, new)
    OBVIOUS
  <2>1. CASE s = side /\ g = f BY <1>1, <1>2, <1>4, <2>1 DEF CellWritten
  <2>2. CASE ~(s = side /\ g = f)
    <3>1. ftpDisk'[s][g] = ftpDisk[s][g] BY <1>4, <2>2
    <3>2. CASE ftpDisk[s][g].by # j BY <1>1, <3>1, <3>2 DEF CellWritten
    <3>3. CASE ftpDisk[s][g].by = j
      <4>1. g # f BY <1>5, <2>2, <3>3
      <4>2. ~HalfWay(old, g) BY <1>1, <4>1 DEF HalfWay, Ended
      <4>3. new.row[g] = old.row[g] BY <1>1, <4>1
      <4>4. CellIsTold(ftpDisk[s][g], old, g) => CellIsTold(ftpDisk[s][g], new, g)
        BY <1>1, <4>2, <4>3, StillTold
      <4> QED BY <3>1, <4>4 DEF CellWritten
    <3> QED BY <3>2, <3>3
  <2> QED BY <2>1, <2>2
<1>7. ftpLinks' \in LinkSet BY DEF FtpInv, FtpTypeOK
<1>8. \A s \in 1..MaxFtpJobs : LockTaken(s, j, new) BY LocksStay
<1>9. old.op \in Changes BY <1>1 DEF Changes
<1>10. ftpLinks'.sessions = ftpLinks.sessions OBVIOUS
<1>11. new.st # "posted" /\ new.st # "finished" OBVIOUS
<1>12. ftpTab' = ftpTab /\ ftpQueue' = ftpQueue OBVIOUS
<1>13. old.st \in {"working", "moving"} /\ new.op = old.op /\ new.sid = old.sid BY <1>1
<1>14. ftpDisk' \in PageSet /\ ftpDisk'.shown = ftpDisk.shown BY <1>4
<1> QED BY <1>1, <1>6, <1>7, <1>8, <1>9, <1>10, <1>11, <1>12, <1>13, <1>14, ChangeKeeps

\* A row with one word changed.
LEMMA RowChanged ==
    ASSUME NEW before \in [FtpFiles -> RowWords], NEW f \in FtpFiles, NEW word \in RowWords,
           NEW row, row = [before EXCEPT ![f] = word]
    PROVE  row \in [FtpFiles -> RowWords] /\ row[f] = word /\ \A g \in FtpFiles : g # f => row[g] = before[g]
OBVIOUS

LEMMA NextFileKeeps == ASSUME FtpInv, NEW j \in FtpJob, NextFile(j) PROVE FtpInv'
<1> DEFINE old == ftpJobs[j]
           f == Head(old.todo)
           cell == [what |-> "part", by |-> j]
           mid == [old EXCEPT !.st = "moving"]
           new == [mid EXCEPT !.row = [old.row EXCEPT ![f] = "none"]]
<1>1. /\ old.op \in Transfers /\ old.st = "working" /\ old.todo # <<>>
      /\ ftpDisk' = [ftpDisk EXCEPT ![Side(old.op)][f] = cell]
      /\ ftpJobs' = [ftpJobs EXCEPT ![j].st = "moving", ![j].row[f] = "none"]
      /\ UNCHANGED <<ftpTab, ftpQueue, ftpLinks>>
  BY DEF NextFile, Working
<1>2. old \in JobSet /\ j \in Nat BY JobKnown
<1>3. old.todo \in Seq(FtpFiles) /\ old.row \in [FtpFiles -> RowWords] BY <1>2 DEF JobSet
<1>4. f \in FtpFiles BY <1>1, <1>3
<1>5. cell \in CellSet /\ cell.by = j /\ cell.what = "part" BY <1>2 DEF CellSet
<1>6. Writes(Side(old.op), f, cell) BY <1>1 DEF Writes
<1>7. j \in DOMAIN ftpJobs BY DEF FtpJob
<1>8. ftpJobs' = [[ftpJobs EXCEPT ![j].st = "moving"] EXCEPT ![j].row[f] = "none"] BY <1>1
<1>9. [ftpJobs EXCEPT ![j].st = "moving"] = [ftpJobs EXCEPT ![j] = mid] OBVIOUS
<1>10. /\ mid \in JobSet /\ mid.st = "moving" /\ mid.op = old.op /\ mid.sid = old.sid
       /\ mid.todo = old.todo /\ mid.row = old.row /\ mid.cancel = old.cancel
  BY <1>2 DEF JobSet, JobStates
<1> HIDE DEF mid, f, cell
<1> DEFINE row == [old.row EXCEPT ![f] = "none"]
<1>11. /\ row \in [FtpFiles -> RowWords] /\ row[f] = "none"
       /\ \A g \in FtpFiles : g # f => row[g] = old.row[g]
  <2>1. PICK word \in RowWords : word = "none" BY DEF RowWords
  <2>2. row = [old.row EXCEPT ![f] = word] BY <2>1
  <2> HIDE DEF row
  <2> QED BY <1>3, <1>4, <2>1, <2>2, RowChanged
<1>12. [[ftpJobs EXCEPT ![j] = mid] EXCEPT ![j].row[f] = "none"] = [ftpJobs EXCEPT ![j] = new]
  BY <1>7, <1>10
<1>13. JobMoves(j, new) BY <1>8, <1>9, <1>12 DEF JobMoves
<1>14. new = [mid EXCEPT !.row = row] OBVIOUS
<1> HIDE DEF row, new
<1>15. /\ new \in JobSet /\ new.st = "moving" /\ new.op = old.op /\ new.sid = old.sid
       /\ new.todo = old.todo /\ new.row = row /\ new.cancel = old.cancel
  BY <1>10, <1>11, <1>14 DEF JobSet
<1>16. Fits(new)
  <2>1. TodoFits(new) BY <1>1, <1>15 DEF TodoFits, Transfers
  <2>2. RowsFit(old) BY JobKnown DEF Fits
  <2>3. Head(new.todo) = f BY <1>15 DEF f
  <2>4. \A g \in FtpFiles : new.row[g] \in {"running", "stopped"} => g # f /\ new.row[g] = old.row[g]
    BY <1>11, <1>15
  <2>5. \A g \in FtpFiles : ~HalfWay(old, g) BY <1>1 DEF HalfWay, Ended
  <2>6. RowsFit(new) BY <1>11, <1>15, <2>2, <2>3, <2>4, <2>5 DEF RowsFit
  <2> QED BY <2>1, <2>6 DEF Fits
<1>17. CellIsTold(cell, new, f)
  <2>1. HalfWay(new, f) BY <1>15 DEF HalfWay, f
  <2> QED BY <1>5, <1>11, <1>15, <2>1 DEF CellIsTold
<1>18. old.st \in {"working", "moving"} /\ new.st \in {"working", "moving"} /\ old.st # "moving" BY <1>1, <1>15
<1>19. \A g \in FtpFiles : g # f => new.row[g] = old.row[g] BY <1>11, <1>15
<1> QED BY <1>1, <1>4, <1>5, <1>6, <1>13, <1>15, <1>16, <1>17, <1>18, <1>19, FileKeeps

\* The first block of a file makes its row.
LEMMA FirstBlockKeeps == ASSUME FtpInv, NEW j \in FtpJob, FirstBlock(j) PROVE FtpInv'
<1> DEFINE old == ftpJobs[j]
           f == Head(old.todo)
           row == [old.row EXCEPT ![f] = "running"]
           new == [old EXCEPT !.row = row]
<1>1. /\ old.st = "moving" /\ old.row[f] = "none" /\ ftpJobs' = [ftpJobs EXCEPT ![j].row[f] = "running"]
      /\ UNCHANGED <<ftpTab, ftpQueue, ftpLinks, ftpDisk>>
  BY DEF FirstBlock, Moving, RowNow
<1>2. old \in JobSet /\ j \in Nat /\ Fits(old) /\ j \in DOMAIN ftpJobs BY JobKnown DEF FtpJob
<1>3. old.op \in Transfers /\ old.todo # <<>> BY <1>1, <1>2 DEF Fits, TodoFits
<1>4. old.todo \in Seq(FtpFiles) /\ old.row \in [FtpFiles -> RowWords] BY <1>2 DEF JobSet
<1>5. f \in FtpFiles BY <1>3, <1>4
<1>6. JobMoves(j, new) BY <1>1, <1>2 DEF JobMoves
<1> HIDE DEF f
<1>7. /\ row \in [FtpFiles -> RowWords] /\ row[f] = "running"
      /\ \A g \in FtpFiles : g # f => row[g] = old.row[g]
  <2>1. PICK word \in RowWords : word = "running" BY DEF RowWords
  <2>2. row = [old.row EXCEPT ![f] = word] BY <2>1
  <2> HIDE DEF row
  <2> QED BY <1>4, <1>5, <2>1, <2>2, RowChanged
<1>8. PICK made : made = new OBVIOUS
<1> HIDE DEF row
<1>9. /\ made \in JobSet /\ made.st = "moving" /\ made.op = old.op /\ made.sid = old.sid
      /\ made.todo = old.todo /\ made.row = row /\ made.cancel = old.cancel
  BY <1>1, <1>2, <1>7, <1>8 DEF JobSet
<1>10. \A g \in FtpFiles : HalfWay(old, g) <=> g = f BY <1>1 DEF HalfWay, Ended, f
<1>11. \A g \in FtpFiles : HalfWay(made, g) <=> g = f BY <1>9 DEF HalfWay, Ended, f
<1>12. Fits(made)
  <2>1. TodoFits(made) BY <1>3, <1>9 DEF TodoFits, Transfers
  <2>2. RowsFit(old) BY <1>2 DEF Fits
  <2>3. Head(made.todo) = f BY <1>9 DEF f
  <2>4. \A g \in FtpFiles : g # f => made.row[g] = old.row[g] BY <1>7, <1>9
  <2>5. made.row[f] = "running" BY <1>7, <1>9
  <2>6. RowsFit(made) BY <1>9, <1>10, <1>11, <2>2, <2>3, <2>4, <2>5 DEF RowsFit
  <2> QED BY <2>1, <2>6 DEF Fits
<1>13. \A side \in {"local", "remote"}, g \in FtpFiles : CellWritten(side, g, j, old, made)
  <2> SUFFICES ASSUME NEW side \in {"local", "remote"}, NEW g \in FtpFiles,
                      CellIsTold(ftpDisk[side][g], old, g)
               PROVE  CellIsTold(ftpDisk[side][g], made, g)
    BY <1>1 DEF CellWritten
  <2>1. (made.row[g] = "done") <=> (old.row[g] = "done") BY <1>1, <1>7, <1>9
  <2> QED BY <1>9, <1>10, <1>11, <2>1 DEF CellIsTold
<1>14. ftpLinks' \in LinkSet /\ ftpDisk' \in PageSet BY <1>1 DEF FtpInv, FtpTypeOK
<1>15. made.sid = old.sid /\ ftpLinks'.holder = ftpLinks.holder /\ made.st \in {"working", "moving"} BY <1>1, <1>9
<1>16. \A s \in 1..MaxFtpJobs : LockTaken(s, j, made) BY <1>15, LocksStay
<1>17. old.op \in Changes BY <1>3 DEF Changes
<1>18. JobMoves(j, made) BY <1>6, <1>8
<1>19. /\ old.st \in {"working", "moving"} /\ made.st # "finished" /\ made.st # "posted"
       /\ ftpTab' = ftpTab /\ ftpQueue' = ftpQueue /\ ftpLinks'.sessions = ftpLinks.sessions
       /\ ftpDisk'.shown = ftpDisk.shown
  BY <1>1, <1>9
<1>20. PICK was : was = old OBVIOUS
<1> QED BY <1>9, <1>12, <1>13, <1>14, <1>16, <1>17, <1>18, <1>19, <1>20, ChangeKeeps, ZenonT(60)

LEMMA FileEndsMoves ==
    ASSUME FtpInv, NEW j \in FtpJob, ftpJobs[j].st = "moving", NEW word \in RowWords, FileEnds(j, word),
           word \in {"running", "stopped"} => ftpJobs[j].cancel
    PROVE  /\ Head(ftpJobs[j].todo) \in FtpFiles /\ ftpJobs[j].op \in Transfers
           /\ \E new \in JobSet :
                /\ JobMoves(j, new) /\ new.op = ftpJobs[j].op /\ new.sid = ftpJobs[j].sid
                /\ new.cancel = ftpJobs[j].cancel
                /\ new.st = "working" /\ Fits(new) /\ new.row[Head(ftpJobs[j].todo)] = word
                /\ \A g \in FtpFiles : g # Head(ftpJobs[j].todo) => new.row[g] = ftpJobs[j].row[g]
<1> DEFINE old == ftpJobs[j]
           f == Head(old.todo)
           left == Tail(old.todo)
           row == [old.row EXCEPT ![f] = word]
           mid == [old EXCEPT !.st = "working"]
<1>1. old \in JobSet /\ Fits(old) /\ j \in DOMAIN ftpJobs BY JobKnown DEF FtpJob
<1>2. old.op \in Transfers /\ old.todo # <<>> BY <1>1 DEF Fits, TodoFits
<1>3. old.todo \in Seq(FtpFiles) /\ old.row \in [FtpFiles -> RowWords] BY <1>1 DEF JobSet
<1>4. f \in FtpFiles /\ left \in Seq(FtpFiles) BY <1>2, <1>3
<1>5. /\ row \in [FtpFiles -> RowWords] /\ row[f] = word
      /\ \A g \in FtpFiles : g # f => row[g] = old.row[g]
  BY <1>3, <1>4
<1>6. ftpJobs' = [[[ftpJobs EXCEPT ![j].st = "working"] EXCEPT ![j].todo = Tail(@)] EXCEPT ![j].row[f] = word]
  BY DEF FileEnds
<1>7. [ftpJobs EXCEPT ![j].st = "working"] = [ftpJobs EXCEPT ![j] = mid] OBVIOUS
<1>8. /\ mid \in JobSet /\ mid.st = "working" /\ mid.op = old.op /\ mid.sid = old.sid
      /\ mid.todo = old.todo /\ mid.row = old.row /\ mid.cancel = old.cancel
  BY <1>1 DEF JobSet, JobStates
<1> HIDE DEF mid, f, row
<1>9. Tail(mid.todo) = left BY <1>8
<1> DEFINE next == [mid EXCEPT !.todo = left]
           new == [next EXCEPT !.row = row]
<1>10. [[ftpJobs EXCEPT ![j] = mid] EXCEPT ![j].todo = Tail(@)] = [ftpJobs EXCEPT ![j] = next]
  BY <1>1, <1>9
<1>11. /\ next \in JobSet /\ next.st = "working" /\ next.op = old.op /\ next.sid = old.sid
       /\ next.row = old.row /\ next.cancel = old.cancel
  BY <1>4, <1>8 DEF JobSet
<1> HIDE DEF next
<1>12. [[ftpJobs EXCEPT ![j] = next] EXCEPT ![j].row[f] = word] = [ftpJobs EXCEPT ![j] = new]
  BY <1>1, <1>11 DEF row
<1>13. JobMoves(j, new) BY <1>6, <1>7, <1>10, <1>12 DEF JobMoves
<1> HIDE DEF left
<1>14. /\ new \in JobSet /\ new.st = "working" /\ new.op = old.op /\ new.sid = old.sid /\ new.row = row
       /\ new.cancel = old.cancel
  BY <1>5, <1>11 DEF JobSet
<1>15. new.row[f] = word /\ \A g \in FtpFiles : g # f => new.row[g] = old.row[g] BY <1>5, <1>14
<1>16. Fits(new)
  <2>1. TodoFits(new) BY <1>2, <1>14 DEF TodoFits, Transfers
  <2>2. RowsFit(old) BY <1>1 DEF Fits
  <2>3. \A g \in FtpFiles : g # f => ~HalfWay(old, g) BY DEF HalfWay, Ended, f
  <2>4. old.cancel \in BOOLEAN BY <1>1 DEF JobSet
  <2> HIDE DEF new
  <2>5. RowsFit(new) BY <1>14, <1>15, <2>2, <2>3, <2>4 DEF RowsFit
  <2> QED BY <2>1, <2>5 DEF Fits
<1> QED BY <1>2, <1>4, <1>13, <1>14, <1>16, <1>15 DEF f

\* A file of a transfer is over: whole, or given up by a stop.
LEMMA FileEndsKeeps ==
    ASSUME FtpInv, NEW j \in FtpJob,
           MoveWholeFile(j) \/ StopFtpUpload(j) \/ StopSftpUpload(j) \/ StopDownload(j)
    PROVE  FtpInv'
<1>0. ftpJobs[j].st = "moving" /\ RowNow(j) \in {"none", "running"}
  <2>1. ftpJobs[j].st = "moving" BY DEF MoveWholeFile, StopFtpUpload, StopSftpUpload, StopDownload, Moving
  <2>2. RowsFit(ftpJobs[j]) BY JobKnown DEF Fits
  <2> QED BY <2>1, <2>2 DEF RowsFit, RowNow
<1>1. PICK what \in {"none", "part", "new"}, word \in RowWords :
        /\ LeftOver(j, what) /\ FileEnds(j, word)
        /\ word = "done" <=> what = "new"
        /\ word \in {"running", "stopped"} => ftpJobs[j].cancel
        /\ what = "part" => ftpJobs[j].op = "upload" /\ ftpJobs[j].cancel
  <2>1. CASE MoveWholeFile(j)
    <3>1. PICK word \in RowWords : word = "done" BY DEF RowWords
    <3>2. PICK what \in {"none", "part", "new"} : what = "new" OBVIOUS
    <3>3. LeftOver(j, what) /\ FileEnds(j, word) BY <2>1, <3>1, <3>2 DEF MoveWholeFile
    <3> QED BY <3>1, <3>2, <3>3
  <2>2. CASE StopFtpUpload(j) \/ StopSftpUpload(j) \/ StopDownload(j)
    <3>1. PICK what \in {"none", "part"} :
            LeftOver(j, what) /\ (what = "part" => ftpJobs[j].op = "upload")
      BY <2>2 DEF StopFtpUpload, StopSftpUpload, StopDownload, Moving
    <3>2. PICK word \in RowsOfStopped(j) : FileEnds(j, word)
      BY <2>2 DEF StopFtpUpload, StopSftpUpload, StopDownload
    <3>3. word \in RowWords /\ word # "done" BY <1>0, <3>2 DEF RowsOfStopped, RowWords
    <3>4. ftpJobs[j].cancel BY <2>2 DEF StopFtpUpload, StopSftpUpload, StopDownload
    <3>5. what \in {"none", "part", "new"} /\ what # "new" BY <3>1
    <3> QED BY <3>1, <3>2, <3>3, <3>4, <3>5
  <2> QED BY <2>1, <2>2
<1>2. j \in Nat BY JobKnown
<1>3. PICK f \in FtpFiles : f = Head(ftpJobs[j].todo) BY <1>0, <1>1, FileEndsMoves
<1>4. PICK new \in JobSet :
        /\ JobMoves(j, new) /\ new.op = ftpJobs[j].op /\ new.sid = ftpJobs[j].sid
        /\ new.cancel = ftpJobs[j].cancel /\ new.st = "working" /\ Fits(new) /\ new.row[f] = word
        /\ \A g \in FtpFiles : g # f => new.row[g] = ftpJobs[j].row[g]
  BY <1>0, <1>1, <1>3, FileEndsMoves
<1>5. PICK cell : cell = [what |-> what, by |-> j] OBVIOUS
<1>6. cell \in CellSet /\ cell.by = j /\ cell.what = what BY <1>2, <1>5 DEF CellSet
<1>7. Writes(Side(ftpJobs[j].op), f, cell) BY <1>1, <1>3, <1>5 DEF LeftOver, Writes
<1>8. ftpJobs[j].op \in Transfers BY <1>0, <1>1, FileEndsMoves
<1>9. CellIsTold(cell, new, f) BY <1>1, <1>4, <1>6 DEF CellIsTold
<1>10. UNCHANGED <<ftpTab, ftpQueue, ftpLinks>> BY <1>1 DEF FileEnds
<1>11. new.st \in {"working", "moving"} /\ ftpJobs[j].st \in {"working", "moving"} BY <1>0, <1>4
<1> QED BY <1>3, <1>4, <1>6, <1>7, <1>8, <1>9, <1>10, <1>11, FileKeeps

\* A folder, a new name or one entry less on the server.
LEMMA ServerChangeKeeps ==
    ASSUME FtpInv, NEW j \in FtpJob, NEW outcome \in {"result", "error"},
           ftpJobs[j].op \in Changes, ftpJobs[j].st = "working", Post(j, outcome), Unlocks(j),
           ftpTab' = ftpTab, ftpDisk' \in PageSet, ftpDisk'.shown = ftpDisk.shown,
           ftpDisk'.local = ftpDisk.local,
           \A f \in FtpFiles :
               \/ ftpDisk'.remote[f] = ftpDisk.remote[f]
               \/ ftpDisk'.remote[f].by = 0
               \/ ftpDisk'.remote[f] = [what |-> "dir", by |-> j] /\ ftpJobs[j].op # "download"
    PROVE  FtpInv'
<1>1. PICK old : old = ftpJobs[j] OBVIOUS
<1>2. PICK new \in JobSet : /\ JobMoves(j, new) /\ SameWork(ftpJobs[j], new) /\ Follows(ftpJobs[j], new)
                            /\ new.st = "posted" /\ new.outcome = outcome
  BY PostMoves
<1>3. new.op = old.op /\ new.sid = old.sid /\ Fits(new) BY <1>1, <1>2 DEF SameWork, Follows
<1>4. ftpQueue' = Append(ftpQueue, j) BY DEF Post
<1>5. /\ ftpLinks' \in LinkSet /\ ftpLinks'.sessions = ftpLinks.sessions
      /\ \A s \in 1..MaxFtpJobs : LockTaken(s, j, new)
  BY UnlockTold
<1>6. \A side \in {"local", "remote"}, f \in FtpFiles : CellWritten(side, f, j, old, new)
  <2> SUFFICES ASSUME NEW side \in {"local", "remote"}, NEW f \in FtpFiles
               PROVE  CellWritten(side, f, j, old, new)
    OBVIOUS
  <2>0. CellIsTold(ftpDisk[side][f], old, f) => CellIsTold(ftpDisk[side][f], new, f)
    BY <1>1, <1>2, StillTold DEF SameWork, Follows
  <2>1. CASE side = "local" BY <2>0, <2>1 DEF CellWritten
  <2>2. CASE side = "remote"
    <3>1. CASE ftpDisk'.remote[f] = ftpDisk.remote[f] BY <2>0, <2>2, <3>1 DEF CellWritten
    <3>2. CASE ftpDisk'.remote[f].by = 0 BY <2>2, <3>2 DEF CellWritten
    <3>3. CASE ftpDisk'.remote[f] = [what |-> "dir", by |-> j] /\ ftpJobs[j].op # "download"
      <4>1. ftpDisk'[side][f].by = j /\ ftpDisk'[side][f].what = "dir" BY <2>2, <3>3
      <4>2. side = Side(new.op) BY <1>1, <1>3, <2>2, <3>3 DEF Side
      <4>3. CellIsTold(ftpDisk'[side][f], new, f) BY <4>1 DEF CellIsTold
      <4> QED BY <4>1, <4>2, <4>3 DEF CellWritten
    <3> QED BY <3>1, <3>2, <3>3
  <2> QED BY <2>1, <2>2
<1>7. new.st # "finished" /\ old.st \in {"working", "moving"} /\ old.op \in Changes BY <1>1, <1>2
<1> QED BY <1>1, <1>2, <1>3, <1>4, <1>5, <1>6, <1>7, ChangeKeeps, ZenonT(60)

\* One entry of the server is written with what is nobody's, or becomes a folder of job j.
LEMMA EntryWritten ==
    ASSUME FtpInv, NEW j \in FtpJob, NEW f \in FtpFiles, NEW cell \in CellSet,
           ftpDisk' = [ftpDisk EXCEPT !.remote[f] = cell]
    PROVE  /\ ftpDisk' \in PageSet /\ ftpDisk'.shown = ftpDisk.shown /\ ftpDisk'.local = ftpDisk.local
           /\ ftpDisk'.remote[f] = cell
           /\ \A g \in FtpFiles : g # f => ftpDisk'.remote[g] = ftpDisk.remote[g]
<1>1. ftpDisk \in PageSet BY DEF FtpInv, FtpTypeOK
<1> DEFINE files == [ftpDisk.remote EXCEPT ![f] = cell]
<1>2. ftpDisk.remote \in FileList BY <1>1 DEF PageSet
<1>3. files \in FileList /\ files[f] = cell /\ \A g \in FtpFiles : g # f => files[g] = ftpDisk.remote[g]
  BY <1>2 DEF FileList
<1>4. ftpDisk' = [ftpDisk EXCEPT !.remote = files] OBVIOUS
<1> HIDE DEF files
<1>5. ftpDisk' \in PageSet BY <1>1, <1>3, <1>4 DEF PageSet
<1>6. ftpDisk'.remote = files /\ ftpDisk'.local = ftpDisk.local /\ ftpDisk'.shown = ftpDisk.shown
  BY <1>1, <1>4 DEF PageSet
<1> QED BY <1>3, <1>5, <1>6

LEMMA MakeDirectoryKeeps == ASSUME FtpInv, NEW j \in FtpJob, MakeDirectory(j) PROVE FtpInv'
<1>1. PICK outcome \in {"result", "error"} :
        /\ ftpJobs[j].op = "mkdir" /\ ftpJobs[j].st = "working" /\ ftpTab' = ftpTab
        /\ Post(j, outcome) /\ Unlocks(j)
  BY DEF MakeDirectory, Working, PostAndUnlock, Unlocks
<1>2. ftpJobs[j] \in JobSet /\ j \in Nat /\ Fits(ftpJobs[j]) BY JobKnown
<1>3. ftpJobs[j].todo \in Seq(FtpFiles) /\ ftpJobs[j].todo # <<>> BY <1>1, <1>2 DEF JobSet, Fits, TodoFits
<1>4. PICK f \in FtpFiles : f = Head(ftpJobs[j].todo) BY <1>3
<1>5. PICK cell \in CellSet : cell = [what |-> "dir", by |-> j] BY <1>2 DEF CellSet
<1>6. ftpDisk' = [ftpDisk EXCEPT !.remote[f] = cell] BY <1>4, <1>5 DEF MakeDirectory
<1>7. /\ ftpDisk' \in PageSet /\ ftpDisk'.shown = ftpDisk.shown /\ ftpDisk'.local = ftpDisk.local
      /\ ftpDisk'.remote[f] = cell
      /\ \A g \in FtpFiles : g # f => ftpDisk'.remote[g] = ftpDisk.remote[g]
  BY <1>6, EntryWritten
<1>8. ftpJobs[j].op \in Changes /\ ftpJobs[j].op # "download" BY <1>1 DEF Changes
<1>9. \A g \in FtpFiles :
        \/ ftpDisk'.remote[g] = ftpDisk.remote[g]
        \/ ftpDisk'.remote[g].by = 0
        \/ ftpDisk'.remote[g] = [what |-> "dir", by |-> j] /\ ftpJobs[j].op # "download"
  BY <1>5, <1>7, <1>8
<1> QED BY <1>1, <1>7, <1>8, <1>9, ServerChangeKeeps

LEMMA RenamePathKeeps == ASSUME FtpInv, NEW j \in FtpJob, RenamePath(j) PROVE FtpInv'
<1>1. PICK outcome \in {"result", "error"} :
        /\ ftpJobs[j].op = "rename" /\ ftpJobs[j].st = "working" /\ ftpTab' = ftpTab
        /\ Post(j, outcome) /\ Unlocks(j)
  BY DEF RenamePath, Working, PostAndUnlock, Unlocks
<1>2. ftpJobs[j] \in JobSet /\ Fits(ftpJobs[j]) BY JobKnown
<1>3. ftpJobs[j].todo \in Seq(FtpFiles) /\ Len(ftpJobs[j].todo) = 2 BY <1>1, <1>2 DEF JobSet, Fits, TodoFits
<1>4. PICK from \in FtpFiles, to \in FtpFiles : from = ftpJobs[j].todo[1] /\ to = ftpJobs[j].todo[2] BY SMTT(30), <1>3
<1>5. ftpDisk \in PageSet BY DEF FtpInv, FtpTypeOK
<1>6. ftpDisk.remote \in [FtpFiles -> CellSet] BY <1>5 DEF PageSet, FileList
<1>7. PICK cell \in CellSet : cell = [what |-> ftpDisk.remote[from].what, by |-> 0] BY <1>6 DEF CellSet
<1>8. Untouched \in CellSet /\ Untouched.by = 0 /\ cell.by = 0 BY <1>7 DEF Untouched, CellSet
<1> DEFINE mid == [ftpDisk.remote EXCEPT ![to] = cell]
           files == [mid EXCEPT ![from] = Untouched]
<1>9. ftpDisk' = [ftpDisk EXCEPT !.remote[to] = cell, !.remote[from] = Untouched]
  BY <1>4, <1>7 DEF RenamePath
<1>10. ftpDisk' = [ftpDisk EXCEPT !.remote = files] BY <1>5, <1>9 DEF PageSet
<1>11. mid \in [FtpFiles -> CellSet] /\ \A g \in FtpFiles : mid[g] = ftpDisk.remote[g] \/ mid[g].by = 0
  BY <1>6, <1>8
<1> HIDE DEF mid
<1>12. files \in [FtpFiles -> CellSet] /\ \A g \in FtpFiles : files[g] = mid[g] \/ files[g].by = 0
  BY <1>8, <1>11
<1> HIDE DEF files
<1>13. ftpDisk' \in PageSet BY <1>5, <1>10, <1>12 DEF PageSet, FileList
<1>14. ftpDisk'.remote = files /\ ftpDisk'.local = ftpDisk.local /\ ftpDisk'.shown = ftpDisk.shown
  BY <1>5, <1>10 DEF PageSet
<1>15. ftpJobs[j].op \in Changes BY <1>1 DEF Changes
<1>16. \A g \in FtpFiles :
        \/ ftpDisk'.remote[g] = ftpDisk.remote[g]
        \/ ftpDisk'.remote[g].by = 0
        \/ ftpDisk'.remote[g] = [what |-> "dir", by |-> j] /\ ftpJobs[j].op # "download"
  BY <1>11, <1>12, <1>14
<1> QED BY <1>1, <1>13, <1>14, <1>15, <1>16, ServerChangeKeeps

LEMMA DeleteEntryKeeps == ASSUME FtpInv, NEW j \in FtpJob, DeleteEntry(j) PROVE FtpInv'
<1>1. /\ ftpJobs[j].op = "delete" /\ ftpJobs[j].st = "working" /\ ftpTab' = ftpTab
      /\ ftpJobs[j].todo # <<>>
  BY DEF DeleteEntry, Working
<1>2. ftpJobs[j] \in JobSet /\ Fits(ftpJobs[j]) BY JobKnown
<1>3. ftpJobs[j].todo \in Seq(FtpFiles) BY <1>2 DEF JobSet
<1>4. PICK f \in FtpFiles : f = Head(ftpJobs[j].todo) BY <1>1, <1>3
<1>5. PICK cell \in CellSet : cell = Untouched /\ cell.by = 0
  <2>1. Untouched \in CellSet /\ Untouched.by = 0 BY DEF CellSet, Untouched
  <2> QED BY <2>1
<1>6. ftpDisk' = [ftpDisk EXCEPT !.remote[f] = cell] BY <1>4, <1>5 DEF DeleteEntry
<1>7. /\ ftpDisk' \in PageSet /\ ftpDisk'.shown = ftpDisk.shown /\ ftpDisk'.local = ftpDisk.local
      /\ ftpDisk'.remote[f] = cell
      /\ \A g \in FtpFiles : g # f => ftpDisk'.remote[g] = ftpDisk.remote[g]
  BY <1>6, EntryWritten
<1>8. ftpJobs[j].op \in Changes BY <1>1 DEF Changes
<1>9. CASE Len(ftpJobs[j].todo) = 1
  <2>1. PICK outcome \in {"result", "error"} : Post(j, outcome) /\ Unlocks(j)
    BY <1>9 DEF DeleteEntry, PostAndUnlock, Unlocks
  <2>2. \A g \in FtpFiles :
          \/ ftpDisk'.remote[g] = ftpDisk.remote[g]
          \/ ftpDisk'.remote[g].by = 0
          \/ ftpDisk'.remote[g] = [what |-> "dir", by |-> j] /\ ftpJobs[j].op # "download"
    BY <1>5, <1>7
  <2> QED BY <1>1, <1>7, <1>8, <2>1, <2>2, ServerChangeKeeps
<1>10. CASE Len(ftpJobs[j].todo) # 1
  <2>1. PICK old : old = ftpJobs[j] OBVIOUS
  <2>2. PICK left \in Seq(FtpFiles) : left = Tail(old.todo)
    <3>1. Tail(ftpJobs[j].todo) \in Seq(FtpFiles) BY <1>1, <1>3
    <3> QED BY <2>1, <3>1
  <2>3. ftpJobs' = [ftpJobs EXCEPT ![j].todo = left] /\ UNCHANGED <<ftpQueue, ftpLinks>>
    BY <1>10, <2>1, <2>2 DEF DeleteEntry
  <2>4. PICK new : new = [old EXCEPT !.todo = left] OBVIOUS
  <2>5. /\ new \in JobSet /\ new.st = "working" /\ new.op = "delete" /\ new.sid = old.sid
        /\ new.row = old.row /\ new.cancel = old.cancel
    BY <1>1, <1>2, <2>1, <2>2, <2>4 DEF JobSet
  <2>6. JobMoves(j, new) BY <2>1, <2>3, <2>4 DEF JobMoves
  <2>7. Fits(new) /\ \A g \in FtpFiles : ~HalfWay(old, g)
    <3>1. \A g \in FtpFiles : ~HalfWay(old, g) BY <1>1, <2>1 DEF HalfWay, Ended
    <3>2. RowsFit(old) BY <1>2, <2>1 DEF Fits
    <3>3. RowsFit(new) BY <2>5, <3>1, <3>2 DEF RowsFit
    <3>4. TodoFits(new) BY <2>5 DEF TodoFits
    <3> QED BY <3>1, <3>3, <3>4 DEF Fits
  <2>8. \A side \in {"local", "remote"}, g \in FtpFiles : CellWritten(side, g, j, old, new)
    <3> SUFFICES ASSUME NEW side \in {"local", "remote"}, NEW g \in FtpFiles
                 PROVE  CellWritten(side, g, j, old, new)
      OBVIOUS
    <3>0. CellIsTold(ftpDisk[side][g], old, g) => CellIsTold(ftpDisk[side][g], new, g)
      BY <1>1, <2>1, <2>5, <2>7, StillTold
    <3>1. CASE side = "local" BY <1>7, <3>0, <3>1 DEF CellWritten
    <3>2. CASE side = "remote" BY <1>5, <1>7, <3>0, <3>2 DEF CellWritten
    <3> QED BY <3>1, <3>2
  <2>9. new.sid = ftpJobs[j].sid /\ ftpLinks'.holder = ftpLinks.holder /\ new.st \in {"working", "moving"}
    BY <2>1, <2>3, <2>5
  <2>10. \A s \in 1..MaxFtpJobs : LockTaken(s, j, new) BY <2>9, LocksStay
  <2>11. ftpLinks' \in LinkSet /\ ftpLinks'.sessions = ftpLinks.sessions BY <2>3 DEF FtpInv, FtpTypeOK
  <2>12. /\ old.op \in Changes /\ old.st \in {"working", "moving"} /\ new.op = old.op /\ new.sid = old.sid
         /\ new.st # "posted" /\ new.st # "finished"
    BY <1>1, <1>8, <2>1, <2>5
  <2>13. ftpQueue' = ftpQueue /\ ftpTab' = ftpTab BY <1>1, <2>3
  <2> QED BY <1>7, <2>1, <2>5, <2>6, <2>7, <2>8, <2>10, <2>11, <2>12, <2>13, ChangeKeeps, ZenonT(60)
<1> QED BY <1>9, <1>10


\* The window: jobs are started, told to stop, or their answers are taken.
Kept(old, new) ==
    /\ new.op = old.op /\ new.sid = old.sid /\ new.todo = old.todo /\ new.row = old.row
    /\ new.outcome = old.outcome /\ new.seen = old.seen /\ new.cancel \in {old.cancel, TRUE}
    /\ new.st = old.st \/ (old.st = "posted" /\ new.st = "finished")

\* The rows of a job that is told to stop, or whose answer is taken, still fit.
LEMMA KeptFits ==
    ASSUME NEW old, NEW new, Kept(old, new), Fits(old)
    PROVE  Fits(new) /\ \A f \in FtpFiles : HalfWay(old, f) => HalfWay(new, f)
<1>1. \A f \in FtpFiles : HalfWay(old, f) => HalfWay(new, f) BY DEF Kept, HalfWay, Ended
<1>2. TodoFits(new) BY DEF Kept, Fits, TodoFits
<1>3. new.st = "moving" => old.st = "moving" BY DEF Kept
<1>4. new.row = old.row /\ new.todo = old.todo /\ new.cancel \in {old.cancel, TRUE} BY DEF Kept
<1>5. RowsFit(new) BY <1>1, <1>3, <1>4 DEF Fits, RowsFit
<1> QED BY <1>1, <1>2, <1>5 DEF Fits

LEMMA WindowKeeps ==
    ASSUME FtpInv, ftpJobs' \in Seq(JobSet), \A j \in FtpJob : j \in FtpJob' /\ Kept(ftpJobs[j], ftpJobs'[j]),
           \A j \in FtpJob' : j \in FtpJob \/ Fits(ftpJobs'[j]),
           ftpLinks' = ftpLinks, ftpTab' \in TabSet, ftpQueue' \in Seq(Nat),
           ftpDisk' \in PageSet, ftpDisk'.local = ftpDisk.local, ftpDisk'.remote = ftpDisk.remote,
           QueueFits', TabFits', Patience'
    PROVE  FtpInv'
<1>1. FtpTypeOK' BY DEF FtpInv, FtpTypeOK
<1>2. JobsFit'
  <2> SUFFICES ASSUME NEW j \in FtpJob' PROVE Fits(ftpJobs'[j]) BY DEF JobsFit
  <2>1. CASE j \in FtpJob
    <3>1. Fits(ftpJobs[j]) BY <2>1, JobKnown
    <3>2. Kept(ftpJobs[j], ftpJobs'[j]) BY <2>1
    <3> QED BY <3>1, <3>2, KeptFits
  <2> QED BY <2>1
<1>3. LocksFit'
  <2> SUFFICES ASSUME NEW s \in 1..MaxFtpJobs, ftpLinks.holder[s] # 0
               PROVE  /\ ftpLinks.holder[s] \in FtpJob' /\ ftpJobs'[ftpLinks.holder[s]].sid = s
                      /\ ftpJobs'[ftpLinks.holder[s]].st \in {"working", "moving"}
    BY DEF LocksFit
  <2>1. PICK k : k = ftpLinks.holder[s] OBVIOUS
  <2>2. k \in FtpJob /\ ftpJobs[k].sid = s /\ ftpJobs[k].st \in {"working", "moving"}
    BY <2>1 DEF FtpInv, LocksFit
  <2>3. k \in FtpJob' /\ Kept(ftpJobs[k], ftpJobs'[k]) BY <2>2
  <2> QED BY <2>1, <2>2, <2>3 DEF Kept
<1>4. SessionsFit'
  <2> SUFFICES ASSUME NEW s \in ftpLinks.sessions
               PROVE  /\ s \in FtpJob' /\ ftpJobs'[s].op = "connect"
                      /\ ftpJobs'[s].st \in {"posted", "finished"} /\ ftpJobs'[s].outcome = "result"
    BY DEF SessionsFit
  <2>1. /\ s \in FtpJob /\ ftpJobs[s].op = "connect"
        /\ ftpJobs[s].st \in {"posted", "finished"} /\ ftpJobs[s].outcome = "result"
    BY DEF FtpInv, SessionsFit
  <2>2. s \in FtpJob' /\ Kept(ftpJobs[s], ftpJobs'[s]) BY <2>1
  <2> QED BY <2>1, <2>2 DEF Kept
<1>5. CellsFit'
  <2> SUFFICES ASSUME NEW side \in {"local", "remote"}, NEW f \in FtpFiles, ftpDisk'[side][f].by # 0
               PROVE  /\ ftpDisk'[side][f].by \in FtpJob'
                      /\ side = Side(ftpJobs'[ftpDisk'[side][f].by].op)
                      /\ CellIsTold(ftpDisk'[side][f], ftpJobs'[ftpDisk'[side][f].by], f)
    BY DEF CellsFit
  <2>1. ftpDisk'[side] = ftpDisk[side]
    <3>1. CASE side = "local" BY <3>1
    <3>2. CASE side = "remote" BY <3>2
    <3> QED BY <3>1, <3>2
  <2>2. PICK cell : cell = ftpDisk[side][f] /\ cell = ftpDisk'[side][f] BY <2>1
  <2>3. cell.by \in FtpJob /\ side = Side(ftpJobs[cell.by].op) /\ CellIsTold(cell, ftpJobs[cell.by], f)
    BY <2>2 DEF FtpInv, CellsFit
  <2>4. cell.by \in FtpJob' /\ Kept(ftpJobs[cell.by], ftpJobs'[cell.by]) BY <2>3
  <2>5. side = Side(ftpJobs'[cell.by].op) /\ CellIsTold(cell, ftpJobs'[cell.by], f)
    <3>1. PICK old, new : old = ftpJobs[cell.by] /\ new = ftpJobs'[cell.by] OBVIOUS
    <3>2. HalfWay(old, f) => HalfWay(new, f) BY <2>3, <2>4, <3>1, JobKnown, KeptFits
    <3>3. new.op = old.op /\ new.row = old.row /\ new.cancel \in {old.cancel, TRUE} BY <2>4, <3>1 DEF Kept
    <3>4. CellIsTold(cell, new, f) BY <2>3, <3>1, <3>2, <3>3, StillTold
    <3> QED BY <2>3, <3>1, <3>3, <3>4
  <2> QED BY <2>2, <2>4, <2>5
<1> QED BY <1>1, <1>2, <1>3, <1>4, <1>5 DEF FtpInv

\* A job is started.
LEMMA StartKeeps ==
    ASSUME FtpInv, NEW new \in JobSet, new.st = "new", new.outcome = "none", Fits(new),
           ftpJobs' = Append(ftpJobs, new), ftpTab' \in TabSet,
           ftpTab'.sid = ftpTab.sid, ftpTab'.connected = ftpTab.connected, ftpTab'.patient = ftpTab.patient,
           ftpTab'.closing = ftpTab.closing, ftpTab'.busy,
           ftpTab'.cancels \in {0, ftpTab.cancels, Len(ftpJobs) + 1},
           UNCHANGED <<ftpQueue, ftpLinks, ftpDisk>>,
           ftpTab.patient => ~ftpTab.busy,
           new.op = "connect" => ftpTab.sid = 0, new.op = "disconnect" => new.sid = ftpTab.sid
    PROVE  FtpInv'
<1>1. PICK n : n = Len(ftpJobs) OBVIOUS
<1>2. ftpJobs \in Seq(JobSet) /\ FtpJob = 1..n /\ n \in Nat BY <1>1 DEF FtpInv, FtpTypeOK, FtpJob
<1>3. /\ ftpJobs' \in Seq(JobSet) /\ Len(ftpJobs') = n + 1 /\ FtpJob' = 1..(n + 1)
      /\ ftpJobs'[n + 1] = new /\ \A j \in 1..n : ftpJobs'[j] = ftpJobs[j]
  BY <1>1, <1>2 DEF FtpJob
<1>4. /\ \A j \in FtpJob : j \in FtpJob' /\ ftpJobs'[j] = ftpJobs[j]
      /\ \A j \in FtpJob' : j \in FtpJob \/ j = n + 1
  BY <1>2, <1>3
<1>5. \A j \in FtpJob : j \in FtpJob' /\ Kept(ftpJobs[j], ftpJobs'[j]) BY <1>4 DEF Kept
<1>6. \A j \in FtpJob' : j \in FtpJob \/ Fits(ftpJobs'[j]) BY <1>3, <1>4
<1>7. QueueFits' BY <1>4 DEF FtpInv, QueueFits
<1>8. TabFits'
  <2>1. ftpTab.cancels # 0 => ftpTab.cancels \in FtpJob BY DEF FtpInv, TabFits
  <2>2. n + 1 \in FtpJob' BY <1>2, <1>3
  <2>3. ftpTab'.cancels # 0 => ftpTab'.cancels \in FtpJob' BY <1>1, <1>4, <2>1, <2>2
  <2>4. ftpTab'.sid # 0 => ftpTab'.sid \in FtpJob' BY <1>4 DEF FtpInv, TabFits
  <2> QED BY <2>3, <2>4 DEF FtpInv, TabFits
<1>9. Patience'
  <2> SUFFICES ASSUME ftpTab.patient
               PROVE  (Alone /\ LinkIsKnown /\ LinkIsPopped /\ Reachable /\ ListIsFresh /\ LastHasRead)'
    BY DEF Patience
  <2>1. Reachable /\ \A j \in FtpJob : ftpJobs[j].st = "finished" BY DEF FtpInv, Patience, Alone
  <2>2. \A j \in FtpJob' : ftpJobs'[j].st # "finished" => j = n + 1 BY <1>4, <2>1
  <2>3. n + 1 \in FtpJob' /\ \A j \in FtpJob' : j = Len(ftpJobs') => j = n + 1 BY <1>2, <1>3
  <2>4. Alone' BY <1>3, <2>2 DEF Alone
  <2>5. LinkIsKnown' BY <1>3, <2>2 DEF LinkIsKnown
  <2>6. LinkIsPopped' BY <1>3, <2>2 DEF LinkIsPopped
  <2>7. Reachable' BY <1>4, <2>1 DEF FtpInv, SessionsFit, Reachable
  <2>8. ListIsFresh' BY <1>3, <2>3 DEF ListIsFresh
  <2>9. LastHasRead' BY <1>3, <2>3 DEF LastHasRead
  <2> QED BY <2>4, <2>5, <2>6, <2>7, <2>8, <2>9
<1>10. ftpQueue' \in Seq(Nat) /\ ftpDisk' \in PageSet BY DEF FtpInv, FtpTypeOK
<1>11. ftpLinks' = ftpLinks /\ ftpDisk'.local = ftpDisk.local /\ ftpDisk'.remote = ftpDisk.remote OBVIOUS
<1> QED BY <1>3, <1>5, <1>6, <1>7, <1>8, <1>9, <1>10, <1>11, WindowKeeps, ZenonT(60)

LEMMA NewJobFits ==
    ASSUME FtpInv, NEW op \in JobOps, NEW sid \in Nat, NEW todo \in Seq(FtpFiles),
           op = "mkdir" => todo # <<>>, op = "rename" => Len(todo) = 2, StartFtpJob(op, sid, todo)
    PROVE  \E new \in JobSet : /\ ftpJobs' = Append(ftpJobs, new) /\ new.st = "new" /\ new.outcome = "none"
                               /\ new.op = op /\ new.sid = sid /\ Fits(new)
<1> DEFINE row == [f \in FtpFiles |-> "none"]
           new == [op |-> op, sid |-> sid, st |-> "new", todo |-> todo, cancel |-> FALSE, outcome |-> "none",
                   row |-> row, seen |-> ftpDisk.shown]
<1>1. row \in [FtpFiles -> RowWords] BY DEF RowWords
<1>2. ftpDisk.shown \in FileList BY DEF FtpInv, FtpTypeOK, PageSet
<1>3. ftpJobs' = Append(ftpJobs, new) BY DEF StartFtpJob
<1> HIDE DEF row
<1>4. "new" \in JobStates BY DEF JobStates
<1>5. new \in JobSet BY <1>1, <1>2, <1>4 DEF JobSet
<1>6. /\ new.st = "new" /\ new.outcome = "none" /\ new.op = op /\ new.sid = sid /\ new.todo = todo
      /\ \A f \in FtpFiles : new.row[f] = "none"
  BY DEF row
<1>7. Fits(new) BY <1>6 DEF Fits, TodoFits, RowsFit
<1> QED BY <1>3, <1>5, <1>6, <1>7

LEMMA TabKnown == ASSUME FtpInv PROVE ftpTab \in TabSet /\ ftpTab.sid \in Nat /\ Len(ftpJobs) \in Nat
<1>1. ftpTab \in TabSet /\ ftpJobs \in Seq(JobSet) BY DEF FtpInv, FtpTypeOK
<1> QED BY <1>1 DEF TabSet

LEMMA ClickKeeps ==
    ASSUME FtpInv, NEW op \in JobOps \ {"connect"}, NEW todo \in Seq(FtpFiles),
           op = "mkdir" => todo # <<>>, op = "rename" => Len(todo) = 2, Click(op, todo),
           ftpTab.patient => ~ftpTab.busy
    PROVE  FtpInv'
<1>1. StartFtpJob(op, ftpTab.sid, todo) /\ UNCHANGED <<ftpQueue, ftpLinks, ftpDisk>> BY DEF Click
<1>2. ftpTab \in TabSet /\ ftpTab.sid \in Nat /\ Len(ftpJobs) \in Nat BY TabKnown
<1>3. PICK new \in JobSet : /\ ftpJobs' = Append(ftpJobs, new) /\ new.st = "new" /\ new.outcome = "none"
                            /\ new.op = op /\ new.sid = ftpTab.sid /\ Fits(new)
  BY <1>1, <1>2, NewJobFits
<1>4. PICK c : c = IF op \in Transfers THEN Len(ftpJobs) + 1 ELSE ftpTab.cancels OBVIOUS
<1>5. c \in Nat /\ c \in {0, ftpTab.cancels, Len(ftpJobs) + 1} BY <1>2, <1>4 DEF TabSet
<1>6. ftpTab' = [ftpTab EXCEPT !.busy = TRUE, !.cancels = c] BY <1>2, <1>4 DEF Click, TabSet
<1>7. ftpTab' \in TabSet BY <1>2, <1>5, <1>6 DEF TabSet
<1>8. /\ ftpTab'.sid = ftpTab.sid /\ ftpTab'.connected = ftpTab.connected /\ ftpTab'.patient = ftpTab.patient
      /\ ftpTab'.closing = ftpTab.closing /\ ftpTab'.busy /\ ftpTab'.cancels = c
  BY <1>2, <1>6 DEF TabSet
<1>9. new.op # "connect" BY <1>3
<1> QED BY <1>1, <1>3, <1>5, <1>7, <1>8, <1>9, StartKeeps

LEMMA ConnectClickKeeps == ASSUME FtpInv, ConnectClick PROVE FtpInv'
<1>1. PICK op \in {"connect", "list"}, todo \in Seq(FtpFiles), none \in Nat :
        op = "connect" /\ todo = <<>> /\ none = 0
  <2>1. \E op \in {"connect", "list"} : op = "connect" OBVIOUS
  <2>2. \E todo \in Seq(FtpFiles) : todo = <<>>
    <3>1. <<>> \in Seq(FtpFiles) OBVIOUS
    <3> QED BY <3>1
  <2>3. \E none \in Nat : none = 0 OBVIOUS
  <2> QED BY <2>1, <2>2, <2>3
<1>2. /\ StartFtpJob(op, none, todo) /\ UNCHANGED <<ftpQueue, ftpLinks, ftpDisk>>
      /\ ftpTab' = [ftpTab EXCEPT !.busy = TRUE, !.cancels = 0]
  BY <1>1 DEF ConnectClick
<1>3. ftpTab \in TabSet /\ ~ftpTab.busy /\ ~ftpTab.connected BY TabKnown DEF ConnectClick
<1>4. PICK new \in JobSet : /\ ftpJobs' = Append(ftpJobs, new) /\ new.st = "new" /\ new.outcome = "none"
                            /\ new.op = op /\ new.sid = none /\ Fits(new)
  <2>1. op \in JobOps /\ op # "mkdir" /\ op # "rename" BY <1>1 DEF JobOps
  <2> QED BY <1>2, <2>1, NewJobFits
<1>5. ftpTab' \in TabSet BY <1>2, <1>3 DEF TabSet
<1>6. /\ ftpTab'.sid = ftpTab.sid /\ ftpTab'.connected = ftpTab.connected /\ ftpTab'.patient = ftpTab.patient
      /\ ftpTab'.closing = ftpTab.closing /\ ftpTab'.busy /\ ftpTab'.cancels = 0
  BY <1>2, <1>3 DEF TabSet
<1>7. ftpTab.sid = 0 BY <1>3 DEF FtpInv, TabFits
<1>8. new.op # "disconnect" BY <1>1, <1>4
<1> QED BY <1>2, <1>3, <1>4, <1>5, <1>6, <1>7, <1>8, StartKeeps

LEMMA ClicksKeep ==
    ASSUME FtpInv,
           \/ DisconnectClick \/ RefreshClick \/ UploadClick \/ DownloadClick
           \/ FolderClick \/ RenameClick \/ DeleteClick \/ OpenFolder
    PROVE  FtpInv'
<1>1. ftpTab.patient => ~ftpTab.busy
  BY DEF DisconnectClick, RefreshClick, UploadClick, DownloadClick, FolderClick, RenameClick, DeleteClick,
         OpenFolder, ButtonsEnabled
<1>2. <<>> \in Seq(FtpFiles) OBVIOUS
<1>3. \A f, g \in FtpFiles : <<f>> \in Seq(FtpFiles) /\ <<f, g>> \in Seq(FtpFiles) /\ Len(<<f, g>>) = 2
                             /\ <<f>> # <<>>
  OBVIOUS
<1>4. PICK op \in JobOps \ {"connect"}, todo \in Seq(FtpFiles) :
        /\ Click(op, todo) /\ (op = "mkdir" => todo # <<>>) /\ (op = "rename" => Len(todo) = 2)
  <2> DEFINE Asks(op, todo) ==
        /\ Click(op, todo) /\ (op = "mkdir" => todo # <<>>) /\ (op = "rename" => Len(todo) = 2)
  <2>1. PICK disconnect, list, upload, download, mkdir, rename, delete :
          /\ disconnect = "disconnect" /\ list = "list" /\ upload = "upload" /\ download = "download"
          /\ mkdir = "mkdir" /\ rename = "rename" /\ delete = "delete"
    OBVIOUS
  <2>2. {disconnect, list, upload, download, mkdir, rename, delete} \subseteq JobOps \ {"connect"}
    BY <2>1 DEF JobOps, Changes, Transfers
  <2>3. PICK none \in Seq(FtpFiles) : none = <<>> BY <1>2
  <2>4. \E op \in JobOps \ {"connect"} : \E todo \in Seq(FtpFiles) : Asks(op, todo)
    <3>1. CASE DisconnectClick
      <4>1. Asks(disconnect, none) BY <2>1, <2>3, <3>1 DEF DisconnectClick
      <4> QED BY <2>2, <4>1
    <3>2. CASE RefreshClick \/ OpenFolder
      <4>1. Asks(list, none) BY <2>1, <2>3, <3>2 DEF RefreshClick, OpenFolder
      <4> QED BY <2>2, <4>1
    <3>3. CASE UploadClick
      <4>1. PICK todo \in {<<f>> : f \in FtpFiles} \cup {<<p[1], p[2]>> : p \in Pairs} :
                Click("upload", todo)
        BY <3>3 DEF UploadClick
      <4>2. todo \in Seq(FtpFiles)
        <5>1. CASE todo \in {<<f>> : f \in FtpFiles}
          <6>1. PICK f \in FtpFiles : todo = <<f>> BY <5>1
          <6>2. <<f>> \in Seq(FtpFiles) OBVIOUS
          <6> QED BY <6>1, <6>2
        <5>2. CASE todo \in {<<p[1], p[2]>> : p \in Pairs}
          <6>0. PICK p \in Pairs : todo = <<p[1], p[2]>> BY <5>2
          <6>1. PICK f \in FtpFiles, g \in FtpFiles : todo = <<f, g>> BY <6>0 DEF Pairs
          <6>2. <<f, g>> \in Seq(FtpFiles) OBVIOUS
          <6> QED BY <6>1, <6>2
        <5> QED BY <5>1, <5>2
      <4>3. Asks(upload, todo) BY <2>1, <4>1
      <4> QED BY <2>2, <4>2, <4>3
    <3>4. CASE DownloadClick
      <4>1. PICK f \in FtpFiles, g \in FtpFiles : Click("download", IF f = g THEN <<f>> ELSE <<f, g>>)
        BY <3>4 DEF DownloadClick
      <4>2. PICK todo \in Seq(FtpFiles) : todo = IF f = g THEN <<f>> ELSE <<f, g>> BY <1>3
      <4>3. Asks(download, todo) BY <2>1, <4>1, <4>2
      <4> QED BY <2>2, <4>3
    <3>5. CASE FolderClick
      <4>1. PICK f \in FtpFiles : Click("mkdir", <<f>>) BY <3>5 DEF FolderClick
      <4>2. PICK todo \in Seq(FtpFiles) : todo = <<f>> /\ todo # <<>> BY <1>3
      <4>3. Asks(mkdir, todo) BY <2>1, <4>1, <4>2
      <4> QED BY <2>2, <4>3
    <3>6. CASE RenameClick
      <4>1. PICK f \in FtpFiles, g \in FtpFiles : Click("rename", <<f, g>>) BY <3>6 DEF RenameClick
      <4>2. PICK todo \in Seq(FtpFiles) : todo = <<f, g>> /\ Len(todo) = 2 BY <1>3
      <4>3. Asks(rename, todo) BY <2>1, <4>1, <4>2
      <4> QED BY <2>2, <4>3
    <3>7. CASE DeleteClick
      <4>1. PICK f \in FtpFiles, g \in FtpFiles : Click("delete", IF f = g THEN <<f>> ELSE <<f, g>>)
        BY <3>7 DEF DeleteClick
      <4>2. PICK todo \in Seq(FtpFiles) : todo = IF f = g THEN <<f>> ELSE <<f, g>> BY <1>3
      <4>3. Asks(delete, todo) BY <2>1, <4>1, <4>2
      <4> QED BY <2>2, <4>3
    <3> QED BY <3>1, <3>2, <3>3, <3>4, <3>5, <3>6, <3>7
  <2> QED BY <2>4
<1> QED BY <1>1, <1>4, ClickKeeps

\* Stop and the closing of the window only tell a job.
LEMMA StopKeeps == ASSUME FtpInv, StopClick \/ FtpShutdown PROVE FtpInv'
<1>1. UNCHANGED <<ftpQueue, ftpLinks, ftpDisk>> BY DEF StopClick, FtpShutdown
<1>2. /\ ftpTab \in TabSet /\ ftpJobs \in Seq(JobSet) /\ FtpJob = DOMAIN ftpJobs
      /\ ftpQueue \in Seq(Nat) /\ ftpDisk \in PageSet
  BY DEF FtpInv, FtpTypeOK, FtpJob
<1>3. /\ ftpTab' \in TabSet /\ (ftpTab'.closing = FALSE => ftpTab.closing = FALSE)
      /\ ftpTab'.sid = ftpTab.sid /\ ftpTab'.connected = ftpTab.connected /\ ftpTab'.patient = ftpTab.patient
      /\ ftpTab'.busy = ftpTab.busy /\ ftpTab'.cancels = ftpTab.cancels
  BY <1>2 DEF StopClick, FtpShutdown, TabSet
<1>4. /\ ftpJobs' \in Seq(JobSet) /\ Len(ftpJobs') = Len(ftpJobs) /\ FtpJob' = FtpJob
      /\ \A j \in FtpJob : Kept(ftpJobs[j], ftpJobs'[j]) /\ ftpJobs'[j].st = ftpJobs[j].st
  <2>1. CASE ftpJobs' = ftpJobs BY <1>2, <2>1 DEF Kept, FtpJob
  <2>2. CASE ftpTab.cancels # 0 /\ ftpJobs' = [ftpJobs EXCEPT ![ftpTab.cancels].cancel = TRUE]
    <3>1. PICK c \in FtpJob : c = ftpTab.cancels BY <2>2 DEF FtpInv, TabFits
    <3>2. PICK new : new = [ftpJobs[c] EXCEPT !.cancel = TRUE] OBVIOUS
    <3>3. ftpJobs[c] \in JobSet BY JobKnown
    <3>4. new \in JobSet /\ Kept(ftpJobs[c], new) /\ new.st = ftpJobs[c].st BY <3>2, <3>3 DEF JobSet, Kept
    <3>5. ftpJobs' = [ftpJobs EXCEPT ![c] = new] BY <2>2, <3>1, <3>2
    <3>6. /\ ftpJobs' \in Seq(JobSet) /\ Len(ftpJobs') = Len(ftpJobs) /\ DOMAIN ftpJobs' = DOMAIN ftpJobs
          /\ ftpJobs'[c] = new /\ \A k \in DOMAIN ftpJobs : k # c => ftpJobs'[k] = ftpJobs[k]
      BY <1>2, <3>4, <3>5, JobChanged
    <3>7. FtpJob' = FtpJob BY <3>6 DEF FtpJob
    <3> QED BY <1>2, <3>4, <3>6, <3>7 DEF Kept
  <2> QED BY <2>1, <2>2 DEF StopClick, FtpShutdown
<1>5. QueueFits' BY <1>1, <1>4 DEF FtpInv, QueueFits
<1>6. TabFits' BY <1>3, <1>4 DEF FtpInv, TabFits
<1>7. Patience'
  <2> SUFFICES ASSUME ftpTab.patient
               PROVE  (Alone /\ LinkIsKnown /\ LinkIsPopped /\ Reachable /\ ListIsFresh /\ LastHasRead)'
    BY <1>3 DEF Patience
  <2>1. Alone /\ LinkIsKnown /\ LinkIsPopped /\ Reachable /\ ListIsFresh /\ LastHasRead
    BY DEF FtpInv, Patience
  <2>0. \A j \in FtpJob : /\ ftpJobs'[j].op = ftpJobs[j].op /\ ftpJobs'[j].sid = ftpJobs[j].sid
                          /\ ftpJobs'[j].outcome = ftpJobs[j].outcome /\ ftpJobs'[j].st = ftpJobs[j].st
    BY <1>4 DEF Kept
  <2>2. Alone' BY <1>3, <1>4, <2>1 DEF Alone
  <2>3. LinkIsKnown' BY <1>3, <1>4, <2>0, <2>1 DEF LinkIsKnown
  <2>4. LinkIsPopped' BY <1>1, <1>4, <2>0, <2>1 DEF LinkIsPopped
  <2>5. Reachable' BY <1>1, <1>3, <1>4, <2>1 DEF FtpInv, SessionsFit, Reachable
  <2>6. ListIsFresh'
    <3>1. \A j \in FtpJob :
            /\ ftpJobs'[j].op = ftpJobs[j].op /\ ftpJobs'[j].outcome = ftpJobs[j].outcome
            /\ ftpJobs'[j].seen = ftpJobs[j].seen /\ ftpJobs'[j].st = ftpJobs[j].st
      BY <1>4 DEF Kept
    <3> QED BY <1>1, <1>4, <2>1, <3>1 DEF ListIsFresh
  <2>7. LastHasRead'
    <3>1. ftpTab.closing \in BOOLEAN /\ ftpTab'.closing \in BOOLEAN BY <1>2, <1>3 DEF TabSet
    <3> QED BY <1>3, <1>4, <2>1, <3>1 DEF LastHasRead, Kept
  <2> QED BY <2>2, <2>3, <2>4, <2>5, <2>6, <2>7
<1>8. \A j \in FtpJob : j \in FtpJob' /\ Kept(ftpJobs[j], ftpJobs'[j]) BY <1>4
<1>9. \A j \in FtpJob' : j \in FtpJob \/ Fits(ftpJobs'[j]) BY <1>4
<1>10. ftpQueue' \in Seq(Nat) /\ ftpDisk' \in PageSet BY <1>1, <1>2
<1>11. ftpLinks' = ftpLinks /\ ftpDisk'.local = ftpDisk.local /\ ftpDisk'.remote = ftpDisk.remote BY <1>1
<1> QED BY <1>3, <1>4, <1>5, <1>6, <1>7, <1>8, <1>9, <1>10, <1>11, WindowKeeps, ZenonT(60)

\* The answer at the head of the queue, and its job once it has been taken.
LEMMA RetiredTold ==
    ASSUME FtpInv, ftpQueue # <<>>, NEW h, h = Head(ftpQueue), NEW t, t = Retired
    PROVE  /\ h \in FtpJob /\ ftpJobs[h].st = "posted" /\ t \in Seq(JobSet) /\ Len(t) = Len(ftpJobs)
           /\ DOMAIN t = FtpJob /\ t[h].st = "finished" /\ \A j \in FtpJob : Kept(ftpJobs[j], t[j])
           /\ \A j \in FtpJob : j # h => t[j] = ftpJobs[j]
<1>1. ftpQueue \in Seq(Nat) /\ ftpJobs \in Seq(JobSet) /\ FtpJob = DOMAIN ftpJobs
  BY DEF FtpInv, FtpTypeOK, FtpJob
<1>2. 1 \in DOMAIN ftpQueue /\ h = ftpQueue[1] BY <1>1
<1>3. h \in FtpJob /\ ftpJobs[h].st = "posted" BY <1>2 DEF FtpInv, QueueFits
<1>4. ftpJobs[h] \in JobSet BY <1>3, JobKnown
<1>5. PICK new : new = [ftpJobs[h] EXCEPT !.st = "finished"] OBVIOUS
<1>6. new \in JobSet /\ new.st = "finished" /\ Kept(ftpJobs[h], new)
  BY <1>3, <1>4, <1>5 DEF JobSet, JobStates, Kept
<1>7. t = [ftpJobs EXCEPT ![h] = new] BY <1>5 DEF Retired
<1>8. /\ t \in Seq(JobSet) /\ Len(t) = Len(ftpJobs) /\ DOMAIN t = DOMAIN ftpJobs
      /\ t[h] = new /\ \A k \in DOMAIN ftpJobs : k # h => t[k] = ftpJobs[k]
  BY <1>1, <1>3, <1>6, <1>7, JobChanged
<1>9. \A j \in FtpJob : Kept(ftpJobs[j], t[j]) BY <1>1, <1>6, <1>8 DEF Kept
<1> QED BY <1>1, <1>3, <1>6, <1>8, <1>9

LEMMA QueueTaken ==
    ASSUME FtpInv, ftpQueue # <<>>, ftpQueue' = Tail(ftpQueue),
           \A j \in FtpJob : j \in FtpJob' /\ (j # Head(ftpQueue) => ftpJobs'[j] = ftpJobs[j])
    PROVE  QueueFits' /\ ftpQueue' \in Seq(Nat)
<1>1. ftpQueue \in Seq(Nat) BY DEF FtpInv, FtpTypeOK
<1>2. PICK n \in Nat : DOMAIN ftpQueue = 1..n /\ n >= 1 BY <1>1
<1>3. /\ ftpQueue' \in Seq(Nat) /\ DOMAIN ftpQueue' = 1..(n - 1)
      /\ \A i \in 1..(n - 1) : ftpQueue'[i] = ftpQueue[i + 1]
  BY <1>1, <1>2
<1>4. Head(ftpQueue) = ftpQueue[1] BY <1>1
<1>5. \A i \in 1..(n - 1) : i + 1 \in DOMAIN ftpQueue /\ ftpQueue[i + 1] # ftpQueue[1]
  BY <1>2 DEF FtpInv, QueueFits
<1>6. \A i \in DOMAIN ftpQueue' : ftpQueue'[i] \in FtpJob' /\ ftpJobs'[ftpQueue'[i]].st = "posted"
  BY <1>3, <1>4, <1>5 DEF FtpInv, QueueFits
<1>7. \A i, k \in DOMAIN ftpQueue' : ftpQueue'[i] = ftpQueue'[k] => i = k
  <2> SUFFICES ASSUME NEW i \in 1..(n - 1), NEW k \in 1..(n - 1), ftpQueue'[i] = ftpQueue'[k] PROVE i = k
    BY <1>3
  <2>1. ftpQueue[i + 1] = ftpQueue[k + 1] BY <1>3
  <2>2. i + 1 = k + 1 BY <1>5, <2>1 DEF FtpInv, QueueFits
  <2> QED BY <1>2, <2>2
<1> QED BY <1>3, <1>6, <1>7 DEF QueueFits

\* With a user who waits, the answer is that of the last job and every other job is over.
LEMMA LastAnswer ==
    ASSUME FtpInv, ftpQueue # <<>>, NEW h, h = Head(ftpQueue), ftpTab.patient
    PROVE  h = Len(ftpJobs) /\ \A j \in FtpJob : j # h => ftpJobs[j].st = "finished"
<1>1. PICK t : t = Retired OBVIOUS
<1>2. h \in FtpJob /\ ftpJobs[h].st = "posted" BY <1>1, RetiredTold
<1> QED BY <1>2 DEF FtpInv, Patience, Alone

\* An answer is taken, and nothing else is started.
LEMMA RetireKeeps ==
    ASSUME FtpInv, ftpQueue # <<>>, NEW h, h = Head(ftpQueue), ftpJobs' = Retired,
           ftpQueue' = Tail(ftpQueue), ftpLinks' = ftpLinks,
           ftpTab' \in TabSet, ftpTab'.patient = ftpTab.patient, TabFits',
           ftpDisk' \in PageSet, ftpDisk'.local = ftpDisk.local, ftpDisk'.remote = ftpDisk.remote,
           ftpTab.patient => Reachable',
           ftpTab.patient /\ ftpJobs[h].op \in {"connect", "list"} /\ ftpJobs[h].outcome = "result" =>
               ftpDisk'.shown = ftpDisk.remote,
           ftpTab.patient /\ ftpTab'.connected /\ ~ftpTab'.closing =>
               ftpJobs[h].op \in {"connect", "list", "disconnect"}
    PROVE  FtpInv'
<1>1. /\ h \in FtpJob /\ ftpJobs[h].st = "posted" /\ ftpJobs' \in Seq(JobSet) /\ Len(ftpJobs') = Len(ftpJobs)
      /\ FtpJob' = FtpJob /\ ftpJobs'[h].st = "finished" /\ \A j \in FtpJob : Kept(ftpJobs[j], ftpJobs'[j])
      /\ \A j \in FtpJob : j # h => ftpJobs'[j] = ftpJobs[j]
  <2>1. PICK t : t = Retired OBVIOUS
  <2>2. /\ h \in FtpJob /\ ftpJobs[h].st = "posted" /\ t \in Seq(JobSet) /\ Len(t) = Len(ftpJobs)
        /\ DOMAIN t = FtpJob /\ t[h].st = "finished" /\ \A j \in FtpJob : Kept(ftpJobs[j], t[j])
        /\ \A j \in FtpJob : j # h => t[j] = ftpJobs[j]
    BY <2>1, RetiredTold
  <2>3. ftpJobs' = t /\ FtpJob' = DOMAIN t BY <2>1 DEF FtpJob
  <2> QED BY <2>2, <2>3
<1>2. QueueFits' /\ ftpQueue' \in Seq(Nat) BY <1>1, QueueTaken
<1>3. Patience'
  <2> SUFFICES ASSUME ftpTab.patient
               PROVE  (Alone /\ LinkIsKnown /\ LinkIsPopped /\ Reachable /\ ListIsFresh /\ LastHasRead)'
    BY DEF Patience
  <2>1. h = Len(ftpJobs) /\ \A j \in FtpJob : j # h => ftpJobs[j].st = "finished" BY LastAnswer
  <2>2. \A j \in FtpJob' : ftpJobs'[j].st = "finished" BY <1>1, <2>1
  <2>3. Alone' /\ LinkIsKnown' /\ LinkIsPopped' BY <2>2 DEF Alone, LinkIsKnown, LinkIsPopped
  <2>4. ftpJobs'[h].op = ftpJobs[h].op /\ ftpJobs'[h].outcome = ftpJobs[h].outcome BY <1>1 DEF Kept
  <2>5. ListIsFresh' BY <1>1, <2>1, <2>2, <2>4 DEF ListIsFresh
  <2>6. LastHasRead' BY <1>1, <2>1, <2>4 DEF LastHasRead
  <2> QED BY <2>3, <2>5, <2>6
<1>4. \A j \in FtpJob : j \in FtpJob' /\ Kept(ftpJobs[j], ftpJobs'[j]) BY <1>1
<1>5. \A j \in FtpJob' : j \in FtpJob \/ Fits(ftpJobs'[j]) BY <1>1
<1>6. ftpJobs' \in Seq(JobSet) BY <1>1
<1> QED BY <1>2, <1>3, <1>4, <1>5, <1>6, WindowKeeps, ZenonT(60)

\* What the answer of a patient user's job says of the sessions.
LEMMA AnswerOfSessions ==
    ASSUME FtpInv, ftpQueue # <<>>, NEW h, h = Head(ftpQueue), ftpTab.patient
    PROVE  /\ \A s \in ftpLinks.sessions : s # 0 /\ (s = ftpTab.sid \/ s = h)
           /\ h \in ftpLinks.sessions => ftpJobs[h].op = "connect" /\ ftpJobs[h].outcome = "result"
           /\ ftpJobs[h].op = "connect" => ftpTab.sid = 0
           /\ ftpJobs[h].op = "disconnect" /\ ftpJobs[h].outcome = "result" => ftpTab.sid \notin ftpLinks.sessions
           /\ ftpJobs[h].op \in {"connect", "list"} /\ ftpJobs[h].outcome = "result" =>
                ftpJobs[h].seen = ftpDisk.remote
<1>1. h \in FtpJob /\ ftpJobs[h].st = "posted"
  <2>1. PICK t : t = Retired OBVIOUS
  <2> QED BY <2>1, RetiredTold
<1>2. h = Len(ftpJobs) /\ \A j \in FtpJob : j # h => ftpJobs[j].st = "finished" BY LastAnswer
<1>3. LinkIsKnown /\ LinkIsPopped /\ Reachable /\ ListIsFresh BY DEF FtpInv, Patience
<1>4. \A s \in ftpLinks.sessions : s # 0 /\ (s = ftpTab.sid \/ s = h)
  <2> SUFFICES ASSUME NEW s \in ftpLinks.sessions PROVE s # 0 /\ (s = ftpTab.sid \/ s = h) OBVIOUS
  <2>1. s \in FtpJob BY DEF FtpInv, SessionsFit
  <2>2. s # 0 BY <2>1, JobKnown
  <2> QED BY <1>2, <1>3, <2>1, <2>2 DEF Reachable
<1>5. h \in ftpLinks.sessions => ftpJobs[h].op = "connect" /\ ftpJobs[h].outcome = "result"
  BY DEF FtpInv, SessionsFit
<1>6. ftpJobs[h].op = "connect" => ftpTab.sid = 0 BY <1>1, <1>3 DEF LinkIsKnown
<1>7. ftpJobs[h].op = "disconnect" /\ ftpJobs[h].outcome = "result" => ftpTab.sid \notin ftpLinks.sessions
  BY <1>1, <1>3 DEF LinkIsKnown, LinkIsPopped
<1>8. ftpJobs[h].op \in {"connect", "list"} /\ ftpJobs[h].outcome = "result" => ftpJobs[h].seen = ftpDisk.remote
  BY <1>1, <1>2, <1>3 DEF ListIsFresh
<1> QED BY <1>4, <1>5, <1>6, <1>7, <1>8

\* The answer to a connection, the end of one, and a list.
LEMMA FinishKeeps == ASSUME FtpInv, FinishConnect \/ FinishDisconnect \/ FinishRefresh PROVE FtpInv'
<1>1. PICK h : h = Head(ftpQueue) OBVIOUS
<1>2. /\ ftpQueue # <<>> /\ ftpJobs' = Retired /\ ftpQueue' = Tail(ftpQueue) /\ ftpLinks' = ftpLinks
      /\ ftpJobs[h].op \in {"connect", "disconnect", "list"}
  BY <1>1 DEF FinishConnect, FinishDisconnect, FinishRefresh, Arrived
<1>3. /\ h \in FtpJob /\ FtpJob' = FtpJob /\ ftpJobs[h] \in JobSet /\ h \in Nat \ {0}
  <2>1. PICK t : t = Retired OBVIOUS
  <2>2. h \in FtpJob /\ DOMAIN t = FtpJob BY <1>1, <1>2, <2>1, RetiredTold
  <2>3. FtpJob' = FtpJob BY <1>2, <2>1, <2>2 DEF FtpJob
  <2> QED BY <2>2, <2>3, JobKnown
<1>4. ftpTab \in TabSet /\ ftpDisk \in PageSet BY DEF FtpInv, FtpTypeOK
<1>5. ftpJobs[h].seen \in FileList BY <1>3 DEF JobSet
<1>6. [f \in FtpFiles |-> Untouched] \in FileList
  <2>1. Untouched \in CellSet BY DEF Untouched, CellSet
  <2> QED BY <2>1 DEF FileList
<1>7. PICK won \in BOOLEAN : won <=> ftpJobs[h].outcome = "result" OBVIOUS
<1>8. PICK op : op = ftpJobs[h].op /\ op \in {"connect", "disconnect", "list"} BY <1>2
<1>9. /\ op = "connect" => ftpTab' = IF won THEN [ftpTab EXCEPT !.connected = TRUE, !.sid = h, !.busy = FALSE]
                                     ELSE [ftpTab EXCEPT !.busy = FALSE]
      /\ op = "disconnect" => ftpTab' = IF won THEN [ftpTab EXCEPT !.connected = FALSE, !.sid = 0, !.busy = FALSE]
                                        ELSE [ftpTab EXCEPT !.busy = FALSE]
      /\ op = "list" => ftpTab' = [ftpTab EXCEPT !.busy = FALSE]
  BY <1>1, <1>7, <1>8 DEF FinishConnect, FinishDisconnect, FinishRefresh, Arrived, Succeeded
<1>10. /\ ftpTab' \in TabSet /\ ftpTab'.patient = ftpTab.patient /\ ftpTab'.closing = ftpTab.closing
       /\ ftpTab'.cancels = ftpTab.cancels
  <2>1. CASE ftpTab' = [ftpTab EXCEPT !.busy = FALSE] BY <1>4, <2>1 DEF TabSet
  <2>2. CASE ftpTab' = [ftpTab EXCEPT !.connected = TRUE, !.sid = h, !.busy = FALSE]
    BY <1>3, <1>4, <2>2 DEF TabSet
  <2>3. CASE ftpTab' = [ftpTab EXCEPT !.connected = FALSE, !.sid = 0, !.busy = FALSE]
    BY <1>4, <2>3 DEF TabSet
  <2> QED BY <1>7, <1>8, <1>9, <2>1, <2>2, <2>3
<1>11. /\ op = "connect" /\ won => ftpTab'.connected /\ ftpTab'.sid = h
       /\ op = "disconnect" /\ won => ~ftpTab'.connected /\ ftpTab'.sid = 0
       /\ op = "list" \/ ~won => ftpTab'.connected = ftpTab.connected /\ ftpTab'.sid = ftpTab.sid
  BY <1>3, <1>4, <1>7, <1>8, <1>9 DEF TabSet
<1>12. TabFits'
  <2>1. TabFits BY DEF FtpInv
  <2>2. CASE op = "list" \/ ~won BY <1>3, <1>10, <1>11, <2>1, <2>2 DEF TabFits
  <2>3. CASE op = "connect" /\ won BY <1>3, <1>10, <1>11, <2>1, <2>3 DEF TabFits
  <2>4. CASE op = "disconnect" /\ won BY <1>3, <1>10, <1>11, <2>1, <2>4 DEF TabFits
  <2> QED BY <1>8, <2>2, <2>3, <2>4
<1>13. /\ ftpDisk' \in PageSet /\ ftpDisk'.local = ftpDisk.local /\ ftpDisk'.remote = ftpDisk.remote
       /\ op \in {"connect", "list"} /\ won => ftpDisk'.shown = ftpJobs[h].seen
  <2>1. PICK list \in FileList : ftpDisk' = ftpDisk \/ ftpDisk' = [ftpDisk EXCEPT !.shown = list]
    BY <1>1, <1>5, <1>6 DEF FinishConnect, FinishDisconnect, FinishRefresh
  <2>2. /\ ftpDisk' \in PageSet /\ ftpDisk'.local = ftpDisk.local /\ ftpDisk'.remote = ftpDisk.remote
    BY <1>4, <2>1 DEF PageSet
  <2>3. op \in {"connect", "list"} /\ won => ftpDisk' = [ftpDisk EXCEPT !.shown = ftpJobs[h].seen]
    BY <1>1, <1>7, <1>8 DEF FinishConnect, FinishDisconnect, FinishRefresh, Arrived, Succeeded
  <2>4. op \in {"connect", "list"} /\ won => ftpDisk'.shown = ftpJobs[h].seen BY <1>4, <2>3 DEF PageSet
  <2> QED BY <2>2, <2>4
<1>14. ftpTab.patient => Reachable'
  <2> SUFFICES ASSUME ftpTab.patient, NEW s \in ftpLinks.sessions PROVE s = ftpTab'.sid
    BY <1>2 DEF Reachable
  <2>1. s # 0 /\ (s = ftpTab.sid \/ s = h) BY <1>1, <1>2, AnswerOfSessions
  <2>2. CASE s = h
    <3>1. op = "connect" /\ won BY <1>1, <1>2, <1>7, <1>8, <2>2, AnswerOfSessions
    <3> QED BY <1>11, <2>2, <3>1
  <2>3. CASE s = ftpTab.sid
    <3>1. op # "connect" BY <1>1, <1>2, <1>8, <2>1, <2>3, AnswerOfSessions
    <3>2. ~(op = "disconnect" /\ won) BY <1>1, <1>2, <1>7, <1>8, <2>3, AnswerOfSessions
    <3> QED BY <1>8, <1>11, <2>3, <3>1, <3>2
  <2> QED BY <2>1, <2>2, <2>3
<1>15. ftpTab.patient /\ ftpJobs[h].op \in {"connect", "list"} /\ ftpJobs[h].outcome = "result" =>
         ftpDisk'.shown = ftpDisk.remote
  BY <1>1, <1>2, <1>7, <1>8, <1>13, AnswerOfSessions
<1>16. ftpTab.patient /\ ftpTab'.connected /\ ~ftpTab'.closing => ftpJobs[h].op \in {"connect", "list", "disconnect"}
  BY <1>2
<1> QED BY <1>1, <1>2, <1>10, <1>12, <1>13, <1>14, <1>15, <1>16, RetireKeeps, ZenonT(60)

\* After a change the list is read again, unless the window closes or nothing is connected.
LEMMA FinishWithRefreshKeeps == ASSUME FtpInv, FinishWithRefresh PROVE FtpInv'
<1>1. PICK h : h = Head(ftpQueue) OBVIOUS
<1>2. PICK again \in BOOLEAN : again <=> ~ftpTab.closing /\ ftpTab.connected /\ ftpTab.sid # 0 OBVIOUS
<1>3. ftpTab \in TabSet /\ ftpDisk \in PageSet BY DEF FtpInv, FtpTypeOK
<1>4. /\ ftpQueue # <<>> /\ ftpJobs[h].op \in Changes /\ ftpQueue' = Tail(ftpQueue)
      /\ UNCHANGED <<ftpLinks, ftpDisk>>
  BY <1>1 DEF FinishWithRefresh, Arrived, Refreshed
<1>5. ftpTab' = [ftpTab EXCEPT !.busy = again]
  BY <1>2, <1>3 DEF FinishWithRefresh, Refreshed, TabSet
<1>6. /\ ftpTab' \in TabSet /\ ftpTab'.busy = again
      /\ ftpTab'.sid = ftpTab.sid /\ ftpTab'.connected = ftpTab.connected /\ ftpTab'.patient = ftpTab.patient
      /\ ftpTab'.closing = ftpTab.closing /\ ftpTab'.cancels = ftpTab.cancels
  BY <1>3, <1>5 DEF TabSet
<1>7. PICK t : t = Retired OBVIOUS
<1>8. /\ h \in FtpJob /\ t \in Seq(JobSet) /\ Len(t) = Len(ftpJobs)
      /\ DOMAIN t = FtpJob /\ t[h].st = "finished" /\ \A j \in FtpJob : Kept(ftpJobs[j], t[j])
      /\ \A j \in FtpJob : j # h => t[j] = ftpJobs[j]
  BY <1>1, <1>4, <1>7, RetiredTold
<1>9. ftpJobs[h].op \notin {"connect", "list", "disconnect"} BY <1>4 DEF Changes, Transfers
<1>10. \A s \in ftpLinks.sessions : s \in FtpJob BY DEF FtpInv, SessionsFit
<1>11. ftpTab.patient => \A s \in ftpLinks.sessions : s = ftpTab.sid
  BY <1>1, <1>4, <1>9, AnswerOfSessions
<1>12. CASE ~again
  <2>1. ftpJobs' = Retired BY <1>2, <1>12 DEF FinishWithRefresh, Refreshed
  <2>2. FtpJob' = FtpJob BY <1>7, <1>8, <2>1 DEF FtpJob
  <2>3. TabFits' BY <1>6, <2>2 DEF FtpInv, TabFits
  <2>4. ftpTab.patient => Reachable' BY <1>4, <1>6, <1>11 DEF Reachable
  <2>5. ~(ftpTab'.connected /\ ~ftpTab'.closing) BY <1>2, <1>6, <1>12 DEF FtpInv, TabFits
  <2>6. ftpDisk' \in PageSet /\ ftpDisk'.local = ftpDisk.local /\ ftpDisk'.remote = ftpDisk.remote BY <1>3, <1>4
  <2>7. ~(ftpJobs[h].op \in {"connect", "list"}) BY <1>9
  <2>8. ftpLinks' = ftpLinks BY <1>4
  <2> QED BY <1>1, <1>4, <1>6, <2>1, <2>3, <2>4, <2>5, <2>6, <2>7, <2>8, RetireKeeps
<1>13. CASE again
  <2>1. PICK new : new = [op |-> "list", sid |-> ftpTab.sid, st |-> "new", todo |-> <<>>,
                          cancel |-> FALSE, outcome |-> "none",
                          row |-> [f \in FtpFiles |-> "none"], seen |-> ftpDisk.shown]
    OBVIOUS
  <2>2. ftpJobs' = Append(t, new) BY <1>2, <1>7, <1>13, <2>1 DEF FinishWithRefresh, Refreshed
  <2>3. new \in JobSet
    <3>1. PICK row \in [FtpFiles -> RowWords] : row = [f \in FtpFiles |-> "none"]
      <4>1. [f \in FtpFiles |-> "none"] \in [FtpFiles -> RowWords] BY DEF RowWords
      <4> QED BY <4>1
    <3>2. PICK list \in FileList, sid \in Nat, todo \in Seq(FtpFiles) :
            list = ftpDisk.shown /\ sid = ftpTab.sid /\ todo = <<>>
      <4>1. ftpDisk.shown \in FileList /\ ftpTab.sid \in Nat BY <1>3 DEF PageSet, TabSet
      <4>2. <<>> \in Seq(FtpFiles) OBVIOUS
      <4> QED BY <4>1, <4>2
    <3>3. "list" \in JobOps /\ "new" \in JobStates BY DEF JobOps, JobStates
    <3>4. new = [op |-> "list", sid |-> sid, st |-> "new", todo |-> todo, cancel |-> FALSE, outcome |-> "none",
                 row |-> row, seen |-> list]
      BY <2>1, <3>1, <3>2
    <3> QED BY <3>3, <3>4 DEF JobSet
  <2>4. /\ new.st = "new" /\ new.outcome = "none" /\ new.op = "list"
        /\ \A f \in FtpFiles : new.row[f] = "none"
    BY <2>1
  <2>5. PICK n \in Nat : n = Len(ftpJobs) /\ FtpJob = 1..n
    BY DEF FtpInv, FtpTypeOK, FtpJob
  <2>6. /\ ftpJobs' \in Seq(JobSet) /\ Len(ftpJobs') = n + 1 /\ FtpJob' = 1..(n + 1)
        /\ ftpJobs'[n + 1] = new /\ \A j \in 1..n : ftpJobs'[j] = t[j]
    BY <1>8, <2>2, <2>3, <2>5 DEF FtpJob
  <2>7. /\ \A j \in FtpJob : j \in FtpJob' /\ ftpJobs'[j] = t[j]
        /\ \A j \in FtpJob' : j \in FtpJob \/ j = n + 1
    BY <2>5, <2>6
  <2>8. \A j \in FtpJob : j \in FtpJob' /\ Kept(ftpJobs[j], ftpJobs'[j]) BY <1>8, <2>7
  <2>9. Fits(new) BY <2>4 DEF Fits, TodoFits, RowsFit
  <2>10. \A j \in FtpJob' : j \in FtpJob \/ Fits(ftpJobs'[j]) BY <2>6, <2>7, <2>9
  <2>11. \A j \in FtpJob : j \in FtpJob' /\ (j # Head(ftpQueue) => ftpJobs'[j] = ftpJobs[j])
    BY <1>1, <1>8, <2>7
  <2>12. QueueFits' /\ ftpQueue' \in Seq(Nat) BY <1>4, <2>11, QueueTaken
  <2>13. TabFits' BY <1>6, <2>7 DEF FtpInv, TabFits
  <2>14. Patience'
    <3> SUFFICES ASSUME ftpTab.patient
                 PROVE  (Alone /\ LinkIsKnown /\ LinkIsPopped /\ Reachable /\ ListIsFresh /\ LastHasRead)'
      BY <1>6 DEF Patience
    <3>1. h = n /\ \A j \in FtpJob : j # h => ftpJobs[j].st = "finished" BY <1>1, <1>4, <2>5, LastAnswer
    <3>2. \A j \in FtpJob' : ftpJobs'[j].st # "finished" => j = n + 1 BY <1>8, <2>7, <3>1
    <3>3. n + 1 \in FtpJob' /\ \A j \in FtpJob' : j = Len(ftpJobs') => j = n + 1 BY <2>5, <2>6
    <3>4. Alone' BY <1>6, <1>13, <2>6, <3>2 DEF Alone
    <3>5. LinkIsKnown' BY <2>4, <2>6, <3>2 DEF LinkIsKnown
    <3>6. LinkIsPopped' BY <2>4, <2>6, <3>2 DEF LinkIsPopped
    <3>7. Reachable' BY <1>4, <1>6, <1>11 DEF Reachable
    <3>8. ListIsFresh' BY <2>4, <2>6, <3>3 DEF ListIsFresh
    <3>9. LastHasRead' BY <2>4, <2>6, <3>3 DEF LastHasRead
    <3> QED BY <3>4, <3>5, <3>6, <3>7, <3>8, <3>9
  <2>15. ftpDisk' \in PageSet /\ ftpDisk'.local = ftpDisk.local /\ ftpDisk'.remote = ftpDisk.remote BY <1>3, <1>4
  <2>16. ftpLinks' = ftpLinks /\ ftpTab' \in TabSet /\ ftpJobs' \in Seq(JobSet) BY <1>4, <1>6, <2>6
  <2> QED BY <2>8, <2>10, <2>12, <2>13, <2>14, <2>15, <2>16, WindowKeeps, ZenonT(60)
<1> QED BY <1>12, <1>13

\* The inductive invariant of the FTP client: every step of the user, the service and the window
\* keeps it.
THEOREM FtpStep == FtpInv /\ [FtpNext]_ftpVars => FtpInv'
<1> SUFFICES ASSUME FtpInv, [FtpNext]_ftpVars PROVE FtpInv' OBVIOUS
<1>1. CASE UNCHANGED ftpVars
  BY <1>1 DEF ftpVars, FtpInv, FtpTypeOK, JobsFit, QueueFits, TabFits, LocksFit, SessionsFit, CellsFit, Patience,
              Alone, LinkIsKnown, LinkIsPopped, Reachable, ListIsFresh, LastHasRead, FtpJob
<1>2. CASE FtpUser
  BY <1>2, ConnectClickKeeps, ClicksKeep, StopKeeps DEF FtpUser
<1>3. ASSUME NEW j \in 1..MaxFtpJobs, FtpService(j) PROVE FtpInv'
  <2>1. j \in FtpJob
    BY <1>3 DEF FtpService, ServiceConnect, GetSession, PopSession, TakeLock, CloseSession, ListDirectory,
                CommandFails, NextFile, FirstBlock, TransferEnds, MoveWholeFile,
                StopFtpUpload, StopSftpUpload, StopDownload, MakeDirectory, RenamePath, DeleteEntry, Working, Moving
  <2> QED
    BY <1>3, <2>1, ServiceConnectKeeps, GetSessionKeeps, TakeLockKeeps, CloseSessionKeeps, ListDirectoryKeeps,
       CommandEndsKeeps, NextFileKeeps, FirstBlockKeeps, FileEndsKeeps,
       MakeDirectoryKeeps, RenamePathKeeps, DeleteEntryKeeps
    DEF FtpService
<1>4. CASE FtpWindow BY <1>4, FinishKeeps, FinishWithRefreshKeeps DEF FtpWindow
<1> QED BY <1>1, <1>2, <1>3, <1>4 DEF FtpNext

\* The page and the sessions of the FTP client are right for any number of files and of jobs
\* (ftp.py, ftp_client_service.py).
THEOREM FtpAlwaysRight == FtpSpec => []FtpIsRight
<1>1. FtpInv => FtpIsRight
  <2> SUFFICES ASSUME FtpInv PROVE FtpIsRight OBVIOUS
  <2>1. FilesMatchTheReport
    <3>1. \A job, f : Ended(job) /\ HalfWay(job, f) => job.outcome = "error" BY DEF Ended, HalfWay
    <3>2. \A j \in FtpJob, f \in FtpFiles :
            /\ ftpJobs[j].row[f] = "running" /\ Ended(ftpJobs[j]) => ftpJobs[j].outcome = "error" \/ ftpJobs[j].cancel
            /\ ftpJobs[j].row[f] = "stopped" => ftpJobs[j].cancel
      <4> SUFFICES ASSUME NEW j \in FtpJob, NEW f \in FtpFiles
                   PROVE  LET job == ftpJobs[j] IN
                          /\ job.row[f] = "running" /\ Ended(job) => job.outcome = "error" \/ job.cancel
                          /\ job.row[f] = "stopped" => job.cancel
        OBVIOUS
      <4>1. PICK job : job = ftpJobs[j] OBVIOUS
      <4>2. RowsFit(job) /\ job.cancel \in BOOLEAN BY <4>1, JobKnown DEF Fits, JobSet
      <4>3. job.row[f] = "stopped" => job.cancel BY <4>2 DEF RowsFit
      <4>4. job.row[f] = "running" /\ Ended(job) => job.outcome = "error" \/ job.cancel
        <5> SUFFICES ASSUME job.row[f] = "running", Ended(job), ~job.cancel PROVE job.outcome = "error"
          BY <4>2
        <5>1. HalfWay(job, f) BY <4>2 DEF RowsFit
        <5> QED BY <3>1, <5>1
      <4> QED BY <4>1, <4>3, <4>4
    <3>3. \A side \in {"local", "remote"}, f \in FtpFiles :
            LET cell == ftpDisk[side][f] IN
            cell.by # 0 /\ cell.what # "dir" =>
                LET job == ftpJobs[cell.by] IN
                /\ job.row[f] = "done" <=> cell.what = "new"
                /\ cell.what = "part" /\ Ended(job) => job.outcome = "error" \/ (job.op = "upload" /\ job.cancel)
      BY <3>1 DEF FtpInv, CellsFit, CellIsTold
    <3> QED BY <3>2, <3>3 DEF FilesMatchTheReport
  <2>2. LockIsGivenBack
    <3>1. DOMAIN ftpLinks.holder = 1..MaxFtpJobs BY DEF FtpInv, FtpTypeOK, LinkSet
    <3> QED BY <3>1 DEF FtpInv, LocksFit, LockIsGivenBack
  <2>3. SessionsAreReachable BY DEF FtpInv, Patience, Reachable, SessionsAreReachable
  <2>4. ShownListIsCurrent
    <3> SUFFICES ASSUME ftpTab.patient, ftpTab.connected, ~ftpTab.closing, Unfinished = {}
                 PROVE  LET last == ftpJobs[Len(ftpJobs)] IN
                        /\ last.op \in {"connect", "list", "disconnect"}
                        /\ (last.op # "disconnect" /\ last.outcome = "result") => ftpDisk.shown = ftpDisk.remote
      BY DEF ShownListIsCurrent
    <3>1. PICK n : n = Len(ftpJobs) OBVIOUS
    <3>2. n \in FtpJob
      <4>1. ftpTab.sid \in FtpJob BY DEF FtpInv, TabFits
      <4>2. FtpJob = 1..n /\ n \in Nat BY <3>1 DEF FtpInv, FtpTypeOK, FtpJob
      <4> QED BY <4>1, <4>2
    <3>3. ftpJobs[n].st = "finished" BY <3>2 DEF Unfinished
    <3>4. ListIsFresh /\ LastHasRead BY DEF FtpInv, Patience
    <3>5. ftpJobs[n].op \in {"connect", "list", "disconnect"} BY <3>1, <3>2, <3>3, <3>4 DEF LastHasRead
    <3>6. ftpJobs[n].op # "disconnect" /\ ftpJobs[n].outcome = "result" => ftpDisk.shown = ftpDisk.remote
      BY <3>1, <3>2, <3>3, <3>4, <3>5 DEF ListIsFresh
    <3> QED BY <3>1, <3>5, <3>6
  <2> QED BY <2>1, <2>2, <2>3, <2>4 DEF FtpIsRight, FtpPageIsTrue, FtpSessionsAreSafe
<1> QED BY <1>1, FtpStart, FtpStep, PTL DEF FtpSpec

----------------------------------------------------------------------------
(* The tabs of the window together.                                        *)

\* Whichever tab is used, what the FTP client, the copy tools and the temporary servers show stays
\* true of the files, the sessions and the ports (ftp.py, scp.py, tftp.py).
THEOREM TransfersAlwaysRight == Spec => [](FtpIsRight /\ CopyReportIsTrue /\ ServersAreRight)
<1>1. Init => FtpInit /\ CopyInit /\ SrvInit BY DEF Init
<1>2. [Next]_allVars => [FtpNext]_ftpVars BY DEF Next, Ftp, Copies, Servers, allVars
<1>3. [Next]_allVars => [CopyNext]_copyVars BY DEF Next, Ftp, Copies, Servers, allVars
<1>4. [Next]_allVars => [SrvNext]_srvVars BY DEF Next, Ftp, Copies, Servers, allVars
<1>5. Spec => FtpSpec BY <1>1, <1>2, PTL DEF Spec, FtpSpec
<1>6. Spec => CopySpec BY <1>1, <1>3, PTL DEF Spec, CopySpec
<1>7. Spec => SrvSpec BY <1>1, <1>4, PTL DEF Spec, SrvSpec
<1> QED BY <1>5, <1>6, <1>7, FtpAlwaysRight, CopyReportAlwaysTrue, ServersAlwaysRight, PTL
=============================================================================
