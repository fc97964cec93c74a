------------------------- MODULE Inspector_proofs -------------------------
(***************************************************************************)
(* What surrounds a session.  SshFallback, for any number of threads,      *)
(* endpoints, logins and requests: answers are taken in turn and helpers   *)
(* are contained.  ProfileDialog, for any profiles and edits: what is      *)
(* saved is what was shown.  VendorSession, for any handler, any number of *)
(* commands and pages: a session that was never too early is exact.  At the*)
(* end all three side by side.                                             *)
(*                                                                         *)
(* The state of an SSH session is told by four facts: where it may be while*)
(* it holds a helper; that only the request made last can be on its way    *)
(* down the pipe or in the queue, and only while the session waits for it; *)
(* that a helper which runs is held; and that one was only ever started    *)
(* for a device that may use it.                                           *)
(***************************************************************************)
EXTENDS MCInspector, SequenceTheorems, FiniteSetTheorems, WellFoundedInduction, NaturalsInduction, TLAPS

Places == {"new", "native", "idle", "login", "talk", "waiting", "closed", "failed"}
Paths == {"none", "native", "explicit", "known", "switched"}
Waits(s) == session[s].at \in {"login", "waiting"}

Clients ==
    [ep : Endpoints, setting : Settings, pinned : BOOLEAN, at : Places, path : Paths,
     held : BOOLEAN, asked : Nat, got : Nat, tries : Nat, calls : Nat, used : BOOLEAN]

SshTypeOK ==
    /\ session \in [Sessions -> Clients]
    /\ helper \in [Sessions -> [alive : BOOLEAN, request : Nat]]
    /\ answers \in [Sessions -> Seq(Nat)]

\* A session that waits holds its helper; one that holds it is past the choice.
HeldWhere(s) ==
    /\ Waits(s) \/ session[s].at = "idle" => session[s].held
    /\ session[s].held => session[s].at \in {"idle", "login", "talk", "waiting"}

\* Nothing but the request made last is under way, down the pipe or in the queue, and
\* that only while it is waited for.
Answered(s) == {i \in 1..Len(answers[s]) : answers[s][i] # EndOfAnswers}

OnlyTheLast(s) ==
    session[s].held =>
        /\ helper[s].request # 0 => Waits(s) /\ helper[s].request = session[s].asked /\ Answered(s) = {}
        /\ \A i \in Answered(s) : Waits(s) /\ answers[s][i] = session[s].asked
        /\ \A i, k \in Answered(s) : i = k

InTurn(s) == session[s].at = "talk" /\ session[s].held => session[s].got = session[s].asked

Contained(s) ==
    /\ helper[s].alive => session[s].held
    /\ ~helper[s].alive => helper[s].request = 0
    /\ session[s].used => session[s].setting # "FALSE"

SessionOK(s) == HeldWhere(s) /\ OnlyTheLast(s) /\ InTurn(s) /\ Contained(s)

SshInv == SshTypeOK /\ \A s \in Sessions : SessionOK(s)

\* A step that concerns one session leaves the others as they were.
LEMMA OthersKeep ==
    ASSUME SshInv, NEW s \in Sessions, SshTypeOK',
           \A t \in Sessions \ {s} : /\ session'[t] = session[t] /\ helper'[t] = helper[t]
                                     /\ answers'[t] = answers[t],
           SessionOK(s)'
    PROVE  SshInv'
<1>1. ASSUME NEW t \in Sessions, t # s PROVE SessionOK(t)'
  <2>1. SessionOK(t) BY <1>1 DEF SshInv
  <2>2. session'[t] = session[t] /\ helper'[t] = helper[t] /\ answers'[t] = answers[t] BY <1>1
  <2> QED BY <2>1, <2>2 DEF SessionOK, HeldWhere, OnlyTheLast, InTurn, Contained, Waits, Answered
<1> QED BY <1>1 DEF SshInv

\* Failed ends an attempt without touching what the invariant speaks of.
LEMMA FailedAttempt ==
    ASSUME NEW client \in Clients, NEW final \in BOOLEAN
    PROVE  LET r == Failed(client, final) IN
           /\ r \in Clients
           /\ r.at \in {"failed", "new"} /\ r.held = client.held /\ r.used = client.used
           /\ r.setting = client.setting
<1> DEFINE where == IF final \/ client.tries + 1 >= MaxTries THEN "failed" ELSE "new"
<1>1. where \in Places /\ where \in {"failed", "new"} BY DEF Places
<1>2. client.tries \in Nat /\ client.tries + 1 \in Nat BY DEF Clients
<1>3. "none" \in Paths BY DEF Paths
<1>4. Failed(client, final) = [client EXCEPT !.at = where, !.tries = @ + 1, !.path = "none"] BY DEF Failed
<1> HIDE DEF where
<1> QED BY <1>1, <1>2, <1>3, <1>4 DEF Clients

\* The three ways a session is left by its helper or never had one.
LEMMA Released ==
    ASSUME SshInv, NEW s \in Sessions, NEW r,
           r \in Clients,
           ~r.held, r.at \notin {"idle", "login", "waiting"},
           r.used => r.setting # "FALSE",
           Go(s, r), helper' = [helper EXCEPT ![s] = NoHelper], answers' = answers
    PROVE  SshInv'
<1>1. SshTypeOK' BY DEF SshInv, SshTypeOK, Go, NoHelper
<1>2. session'[s] = r /\ helper'[s] = NoHelper
  BY DEF SshInv, SshTypeOK, Go
<1>3. \A t \in Sessions \ {s} : session'[t] = session[t] /\ helper'[t] = helper[t] /\ answers'[t] = answers[t]
  BY DEF SshInv, SshTypeOK, Go
<1>4. SessionOK(s)'
  BY <1>2 DEF SessionOK, HeldWhere, OnlyTheLast, InTurn, Contained, Waits, Answered, NoHelper
<1> QED BY <1>1, <1>3, <1>4, OthersKeep

\* A session without a helper moves.
LEMMA MovesWithout ==
    ASSUME SshInv, NEW s \in Sessions, NEW r,
           r \in Clients,
           ~session[s].held, ~r.held, r.at \notin {"idle", "login", "waiting"},
           r.used => r.setting # "FALSE",
           Go(s, r), UNCHANGED <<helper, answers>>
    PROVE  SshInv'
<1>1. SshTypeOK' BY DEF SshInv, SshTypeOK, Go
<1>2. session'[s] = r /\ helper'[s] = helper[s]
  BY DEF SshInv, SshTypeOK, Go
<1>3. \A t \in Sessions \ {s} : session'[t] = session[t] /\ helper'[t] = helper[t] /\ answers'[t] = answers[t]
  BY DEF SshInv, SshTypeOK, Go
<1>4. ~helper[s].alive /\ helper[s].request = 0
  BY DEF SshInv, SessionOK, Contained
<1>5. SessionOK(s)'
  BY <1>2, <1>4 DEF SessionOK, HeldWhere, OnlyTheLast, InTurn, Contained, Waits, Answered
<1> QED BY <1>1, <1>3, <1>5, OthersKeep

LEMMA HelperStarted ==
    ASSUME SshInv, NEW s \in Sessions, NEW path \in Paths, session[s].setting # "FALSE", StartHelper(s, path)
    PROVE  SshInv'
<1> DEFINE k == [session[s] EXCEPT !.at = "idle", !.path = path, !.held = TRUE, !.used = TRUE, !.asked = 0, !.got = 0]
<1>k. k \in Clients
  <2>1. session[s] \in Clients /\ "idle" \in Places BY DEF SshInv, SshTypeOK, Places
  <2> QED BY <2>1 DEF Clients
<1>a. /\ session' = [session EXCEPT ![s] = k] /\ helper' = [helper EXCEPT ![s] = [alive |-> TRUE, request |-> 0]]
      /\ answers' = [answers EXCEPT ![s] = <<>>]
  BY DEF StartHelper, Go
<1>1. SshTypeOK'
  <2>1. <<>> \in Seq(Nat) OBVIOUS
  <2> HIDE DEF k
  <2> QED BY <1>k, <1>a, <2>1 DEF SshInv, SshTypeOK
<1>2. /\ session'[s] = [session[s] EXCEPT !.at = "idle", !.path = path, !.held = TRUE, !.used = TRUE, !.asked = 0, !.got = 0]
      /\ helper'[s] = [alive |-> TRUE, request |-> 0] /\ answers'[s] = <<>>
  BY DEF SshInv, SshTypeOK, Go, StartHelper
<1>3. \A t \in Sessions \ {s} : session'[t] = session[t] /\ helper'[t] = helper[t] /\ answers'[t] = answers[t]
  BY DEF SshInv, SshTypeOK, Go, StartHelper
<1>4. /\ session'[s].at = "idle" /\ session'[s].held /\ session'[s].setting # "FALSE"
      /\ Len(answers'[s]) = 0
  BY <1>2 DEF SshInv, SshTypeOK
<1>5. SessionOK(s)'
  BY <1>2, <1>4 DEF SessionOK, HeldWhere, OnlyTheLast, InTurn, Contained, Waits, Answered
<1> QED BY <1>1, <1>3, <1>5, OthersKeep

LEMMA AttemptEnds ==
    ASSUME SshInv, NEW s \in Sessions, NEW final \in BOOLEAN, ~session[s].held,
           Go(s, Failed(session[s], final)), UNCHANGED <<helper, answers>>
    PROVE  SshInv'
<1>1. session[s].used => session[s].setting # "FALSE" BY DEF SshInv, SessionOK, Contained
<1>2. session[s] \in Clients BY DEF SshInv, SshTypeOK
<1> QED BY <1>1, <1>2, FailedAttempt, MovesWithout

LEMMA HelperUsed ==
    ASSUME SshInv, NEW s \in Sessions, NEW path \in Paths, session[s].setting # "FALSE", ~session[s].held,
           UseHelper(s, path)
    PROVE  SshInv'
<1>1. CASE StartHelper(s, path) BY <1>1, HelperStarted
<1>2. CASE NoRuntime(s, path)
  <2>1. Go(s, Failed(session[s], TRUE)) /\ UNCHANGED <<helper, answers>> BY <1>2 DEF NoRuntime
  <2> QED BY <2>1, AttemptEnds
<1> QED BY <1>1, <1>2 DEF UseHelper

\* A connection that is about to be made satisfies the inductive invariant (legacy_ssh.py).
THEOREM SshStart == SshInit => SshInv
<1> SUFFICES ASSUME SshInit PROVE SshInv OBVIOUS
<1>1. SshTypeOK
  <2>1. session \in [Sessions -> Clients]
    <3>1. PICK ep \in [Sessions -> Endpoints], setting \in [Sessions -> Settings], pinned \in [Sessions -> BOOLEAN] :
            session = [s \in Sessions |->
              [ep |-> ep[s], setting |-> setting[s], pinned |-> pinned[s], at |-> "new", path |-> "none",
               held |-> FALSE, asked |-> 0, got |-> 0, tries |-> 0, calls |-> 0, used |-> FALSE]]
      BY DEF SshInit
    <3>2. "new" \in Places /\ "none" \in Paths /\ 0 \in Nat BY DEF Places, Paths
    <3> QED BY <3>1, <3>2 DEF Clients
  <2>2. helper \in [Sessions -> [alive : BOOLEAN, request : Nat]] BY DEF SshInit, NoHelper
  <2>3. answers \in [Sessions -> Seq(Nat)] BY DEF SshInit
  <2> QED BY <2>1, <2>2, <2>3 DEF SshTypeOK
<1>2. ASSUME NEW s \in Sessions PROVE SessionOK(s)
  BY DEF SshInit, SessionOK, HeldWhere, OnlyTheLast, InTurn, Contained, Waits, Answered, NoHelper
<1> QED BY <1>1, <1>2 DEF SshInv

LEMMA ConnectKeeps ==
    ASSUME SshInv, NEW s \in Sessions, Connect(s) PROVE SshInv'
<1>1. ~session[s].held BY DEF SshInv, SessionOK, HeldWhere, Connect
<1>2. CASE Explicit(s) /\ UseHelper(s, "explicit")
  BY <1>1, <1>2, HelperUsed DEF Explicit, Paths
<1>3. CASE Allowed(s) /\ UseHelper(s, "known")
  BY <1>1, <1>3, HelperUsed DEF Allowed, Paths
<1>4. CASE /\ Go(s, [session[s] EXCEPT !.at = "native", !.path = "native"])
           /\ UNCHANGED <<known, helper, answers>>
  <2>1. session[s].used => session[s].setting # "FALSE" BY DEF SshInv, SessionOK, Contained
  <2> DEFINE r == [session[s] EXCEPT !.at = "native", !.path = "native"]
  <2>2. /\ r \in Clients
        /\ ~r.held /\ r.at = "native" /\ r.used = session[s].used /\ r.setting = session[s].setting
    BY ZenonT(60), <1>1 DEF SshInv, SshTypeOK, Clients, Places, Paths
  <2> QED BY <1>1, <1>4, <2>1, <2>2, MovesWithout
<1> QED BY <1>2, <1>3, <1>4 DEF Connect

LEMMA NativeConnectKeeps ==
    ASSUME SshInv, NEW s \in Sessions, NativeConnect(s) PROVE SshInv'
<1>1. ~session[s].held BY DEF SshInv, SessionOK, HeldWhere, NativeConnect
<1>2. CASE NativeOpens(s)
  <2>1. session[s].used => session[s].setting # "FALSE" BY DEF SshInv, SessionOK, Contained
  <2> DEFINE r == [session[s] EXCEPT !.at = "talk"]
  <2>2. /\ r \in Clients
        /\ ~r.held /\ r.at = "talk" /\ r.used = session[s].used /\ r.setting = session[s].setting
    BY ZenonT(60), <1>1 DEF SshInv, SshTypeOK, Clients, Places, Paths
  <2> QED BY <1>1, <1>2, <2>1, <2>2, MovesWithout DEF NativeOpens
<1>3. CASE NativeRefusesKey(s) BY <1>1, <1>3, AttemptEnds DEF NativeRefusesKey
<1>4. CASE NativeSwitches(s) BY <1>1, <1>4, HelperUsed DEF NativeSwitches, Allowed, Paths
<1>5. CASE NativeIncompatible(s) BY <1>1, <1>5, AttemptEnds DEF NativeIncompatible
<1>6. CASE NativeError(s) BY <1>1, <1>6, AttemptEnds DEF NativeError
<1> QED BY <1>2, <1>3, <1>4, <1>5, <1>6 DEF NativeConnect

\* The number of the new request is the session's last, and nothing else is on its way.
LEMMA CallKeeps ==
    ASSUME SshInv, NEW s \in Sessions, Call(s) PROVE SshInv'
<1> DEFINE to == IF session[s].at = "idle" THEN "login" ELSE "waiting"
           calls == IF session[s].at = "talk" THEN session[s].calls + 1 ELSE session[s].calls
           k == [session[s] EXCEPT !.at = to, !.asked = @ + 1, !.calls = calls]
<1>k. k \in Clients
  <2>1. session[s] \in Clients /\ to \in Places BY DEF SshInv, SshTypeOK, Places
  <2>2. session[s].asked + 1 \in Nat /\ calls \in Nat BY <2>1 DEF Clients
  <2> HIDE DEF to, calls
  <2> QED BY <2>1, <2>2 DEF Clients
<1>a. /\ session' = [session EXCEPT ![s] = k]
      /\ helper' = [helper EXCEPT ![s] = [helper[s] EXCEPT !.request = session[s].asked + 1]]
      /\ answers' = answers
  BY DEF Call, Go
<1>1. SshTypeOK'
  <2>1. session[s].asked + 1 \in Nat BY DEF SshInv, SshTypeOK, Clients
  <2> HIDE DEF k
  <2> QED BY <1>k, <1>a, <2>1 DEF SshInv, SshTypeOK
<1>2. \A t \in Sessions \ {s} : session'[t] = session[t] /\ helper'[t] = helper[t] /\ answers'[t] = answers[t]
  BY DEF SshInv, SshTypeOK, Go, Call
<1>3. session[s].held /\ ~Waits(s)
  BY DEF SshInv, SessionOK, HeldWhere, Call, Waits
<1>4. /\ session'[s].held /\ session'[s].at \in {"login", "waiting"}
      /\ session'[s].asked = session[s].asked + 1
      /\ session'[s].used = session[s].used /\ session'[s].setting = session[s].setting
      /\ helper'[s].request = session[s].asked + 1 /\ helper'[s].alive /\ answers'[s] = answers[s]
  BY <1>3 DEF SshInv, SshTypeOK, Go, Call
<1>5. Answered(s) = {}
  BY <1>3 DEF SshInv, SessionOK, OnlyTheLast
<1>6. session[s].used => session[s].setting # "FALSE" BY DEF SshInv, SessionOK, Contained
<1>7. SessionOK(s)'
  BY <1>4, <1>5, <1>6 DEF SessionOK, HeldWhere, OnlyTheLast, InTurn, Contained, Waits, Answered
<1> QED BY <1>1, <1>2, <1>7, OthersKeep

\* The one answer there is answers the request made last.
LEMMA TakeAnswerKeeps ==
    ASSUME SshInv, NEW s \in Sessions, TakeAnswer(s) PROVE SshInv'
<1> DEFINE q == answers[s]
<1>1. /\ q \in Seq(Nat) /\ q # <<>> /\ Head(q) = q[1] /\ Head(q) \in Nat /\ 1 \in 1..Len(q)
      /\ Tail(q) \in Seq(Nat) /\ Len(Tail(q)) = Len(q) - 1
      /\ \A i \in 1..Len(Tail(q)) : Tail(q)[i] = q[i + 1] /\ i + 1 \in 1..Len(q)
  BY DEF SshInv, SshTypeOK, TakeAnswer
<1> DEFINE k == [session[s] EXCEPT !.got = Head(q), !.at = "talk"]
<1>k. k \in Clients
  <2>1. session[s] \in Clients /\ "talk" \in Places BY DEF SshInv, SshTypeOK, Places
  <2> HIDE DEF q
  <2> QED BY <1>1, <2>1 DEF Clients
<1>a. /\ session' = [session EXCEPT ![s] = k] /\ answers' = [answers EXCEPT ![s] = Tail(q)] /\ helper' = helper
  BY DEF TakeAnswer, Go
<1>2. SshTypeOK'
  <2> HIDE DEF k, q
  <2> QED BY <1>1, <1>k, <1>a DEF SshInv, SshTypeOK
<1>3. \A t \in Sessions \ {s} : session'[t] = session[t] /\ helper'[t] = helper[t] /\ answers'[t] = answers[t]
  BY DEF SshInv, SshTypeOK, Go, TakeAnswer
<1>4. session[s].held /\ Waits(s) BY DEF SshInv, SessionOK, HeldWhere, TakeAnswer, Waits
<1>5. 1 \in Answered(s) BY <1>1 DEF Answered, TakeAnswer
<1>6. q[1] = session[s].asked /\ helper[s].request = 0 /\ \A i \in Answered(s) : i = 1
  BY <1>4, <1>5 DEF SshInv, SessionOK, OnlyTheLast
<1>7. Answered(s)' = {}
  <2>1. answers'[s] = Tail(q) BY DEF SshInv, SshTypeOK, TakeAnswer
  <2>2. ASSUME NEW i \in 1..Len(Tail(q)), Tail(q)[i] # EndOfAnswers PROVE FALSE
    <3>1. i + 1 \in Answered(s) BY <2>2, <1>1 DEF Answered
    <3>2. i + 1 = 1 BY <3>1, <1>6
    <3> QED BY <3>2
  <2> QED BY <2>1, <2>2 DEF Answered
<1>8. /\ session'[s].at = "talk" /\ session'[s].held /\ session'[s].got = session'[s].asked
      /\ session'[s].used = session[s].used /\ session'[s].setting = session[s].setting
      /\ helper'[s] = helper[s]
  BY <1>1, <1>4, <1>6 DEF SshInv, SshTypeOK, Go, TakeAnswer, Clients
<1>9. (session[s].used => session[s].setting # "FALSE") /\ (~helper[s].alive => helper[s].request = 0)
  BY DEF SshInv, SessionOK, Contained
<1>10. SessionOK(s)'
  BY <1>6, <1>7, <1>8, <1>9 DEF SessionOK, HeldWhere, OnlyTheLast, InTurn, Contained, Waits
<1> QED BY <1>2, <1>3, <1>10, OthersKeep

\* A session that gives its helper up has none, whatever it does then.
LEMMA GiveUpKeeps ==
    ASSUME SshInv, NEW s \in Sessions, GiveUp(s) PROVE SshInv'
<1> DEFINE r == [session[s] EXCEPT !.held = FALSE]
<1>1. /\ r \in Clients /\ ~r.held /\ r.used = session[s].used /\ r.setting = session[s].setting
      /\ [r EXCEPT !.at = "talk"] \in Clients
  BY ZenonT(60) DEF SshInv, SshTypeOK, Clients, Places, Paths
<1>2. r.used => r.setting # "FALSE" BY <1>1 DEF SshInv, SessionOK, Contained
<1>3. helper' = [helper EXCEPT ![s] = NoHelper] /\ answers' = answers BY DEF GiveUp
<1>4. CASE Go(s, [r EXCEPT !.at = "talk"])
  <2> DEFINE k == [r EXCEPT !.at = "talk"]
  <2>1. k \in Clients /\ ~k.held /\ k.at = "talk" /\ (k.used => k.setting # "FALSE")
    BY <1>1, <1>2 DEF Clients
  <2> HIDE DEF k
  <2> QED BY <1>3, <1>4, <2>1, Released DEF k
<1>5. CASE Go(s, Failed(r, TRUE))
  <2> DEFINE k == Failed(r, TRUE)
  <2>1. k \in Clients /\ ~k.held /\ k.at \in {"failed", "new"} /\ (k.used => k.setting # "FALSE")
    <3> HIDE DEF r
    <3> QED BY <1>1, <1>2, FailedAttempt
  <2>2. Go(s, k) BY <1>5
  <2> HIDE DEF k
  <2> QED BY <1>3, <2>1, <2>2, Released
<1> QED BY <1>4, <1>5 DEF GiveUp

LEMMA CloseHelperKeeps ==
    ASSUME SshInv, NEW s \in Sessions, CloseHelper(s) PROVE SshInv'
<1> DEFINE k == [session[s] EXCEPT !.at = "closed", !.held = FALSE]
<1>1. k \in Clients /\ ~k.held /\ k.at = "closed" /\ k.used = session[s].used /\ k.setting = session[s].setting
  <2>1. session[s] \in Clients BY DEF SshInv, SshTypeOK
  <2>2. "closed" \in Places BY DEF Places
  <2>3. k \in Clients BY <2>1, <2>2 DEF Clients
  <2> QED BY <2>1, <2>3 DEF Clients
<1>2. k.used => k.setting # "FALSE" BY <1>1 DEF SshInv, SessionOK, Contained
<1>3. Go(s, k) /\ helper' = [helper EXCEPT ![s] = NoHelper] /\ answers' = answers BY DEF CloseHelper
<1> HIDE DEF k
<1> QED BY <1>1, <1>2, <1>3, Released

LEMMA SessionKeeps ==
    ASSUME SshInv, NEW s \in Sessions, Session(s) PROVE SshInv'
<1>1. CASE Connect(s) BY <1>1, ConnectKeeps
<1>2. CASE NativeConnect(s) BY <1>2, NativeConnectKeeps
<1>3. CASE Call(s) BY <1>3, CallKeeps
<1>4. CASE CallAfterClose(s) BY <1>4, AttemptEnds DEF CallAfterClose
<1>5. CASE TakeAnswer(s) BY <1>5, TakeAnswerKeeps
<1>6. CASE HelperGone(s) BY <1>6, GiveUpKeeps DEF HelperGone
<1>7. CASE TimeOut(s) BY <1>7, GiveUpKeeps DEF TimeOut
<1>8. CASE WriteFails(s) BY <1>8, GiveUpKeeps DEF WriteFails
<1>9. CASE CloseHelper(s) BY <1>9, CloseHelperKeeps
<1> QED BY <1>1, <1>2, <1>3, <1>4, <1>5, <1>6, <1>7, <1>8, <1>9 DEF Session

\* The request moves from the pipe into the queue.
LEMMA HelperAnswersKeeps ==
    ASSUME SshInv, NEW s \in Sessions, HelperAnswers(s) PROVE SshInv'
<1> DEFINE q == answers[s]  n == helper[s].request
<1>1. /\ q \in Seq(Nat) /\ n \in Nat /\ n # 0 /\ Append(q, n) \in Seq(Nat)
      /\ Len(Append(q, n)) = Len(q) + 1 /\ Append(q, n)[Len(q) + 1] = n
      /\ \A i \in 1..Len(q) : Append(q, n)[i] = q[i]
  BY DEF SshInv, SshTypeOK, HelperAnswers
<1>2. SshTypeOK' BY <1>1 DEF SshInv, SshTypeOK, HelperAnswers, Put
<1>3. \A t \in Sessions \ {s} : session'[t] = session[t] /\ helper'[t] = helper[t] /\ answers'[t] = answers[t]
  BY DEF SshInv, SshTypeOK, HelperAnswers, Put
<1>4. session[s].held BY DEF SshInv, SessionOK, Contained, HelperAnswers
<1>5. Waits(s) /\ n = session[s].asked /\ Answered(s) = {}
  BY <1>1, <1>4 DEF SshInv, SessionOK, OnlyTheLast
<1>6. answers'[s] = Append(q, n) /\ helper'[s] = [helper[s] EXCEPT !.request = 0] /\ session' = session
  BY DEF SshInv, SshTypeOK, HelperAnswers, Put
<1>7. Answered(s)' = {Len(q) + 1}
  <2>1. \A i \in 1..Len(q) : q[i] = EndOfAnswers BY <1>5 DEF Answered
  <2>2. Len(q) \in Nat BY <1>1
  <2>3. \A i \in 1..(Len(q) + 1) : i \in 1..Len(q) \/ i = Len(q) + 1 BY <2>2
  <2>4. Len(q) + 1 \in 1..(Len(q) + 1) BY <2>2
  <2> HIDE DEF q, n
  <2> QED BY <1>1, <1>6, <2>1, <2>3, <2>4 DEF Answered, EndOfAnswers
<1>8. helper'[s].request = 0 /\ helper'[s].alive = helper[s].alive BY <1>6 DEF SshInv, SshTypeOK
<1>9. SessionOK(s) BY DEF SshInv
<1>10. SessionOK(s)'
  BY <1>1, <1>4, <1>5, <1>6, <1>7, <1>8, <1>9 DEF SessionOK, HeldWhere, OnlyTheLast, InTurn, Contained, Waits
<1> QED BY <1>2, <1>3, <1>10, OthersKeep

\* The end of the answers is none.
LEMMA HelperEndsKeeps ==
    ASSUME SshInv, NEW s \in Sessions, HelperEnds(s) PROVE SshInv'
<1> DEFINE q == answers[s]
<1>1. /\ q \in Seq(Nat) /\ Append(q, EndOfAnswers) \in Seq(Nat)
      /\ Len(Append(q, EndOfAnswers)) = Len(q) + 1 /\ Append(q, EndOfAnswers)[Len(q) + 1] = EndOfAnswers
      /\ \A i \in 1..Len(q) : Append(q, EndOfAnswers)[i] = q[i]
  BY DEF SshInv, SshTypeOK, EndOfAnswers
<1>2. SshTypeOK' BY <1>1 DEF SshInv, SshTypeOK, HelperEnds, Put, NoHelper
<1>3. \A t \in Sessions \ {s} : session'[t] = session[t] /\ helper'[t] = helper[t] /\ answers'[t] = answers[t]
  BY DEF SshInv, SshTypeOK, HelperEnds, Put
<1>4. answers'[s] = Append(q, EndOfAnswers) /\ helper'[s] = NoHelper /\ session' = session
  BY DEF SshInv, SshTypeOK, HelperEnds, Put
<1>5. /\ Answered(s)' = Answered(s)
      /\ \A i \in Answered(s) : answers'[s][i] = q[i]
  <2>1. Len(q) \in Nat BY <1>1
  <2>2. \A i \in 1..(Len(q) + 1) : i \in 1..Len(q) \/ i = Len(q) + 1 BY <2>1
  <2>3. \A i \in 1..Len(q) : i \in 1..(Len(q) + 1) BY <2>1
  <2> HIDE DEF q
  <2> QED BY <1>1, <1>4, <2>2, <2>3 DEF Answered, q
<1>6. SessionOK(s) BY DEF SshInv
<1>7. OnlyTheLast(s)'
  <2>1. helper'[s].request = 0 BY <1>4 DEF NoHelper
  <2> QED BY <2>1, <1>4, <1>5, <1>6 DEF SessionOK, OnlyTheLast, Waits
<1>8. HeldWhere(s)' /\ InTurn(s)' BY <1>4, <1>6 DEF SessionOK, HeldWhere, InTurn, Waits
<1>9. Contained(s)' BY <1>4, <1>6 DEF SessionOK, Contained, NoHelper
<1>10. SessionOK(s)' BY <1>7, <1>8, <1>9 DEF SessionOK
<1> QED BY <1>2, <1>3, <1>10, OthersKeep

\* Every step of the helpers keeps it: attempts, their errors and the fall back (legacy_ssh.py).
THEOREM SshStep == SshInv /\ [SshNext]_sshVars => SshInv'
<1> SUFFICES ASSUME SshInv, [SshNext]_sshVars PROVE SshInv' OBVIOUS
<1>1. ASSUME NEW s \in Sessions, Session(s) PROVE SshInv' BY <1>1, SessionKeeps
<1>2. ASSUME NEW s \in Sessions, HelperAnswers(s) PROVE SshInv' BY <1>2, HelperAnswersKeeps
<1>3. ASSUME NEW s \in Sessions, HelperEnds(s) PROVE SshInv' BY <1>3, HelperEndsKeeps
<1>4. ASSUME UNCHANGED <<session, helper, answers>> PROVE SshInv'
  BY <1>4 DEF SshInv, SshTypeOK, SessionOK, HeldWhere, OnlyTheLast, InTurn, Contained, Waits, Answered
<1>5. ASSUME NEW ep \in Endpoints, ProbeRemembers(ep) PROVE SshInv' BY <1>4, <1>5 DEF ProbeRemembers
<1>6. ASSUME NEW ep \in Endpoints, ChangePeer(ep) PROVE SshInv' BY <1>4, <1>6 DEF ChangePeer
<1>7. CASE UNCHANGED sshVars BY <1>4, <1>7 DEF sshVars
<1> QED BY <1>1, <1>2, <1>3, <1>5, <1>6, <1>7 DEF SshNext

\* So it holds throughout a connection (legacy_ssh.py).
THEOREM SshInvariant == SshSpec => []SshInv
<1> QED BY SshStart, SshStep, PTL DEF SshSpec

\* A session only acts on the answer to its last request, no helper outlives its session,
\* and none is started for a device whose row forbids it (legacy_ssh.py, ssh_compat.py).
THEOREM HelpersAlwaysSafe == SshSpec => []HelpersAreSafe
<1>1. SshInv => HelpersAreSafe
  BY DEF SshInv, SessionOK, InTurn, Contained, HelpersAreSafe, AnswersAreInTurn, HelpersAreContained
<1> QED BY <1>1, SshInvariant, PTL

----------------------------------------------------------------------------
(* The profile dialog (inspector_profile_dialog.py).                       *)

Rows == [text : Texts \cup {NoText}, sample : Texts \cup {NoText}]

\* What a question about a save is open for: the state is one that may be written, the
\* preview is of it, and the column's box adds nothing to it.
AskedWith(d, v, p) ==
    /\ Valid(d)
    /\ p.yaml = YamlOf(d)
    /\ d = ColumnPersisted(d, v)

Clean(d, v, s) == ~v.dirty /\ s # NoProfile => s = YamlOf(ColumnPersisted(d, v))
OfItsCommands(s) == \A i \in DOMAIN s.columns : s.columns[i].command \in ToSet(s.texts)

DialogInv ==
    /\ draft.commands \in Seq(Rows)
    /\ DOMAIN draft = {"commands", "columns", "form"}
    /\ view.command \in 1 .. Len(draft.commands)
    /\ DOMAIN view = {"command", "column", "box", "picked", "dirty", "timer"}
    /\ dialog \in {"overwrite", "merge"} => AskedWith(draft, view, preview)
    /\ Clean(draft, view, saved)
    /\ OfItsCommands(saved)

\* Writing the column's box down twice writes it down once (_persist_column).
LEMMA PersistTwice ==
    ASSUME NEW d, NEW v
    PROVE  ColumnPersisted(ColumnPersisted(d, v), v) = ColumnPersisted(d, v)
<1>1. ASSUME NEW f, NEW a, NEW e PROVE [[f EXCEPT ![a] = e] EXCEPT ![a] = e] = [f EXCEPT ![a] = e]
  OBVIOUS
<1>2. CASE v.column = 0 BY <1>2 DEF ColumnPersisted
<1>3. CASE v.column # 0
  <2> DEFINE col == [d.columns[v.column] EXCEPT !.command = v.box]
             cols == [d.columns EXCEPT ![v.column] = col]
             e == [d EXCEPT !.columns = cols]
  <2>1. ColumnPersisted(d, v) = e BY <1>3 DEF ColumnPersisted
  <2>2. ColumnPersisted(e, v) = [e EXCEPT !.columns = [e.columns EXCEPT ![v.column] = [e.columns[v.column] EXCEPT !.command = v.box]]]
    BY <1>3 DEF ColumnPersisted
  <2>3. CASE "columns" \in DOMAIN d
    <3>1. e.columns = cols BY <2>3
    <3>2. CASE v.column \in DOMAIN d.columns
      <4>1. cols[v.column] = col BY <3>2
      <4>2. [col EXCEPT !.command = v.box] = col BY <1>1
      <4>3. [cols EXCEPT ![v.column] = col] = cols BY <1>1
      <4>4. [e EXCEPT !.columns = cols] = e BY <1>1
      <4> QED BY <2>1, <2>2, <3>1, <4>1, <4>2, <4>3, <4>4
    <3>3. CASE v.column \notin DOMAIN d.columns
      <4>1. ASSUME NEW z PROVE [cols EXCEPT ![v.column] = z] = cols BY <3>3
      <4>2. [e EXCEPT !.columns = cols] = e BY <1>1
      <4> HIDE DEF cols, e
      <4> QED BY <2>1, <2>2, <3>1, <4>1, <4>2
    <3> QED BY <3>2, <3>3
  <2>4. CASE "columns" \notin DOMAIN d
    <3>1. ASSUME NEW z PROVE [e EXCEPT !.columns = z] = e BY <2>4
    <3> HIDE DEF cols, e
    <3> QED BY <2>1, <2>2, <3>1
  <2> QED BY <2>3, <2>4
<1> QED BY <1>2, <1>3

\* It touches neither the commands nor the parts there are.
LEMMA PersistKeeps ==
    ASSUME NEW d, NEW v, DOMAIN d = {"commands", "columns", "form"}
    PROVE  LET e == ColumnPersisted(d, v) IN
           DOMAIN e = DOMAIN d /\ e.commands = d.commands
  BY DEF ColumnPersisted

\* Of the view it is the column and its box that count.
LEMMA PersistOf ==
    ASSUME NEW d, NEW v, NEW w, w.column = v.column, w.box = v.box
    PROVE  ColumnPersisted(d, w) = ColumnPersisted(d, v)
  BY DEF ColumnPersisted

\* A profile that is valid has columns of its commands.
LEMMA ValidIsOfItsCommands ==
    ASSUME NEW d, Valid(d) PROVE OfItsCommands(YamlOf(d))
  BY DEF Valid, OfItsCommands, YamlOf

\* An edit: what was edited is kept in its shape, and has to be saved (_schedule_preview).
LEMMA EditKeeps ==
    ASSUME DialogInv, MayEdit, draft'.commands \in Seq(Rows), DOMAIN draft' = DOMAIN draft,
           view'.command \in 1 .. Len(draft'.commands), DOMAIN view' = DOMAIN view, view'.dirty
    PROVE  DialogInv'
  BY DEF DialogInv, MayEdit, Clean, OfItsCommands

LEMMA ScheduledTells ==
    ASSUME NEW v, DOMAIN v = {"command", "column", "box", "picked", "dirty", "timer"}
    PROVE  /\ DOMAIN Scheduled(v) = DOMAIN v /\ Scheduled(v).dirty /\ Scheduled(v).command = v.command
           /\ \A d, row : /\ DOMAIN ColumnSelected(d, v, row) = DOMAIN v
                          /\ ColumnSelected(d, v, row).command = v.command
  BY DEF Scheduled, ColumnSelected

\* One command less (_remove_command).
LEMMA OneRowLess ==
    ASSUME NEW s \in Seq(Rows), NEW i \in 1 .. Len(s)
    PROVE  RemoveAt(s, i) \in Seq(Rows) /\ Len(RemoveAt(s, i)) = Len(s) - 1
<1> DEFINE a == SubSeq(s, 1, i - 1)
           b == SubSeq(s, i + 1, Len(s))
<1>1. /\ Len(s) \in Nat /\ i \in Nat /\ 1 <= i /\ i <= Len(s) /\ i - 1 \in Int /\ i + 1 \in Int /\ 1 \in Int
      /\ Len(s) \in Int /\ \A k \in 1 .. Len(s) : s[k] \in Rows
  OBVIOUS
<1>2. a \in Seq(Rows) /\ Len(a) = i - 1
  <2>1. \A k \in 1 .. i - 1 : s[k] \in Rows BY <1>1
  <2>2. a \in Seq(Rows) /\ Len(a) = (IF 1 <= i - 1 THEN i - 1 - 1 + 1 ELSE 0) BY <1>1, <2>1, SubSeqProperties
  <2> QED BY <1>1, <2>2
<1>3. b \in Seq(Rows) /\ Len(b) = Len(s) - i
  <2>1. \A k \in i + 1 .. Len(s) : s[k] \in Rows BY <1>1
  <2>2. b \in Seq(Rows) /\ Len(b) = (IF i + 1 <= Len(s) THEN Len(s) - (i + 1) + 1 ELSE 0)
    BY <1>1, <2>1, SubSeqProperties
  <2> QED BY <1>1, <2>2
<1> HIDE DEF a, b
<1>4. a \o b \in Seq(Rows) /\ Len(a \o b) = Len(a) + Len(b) BY <1>2, <1>3, ConcatProperties
<1>5. RemoveAt(s, i) = a \o b BY DEF RemoveAt, a, b
<1>6. Len(a) + Len(b) = Len(s) - 1 BY <1>1, <1>2, <1>3
<1> QED BY <1>4, <1>5, <1>6

\* Another text of the selected command (_on_command_changed).
LEMMA ChangeCommandKeeps == DialogInv /\ ChangeCommand => DialogInv'
<1> SUFFICES ASSUME DialogInv, ChangeCommand PROVE DialogInv' OBVIOUS
<1>1. MayEdit BY DEF ChangeCommand
<1>2. PICK t \in Texts \cup {NoText} : draft' = [draft EXCEPT !.commands[view.command].text = t]
  BY DEF ChangeCommand
<1>3. PICK i \in 1 .. Len(draft.commands) : i = view.command BY DEF DialogInv
<1>4. [draft.commands[i] EXCEPT !.text = t] \in Rows
  <2>1. draft.commands[i] \in Rows BY DEF DialogInv
  <2>2. PICK m \in Rows : m = draft.commands[i] BY <2>1
  <2>3. [m EXCEPT !.text = t] \in Rows BY DEF Rows
  <2> QED BY <2>2, <2>3
<1>5. PICK r \in Rows : r = [draft.commands[i] EXCEPT !.text = t] BY <1>4
<1>6. [draft.commands EXCEPT ![i] = r] \in Seq(Rows) /\ Len([draft.commands EXCEPT ![i] = r]) = Len(draft.commands)
  BY DEF DialogInv
<1>7. draft'.commands = [draft.commands EXCEPT ![i] = r] /\ DOMAIN draft' = DOMAIN draft
  BY <1>2, <1>3, <1>5 DEF DialogInv
<1>8. PICK w : w = [view EXCEPT !.box = BoxAfter(draft', view)] OBVIOUS
<1>9. w.command = view.command /\ DOMAIN w = DOMAIN view BY <1>8 DEF DialogInv
<1>10. view' = Scheduled(w) BY <1>8 DEF ChangeCommand
<1>11. DOMAIN view' = DOMAIN view /\ view'.dirty /\ view'.command = view.command
  BY <1>9, <1>10, ScheduledTells DEF DialogInv
<1>12. view'.command \in 1 .. Len(draft'.commands) BY <1>6, <1>7, <1>11 DEF DialogInv
<1> QED BY <1>1, <1>6, <1>7, <1>11, <1>12, EditKeeps

\* Another command is selected.
LEMMA SelectCommandKeeps == DialogInv /\ SelectCommand => DialogInv'
<1> SUFFICES ASSUME DialogInv, SelectCommand PROVE DialogInv' OBVIOUS
<1>1. MayEdit /\ draft' = draft BY DEF SelectCommand
<1>2. PICK row \in 1 .. Len(draft.commands) : view' = Scheduled([view EXCEPT !.command = row, !.box = BoxAfter(draft, view)])
  BY DEF SelectCommand
<1>3. PICK w : w = [view EXCEPT !.command = row, !.box = BoxAfter(draft, view)] OBVIOUS
<1>4. w.command = row /\ DOMAIN w = DOMAIN view BY <1>3 DEF DialogInv
<1>5. DOMAIN view' = DOMAIN view /\ view'.dirty /\ view'.command = row
  BY <1>2, <1>3, <1>4, ScheduledTells DEF DialogInv
<1> QED BY <1>1, <1>5, EditKeeps DEF DialogInv

\* A command from the presets (_add_command).
LEMMA AddCommandKeeps == DialogInv /\ AddCommand => DialogInv'
<1> SUFFICES ASSUME DialogInv, AddCommand PROVE DialogInv' OBVIOUS
<1>1. MayEdit BY DEF AddCommand
<1>2. PICK t \in Texts : draft' = [draft EXCEPT !.commands = Append(@, [text |-> t, sample |-> NoText])] BY DEF AddCommand
<1>3. [text |-> t, sample |-> NoText] \in Rows BY DEF Rows
<1>4. PICK r \in Rows : r = [text |-> t, sample |-> NoText] BY <1>3
<1>5. draft'.commands = Append(draft.commands, r) /\ DOMAIN draft' = DOMAIN draft BY <1>2, <1>4 DEF DialogInv
<1>6. draft'.commands \in Seq(Rows) /\ Len(draft'.commands) = Len(draft.commands) + 1 BY <1>5 DEF DialogInv
<1>7. Len(draft'.commands) \in 1 .. Len(draft'.commands)
  <2>1. Len(draft.commands) \in Nat BY DEF DialogInv
  <2> QED BY <1>6, <2>1
<1>8. PICK w : w = [view EXCEPT !.command = Len(draft'.commands), !.box = BoxAfter(draft', view)] OBVIOUS
<1>9. w.command = Len(draft'.commands) /\ DOMAIN w = DOMAIN view BY <1>8 DEF DialogInv
<1>10. view' = Scheduled(w) BY <1>8 DEF AddCommand
<1>11. DOMAIN view' = DOMAIN view /\ view'.dirty /\ view'.command = Len(draft'.commands)
  BY <1>9, <1>10, ScheduledTells DEF DialogInv
<1> QED BY <1>1, <1>5, <1>6, <1>7, <1>11, EditKeeps

\* A command is removed; the list is never empty (_remove_command).
LEMMA RemoveCommandKeeps == DialogInv /\ RemoveCommand => DialogInv'
<1> SUFFICES ASSUME DialogInv, RemoveCommand PROVE DialogInv' OBVIOUS
<1>1. MayEdit BY DEF RemoveCommand
<1>2. PICK i \in 1 .. Len(draft.commands) : i = view.command BY DEF DialogInv
<1>3. PICK rest : rest = RemoveAt(draft.commands, i) OBVIOUS
<1>4. rest \in Seq(Rows) /\ Len(rest) = Len(draft.commands) - 1
  BY <1>3, OneRowLess DEF DialogInv
<1>5. PICK t \in Texts :
        draft' = [draft EXCEPT !.commands = IF rest = <<>> THEN <<[text |-> t, sample |-> NoText]>> ELSE rest]
  BY <1>2, <1>3 DEF RemoveCommand
<1>6. [text |-> t, sample |-> NoText] \in Rows BY DEF Rows
<1>7. PICK r \in Rows : r = [text |-> t, sample |-> NoText] BY <1>6
<1>8. draft'.commands = (IF rest = <<>> THEN <<r>> ELSE rest) /\ DOMAIN draft' = DOMAIN draft BY <1>5, <1>7 DEF DialogInv
<1>9. draft'.commands \in Seq(Rows) BY <1>4, <1>8
<1>10. Len(draft'.commands) = IF Len(draft.commands) = 1 THEN 1 ELSE Len(draft.commands) - 1
  <2>1. Len(draft.commands) \in Nat BY DEF DialogInv
  <2>2. CASE rest = <<>>
    <3>1. Len(draft'.commands) = 1 BY <1>8, <2>2
    <3>2. Len(rest) = 0 BY <2>2
    <3> QED BY <1>4, <2>1, <3>1, <3>2
  <2>3. CASE rest # <<>>
    <3>1. Len(rest) # 0 BY <1>4, <2>3, EmptySeq
    <3>2. draft'.commands = rest BY <1>8, <2>3
    <3> QED BY <1>4, <2>1, <3>1, <3>2
  <2> QED BY <2>2, <2>3
<1>11. PICK w : w = [view EXCEPT !.command = IF @ > 1 THEN @ - 1 ELSE 1, !.box = BoxAfter(draft', view)] OBVIOUS
<1>12. w.command = (IF i > 1 THEN i - 1 ELSE 1) /\ DOMAIN w = DOMAIN view BY <1>2, <1>11 DEF DialogInv
<1>13. view' = Scheduled(w) BY <1>11 DEF RemoveCommand
<1>14. DOMAIN view' = DOMAIN view /\ view'.dirty /\ view'.command = w.command
  BY <1>12, <1>13, ScheduledTells DEF DialogInv
<1>15. view'.command \in 1 .. Len(draft'.commands)
  <2>1. Len(draft.commands) \in Nat /\ i \in Nat /\ 1 <= i /\ i <= Len(draft.commands) BY DEF DialogInv
  <2>2. Len(draft'.commands) \in Nat BY <1>9
  <2>3. w.command \in Nat /\ 1 <= w.command BY <1>12, <2>1
  <2>4. w.command <= Len(draft'.commands)
    <3>1. CASE Len(draft.commands) = 1 BY <1>10, <1>12, <2>1, <3>1
    <3>2. CASE Len(draft.commands) # 1
      <4>1. Len(draft'.commands) = Len(draft.commands) - 1 BY <1>10, <3>2
      <4>2. CASE i > 1 BY <1>12, <2>1, <4>1, <4>2
      <4>3. CASE ~(i > 1)
        <5>1. w.command = 1 BY <1>12, <4>3
        <5>2. PICK n \in Nat : n = Len(draft.commands) BY <2>1
        <5>3. n >= 1 /\ n # 1 BY <2>1, <3>2, <5>2
        <5>4. 1 <= n - 1 BY <5>3
        <5> QED BY <4>1, <5>1, <5>2, <5>4
      <4> QED BY <4>2, <4>3
    <3> QED BY <3>1, <3>2
  <2> QED BY <1>14, <2>2, <2>3, <2>4
<1> QED BY <1>1, <1>8, <1>9, <1>14, <1>15, EditKeeps

\* Edits of the columns leave the commands and their selection alone.
LEMMA ColumnEditKeeps ==
    ASSUME DialogInv, MayEdit, draft'.commands = draft.commands, DOMAIN draft' = DOMAIN draft,
           NEW w, view' = Scheduled(w), DOMAIN w = DOMAIN view, w.command = view.command
    PROVE  DialogInv'
<1>1. DOMAIN view' = DOMAIN view /\ view'.dirty /\ view'.command = view.command BY ScheduledTells DEF DialogInv
<1> QED BY <1>1, EditKeeps DEF DialogInv

LEMMA ColumnsEdited ==
    ASSUME NEW d, DOMAIN d = {"commands", "columns", "form"}, NEW cols
    PROVE  LET e == [d EXCEPT !.columns = cols] IN e.commands = d.commands /\ DOMAIN e = DOMAIN d
  OBVIOUS

LEMMA PickedSet ==
    ASSUME NEW v, DOMAIN v = {"command", "column", "box", "picked", "dirty", "timer"}, NEW n
    PROVE  /\ [v EXCEPT !.picked = n].command = v.command /\ DOMAIN [v EXCEPT !.picked = n] = DOMAIN v
           /\ [v EXCEPT !.box = n].command = v.command /\ DOMAIN [v EXCEPT !.box = n] = DOMAIN v
  OBVIOUS

\* The user's edits of columns (_on_column_selected, _on_column_changed, _create_column_from_selection).
LEMMA ColumnActionsKeep ==
    DialogInv /\ (SelectColumn \/ ChangeColumn \/ AddColumn \/ PickValue \/ ApplySuggestion \/ RemoveColumn \/ ChangeForm)
      => DialogInv'
<1> SUFFICES ASSUME DialogInv,
             SelectColumn \/ ChangeColumn \/ AddColumn \/ PickValue \/ ApplySuggestion \/ RemoveColumn \/ ChangeForm
             PROVE DialogInv'
  OBVIOUS
<1>1. DOMAIN draft = {"commands", "columns", "form"} /\ DOMAIN view = {"command", "column", "box", "picked", "dirty", "timer"}
  BY DEF DialogInv
<1>2. PICK d : d = ColumnPersisted(draft, view) OBVIOUS
<1>3. d.commands = draft.commands /\ DOMAIN d = DOMAIN draft BY <1>1, <1>2, PersistKeeps
<1>4. CASE SelectColumn
  <2>1. PICK row : draft' = d /\ view' = Scheduled([ColumnSelected(draft', view, row) EXCEPT !.picked = 0])
    BY <1>2, <1>4 DEF SelectColumn
  <2>2. PICK u : u = ColumnSelected(draft', view, row) OBVIOUS
  <2>3. DOMAIN u = DOMAIN view /\ u.command = view.command BY <1>1, <2>2, ScheduledTells
  <2>4. PICK w : w = [u EXCEPT !.picked = 0] OBVIOUS
  <2>5. w.command = view.command /\ DOMAIN w = DOMAIN view BY <1>1, <2>3, <2>4, PickedSet
  <2> QED BY <1>3, <1>4, <2>1, <2>2, <2>4, <2>5, ColumnEditKeeps DEF SelectColumn
<1>5. CASE ChangeColumn
  <2>1. MayEdit BY <1>5 DEF ChangeColumn
  <2>2. CASE \E t \in ToSet(CommandTexts(draft)) \ {view.box} :
               view' = Scheduled([view EXCEPT !.box = t]) /\ draft' = ColumnPersisted(draft, view')
    <3>1. PICK t : view' = Scheduled([view EXCEPT !.box = t]) /\ draft' = ColumnPersisted(draft, view') BY <2>2
    <3>2. draft'.commands = draft.commands /\ DOMAIN draft' = DOMAIN draft BY <1>1, <3>1, PersistKeeps
    <3>3. PICK w : w = [view EXCEPT !.box = t] OBVIOUS
    <3>4. w.command = view.command /\ DOMAIN w = DOMAIN view BY <1>1, <3>3, PickedSet
    <3> QED BY <2>1, <3>1, <3>2, <3>3, <3>4, ColumnEditKeeps
  <2>3. CASE draft' = [ColumnPersisted(draft, view) EXCEPT !.columns[view.column].rule = 1] /\ view' = Scheduled(view)
    <3>1. draft'.commands = draft.commands /\ DOMAIN draft' = DOMAIN draft BY <1>1, <1>2, <1>3, <2>3
    <3> QED BY <2>1, <2>3, <3>1, ColumnEditKeeps
  <2> QED BY <1>5, <2>2, <2>3 DEF ChangeColumn
<1>6. CASE AddColumn
  <2>1. PICK col : draft' = [d EXCEPT !.columns = Append(@, col)] BY <1>2, <1>6 DEF AddColumn
  <2>2. draft'.commands = draft.commands /\ DOMAIN draft' = DOMAIN draft BY <1>1, <1>3, <2>1
  <2>3. PICK w : w = ColumnSelected(draft', view, Len(draft'.columns)) OBVIOUS
  <2>4. w.command = view.command /\ DOMAIN w = DOMAIN view BY <1>1, <2>3, ScheduledTells
  <2> QED BY <1>6, <2>2, <2>3, <2>4, ColumnEditKeeps DEF AddColumn
<1>7. CASE PickValue
  <2>1. PICK col : draft' = [d EXCEPT !.columns = Append(@, col)] BY <1>2, <1>7 DEF PickValue
  <2>2. draft'.commands = draft.commands /\ DOMAIN draft' = DOMAIN draft BY <1>1, <1>3, <2>1
  <2>3. PICK u : u = ColumnSelected(draft', view, Len(draft'.columns)) OBVIOUS
  <2>4. DOMAIN u = DOMAIN view /\ u.command = view.command BY <1>1, <2>3, ScheduledTells
  <2>5. PICK w : w = [u EXCEPT !.picked = Len(draft'.columns)] OBVIOUS
  <2>6. w.command = view.command /\ DOMAIN w = DOMAIN view BY <1>1, <2>4, <2>5, PickedSet
  <2>7. view' = Scheduled(w) BY <1>7, <2>3, <2>5 DEF PickValue
  <2> QED BY <1>7, <2>2, <2>6, <2>7, ColumnEditKeeps DEF PickValue
<1>8. CASE ApplySuggestion
  <2>1. PICK r : draft' = [draft EXCEPT !.columns[view.column].rule = r] BY <1>8 DEF ApplySuggestion
  <2>2. draft'.commands = draft.commands /\ DOMAIN draft' = DOMAIN draft BY <1>1, <2>1
  <2>3. PICK w : w = [view EXCEPT !.box = BoxOfColumn(draft', view, view.column)] OBVIOUS
  <2>4. w.command = view.command /\ DOMAIN w = DOMAIN view BY <1>1, <2>3, PickedSet
  <2> QED BY <1>8, <2>2, <2>3, <2>4, ColumnEditKeeps DEF ApplySuggestion
<1>9. CASE RemoveColumn
  <2>1. PICK cols : draft' = [draft EXCEPT !.columns = cols] BY <1>9 DEF RemoveColumn
  <2>2. draft'.commands = draft.commands /\ DOMAIN draft' = DOMAIN draft BY <1>1, <2>1, ColumnsEdited
  <2>3. PICK w : w = ColumnSelected(draft', view, IF view.column > 1 THEN view.column - 1 ELSE 1) OBVIOUS
  <2>4. w.command = view.command /\ DOMAIN w = DOMAIN view BY <1>1, <2>3, ScheduledTells
  <2> QED BY <1>9, <2>2, <2>3, <2>4, ColumnEditKeeps DEF RemoveColumn
<1>10. CASE ChangeForm
  <2>1. PICK f : draft' = [draft EXCEPT !.form = f] BY <1>10 DEF ChangeForm
  <2>2. draft'.commands = draft.commands /\ DOMAIN draft' = DOMAIN draft BY <1>1, <2>1
  <2> QED BY <1>10, <2>2, ColumnEditKeeps DEF ChangeForm
<1> QED BY <1>4, <1>5, <1>6, <1>7, <1>8, <1>9, <1>10

\* The rows of a profile that is copied (_load_state).
LEMMA RowsOfProfile ==
    ASSUME NEW p \in ProfileChoices, NEW d, DOMAIN d = {"commands", "columns", "form"}
    PROVE  LET e == RowsOf(p, d) IN
           /\ DOMAIN e = DOMAIN d
           /\ p.texts = <<>> => e.commands = d.commands
           /\ p.texts # <<>> => /\ e.commands \in Seq(Rows) /\ Len(e.commands) # 0
<1>1. p.texts \in Seq(Texts) BY DialogAssumption
<1>2. PICK c : c = [i \in 1 .. Len(p.texts) |-> [text |-> p.texts[i], sample |-> NoText]] OBVIOUS
<1>3. c \in Seq(Rows) /\ Len(c) = Len(p.texts)
  <2>1. Len(p.texts) \in Nat /\ \A i \in 1 .. Len(p.texts) : p.texts[i] \in Texts BY <1>1
  <2>2. \A i \in 1 .. Len(p.texts) : [text |-> p.texts[i], sample |-> NoText] \in Rows BY <2>1 DEF Rows
  <2> QED BY <1>2, <2>1, <2>2
<1>4. p.texts # <<>> => Len(p.texts) # 0 BY <1>1, EmptySeq
<1>5. DOMAIN RowsOf(p, d) = DOMAIN d BY DEF RowsOf
<1>6. RowsOf(p, d).commands = IF p.texts = <<>> THEN d.commands ELSE c BY <1>2 DEF RowsOf
<1> QED BY <1>3, <1>4, <1>5, <1>6

LEMMA LoadedTells ==
    ASSUME NEW d, NEW v, DOMAIN v = {"command", "column", "box", "picked", "dirty", "timer"}
    PROVE  DOMAIN Loaded(d, v) = DOMAIN v /\ Loaded(d, v).command = 1
<1>1. PICK w : w = [v EXCEPT !.command = 1, !.box = BoxAfter(d, v)] OBVIOUS
<1>2. w.command = 1 /\ DOMAIN w = DOMAIN v BY <1>1
<1>3. Loaded(d, v) = ColumnSelected(d, w, 1) BY <1>1 DEF Loaded
<1> QED BY <1>2, <1>3, ScheduledTells

LEMMA CopySelectedProfileKeeps == DialogInv /\ CopySelectedProfile => DialogInv'
<1> SUFFICES ASSUME DialogInv, CopySelectedProfile PROVE DialogInv' OBVIOUS
<1>1. /\ DOMAIN draft = {"commands", "columns", "form"} /\ DOMAIN view = {"command", "column", "box", "picked", "dirty", "timer"}
      /\ draft.commands \in Seq(Rows) /\ view.command \in 1 .. Len(draft.commands)
  BY DEF DialogInv
<1>2. MayEdit BY DEF CopySelectedProfile
<1>3. PICK p \in ProfileChoices : draft' = [RowsOf(p, draft) EXCEPT !.form = 1] BY DEF CopySelectedProfile
<1>4. PICK e : e = RowsOf(p, draft) OBVIOUS
<1>5. /\ DOMAIN e = DOMAIN draft
      /\ p.texts = <<>> => e.commands = draft.commands
      /\ p.texts # <<>> => e.commands \in Seq(Rows) /\ Len(e.commands) # 0
  BY <1>1, <1>4, RowsOfProfile
<1>6. draft'.commands = e.commands /\ DOMAIN draft' = DOMAIN draft BY <1>1, <1>3, <1>4, <1>5
<1>7. draft'.commands \in Seq(Rows) /\ 1 \in 1 .. Len(draft'.commands)
  <2>1. Len(draft.commands) \in Nat /\ Len(draft.commands) # 0 BY <1>1
  <2>2. draft'.commands \in Seq(Rows) /\ Len(draft'.commands) # 0 BY <1>1, <1>5, <1>6, <2>1
  <2>3. Len(draft'.commands) \in Nat BY <2>2
  <2> QED BY <2>2, <2>3
<1>8. PICK w : w = Loaded(draft', view) OBVIOUS
<1>9. DOMAIN w = DOMAIN view /\ w.command = 1 BY <1>1, <1>8, LoadedTells
<1>10. view' = Scheduled(w) BY <1>8 DEF CopySelectedProfile
<1>11. DOMAIN view' = DOMAIN view /\ view'.dirty /\ view'.command = 1 BY <1>1, <1>9, <1>10, ScheduledTells
<1> QED BY <1>2, <1>6, <1>7, <1>11, EditKeeps

\* The timer's preview, whatever question is open (refresh_preview).
LEMMA RefreshPreviewKeeps == DialogInv /\ RefreshPreview => DialogInv'
<1> SUFFICES ASSUME DialogInv, RefreshPreview PROVE DialogInv' OBVIOUS
<1>1. /\ draft' = ColumnPersisted(draft, view) /\ preview' = PreviewOf(draft') /\ view' = [view EXCEPT !.timer = FALSE]
      /\ UNCHANGED <<saved, dialog>>
  BY DEF RefreshPreview
<1>2. DOMAIN draft' = DOMAIN draft /\ draft'.commands = draft.commands BY <1>1, PersistKeeps DEF DialogInv
<1>3. /\ DOMAIN view' = DOMAIN view /\ view'.column = view.column /\ view'.box = view.box
      /\ view'.command = view.command /\ view'.dirty = view.dirty
  BY <1>1 DEF DialogInv
<1>4. ColumnPersisted(draft', view') = draft'
  BY <1>1, <1>3, PersistTwice, PersistOf
<1>5. Clean(draft', view', saved') BY <1>1, <1>3, <1>4 DEF DialogInv, Clean
<1>6. preview'.yaml = YamlOf(draft') BY <1>1 DEF PreviewOf
<1>7. dialog' \in {"overwrite", "merge"} => AskedWith(draft', view', preview')
  BY <1>1, <1>4, <1>6 DEF DialogInv, AskedWith
<1> QED BY <1>1, <1>2, <1>3, <1>5, <1>7 DEF DialogInv

\* The save begins: the preview is made again of what the fields hold (_save_profile).
LEMMA SaveDialogKeeps == DialogInv /\ SaveDialog => DialogInv'
<1> SUFFICES ASSUME DialogInv, SaveDialog PROVE DialogInv' OBVIOUS
<1>1. /\ draft' = ColumnPersisted(draft, view) /\ preview' = PreviewOf(draft') /\ UNCHANGED <<view, saved>>
      /\ dialog' \in {"overwrite", "merge"} => preview'.button
  BY DEF SaveDialog
<1>2. DOMAIN draft' = DOMAIN draft /\ draft'.commands = draft.commands BY <1>1, PersistKeeps DEF DialogInv
<1>3. ColumnPersisted(draft', view') = draft' BY <1>1, PersistTwice
<1>4. Clean(draft', view', saved') BY <1>1, <1>3 DEF DialogInv, Clean
<1>5. preview'.yaml = YamlOf(draft') /\ preview'.button = Valid(draft') BY <1>1 DEF PreviewOf
<1>6. dialog' \in {"overwrite", "merge"} => AskedWith(draft', view', preview')
  BY <1>1, <1>3, <1>5 DEF AskedWith
<1> QED BY <1>1, <1>2, <1>4, <1>6 DEF DialogInv

\* The profile is merged into the rules file, or refused (merge_custom_profile_rules_text).
LEMMA MergeProfileKeeps == DialogInv /\ MergeProfile => DialogInv'
<1> SUFFICES ASSUME DialogInv, MergeProfile PROVE DialogInv' OBVIOUS
<1>1. AskedWith(draft, view, preview) /\ dialog' = "open" /\ UNCHANGED <<draft, preview>>
  BY DEF MergeProfile, DialogInv
<1>2. CASE saved' = preview.yaml /\ view' = [view EXCEPT !.dirty = FALSE]
  <2>1. saved' = YamlOf(ColumnPersisted(draft, view)) /\ OfItsCommands(saved')
    BY <1>1, <1>2, ValidIsOfItsCommands DEF AskedWith
  <2>2. DOMAIN view' = DOMAIN view /\ view'.column = view.column /\ view'.box = view.box /\ view'.command = view.command
    BY <1>2 DEF DialogInv
  <2>3. ColumnPersisted(draft', view') = ColumnPersisted(draft, view) BY <1>1, <2>2, PersistOf
  <2>4. Clean(draft', view', saved') BY <2>1, <2>3 DEF Clean
  <2> QED BY <1>1, <2>1, <2>2, <2>4 DEF DialogInv
<1>3. CASE UNCHANGED <<saved, view>> BY <1>1, <1>3 DEF DialogInv
<1> QED BY <1>2, <1>3 DEF MergeProfile

\* The outputs of a trial become samples, and no part of the profile (_apply_trial_outputs).
LEMMA ShowTrialResultKeeps == DialogInv /\ ShowTrialResult => DialogInv'
<1> SUFFICES ASSUME DialogInv, ShowTrialResult PROVE DialogInv' OBVIOUS
<1>1. UNCHANGED <<preview, saved, dialog>> BY DEF ShowTrialResult
<1>2. CASE ~trial.fill BY <1>1, <1>2 DEF ShowTrialResult, DialogInv
<1>3. CASE trial.fill
  <2>1. PICK c : c = [i \in DOMAIN draft.commands |->
                        IF draft.commands[i].text \in trial.outputs
                        THEN [draft.commands[i] EXCEPT !.sample = draft.commands[i].text] ELSE draft.commands[i]]
    OBVIOUS
  <2>2. draft' = [draft EXCEPT !.commands = c] /\ view' = Scheduled(view) BY <1>3, <2>1 DEF ShowTrialResult
  <2>3. draft.commands \in Seq(Rows) /\ DOMAIN draft = {"commands", "columns", "form"} BY DEF DialogInv
  <2>4. ASSUME NEW i \in DOMAIN draft.commands PROVE c[i] \in Rows /\ c[i].text = draft.commands[i].text
    <3>1. draft.commands[i] \in Rows BY <2>3
    <3>2. PICK m \in Rows : m = draft.commands[i] BY <3>1
    <3>3. [m EXCEPT !.sample = m.text] \in Rows /\ [m EXCEPT !.sample = m.text].text = m.text BY DEF Rows
    <3>4. c[i] = IF m.text \in trial.outputs THEN [m EXCEPT !.sample = m.text] ELSE m BY <2>1, <3>2
    <3> QED BY <3>2, <3>3, <3>4
  <2>5. c \in Seq(Rows) /\ DOMAIN c = DOMAIN draft.commands /\ Len(c) = Len(draft.commands)
        /\ \A i \in DOMAIN draft.commands : c[i].text = draft.commands[i].text
    <3>1. DOMAIN draft.commands = 1 .. Len(draft.commands) /\ Len(draft.commands) \in Nat BY <2>3
    <3>2. \A i \in DOMAIN draft.commands : c[i] \in Rows /\ c[i].text = draft.commands[i].text BY <2>1, <2>4
    <3>3. c \in [1 .. Len(draft.commands) -> Rows] BY <2>1, <3>1, <3>2
    <3>4. c \in Seq(Rows) BY <3>1, <3>3
    <3>5. Len(c) = Len(draft.commands) BY <3>1, <3>3, <3>4
    <3> QED BY <2>1, <3>2, <3>4, <3>5
  <2>6. draft'.commands = c /\ draft'.columns = draft.columns /\ draft'.form = draft.form /\ DOMAIN draft' = DOMAIN draft
    BY <2>2, <2>3
  <2>7. Texts_(draft') = Texts_(draft) BY <2>5, <2>6 DEF Texts_
  <2>8. CommandTexts(draft') = CommandTexts(draft) BY <2>7 DEF CommandTexts
  <2>9. YamlOf(draft') = YamlOf(draft) BY <2>6, <2>8 DEF YamlOf
  <2>10. draft.commands # <<>> => c # <<>> BY <2>5
  <2>11. Valid(draft) => Valid(draft') BY <2>5, <2>6, <2>8, <2>10 DEF Valid
  <2>12. /\ DOMAIN view' = DOMAIN view /\ view'.dirty /\ view'.command = view.command
         /\ view'.column = view.column /\ view'.box = view.box
    BY <2>2 DEF Scheduled, DialogInv
  <2>13. draft = ColumnPersisted(draft, view) => draft' = ColumnPersisted(draft', view')
    <3> SUFFICES ASSUME draft = ColumnPersisted(draft, view) PROVE draft' = ColumnPersisted(draft', view) BY <2>12, PersistOf
    <3>1. CASE view.column = 0 BY <3>1 DEF ColumnPersisted
    <3>2. CASE view.column # 0
      <4>1. PICK k : k = [draft.columns EXCEPT ![view.column] = [draft.columns[view.column] EXCEPT !.command = view.box]] OBVIOUS
      <4>2. ColumnPersisted(draft, view) = [draft EXCEPT !.columns = k] BY <3>2, <4>1, <2>3 DEF ColumnPersisted
      <4>3. draft.columns = k BY <2>3, <4>2
      <4>4. ColumnPersisted(draft', view) = [draft' EXCEPT !.columns = k] BY <2>3, <2>6, <3>2, <4>1 DEF ColumnPersisted
      <4>5. [draft' EXCEPT !.columns = k] = draft' BY <2>2, <2>6, <4>3
      <4> QED BY <4>4, <4>5
    <3> QED BY <3>1, <3>2
  <2>14. dialog' \in {"overwrite", "merge"} => AskedWith(draft', view', preview')
    BY <1>1, <2>9, <2>11, <2>13 DEF AskedWith, DialogInv
  <2>15. Clean(draft', view', saved') BY <2>12 DEF Clean
  <2>16. view'.command \in 1 .. Len(draft'.commands) BY <2>5, <2>6, <2>12 DEF DialogInv
  <2> QED BY <1>1, <2>3, <2>5, <2>6, <2>12, <2>14, <2>15, <2>16 DEF DialogInv
<1> QED BY <1>2, <1>3

\* What neither edits nor previews, and opens no question about a save.
LEMMA AsideKeeps ==
    ASSUME DialogInv, UNCHANGED <<view, preview, saved>>,
           draft' = draft \/ draft' = ColumnPersisted(draft, view),
           dialog' \in {"overwrite", "merge"} => dialog' = dialog /\ draft' = draft
    PROVE  DialogInv'
<1>1. CASE draft' = draft BY <1>1 DEF DialogInv
<1>2. CASE draft' = ColumnPersisted(draft, view)
  <2>1. DOMAIN draft' = DOMAIN draft /\ draft'.commands = draft.commands BY <1>2, PersistKeeps DEF DialogInv
  <2>2. ColumnPersisted(draft', view') = draft' BY <1>2, PersistTwice
  <2>3. Clean(draft', view', saved') BY <1>2, <2>2 DEF DialogInv, Clean
  <2>4. dialog' \in {"overwrite", "merge"} => AskedWith(draft', view', preview') BY DEF DialogInv
  <2> QED BY <2>1, <2>3, <2>4 DEF DialogInv
<1> QED BY <1>1, <1>2

LEMMA DialogStep == DialogInv /\ [DialogNext]_dialogVars => DialogInv'
<1> SUFFICES ASSUME DialogInv, [DialogNext]_dialogVars PROVE DialogInv' OBVIOUS
<1>1. CASE ChangeCommand \/ SelectCommand \/ AddCommand \/ RemoveCommand
  BY <1>1, ChangeCommandKeeps, SelectCommandKeeps, AddCommandKeeps, RemoveCommandKeeps
<1>2. CASE SelectColumn \/ ChangeColumn \/ AddColumn \/ PickValue \/ ApplySuggestion \/ RemoveColumn \/ ChangeForm
  BY <1>2, ColumnActionsKeep
<1>3. CASE CopySelectedProfile \/ RefreshPreview \/ SaveDialog \/ MergeProfile \/ ShowTrialResult
  BY <1>3, CopySelectedProfileKeeps, RefreshPreviewKeeps, SaveDialogKeeps, MergeProfileKeeps, ShowTrialResultKeeps
<1>4. CASE KeepExisting BY <1>4, AsideKeeps DEF KeepExisting
<1>5. CASE AskForTrial
  <2>1. dialog = "open" /\ UNCHANGED <<view, preview, saved>> /\ draft' = ColumnPersisted(draft, view) BY <1>5 DEF AskForTrial, Click
  <2>2. dialog' \in {"open", "trial"} BY <1>5, <2>1 DEF AskForTrial
  <2> QED BY <2>1, <2>2, AsideKeeps
<1>6. CASE AnswerTrial \/ StartProbe \/ StopTrial \/ FinishTrial \/ Acknowledge
  BY <1>6, AsideKeeps DEF AnswerTrial, StartProbe, StopTrial, FinishTrial, Acknowledge, TrialStep
<1>7. CASE RunTrial
  <2>1. UNCHANGED <<draft, view, preview, saved, dialog>> BY <1>7 DEF RunTrial, TrialStep
  <2> QED BY <2>1, AsideKeeps
<1>8. CASE RequestClose
  <2>1. UNCHANGED <<draft, view, preview, saved>> /\ dialog' \in {"wait", "open", "closed"} BY <1>8 DEF RequestClose
  <2> QED BY <2>1, AsideKeeps
<1>9. CASE UNCHANGED dialogVars BY <1>9, AsideKeeps DEF dialogVars
<1> QED BY <1>1, <1>2, <1>3, <1>4, <1>5, <1>6, <1>7, <1>8, <1>9 DEF DialogNext

LEMMA DialogStart == DialogInit => DialogInv
<1> SUFFICES ASSUME DialogInit PROVE DialogInv OBVIOUS
<1>1. PICK p \in ProfileChoices :
        p.texts # <<>> /\ draft = RowsOf(p, [commands |-> <<>>, columns |-> <<>>, form |-> 0])
  BY DEF DialogInit
<1>2. PICK d : d = [commands |-> <<>>, columns |-> <<>>, form |-> 0] OBVIOUS
<1>3. DOMAIN d = {"commands", "columns", "form"} BY <1>2
<1>4. DOMAIN draft = DOMAIN d /\ draft.commands \in Seq(Rows) /\ Len(draft.commands) # 0
  BY <1>1, <1>2, <1>3, RowsOfProfile
<1>5. PICK v : v = [command |-> 1, column |-> 1, box |-> NoText, picked |-> 0, dirty |-> FALSE, timer |-> FALSE] OBVIOUS
<1>6. DOMAIN v = {"command", "column", "box", "picked", "dirty", "timer"} BY <1>5
<1>7. view = Loaded(draft, v) BY <1>5 DEF DialogInit
<1>8. DOMAIN view = DOMAIN v /\ view.command = 1 BY <1>6, <1>7, LoadedTells
<1>9. view.command \in 1 .. Len(draft.commands)
  <2>1. Len(draft.commands) \in Nat BY <1>4
  <2> QED BY <1>4, <1>8, <2>1
<1>10. saved = NoProfile /\ dialog = "open" BY DEF DialogInit
<1>11. Clean(draft, view, saved) /\ OfItsCommands(saved) BY <1>10 DEF Clean, OfItsCommands, NoProfile
<1> QED BY <1>3, <1>4, <1>6, <1>8, <1>9, <1>10, <1>11 DEF DialogInv

\* For any texts, profiles to copy from and number of edits: a dialog that would close
\* without a question holds what the file holds, and no profile is written whose columns
\* name a command it does not run, whatever the timer or a trial brings in while the
\* question about the save is open (inspector_profile_dialog.py).
THEOREM SavedAlwaysTheShownOne == DialogInit /\ [][DialogNext]_dialogVars => []SavedProfileIsTheShownOne
<1>1. DialogInv => SavedProfileIsTheShownOne BY DEF DialogInv, Clean, OfItsCommands, SavedProfileIsTheShownOne
<1> QED BY <1>1, DialogStart, DialogStep, PTL

----------------------------------------------------------------------------
(* The session of a vendor handler (inspector_runtime/vendors).            *)
(*                                                                         *)
(* OnTime says what holds of a session none of whose waits has ended too   *)
(* early.  Its heart is Place: for each point at which a handler may stand,*)
(* where the device may be and what may be pending, said and not yet read; *)
(* and, while a command is read, that what was read and what is pending    *)
(* make up the pages the device has shown, each once and in their order.   *)
(* A wait that was too early is never forgotten (LateStays), so VendorInv, *)
(* that a session was late or is OnTime, is inductive.                     *)

Fields == {"user", "password", "nudged", "misplaced", "late", "prompt", "acc", "reads"}
TokenKinds == {"user?", "pass?", "text", "more"} \cup Prompts
Token == [kind : TokenKinds, of : Nat, page : Nat]
Terminal ==
    [mode : {"user?", "pass?", "enable?", "more", "cli"}, asks : {"user?", "pass?", "cli"}, known : BOOLEAN,
     level : Prompts, secret : {"none", "right", "wrong"}, paged : BOOLEAN, pages : [1 .. Commands -> 1 .. MaxPages],
     showing : [of : Nat, page : Nat], out : Seq(Token), link : BOOLEAN]
Result == [text : Seq(Token), error : BOOLEAN]

SessionTypes ==
    /\ handler \in Handlers
    /\ dev \in Terminal
    /\ wire \in Seq(Token)
    /\ talk.acc \in Seq(Token) /\ talk.reads \in Nat /\ (handler.bound = "none" => talk.reads <= 1) /\ talk.prompt \in Prompts \cup {"nothing"}
    /\ results \in Seq(Result) /\ Len(results) <= Commands
    /\ handler.pager = "none" /\ handler.paging = "never" => ~dev.paged

\* What the device said and the handler has not yet read.
Pending == wire \o dev.out
Quiet(tokens) == Kinds(tokens) \subseteq Prompts
Asking == IF dev.mode = "cli" THEN dev.level ELSE dev.mode

\* t ends with the question for a password and has nothing but prompts before it.
AsksLast(t) ==
    /\ t # <<>> /\ t[Len(t)].kind = "pass?"
    /\ \A i \in 1 .. Len(t) : i # Len(t) => t[i].kind \in Prompts

AtLogin ==
    /\ dev.mode \in {"user?", "pass?", "cli"}
    /\ handler.login \in {"prompt", "nudge"} => dev.mode = "cli"
    /\ handler.login = "asked" => dev.mode # "cli"
    /\ handler.login = "inside" => dev.mode = "pass?"
    /\ dev.mode = "pass?" => dev.known
    /\ Pending = <<Says(Asking)>>
    /\ handler.login = "answers" => talk.acc = <<>>
AtPassword == handler.login = "asked" /\ dev.mode = "pass?" /\ dev.known /\ Pending = <<Says("pass?")>>
AtAnswer ==
    /\ handler.login = "answers"
    /\ dev.mode \in {"pass?", "cli"}
    /\ dev.mode = "pass?" => dev.known
    /\ dev.mode = "pass?" <=> "pass?" \in Kinds(talk.acc \o Pending)
    /\ dev.mode = "cli" => Quiet(Pending)
AtEnable ==
    /\ dev.mode = "cli" /\ Quiet(Pending)
    /\ handler.login # "asked" => Pending = <<>>
    /\ handler.enable = "known" => talk.prompt \in Prompts
AtAsked ==
    /\ dev.mode \in {"cli", "enable?"}
    /\ dev.mode = "cli" => Quiet(Pending)
    /\ dev.mode = "enable?" => dev.secret # "none" /\ AsksLast(Pending)
    /\ handler.enable \notin {"known", "blind"} => Len(Pending) = 1
AtRest == dev.mode = "cli" /\ Quiet(Pending)

\* t brings the pages a to b of the answer to command n, in their order.
PagesOf(t, n, a, b) ==
    /\ \A i \in 1 .. Len(t) : t[i].kind = "text" => t[i].page \in a .. b /\ t[i] = Page(n, t[i].page)
    /\ \A k \in a .. b : \E i \in 1 .. Len(t) : t[i] = Page(n, k)
    /\ \A i, j \in 1 .. Len(t) : t[i].kind = "text" /\ t[j].kind = "text" /\ i < j => t[i].page < t[j].page

This == Len(results) + 1
Said == talk.acc \o Pending
Paging ==
    /\ dev.showing.of = This /\ dev.showing.page < dev.pages[This] /\ dev.paged
    /\ handler.bound \in {"reads", "dry"} => talk.reads < dev.showing.page
    /\ "more" \in Kinds(Pending)
AtReading ==
    /\ Len(results) < Commands
    /\ dev.mode \in {"more", "cli"}
    /\ PagesOf(Said, This, 1, IF dev.mode = "more" THEN dev.showing.page ELSE dev.pages[This])
    /\ dev.mode = "more" => Paging
    /\ handler.ends # "once" => \A i \in 1 .. Len(Said) : Said[i].kind \in Prompts => i = Len(Said)

Place ==
    /\ at = "login" => AtLogin
    /\ at = "login password" => AtPassword
    /\ at = "login shown" => AtRest /\ handler.login = "inside"
    /\ at = "login password?" => AtAnswer
    /\ at = "login end" => AtRest /\ handler.login = "answers"
    /\ at = "enable" => AtEnable
    /\ at \in {"look", "press", "entered", "paging", "paging seen"} => AtRest
    /\ at = "asked" => AtAsked
    /\ at = "ready" => dev.mode = "cli" /\ Pending = <<>>
    /\ at = "reading" => AtReading
    /\ at \in {"paging seen", "ready", "reading"} /\ dev.paged => handler.pager = "total"

OnTime ==
    /\ SessionTypes
    /\ \A n \in DOMAIN results : ~results[n].error => results[n].text = WholeText(n)
    /\ handler.login = "dialogue" => ~talk.misplaced
    /\ dev.link => Place
VendorInv == DOMAIN talk = Fields /\ talk.late \in BOOLEAN /\ (talk.late \/ OnTime)
LEMMA JoinKinds ==
    ASSUME NEW s \in Seq(Token), NEW t \in Seq(Token)
    PROVE  Kinds(s \o t) = Kinds(s) \cup Kinds(t)
<1>1. PICK m \in Nat : m = Len(s) OBVIOUS
<1>2. PICK n \in Nat : n = Len(t) OBVIOUS
<1>3. /\ DOMAIN s = 1 .. m /\ DOMAIN t = 1 .. n /\ DOMAIN (s \o t) = 1 .. m + n
      /\ \A i \in 1 .. m + n : (s \o t)[i] = IF i <= m THEN s[i] ELSE t[i - m]
  BY <1>1, <1>2, ConcatProperties, LenProperties
<1>4. \A i \in 1 .. m : i \in 1 .. m + n /\ (s \o t)[i].kind = s[i].kind BY <1>3
<1>5. \A i \in 1 .. n : m + i \in 1 .. m + n /\ (s \o t)[m + i].kind = t[i].kind BY <1>3
<1>6. \A i \in 1 .. m + n : i \in 1 .. m \/ \E k \in 1 .. n : i = m + k
  <2> TAKE i \in 1 .. m + n
  <2>1. CASE i <= m BY <2>1
  <2>2. CASE i > m
    <3>1. i - m \in 1 .. n /\ i = m + (i - m) BY <2>2
    <3> QED BY <3>1
  <2> QED BY <2>1, <2>2
<1>7. ASSUME NEW k \in Kinds(s \o t) PROVE k \in Kinds(s) \cup Kinds(t)
  <2>1. PICK i \in 1 .. m + n : k = (s \o t)[i].kind BY <1>3 DEF Kinds
  <2>2. CASE i \in 1 .. m BY <2>1, <2>2, <1>3, <1>4 DEF Kinds
  <2>3. CASE \E j \in 1 .. n : i = m + j BY <2>1, <2>3, <1>3, <1>5 DEF Kinds
  <2> QED BY <2>2, <2>3, <1>6
<1>8. ASSUME NEW k \in Kinds(s) PROVE k \in Kinds(s \o t) BY <1>3, <1>4 DEF Kinds
<1>9. ASSUME NEW k \in Kinds(t) PROVE k \in Kinds(s \o t)
  <2>1. PICK i \in 1 .. n : k = t[i].kind BY <1>3 DEF Kinds
  <2>2. m + i \in DOMAIN (s \o t) /\ (s \o t)[m + i].kind = k BY <2>1, <1>3, <1>5
  <2> QED BY <2>2 DEF Kinds
<1> QED BY <1>7, <1>8, <1>9

\* The kind of a single token.
LEMMA KindsOfOne == ASSUME NEW z PROVE Kinds(<<z>>) = {z.kind}
BY DEF Kinds

\* Nothing has no kinds.
LEMMA KindsOfNone == Kinds(<<>>) = {}
BY DEF Kinds

\* A single token is in the one or in the other of two pieces.
LEMMA OneToken ==
    ASSUME NEW s \in Seq(Token), NEW t \in Seq(Token), NEW z, s \o t = <<z>>
    PROVE  (s = <<>> /\ t = <<z>>) \/ (s = <<z>> /\ t = <<>>)
<1>1. PICK m \in Nat : m = Len(s) OBVIOUS
<1>2. PICK n \in Nat : n = Len(t) OBVIOUS
<1>4. Len(<<z>>) = 1 OBVIOUS
<1>5. m + n = 1 BY <1>1, <1>2, <1>4, ConcatProperties
<1>6. CASE m = 0
  <2>1. s = <<>> BY <1>6, <1>1, EmptySeq
  <2>2. t = <<z>> BY <2>1, ConcatEmptySeq
  <2> QED BY <2>1, <2>2
<1>7. CASE m = 1
  <2>0. n = 0 BY <1>5, <1>7
  <2>1. t = <<>> BY <2>0, <1>2, EmptySeq
  <2>2. s = <<z>> BY <2>1, ConcatEmptySeq
  <2> QED BY <2>1, <2>2
<1> QED BY <1>5, <1>6, <1>7

\* What arrives changes nothing in what is pending.
LEMMA ArrivalKeeps ==
    ASSUME NEW s \in Seq(Token), NEW t \in Seq(Token), t # <<>>
    PROVE  /\ Append(s, Head(t)) \o Tail(t) = s \o t
           /\ Append(s, Head(t)) \in Seq(Token) /\ Tail(t) \in Seq(Token)
<1>1. Head(t) \in Token /\ Tail(t) \in Seq(Token) BY HeadTailProperties
<1>2. Append(s, Head(t)) = s \o <<Head(t)>> BY <1>1, AppendIsConcat
<1>3. <<Head(t)>> \in Seq(Token) BY <1>1
<1>4. t = <<Head(t)>> \o Tail(t)
  <2>1. Len(t) \in Nat \ {0} BY EmptySeq
  <2>2. PICK n \in Nat : n = Len(t) /\ n > 0 BY <2>1
  <2>3. Len(Tail(t)) = n - 1 /\ \A i \in 1 .. n - 1 : Tail(t)[i] = t[i + 1] BY <2>2, HeadTailProperties
  <2>4. Head(t) = t[1] OBVIOUS
  <2>5. PICK h : h = <<Head(t)>> OBVIOUS
  <2>6. h \in Seq(Token) /\ Len(h) = 1 /\ h[1] = t[1] BY <2>4, <2>5, <1>3
  <2>7. PICK u \in Seq(Token) : u = h \o Tail(t) BY <1>1, <2>6, ConcatProperties
  <2>8. Len(u) = n /\ \A i \in 1 .. n : u[i] = t[i]
    <3>0. /\ Len(u) = Len(h) + Len(Tail(t))
          /\ \A i \in 1 .. Len(h) + Len(Tail(t)) : u[i] = IF i <= Len(h) THEN h[i] ELSE Tail(t)[i - Len(h)]
      BY <1>1, <2>6, <2>7, ConcatProperties
    <3>1. Len(u) = 1 + (n - 1) BY <3>0, <2>3, <2>6
    <3>2. \A i \in 1 .. 1 + (n - 1) : u[i] = IF i <= 1 THEN h[i] ELSE Tail(t)[i - 1]
      BY <3>0, <2>3, <2>6
    <3>3. ASSUME NEW i \in 1 .. n PROVE u[i] = t[i]
      <4>1. i \in 1 .. 1 + (n - 1) BY <2>2
      <4>2. CASE i = 1 BY <4>1, <4>2, <3>2, <2>6
      <4>3. CASE i # 1
        <5>1. i - 1 \in 1 .. n - 1 /\ (i - 1) + 1 = i /\ ~(i <= 1) BY <4>3
        <5> QED BY <4>1, <5>1, <3>2, <2>3
      <4> QED BY <4>2, <4>3
    <3>4. 1 + (n - 1) = n BY <2>2
    <3> QED BY <3>1, <3>3, <3>4
  <2>9. u = t BY <2>2, <2>7, <2>8, SeqEqual
  <2> QED BY <2>5, <2>7, <2>9
<1>5. (s \o <<Head(t)>>) \o Tail(t) = s \o (<<Head(t)>> \o Tail(t)) BY <1>1, <1>3, ConcatAssociative
<1>6. Append(s, Head(t)) \in Seq(Token) BY <1>1, AppendProperties
<1> QED BY <1>1, <1>2, <1>4, <1>5, <1>6

\* A set of positions that is not empty has a last one.
LEMMA LastPosition ==
    ASSUME NEW n \in Nat, NEW P \in SUBSET (1 .. n), P # {}
    PROVE  \E m \in P : \A i \in P : i <= m
<1>1. PICK T : T = {k \in Nat : \A i \in P : i <= k} OBVIOUS
<1>2. n \in T BY <1>1
<1>3. T \subseteq Nat /\ T # {} BY <1>1, <1>2
<1>4. PICK m \in T : \A k \in T : ~ (<<k, m>> \in OpToRel(<, Nat))
  <2> HIDE <1>1
  <2> QED BY <1>3, NatLessThanWellFounded, WFMin
<1>5. m \in Nat /\ \A i \in P : i <= m BY <1>1
<1>6. \A k \in T : ~(k < m) BY <1>1, <1>4, <1>5 DEF OpToRel
<1>7. SUFFICES ASSUME m \notin P PROVE FALSE BY <1>5
<1>8. PICK i \in P : TRUE OBVIOUS
<1>9. m > 0 /\ m - 1 \in Nat BY <1>5, <1>7, <1>8
<1>10. ASSUME NEW j \in P PROVE j <= m - 1
  <2>1. j \in Nat /\ j <= m /\ j # m BY <1>5, <1>7
  <2> QED BY <2>1, <1>5
<1>11. m - 1 \in T
  <2>1. PICK k : k = m - 1 OBVIOUS
  <2>2. k \in Nat /\ \A j \in P : j <= k BY <2>1, <1>9, <1>10
  <2>3. k \in T BY <2>2, <1>1
  <2> QED BY <2>1, <2>3
<1>12. m - 1 < m BY <1>5
<1> QED BY <1>6, <1>11, <1>12

\* The last prompt is one of the prompts there are, if there is any.
LEMMA LastPromptTells ==
    ASSUME NEW t \in Seq(Token)
    PROVE  /\ LastPrompt(t) \in Prompts \cup {"nothing"}
           /\ SeesPrompt(t) <=> LastPrompt(t) \in Prompts
           /\ LastPrompt(t) \in Kinds(t) \cup {"nothing"}
<1>1. PICK n \in Nat : n = Len(t) /\ DOMAIN t = 1 .. n BY LenProperties
<1>2. PICK P \in SUBSET (1 .. n) : P = {i \in DOMAIN t : t[i].kind \in Prompts} BY <1>1
<1>3. IsFiniteSet(P)
  <2>1. IsFiniteSet(1 .. n) BY FS_Interval
  <2> QED BY <2>1, FS_Subset
<1>4. OfKinds(t, Prompts) = Chosen(t, P) BY <1>2 DEF OfKinds
<1>5. CASE P = {}
  <2>1. Cardinality(P) = 0 BY <1>5, FS_EmptySet
  <2>2. Chosen(t, P) = <<>> BY <2>1 DEF Chosen
  <2>3. LastPrompt(t) = "nothing" BY <2>2, <1>4 DEF LastPrompt, LastKind
  <2>4. ~SeesPrompt(t) BY <1>2, <1>5 DEF SeesPrompt, Kinds
  <2> QED BY <2>3, <2>4 DEF Prompts
<1>6. CASE P # {}
  <2>1. PICK c \in Nat : c = Cardinality(P) BY <1>3, FS_CardinalityType
  <2>2. c # 0 BY <2>1, <1>3, <1>6, FS_EmptySet
  <2>3. PICK m \in P : \A i \in P : i <= m BY <1>6, LastPosition
  <2>4. {j \in P : j <= m} = P BY <2>3
  <2>5. PICK z : z = CHOOSE i \in P : Cardinality({j \in P : j <= i}) = c OBVIOUS
  <2>6. z \in P
    <3>1. Cardinality({j \in P : j <= m}) = c BY <2>1, <2>4
    <3> QED BY <3>1, <2>5
  <2>7. PICK u : u = Chosen(t, P) OBVIOUS
  <2>8. u = [k \in 1 .. c |-> t[CHOOSE i \in P : Cardinality({j \in P : j <= i}) = k]] BY <2>1, <2>7 DEF Chosen
  <2>9. Len(u) = c /\ u[c] = t[z] BY <2>2, <2>5, <2>8
  <2>10. u # <<>> BY <2>2, <2>9
  <2>11. LastPrompt(t) = t[z].kind BY <1>4, <2>7, <2>9, <2>10 DEF LastPrompt, LastKind
  <2>12. t[z].kind \in Prompts /\ t[z].kind \in Kinds(t) BY <2>6, <1>1, <1>2 DEF Kinds
  <2>13. SeesPrompt(t) BY <2>12 DEF SeesPrompt
  <2> QED BY <2>11, <2>12, <2>13
<1> QED BY <1>5, <1>6

\* As many positions as numbers, when a position is given for each number and to each.
LEMMA CountedBy ==
    ASSUME NEW k \in Nat, NEW S, NEW f \in [1 .. k -> S],
           \A i, j \in 1 .. k : f[i] = f[j] => i = j, \A z \in S : \E i \in 1 .. k : f[i] = z
    PROVE  IsFiniteSet(S) /\ Cardinality(S) = k
<1>1. IsFiniteSet(1 .. k) /\ Cardinality(1 .. k) = k BY FS_Interval
<1>2. f \in Injection(1 .. k, S) BY DEF Injection, IsInjective
<1>4. f \in Surjection(1 .. k, S) BY DEF Surjection
<1>3. ExistsBijection(1 .. k, S) BY <1>2, <1>4 DEF ExistsBijection, Bijection
<1> QED BY <1>1, <1>3, FS_Bijection

\* The text of an answer that brings the pages 1 to m in their order are these pages.
LEMMA TextInOrder ==
    ASSUME NEW t \in Seq(Token), NEW n \in Nat, NEW m \in Nat, PagesOf(t, n, 1, m)
    PROVE  OfKinds(t, {"text"}) = [p \in 1 .. m |-> Page(n, p)]
<1>1. PICK l \in Nat : l = Len(t) /\ DOMAIN t = 1 .. l BY LenProperties
<1>2. PICK P : P = {i \in DOMAIN t : t[i].kind \in {"text"}} OBVIOUS
<1>3. \A i \in P : i \in Nat /\ t[i].page \in 1 .. m /\ t[i] = Page(n, t[i].page) BY <1>1, <1>2 DEF PagesOf
<1>4. \A i, j \in P : i < j => t[i].page < t[j].page BY <1>1, <1>2 DEF PagesOf
<1>5. \A k \in 1 .. m : \E i \in P : t[i] = Page(n, k)
  <2> TAKE k \in 1 .. m
  <2>1. PICK i \in 1 .. l : t[i] = Page(n, k) BY <1>1 DEF PagesOf
  <2>2. t[i].kind = "text" BY <2>1 DEF Page
  <2>3. i \in P BY <2>2, <1>1, <1>2
  <2> QED BY <2>1, <2>3
<1>6. \A k \in 1 .. m : Page(n, k).page = k BY DEF Page
<1>7. PICK f : f = [k \in 1 .. m |-> CHOOSE i \in P : t[i] = Page(n, k)] OBVIOUS
<1>8. \A k \in 1 .. m : f[k] \in P /\ t[f[k]].page = k /\ t[f[k]] = Page(n, k)
  <2> TAKE k \in 1 .. m
  <2>1. f[k] = CHOOSE i \in P : t[i] = Page(n, k) BY <1>7
  <2>2. f[k] \in P /\ t[f[k]] = Page(n, k) BY <2>1, <1>5
  <2> QED BY <2>2, <1>6
<1>9. \A i \in P : i = f[t[i].page]
  <2> TAKE i \in P
  <2>1. PICK k \in 1 .. m : k = t[i].page BY <1>3
  <2>2. f[k] \in P /\ t[f[k]].page = k BY <1>8
  <2>3. ~(i < f[k]) /\ ~(f[k] < i) BY <2>1, <2>2, <1>3, <1>4
  <2>4. i \in Nat /\ f[k] \in Nat BY <2>2, <1>3
  <2> QED BY <2>1, <2>3, <2>4
<1>10. \A j, k \in 1 .. m : f[j] <= f[k] <=> j <= k
  <2> TAKE j, k \in 1 .. m
  <2>1. f[j] \in P /\ f[k] \in P /\ f[j] \in Nat /\ f[k] \in Nat /\ t[f[j]].page = j /\ t[f[k]].page = k BY <1>3, <1>8
  <2>2. (f[j] < f[k] => j < k) /\ (f[k] < f[j] => k < j) BY <2>1, <1>4
  <2>3. f[j] = f[k] => j = k BY <2>1
  <2> QED BY <2>1, <2>2, <2>3
<1>11. \A j, k \in 1 .. m : f[j] = f[k] => j = k BY <1>8
<1>12. IsFiniteSet(P) /\ Cardinality(P) = m
  <2>1. f \in [1 .. m -> P] BY <1>7, <1>8
  <2>2. \A i \in P : \E k \in 1 .. m : f[k] = i BY <1>3, <1>9
  <2> QED BY <2>1, <2>2, <1>11, CountedBy
<1>13. \A k \in 1 .. m : Cardinality({j \in P : j <= f[k]}) = k
  <2> TAKE k \in 1 .. m
  <2>1. PICK S : S = {j \in P : j <= f[k]} OBVIOUS
  <2>2. PICK g : g = [i \in 1 .. k |-> f[i]] OBVIOUS
  <2>3. \A i \in 1 .. k : i \in 1 .. m /\ g[i] = f[i] /\ g[i] \in S BY <2>1, <2>2, <1>8, <1>10
  <2>4. g \in [1 .. k -> S] BY <2>2, <2>3
  <2>5. \A z \in S : \E i \in 1 .. k : g[i] = z
    <3> TAKE z \in S
    <3>1. z \in P /\ z <= f[k] BY <2>1
    <3>2. PICK i \in 1 .. m : i = t[z].page /\ z = f[i] BY <3>1, <1>3, <1>9
    <3>3. i <= k BY <3>1, <3>2, <1>10
    <3>4. i \in 1 .. k BY <3>3
    <3> QED BY <3>2, <3>4, <2>2
  <2>6. \A i, j \in 1 .. k : g[i] = g[j] => i = j BY <2>3, <1>11
  <2>7. k \in Nat OBVIOUS
  <2>8. Cardinality(S) = k BY <2>4, <2>5, <2>6, <2>7, CountedBy
  <2> QED BY <2>1, <2>8
<1>14. \A k \in 1 .. m : f[k] = CHOOSE i \in P : Cardinality({j \in P : j <= i}) = k
  <2> TAKE k \in 1 .. m
  <2>1. PICK z : z = CHOOSE i \in P : Cardinality({j \in P : j <= i}) = k OBVIOUS
  <2>2. z \in P /\ Cardinality({j \in P : j <= z}) = k BY <2>1, <1>8, <1>13
  <2>3. PICK i \in 1 .. m : z = f[i] BY <2>2, <1>3, <1>9
  <2>4. i = k BY <2>2, <2>3, <1>13
  <2> QED BY <2>1, <2>3, <2>4
<1>15. Chosen(t, P) = [k \in 1 .. m |-> t[CHOOSE i \in P : Cardinality({j \in P : j <= i}) = k]] BY <1>12 DEF Chosen
<1>16. Chosen(t, P) = [k \in 1 .. m |-> t[f[k]]] BY <1>14, <1>15
<1>17. [k \in 1 .. m |-> t[f[k]]] = [p \in 1 .. m |-> Page(n, p)] BY <1>8
<1>18. OfKinds(t, {"text"}) = Chosen(t, P) BY <1>2 DEF OfKinds
<1> QED BY <1>16, <1>17, <1>18

\* A page up to b comes before one from b + 1 on.
LEMMA PageBefore == \A b, c \in Nat : \A i \in 1 .. b, j \in b + 1 .. c : i < j
OBVIOUS

\* The pages a to b, then b + 1 to c.
LEMMA PagesJoin ==
    ASSUME NEW s \in Seq(Token), NEW t \in Seq(Token), NEW n \in Nat, NEW b \in Nat, NEW c \in Nat, b <= c,
           PagesOf(s, n, 1, b), PagesOf(t, n, b + 1, c)
    PROVE  PagesOf(s \o t, n, 1, c)
<1>1. PICK k \in Nat : k = Len(s) OBVIOUS
<1>2. PICK l \in Nat : l = Len(t) OBVIOUS
<1>3. PICK u : u = s \o t OBVIOUS
<1>4. Len(u) = k + l /\ \A i \in 1 .. k + l : u[i] = IF i <= k THEN s[i] ELSE t[i - k]
  BY <1>1, <1>2, <1>3, ConcatProperties
<1>5. \A i \in 1 .. k : s[i].kind = "text" => s[i].page \in 1 .. b /\ s[i] = Page(n, s[i].page) BY <1>1 DEF PagesOf
<1>6. \A i \in 1 .. l : t[i].kind = "text" => t[i].page \in b + 1 .. c /\ t[i] = Page(n, t[i].page) BY <1>2 DEF PagesOf
<1>7. \A i \in 1 .. k + l : (i \in 1 .. k /\ u[i] = s[i]) \/ (i > k /\ i - k \in 1 .. l /\ u[i] = t[i - k]) BY <1>4
<1>8. \A i \in 1 .. k + l : u[i].kind = "text" => u[i].page \in 1 .. c /\ u[i] = Page(n, u[i].page)
  <2> SUFFICES ASSUME NEW i \in 1 .. k + l, u[i].kind = "text" PROVE u[i].page \in 1 .. c /\ u[i] = Page(n, u[i].page)
    OBVIOUS
  <2>1. CASE i \in 1 .. k /\ u[i] = s[i]
    <3>1. u[i].page \in 1 .. b /\ u[i] = Page(n, u[i].page) BY <2>1, <1>5
    <3> QED BY <3>1
  <2>2. CASE i > k /\ i - k \in 1 .. l /\ u[i] = t[i - k]
    <3>1. u[i].page \in b + 1 .. c /\ u[i] = Page(n, u[i].page) BY <2>2, <1>6
    <3> QED BY <3>1
  <2> QED BY <2>1, <2>2, <1>7
<1>9. \A p \in 1 .. c : \E i \in 1 .. k + l : u[i] = Page(n, p)
  <2> TAKE p \in 1 .. c
  <2>1. CASE p <= b
    <3>1. p \in 1 .. b BY <2>1
    <3>2. PICK i \in 1 .. k : s[i] = Page(n, p) BY <3>1, <1>1 DEF PagesOf
    <3>3. i \in 1 .. k + l /\ u[i] = s[i] BY <1>4
    <3> QED BY <3>2, <3>3
  <2>2. CASE p > b
    <3>1. p \in b + 1 .. c BY <2>2
    <3>2. PICK i \in 1 .. l : t[i] = Page(n, p) BY <3>1, <1>2 DEF PagesOf
    <3>3. k + i \in 1 .. k + l /\ ~(k + i <= k) /\ (k + i) - k = i OBVIOUS
    <3>4. u[k + i] = t[i] BY <3>3, <1>4
    <3> QED BY <3>2, <3>3, <3>4
  <2> QED BY <2>1, <2>2
<1>10. \A i, j \in 1 .. k + l : u[i].kind = "text" /\ u[j].kind = "text" /\ i < j => u[i].page < u[j].page
  <2> SUFFICES ASSUME NEW i \in 1 .. k + l, NEW j \in 1 .. k + l, u[i].kind = "text", u[j].kind = "text", i < j
               PROVE  u[i].page < u[j].page
    OBVIOUS
  <2>1. CASE i \in 1 .. k /\ j \in 1 .. k
    <3>1. u[i] = s[i] /\ u[j] = s[j] BY <2>1, <1>4, SMTT(30)
    <3> QED BY <2>1, <3>1, <1>1 DEF PagesOf
  <2>2. CASE i \in 1 .. k /\ j > k
    <3>0. u[i] = s[i] BY <2>2, <1>4
    <3>1. u[i].page \in 1 .. b BY <2>2, <3>0, <1>5
    <3>2. u[j].page \in b + 1 .. c BY <2>2, <1>6, <1>7, SMTT(30)
    <3> QED BY <3>1, <3>2, PageBefore
  <2>3. CASE i > k
    <3>1. i - k \in 1 .. l /\ j - k \in 1 .. l /\ i - k < j - k BY <2>3
    <3>2. ~(i <= k) /\ ~(j <= k) BY <2>3
    <3>3. u[i] = t[i - k] BY <3>2, <1>4
    <3>4. u[j] = t[j - k] BY <3>2, <1>4
    <3> QED BY <3>1, <3>3, <3>4, <1>2 DEF PagesOf
  <2> QED BY <2>1, <2>2, <2>3
<1>11. Len(u) = k + l BY <1>4
<1> QED BY <1>3, <1>8, <1>9, <1>10, <1>11 DEF PagesOf

----------------------------------------------------------------------------

\* What the handlers have in common.
LEMMA HandlerFacts ==
    ASSUME NEW h \in Handlers
    PROVE  /\ h.login \in {"dialogue", "prompt", "nudge", "asked", "inside", "answers"}
           /\ h.enable \in {"looks", "remembers", "none", "known", "blind", "insists"}
           /\ h.paging # "always" => h.pager = "total" \/ (h.pager = "none" /\ h.paging = "never")
           /\ h.enable = "none" => h.pager = "none" /\ h.paging = "never"
           /\ h.enable \in {"known", "insists"} => h.pager = "total"
           /\ h.pager = "total" => h.ends = "once" /\ h.bound # "deadline"
           /\ h.login = "asked" => h.enable = "insists"
           /\ h.login # "asked" /\ h.enable = "known" => h.login = "nudge"
           /\ h.ends \in {"once", "known", "last", "any"}
<1>1. h \in {Generic, DayouSSH, HandreamnetSSH, RuckusSSH, PiolinkSSH, AlcatelSSH, AxgateSSH, AxgateTelnet,
             VForceSSH, VForceTelnet, UbiquossSSH, UbiquossTelnet, CiscoLegacyTelnet}
  BY HandlersAssumption
<1>2. CASE h \in {Generic, DayouSSH}
  BY <1>2 DEF Generic, DayouSSH, Shell
<1>6. CASE h \in {HandreamnetSSH, RuckusSSH}
  BY <1>6 DEF HandreamnetSSH, RuckusSSH, Shell
<1>3. CASE h \in {PiolinkSSH, AlcatelSSH}
  BY <1>3 DEF PiolinkSSH, AlcatelSSH, Shell
<1>7. CASE h \in {AxgateSSH, AxgateTelnet}
  BY <1>7 DEF AxgateSSH, AxgateTelnet, Shell
<1>4. CASE h \in {VForceSSH, VForceTelnet}
  BY <1>4 DEF VForceSSH, VForceTelnet, Shell
<1>5. CASE h \in {UbiquossSSH, UbiquossTelnet}
  BY <1>5 DEF UbiquossSSH, UbiquossTelnet, Shell
<1>8. CASE h = CiscoLegacyTelnet
  BY <1>8 DEF CiscoLegacyTelnet, Shell
<1> QED BY <1>1, <1>2, <1>3, <1>4, <1>5, <1>6, <1>7, <1>8

\* Some tokens of the device.
LEMMA TokensOfDevice ==
    /\ \A k \in TokenKinds : Says(k) \in Token /\ Says(k).kind = k /\ <<Says(k)>> \in Seq(Token) /\ <<Says(k)>> # <<>>
    /\ \A n, p \in Nat : Page(n, p) \in Token /\ Page(n, p).kind = "text" /\ Page(n, p).page = p
    /\ <<>> \in Seq(Token)
<1>1. \A k \in TokenKinds : Says(k) \in Token /\ Says(k).kind = k BY DEF Says, Token
<1>2. \A n, p \in Nat : Page(n, p) \in Token /\ Page(n, p).kind = "text" /\ Page(n, p).page = p
  BY DEF Page, Token, TokenKinds
<1>3. \A z \in Token : <<z>> \in Seq(Token) /\ <<z>> # <<>> OBVIOUS
<1>4. <<>> \in Seq(Token) OBVIOUS
<1> QED BY <1>1, <1>2, <1>3, <1>4

\* What d and e have in common when one is the other after a line.
Alike(d, e) == e.link = d.link /\ e.pages = d.pages /\ (e.paged => d.paged)

\* The device says something and is otherwise as it was.
LEMMA SayTells ==
    ASSUME NEW d \in Terminal, NEW t \in Seq(Token)
    PROVE  /\ Say(d, t) \in Terminal /\ Say(d, t).out = d.out \o t /\ Alike(d, Say(d, t))
           /\ Say(d, t).mode = d.mode /\ Say(d, t).level = d.level /\ Say(d, t).known = d.known
           /\ Say(d, t).asks = d.asks /\ Say(d, t).secret = d.secret /\ Say(d, t).showing = d.showing
           /\ Say(d, t).paged = d.paged
<1>1. PICK o \in Seq(Token) : o = d.out \o t BY ConcatProperties DEF Terminal
<1>2. Say(d, t) = [d EXCEPT !.out = o] BY <1>1 DEF Say
<1> QED BY <1>1, <1>2 DEF Terminal, Alike

\* The device says its prompt.
LEMMA AtCliTells ==
    ASSUME NEW d \in Terminal
    PROVE  /\ AtCli(d) \in Terminal /\ AtCli(d).out = d.out \o <<Says(d.level)>> /\ Alike(d, AtCli(d))
           /\ AtCli(d).mode = "cli" /\ AtCli(d).level = d.level /\ AtCli(d).paged = d.paged
<1>1. PICK e : e = [d EXCEPT !.mode = "cli"] OBVIOUS
<1>2. e \in Terminal /\ e.out = d.out /\ e.mode = "cli" /\ e.level = d.level /\ e.paged = d.paged /\ Alike(d, e)
  BY <1>1 DEF Terminal, Alike
<1>3. d.level \in TokenKinds BY DEF Terminal, TokenKinds
<1>4. PICK t \in Seq(Token) : t = <<Says(d.level)>> BY <1>3, TokensOfDevice
<1>5. AtCli(d) = Say(e, t) BY <1>1, <1>4 DEF AtCli
<1>6. /\ Say(e, t) \in Terminal /\ Say(e, t).out = e.out \o t /\ Alike(e, Say(e, t))
      /\ Say(e, t).mode = e.mode /\ Say(e, t).level = e.level /\ Say(e, t).paged = e.paged
  BY <1>2, SayTells
<1> QED BY <1>2, <1>4, <1>5, <1>6 DEF Alike

\* Where the device asks for what is typed.
LEMMA TypedWhereAsked ==
    ASSUME NEW d \in Terminal
    PROVE  LET u == Typed(d, Line("user"))
               p == Typed(d, Line("password"))
           IN /\ d.mode = "user?" => /\ u \in Terminal /\ u.mode = "pass?" /\ u.known /\ Alike(d, u)
                                     /\ u.out = d.out \o <<Says("pass?")>>
              /\ d.mode = "pass?" /\ d.known => /\ p \in Terminal /\ p.mode = "cli" /\ Alike(d, p)
                                                /\ p.out = d.out \o <<Says(p.level)>>
<1> DEFINE u == Typed(d, Line("user"))
<1> DEFINE p == Typed(d, Line("password"))
<1>1. ASSUME d.mode = "user?"
      PROVE  u \in Terminal /\ u.mode = "pass?" /\ u.known /\ Alike(d, u) /\ u.out = d.out \o <<Says("pass?")>>
  <2>1. PICK e : e = [d EXCEPT !.mode = "pass?", !.known = TRUE] OBVIOUS
  <2>2. e \in Terminal /\ e.out = d.out /\ e.mode = "pass?" /\ e.known /\ Alike(d, e) BY <2>1 DEF Terminal, Alike
  <2>3. PICK t \in Seq(Token) : t = <<Says("pass?")>> BY TokensOfDevice DEF TokenKinds
  <2>4. u = Say([d EXCEPT !.mode = "pass?", !.known = Line("user").what = "user"], <<Says("pass?")>>) BY <1>1 DEF Typed
  <2>5. Line("user").what = "user" BY DEF Line
  <2>6. u = Say(e, t) BY <2>1, <2>3, <2>4, <2>5
  <2>7. /\ Say(e, t) \in Terminal /\ Say(e, t).out = e.out \o t /\ Alike(e, Say(e, t))
        /\ Say(e, t).mode = e.mode /\ Say(e, t).known = e.known
    BY <2>2, SayTells
  <2> QED BY <2>2, <2>3, <2>6, <2>7 DEF Alike
<1>2. ASSUME d.mode = "pass?", d.known
      PROVE  p \in Terminal /\ p.mode = "cli" /\ Alike(d, p) /\ p.out = d.out \o <<Says(p.level)>>
  <2>1. Line("password").what = "password" BY DEF Line
  <2>0. d.known = TRUE BY <1>2 DEF Terminal
  <2>3. PICK w : w = Line("password") OBVIOUS
  <2>4. d.mode # "user?" /\ w.what = "password" BY <1>2, <2>1, <2>3
  <2>5. Typed(d, w) = AtCli(d) BY <1>2, <2>0, <2>4 DEF Typed
  <2>2. PICK a : a = AtCli(d) OBVIOUS
  <2>6. a \in Terminal /\ a.mode = "cli" /\ Alike(d, a) /\ a.out = d.out \o <<Says(a.level)>> BY <2>2, AtCliTells
  <2> QED BY <2>2, <2>3, <2>5, <2>6
<1> QED BY <1>1, <1>2

\* What is typed where no command runs and none is typed.
LEMMA TypedAside ==
    ASSUME NEW d \in Terminal, NEW what \in {"user", "enter", "secret", "enable", "paging off", "password"},
           d.mode \in {"cli", "enable?"}
    PROVE  LET e == Typed(d, Line(what)) IN
           /\ e \in Terminal /\ Alike(d, e)
           /\ \/ e.mode = "cli" /\ e.out = d.out \o <<Says(e.level)>>
              \/ /\ what = "enable" /\ d.mode = "cli" /\ d.secret # "none"
                 /\ e.mode = "enable?" /\ e.secret = d.secret /\ e.out = d.out \o <<Says("pass?")>>
           /\ what = "paging off" /\ d.mode = "cli" => ~e.paged
<1> DEFINE e == Typed(d, Line(what))
<1>1. Line(what).what = what BY DEF Line
<1>2. CASE d.mode = "enable?"
  <2>1. PICK l \in Prompts : l = IF what = "secret" /\ d.secret = "right" THEN "#" ELSE d.level
    BY DEF Terminal, Prompts
  <2>2. PICK f : f = [d EXCEPT !.level = l] OBVIOUS
  <2>3. f \in Terminal /\ Alike(d, f) /\ f.out = d.out BY <2>2 DEF Terminal, Alike
  <2>4. e = AtCli([d EXCEPT !.level = IF Line(what).what = "secret" /\ d.secret = "right" THEN "#" ELSE @]) BY <1>2 DEF Typed
  <2>5. e = AtCli(f) BY <2>1, <2>2, <2>4, <1>1
  <2>6. /\ AtCli(f) \in Terminal /\ AtCli(f).out = f.out \o <<Says(f.level)>> /\ Alike(f, AtCli(f))
        /\ AtCli(f).mode = "cli" /\ AtCli(f).level = f.level
    BY <2>3, AtCliTells
  <2> QED BY <1>2, <2>3, <2>5, <2>6 DEF Alike
<1>3. CASE d.mode = "cli" /\ what = "enable" /\ d.level = ">"
  <2>1. CASE d.secret = "none"
    <3>1. PICK f : f = [d EXCEPT !.level = "#"] OBVIOUS
    <3>2. f \in Terminal /\ Alike(d, f) /\ f.out = d.out BY <3>1 DEF Terminal, Alike, Prompts
    <3>3. e = AtCli(f) BY <1>1, <1>3, <2>1, <3>1 DEF Typed
    <3>4. /\ AtCli(f) \in Terminal /\ AtCli(f).out = f.out \o <<Says(f.level)>> /\ Alike(f, AtCli(f))
          /\ AtCli(f).mode = "cli" /\ AtCli(f).level = f.level
      BY <3>2, AtCliTells
    <3> QED BY <1>3, <3>2, <3>3, <3>4 DEF Alike
  <2>2. CASE d.secret # "none"
    <3>1. PICK f : f = [d EXCEPT !.mode = "enable?"] OBVIOUS
    <3>2. f \in Terminal /\ Alike(d, f) /\ f.out = d.out /\ f.mode = "enable?" /\ f.secret = d.secret
      BY <3>1 DEF Terminal, Alike
    <3>3. PICK t \in Seq(Token) : t = <<Says("pass?")>> BY TokensOfDevice DEF TokenKinds
    <3>4. e = Say(f, t) BY <1>1, <1>3, <2>2, <3>1, <3>3 DEF Typed
    <3>5. /\ Say(f, t) \in Terminal /\ Say(f, t).out = f.out \o t /\ Alike(f, Say(f, t))
          /\ Say(f, t).mode = f.mode /\ Say(f, t).secret = f.secret
      BY <3>2, SayTells
    <3> QED BY <1>3, <2>2, <3>2, <3>3, <3>4, <3>5 DEF Alike
  <2> QED BY <2>1, <2>2
<1>4. CASE d.mode = "cli" /\ what = "paging off"
  <2>1. PICK f : f = [d EXCEPT !.paged = FALSE] OBVIOUS
  <2>2. f \in Terminal /\ Alike(d, f) /\ f.out = d.out /\ ~f.paged BY <2>1 DEF Terminal, Alike
  <2>3. e = AtCli(f) BY <1>1, <1>4, <2>1 DEF Typed
  <2>4. /\ AtCli(f) \in Terminal /\ AtCli(f).out = f.out \o <<Says(f.level)>> /\ Alike(f, AtCli(f))
        /\ AtCli(f).mode = "cli" /\ AtCli(f).level = f.level /\ AtCli(f).paged = f.paged
    BY <2>2, AtCliTells
  <2> QED BY <1>4, <2>2, <2>3, <2>4 DEF Alike
<1>5. CASE d.mode = "cli" /\ what # "paging off" /\ ~(what = "enable" /\ d.level = ">")
  <2>0. what # "space" /\ what # "command" OBVIOUS
  <2>1. e = AtCli(d) BY <1>1, <1>5, <2>0 DEF Typed
  <2>2. PICK a : a = AtCli(d) OBVIOUS
  <2>3. a \in Terminal /\ a.mode = "cli" /\ Alike(d, a) /\ a.out = d.out \o <<Says(a.level)>> BY <2>2, AtCliTells
  <2> QED BY <1>5, <2>1, <2>2, <2>3
<1> QED BY <1>2, <1>3, <1>4, <1>5

\* e is the device d after it has said t, from page p of the answer to command n on.
Shown(d, e, n, p, t) ==
    /\ e.out = d.out \o t
    /\ \/ /\ e.mode = "more" /\ e.paged /\ e.showing = [of |-> n, page |-> p] /\ p < d.pages[n]
          /\ PagesOf(t, n, p, p) /\ "more" \in Kinds(t)
       \/ /\ e.mode = "cli" /\ PagesOf(t, n, p, d.pages[n])
          /\ \A i \in 1 .. Len(t) : t[i].kind \in Prompts => i = Len(t)

\* What the device shows from page p of an answer on.
LEMMA PagesTell ==
    ASSUME NEW d \in Terminal, NEW n \in 1 .. Commands, NEW p \in 1 .. d.pages[n]
    PROVE  LET e == Pages(d, n, p) IN
           e \in Terminal /\ Alike(d, e) /\ \E t \in Seq(Token) : Shown(d, e, n, p, t)
<1> DEFINE e == Pages(d, n, p)
<1>1. PICK q \in Nat : q = d.pages[n] /\ p <= q /\ q \in 1 .. MaxPages
  <2>1. d.pages[n] \in 1 .. MaxPages BY DEF Terminal
  <2>2. d.pages[n] \in Nat BY <2>1, VendorAssumption
  <2> QED BY <2>1, <2>2
<1>2. n \in Nat /\ p \in Nat /\ p >= 1 BY <1>1, VendorAssumption
<1>3. CASE d.paged /\ p < q
  <2>1. PICK s : s = [of |-> n, page |-> p] OBVIOUS
  <2>2. s \in [of : Nat, page : Nat] BY <2>1, <1>2
  <2>3. PICK f : f = [d EXCEPT !.mode = "more", !.showing = s] OBVIOUS
  <2>4. f \in Terminal /\ Alike(d, f) /\ f.out = d.out /\ f.mode = "more" /\ f.showing = s /\ f.paged
    BY <1>3, <2>2, <2>3 DEF Terminal, Alike
  <2>5. PICK z : z = Page(n, p) OBVIOUS
  <2>6. PICK w : w = Says("more") OBVIOUS
  <2>7. z \in Token /\ w \in Token /\ w.kind = "more" /\ z.kind = "text" /\ z.page = p
    BY <2>5, <2>6, <1>2, TokensOfDevice DEF TokenKinds
  <2>8. PICK t : t = <<z, w>> OBVIOUS
  <2>9. t \in Seq(Token) /\ Len(t) = 2 /\ t[1] = z /\ t[2] = w /\ DOMAIN t = 1 .. 2 BY <2>7, <2>8
  <2>10. e = Say(f, t) BY <1>1, <1>3, <2>1, <2>3, <2>5, <2>6, <2>8 DEF Pages
  <2>11. /\ Say(f, t) \in Terminal /\ Say(f, t).out = f.out \o t /\ Alike(f, Say(f, t))
         /\ Say(f, t).mode = f.mode /\ Say(f, t).showing = f.showing /\ Say(f, t).paged = f.paged
    BY <2>4, <2>9, SayTells
  <2>12. PagesOf(t, n, p, p)
    <3>1. \A i \in 1 .. 2 : t[i].kind = "text" => i = 1 BY <2>7, <2>9
    <3>2. \A i \in 1 .. Len(t) : t[i].kind = "text" => t[i].page \in p .. p /\ t[i] = Page(n, t[i].page)
      BY <3>1, <2>9, <2>7, <2>5, <1>2
    <3>3. \A k \in p .. p : \E i \in 1 .. Len(t) : t[i] = Page(n, k) BY <2>5, <2>9, <1>2
    <3>4. \A i, j \in 1 .. Len(t) : t[i].kind = "text" /\ t[j].kind = "text" /\ i < j => t[i].page < t[j].page
      BY <3>1, <2>9
    <3> QED BY <3>2, <3>3, <3>4 DEF PagesOf
  <2>13. "more" \in Kinds(t) BY <2>7, <2>9 DEF Kinds
  <2>14. Alike(d, e) BY <2>4, <2>10, <2>11 DEF Alike
  <2>15. e \in Terminal /\ e.out = d.out \o t /\ e.mode = "more" /\ e.paged /\ e.showing = [of |-> n, page |-> p]
    BY <2>1, <2>4, <2>10, <2>11
  <2>16. p < d.pages[n] BY <1>1, <1>3
  <2>17. Shown(d, e, n, p, t) BY <2>12, <2>13, <2>15, <2>16 DEF Shown
  <2> QED BY <2>9, <2>14, <2>15, <2>17
<1>4. CASE ~(d.paged /\ p < q)
  <2>1. PICK m \in Nat : m = q + 1 - p BY <1>1, <1>2
  <2>2. PICK u : u = [i \in 1 .. m |-> Page(n, p + i - 1)] OBVIOUS
  <2>3. \A i \in 1 .. m : p + i - 1 \in Nat /\ u[i] = Page(n, p + i - 1) BY <2>2, <1>2
  <2>4. u \in [1 .. m -> Token] BY <2>2, <2>3, <1>2, TokensOfDevice
  <2>5. u \in Seq(Token) /\ Len(u) = m
    <3>1. u \in Seq(Token) BY <2>4
    <3>2. DOMAIN u = 1 .. m BY <2>2
    <3>3. PICK l \in Nat : l = Len(u) /\ DOMAIN u = 1 .. l BY <3>1, LenProperties
    <3>4. l = m
      <4>1. l \in 1 .. l => l \in 1 .. m BY <3>2, <3>3
      <4>2. m \in 1 .. m => m \in 1 .. l BY <3>2, <3>3
      <4> QED BY <4>1, <4>2
    <3> QED BY <3>1, <3>3, <3>4
  <2>6. PICK f : f = Say(d, u) OBVIOUS
  <2>7. f \in Terminal /\ f.out = d.out \o u /\ Alike(d, f) /\ f.level = d.level BY <2>5, <2>6, SayTells
  <2>8. e = AtCli(f)
    <3>1. Pages(d, n, p) = AtCli(Say(d, [i \in 1 .. d.pages[n] + 1 - p |-> Page(n, p + i - 1)]))
      BY <1>1, <1>4 DEF Pages
    <3> QED BY <3>1, <2>1, <2>2, <2>6, <1>1
  <2>9. e \in Terminal /\ e.out = f.out \o <<Says(f.level)>> /\ Alike(f, e) /\ e.mode = "cli"
    <3>1. PICK a : a = AtCli(f) OBVIOUS
    <3>2. a \in Terminal /\ a.out = f.out \o <<Says(f.level)>> /\ Alike(f, a) /\ a.mode = "cli" BY <3>1, <2>7, AtCliTells
    <3> QED BY <3>1, <3>2, <2>8
  <2>10. PICK w : w = Says(f.level) OBVIOUS
  <2>11. f.level \in TokenKinds /\ f.level \in Prompts BY <2>7 DEF Terminal, TokenKinds
  <2>12. w \in Token /\ w.kind = f.level BY <2>10, <2>11, TokensOfDevice
  <2>13. PICK v : v = <<w>> OBVIOUS
  <2>14. v \in Seq(Token) /\ Len(v) = 1 /\ v[1] = w BY <2>12, <2>13
  <2>15. PICK t : t = u \o v OBVIOUS
  <2>16. t \in Seq(Token) /\ Len(t) = m + 1 /\ \A i \in 1 .. m + 1 : t[i] = IF i <= m THEN u[i] ELSE v[i - m]
    <3>1. /\ t \in Seq(Token) /\ Len(t) = Len(u) + Len(v)
          /\ \A i \in 1 .. Len(u) + Len(v) : t[i] = IF i <= Len(u) THEN u[i] ELSE v[i - Len(u)]
      BY <2>5, <2>14, <2>15, ConcatProperties
    <3> QED BY <3>1, <2>5, <2>14
  <2>17. e.out = d.out \o t
    <3>1. PICK o \in Seq(Token) : o = d.out BY DEF Terminal
    <3>3. (o \o u) \o v = o \o (u \o v) BY <2>5, <2>14, ConcatAssociative
    <3>2. (d.out \o u) \o v = d.out \o (u \o v) BY <3>1, <3>3
    <3> QED BY <3>2, <2>7, <2>9, <2>10, <2>13, <2>15
  <2>18. \A i \in 1 .. m : t[i] = Page(n, p + i - 1) /\ t[i].kind = "text" /\ t[i].page = p + i - 1
    <3> TAKE i \in 1 .. m
    <3>0. i \in 1 .. m + 1 /\ i <= m OBVIOUS
    <3>1. t[i] = Page(n, p + i - 1) BY <3>0, <2>3, <2>16
    <3>2. p + i - 1 \in Nat BY <1>2
    <3> QED BY <3>1, <3>2, <1>2, TokensOfDevice
  <2>19. t[m + 1] = w BY <2>14, <2>16
  <2>20. w.kind # "text" BY <2>11, <2>12 DEF Prompts
  <2>21. \A i \in 1 .. m + 1 : t[i].kind = "text" => i \in 1 .. m
    <3> TAKE i \in 1 .. m + 1
    <3>1. i \in 1 .. m \/ i = m + 1 OBVIOUS
    <3> QED BY <3>1, <2>19, <2>20
  <2>22. PagesOf(t, n, p, q)
    <3>1. \A i \in 1 .. m : p + i - 1 \in p .. q BY <2>1, <1>1, <1>2
    <3>2. \A i \in 1 .. Len(t) : t[i].kind = "text" => t[i].page \in p .. q /\ t[i] = Page(n, t[i].page)
      BY <3>1, <2>16, <2>18, <2>21
    <3>3. \A k \in p .. q : \E i \in 1 .. Len(t) : t[i] = Page(n, k)
      <4> TAKE k \in p .. q
      <4>1. PICK i : i = k - p + 1 OBVIOUS
      <4>2. i \in 1 .. m /\ p + i - 1 = k BY <4>1, <2>1, <1>1, <1>2
      <4>3. i \in 1 .. Len(t) BY <4>2, <2>16
      <4> QED BY <4>2, <4>3, <2>18
    <3>4. \A i, j \in 1 .. Len(t) : t[i].kind = "text" /\ t[j].kind = "text" /\ i < j => t[i].page < t[j].page
      <4> SUFFICES ASSUME NEW i \in 1 .. Len(t), NEW j \in 1 .. Len(t), t[i].kind = "text", t[j].kind = "text", i < j
                   PROVE  t[i].page < t[j].page
        OBVIOUS
      <4>1. i \in 1 .. m /\ j \in 1 .. m BY <2>16, <2>21
      <4>2. t[i].page = p + i - 1 /\ t[j].page = p + j - 1 BY <4>1, <2>18
      <4> QED BY <4>1, <4>2, <1>2
    <3> QED BY <3>2, <3>3, <3>4 DEF PagesOf
  <2>23. \A i \in 1 .. Len(t) : t[i].kind \in Prompts => i = Len(t)
    <3> SUFFICES ASSUME NEW i \in 1 .. Len(t), t[i].kind \in Prompts PROVE i = Len(t) OBVIOUS
    <3>1. i \in 1 .. m + 1 BY <2>16
    <3>2. "text" \notin Prompts BY DEF Prompts
    <3>3. i \notin 1 .. m BY <2>18, <3>2
    <3> QED BY <3>1, <3>3, <2>16
  <2>24. Alike(d, e) BY <2>7, <2>9 DEF Alike
  <2>25. PagesOf(t, n, p, d.pages[n]) BY <2>22, <1>1
  <2>26. e.mode = "cli" /\ e.out = d.out \o t BY <2>9, <2>17
  <2>27. Shown(d, e, n, p, t) BY <2>23, <2>25, <2>26 DEF Shown
  <2>28. t \in Seq(Token) BY <2>16
  <2> QED BY <2>9, <2>24, <2>27, <2>28
<1> QED BY <1>3, <1>4

----------------------------------------------------------------------------

TalkOK(t) == DOMAIN t = Fields /\ t.late \in BOOLEAN

\* t and u tell the same of what was read and how often, and of the prompt.
SameReading(t, u) ==
    /\ DOMAIN u = Fields /\ u.late = t.late
    /\ u.acc = t.acc /\ u.reads = t.reads

\* A wait is over: it was too early when something was still on its way.
LEMMA WaitedTells ==
    ASSUME TalkOK(talk)
    PROVE  /\ TalkOK(Waited)
           /\ Waited.late <=> (talk.late \/ dev.out # <<>>)
           /\ Waited.acc = talk.acc /\ Waited.reads = talk.reads /\ Waited.prompt = talk.prompt
           /\ Waited.misplaced = talk.misplaced
BY DEF Waited, TalkOK, Fields

\* The user name was typed.
LEMMA UserTells ==
    ASSUME NEW t, TalkOK(t)
    PROVE  /\ TalkOK(User(t)) /\ SameReading(t, User(t)) /\ User(t).prompt = t.prompt
           /\ User(t).misplaced <=> (t.misplaced \/ dev.mode # "user?")
BY DEF User, TalkOK, SameReading, Fields

\* The password was typed.
LEMMA PasswordTells ==
    ASSUME NEW t, TalkOK(t)
    PROVE  /\ TalkOK(Password(t)) /\ SameReading(t, Password(t)) /\ Password(t).prompt = t.prompt
           /\ Password(t).misplaced <=> (t.misplaced \/ dev.mode # "pass?")
BY DEF Password, TalkOK, SameReading, Fields

\* The handler knows a prompt.
LEMMA KnowsTells ==
    ASSUME NEW t, TalkOK(t), NEW p
    PROVE  /\ TalkOK(Knows(t, p)) /\ SameReading(t, Knows(t, p)) /\ Knows(t, p).prompt = p
           /\ Knows(t, p).misplaced = t.misplaced
BY DEF Knows, TalkOK, SameReading, Fields

\* The return key was pressed.
LEMMA NudgedTells ==
    ASSUME NEW t, TalkOK(t)
    PROVE  LET u == [t EXCEPT !.nudged = TRUE] IN
           TalkOK(u) /\ SameReading(t, u) /\ u.prompt = t.prompt /\ u.misplaced = t.misplaced
BY DEF TalkOK, SameReading, Fields

\* The handler keeps what it has read.
LEMMA HeardTells ==
    ASSUME NEW t, TalkOK(t), NEW a
    PROVE  LET u == [t EXCEPT !.acc = a] IN
           /\ TalkOK(u) /\ u.late = t.late /\ u.acc = a /\ u.reads = t.reads
           /\ u.prompt = t.prompt /\ u.misplaced = t.misplaced
BY DEF TalkOK, Fields

\* What the handler knows is sound.
TalkTypes(t) ==
    /\ t.acc \in Seq(Token) /\ t.reads \in Nat /\ (handler.bound = "none" => t.reads <= 1)
    /\ t.prompt \in Prompts \cup {"nothing"}
    /\ handler.login = "dialogue" => ~t.misplaced

\* A turn of the handler keeps what is past, when it leaves the place it goes to in order.
LEMMA TurnKeeps ==
    ASSUME OnTime, dev' \in Terminal, Alike(dev, dev'), UNCHANGED <<handler, results>>,
           wire' \in Seq(Token), TalkTypes(talk'), Place'
    PROVE  OnTime'
<1>1. dev'.pages = dev.pages /\ (dev'.paged => dev.paged) BY DEF Alike
<1>2. SessionTypes' BY <1>1 DEF OnTime, SessionTypes, TalkTypes
<1>3. \A n : WholeText(n)' = WholeText(n) BY <1>1 DEF WholeText
<1>4. \A n \in DOMAIN results' : ~results'[n].error => results'[n].text = WholeText(n)' BY <1>3 DEF OnTime
<1> QED BY <1>2, <1>4 DEF OnTime, TalkTypes

\* What is pending after the handler has read, and after it has not.
LEMMA PendingTells ==
    ASSUME OnTime
    PROVE  /\ wire \in Seq(Token) /\ dev.out \in Seq(Token) /\ Pending \in Seq(Token) /\ dev \in Terminal
           /\ dev.out = <<>> => Pending = wire
           /\ wire = <<>> => Pending = dev.out
           /\ Pending = <<>> => wire = <<>> /\ dev.out = <<>>
           /\ Kinds(Pending) = Kinds(wire) \cup Kinds(dev.out)
           /\ TalkTypes(talk)
<1>1. wire \in Seq(Token) /\ dev.out \in Seq(Token) /\ dev \in Terminal BY DEF OnTime, SessionTypes, Terminal
<1>2. TalkTypes(talk) BY DEF OnTime, SessionTypes, TalkTypes
<1> QED BY <1>1, <1>2, ConcatProperties, ConcatEmptySeq, ConcatEqualIffEmpty, JoinKinds DEF Pending

\* What is pending after the device has said t.
LEMMA PendingNext ==
    ASSUME dev' \in Terminal
    PROVE  /\ wire' = <<>> => Pending' = dev'.out
           /\ wire' \in Seq(Token) /\ wire \in Seq(Token) /\ dev.out \in Seq(Token) =>
                \A t \in Seq(Token) : wire' = wire /\ dev'.out = dev.out \o t => Pending' = Pending \o t
<1>1. PICK o \in Seq(Token) : o = dev'.out BY DEF Terminal
<1>2. wire' = <<>> => Pending' = dev'.out BY <1>1, ConcatEmptySeq DEF Pending
<1>3. ASSUME wire \in Seq(Token), dev.out \in Seq(Token), NEW t \in Seq(Token), wire' = wire, dev'.out = dev.out \o t
      PROVE  Pending' = Pending \o t
  <2>1. PICK w \in Seq(Token) : w = wire BY <1>3
  <2>2. PICK z \in Seq(Token) : z = dev.out BY <1>3
  <2>3. (w \o z) \o t = w \o (z \o t) BY ConcatAssociative, SMTT(40)
  <2>4. Pending = w \o z BY <2>1, <2>2 DEF Pending
  <2>5. Pending' = w \o (z \o t) BY <1>3, <2>1, <2>2 DEF Pending
  <2> QED BY <2>3, <2>4, <2>5
<1> QED BY <1>2, <1>3

\* Prompts are quiet, and pieces are when both are.
LEMMA QuietTells ==
    /\ Quiet(<<>>)
    /\ \A k \in Prompts : Quiet(<<Says(k)>>)
    /\ \A s, t \in Seq(Token) : Quiet(s \o t) <=> Quiet(s) /\ Quiet(t)
<1>1. Quiet(<<>>) BY KindsOfNone DEF Quiet
<1>2. ASSUME NEW k \in Prompts PROVE Quiet(<<Says(k)>>)
  <2>1. Kinds(<<Says(k)>>) = {k} BY KindsOfOne DEF Says
  <2> QED BY <2>1 DEF Quiet
<1>3. \A s, t \in Seq(Token) : Quiet(s \o t) <=> Quiet(s) /\ Quiet(t) BY JoinKinds DEF Quiet
<1> QED BY <1>1, <1>2, <1>3

\* The step of the handler that ends with nothing left over: it was in time.
LEMMA InTime ==
    ASSUME TalkOK(talk), ~Waited.late
    PROVE  dev.out = <<>>
BY WaitedTells

----------------------------------------------------------------------------

\* At the login a single question or prompt is pending, and has arrived or has not.
LEMMA AtLoginTells ==
    ASSUME OnTime, dev.link, at = "login"
    PROVE  /\ AtLogin /\ Asking \in TokenKinds
           /\ Asking \in Prompts <=> dev.mode = "cli"
           /\ dev.mode # "cli" => Asking = dev.mode
           /\ \/ wire = <<>> /\ dev.out # <<>> /\ LastKind(wire) = "nothing" /\ Kinds(wire) = {}
              \/ dev.out = <<>> /\ wire # <<>> /\ LastKind(wire) = Asking /\ Kinds(wire) = {Asking}
<1>1. AtLogin BY DEF OnTime, Place
<1>2. dev.level \in Prompts BY PendingTells DEF Terminal
<1>3. Asking \in TokenKinds /\ (Asking \in Prompts <=> dev.mode = "cli") /\ (dev.mode # "cli" => Asking = dev.mode)
  BY <1>1, <1>2 DEF AtLogin, Asking, TokenKinds, Prompts
<1>4. PICK z \in Token : z = Says(Asking) /\ z.kind = Asking BY <1>3, TokensOfDevice
<1>5. (wire = <<>> /\ dev.out = <<z>>) \/ (wire = <<z>> /\ dev.out = <<>>)
  BY <1>1, <1>4, PendingTells, OneToken DEF AtLogin, Pending
<1>6. <<z>> # <<>> /\ Len(<<z>>) = 1 /\ <<z>>[1] = z OBVIOUS
<1>7. ASSUME wire = <<z>> PROVE LastKind(wire) = Asking /\ Kinds(wire) = {Asking}
  BY <1>4, <1>6, <1>7, KindsOfOne DEF LastKind
<1>8. ASSUME wire = <<>> PROVE LastKind(wire) = "nothing" /\ Kinds(wire) = {}
  BY <1>8, KindsOfNone DEF LastKind
<1> QED BY <1>1, <1>3, <1>5, <1>6, <1>7, <1>8

\* A handler that is asked for a user name or a password and types it: the next question,
\* or a prompt, is all that is pending.
LEMMA AnsweredAtLogin ==
    ASSUME OnTime, dev.out = <<>>, wire' = <<>>,
           \/ dev.mode = "user?" /\ dev' = Types("user")
           \/ dev.mode = "pass?" /\ dev.known /\ dev' = Types("password")
    PROVE  /\ dev' \in Terminal /\ Alike(dev, dev') /\ wire' \in Seq(Token)
           /\ dev.mode = "user?" => dev'.mode = "pass?" /\ dev'.known /\ Pending' = <<Says("pass?")>>
           /\ dev.mode = "pass?" =>
                /\ dev'.mode = "cli" /\ Pending' = <<Says(dev'.level)>> /\ Quiet(Pending')
<1>1. dev \in Terminal BY PendingTells
<1>2. wire' \in Seq(Token) OBVIOUS
<1>3. CASE dev.mode = "user?"
  <2>1. PICK d : d = Typed(dev, Line("user")) OBVIOUS
  <2>2. d \in Terminal /\ d.mode = "pass?" /\ d.known /\ Alike(dev, d) /\ d.out = dev.out \o <<Says("pass?")>>
    BY <1>1, <1>3, <2>1, TypedWhereAsked
  <2>3. dev' = d BY <1>3, <2>1 DEF Types
  <2>4. PICK t \in Seq(Token) : t = <<Says("pass?")>> BY TokensOfDevice DEF TokenKinds
  <2>5. <<>> \o t = t BY ConcatEmptySeq
  <2>6. d.out = t BY <2>2, <2>4, <2>5
  <2>7. Pending' = t BY <2>2, <2>3, <2>6, PendingNext
  <2> QED BY <1>2, <1>3, <2>2, <2>3, <2>4, <2>7
<1>4. CASE dev.mode = "pass?"
  <2>1. PICK d : d = Typed(dev, Line("password")) OBVIOUS
  <2>2. d \in Terminal /\ d.mode = "cli" /\ Alike(dev, d) /\ d.out = dev.out \o <<Says(d.level)>>
    BY <1>1, <1>4, <2>1, TypedWhereAsked
  <2>3. dev' = d BY <1>4, <2>1 DEF Types
  <2>4. d.level \in Prompts /\ d.level \in TokenKinds BY <2>2 DEF Terminal, TokenKinds
  <2>5. PICK t \in Seq(Token) : t = <<Says(d.level)>> BY <2>4, TokensOfDevice
  <2>6. <<>> \o t = t BY ConcatEmptySeq
  <2>7. d.out = t BY <2>2, <2>5, <2>6
  <2>8. Pending' = t BY <2>2, <2>3, <2>7, PendingNext
  <2>9. Quiet(t) BY <2>4, <2>5, QuietTells
  <2> QED BY <1>2, <1>4, <2>2, <2>3, <2>5, <2>8, <2>9
<1> QED BY <1>3, <1>4

\* A turn without a word, after all has been read.
LEMMA SilentTurn ==
    ASSUME OnTime, dev.link, dev.out = <<>>, wire' = <<>>, UNCHANGED <<handler, dev, results>>
    PROVE  /\ dev' \in Terminal /\ Alike(dev, dev') /\ wire' \in Seq(Token) /\ Pending' = <<>> /\ Quiet(Pending')
           /\ dev'.mode = dev.mode /\ dev'.known = dev.known /\ dev'.paged = dev.paged
<1>1. dev \in Terminal BY PendingTells
<1>2. dev' \in Terminal BY <1>1
<1>3. Pending' = <<>> BY <1>2, PendingNext
<1>4. Quiet(Pending') BY <1>3, QuietTells
<1>5. dev' = dev /\ wire' \in Seq(Token) OBVIOUS
<1>6. Alike(dev, dev') BY <1>5 DEF Alike
<1> QED BY <1>2, <1>3, <1>4, <1>5, <1>6

\* telnet_login: what it types is what the device asks for.
LEMMA TelnetLoginKeeps == OnTime /\ TalkOK(talk) /\ TelnetLogin /\ ~talk'.late => TalkOK(talk') /\ OnTime'
<1> SUFFICES ASSUME OnTime, TalkOK(talk), TelnetLogin, ~talk'.late PROVE TalkOK(talk') /\ OnTime' OBVIOUS
<1>1. at = "login" /\ handler.login = "dialogue" /\ dev.link /\ UNCHANGED <<handler, results>> /\ wire' = <<>>
  BY DEF TelnetLogin, Read, Turn
<1>2. handler \in Handlers /\ handler.enable # "known" BY <1>1, HandlerFacts DEF OnTime, SessionTypes
<1>3. TalkTypes(talk) BY PendingTells
<1>4. PICK seen : seen = LastKind(wire) OBVIOUS
<1>5. CASE seen \in Prompts /\ Read(dev, talk, "enable")
  <2>1. "nothing" \notin Prompts BY DEF Prompts
  <2>2. dev.out = <<>> /\ dev.mode = "cli" BY <1>1, <1>4, <1>5, <2>1, AtLoginTells
  <2>3. dev' = dev /\ talk' = talk /\ at' = "enable" BY <1>5 DEF Read, Turn
  <2>4. AtEnable' BY <1>1, <1>2, <2>2, <2>3, SilentTurn DEF AtEnable
  <2>5. Place' BY <2>3, <2>4 DEF Place
  <2>6. TalkTypes(talk') BY <1>1, <1>3, <2>3 DEF TalkTypes
  <2> QED BY <1>1, <2>2, <2>3, <2>5, <2>6, SilentTurn, TurnKeeps
<1>6. CASE seen = "user?" /\ Read(Types("user"), User(talk), "login")
  <2>1. dev.out = <<>> /\ dev.mode = "user?" /\ AtLogin
    <3>1. seen \notin Prompts /\ seen # "nothing" BY <1>6 DEF Prompts
    <3>2. dev.out = <<>> /\ Asking = "user?" /\ AtLogin BY <1>1, <1>4, <1>6, <3>1, AtLoginTells
    <3>3. dev.mode # "cli" BY <1>1, <1>4, <1>6, <3>1, <3>2, AtLoginTells
    <3> QED BY <1>1, <3>2, <3>3, AtLoginTells
  <2>2. dev' = Types("user") /\ talk' = User(talk) /\ at' = "login" BY <1>6 DEF Read, Turn
  <2>3. /\ TalkOK(talk') /\ SameReading(talk, talk') /\ talk'.prompt = talk.prompt
        /\ talk'.misplaced <=> (talk.misplaced \/ dev.mode # "user?")
    BY <2>2, UserTells
  <2>4. handler.login = "dialogue" => ~talk'.misplaced BY <1>3, <2>1, <2>3 DEF TalkTypes
  <2>9. TalkTypes(talk') BY <1>1, <1>3, <2>3, <2>4 DEF TalkTypes, SameReading
  <2>5. /\ dev' \in Terminal /\ Alike(dev, dev') /\ wire' \in Seq(Token)
        /\ dev'.mode = "pass?" /\ dev'.known /\ Pending' = <<Says("pass?")>>
    BY <1>1, <2>1, <2>2, AnsweredAtLogin
  <2>6. Asking' = "pass?" BY <2>5 DEF Asking
  <2>7. AtLogin' BY <1>1, <2>5, <2>6 DEF AtLogin
  <2>8. Place' BY <2>2, <2>7 DEF Place
  <2> QED BY <1>1, <2>3, <2>5, <2>8, <2>9, TurnKeeps
<1>7. CASE seen = "pass?" /\ Read(Types("password"), Password(talk), "login")
  <2>1. dev.out = <<>> /\ dev.mode = "pass?" /\ dev.known
    <3>1. seen \notin Prompts /\ seen # "nothing" BY <1>7 DEF Prompts
    <3>2. dev.out = <<>> /\ Asking = "pass?" /\ AtLogin BY <1>1, <1>4, <1>7, <3>1, AtLoginTells
    <3>3. dev.mode # "cli" BY <1>1, <1>4, <1>7, <3>1, <3>2, AtLoginTells
    <3>4. dev.mode = "pass?" BY <1>1, <3>2, <3>3, AtLoginTells
    <3> QED BY <3>2, <3>4 DEF AtLogin
  <2>2. dev' = Types("password") /\ talk' = Password(talk) /\ at' = "login" BY <1>7 DEF Read, Turn
  <2>3. /\ TalkOK(talk') /\ SameReading(talk, talk') /\ talk'.prompt = talk.prompt
        /\ talk'.misplaced <=> (talk.misplaced \/ dev.mode # "pass?")
    BY <2>2, PasswordTells
  <2>4. handler.login = "dialogue" => ~talk'.misplaced BY <1>3, <2>1, <2>3 DEF TalkTypes
  <2>9. TalkTypes(talk') BY <1>1, <1>3, <2>3, <2>4 DEF TalkTypes, SameReading
  <2>5. /\ dev' \in Terminal /\ Alike(dev, dev') /\ wire' \in Seq(Token)
        /\ dev'.mode = "cli" /\ Pending' = <<Says(dev'.level)>>
    BY <1>1, <2>1, <2>2, AnsweredAtLogin
  <2>6. Asking' = dev'.level BY <2>5 DEF Asking
  <2>7. AtLogin' BY <1>1, <2>5, <2>6 DEF AtLogin
  <2>8. Place' BY <2>2, <2>7 DEF Place
  <2> QED BY <1>1, <2>3, <2>5, <2>8, <2>9, TurnKeeps
<1>8. CASE (seen = "user?" \/ seen = "pass?") /\ Read(dev, talk, "failed")
  <2>1. dev.out = <<>>
    <3>1. seen # "nothing" BY <1>8
    <3> QED BY <1>1, <1>4, <3>1, AtLoginTells
  <2>2. dev' = dev /\ talk' = talk /\ at' = "failed" BY <1>8 DEF Read, Turn
  <2>3. Place' BY <2>2 DEF Place
  <2>4. TalkTypes(talk') BY <1>1, <1>3, <2>2 DEF TalkTypes
  <2> QED BY <1>1, <2>1, <2>2, <2>3, <2>4, SilentTurn, TurnKeeps
<1>9. CASE /\ seen = "nothing"
           /\ \/ Read(Types("enter"), [Waited EXCEPT !.nudged = TRUE], "login")
              \/ Read(dev, Waited, "failed")
  <2>1. dev.out # <<>>
    <3>1. Asking # "nothing" BY <1>1, AtLoginTells DEF TokenKinds, Prompts
    <3> QED BY <1>1, <1>4, <1>9, <3>1, AtLoginTells
  <2>2. Waited.late /\ TalkOK(Waited) BY <2>1, WaitedTells
  <2>3. [Waited EXCEPT !.nudged = TRUE].late BY <2>2, NudgedTells DEF SameReading
  <2>4. talk' = Waited \/ talk' = [Waited EXCEPT !.nudged = TRUE] BY <1>9 DEF Read, Turn
  <2> QED BY <2>2, <2>3, <2>4
<1>10. \/ seen \in Prompts /\ Read(dev, talk, "enable")
       \/ seen = "user?" /\ Read(Types("user"), User(talk), "login")
       \/ seen = "pass?" /\ Read(Types("password"), Password(talk), "login")
       \/ (seen = "user?" \/ seen = "pass?") /\ Read(dev, talk, "failed")
       \/ /\ seen = "nothing"
          /\ \/ Read(Types("enter"), [Waited EXCEPT !.nudged = TRUE], "login")
             \/ Read(dev, Waited, "failed")
  BY <1>4 DEF TelnetLogin
<1> QED BY <1>5, <1>6, <1>7, <1>8, <1>9, <1>10

\* The shells that show a prompt.
LEMMA ShellPromptKeeps == OnTime /\ TalkOK(talk) /\ ShellPrompt /\ ~talk'.late => TalkOK(talk') /\ OnTime'
<1> SUFFICES ASSUME OnTime, TalkOK(talk), ShellPrompt, ~talk'.late PROVE TalkOK(talk') /\ OnTime' OBVIOUS
<1>1. /\ at = "login" /\ handler.login \in {"prompt", "nudge"} /\ dev.link /\ UNCHANGED <<handler, results>>
      /\ wire' = <<>>
  BY DEF ShellPrompt, Read, Turn
<1>2. dev.mode = "cli" BY <1>1, AtLoginTells DEF AtLogin
<1>3. SeesPrompt(wire) <=> dev.out = <<>>
  <2>1. Asking \in Prompts BY <1>1, <1>2, AtLoginTells
  <2>2. CASE Kinds(wire) = {} /\ dev.out # <<>> BY <2>2 DEF SeesPrompt
  <2>3. CASE Kinds(wire) = {Asking} /\ dev.out = <<>> BY <2>1, <2>3 DEF SeesPrompt
  <2> QED BY <1>1, <2>2, <2>3, AtLoginTells
<1>4. CASE SeesPrompt(wire) /\ Read(dev, Knows(talk, LastPrompt(wire)), "enable")
  <2>1. PICK p : p = LastPrompt(wire) OBVIOUS
  <2>2. p \in Prompts BY <1>4, <2>1, LastPromptTells, PendingTells
  <2>3. dev' = dev /\ talk' = Knows(talk, p) /\ at' = "enable" BY <1>4, <2>1 DEF Read, Turn
  <2>4. /\ TalkOK(talk') /\ SameReading(talk, talk') /\ talk'.prompt = p /\ talk'.misplaced = talk.misplaced
    BY <2>3, KnowsTells
  <2>5. TalkTypes(talk') BY <1>1, <2>2, <2>4, PendingTells DEF TalkTypes, SameReading
  <2>6. dev.out = <<>> BY <1>3, <1>4
  <2>7. AtEnable' BY <1>1, <1>2, <2>2, <2>3, <2>4, <2>6, SilentTurn DEF AtEnable
  <2>8. Place' BY <2>3, <2>7 DEF Place
  <2> QED BY <1>1, <2>3, <2>4, <2>5, <2>6, <2>8, SilentTurn, TurnKeeps
<1>5. CASE /\ ~SeesPrompt(wire)
           /\ \/ Read(Types("enter"), [Waited EXCEPT !.nudged = TRUE], "login")
              \/ Read(dev, Waited, "failed")
  <2>2. Waited.late /\ TalkOK(Waited) BY <1>3, <1>5, WaitedTells
  <2>3. [Waited EXCEPT !.nudged = TRUE].late BY <2>2, NudgedTells DEF SameReading
  <2>4. talk' = Waited \/ talk' = [Waited EXCEPT !.nudged = TRUE] BY <1>5 DEF Read, Turn
  <2> QED BY <2>2, <2>3, <2>4
<1> QED BY <1>4, <1>5 DEF ShellPrompt
LEMMA CiscoLoginKeeps == OnTime /\ TalkOK(talk) /\ CiscoLogin /\ ~talk'.late => TalkOK(talk') /\ OnTime'
<1> SUFFICES ASSUME OnTime, TalkOK(talk), CiscoLogin, ~talk'.late PROVE TalkOK(talk') /\ OnTime' OBVIOUS
<1>1. /\ dev.link /\ UNCHANGED <<handler, results>> /\ wire' = <<>> /\ at \in {"login", "login password"}
  BY DEF CiscoLogin, Read, Turn
<1>2. handler.login = "asked" /\ handler.enable # "known"
  <2>1. handler.login = "asked" BY <1>1 DEF CiscoLogin, OnTime, Place, AtPassword
  <2> QED BY <2>1, HandlerFacts DEF OnTime, SessionTypes
<1>3. TalkTypes(talk) BY PendingTells
<1>4. CASE at = "login" /\ "pass?" \notin Kinds(wire)
  <2>1. dev' = Types("user") /\ talk' = User(Waited) /\ at' = "login password" BY <1>4 DEF CiscoLogin, Read, Turn
  <2>2. /\ TalkOK(talk') /\ talk'.late = Waited.late /\ talk'.acc = talk.acc /\ talk'.reads = talk.reads
        /\ talk'.prompt = talk.prompt
    BY <2>1, WaitedTells, UserTells DEF SameReading
  <2>3. dev.out = <<>> BY <2>2, InTime
  <2>4. dev.mode = "user?"
    <3>1. Kinds(wire) = {Asking} /\ dev.mode # "cli" /\ Asking = dev.mode BY <1>1, <1>2, <1>4, <2>3, AtLoginTells DEF AtLogin
    <3>2. dev.mode \in {"user?", "pass?", "cli"} BY <1>1, <1>4, AtLoginTells DEF AtLogin
    <3> QED BY <1>4, <3>1, <3>2
  <2>5. /\ dev' \in Terminal /\ Alike(dev, dev') /\ wire' \in Seq(Token)
        /\ dev'.mode = "pass?" /\ dev'.known /\ Pending' = <<Says("pass?")>>
    BY <1>1, <2>1, <2>3, <2>4, AnsweredAtLogin
  <2>6. AtPassword' BY <1>1, <1>2, <2>5 DEF AtPassword
  <2>7. Place' BY <2>1, <2>6 DEF Place
  <2>8. TalkTypes(talk') BY <1>1, <1>2, <1>3, <2>2 DEF TalkTypes
  <2> QED BY <1>1, <2>2, <2>5, <2>7, <2>8, TurnKeeps
<1>5. ASSUME dev.out = <<>>, dev.mode = "pass?", dev.known, dev' = Types("password"), at' = "enable",
             talk' = Password(talk) \/ talk' = Password(Waited)
      PROVE  TalkOK(talk') /\ OnTime'
  <2>1. /\ dev' \in Terminal /\ Alike(dev, dev') /\ wire' \in Seq(Token)
        /\ dev'.mode = "cli" /\ Quiet(Pending')
    BY <1>1, <1>5, AnsweredAtLogin
  <2>2. AtEnable' BY <1>1, <1>2, <2>1 DEF AtEnable
  <2>3. Place' BY <1>5, <2>2 DEF Place
  <2>4. /\ TalkOK(talk') /\ talk'.acc = talk.acc /\ talk'.reads = talk.reads /\ talk'.prompt = talk.prompt
    BY <1>5, WaitedTells, PasswordTells DEF SameReading
  <2>5. TalkTypes(talk') BY <1>1, <1>2, <1>3, <2>4 DEF TalkTypes
  <2> QED BY <1>1, <2>1, <2>3, <2>4, <2>5, TurnKeeps
<1>6. CASE at = "login" /\ "pass?" \in Kinds(wire)
  <2>1. dev' = Types("password") /\ talk' = Password(talk) /\ at' = "enable" BY <1>6 DEF CiscoLogin, Read, Turn
  <2>2. dev.out = <<>> /\ dev.mode = "pass?" /\ dev.known
    <3>1. dev.out = <<>> /\ Asking = "pass?" /\ AtLogin BY <1>1, <1>6, AtLoginTells
    <3>2. dev.mode = "pass?" BY <1>1, <1>2, <1>6, <3>1, AtLoginTells DEF AtLogin
    <3> QED BY <3>1, <3>2 DEF AtLogin
  <2> QED BY <1>5, <2>1, <2>2
<1>7. CASE at = "login password"
  <2>1. /\ dev' = Types("password") /\ at' = "enable"
        /\ talk' = Password(IF "pass?" \in Kinds(wire) THEN talk ELSE Waited)
    BY <1>7 DEF CiscoLogin, Read, Turn
  <2>2. dev.mode = "pass?" /\ dev.known /\ Pending = <<Says("pass?")>> BY <1>1, <1>7 DEF OnTime, Place, AtPassword
  <2>3. dev.out = <<>>
    <3>1. CASE "pass?" \in Kinds(wire)
      <4>1. wire # <<>> BY <3>1, KindsOfNone
      <4> QED BY <2>2, <4>1, PendingTells, OneToken DEF Pending
    <3>2. CASE "pass?" \notin Kinds(wire)
      <4>1. talk'.late = Waited.late BY <2>1, <3>2, WaitedTells, PasswordTells DEF SameReading
      <4> QED BY <4>1, InTime
    <3> QED BY <3>1, <3>2
  <2>4. talk' = Password(talk) \/ talk' = Password(Waited) BY <2>1
  <2> QED BY <1>5, <2>1, <2>2, <2>3, <2>4
<1> QED BY <1>1, <1>4, <1>6, <1>7

\* VForce: a password inside the shell.
LEMMA VForceLoginKeeps == OnTime /\ TalkOK(talk) /\ VForceLogin /\ ~talk'.late => TalkOK(talk') /\ OnTime'
<1> SUFFICES ASSUME OnTime, TalkOK(talk), VForceLogin, ~talk'.late PROVE TalkOK(talk') /\ OnTime' OBVIOUS
<1>1. /\ dev.link /\ UNCHANGED <<handler, results>> /\ wire' = <<>> /\ at \in {"login", "login shown"}
  BY DEF VForceLogin, Read, Turn
<1>2. handler.login = "inside" /\ handler.enable # "known"
  <2>1. handler.login = "inside" BY <1>1 DEF VForceLogin, OnTime, Place
  <2> QED BY <2>1, HandlerFacts DEF OnTime, SessionTypes
<1>3. TalkTypes(talk) BY PendingTells
<1>4. CASE at = "login"
  <2>1. dev' = Types("password") /\ talk' = Password(Waited) /\ at' = "login shown" BY <1>4 DEF VForceLogin, Read, Turn
  <2>2. /\ TalkOK(talk') /\ talk'.late = Waited.late /\ talk'.acc = talk.acc /\ talk'.reads = talk.reads
        /\ talk'.prompt = talk.prompt
    BY <2>1, WaitedTells, PasswordTells DEF SameReading
  <2>3. dev.out = <<>> BY <2>2, InTime
  <2>4. dev.mode = "pass?" /\ dev.known BY <1>1, <1>2, <1>4, AtLoginTells DEF AtLogin
  <2>5. /\ dev' \in Terminal /\ Alike(dev, dev') /\ wire' \in Seq(Token)
        /\ dev'.mode = "cli" /\ Quiet(Pending')
    BY <1>1, <2>1, <2>3, <2>4, AnsweredAtLogin
  <2>6. AtRest' BY <2>5 DEF AtRest
  <2>7. Place' BY <1>1, <1>2, <2>1, <2>6 DEF Place
  <2>8. TalkTypes(talk') BY <1>1, <1>2, <1>3, <2>2 DEF TalkTypes
  <2> QED BY <1>1, <2>2, <2>5, <2>7, <2>8, TurnKeeps
<1>5. CASE at = "login shown"
  <2>1. dev' = dev /\ talk' = Waited /\ at' = "enable" BY <1>5 DEF VForceLogin, Read, Turn
  <2>2. dev.out = <<>> BY <2>1, InTime
  <2>3. AtRest BY <1>1, <1>5 DEF OnTime, Place
  <2>4. AtEnable' BY <1>1, <1>2, <2>1, <2>2, <2>3, SilentTurn DEF AtEnable, AtRest
  <2>5. Place' BY <2>1, <2>4 DEF Place
  <2>6. TalkOK(talk') /\ TalkTypes(talk') BY <1>1, <1>3, <2>1, WaitedTells DEF TalkTypes
  <2> QED BY <1>1, <2>1, <2>2, <2>5, <2>6, SilentTurn, TurnKeeps
<1> QED BY <1>1, <1>4, <1>5

\* The return key at the command line: another prompt.
LEMMA EnterTells ==
    ASSUME NEW d \in Terminal, d.mode = "cli", Quiet(d.out)
    PROVE  Enter(d) \in Terminal /\ Alike(d, Enter(d)) /\ Enter(d).mode = "cli" /\ Quiet(Enter(d).out)
<1>1. PICK e : e = Typed(d, Line("enter")) OBVIOUS
<1>2. e \in Terminal /\ Alike(d, e) /\ e.mode = "cli" /\ e.out = d.out \o <<Says(e.level)>> BY <1>1, TypedAside
<1>3. e.level \in Prompts /\ e.level \in TokenKinds /\ d.out \in Seq(Token) BY <1>2 DEF Terminal, TokenKinds
<1>4. PICK t \in Seq(Token) : t = <<Says(e.level)>> BY <1>3, TokensOfDevice
<1>5. Quiet(t) BY <1>3, <1>4, QuietTells
<1>6. Quiet(d.out \o t) BY <1>3, <1>5, QuietTells
<1>7. Quiet(e.out) BY <1>2, <1>4, <1>6
<1> QED BY <1>1, <1>2, <1>7 DEF Enter

\* Axgate: answers to what was asked so far.
LEMMA AxgateLoginKeeps == OnTime /\ TalkOK(talk) /\ AxgateLogin /\ ~talk'.late => TalkOK(talk') /\ OnTime'
<1> SUFFICES ASSUME OnTime, TalkOK(talk), AxgateLogin, ~talk'.late PROVE TalkOK(talk') /\ OnTime' OBVIOUS
<1>1. PICK acc : acc = talk.acc \o wire OBVIOUS
<1>2. PICK heard : heard = [Waited EXCEPT !.acc = acc] OBVIOUS
<1>3. /\ TalkOK(heard) /\ heard.late = Waited.late /\ heard.acc = acc /\ heard.reads = talk.reads
      /\ heard.prompt = talk.prompt /\ heard.misplaced = talk.misplaced
  BY <1>2, WaitedTells, HeardTells
<1>4. \/ /\ at = "login" /\ handler.login = "answers"
         /\ IF "user?" \in Kinds(acc) THEN Read(Types("user"), User(heard), "login password?")
            ELSE Read(dev, heard, "login password?")
      \/ /\ at = "login password?"
         /\ IF "pass?" \in Kinds(acc)
            THEN Read(Enter(Enter(Enter(Types("password")))), Password(heard), "login end")
            ELSE Read(dev, heard, "login end")
      \/ /\ at = "login end"
         /\ Read(dev, [heard EXCEPT !.nudged = TRUE],
                 IF LastKind(acc) \in Prompts THEN "enable" ELSE IF talk.nudged THEN "failed" ELSE "login end")
  BY <1>1, <1>2 DEF AxgateLogin
<1>5. /\ dev.link /\ UNCHANGED <<handler, results>> /\ wire' = <<>> /\ at \in {"login", "login password?", "login end"}
      /\ talk' \in {User(heard), heard, Password(heard), [heard EXCEPT !.nudged = TRUE]}
  BY <1>4 DEF Read, Turn
<1>6. /\ TalkOK(talk') /\ talk'.late = Waited.late /\ talk'.acc = acc /\ talk'.reads = talk.reads
      /\ talk'.prompt = talk.prompt
  <2>1. CASE talk' = User(heard) BY <2>1, <1>3, UserTells DEF SameReading
  <2>2. CASE talk' = Password(heard) BY <2>2, <1>3, PasswordTells DEF SameReading
  <2>3. CASE talk' = heard BY <2>3, <1>3
  <2>4. CASE talk' = [heard EXCEPT !.nudged = TRUE] BY <2>4, <1>3, NudgedTells DEF SameReading
  <2> QED BY <1>5, <2>1, <2>2, <2>3, <2>4
<1>7. dev.out = <<>> BY <1>6, InTime
<1>8. handler.login = "answers" /\ handler.enable # "known"
  <2>1. handler.login = "answers" BY <1>4, <1>5 DEF OnTime, Place, AtAnswer
  <2> QED BY <2>1, HandlerFacts DEF OnTime, SessionTypes
<1>9. acc \in Seq(Token) /\ TalkTypes(talk') /\ Kinds(acc) = Kinds(talk.acc) \cup Kinds(wire)
  <2>1. talk.acc \in Seq(Token) /\ wire \in Seq(Token) /\ TalkTypes(talk) BY PendingTells DEF TalkTypes
  <2>2. acc \in Seq(Token) /\ Kinds(acc) = Kinds(talk.acc) \cup Kinds(wire) BY <1>1, <2>1, ConcatProperties, JoinKinds
  <2> QED BY <2>1, <2>2, <1>5, <1>6, <1>8 DEF TalkTypes
<1>10. CASE at = "login"
  <2>1. Kinds(acc) = {Asking} /\ AtLogin
    <3>1. Kinds(wire) = {Asking} /\ AtLogin BY <1>5, <1>7, <1>10, AtLoginTells
    <3>2. talk.acc = <<>> BY <3>1, <1>8 DEF AtLogin
    <3> QED BY <3>1, <3>2, <1>9, KindsOfNone
  <2>2. CASE "user?" \in Kinds(acc)
    <3>1. dev' = Types("user") /\ at' = "login password?" BY <1>4, <1>10, <2>2 DEF Read, Turn
    <3>2. Asking = "user?" BY <2>1, <2>2
    <3>3. dev.mode = "user?"
      <4>1. Asking \notin Prompts BY <3>2 DEF Prompts
      <4> QED BY <3>2, <4>1, <1>5, <1>10, AtLoginTells
    <3>4. /\ dev' \in Terminal /\ Alike(dev, dev') /\ wire' \in Seq(Token)
          /\ dev'.mode = "pass?" /\ dev'.known /\ Pending' = <<Says("pass?")>>
      BY <1>5, <1>7, <3>1, <3>3, AnsweredAtLogin
    <3>5. PICK t \in Seq(Token) : t = <<Says("pass?")>> /\ Says("pass?").kind = "pass?" BY TokensOfDevice DEF TokenKinds
    <3>6. "pass?" \in Kinds(acc \o t)
      <4>1. Kinds(t) = {"pass?"} BY <3>5, KindsOfOne
      <4>2. Kinds(acc \o t) = Kinds(acc) \cup Kinds(t) BY <1>9, JoinKinds
      <4> QED BY <4>1, <4>2
    <3>7. AtAnswer' BY <1>5, <1>6, <1>8, <3>4, <3>5, <3>6 DEF AtAnswer
    <3>8. Place' BY <3>1, <3>7 DEF Place
    <3> QED BY <1>5, <1>6, <1>9, <3>4, <3>8, TurnKeeps
  <2>3. CASE "user?" \notin Kinds(acc)
    <3>1. dev' = dev /\ at' = "login password?" BY <1>4, <1>10, <2>3 DEF Read, Turn
    <3>2. Asking # "user?" BY <2>1, <2>3
    <3>3. dev.mode \in {"pass?", "cli"} /\ (dev.mode = "pass?" <=> Asking = "pass?") /\ (dev.mode = "pass?" => dev.known)
      <4>1. dev.mode # "user?" BY <3>2, <1>5, <1>10, AtLoginTells
      <4>2. "pass?" \notin Prompts BY DEF Prompts
      <4> QED BY <4>1, <4>2, <2>1, <1>5, <1>10, AtLoginTells DEF AtLogin
    <3>4. acc \o <<>> = acc BY <1>9, ConcatEmptySeq
    <3>5. /\ dev' \in Terminal /\ Alike(dev, dev') /\ wire' \in Seq(Token) /\ Pending' = <<>> /\ Quiet(Pending')
          /\ dev'.mode = dev.mode /\ dev'.known = dev.known
      BY <1>5, <1>7, <3>1, SilentTurn
    <3>6. AtAnswer' BY <1>5, <1>6, <1>8, <2>1, <3>3, <3>4, <3>5 DEF AtAnswer
    <3>7. Place' BY <3>1, <3>6 DEF Place
    <3> QED BY <1>5, <1>6, <1>9, <3>5, <3>7, TurnKeeps
  <2> QED BY <2>2, <2>3
<1>11. CASE at = "login password?"
  <2>1. AtAnswer BY <1>5, <1>11 DEF OnTime, Place
  <2>2. Pending = wire BY <1>7, PendingTells
  <2>3. dev.mode = "pass?" <=> "pass?" \in Kinds(acc) BY <1>1, <2>1, <2>2 DEF AtAnswer
  <2>4. CASE "pass?" \in Kinds(acc)
    <3>1. dev' = Enter(Enter(Enter(Types("password")))) /\ at' = "login end" BY <1>4, <1>11, <2>4 DEF Read, Turn
    <3>2. PICK a : a = Types("password") OBVIOUS
    <3>3. a \in Terminal /\ a.mode = "cli" /\ Alike(dev, a) /\ a.out = dev.out \o <<Says(a.level)>>
      BY <2>1, <2>3, <2>4, <3>2, TypedWhereAsked, PendingTells DEF Types, AtAnswer
    <3>4. Quiet(a.out)
      <4>1. a.level \in Prompts /\ a.level \in TokenKinds BY <3>3 DEF Terminal, TokenKinds
      <4>2. PICK t \in Seq(Token) : t = <<Says(a.level)>> BY <4>1, TokensOfDevice
      <4>3. <<>> \o t = t BY ConcatEmptySeq
      <4>4. a.out = t BY <3>3, <4>2, <4>3, <1>7
      <4> QED BY <4>1, <4>2, <4>4, QuietTells
    <3>5. PICK b : b = Enter(a) OBVIOUS
    <3>6. b \in Terminal /\ Alike(a, b) /\ b.mode = "cli" /\ Quiet(b.out) BY <3>3, <3>4, <3>5, EnterTells
    <3>7. PICK c : c = Enter(b) OBVIOUS
    <3>8. c \in Terminal /\ Alike(b, c) /\ c.mode = "cli" /\ Quiet(c.out) BY <3>6, <3>7, EnterTells
    <3>9. dev' = Enter(c) BY <3>1, <3>2, <3>5, <3>7
    <3>10. dev' \in Terminal /\ Alike(c, dev') /\ dev'.mode = "cli" /\ Quiet(dev'.out) BY <3>8, <3>9, EnterTells
    <3>11. Alike(dev, dev') BY <3>3, <3>6, <3>8, <3>10 DEF Alike
    <3>12. Pending' = dev'.out BY <1>5, <3>10, PendingNext
    <3>13. AtRest' BY <3>10, <3>12 DEF AtRest
    <3>14. Place' BY <1>5, <1>8, <3>1, <3>13 DEF Place
    <3>15. wire' \in Seq(Token) BY <1>5, TokensOfDevice
    <3> QED BY <1>5, <1>6, <1>9, <3>10, <3>11, <3>14, <3>15, TurnKeeps
  <2>5. CASE "pass?" \notin Kinds(acc)
    <3>1. dev' = dev /\ at' = "login end" BY <1>4, <1>11, <2>5 DEF Read, Turn
    <3>2. dev.mode = "cli" BY <2>1, <2>3, <2>5 DEF AtAnswer
    <3>3. AtRest' BY <1>5, <1>7, <3>1, <3>2, SilentTurn DEF AtRest
    <3>4. Place' BY <1>5, <1>8, <3>1, <3>3 DEF Place
    <3> QED BY <1>5, <1>6, <1>7, <1>9, <3>1, <3>4, SilentTurn, TurnKeeps
  <2> QED BY <2>4, <2>5
<1>12. CASE at = "login end"
  <2>1. dev' = dev /\ at' \in {"enable", "failed", "login end"} BY <1>4, <1>12 DEF Read, Turn
  <2>2. AtRest BY <1>5, <1>12 DEF OnTime, Place
  <2>3. AtRest' /\ AtEnable' BY <1>5, <1>7, <1>8, <2>1, <2>2, SilentTurn DEF AtEnable, AtRest
  <2>4. Place' BY <1>5, <1>8, <2>1, <2>3 DEF Place
  <2> QED BY <1>5, <1>6, <1>7, <1>9, <2>1, <2>4, SilentTurn, TurnKeeps
<1> QED BY <1>5, <1>10, <1>11, <1>12

----------------------------------------------------------------------------

\* Where it goes on paging may be on for the handlers that look for a pager in all they read.
LEMMA AfterTells ==
    ASSUME OnTime, NEW p
    PROVE  /\ After(p) \in {"paging", "ready"}
           /\ After(p) = "ready" /\ dev.paged => handler.pager = "total"
<1>1. handler \in Handlers /\ (handler.pager = "none" /\ handler.paging = "never" => ~dev.paged) BY DEF OnTime, SessionTypes
<1>2. After(p) \in {"paging", "ready"} BY DEF After
<1>3. After(p) = "ready" => handler.paging # "always" BY DEF After
<1>4. handler.paging # "always" => handler.pager = "total" \/ (handler.pager = "none" /\ handler.paging = "never")
  BY <1>1, HandlerFacts
<1> QED BY <1>1, <1>2, <1>3, <1>4

\* All has been read and the device is at its command line.
LEMMA RestGoesOn ==
    ASSUME OnTime, dev.link, dev.out = <<>>, wire' = <<>>, UNCHANGED <<handler, dev, results>>, dev.mode = "cli",
           TalkTypes(talk'), at' \in {"paging", "ready"}, at' = "ready" /\ dev.paged => handler.pager = "total"
    PROVE  OnTime'
<1>1. /\ dev' \in Terminal /\ Alike(dev, dev') /\ wire' \in Seq(Token) /\ Pending' = <<>> /\ Quiet(Pending')
      /\ dev'.mode = "cli" /\ dev'.paged = dev.paged
  BY SilentTurn
<1>2. AtRest' BY <1>1 DEF AtRest
<1>3. Place' BY <1>1, <1>2 DEF Place
<1> QED BY <1>1, <1>3, TurnKeeps

LEMMA RestAfter ==
    ASSUME OnTime, dev.link, dev.out = <<>>, wire' = <<>>, UNCHANGED <<handler, dev, results>>, dev.mode = "cli",
           TalkTypes(talk'), NEW p, at' = After(p)
    PROVE  OnTime'
BY AfterTells, RestGoesOn

\* A line that is neither a command nor about credentials asked for, at the command line.
LEMMA TypedAtRest ==
    ASSUME OnTime, dev.mode \in {"cli", "enable?"}, Quiet(dev.out),
           NEW what \in {"enter", "secret", "enable", "paging off"}, dev' = Types(what),
           wire' = <<>> \/ (wire' = wire /\ Quiet(Pending))
    PROVE  /\ dev' \in Terminal /\ Alike(dev, dev') /\ wire' \in Seq(Token)
           /\ (what # "enable" \/ dev.mode = "enable?") => dev'.mode = "cli" /\ Quiet(Pending')
           /\ what = "paging off" /\ dev.mode = "cli" => ~dev'.paged
           /\ dev.out = <<>> /\ (wire' = <<>> \/ Pending = <<>>) =>
                \/ dev'.mode = "cli" /\ Pending' = <<Says(dev'.level)>>
                \/ dev'.mode = "enable?" /\ dev'.secret # "none" /\ Pending' = <<Says("pass?")>>
<1>1. dev \in Terminal /\ wire \in Seq(Token) /\ dev.out \in Seq(Token) BY PendingTells
<1>2. PICK e : e = Typed(dev, Line(what)) OBVIOUS
<1>0. what \in {"user", "enter", "secret", "enable", "paging off", "password"} OBVIOUS
<1>3. /\ e \in Terminal /\ Alike(dev, e)
      /\ \/ e.mode = "cli" /\ e.out = dev.out \o <<Says(e.level)>>
         \/ /\ what = "enable" /\ dev.mode = "cli" /\ dev.secret # "none"
            /\ e.mode = "enable?" /\ e.secret = dev.secret /\ e.out = dev.out \o <<Says("pass?")>>
      /\ what = "paging off" /\ dev.mode = "cli" => ~e.paged
  BY <1>0, <1>1, <1>2, TypedAside
<1>4. dev' = e BY <1>2 DEF Types
<1>5. wire' \in Seq(Token) BY <1>1, TokensOfDevice
<1>6. e.level \in Prompts /\ e.level \in TokenKinds BY <1>3 DEF Terminal, TokenKinds
<1>7. PICK s \in Seq(Token) : s = <<Says(e.level)>> BY <1>6, TokensOfDevice
<1>8. PICK t \in Seq(Token) : t = <<Says("pass?")>> BY TokensOfDevice DEF TokenKinds
<1>9. Quiet(s) BY <1>6, <1>7, QuietTells
<1>10. ASSUME NEW u \in Seq(Token), e.out = dev.out \o u
       PROVE  Pending' = dev.out \o u \/ (Pending' = Pending \o u /\ Quiet(Pending))
  BY <1>1, <1>3, <1>4, <1>10, PendingNext
<1>11. Quiet(Pending') \/ e.mode = "enable?"
  <2>1. CASE e.out = dev.out \o s
    <3>1. Quiet(dev.out \o s) BY <1>1, <1>9, QuietTells
    <3>2. Pending \in Seq(Token) BY PendingTells
    <3>3. Quiet(Pending) => Quiet(Pending \o s) BY <1>9, <3>2, QuietTells
    <3> QED BY <1>10, <2>1, <3>1, <3>3
  <2> QED BY <1>3, <1>7, <2>1
<1>12. ASSUME dev.out = <<>>, wire' = <<>> \/ Pending = <<>>, NEW u \in Seq(Token), e.out = dev.out \o u
       PROVE  Pending' = u
  <2>1. wire' = <<>> \/ wire = <<>> BY <1>12, PendingTells
  <2>2. wire' = <<>> BY <2>1
  <2>3. Pending' = dev'.out BY <1>3, <1>4, <2>2, PendingNext
  <2>4. <<>> \o u = u BY ConcatEmptySeq
  <2> QED BY <1>4, <1>12, <2>3, <2>4
<1>13. dev.out = <<>> /\ (wire' = <<>> \/ Pending = <<>>) =>
         \/ dev'.mode = "cli" /\ Pending' = <<Says(dev'.level)>>
         \/ dev'.mode = "enable?" /\ dev'.secret # "none" /\ Pending' = <<Says("pass?")>>
  <2> SUFFICES ASSUME dev.out = <<>>, wire' = <<>> \/ Pending = <<>>
               PROVE  \/ dev'.mode = "cli" /\ Pending' = <<Says(dev'.level)>>
                      \/ dev'.mode = "enable?" /\ dev'.secret # "none" /\ Pending' = <<Says("pass?")>>
    OBVIOUS
  <2>1. CASE e.mode = "cli" /\ e.out = dev.out \o s
    <3>1. Pending' = s BY <2>1, <1>12
    <3> QED BY <2>1, <3>1, <1>4, <1>7
  <2>2. CASE e.mode = "enable?" /\ e.secret = dev.secret /\ dev.secret # "none" /\ e.out = dev.out \o t
    <3>1. Pending' = t BY <2>2, <1>12
    <3> QED BY <2>2, <3>1, <1>4, <1>8
  <2> QED BY <1>3, <1>7, <1>8, <2>1, <2>2
<1>14. (what # "enable" \/ dev.mode = "enable?") => dev'.mode = "cli" /\ Quiet(Pending')
  BY <1>3, <1>4, <1>11
<1> QED BY <1>3, <1>4, <1>5, <1>13, <1>14

\* enable was typed where nothing was left over.
LEMMA EnableTyped ==
    ASSUME OnTime, dev.mode = "cli", dev.out = <<>>, wire' = <<>> \/ (wire' = wire /\ Pending = <<>>),
           dev' = Types("enable")
    PROVE  dev' \in Terminal /\ Alike(dev, dev') /\ wire' \in Seq(Token) /\ AtAsked'
<1>1. /\ dev' \in Terminal /\ Alike(dev, dev') /\ wire' \in Seq(Token)
      /\ \/ dev'.mode = "cli" /\ Pending' = <<Says(dev'.level)>>
         \/ dev'.mode = "enable?" /\ dev'.secret # "none" /\ Pending' = <<Says("pass?")>>
  BY QuietTells, TypedAtRest
<1>2. CASE dev'.mode = "cli" /\ Pending' = <<Says(dev'.level)>>
  <2>1. PICK z : z = Says(dev'.level) OBVIOUS
  <2>2. dev'.level \in Prompts BY <1>1 DEF Terminal
  <2>3. Quiet(Pending') BY <1>2, <2>2, QuietTells
  <2>4. Len(Pending') = 1 BY <1>2, <2>1
  <2> QED BY <1>1, <1>2, <2>3, <2>4 DEF AtAsked
<1>3. CASE dev'.mode = "enable?" /\ dev'.secret # "none" /\ Pending' = <<Says("pass?")>>
  <2>1. PICK z : z = Says("pass?") /\ z.kind = "pass?" BY TokensOfDevice DEF TokenKinds
  <2>2. PICK t : t = <<z>> OBVIOUS
  <2>3. t # <<>> /\ Len(t) = 1 /\ t[1] = z BY <2>2
  <2>4. AsksLast(t) BY <2>1, <2>3 DEF AsksLast
  <2>5. Pending' = t BY <1>3, <2>1, <2>2
  <2> QED BY <1>1, <1>3, <2>3, <2>4, <2>5 DEF AtAsked
<1> QED BY <1>1, <1>2, <1>3
LEMMA StartEnableKeeps == OnTime /\ TalkOK(talk) /\ StartEnable => TalkOK(talk') /\ OnTime'
<1> SUFFICES ASSUME OnTime, TalkOK(talk), StartEnable PROVE TalkOK(talk') /\ OnTime' OBVIOUS
<1>1. at = "enable" /\ handler \in Handlers BY DEF StartEnable, OnTime, SessionTypes
<1>2. \/ handler.enable = "none" /\ Send(dev, talk, "ready")
      \/ handler.enable \in {"known", "blind"} /\ Send(Types("enable"), talk, "asked")
      \/ handler.enable = "known" /\ Send(dev, talk, After(talk.prompt))
      \/ Send(Types("enter"), talk, "look")
  BY DEF StartEnable
<1>3. dev.link /\ UNCHANGED <<handler, results, wire>> /\ talk' = talk BY <1>2 DEF Send, Turn
<1>4. AtEnable BY <1>1, <1>3 DEF OnTime, Place
<1>5. TalkOK(talk') /\ TalkTypes(talk') /\ wire \in Seq(Token) /\ dev \in Terminal /\ dev.out \in Seq(Token)
  BY <1>3, PendingTells DEF TalkTypes
<1>6. CASE handler.enable = "none" /\ Send(dev, talk, "ready")
  <2>1. dev' = dev /\ at' = "ready" BY <1>6 DEF Send, Turn
  <2>2. handler.login # "asked" /\ handler.pager = "none" /\ handler.paging = "never" BY <1>1, <1>6, HandlerFacts
  <2>3. Pending = <<>> /\ wire = <<>> /\ dev.out = <<>> /\ ~dev.paged BY <1>4, <2>2, PendingTells DEF AtEnable, OnTime, SessionTypes
  <2>4. wire' = <<>> BY <1>3, <2>3
  <2>5. /\ dev' \in Terminal /\ Alike(dev, dev') /\ wire' \in Seq(Token) /\ Pending' = <<>> /\ dev'.mode = dev.mode
        /\ dev'.paged = dev.paged
    BY <1>3, <2>1, <2>3, <2>4, SilentTurn
  <2>6. Place' BY <1>4, <2>1, <2>3, <2>5 DEF Place, AtEnable
  <2> QED BY <1>3, <1>5, <2>5, <2>6, TurnKeeps
<1>7. CASE handler.enable \in {"known", "blind"} /\ Send(Types("enable"), talk, "asked")
  <2>1. dev' = Types("enable") /\ at' = "asked" BY <1>7 DEF Send, Turn
  <2>2. handler.login # "asked" BY <1>1, <1>7, HandlerFacts
  <2>3. Pending = <<>> /\ dev.out = <<>> /\ dev.mode = "cli" BY <1>4, <2>2, PendingTells DEF AtEnable
  <2>4. dev' \in Terminal /\ Alike(dev, dev') /\ wire' \in Seq(Token) /\ AtAsked' BY <1>3, <2>1, <2>3, EnableTyped
  <2>5. Place' BY <2>1, <2>4 DEF Place
  <2> QED BY <1>3, <1>5, <2>4, <2>5, TurnKeeps
<1>8. CASE handler.enable = "known" /\ Send(dev, talk, After(talk.prompt))
  <2>1. dev' = dev /\ at' = After(talk.prompt) BY <1>8 DEF Send, Turn
  <2>2. handler.login # "asked" BY <1>1, <1>8, HandlerFacts
  <2>3. wire = <<>> /\ dev.out = <<>> /\ dev.mode = "cli" BY <1>4, <2>2, PendingTells DEF AtEnable
  <2> QED BY <1>3, <1>5, <2>1, <2>3, RestAfter
<1>9. CASE Send(Types("enter"), talk, "look")
  <2>1. dev' = Types("enter") /\ at' = "look" BY <1>9 DEF Send, Turn
  <2>2. dev.mode = "cli" /\ Quiet(Pending) BY <1>4 DEF AtEnable
  <2>3. Quiet(dev.out) BY <1>5, <2>2, QuietTells DEF Pending
  <2>4. /\ dev' \in Terminal /\ Alike(dev, dev') /\ wire' \in Seq(Token)
        /\ dev'.mode = "cli" /\ Quiet(Pending')
    BY <1>3, <2>1, <2>2, <2>3, TypedAtRest
  <2>5. AtRest' BY <2>4 DEF AtRest
  <2>6. Place' BY <2>1, <2>5 DEF Place
  <2> QED BY <1>3, <1>5, <2>4, <2>6, TurnKeeps
<1> QED BY <1>2, <1>6, <1>7, <1>8, <1>9

\* A look at the prompt that the return key brought.
LEMMA LookAtPromptKeeps == OnTime /\ TalkOK(talk) /\ LookAtPrompt /\ ~talk'.late => TalkOK(talk') /\ OnTime'
<1> SUFFICES ASSUME OnTime, TalkOK(talk), LookAtPrompt, ~talk'.late PROVE TalkOK(talk') /\ OnTime' OBVIOUS
<1>1. PICK prompt : prompt = IF handler.enable = "remembers" /\ LastPrompt(wire) = "nothing" THEN talk.prompt
                             ELSE LastPrompt(wire)
  OBVIOUS
<1>2. /\ at = "look" /\ wire' = <<>> /\ dev.link /\ UNCHANGED <<handler, results>> /\ talk' = Knows(Waited, prompt)
      /\ \/ dev' = Types("enable") /\ at' = "asked"
         \/ dev' = dev /\ at' = After(prompt)
         \/ dev' = dev /\ at' = "ready" /\ handler.enable = "insists"
  BY <1>1 DEF LookAtPrompt, Read, Turn
<1>3. AtRest BY <1>2 DEF OnTime, Place
<1>4. /\ TalkOK(talk') /\ talk'.late = Waited.late /\ talk'.acc = talk.acc /\ talk'.reads = talk.reads
      /\ talk'.prompt = prompt /\ talk'.misplaced = talk.misplaced
  BY <1>2, WaitedTells, KnowsTells DEF SameReading
<1>5. dev.out = <<>> BY <1>4, InTime
<1>6. TalkTypes(talk')
  <2>1. TalkTypes(talk) /\ wire \in Seq(Token) BY PendingTells
  <2>2. LastPrompt(wire) \in Prompts \cup {"nothing"} BY <2>1, LastPromptTells
  <2>3. prompt \in Prompts \cup {"nothing"} BY <1>1, <2>1, <2>2 DEF TalkTypes
  <2> QED BY <1>2, <1>4, <2>1, <2>3 DEF TalkTypes
<1>7. CASE dev' = Types("enable") /\ at' = "asked"
  <2>1. dev' \in Terminal /\ Alike(dev, dev') /\ wire' \in Seq(Token) /\ AtAsked'
    BY <1>2, <1>3, <1>5, <1>7, EnableTyped DEF AtRest
  <2>2. Place' BY <1>7, <2>1 DEF Place
  <2> QED BY <1>2, <1>4, <1>6, <2>1, <2>2, TurnKeeps
<1>8. CASE dev' = dev /\ at' = After(prompt)
  BY <1>2, <1>3, <1>4, <1>5, <1>6, <1>8, RestAfter DEF AtRest
<1>9. CASE dev' = dev /\ at' = "ready" /\ handler.enable = "insists"
  <2>1. handler \in Handlers BY DEF OnTime, SessionTypes
  <2>2. handler.pager = "total" BY <1>9, <2>1, HandlerFacts
  <2> QED BY <1>2, <1>3, <1>4, <1>5, <1>6, <1>9, <2>2, RestGoesOn DEF AtRest
<1> QED BY <1>2, <1>7, <1>8, <1>9

\* Where enable was typed, what was read tells what the device waits for.
LEMMA AskedTells ==
    ASSUME OnTime, dev.link, at = "asked"
    PROVE  /\ AtAsked /\ (Quiet(dev.out) \/ dev.mode = "enable?")
           /\ "pass?" \in Kinds(wire) => dev.mode = "enable?" /\ dev.out = <<>>
           /\ dev.out = <<>> /\ "pass?" \notin Kinds(wire) => dev.mode = "cli"
           /\ Len(Pending) = 1 /\ "#" \in Kinds(wire) => dev.mode = "cli" /\ dev.out = <<>>
<1>1. AtAsked BY DEF OnTime, Place
<1>2. PICK w \in Seq(Token) : w = wire BY PendingTells
<1>3. PICK o \in Seq(Token) : o = dev.out BY PendingTells
<1>4. PICK k \in Nat : k = Len(w) OBVIOUS
<1>5. PICK l \in Nat : l = Len(o) OBVIOUS
<1>6. PICK t \in Seq(Token) : t = Pending BY PendingTells
<1>7. /\ t = w \o o /\ Len(t) = k + l /\ \A i \in 1 .. k + l : t[i] = IF i <= k THEN w[i] ELSE o[i - k]
  BY <1>2, <1>3, <1>4, <1>5, <1>6, ConcatProperties DEF Pending
<1>8. DOMAIN w = 1 .. k BY <1>4, LenProperties
<1>9. l = 0 => o = <<>> BY <1>5, EmptySeq
<1>10. dev.mode \in {"cli", "enable?"} BY <1>1 DEF AtAsked
<1>11. "pass?" \notin Prompts BY DEF Prompts
<1>12. ASSUME dev.mode = "cli" PROVE Quiet(dev.out) /\ "pass?" \notin Kinds(wire)
  <2>1. Quiet(Pending) BY <1>1, <1>12 DEF AtAsked
  <2>2. Quiet(w) /\ Quiet(o) BY <2>1, <1>6, <1>7, QuietTells
  <2> QED BY <2>2, <1>2, <1>3, <1>11 DEF Quiet
<1>13. ASSUME dev.mode = "enable?" PROVE AsksLast(t) BY <1>1, <1>6, <1>13 DEF AtAsked
<1>14. ASSUME "pass?" \in Kinds(wire) PROVE dev.mode = "enable?" /\ dev.out = <<>>
  <2>1. dev.mode = "enable?" BY <1>10, <1>12, <1>14
  <2>2. PICK i \in 1 .. k : w[i].kind = "pass?" BY <1>14, <1>2, <1>8 DEF Kinds
  <2>3. i \in 1 .. k + l /\ t[i].kind = "pass?" BY <2>2, <1>7
  <2>4. i = k + l BY <2>1, <2>3, <1>7, <1>11, <1>13 DEF AsksLast
  <2>5. l = 0 BY <2>4
  <2> QED BY <2>1, <2>5, <1>3, <1>9
<1>15. ASSUME dev.out = <<>>, "pass?" \notin Kinds(wire) PROVE dev.mode = "cli"
  <2> SUFFICES ASSUME dev.mode = "enable?" PROVE FALSE BY <1>10
  <2>1. t = w BY <1>15, <1>3, <1>7, ConcatEmptySeq
  <2>2. w # <<>> /\ w[k].kind = "pass?" BY <2>1, <1>4, <1>13 DEF AsksLast
  <2>3. k \in 1 .. k BY <2>2, <1>4, EmptySeq
  <2>4. "pass?" \in Kinds(w) BY <2>2, <2>3, <1>8 DEF Kinds
  <2> QED BY <2>4, <1>2, <1>15
<1>16. ASSUME Len(Pending) = 1, "#" \in Kinds(wire) PROVE dev.mode = "cli" /\ dev.out = <<>>
  <2>1. PICK i \in 1 .. k : w[i].kind = "#" BY <1>16, <1>2, <1>8 DEF Kinds
  <2>2. k + l = 1 BY <1>6, <1>7, <1>16
  <2>3. k = 1 /\ l = 0 /\ i = 1 BY <2>1, <2>2
  <2>4. t[1].kind = "#" BY <2>1, <2>3, <1>7
  <2>5. dev.mode # "enable?"
    <3>1. Len(t) = 1 BY <2>2, <1>7
    <3> QED BY <2>4, <3>1, <1>13 DEF AsksLast
  <2> QED BY <2>3, <2>5, <1>3, <1>9, <1>10
<1> QED BY <1>1, <1>10, <1>12, <1>14, <1>15, <1>16

\* The password is typed, whether the device asks for it or not.
LEMMA SecretTyped ==
    ASSUME OnTime, TalkOK(talk), dev.link, at = "asked", wire' = <<>>, UNCHANGED <<handler, results>>,
           dev' = Types("secret"), TalkTypes(talk'), at' \in {"press", "entered", "paging"},
           "pass?" \in Kinds(wire) \/ dev.out = <<>>
    PROVE  OnTime'
<1>1. AtAsked /\ dev.mode \in {"cli", "enable?"} BY AskedTells DEF AtAsked
<1>2. Quiet(dev.out)
  <2>1. "pass?" \in Kinds(wire) => dev.out = <<>> BY AskedTells
  <2>2. dev.out = <<>> BY <2>1
  <2> QED BY <2>2, QuietTells
<1>3. dev' \in Terminal /\ Alike(dev, dev') /\ wire' \in Seq(Token) /\ dev'.mode = "cli" /\ Quiet(Pending')
  BY <1>1, <1>2, TypedAtRest
<1>4. AtRest' BY <1>3 DEF AtRest
<1>5. Place' BY <1>4 DEF Place
<1> QED BY <1>3, <1>5, TurnKeeps

\* After enable, with a password or without.
LEMMA EnablePasswordKeeps == OnTime /\ TalkOK(talk) /\ EnablePassword /\ ~talk'.late => TalkOK(talk') /\ OnTime'
<1> SUFFICES ASSUME OnTime, TalkOK(talk), EnablePassword, ~talk'.late PROVE TalkOK(talk') /\ OnTime' OBVIOUS
<1>1. at = "asked" /\ handler \in Handlers BY DEF EnablePassword, OnTime, SessionTypes
<1>2. \/ handler.enable = "blind" /\ Read(Types("secret"), IF "pass?" \in Kinds(wire) THEN talk ELSE Waited, "paging")
      \/ dev.secret = "none" /\ Send(dev, talk, "paging")
      \/ "pass?" \in Kinds(wire) /\ Read(Types("secret"), talk, "press")
      \/ "pass?" \in Kinds(wire) /\ Read(Types("secret"), talk, "entered")
      \/ "pass?" \notin Kinds(wire) /\ handler.enable = "known" /\ Read(dev, Waited, "ready")
      \/ "pass?" \notin Kinds(wire) /\ Read(dev, Waited, "entered")
      \/ /\ "pass?" \notin Kinds(wire) /\ handler.enable \notin {"known", "blind"}
         /\ Read(dev, IF LastPrompt(wire) = "#" THEN Knows(Waited, "#") ELSE Waited, After("#"))
  BY DEF EnablePassword
<1>3. dev.link /\ UNCHANGED <<handler, results>> BY <1>2 DEF Send, Read, Turn
<1>5. TalkTypes(talk) /\ TalkTypes(Waited) /\ TalkOK(Waited)
  BY PendingTells, WaitedTells DEF TalkTypes
<1>6. ASSUME Read(Types("secret"), talk, at'), "pass?" \in Kinds(wire), at' \in {"press", "entered", "paging"}
      PROVE TalkOK(talk') /\ OnTime'
  <2>1. dev' = Types("secret") /\ talk' = talk /\ wire' = <<>> BY <1>6 DEF Read, Turn
  <2>2. TalkTypes(talk') BY <1>3, <1>5, <2>1 DEF TalkTypes
  <2> QED BY <1>1, <1>3, <1>6, <2>1, <2>2, SecretTyped
<1>7. CASE handler.enable = "blind" /\ Read(Types("secret"), IF "pass?" \in Kinds(wire) THEN talk ELSE Waited, "paging")
  <2>1. dev' = Types("secret") /\ wire' = <<>> /\ at' = "paging" BY <1>7 DEF Read, Turn
  <2>2. talk' = IF "pass?" \in Kinds(wire) THEN talk ELSE Waited BY <1>7 DEF Read, Turn
  <2>3. TalkTypes(talk') /\ TalkOK(talk') BY <1>3, <1>5, <2>2 DEF TalkTypes
  <2>4. "pass?" \in Kinds(wire) \/ dev.out = <<>> BY <2>2, InTime
  <2> QED BY <1>1, <1>3, <2>1, <2>3, <2>4, SecretTyped
<1>8. CASE dev.secret = "none" /\ Send(dev, talk, "paging")
  <2>1. dev' = dev /\ talk' = talk /\ wire' = wire /\ at' = "paging" BY <1>8 DEF Send, Turn
  <2>2. AtRest BY <1>1, <1>3, <1>8, AskedTells DEF AtRest, AtAsked
  <2>3. AtRest' BY <2>1, <2>2 DEF AtRest, Pending
  <2>4. Place' BY <2>1, <2>3 DEF Place
  <2>5. TalkTypes(talk') /\ dev' \in Terminal /\ wire' \in Seq(Token) /\ Alike(dev, dev')
    BY <1>3, <1>5, <2>1, PendingTells DEF TalkTypes, Alike
  <2> QED BY <1>3, <2>1, <2>4, <2>5, TurnKeeps
<1>9. ASSUME dev' = dev, wire' = <<>>, "pass?" \notin Kinds(wire), dev.out = <<>>, TalkTypes(talk'),
             at' = "entered" \/ (at' = "ready" /\ handler.enable = "known")
      PROVE  OnTime'
  <2>1. dev.mode = "cli" BY <1>1, <1>3, <1>9, AskedTells
  <2>2. /\ dev' \in Terminal /\ Alike(dev, dev') /\ wire' \in Seq(Token) /\ Pending' = <<>> /\ Quiet(Pending')
        /\ dev'.mode = "cli" /\ dev'.paged = dev.paged
    BY <1>3, <1>9, <2>1, SilentTurn
  <2>3. AtRest' BY <2>2 DEF AtRest
  <2>4. at' = "ready" => (dev.paged => handler.pager = "total")
    <3>1. handler.enable = "known" => handler.pager = "total" BY <1>1, HandlerFacts
    <3> QED BY <1>9, <3>1
  <2>5. Place' BY <1>3, <1>9, <2>2, <2>3, <2>4 DEF Place
  <2> QED BY <1>3, <2>2, <2>5, <1>9, TurnKeeps
<1>10. ASSUME "pass?" \notin Kinds(wire), Read(dev, Waited, at'),
              at' = "entered" \/ (at' = "ready" /\ handler.enable = "known")
       PROVE  TalkOK(talk') /\ OnTime'
  <2>1. dev' = dev /\ wire' = <<>> /\ talk' = Waited BY <1>10 DEF Read, Turn
  <2>2. TalkTypes(talk') /\ dev.out = <<>> BY <1>3, <1>5, <2>1, InTime DEF TalkTypes
  <2> QED BY <1>5, <1>9, <1>10, <2>1, <2>2
<1>11. CASE /\ "pass?" \notin Kinds(wire) /\ handler.enable \notin {"known", "blind"}
            /\ Read(dev, IF LastPrompt(wire) = "#" THEN Knows(Waited, "#") ELSE Waited, After("#"))
  <2>1. dev' = dev /\ wire' = <<>> /\ at' = After("#") BY <1>11 DEF Read, Turn
  <2>2. talk' = IF LastPrompt(wire) = "#" THEN Knows(Waited, "#") ELSE Waited BY <1>11 DEF Read, Turn
  <2>3. TalkOK(talk') /\ talk'.late = Waited.late /\ TalkTypes(talk')
    <3>1. /\ TalkOK(Knows(Waited, "#")) /\ SameReading(Waited, Knows(Waited, "#")) /\ Knows(Waited, "#").prompt = "#"
          /\ Knows(Waited, "#").misplaced = Waited.misplaced
      BY <1>5, KnowsTells
    <3>2. "#" \in Prompts BY DEF Prompts
    <3>3. TalkTypes(Knows(Waited, "#")) BY <1>5, <3>1, <3>2 DEF TalkTypes, SameReading
    <3>4. CASE talk' = Waited BY <3>4, <1>3, <1>5 DEF TalkTypes
    <3>5. CASE talk' = Knows(Waited, "#")
      <4>1. TalkTypes(talk') BY <3>5, <3>3, <1>3 DEF TalkTypes
      <4> QED BY <4>1, <3>5, <3>1 DEF SameReading
    <3> QED BY <2>2, <3>4, <3>5
  <2>4. dev.out = <<>> BY <2>3, InTime
  <2>5. dev.mode = "cli" BY <1>1, <1>3, <1>11, <2>4, AskedTells
  <2> QED BY <1>3, <2>1, <2>3, <2>4, <2>5, RestAfter
<1>12. CASE "pass?" \in Kinds(wire) /\ Read(Types("secret"), talk, "press")
  <2>1. at' = "press" BY <1>12 DEF Read, Turn
  <2> QED BY <1>6, <1>12, <2>1
<1>13. CASE "pass?" \in Kinds(wire) /\ Read(Types("secret"), talk, "entered")
  <2>1. at' = "entered" BY <1>13 DEF Read, Turn
  <2> QED BY <1>6, <1>13, <2>1
<1>14. CASE "pass?" \notin Kinds(wire) /\ handler.enable = "known" /\ Read(dev, Waited, "ready")
  <2>1. at' = "ready" BY <1>14 DEF Read, Turn
  <2> QED BY <1>10, <1>14, <2>1
<1>15. CASE "pass?" \notin Kinds(wire) /\ Read(dev, Waited, "entered")
  <2>1. at' = "entered" BY <1>15 DEF Read, Turn
  <2> QED BY <1>10, <1>15, <2>1
<1> QED BY <1>2, <1>7, <1>8, <1>11, <1>12, <1>13, <1>14, <1>15

\* One more return key.
LEMMA PressReturnKeeps == OnTime /\ TalkOK(talk) /\ PressReturn => TalkOK(talk') /\ OnTime'
<1> SUFFICES ASSUME OnTime, TalkOK(talk), PressReturn PROVE TalkOK(talk') /\ OnTime' OBVIOUS
<1>1. /\ at = "press" /\ dev.link /\ UNCHANGED <<handler, results>> /\ wire' = <<>> /\ talk' = talk
      /\ dev' = Types("enter") /\ at' = "entered"
  BY DEF PressReturn, Read, Turn
<1>2. AtRest BY <1>1 DEF OnTime, Place
<1>3. Quiet(dev.out) BY <1>2, PendingTells, QuietTells DEF AtRest, Pending
<1>4. dev' \in Terminal /\ Alike(dev, dev') /\ wire' \in Seq(Token) /\ dev'.mode = "cli" /\ Quiet(Pending')
  BY <1>1, <1>2, <1>3, TypedAtRest DEF AtRest
<1>5. Place' BY <1>1, <1>4 DEF Place, AtRest
<1>6. TalkTypes(talk') BY <1>1, PendingTells DEF TalkTypes
<1> QED BY <1>1, <1>4, <1>5, <1>6, TurnKeeps

\* The prompt after the password.
LEMMA EnteredKeeps == OnTime /\ TalkOK(talk) /\ Entered /\ ~talk'.late => TalkOK(talk') /\ OnTime'
<1> SUFFICES ASSUME OnTime, TalkOK(talk), Entered, ~talk'.late PROVE TalkOK(talk') /\ OnTime' OBVIOUS
<1>1. PICK seen : seen = LastPrompt(wire) OBVIOUS
<1>2. /\ at = "entered" /\ dev.link /\ UNCHANGED <<handler, results, dev>> /\ wire' = <<>>
      /\ talk' = Knows(Waited, seen) \/ talk' = Waited
      /\ at' = After(seen) \/ at' = After("#")
      /\ talk' = Knows(Waited, seen) => seen \in Prompts \cup {"nothing"}
  <2>1. seen \in Prompts \cup {"nothing"} BY <1>1, PendingTells, LastPromptTells
  <2> QED BY <1>1, <2>1 DEF Entered, Read, Turn
<1>3. TalkOK(Waited) /\ TalkTypes(Waited) BY PendingTells, WaitedTells DEF TalkTypes
<1>4. TalkOK(talk') /\ talk'.late = Waited.late /\ TalkTypes(talk')
  <2>1. CASE talk' = Waited BY <2>1, <1>2, <1>3 DEF TalkTypes
  <2>2. CASE talk' = Knows(Waited, seen)
    <3>1. /\ TalkOK(Knows(Waited, seen)) /\ SameReading(Waited, Knows(Waited, seen)) /\ Knows(Waited, seen).prompt = seen
          /\ Knows(Waited, seen).misplaced = Waited.misplaced
      BY <1>3, KnowsTells
    <3> QED BY <3>1, <2>2, <1>2, <1>3 DEF TalkTypes, SameReading
  <2> QED BY <1>2, <2>1, <2>2
<1>5. dev.out = <<>> BY <1>4, InTime
<1>6. AtRest BY <1>2 DEF OnTime, Place
<1>7. CASE at' = After(seen) BY <1>2, <1>4, <1>5, <1>6, <1>7, RestAfter DEF AtRest
<1>8. CASE at' = After("#") BY <1>2, <1>4, <1>5, <1>6, <1>8, RestAfter DEF AtRest
<1> QED BY <1>2, <1>7, <1>8

\* Paging is off once its line was typed at the command line.
LEMMA PagingOffKeeps == OnTime /\ TalkOK(talk) /\ PagingOff => TalkOK(talk') /\ OnTime'
<1> SUFFICES ASSUME OnTime, TalkOK(talk), PagingOff PROVE TalkOK(talk') /\ OnTime' OBVIOUS
<1>1. /\ at = "paging" /\ dev.link /\ UNCHANGED <<handler, results, wire>> /\ talk' = talk
      /\ dev' = Types("paging off") /\ at' = "paging seen"
  BY DEF PagingOff, Send, Turn
<1>2. AtRest BY <1>1 DEF OnTime, Place
<1>3. Quiet(dev.out) BY <1>2, PendingTells, QuietTells DEF AtRest, Pending
<1>4. /\ dev' \in Terminal /\ Alike(dev, dev') /\ wire' \in Seq(Token) /\ dev'.mode = "cli" /\ Quiet(Pending')
      /\ ~dev'.paged
  BY <1>1, <1>2, <1>3, TypedAtRest DEF AtRest
<1>5. Place' BY <1>1, <1>4 DEF Place, AtRest
<1>6. TalkTypes(talk') BY <1>1, PendingTells DEF TalkTypes
<1> QED BY <1>1, <1>4, <1>5, <1>6, TurnKeeps

\* What the device said to it has been read.
LEMMA PagingSeenKeeps == OnTime /\ TalkOK(talk) /\ PagingSeen /\ ~talk'.late => TalkOK(talk') /\ OnTime'
<1> SUFFICES ASSUME OnTime, TalkOK(talk), PagingSeen, ~talk'.late PROVE TalkOK(talk') /\ OnTime' OBVIOUS
<1>1. /\ at = "paging seen" /\ dev.link /\ UNCHANGED <<handler, results, dev>> /\ wire' = <<>> /\ talk' = Waited
      /\ at' = "ready"
  BY DEF PagingSeen, Read, Turn
<1>2. AtRest /\ (dev.paged => handler.pager = "total") BY <1>1 DEF OnTime, Place
<1>3. dev.out = <<>> BY <1>1, InTime
<1>4. /\ dev' \in Terminal /\ Alike(dev, dev') /\ wire' \in Seq(Token) /\ Pending' = <<>>
      /\ dev'.mode = "cli" /\ dev'.paged = dev.paged
  BY <1>1, <1>2, <1>3, SilentTurn DEF AtRest
<1>5. Place' BY <1>1, <1>2, <1>4 DEF Place
<1>6. TalkOK(talk') /\ TalkTypes(talk') BY <1>1, PendingTells, WaitedTells DEF TalkTypes
<1> QED BY <1>1, <1>4, <1>5, <1>6, TurnKeeps

----------------------------------------------------------------------------

\* At the prompt of the next command.
LEMMA AllHeard ==
    ASSUME OnTime
    PROVE  /\ AllRead \in Seq(Token) /\ Said \in Seq(Token) /\ Said = AllRead \o dev.out
           /\ Kinds(AllRead) = Kinds(talk.acc) \cup Kinds(wire)
           /\ This \in Nat /\ results \in Seq(Result) /\ Len(results) \in Nat
<1>1. PICK a \in Seq(Token) : a = talk.acc BY PendingTells DEF TalkTypes
<1>2. PICK w \in Seq(Token) : w = wire BY PendingTells
<1>3. PICK o \in Seq(Token) : o = dev.out BY PendingTells
<1>4. AllRead = a \o w /\ a \o w \in Seq(Token) BY <1>1, <1>2, ConcatProperties DEF AllRead
<1>5. Pending = w \o o /\ w \o o \in Seq(Token) BY <1>2, <1>3, ConcatProperties DEF Pending
<1>6. Said = a \o (w \o o) BY <1>1, <1>5 DEF Said
<1>7. (a \o w) \o o = a \o (w \o o) /\ (a \o w) \o o \in Seq(Token) BY <1>4, ConcatAssociative, ConcatProperties
<1>8. Kinds(a \o w) = Kinds(a) \cup Kinds(w) BY JoinKinds
<1>9. results \in Seq(Result) BY DEF OnTime, SessionTypes
<1>10. Len(results) \in Nat /\ This \in Nat BY <1>9 DEF This
<1> QED BY <1>1, <1>2, <1>3, <1>4, <1>6, <1>7, <1>8, <1>9, <1>10

\* What has been read is kept, and what comes is added to it.
LEMMA SaidNext ==
    ASSUME OnTime, dev' \in Terminal, NEW t \in Seq(Token), dev'.out = dev.out \o t, wire' = <<>>, talk'.acc = AllRead
    PROVE  Said' = Said \o t /\ Pending' = dev.out \o t
<1>1. PICK a \in Seq(Token) : a = AllRead BY AllHeard
<1>2. PICK o \in Seq(Token) : o = dev.out BY PendingTells
<1>3. Pending' = o \o t BY <1>2, PendingNext
<1>4. Said' = a \o (o \o t) BY <1>1, <1>3 DEF Said
<1>5. (a \o o) \o t = a \o (o \o t) BY ConcatAssociative
<1>6. Said = a \o o BY <1>1, <1>2, AllHeard
<1> QED BY <1>2, <1>3, <1>4, <1>5, <1>6

\* While a command is read.
LEMMA WhileReading ==
    ASSUME OnTime, dev.link, at = "reading"
    PROVE  /\ AtReading /\ Len(results) < Commands /\ This \in 1 .. Commands
           /\ dev.pages[This] \in 1 .. MaxPages /\ dev.showing.page \in Nat
           /\ dev.paged => handler.pager = "total" /\ handler.ends = "once" /\ handler.bound # "deadline"
           /\ dev.mode \in {"more", "cli"}
           /\ dev.mode = "more" => dev.paged
           /\ handler \in Handlers
<1>1. AtReading /\ (dev.paged => handler.pager = "total") BY DEF OnTime, Place
<1>2. handler \in Handlers BY DEF OnTime, SessionTypes
<1>3. handler.pager = "total" => handler.ends = "once" /\ handler.bound # "deadline" BY <1>2, HandlerFacts
<1>4. Len(results) < Commands /\ Len(results) \in Nat BY <1>1, AllHeard DEF AtReading
<1>5. This \in 1 .. Commands BY <1>4, VendorAssumption DEF This
<1>6. dev.pages[This] \in 1 .. MaxPages /\ dev.showing.page \in Nat BY <1>5, PendingTells DEF Terminal
<1> QED BY <1>1, <1>2, <1>3, <1>4, <1>5, <1>6 DEF AtReading, Paging

\* Reading on, when the device has shown all of its answer.
LEMMA ReadOn ==
    ASSUME OnTime, dev.link, at = "reading", at' = "reading", dev.mode = "cli", dev' = dev, wire' = <<>>,
           UNCHANGED <<handler, results>>, TalkTypes(talk'), talk'.acc = AllRead
    PROVE  OnTime'
<1>0. dev \in Terminal BY PendingTells
<1>1. dev \in Terminal /\ dev' \in Terminal /\ Alike(dev, dev') /\ wire' \in Seq(Token)
  BY <1>0, TokensOfDevice DEF Alike
<1>2. PICK e \in Seq(Token) : e = <<>> BY TokensOfDevice
<1>3. PICK o \in Seq(Token) : o = dev.out BY PendingTells
<1>4. dev'.out = dev.out \o e BY <1>2, <1>3, ConcatEmptySeq
<1>5. Said' = Said \o e BY <1>1, <1>4, SaidNext
<1>6. PICK s \in Seq(Token) : s = Said BY AllHeard
<1>7. Said' = Said BY <1>2, <1>5, <1>6, ConcatEmptySeq
<1>8. This' = This BY DEF This
<1>9. AtReading /\ (dev.paged => handler.pager = "total") BY WhileReading
<1>10. PagesOf(Said, This, 1, dev.pages[This])' BY <1>7, <1>8, <1>9 DEF AtReading, PagesOf
<1>11. (handler.ends # "once" => \A i \in 1 .. Len(Said) : Said[i].kind \in Prompts => i = Len(Said))'
  BY <1>7, <1>9 DEF AtReading
<1>12. AtReading' BY <1>9, <1>10, <1>11 DEF AtReading
<1>13. Place' BY <1>9, <1>12 DEF Place
<1> QED BY <1>1, <1>13, TurnKeeps

\* The next page is asked for where the device stops at a pager.
LEMMA NextPage ==
    ASSUME OnTime, dev.link, at = "reading", at' = "reading", dev.mode = "more", dev' = Types("space"), wire' = <<>>,
           UNCHANGED <<handler, results>>, TalkTypes(talk'), talk'.acc = AllRead,
           handler.bound \in {"reads", "dry"} => talk'.reads = talk.reads + 1
    PROVE  OnTime'
<1>1. /\ AtReading /\ This \in 1 .. Commands /\ dev.pages[This] \in 1 .. MaxPages /\ dev.showing.page \in Nat
      /\ dev.paged /\ handler.pager = "total" /\ handler.ends = "once"
  BY WhileReading
<1>2. Paging BY <1>1 DEF AtReading
<1>3. PICK n \in 1 .. Commands : n = This /\ n = dev.showing.of BY <1>1, <1>2 DEF Paging
<1>4. PICK b \in Nat : b = dev.showing.page BY <1>1
<1>5. PICK q \in Nat : q = dev.pages[n] /\ q \in 1 .. MaxPages BY <1>1, <1>3
<1>6. b < q BY <1>2, <1>3, <1>4, <1>5 DEF Paging
<1>7. PICK p \in 1 .. dev.pages[n] : p = b + 1 BY <1>5, <1>6
<1>8. PICK e : e = Pages(dev, n, p) OBVIOUS
<1>9. dev' = e
  <2>1. PICK l : l = Line("space") OBVIOUS
  <2>3. l.what = "space" BY <2>1 DEF Line
  <2>2. Typed(dev, l) = Pages(dev, dev.showing.of, dev.showing.page + 1) BY <2>3 DEF Typed
  <2> QED BY <2>1, <2>2, <1>3, <1>4, <1>7, <1>8 DEF Types
<1>10. dev \in Terminal BY PendingTells
<1>11. e \in Terminal /\ Alike(dev, e) BY <1>8, <1>10, PagesTell
<1>21. PICK t \in Seq(Token) : Shown(dev, e, n, p, t) BY <1>8, <1>10, PagesTell
<1>12. /\ e.out = dev.out \o t
       /\ \/ /\ e.mode = "more" /\ e.paged /\ e.showing = [of |-> n, page |-> p] /\ p < dev.pages[n]
             /\ PagesOf(t, n, p, p) /\ "more" \in Kinds(t)
          \/ e.mode = "cli" /\ PagesOf(t, n, p, dev.pages[n])
  BY <1>21 DEF Shown
<1>13. Said' = Said \o t /\ Pending' = dev.out \o t BY <1>9, <1>11, <1>12, SaidNext
<1>14. PICK s \in Seq(Token) : s = Said BY AllHeard
<1>15. PagesOf(s, n, 1, b) BY <1>1, <1>3, <1>4, <1>14 DEF AtReading
<1>16. This' = n BY <1>3 DEF This
<1>17. dev'.pages = dev.pages /\ (dev'.paged => dev.paged) BY <1>9, <1>11 DEF Alike
<1>18. "more" \in Kinds(t) => "more" \in Kinds(Pending')
  <2>1. PICK o \in Seq(Token) : o = dev.out BY PendingTells
  <2>2. Kinds(o \o t) = Kinds(o) \cup Kinds(t) BY JoinKinds
  <2>3. Pending' = o \o t BY <1>13, <2>1
  <2> QED BY <2>2, <2>3
<1>19. CASE e.mode = "more" /\ e.paged /\ e.showing = [of |-> n, page |-> p] /\ p < q /\ PagesOf(t, n, p, p) /\ "more" \in Kinds(t)
  <2>1. PagesOf(s \o t, n, 1, p)
    <3>1. p \in Nat /\ b <= p /\ PagesOf(t, n, b + 1, p) BY <1>7, <1>19
    <3>2. n \in Nat OBVIOUS
    <3> QED BY <1>15, <3>1, <3>2, PagesJoin
  <2>2. dev'.showing.of = n /\ dev'.showing.page = p BY <1>9, <1>19
  <2>3. PagesOf(Said', This', 1, dev'.showing.page) BY <2>1, <2>2, <1>13, <1>14, <1>16
  <2>4. handler.bound \in {"reads", "dry"} => talk'.reads < p
    <3>1. handler.bound \in {"reads", "dry"} => talk.reads < b BY <1>2, <1>4 DEF Paging
    <3>2. talk.reads \in Nat BY PendingTells DEF TalkTypes
    <3> QED BY <3>1, <3>2, <1>7
  <2>5. Paging' BY <2>2, <2>4, <1>5, <1>9, <1>16, <1>17, <1>18, <1>19 DEF Paging
  <2>6. PagesOf(Said, This, 1, IF dev.mode = "more" THEN dev.showing.page ELSE dev.pages[This])'
    <3>1. dev'.mode = "more" BY <1>9, <1>19
    <3> QED BY <2>3, <3>1 DEF PagesOf
  <2>7. AtReading' BY <1>1, <1>9, <1>19, <2>5, <2>6 DEF AtReading
  <2>8. Place' BY <1>1, <2>7 DEF Place
  <2> QED BY <2>8, <1>9, <1>11, TurnKeeps
<1>20. CASE e.mode = "cli" /\ PagesOf(t, n, p, q)
  <2>1. PagesOf(s \o t, n, 1, q)
    <3>1. b <= q /\ PagesOf(t, n, b + 1, q) BY <1>6, <1>7, <1>20
    <3>2. n \in Nat OBVIOUS
    <3> QED BY <1>15, <3>1, <3>2, PagesJoin
  <2>2. dev'.pages[This'] = q BY <1>5, <1>16, <1>17
  <2>3. PagesOf(Said', This', 1, dev'.pages[This']) BY <2>1, <2>2, <1>13, <1>14, <1>16
  <2>4. dev'.mode = "cli" BY <1>9, <1>20
  <2>5. PagesOf(Said, This, 1, IF dev.mode = "more" THEN dev.showing.page ELSE dev.pages[This])'
    BY <2>3, <2>4 DEF PagesOf
  <2>6. AtReading' BY <1>1, <2>4, <2>5 DEF AtReading
  <2>7. Place' BY <1>1, <2>6 DEF Place
  <2> QED BY <2>7, <1>9, <1>11, TurnKeeps
<1> QED BY <1>5, <1>12, <1>19, <1>20

\* A space at the pager, or where there is none.
LEMMA AnswerPagerKeeps == OnTime /\ TalkOK(talk) /\ AnswerPager => TalkOK(talk') /\ OnTime'
<1> SUFFICES ASSUME OnTime, TalkOK(talk), AnswerPager PROVE TalkOK(talk') /\ OnTime' OBVIOUS
<1>1. PICK r : r = IF handler.bound = "deadline" THEN talk.reads ELSE Counted OBVIOUS
<1>2. PICK a : a = AllRead OBVIOUS
<1>3. /\ at = "reading" /\ dev.link /\ UNCHANGED <<handler, results>> /\ wire' = <<>> /\ dev' = Types("space")
      /\ at' = "reading" /\ talk' = [talk EXCEPT !.acc = a, !.reads = r]
  BY <1>1, <1>2 DEF AnswerPager, Read, Turn
<1>4. /\ TalkOK(talk') /\ talk'.acc = a /\ talk'.reads = r /\ talk'.prompt = talk.prompt /\ talk'.misplaced = talk.misplaced
  BY <1>3 DEF TalkOK, Fields
<1>5. TalkTypes(talk) BY PendingTells
<1>6. r \in Nat /\ (handler.bound = "none" => r <= 1) /\ (handler.bound \in {"reads", "dry"} => r = talk.reads + 1)
  BY <1>1, <1>5 DEF Counted, TalkTypes
<1>7. TalkTypes(talk') BY <1>2, <1>3, <1>4, <1>5, <1>6, AllHeard DEF TalkTypes
<1>8. CASE dev.mode = "more" BY <1>2, <1>3, <1>4, <1>6, <1>7, <1>8, NextPage
<1>9. CASE dev.mode = "cli"
  <2>1. PICK l : l = Line("space") OBVIOUS
  <2>4. l.what = "space" BY <2>1 DEF Line
  <2>2. Typed(dev, l) = dev BY <1>9, <2>4 DEF Typed
  <2>3. dev' = dev BY <1>3, <2>1, <2>2 DEF Types
  <2> QED BY <1>2, <1>3, <1>4, <1>7, <1>9, <2>3, ReadOn
<1> QED BY <1>3, <1>4, <1>8, <1>9, WhileReading

\* Another read, for the handlers that look for a prompt.
LEMMA KeepReadingKeeps == OnTime /\ TalkOK(talk) /\ KeepReading => TalkOK(talk') /\ OnTime'
<1> SUFFICES ASSUME OnTime, TalkOK(talk), KeepReading PROVE TalkOK(talk') /\ OnTime' OBVIOUS
<1>1. PICK a : a = AllRead OBVIOUS
<1>2. PICK r : r = Waited.reads + 1 OBVIOUS
<1>3. /\ at = "reading" /\ dev.link /\ UNCHANGED <<handler, results, dev>> /\ wire' = <<>> /\ at' = "reading"
      /\ handler.ends # "once"
      /\ \/ handler.bound = "reads" /\ talk' = [Waited EXCEPT !.acc = a, !.reads = r]
         \/ talk' = [talk EXCEPT !.acc = a]
  BY <1>1, <1>2 DEF KeepReading, Read, Turn
<1>4. dev.mode = "cli" BY <1>3, WhileReading
<1>5. TalkTypes(talk) /\ a \in Seq(Token) BY <1>1, PendingTells, AllHeard
<1>6. TalkOK(talk') /\ TalkTypes(talk') /\ talk'.acc = a
  <2>1. CASE handler.bound = "reads" /\ talk' = [Waited EXCEPT !.acc = a, !.reads = r]
    <3>1. TalkOK(Waited) /\ Waited.reads = talk.reads /\ Waited.prompt = talk.prompt /\ Waited.misplaced = talk.misplaced
      BY WaitedTells
    <3>2. PICK w : w = Waited OBVIOUS
    <3>3. /\ TalkOK(talk') /\ talk'.acc = a /\ talk'.reads = r /\ talk'.prompt = w.prompt /\ talk'.misplaced = w.misplaced
      BY <2>1, <3>1, <3>2 DEF TalkOK, Fields
    <3> QED BY <1>2, <1>3, <1>5, <2>1, <3>1, <3>2, <3>3 DEF TalkTypes
  <2>2. CASE talk' = [talk EXCEPT !.acc = a]
    <3>1. /\ TalkOK(talk') /\ talk'.acc = a /\ talk'.reads = talk.reads /\ talk'.prompt = talk.prompt
          /\ talk'.misplaced = talk.misplaced
      BY <2>2 DEF TalkOK, Fields
    <3> QED BY <1>3, <1>5, <3>1 DEF TalkTypes
  <2> QED BY <1>3, <2>1, <2>2
<1> QED BY <1>1, <1>3, <1>4, <1>6, ReadOn

\* A command is typed where nothing of the one before is left.
LEMMA SendCommandKeeps == OnTime /\ TalkOK(talk) /\ SendCommand => TalkOK(talk') /\ OnTime'
<1> SUFFICES ASSUME OnTime, TalkOK(talk), SendCommand PROVE TalkOK(talk') /\ OnTime' OBVIOUS
<1>1. PICK n : n = Len(results) + 1 OBVIOUS
<1>2. /\ at = "ready" /\ dev.link /\ UNCHANGED <<handler, results>> /\ wire' \in {wire, <<>>}
      /\ dev' = Typed(dev, Command(n)) /\ at' = "reading" /\ talk' = [talk EXCEPT !.acc = <<>>, !.reads = 0]
      /\ Len(results) < Commands
  BY <1>1 DEF SendCommand, Read, Send, Turn
<1>3. n \in 1 .. Commands /\ This' = n
  <2>1. Len(results) \in Nat BY AllHeard
  <2> QED BY <1>1, <1>2, <2>1, VendorAssumption DEF This
<1>4. dev.mode = "cli" /\ Pending = <<>> /\ (dev.paged => handler.pager = "total") BY <1>2 DEF OnTime, Place
<1>5. wire = <<>> /\ dev.out = <<>> /\ dev \in Terminal BY <1>4, PendingTells
<1>6. wire' = <<>> BY <1>2, <1>5
<1>7. handler \in Handlers BY DEF OnTime, SessionTypes
<1>8. dev.paged => handler.ends = "once" BY <1>4, <1>7, HandlerFacts
<1>9. PICK q \in 1 .. MaxPages : q = dev.pages[n] BY <1>3, <1>5 DEF Terminal
<1>10. 1 \in 1 .. dev.pages[n] BY <1>9, VendorAssumption
<1>11. PICK e : e = Pages(dev, n, 1) OBVIOUS
<1>12. dev' = e
  <2>1. PICK l : l = Command(n) OBVIOUS
  <2>3. l.what = "command" /\ l.of = n BY <2>1 DEF Command
  <2>2. Typed(dev, l) = Pages(dev, l.of, 1) BY <1>4, <2>3 DEF Typed
  <2> QED BY <1>2, <1>11, <2>1, <2>2, <2>3
<1>13. e \in Terminal /\ Alike(dev, e) BY <1>3, <1>5, <1>10, <1>11, PagesTell
<1>23. PICK t \in Seq(Token) : Shown(dev, e, n, 1, t) BY <1>3, <1>5, <1>10, <1>11, PagesTell
<1>14. /\ e.out = dev.out \o t
       /\ \/ /\ e.mode = "more" /\ e.paged /\ e.showing = [of |-> n, page |-> 1] /\ 1 < dev.pages[n]
             /\ PagesOf(t, n, 1, 1) /\ "more" \in Kinds(t)
          \/ /\ e.mode = "cli" /\ PagesOf(t, n, 1, dev.pages[n])
             /\ \A i \in 1 .. Len(t) : t[i].kind \in Prompts => i = Len(t)
  BY <1>23 DEF Shown
<1>15. Pending' = t
  <2>1. e.out = t BY <1>5, <1>14, ConcatEmptySeq
  <2> QED BY <1>6, <1>12, <1>13, <2>1, PendingNext
<1>16. TalkOK(talk') /\ talk'.acc = <<>> /\ talk'.reads = 0 /\ talk'.prompt = talk.prompt /\ talk'.misplaced = talk.misplaced
  BY <1>2 DEF TalkOK, Fields
<1>17. TalkTypes(talk') BY <1>2, <1>16, PendingTells, TokensOfDevice DEF TalkTypes
<1>18. Said' = t BY <1>15, <1>16, ConcatEmptySeq DEF Said
<1>19. dev'.pages = dev.pages /\ (dev'.paged => dev.paged) BY <1>12, <1>13 DEF Alike
<1>20. AtReading'
  <2>1. CASE e.mode = "more" /\ e.paged /\ e.showing = [of |-> n, page |-> 1] /\ 1 < q /\ PagesOf(t, n, 1, 1) /\ "more" \in Kinds(t)
    <3>1. dev'.mode = "more" /\ dev'.paged /\ dev'.showing.of = n /\ dev'.showing.page = 1 BY <1>12, <2>1
    <3>2. Paging' BY <3>1, <2>1, <1>3, <1>9, <1>15, <1>16, <1>19 DEF Paging
    <3>3. PagesOf(Said, This, 1, IF dev.mode = "more" THEN dev.showing.page ELSE dev.pages[This])'
      BY <2>1, <3>1, <1>3, <1>18 DEF PagesOf
    <3>4. handler'.ends = "once" BY <1>2, <1>8, <1>19, <3>1
    <3> QED BY <1>2, <3>1, <3>2, <3>3, <3>4 DEF AtReading
  <2>2. CASE e.mode = "cli" /\ PagesOf(t, n, 1, q) /\ \A i \in 1 .. Len(t) : t[i].kind \in Prompts => i = Len(t)
    <3>1. dev'.mode = "cli" /\ dev'.pages[This'] = q BY <1>3, <1>9, <1>12, <1>19, <2>2
    <3>2. PagesOf(Said, This, 1, IF dev.mode = "more" THEN dev.showing.page ELSE dev.pages[This])'
      BY <2>2, <3>1, <1>3, <1>18 DEF PagesOf
    <3> QED BY <1>2, <1>18, <2>2, <3>1, <3>2 DEF AtReading
  <2> QED BY <1>9, <1>14, <2>1, <2>2
<1>21. Place' BY <1>2, <1>4, <1>19, <1>20 DEF Place
<1>22. wire' \in Seq(Token) BY <1>6, TokensOfDevice
<1> QED BY <1>2, <1>12, <1>13, <1>16, <1>17, <1>21, <1>22, TurnKeeps

----------------------------------------------------------------------------

\* The whole text of an answer can be the text of a result.
LEMMA WholeTextTells ==
    ASSUME OnTime, NEW n \in 1 .. Commands
    PROVE  WholeText(n) \in Seq(Token)
<1>0. dev.pages \in [1 .. Commands -> 1 .. MaxPages] BY PendingTells DEF Terminal
<1>1. PICK q \in 1 .. MaxPages : q = dev.pages[n] BY <1>0
<1>2. n \in Nat OBVIOUS
<1>3. \A p \in 1 .. q : Page(n, p) \in Token BY <1>2, TokensOfDevice
<1>4. WholeText(n) = [p \in 1 .. q |-> Page(n, p)] BY <1>1 DEF WholeText
<1>5. [p \in 1 .. q |-> Page(n, p)] \in [1 .. q -> Token] BY <1>3
<1> QED BY <1>4, <1>5, SeqDef

\* A handler that returns with all of the answer read returns the whole text of its command.
LEMMA ReturnKeeps ==
    ASSUME OnTime, dev.link, at = "reading", dev.mode = "cli", dev.out = <<>>, NEW t, TalkOK(t), TalkTypes(t),
           Return(t, AllRead, FALSE)
    PROVE  TalkOK(talk') /\ OnTime'
<1>1. PICK z : z = OfKinds(AllRead, {"text"}) OBVIOUS
<1>2. /\ results' = Append(results, [text |-> z, error |-> FALSE]) /\ talk' = [t EXCEPT !.acc = <<>>, !.reads = 0]
      /\ wire' = <<>> /\ at' = "ready" /\ UNCHANGED <<handler, dev>>
  BY <1>1 DEF Return
<1>3. TalkOK(talk') /\ talk'.acc = <<>> /\ talk'.reads = 0 /\ talk'.prompt = t.prompt /\ talk'.misplaced = t.misplaced
  BY <1>2 DEF TalkOK, Fields
<1>4. PICK n \in 1 .. Commands : n = This BY WhileReading
<1>5. PICK q \in Nat : q = dev.pages[n] BY <1>4, WhileReading
<1>6. PICK a \in Seq(Token) : a = AllRead BY AllHeard
<1>7. Said = a BY <1>6, AllHeard, ConcatEmptySeq
<1>8. PagesOf(a, n, 1, q) BY <1>4, <1>5, <1>7, WhileReading DEF AtReading
<1>9. z = WholeText(n)
  <2>1. n \in Nat OBVIOUS
  <2>2. OfKinds(a, {"text"}) = [p \in 1 .. q |-> Page(n, p)] BY <1>8, <2>1, TextInOrder
  <2> QED BY <1>1, <1>5, <1>6, <2>2 DEF WholeText
<1>10. z \in Seq(Token) BY <1>9, WholeTextTells
<1>11. PICK r \in Result : r = [text |-> z, error |-> FALSE] BY <1>10 DEF Result
<1>12. PICK m \in Nat : m = Len(results) /\ n = m + 1 BY <1>4, AllHeard DEF This
<1>13. /\ results' \in Seq(Result) /\ Len(results') = m + 1 /\ results'[m + 1] = r
       /\ \A i \in 1 .. m : results'[i] = results[i]
  BY <1>2, <1>11, <1>12, AllHeard, AppendProperties
<1>14. DOMAIN results = 1 .. m /\ DOMAIN results' = 1 .. m + 1 BY <1>12, <1>13, AllHeard, LenProperties
<1>15. \A i : WholeText(i)' = WholeText(i) BY <1>2 DEF WholeText
<1>16. \A i \in DOMAIN results' : ~results'[i].error => results'[i].text = WholeText(i)'
  <2> SUFFICES ASSUME NEW i \in 1 .. m + 1, ~results'[i].error PROVE results'[i].text = WholeText(i) BY <1>14, <1>15
  <2>1. CASE i = m + 1 BY <2>1, <1>9, <1>11, <1>12, <1>13
  <2>2. CASE i \in 1 .. m BY <2>2, <1>13, <1>14 DEF OnTime
  <2> QED BY <2>1, <2>2, <1>12
<1>17. SessionTypes'
  <2>1. <<>> \in Seq(Token) BY TokensOfDevice
  <2>2. m + 1 <= Commands BY <1>12
  <2>3. dev \in Terminal /\ handler \in Handlers /\ (handler.pager = "none" /\ handler.paging = "never" => ~dev.paged)
    BY DEF OnTime, SessionTypes
  <2>4. talk'.prompt \in Prompts \cup {"nothing"} BY <1>3 DEF TalkTypes
  <2> QED BY <1>2, <1>3, <1>13, <2>1, <2>2, <2>3, <2>4 DEF SessionTypes
<1>18. Place'
  <2>1. Pending' = <<>> BY <1>2, PendingTells, PendingNext
  <2> QED BY <1>2, <2>1, WhileReading DEF Place
<1>19. handler'.login = "dialogue" => ~talk'.misplaced BY <1>2, <1>3 DEF TalkTypes
<1> QED BY <1>3, <1>16, <1>17, <1>18, <1>19 DEF OnTime

\* A prompt in what was read, for the handlers that look for one, is the end of the answer.
LEMMA AtPromptTells ==
    ASSUME OnTime, dev.link, at = "reading", AtPrompt
    PROVE  dev.mode = "cli" /\ dev.out = <<>>
<1>1. handler.ends # "once" BY DEF AtPrompt
<1>2. dev.mode = "cli" BY <1>1, WhileReading
<1>3. PICK a \in Seq(Token) : a = AllRead BY AllHeard
<1>4. PICK o \in Seq(Token) : o = dev.out BY PendingTells
<1>5. PICK k \in Nat : k = Len(a) OBVIOUS
<1>6. PICK l \in Nat : l = Len(o) OBVIOUS
<1>7. PICK s \in Seq(Token) : s = Said BY AllHeard
<1>8. s = a \o o /\ Len(s) = k + l /\ \A i \in 1 .. k + l : s[i] = IF i <= k THEN a[i] ELSE o[i - k]
  BY <1>3, <1>4, <1>5, <1>6, <1>7, AllHeard, ConcatProperties
<1>9. DOMAIN a = 1 .. k BY <1>5, LenProperties
<1>10. \E i \in 1 .. k : a[i].kind \in Prompts
  <2>1. CASE handler.ends = "known" /\ talk.prompt \in Kinds(AllRead)
    <3>1. PICK i \in 1 .. k : a[i].kind = talk.prompt BY <2>1, <1>3, <1>9 DEF Kinds
    <3>2. a[i] \in Token BY <1>3, <1>5, <1>9
    <3>3. "nothing" \notin TokenKinds BY DEF TokenKinds, Prompts
    <3>4. a[i].kind \in TokenKinds BY <3>2 DEF Token
    <3>5. talk.prompt \in Prompts \cup {"nothing"} BY PendingTells DEF TalkTypes
    <3> QED BY <3>1, <3>3, <3>4, <3>5
  <2>2. CASE LastKind(AllRead) \in Prompts
    <3>1. a # <<>> /\ a[k].kind \in Prompts
      <4>1. "nothing" \notin Prompts BY DEF Prompts
      <4> QED BY <2>2, <4>1, <1>3, <1>5 DEF LastKind
    <3>2. k \in 1 .. k BY <3>1, <1>5, EmptySeq
    <3> QED BY <3>1, <3>2
  <2>3. CASE SeesPrompt(AllRead) BY <2>3, <1>3, <1>9 DEF SeesPrompt, Kinds
  <2> QED BY <2>1, <2>2, <2>3 DEF AtPrompt
<1>11. PICK i \in 1 .. k : a[i].kind \in Prompts BY <1>10
<1>12. i \in 1 .. k + l /\ s[i].kind \in Prompts BY <1>8, <1>11
<1>13. i = k + l
  <2>1. AtReading BY WhileReading
  <2>2. \A j \in 1 .. Len(s) : s[j].kind \in Prompts => j = Len(s) BY <1>1, <1>7, <2>1 DEF AtReading
  <2> QED BY <1>8, <1>12, <2>2
<1>14. l = 0 BY <1>13
<1> QED BY <1>2, <1>4, <1>6, <1>14, EmptySeq

\* All the device said has been read and no pager is to be answered, or enough were.
LEMMA AnswerIsOver ==
    ASSUME OnTime, dev.link, at = "reading", dev.out = <<>>, ~More \/ Full \/ Dry
    PROVE  dev.mode = "cli"
<1> SUFFICES ASSUME dev.mode = "more" PROVE FALSE BY WhileReading
<1>1. /\ AtReading /\ This \in 1 .. Commands /\ dev.pages[This] \in 1 .. MaxPages /\ dev.showing.page \in Nat
      /\ handler.pager = "total"
  BY WhileReading
<1>2. Paging BY <1>1 DEF AtReading
<1>3. "more" \in Kinds(wire) BY <1>2, PendingTells DEF Paging
<1>4. More BY <1>1, <1>3, AllHeard DEF More
<1>5. ~Full
  <2>1. handler.bound \in {"reads", "dry"} => talk.reads < dev.showing.page BY <1>2 DEF Paging
  <2>2. dev.showing.page < dev.pages[This] BY <1>2 DEF Paging
  <2>3. talk.reads \in Nat BY PendingTells DEF TalkTypes
  <2>4. MaxPages \in Nat BY VendorAssumption
  <2> QED BY <1>1, <2>1, <2>2, <2>3, <2>4 DEF Full
<1>6. ~Dry BY <1>3, KindsOfNone DEF Dry
<1> QED BY <1>4, <1>5, <1>6

\* The output of a command is returned, in time.
LEMMA ReturnOutputKeeps == OnTime /\ TalkOK(talk) /\ (ReturnOutput \/ Deadline) /\ ~talk'.late => TalkOK(talk') /\ OnTime'
<1> SUFFICES ASSUME OnTime, TalkOK(talk), ReturnOutput \/ Deadline, ~talk'.late PROVE TalkOK(talk') /\ OnTime' OBVIOUS
<1>1. at = "reading" /\ dev.link BY DEF ReturnOutput, Deadline
<1>2. TalkTypes(talk) /\ TalkOK(Waited) /\ TalkTypes(Waited) BY PendingTells, WaitedTells DEF TalkTypes
<1>3. CASE AtPrompt /\ Return(talk, AllRead, FALSE) BY <1>1, <1>2, <1>3, AtPromptTells, ReturnKeeps
<1>4. ASSUME Return(Waited, AllRead, FALSE) PROVE dev.out = <<>>
  <2>1. talk' = [Waited EXCEPT !.acc = <<>>, !.reads = 0] BY <1>4 DEF Return
  <2>2. talk'.late = Waited.late BY <1>2, <2>1 DEF TalkOK, Fields
  <2> QED BY <2>2, InTime
<1>5. CASE (~More \/ Full \/ Dry) /\ Return(Waited, AllRead, FALSE) BY <1>1, <1>2, <1>4, <1>5, AnswerIsOver, ReturnKeeps
<1>6. CASE handler.bound = "deadline" /\ Return(Waited, AllRead, FALSE)
  <2>1. dev.mode = "cli" BY <1>1, <1>6, WhileReading
  <2> QED BY <1>1, <1>2, <1>4, <1>6, <2>1, ReturnKeeps
<1> QED BY <1>3, <1>5, <1>6 DEF ReturnOutput, Deadline

\* A message in place of an output is none.
LEMMA RaiseKeeps == OnTime /\ TalkOK(talk) /\ Raise => TalkOK(talk') /\ OnTime'
<1> SUFFICES ASSUME OnTime, TalkOK(talk), Raise PROVE TalkOK(talk') /\ OnTime' OBVIOUS
<1>1. ~dev.link /\ UNCHANGED <<handler, dev>> BY DEF Raise, Return
<1>2. CASE Len(results) < Commands /\ Return(talk, <<>>, TRUE)
  <2>1. PICK z : z = OfKinds(<<>>, {"text"}) OBVIOUS
  <2>2. /\ results' = Append(results, [text |-> z, error |-> TRUE]) /\ talk' = [talk EXCEPT !.acc = <<>>, !.reads = 0]
        /\ wire' = <<>>
    BY <1>2, <2>1 DEF Return
  <2>3. TalkOK(talk') /\ talk'.acc = <<>> /\ talk'.reads = 0 /\ talk'.prompt = talk.prompt /\ talk'.misplaced = talk.misplaced
    BY <2>2 DEF TalkOK, Fields
  <2>4. z \in Seq(Token)
    <3>1. PICK e \in Seq(Token) : e = <<>> BY TokensOfDevice
    <3>2. PagesOf(e, 0, 1, 0) BY <3>1 DEF PagesOf
    <3>3. OfKinds(e, {"text"}) = [p \in 1 .. 0 |-> Page(0, p)] BY <3>2, TextInOrder
    <3>4. [p \in 1 .. 0 |-> Page(0, p)] \in [1 .. 0 -> Token] OBVIOUS
    <3>5. [1 .. 0 -> Token] \subseteq Seq(Token) BY SeqDef
    <3> QED BY <2>1, <3>1, <3>3, <3>4, <3>5
  <2>5. PICK r \in Result : r = [text |-> z, error |-> TRUE] BY <2>4 DEF Result
  <2>6. PICK m \in Nat : m = Len(results) BY AllHeard
  <2>7. /\ results' \in Seq(Result) /\ Len(results') = m + 1 /\ results'[m + 1] = r
        /\ \A i \in 1 .. m : results'[i] = results[i]
    BY <2>2, <2>5, <2>6, AllHeard, AppendProperties
  <2>8. DOMAIN results = 1 .. m /\ DOMAIN results' = 1 .. m + 1 BY <2>6, <2>7, AllHeard, LenProperties
  <2>9. \A i : WholeText(i)' = WholeText(i) BY <1>1 DEF WholeText
  <2>10. \A i \in DOMAIN results' : ~results'[i].error => results'[i].text = WholeText(i)'
    <3> SUFFICES ASSUME NEW i \in 1 .. m + 1, ~results'[i].error PROVE results'[i].text = WholeText(i) BY <2>8, <2>9
    <3>1. i # m + 1 BY <2>5, <2>7
    <3>2. i \in 1 .. m BY <3>1
    <3> QED BY <3>2, <2>7, <2>8 DEF OnTime
  <2>11. SessionTypes'
    <3>1. m + 1 <= Commands BY <1>2, <2>6, VendorAssumption
    <3>2. /\ dev \in Terminal /\ handler \in Handlers /\ (handler.pager = "none" /\ handler.paging = "never" => ~dev.paged)
          /\ talk.prompt \in Prompts \cup {"nothing"}
      BY DEF OnTime, SessionTypes
    <3> QED BY <1>1, <2>2, <2>3, <2>7, <3>1, <3>2, TokensOfDevice DEF SessionTypes
  <2>12. handler'.login = "dialogue" => ~talk'.misplaced BY <1>1, <2>3 DEF OnTime
  <2> QED BY <1>1, <2>3, <2>10, <2>11, <2>12 DEF OnTime
<1>3. CASE UNCHANGED <<wire, talk, results>>
  <2>1. SessionTypes' BY <1>1, <1>3 DEF OnTime, SessionTypes
  <2>2. \A i : WholeText(i)' = WholeText(i) BY <1>1 DEF WholeText
  <2> QED BY <1>1, <1>3, <2>1, <2>2 DEF OnTime
<1> QED BY <1>2, <1>3 DEF Raise

\* The session is closed.
LEMMA DisconnectKeeps == OnTime /\ TalkOK(talk) /\ Disconnect => TalkOK(talk') /\ OnTime'
<1> SUFFICES ASSUME OnTime, TalkOK(talk), Disconnect PROVE TalkOK(talk') /\ OnTime' OBVIOUS
<1>1. UNCHANGED <<handler, dev, wire, talk, results>> /\ at' = "closed" BY DEF Disconnect, Send, Turn
<1>2. SessionTypes' BY <1>1 DEF OnTime, SessionTypes
<1>3. \A i : WholeText(i)' = WholeText(i) BY <1>1 DEF WholeText
<1>4. Place' BY <1>1 DEF Place
<1> QED BY <1>1, <1>2, <1>3, <1>4 DEF OnTime

\* What is pending and what has been said do not depend on how much of it has arrived.
LEMMA DeliverKeeps == OnTime /\ TalkOK(talk) /\ Deliver => TalkOK(talk') /\ OnTime'
<1> SUFFICES ASSUME OnTime, TalkOK(talk), Deliver PROVE TalkOK(talk') /\ OnTime' OBVIOUS
<1>1. PICK w \in Seq(Token) : w = wire BY PendingTells
<1>2. PICK o \in Seq(Token) : o = dev.out BY PendingTells
<1>3. PICK u : u = Tail(o) OBVIOUS
<1>4. o # <<>> /\ wire' = Append(w, Head(o)) /\ dev' = [dev EXCEPT !.out = u] /\ UNCHANGED <<handler, at, talk, results>>
  BY <1>1, <1>2, <1>3 DEF Deliver
<1>5. Append(w, Head(o)) \o u = w \o o /\ wire' \in Seq(Token) /\ u \in Seq(Token) BY <1>3, <1>4, ArrivalKeeps
<1>6. dev \in Terminal BY PendingTells
<1>7. /\ dev' \in Terminal /\ dev'.out = u /\ dev'.mode = dev.mode /\ dev'.asks = dev.asks /\ dev'.known = dev.known
      /\ dev'.level = dev.level /\ dev'.secret = dev.secret /\ dev'.paged = dev.paged /\ dev'.pages = dev.pages
      /\ dev'.showing = dev.showing /\ dev'.link = dev.link
  BY <1>4, <1>5, <1>6 DEF Terminal
<1>8. Pending' = Pending BY <1>1, <1>2, <1>4, <1>5, <1>7 DEF Pending
<1>9. Said' = Said /\ This' = This BY <1>4, <1>8 DEF Said, This
<1>10. TalkTypes(talk') /\ TalkOK(talk') BY <1>4, PendingTells DEF TalkTypes, TalkOK
<1>11. Alike(dev, dev') BY <1>7 DEF Alike
<1>12. ASSUME dev.link PROVE Place'
  <2>1. Place BY <1>12 DEF OnTime
  <2>2. AtLogin => AtLogin' BY <1>4, <1>7, <1>8 DEF AtLogin, Asking
  <2>3. AtPassword => AtPassword' BY <1>4, <1>7, <1>8 DEF AtPassword
  <2>4. AtAnswer => AtAnswer' BY <1>4, <1>7, <1>8 DEF AtAnswer
  <2>5. AtEnable => AtEnable' BY <1>4, <1>7, <1>8 DEF AtEnable
  <2>6. AtAsked => AtAsked' BY <1>4, <1>7, <1>8 DEF AtAsked
  <2>7. AtRest => AtRest' BY <1>4, <1>7, <1>8 DEF AtRest
  <2>8. Paging => Paging' BY <1>4, <1>7, <1>8, <1>9 DEF Paging
  <2>9. AtReading => AtReading' BY <1>4, <1>7, <1>9, <2>8 DEF AtReading, PagesOf
  <2>10. at' = at /\ handler' = handler /\ dev'.mode = dev.mode /\ dev'.paged = dev.paged /\ (Pending = <<>> => Pending' = <<>>)
    BY <1>4, <1>7, <1>8
  <2>11. at' = "login" => AtLogin' BY <2>1, <2>2, <2>10 DEF Place
  <2>12. at' = "login password" => AtPassword' BY <2>1, <2>3, <2>10 DEF Place
  <2>13. at' = "login shown" => AtRest' /\ handler'.login = "inside" BY <2>1, <2>7, <2>10 DEF Place
  <2>14. at' = "login password?" => AtAnswer' BY <2>1, <2>4, <2>10 DEF Place
  <2>15. at' = "login end" => AtRest' /\ handler'.login = "answers" BY <2>1, <2>7, <2>10 DEF Place
  <2>16. at' = "enable" => AtEnable' BY <2>1, <2>5, <2>10 DEF Place
  <2>17. at' \in {"look", "press", "entered", "paging", "paging seen"} => AtRest' BY <2>1, <2>7, <2>10 DEF Place
  <2>18. at' = "asked" => AtAsked' BY <2>1, <2>6, <2>10 DEF Place
  <2>19. at' = "ready" => dev'.mode = "cli" /\ Pending' = <<>> BY <2>1, <2>10 DEF Place
  <2>20. at' = "reading" => AtReading' BY <2>1, <2>9, <2>10 DEF Place
  <2>21. at' \in {"paging seen", "ready", "reading"} /\ dev'.paged => handler'.pager = "total" BY <2>1, <2>10 DEF Place
  <2> QED BY <2>11, <2>12, <2>13, <2>14, <2>15, <2>16, <2>17, <2>18, <2>19, <2>20, <2>21 DEF Place
<1>13. CASE dev.link BY <1>4, <1>5, <1>7, <1>10, <1>11, <1>12, <1>13, TurnKeeps
<1>14. CASE ~dev.link
  <2>1. SessionTypes' BY <1>4, <1>5, <1>7 DEF OnTime, SessionTypes
  <2>2. \A i : WholeText(i)' = WholeText(i) BY <1>7 DEF WholeText
  <2> QED BY <1>4, <1>7, <1>10, <1>14, <2>1, <2>2 DEF OnTime
<1> QED BY <1>13, <1>14

\* The connection breaks.
LEMMA LoseLinkKeeps == OnTime /\ TalkOK(talk) /\ LoseLink => TalkOK(talk') /\ OnTime'
<1> SUFFICES ASSUME OnTime, TalkOK(talk), LoseLink PROVE TalkOK(talk') /\ OnTime' OBVIOUS
<1>1. dev' = [dev EXCEPT !.link = FALSE, !.out = <<>>] /\ UNCHANGED <<handler, at, wire, talk, results>> BY DEF LoseLink
<1>2. dev \in Terminal BY PendingTells
<1>3. dev' \in Terminal /\ ~dev'.link /\ dev'.pages = dev.pages /\ dev'.paged = dev.paged
  BY <1>1, <1>2, TokensOfDevice DEF Terminal
<1>4. SessionTypes' BY <1>1, <1>3 DEF OnTime, SessionTypes
<1>5. \A i : WholeText(i)' = WholeText(i) BY <1>3 DEF WholeText
<1> QED BY <1>1, <1>3, <1>4, <1>5 DEF OnTime

----------------------------------------------------------------------------

\* A session that was too early once is not on time any more.
LEMMA LateStays == TalkOK(talk) /\ VendorNext => TalkOK(talk') /\ (talk.late => talk'.late)
<1> SUFFICES ASSUME TalkOK(talk), VendorNext PROVE TalkOK(talk') /\ (talk.late => talk'.late) OBVIOUS
<1>w. TalkOK(Waited) /\ (talk.late => Waited.late) BY WaitedTells
<1>1. CASE Deliver BY <1>1 DEF Deliver
<1>2. CASE LoseLink BY <1>2 DEF LoseLink
<1>n. ASSUME NEW t, TalkOK(t), talk' = [t EXCEPT !.nudged = TRUE], talk.late => t.late
      PROVE  TalkOK(talk') /\ (talk.late => talk'.late)
  BY <1>n, NudgedTells DEF SameReading
<1>u. ASSUME NEW t, TalkOK(t), talk' = User(t) \/ talk' = Password(t), talk.late => t.late
      PROVE  TalkOK(talk') /\ (talk.late => talk'.late)
  <2>1. CASE talk' = User(t) BY <1>u, <2>1, UserTells DEF SameReading
  <2>2. CASE talk' = Password(t) BY <1>u, <2>2, PasswordTells DEF SameReading
  <2> QED BY <1>u, <2>1, <2>2
<1>k. ASSUME NEW t, TalkOK(t), NEW p, talk' = Knows(t, p), talk.late => t.late
      PROVE  TalkOK(talk') /\ (talk.late => talk'.late)
  BY <1>k, KnowsTells DEF SameReading
<1>3. CASE TelnetLogin
  <2>1. talk' \in {talk, Waited, User(talk), Password(talk), [Waited EXCEPT !.nudged = TRUE]}
    BY <1>3 DEF TelnetLogin, Read, Turn
  <2> QED BY <2>1, <1>w, <1>n, <1>u
<1>4. CASE ShellPrompt
  <2>1. talk' \in {Knows(talk, LastPrompt(wire)), Waited, [Waited EXCEPT !.nudged = TRUE]}
    BY <1>4 DEF ShellPrompt, Read, Turn
  <2> QED BY <2>1, <1>w, <1>n, <1>k
<1>5. CASE CiscoLogin
  <2>1. talk' \in {Password(talk), Password(Waited), User(Waited)} BY <1>5 DEF CiscoLogin, Read, Turn
  <2> QED BY <2>1, <1>w, <1>u
<1>6. CASE VForceLogin
  <2>1. talk' \in {Password(Waited), Waited} BY <1>6 DEF VForceLogin, Read, Turn
  <2> QED BY <2>1, <1>w, <1>u
<1>7. CASE AxgateLogin
  <2>1. PICK a : a = talk.acc \o wire OBVIOUS
  <2>2. PICK h : h = [Waited EXCEPT !.acc = a] OBVIOUS
  <2>3. TalkOK(h) /\ h.late = Waited.late BY <1>w, <2>2, HeardTells
  <2>4. talk' \in {h, User(h), Password(h), [h EXCEPT !.nudged = TRUE]}
    BY <1>7, <2>1, <2>2 DEF AxgateLogin, Read, Turn
  <2> QED BY <2>3, <2>4, <1>w, <1>n, <1>u
<1>8. CASE StartEnable
  <2>1. talk' = talk BY <1>8 DEF StartEnable, Send, Turn
  <2> QED BY <2>1
<1>9. CASE LookAtPrompt
  <2>1. \E p : talk' = Knows(Waited, p) BY <1>9 DEF LookAtPrompt, Read, Turn
  <2> QED BY <2>1, <1>w, <1>k
<1>10. CASE EnablePassword
  <2>1. talk' \in {talk, Waited, Knows(Waited, "#")} BY <1>10 DEF EnablePassword, Read, Send, Turn
  <2> QED BY <2>1, <1>w, <1>k
<1>11. CASE PressReturn BY <1>11 DEF PressReturn, Read, Turn
<1>12. CASE Entered
  <2>1. talk' \in {Waited, Knows(Waited, LastPrompt(wire))} BY <1>12 DEF Entered, Read, Turn
  <2> QED BY <2>1, <1>w, <1>k
<1>13. CASE PagingOff \/ PagingSeen \/ Disconnect
  <2>1. talk' \in {talk, Waited} BY <1>13 DEF PagingOff, PagingSeen, Disconnect, Read, Send, Turn
  <2> QED BY <2>1, <1>w
<1>r. ASSUME NEW t, TalkOK(t), NEW a, NEW r, talk' = [t EXCEPT !.acc = a, !.reads = r], talk.late => t.late
      PROVE  TalkOK(talk') /\ (talk.late => talk'.late)
  BY <1>r DEF TalkOK, Fields
<1>14. CASE SendCommand
  <2>1. talk' = [talk EXCEPT !.acc = <<>>, !.reads = 0] BY <1>14 DEF SendCommand, Read, Send, Turn
  <2> QED BY <2>1, <1>r
<1>15. CASE AnswerPager
  <2>1. PICK r : r = IF handler.bound = "deadline" THEN talk.reads ELSE Counted OBVIOUS
  <2>2. talk' = [talk EXCEPT !.acc = AllRead, !.reads = r] BY <1>15, <2>1 DEF AnswerPager, Read, Turn
  <2> QED BY <2>2, <1>r
<1>16. CASE KeepReading
  <2>1. PICK r : r = Waited.reads + 1 OBVIOUS
  <2>2. talk' = [Waited EXCEPT !.acc = AllRead, !.reads = r] \/ talk' = [talk EXCEPT !.acc = AllRead]
    BY <1>16, <2>1 DEF KeepReading, Read, Turn
  <2>3. CASE talk' = [talk EXCEPT !.acc = AllRead] BY <2>3, HeardTells
  <2> QED BY <2>2, <2>3, <1>r, <1>w
<1>17. CASE ReturnOutput \/ Deadline \/ Raise
  <2>1. talk' = talk \/ \E t \in {talk, Waited} : talk' = [t EXCEPT !.acc = <<>>, !.reads = 0]
    BY <1>17 DEF ReturnOutput, Deadline, Raise, Return
  <2> QED BY <2>1, <1>r, <1>w
<1> QED BY <1>1, <1>2, <1>3, <1>4, <1>5, <1>6, <1>7, <1>8, <1>9, <1>10, <1>11, <1>12, <1>13, <1>14, <1>15, <1>16, <1>17
        DEF VendorNext, Login, Enable, RunCommands

\* A session begins so.
LEMMA SessionBegins == VendorInit => VendorInv
<1> SUFFICES ASSUME VendorInit PROVE VendorInv OBVIOUS
<1>1. handler \in Handlers /\ at = "login" /\ wire = <<>> /\ results = <<>> BY DEF VendorInit
<1>2. talk = [user |-> FALSE, password |-> FALSE, nudged |-> FALSE, misplaced |-> FALSE, late |-> FALSE,
              prompt |-> "nothing", acc |-> <<>>, reads |-> 0]
  BY DEF VendorInit
<1>3. DOMAIN talk = Fields /\ ~talk.late /\ talk.late \in BOOLEAN BY <1>2 DEF Fields
<1>4. PICK asks \in {"user?", "pass?", "cli"} :
         /\ handler.login \in {"prompt", "nudge"} => asks = "cli"
         /\ handler.login = "asked" => asks # "cli"
         /\ handler.login = "inside" => asks = "pass?"
         /\ \E level \in Prompts, secret \in {"none", "right", "wrong"}, pages \in [1 .. Commands -> 1 .. MaxPages],
               paged \in (IF handler.pager = "none" /\ handler.paging = "never" THEN {FALSE} ELSE BOOLEAN) :
              dev = [mode |-> asks, asks |-> asks, known |-> asks = "pass?", level |-> level, secret |-> secret,
                     paged |-> paged, pages |-> pages, showing |-> [of |-> 0, page |-> 0],
                     out |-> <<Says(IF asks = "cli" THEN level ELSE asks)>>, link |-> TRUE]
  <2>1. PICK asks \in (CASE handler.login \in {"dialogue", "answers"} -> {"user?", "pass?", "cli"}
                         [] handler.login = "asked" -> {"user?", "pass?"}
                         [] handler.login = "inside" -> {"pass?"}
                         [] OTHER -> {"cli"}) :
              \E level \in Prompts, secret \in {"none", "right", "wrong"}, pages \in [1 .. Commands -> 1 .. MaxPages],
               paged \in (IF handler.pager = "none" /\ handler.paging = "never" THEN {FALSE} ELSE BOOLEAN) :
              dev = [mode |-> asks, asks |-> asks, known |-> asks = "pass?", level |-> level, secret |-> secret,
                     paged |-> paged, pages |-> pages, showing |-> [of |-> 0, page |-> 0],
                     out |-> <<Says(IF asks = "cli" THEN level ELSE asks)>>, link |-> TRUE]
    BY Zenon DEF VendorInit
  <2>2. handler.login \in {"dialogue", "prompt", "nudge", "asked", "inside", "answers"} BY <1>1, HandlerFacts
  <2>3. handler.login \in {"dialogue", "answers"} => asks \in {"user?", "pass?", "cli"}
    BY <2>1, Zenon
  <2>4. handler.login = "asked" => asks \in {"user?", "pass?"}
    <3>1. handler.login = "asked" => handler.login \notin {"dialogue", "answers"} OBVIOUS
    <3>2. handler.login = "asked" => handler.login # "inside" OBVIOUS
    <3> QED BY <2>1, <3>1, <3>2, Zenon
  <2>5. handler.login = "inside" => asks \in {"pass?"}
    <3>1. handler.login = "inside" => handler.login \notin {"dialogue", "answers"} /\ handler.login # "asked" OBVIOUS
    <3> QED BY <2>1, <3>1, Zenon
  <2>6. handler.login \in {"prompt", "nudge"} => asks \in {"cli"}
    <3>1. handler.login \in {"prompt", "nudge"} =>
            handler.login \notin {"dialogue", "answers"} /\ handler.login # "asked" /\ handler.login # "inside"
      OBVIOUS
    <3> QED BY <2>1, <3>1, Zenon
  <2>7. asks \in {"user?", "pass?", "cli"} BY <2>2, <2>3, <2>4, <2>5, <2>6
  <2>8. /\ handler.login \in {"prompt", "nudge"} => asks = "cli"
        /\ handler.login = "asked" => asks # "cli"
        /\ handler.login = "inside" => asks = "pass?"
    BY <2>4, <2>5, <2>6
  <2> QED BY <2>1, <2>7, <2>8
<1>5. PICK level \in Prompts, secret \in {"none", "right", "wrong"}, pages \in [1 .. Commands -> 1 .. MaxPages],
           paged \in (IF handler.pager = "none" /\ handler.paging = "never" THEN {FALSE} ELSE BOOLEAN) :
         dev = [mode |-> asks, asks |-> asks, known |-> asks = "pass?", level |-> level, secret |-> secret,
                paged |-> paged, pages |-> pages, showing |-> [of |-> 0, page |-> 0],
                out |-> <<Says(IF asks = "cli" THEN level ELSE asks)>>, link |-> TRUE]
  BY <1>4
<1>6. PICK k \in TokenKinds : k = IF asks = "cli" THEN level ELSE asks BY DEF TokenKinds
<1>7. PICK o \in Seq(Token) : o = <<Says(k)>> BY TokensOfDevice
<1>8. PICK told \in BOOLEAN : told = (asks = "pass?") OBVIOUS
<1>9. paged \in BOOLEAN OBVIOUS
<1>10. dev = [mode |-> asks, asks |-> asks, known |-> told, level |-> level, secret |-> secret,
              paged |-> paged, pages |-> pages, showing |-> [of |-> 0, page |-> 0], out |-> o, link |-> TRUE]
  BY <1>5, <1>6, <1>7, <1>8
<1>11. /\ dev \in Terminal /\ dev.mode = asks /\ dev.out = o /\ dev.known = told /\ dev.level = level /\ dev.paged = paged
  BY <1>9, <1>10 DEF Terminal
<1>12. SessionTypes
  <2>1. results \in Seq(Result) /\ Len(results) <= Commands BY <1>1, VendorAssumption
  <2>2. handler.pager = "none" /\ handler.paging = "never" => ~dev.paged BY <1>5, <1>11
  <2>3. talk.acc = <<>> /\ talk.reads = 0 /\ talk.prompt = "nothing" BY <1>2
  <2> QED BY <1>1, <1>11, <2>1, <2>2, <2>3, TokensOfDevice DEF SessionTypes
<1>13. Pending = o BY <1>1, <1>11, ConcatEmptySeq DEF Pending
<1>14. Asking = k BY <1>6, <1>11 DEF Asking
<1>15. AtLogin BY <1>2, <1>4, <1>7, <1>8, <1>11, <1>13, <1>14 DEF AtLogin
<1>16. Place BY <1>1, <1>15 DEF Place
<1>17. \A n \in DOMAIN results : ~results[n].error => results[n].text = WholeText(n) BY <1>1
<1>18. ~talk.misplaced BY <1>2
<1> QED BY <1>3, <1>12, <1>16, <1>17, <1>18 DEF VendorInv, OnTime

\* What no step of a session breaks, whatever the handler.
LEMMA SessionGoesOn == VendorInv /\ [VendorNext]_vendorVars => VendorInv'
<1> SUFFICES ASSUME VendorInv, [VendorNext]_vendorVars PROVE VendorInv' OBVIOUS
<1>1. TalkOK(talk) BY DEF VendorInv, TalkOK
<1>2. CASE UNCHANGED vendorVars
  <2>1. SessionTypes => SessionTypes' BY <1>2 DEF SessionTypes, vendorVars
  <2>2. Pending' = Pending /\ Said' = Said /\ This' = This BY <1>2 DEF Pending, Said, This, vendorVars
  <2>3. Paging => Paging' BY <1>2, <2>2 DEF Paging, vendorVars
  <2>4. AtReading => AtReading' BY <1>2, <2>2, <2>3 DEF AtReading, PagesOf, vendorVars
  <2>5. AtLogin => AtLogin' BY <1>2, <2>2 DEF AtLogin, Asking, vendorVars
  <2>6. /\ AtPassword => AtPassword'
        /\ AtEnable => AtEnable'
        /\ AtAsked => AtAsked'
        /\ AtRest => AtRest'
    BY <1>2, <2>2 DEF AtPassword, AtEnable, AtAsked, AtRest, vendorVars
  <2>7. AtAnswer => AtAnswer' BY <1>2, <2>2 DEF AtAnswer, vendorVars
  <2>8. Place => Place' BY <1>2, <2>2, <2>4, <2>5, <2>6, <2>7 DEF Place, vendorVars
  <2>9. \A i : WholeText(i)' = WholeText(i) BY <1>2 DEF WholeText, vendorVars
  <2>10. OnTime => OnTime' BY <1>2, <2>1, <2>8, <2>9 DEF OnTime, vendorVars
  <2> QED BY <1>2, <2>10 DEF VendorInv, vendorVars
<1>3. CASE VendorNext
  <2>1. TalkOK(talk') /\ (talk.late => talk'.late) BY <1>1, <1>3, LateStays
  <2>2. CASE talk'.late BY <2>1, <2>2 DEF VendorInv, TalkOK
  <2>3. CASE ~talk'.late
    <3>1. OnTime BY <2>1, <2>3 DEF VendorInv
    <3>2. ASSUME Login PROVE OnTime'
      BY <1>1, <2>3, <3>1, <3>2, TelnetLoginKeeps, ShellPromptKeeps, CiscoLoginKeeps, VForceLoginKeeps, AxgateLoginKeeps
      DEF Login
    <3>3. ASSUME Enable PROVE OnTime'
      BY <1>1, <2>3, <3>1, <3>3, StartEnableKeeps, LookAtPromptKeeps, EnablePasswordKeeps, PressReturnKeeps, EnteredKeeps,
         PagingOffKeeps, PagingSeenKeeps
      DEF Enable
    <3>4. ASSUME RunCommands \/ Deadline PROVE OnTime'
      BY <1>1, <2>3, <3>1, <3>4, SendCommandKeeps, AnswerPagerKeeps, KeepReadingKeeps, ReturnOutputKeeps, RaiseKeeps,
         DisconnectKeeps
      DEF RunCommands
    <3>5. ASSUME Deliver \/ LoseLink PROVE OnTime' BY <1>1, <3>1, <3>5, DeliverKeeps, LoseLinkKeeps
    <3>6. OnTime' BY <1>3, <3>2, <3>3, <3>4, <3>5 DEF VendorNext
    <3> QED BY <2>1, <3>6 DEF VendorInv, TalkOK
  <2> QED BY <2>2, <2>3
<1> QED BY <1>2, <1>3

\* What no step breaks is more than exactness.
LEMMA SessionIsExact == VendorInv => OnTimeSessionIsExact
BY DEF VendorInv, OnTime, OnTimeSessionIsExact

\* Any handler at any device: as long as no wait has ended too early, each result is the
\* whole text of its own command, and a login by dialogue types a user name and a password
\* only where they are asked for (inspector_runtime/vendors).
THEOREM SessionAlwaysExact == VendorInit /\ [][VendorNext]_vendorVars => []OnTimeSessionIsExact
<1> QED BY SessionBegins, SessionGoesOn, SessionIsExact, PTL

----------------------------------------------------------------------------
(* Side by side.                                                           *)

\* The SSH part, whether or not this instance moves it.
SshPart == IF part = "ssh" THEN SshInv ELSE NoSsh

LEMMA SshPartStep == SshPart /\ [Next]_allVars => SshPart'
<1> SUFFICES ASSUME SshPart, [Next]_allVars PROVE SshPart' OBVIOUS
<1>1. part' = part /\ (UNCHANGED sshVars \/ (part = "ssh" /\ SshNext))
  BY DEF Next, allVars
<1>2. CASE part = "ssh" BY <1>1, <1>2, SshStep DEF SshPart
<1>3. CASE part # "ssh" BY <1>1, <1>3 DEF SshPart, NoSsh, sshVars
<1> QED BY <1>2, <1>3

\* The session of a handler, whether or not this instance moves it.
VendorPart == IF part = "vendor" THEN VendorInv ELSE NoVendor

LEMMA VendorPartStep == VendorPart /\ [Next]_allVars => VendorPart'
<1> SUFFICES ASSUME VendorPart, [Next]_allVars PROVE VendorPart' OBVIOUS
<1>1. part' = part /\ (UNCHANGED vendorVars \/ (part = "vendor" /\ VendorNext))
  BY DEF Next, allVars
<1>2. CASE part = "vendor" BY <1>1, <1>2, SessionGoesOn DEF VendorPart
<1>3. CASE part # "vendor" BY <1>1, <1>3 DEF VendorPart, NoVendor, vendorVars
<1> QED BY <1>2, <1>3

\* What surrounds a session, side by side: the choice of the SSH client stays safe, the
\* dialog keeps what it shows and a handler on time returns what the device answered
\* (legacy_ssh.py, inspector_profile_dialog.py, inspector_runtime/vendors).
THEOREM SurroundingsAlwaysRight == Spec => [](HelpersAreSafe /\ SavedProfileIsTheShownOne /\ OnTimeSessionIsExact)
<1>1. Init => SshPart /\ DialogInit BY SshStart DEF Init, SshPart
<1>6. Init => VendorPart BY SessionBegins DEF Init, VendorPart
<1>7. NoVendor => OnTimeSessionIsExact BY DEF NoVendor, OnTimeSessionIsExact
<1>8. VendorPart => OnTimeSessionIsExact BY <1>7, SessionIsExact DEF VendorPart
<1>2. [Next]_allVars => [DialogNext]_dialogVars BY DEF Next, allVars
<1>3. SshInv => HelpersAreSafe
  BY DEF SshInv, SessionOK, InTurn, Contained, HelpersAreSafe, AnswersAreInTurn, HelpersAreContained
<1>4. NoSsh => HelpersAreSafe
  BY DEF NoSsh, HelpersAreSafe, AnswersAreInTurn, HelpersAreContained, NoHelper
<1>5. SshPart => HelpersAreSafe BY <1>3, <1>4 DEF SshPart
<1> QED BY <1>1, <1>2, <1>5, <1>6, <1>8, SshPartStep, VendorPartStep, SavedAlwaysTheShownOne, PTL DEF Spec
=============================================================================
