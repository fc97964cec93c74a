---------------------------- MODULE SshFallback ----------------------------
(***************************************************************************)
(* How an SSH login chooses between the program's own Paramiko and the     *)
(* helper process that runs the pinned old one (core/ssh_compat.py,        *)
(* core/legacy_ssh.py, core/legacy_ssh_worker.py).                         *)
(*                                                                         *)
(* The sessions run in the threads of one batch and in the profile trial;  *)
(* they share the set of endpoints known to need the helper.  A helper     *)
(* belongs to one session.  Requests go down a pipe, answers come back     *)
(* through a reader thread and a queue; the session waits for an answer    *)
(* for a limited time and gives the helper up when it does not come.       *)
(*                                                                         *)
(* External: the device behind an endpoint (which algorithms it offers,    *)
(* which host key it shows, whether it answers) and the end of a process.  *)
(***************************************************************************)
EXTENDS Naturals, Sequences, FiniteSets

CONSTANTS Sessions,         \* the threads that log in
          Endpoints,        \* pairs of an address and a port
          MaxCalls,         \* requests a session makes after the login
          MaxTries,         \* logins of one device (max_retries)
          MaxChanges,       \* how often a device changes its software
          Swallowing        \* sessions whose driver ignores errors of a read

ASSUME SshAssumption == MaxCalls \in Nat /\ MaxTries \in Nat \ {0} /\ MaxChanges \in Nat /\ Swallowing \subseteq Sessions

VARIABLES known,            \* _LEGACY_ENDPOINTS
          peer,             \* the device behind each endpoint
          session,          \* the client of each session
          helper,           \* the helper process of each session
          answers,          \* the queue its reader fills
          changes           \* bound on changes of the devices

sshVars == <<known, peer, session, helper, answers, changes>>

Settings == {"TRUE", "FALSE", ""}           \* the column legacy_ssh
NoHelper == [alive |-> FALSE, request |-> 0]
EndOfAnswers == 0

(* asked: the number of the last request; got: of the last answer taken;   *)
(* used: it has started a helper.                                          *)
SshInit ==
    /\ known = {}
    /\ peer \in [Endpoints -> [old : BOOLEAN, key : BOOLEAN]]
    /\ \E ep \in [Sessions -> Endpoints], setting \in [Sessions -> Settings], pinned \in [Sessions -> BOOLEAN] :
         session = [s \in Sessions |->
           [ep |-> ep[s], setting |-> setting[s], pinned |-> pinned[s], at |-> "new", path |-> "none",
            held |-> FALSE, asked |-> 0, got |-> 0, tries |-> 0, calls |-> 0, used |-> FALSE]]
    /\ helper = [s \in Sessions |-> NoHelper]
    /\ answers = [s \in Sessions |-> <<>>]
    /\ changes = 0

Explicit(s) == session[s].setting = "TRUE"                   \* validate_legacy_device
Allowed(s) == session[s].setting # "FALSE"                   \* automatic_legacy_allowed
Known(s) == session[s].ep \in known                          \* known_legacy_endpoint
PeerOf(s) == peer[session[s].ep]
TrustedKey(s) == session[s].pinned => PeerOf(s).key

Go(s, r) == session' = [session EXCEPT ![s] = r]

(* legacy_worker_command and Popen.                                        *)
StartHelper(s, path) ==
    /\ UNCHANGED known
    /\ helper' = [helper EXCEPT ![s] = [alive |-> TRUE, request |-> 0]]
    /\ answers' = [answers EXCEPT ![s] = <<>>]
    /\ Go(s, [session[s] EXCEPT !.at = "idle", !.path = path, !.held = TRUE, !.used = TRUE, !.asked = 0, !.got = 0])

(* The end of a failed attempt: again, unless the failure is one of        *)
(* compatibility, and not for ever.                                        *)
Failed(r, final) ==
    [r EXCEPT !.at = IF final \/ r.tries + 1 >= MaxTries THEN "failed" ELSE "new", !.tries = @ + 1,
              !.path = "none"]

(* Without the runtime of the helper the login ends; an endpoint that was  *)
(* taken for old is forgotten then too.                                    *)
NoRuntime(s, path) ==
    /\ Go(s, Failed(session[s], TRUE))
    /\ known' = IF path = "known" THEN known \ {session[s].ep} ELSE known
    /\ UNCHANGED <<helper, answers>>

UseHelper(s, path) == StartHelper(s, path) \/ NoRuntime(s, path)

(* An attempt of _connect_to_device: the setting of the row decides, and if*)
(* it is silent, what is known of the endpoint.                            *)
Connect(s) ==
    /\ session[s].at = "new"
    /\ \/ Explicit(s) /\ UseHelper(s, "explicit")
       \/ ~Explicit(s) /\ Allowed(s) /\ Known(s) /\ UseHelper(s, "known")
       \/ /\ ~Explicit(s) /\ ~(Allowed(s) /\ Known(s))
          /\ Go(s, [session[s] EXCEPT !.at = "native", !.path = "native"])
          /\ UNCHANGED <<known, helper, answers>>
    /\ UNCHANGED <<peer, changes>>

NativeOpens(s) ==
    /\ ~PeerOf(s).old /\ TrustedKey(s)
    /\ Go(s, [session[s] EXCEPT !.at = "talk"])
    /\ UNCHANGED <<known, helper, answers>>

(* OptionalHostKeyPolicy: another key than the pinned one, before the      *)
(* password is sent.                                                       *)
NativeRefusesKey(s) ==
    /\ ~PeerOf(s).old /\ ~TrustedKey(s)
    /\ Go(s, Failed(session[s], TRUE))
    /\ UNCHANGED <<known, helper, answers>>

(* No common algorithm: over to the helper, once, if the device allows it. *)
NativeSwitches(s) ==
    /\ PeerOf(s).old /\ Allowed(s)
    /\ UseHelper(s, "switched")

(* Not allowed, or incompatible for another reason than the algorithms.    *)
NativeIncompatible(s) ==
    /\ PeerOf(s).old
    /\ Go(s, Failed(session[s], TRUE))
    /\ UNCHANGED <<known, helper, answers>>

(* No answer, or a wrong password: an error like any other.                *)
NativeError(s) ==
    /\ Go(s, Failed(session[s], FALSE))
    /\ UNCHANGED <<known, helper, answers>>

NativeConnect(s) ==
    /\ session[s].at = "native"
    /\ NativeOpens(s) \/ NativeRefusesKey(s) \/ NativeSwitches(s) \/ NativeIncompatible(s) \/ NativeError(s)
    /\ UNCHANGED <<peer, changes>>

-----------------------------------------------------------------------------
(* The helper *)

(* _call: write the request and wait.                                      *)
Call(s) ==
    /\ session[s].at = "idle" \/ (session[s].at = "talk" /\ session[s].held /\ session[s].calls < MaxCalls)
    /\ helper[s].alive
    /\ helper' = [helper EXCEPT ![s].request = session[s].asked + 1]
    /\ Go(s, [session[s] EXCEPT !.at = IF @ = "idle" THEN "login" ELSE "waiting", !.asked = @ + 1,
                                !.calls = IF session[s].at = "talk" THEN @ + 1 ELSE @])
    /\ UNCHANGED <<known, peer, answers, changes>>

(* A session whose helper was closed has nothing to write to: an error like*)
(* any other, in a handler that did not notice (held is FALSE).            *)
CallAfterClose(s) ==
    /\ session[s].at = "talk" /\ session[s].path # "native" /\ ~session[s].held
    /\ Go(s, Failed(session[s], FALSE))
    /\ UNCHANGED <<known, peer, helper, answers, changes>>

Put(s, answer) == answers' = [answers EXCEPT ![s] = Append(@, answer)]

(* serve: the first request is the login, which checks the key before it   *)
(* sends the password.                                                     *)
HelperAnswers(s) ==
    /\ helper[s].alive /\ helper[s].request > 0
    /\ helper[s].request = 1 => TrustedKey(s)
    /\ Put(s, helper[s].request)
    /\ helper' = [helper EXCEPT ![s].request = 0]
    /\ UNCHANGED <<known, peer, session, changes>>

(* An error is answered and ends it, as does the end of its input; it may  *)
(* also just die.  The reader puts the end of the answers into the queue.  *)
HelperEnds(s) ==
    /\ helper[s].alive
    /\ helper' = [helper EXCEPT ![s] = NoHelper]
    /\ Put(s, EndOfAnswers)
    /\ UNCHANGED <<known, peer, session, changes>>

Remembered(r) == IF r.path = "switched" /\ r.at = "login" THEN known \cup {r.ep} ELSE known
Forgotten(r) == IF r.path = "known" /\ r.at = "login" THEN known \ {r.ep} ELSE known

(* close, then LegacySSHError: the input of the helper is closed and after *)
(* two seconds it is killed; an endpoint that was taken for old is         *)
(* forgotten when the login fails; there is no other attempt.  A handler   *)
(* that swallows the errors of its reads does not see this one.            *)
GiveUp(s) ==
    LET r == [session[s] EXCEPT !.held = FALSE] IN
    /\ helper' = [helper EXCEPT ![s] = NoHelper]
    /\ known' = Forgotten(r)
    /\ IF s \in Swallowing /\ r.at = "waiting" THEN Go(s, [r EXCEPT !.at = "talk"]) ELSE Go(s, Failed(r, TRUE))
    /\ UNCHANGED <<peer, answers, changes>>

TakeAnswer(s) ==
    /\ session[s].at \in {"login", "waiting"} /\ answers[s] # <<>> /\ Head(answers[s]) # EndOfAnswers
    /\ Go(s, [session[s] EXCEPT !.got = Head(answers[s]), !.at = "talk"])
    /\ answers' = [answers EXCEPT ![s] = Tail(@)]
    /\ known' = Remembered(session[s])
    /\ UNCHANGED <<peer, helper, changes>>

HelperGone(s) ==
    /\ session[s].at \in {"login", "waiting"} /\ answers[s] # <<>> /\ Head(answers[s]) = EndOfAnswers
    /\ GiveUp(s)

(* The mutant: the helper is kept although its answer did not come.        *)
TimeOutKeepsHelper(s) ==
    /\ session[s].at = "waiting" /\ answers[s] = <<>>
    /\ Go(s, [session[s] EXCEPT !.at = "talk"])
    /\ UNCHANGED <<known, peer, helper, answers, changes>>

(* No answer within the timeout of the operation and five seconds.         *)
TimeOut(s) ==
    /\ session[s].at \in {"login", "waiting"} /\ answers[s] = <<>>
    /\ GiveUp(s)

(* The pipe of a helper that is gone cannot be written to.                 *)
WriteFails(s) ==
    /\ session[s].at \in {"idle", "talk"} /\ session[s].held /\ ~helper[s].alive
    /\ GiveUp(s)

(* The end of the session: the channel and the client are closed.          *)
CloseHelper(s) ==
    /\ session[s].at = "talk"
    /\ Go(s, [session[s] EXCEPT !.at = "closed", !.held = FALSE])
    /\ helper' = [helper EXCEPT ![s] = NoHelper]
    /\ UNCHANGED <<known, peer, answers, changes>>

Session(s) ==
    \/ Connect(s) \/ NativeConnect(s) \/ Call(s) \/ CallAfterClose(s) \/ TakeAnswer(s) \/ HelperGone(s)
    \/ TimeOut(s) \/ WriteFails(s) \/ CloseHelper(s)

-----------------------------------------------------------------------------
(* The profile trial reads the algorithm lists of a device and remembers   *)
(* that it is an old one.                                                  *)
ProbeRemembers(ep) ==
    /\ peer[ep].old /\ known' = known \cup {ep}
    /\ UNCHANGED <<peer, session, helper, answers, changes>>

ChangePeer(ep) ==
    /\ changes < MaxChanges /\ changes' = changes + 1
    /\ \E old, key \in BOOLEAN : peer' = [peer EXCEPT ![ep] = [old |-> old, key |-> key]]
    /\ UNCHANGED <<known, session, helper, answers>>

SshNext ==
    \/ \E s \in Sessions : Session(s) \/ HelperAnswers(s) \/ HelperEnds(s)
    \/ \E ep \in Endpoints : ProbeRemembers(ep) \/ ChangePeer(ep)

SshSpec == SshInit /\ [][SshNext]_sshVars

-----------------------------------------------------------------------------
(* A session only ever acts on the answer to the request it made last: one *)
(* that comes after its time is never taken for the answer to the next     *)
(* request (legacy_ssh.py, _call).                                         *)
AnswersAreInTurn == \A s \in Sessions : session[s].at = "talk" /\ session[s].held => session[s].got = session[s].asked

(* No helper process outlives its session, however the session ended, and  *)
(* none is ever started for a device whose row says FALSE, whatever the    *)
(* other threads have learned about its endpoint (ssh_compat.py, connect). *)
HelpersAreContained ==
    \A s \in Sessions :
        /\ helper[s].alive => session[s].held
        /\ session[s].used => session[s].setting # "FALSE"

(* What the helpers are asked and what they answer stays within a session. *)
HelpersAreSafe == AnswersAreInTurn /\ HelpersAreContained
=============================================================================
