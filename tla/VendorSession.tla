--------------------------- MODULE VendorSession ---------------------------
(***************************************************************************)
(* What a vendor handler does with the terminal of a device: it logs in,   *)
(* enters the privileged mode, switches paging off and runs the commands   *)
(* of the profile one after the other (inspector_runtime/vendors).         *)
(*                                                                         *)
(* No handler knows when a device has said all it has to say.  Each waits  *)
(* for a fixed time or until it sees what it takes for a prompt, and takes *)
(* what has arrived by then.  The handlers differ in how they do it, and   *)
(* the record of a handler states the difference:                          *)
(*   login    how it gets past the questions of the device                 *)
(*   enable   how it gets into the privileged mode                         *)
(*   paging   when it switches paging off: always, never, or when it has   *)
(*            seen the privileged prompt                                   *)
(*   drains   it discards what has arrived before it sends a command       *)
(*   pager    where it looks for the pager: in what it just read ("chunk"),*)
(*            in all it has read ("total"), or nowhere                     *)
(*   ends     it reads once, or until it sees the prompt: the one it knows,*)
(*            one at the end, or any                                       *)
(*   bound    what ends its reading all the same: a number of reads (and,  *)
(*            if "dry", a space that brings nothing), a deadline, or       *)
(*            nothing but the size of the text                             *)
(*   hides    an exception of a command becomes the text of its result     *)
(*                                                                         *)
(* External: the device.  It reacts to a line at once, and what it says    *)
(* takes any time to arrive.                                               *)
(***************************************************************************)
EXTENDS Naturals, Sequences, FiniteSets

CONSTANTS Handlers,         \* the handlers of the instance, records as below
          Commands,         \* how many commands the profile has
          MaxPages          \* how many pages a handler goes through (50)

ASSUME VendorAssumption == Commands \in Nat \ {0} /\ MaxPages \in Nat \ {0}

VARIABLES handler,          \* the handler of this session
          at,               \* where it stands
          dev,              \* the device
          wire,             \* what has arrived and is not yet read
          talk,             \* what the handler knows
          results           \* what it returned for each command so far

vendorVars == <<handler, at, dev, wire, talk, results>>

Shell == [login |-> "prompt", enable |-> "looks", paging |-> "always", drains |-> TRUE,
          pager |-> "chunk", ends |-> "once", bound |-> "reads", hides |-> FALSE]

Generic == [Shell EXCEPT !.login = "nudge", !.enable = "remembers", !.ends = "last", !.bound = "deadline"]
DayouSSH == [Shell EXCEPT !.ends = "known"]
HandreamnetSSH == Shell
RuckusSSH == Shell
PiolinkSSH == [Shell EXCEPT !.pager = "none", !.ends = "known", !.bound = "deadline"]
AlcatelSSH == [Shell EXCEPT !.enable = "none", !.paging = "never", !.drains = FALSE, !.pager = "none", !.hides = TRUE]
AxgateSSH == [Shell EXCEPT !.login = "answers", !.enable = "none", !.paging = "never", !.pager = "none",
                           !.ends = "any", !.bound = "deadline"]
AxgateTelnet == [Shell EXCEPT !.login = "dialogue", !.enable = "none", !.paging = "never", !.drains = FALSE,
                              !.pager = "none"]
VForceSSH == [Shell EXCEPT !.login = "inside", !.paging = "never", !.pager = "total", !.hides = TRUE]
VForceTelnet == [Shell EXCEPT !.login = "dialogue", !.paging = "never", !.drains = FALSE, !.pager = "total"]
UbiquossSSH == [Shell EXCEPT !.login = "nudge", !.enable = "known", !.paging = "privileged", !.pager = "total",
                             !.bound = "dry"]
UbiquossTelnet == [Shell EXCEPT !.login = "dialogue", !.enable = "blind", !.drains = FALSE, !.pager = "none"]
CiscoLegacyTelnet == [Shell EXCEPT !.login = "asked", !.enable = "insists", !.paging = "privileged", !.drains = FALSE,
                                   !.pager = "total", !.bound = "none", !.hides = TRUE]

ASSUME HandlersAssumption ==
    Handlers \subseteq {Generic, DayouSSH, HandreamnetSSH, RuckusSSH, PiolinkSSH, AlcatelSSH, AxgateSSH, AxgateTelnet,
                        VForceSSH, VForceTelnet, UbiquossSSH, UbiquossTelnet, CiscoLegacyTelnet}

-----------------------------------------------------------------------------
(* The device *)

Says(kind) == [kind |-> kind, of |-> 0, page |-> 0]
Page(n, p) == [kind |-> "text", of |-> n, page |-> p]
Prompts == {">", "#"}
Line(what) == [what |-> what, of |-> 0]
Command(n) == [what |-> "command", of |-> n]

Say(d, tokens) == [d EXCEPT !.out = @ \o tokens]
AtCli(d) == Say([d EXCEPT !.mode = "cli"], <<Says(d.level)>>)

(* From page p on: up to the pager when the device pages, else to the end. *)
Pages(d, n, p) ==
    IF d.paged /\ p < d.pages[n]
    THEN Say([d EXCEPT !.mode = "more", !.showing = [of |-> n, page |-> p]], <<Page(n, p), Says("more")>>)
    ELSE AtCli(Say(d, [i \in 1 .. d.pages[n] + 1 - p |-> Page(n, p + i - 1)]))

Typed(d, line) ==
    CASE d.mode = "user?" -> Say([d EXCEPT !.mode = "pass?", !.known = line.what = "user"], <<Says("pass?")>>)
      [] d.mode = "pass?" ->
           IF d.known /\ line.what = "password" THEN AtCli(d)
           ELSE Say([d EXCEPT !.mode = d.asks], <<Says(d.asks)>>)
      [] d.mode = "enable?" ->
           AtCli([d EXCEPT !.level = IF line.what = "secret" /\ d.secret = "right" THEN "#" ELSE @])
      [] d.mode = "more" ->
           IF line.what = "space" THEN Pages(d, d.showing.of, d.showing.page + 1) ELSE AtCli(d)
      [] d.mode = "cli" ->
           CASE line.what = "command" -> Pages(d, line.of, 1)
             [] line.what = "space" -> d
             [] line.what = "enable" /\ d.level = ">" ->
                  IF d.secret = "none" THEN AtCli([d EXCEPT !.level = "#"])
                  ELSE Say([d EXCEPT !.mode = "enable?"], <<Says("pass?")>>)
             [] line.what = "paging off" -> AtCli([d EXCEPT !.paged = FALSE])
             [] OTHER -> AtCli(d)

Kinds(tokens) == {tokens[i].kind : i \in DOMAIN tokens}
SeesPrompt(tokens) == Kinds(tokens) \cap Prompts # {}
LastKind(tokens) == IF tokens = <<>> THEN "nothing" ELSE tokens[Len(tokens)].kind

(* What tokens has at the positions P, in their order. *)
Chosen(tokens, P) ==
    LET Nth(k) == CHOOSE i \in P : Cardinality({j \in P : j <= i}) = k
    IN [k \in 1 .. Cardinality(P) |-> tokens[Nth(k)]]
OfKinds(tokens, kinds) == Chosen(tokens, {i \in DOMAIN tokens : tokens[i].kind \in kinds})
LastPrompt(tokens) == LastKind(OfKinds(tokens, Prompts))

-----------------------------------------------------------------------------
(* talk: which credentials were typed, whether one was typed while the     *)
(* device did not ask for it, whether some wait ended with part of the     *)
(* answer still on its way, the prompt the handler knows, and what it has  *)
(* read so far.                                                            *)

Ended == {"closed", "failed"}

VendorInit ==
    /\ handler \in Handlers
    /\ at = "login"
    /\ \E asks \in (CASE handler.login \in {"dialogue", "answers"} -> {"user?", "pass?", "cli"}
                      [] handler.login = "asked" -> {"user?", "pass?"}
                      [] handler.login = "inside" -> {"pass?"}
                      [] OTHER -> {"cli"}),
          level \in Prompts, secret \in {"none", "right", "wrong"}, pages \in [1 .. Commands -> 1 .. MaxPages],
          paged \in (IF handler.pager = "none" /\ handler.paging = "never" THEN {FALSE} ELSE BOOLEAN) :
         dev = [mode |-> asks, asks |-> asks, known |-> asks = "pass?", level |-> level, secret |-> secret,
                paged |-> paged, pages |-> pages, showing |-> [of |-> 0, page |-> 0],
                out |-> <<Says(IF asks = "cli" THEN level ELSE asks)>>, link |-> TRUE]
    /\ wire = <<>>
    /\ talk = [user |-> FALSE, password |-> FALSE, nudged |-> FALSE, misplaced |-> FALSE, late |-> FALSE,
               prompt |-> "nothing", acc |-> <<>>, reads |-> 0]
    /\ results = <<>>

(* What the device said arrives, piece by piece. *)
Deliver ==
    /\ dev.out # <<>> /\ at \notin Ended
    /\ wire' = Append(wire, Head(dev.out))
    /\ dev' = [dev EXCEPT !.out = Tail(@)]
    /\ UNCHANGED <<handler, at, talk, results>>

(* The connection breaks. *)
LoseLink ==
    /\ dev.link /\ at \notin Ended
    /\ dev' = [dev EXCEPT !.link = FALSE, !.out = <<>>]
    /\ UNCHANGED <<handler, at, wire, talk, results>>

(* The handler types something or nothing, without reading, or after it    *)
(* read what arrived: d is the device then, t what the handler knows and   *)
(* next where it goes on.                                                  *)
Turn(d, t, next) ==
    /\ dev.link
    /\ dev' = d
    /\ talk' = t
    /\ at' = next
    /\ UNCHANGED <<handler, results>>
Send(d, t, next) == Turn(d, t, next) /\ UNCHANGED wire
Read(d, t, next) == Turn(d, t, next) /\ wire' = <<>>
Types(what) == Typed(dev, Line(what))
Enter(d) == Typed(d, Line("enter"))

Waited == [talk EXCEPT !.late = @ \/ dev.out # <<>>]       \* a wait is over
User(t) == [t EXCEPT !.user = TRUE, !.misplaced = @ \/ dev.mode # "user?"]
Password(t) == [t EXCEPT !.password = TRUE, !.misplaced = @ \/ dev.mode # "pass?"]
Knows(t, p) == [t EXCEPT !.prompt = p]

-----------------------------------------------------------------------------
(* Getting in *)

(* telnet_login: answer what the device asks, each question once, and press*)
(* the return key once when nothing comes.                                 *)
TelnetLogin ==
    LET seen == LastKind(wire) IN
    /\ at = "login" /\ handler.login = "dialogue"
    /\ \/ seen \in Prompts /\ Read(dev, talk, "enable")
       \/ seen = "user?" /\ ~talk.user /\ Read(Types("user"), User(talk), "login")
       \/ seen = "pass?" /\ ~talk.password /\ Read(Types("password"), Password(talk), "login")
       \/ seen = "user?" /\ talk.user /\ Read(dev, talk, "failed")
       \/ seen = "pass?" /\ talk.password /\ Read(dev, talk, "failed")
       \/ seen = "nothing" /\ ~talk.nudged /\ Read(Types("enter"), [Waited EXCEPT !.nudged = TRUE], "login")
       \/ seen = "nothing" /\ talk.nudged /\ Read(dev, Waited, "failed")

(* The SSH login is over: the shell shows its prompt in time, at once or,  *)
(* for some handlers, after the return key.                                *)
ShellPrompt ==
    /\ at = "login" /\ handler.login \in {"prompt", "nudge"}
    /\ \/ SeesPrompt(wire) /\ Read(dev, Knows(talk, LastPrompt(wire)), "enable")
       \/ /\ ~SeesPrompt(wire) /\ handler.login = "nudge" /\ ~talk.nudged
          /\ Read(Types("enter"), [Waited EXCEPT !.nudged = TRUE], "login")
       \/ ~SeesPrompt(wire) /\ (handler.login = "prompt" \/ talk.nudged) /\ Read(dev, Waited, "failed")

(* The old Cisco login: a user name unless the device asks for a password  *)
(* first, then a password, and on with it whatever comes.                  *)
CiscoLogin ==
    \/ /\ at = "login" /\ handler.login = "asked"
       /\ IF "pass?" \in Kinds(wire) THEN Read(Types("password"), Password(talk), "enable")
          ELSE Read(Types("user"), User(Waited), "login password")
    \/ /\ at = "login password"
       /\ Read(Types("password"), Password(IF "pass?" \in Kinds(wire) THEN talk ELSE Waited), "enable")

(* VForce asks for its password inside the shell; it is typed in any case. *)
VForceLogin ==
    \/ at = "login" /\ handler.login = "inside" /\ Read(Types("password"), Password(Waited), "login shown")
    \/ at = "login shown" /\ Read(dev, Waited, "enable")

(* Axgate answers what the shell has asked so far and then wants a prompt  *)
(* at the end of all it has read.                                          *)
AxgateLogin ==
    LET acc == talk.acc \o wire
        heard == [Waited EXCEPT !.acc = acc]
    IN
    \/ /\ at = "login" /\ handler.login = "answers"
       /\ IF "user?" \in Kinds(acc) THEN Read(Types("user"), User(heard), "login password?")
          ELSE Read(dev, heard, "login password?")
    \/ /\ at = "login password?"
       /\ IF "pass?" \in Kinds(acc)
          THEN Read(Enter(Enter(Enter(Types("password")))), Password(heard), "login end")
          ELSE Read(dev, heard, "login end")
    \/ /\ at = "login end"
       /\ Read(dev, [heard EXCEPT !.nudged = TRUE],
               IF LastKind(acc) \in Prompts THEN "enable" ELSE IF talk.nudged THEN "failed" ELSE "login end")

Login == TelnetLogin \/ ShellPrompt \/ CiscoLogin \/ VForceLogin \/ AxgateLogin

-----------------------------------------------------------------------------
(* The privileged mode and the pager *)

(* Where it goes on once it is in the mode it gets. *)
After(prompt) ==
    CASE handler.paging = "always" -> "paging"
      [] handler.paging = "privileged" /\ prompt = "#" -> "paging"
      [] OTHER -> "ready"

StartEnable ==
    /\ at = "enable"
    /\ CASE handler.enable = "none" -> Send(dev, talk, "ready")
         [] handler.enable = "known" ->
              IF talk.prompt = ">" THEN Send(Types("enable"), talk, "asked") ELSE Send(dev, talk, After(talk.prompt))
         [] handler.enable = "blind" -> Send(Types("enable"), talk, "asked")
         [] OTHER -> Send(Types("enter"), talk, "look")

(* What the prompt says after the return key. The old Cisco handler is     *)
(* content with a "#": paging stays on then.                               *)
LookAtPrompt ==
    LET seen == LastPrompt(wire)
        prompt == IF handler.enable = "remembers" /\ seen = "nothing" THEN talk.prompt ELSE seen
        asksForMore == prompt = ">" \/ (handler.enable = "insists" /\ prompt # "#")
        t == Knows(Waited, prompt)
    IN /\ at = "look"
       /\ \/ asksForMore /\ Read(Types("enable"), t, "asked")
          \/ ~asksForMore /\ Read(dev, t, IF handler.enable = "insists" THEN "ready" ELSE After(prompt))

(* enable was typed: the password if the device has asked for it by now,   *)
(* or without looking.                                                     *)
EnablePassword ==
    LET asks == "pass?" \in Kinds(wire) IN
    /\ at = "asked"
    /\ \/ handler.enable = "blind" /\ Read(Types("secret"), IF asks THEN talk ELSE Waited, "paging")
       \/ handler.enable = "blind" /\ dev.secret = "none" /\ Send(dev, talk, "paging")  \* the inventory has none either
       \/ handler.enable = "known" /\ asks /\ Read(Types("secret"), talk, "press")
       \/ handler.enable = "known" /\ ~asks /\ Read(dev, Waited, "ready")
       \/ handler.enable \notin {"blind", "known"} /\ asks /\ Read(Types("secret"), talk, "entered")
       \/ handler.enable = "insists" /\ ~asks /\ Read(dev, Waited, "entered")
       \/ /\ handler.enable \notin {"blind", "known", "insists"} /\ ~asks
          /\ Read(dev, IF LastPrompt(wire) = "#" THEN Knows(Waited, "#") ELSE Waited, After("#"))

PressReturn == at = "press" /\ Read(Types("enter"), talk, "entered")

Entered ==
    /\ at = "entered"
    /\ LET seen == LastPrompt(wire) IN
       Read(dev, IF seen = "#" \/ (handler.enable = "remembers" /\ seen # "nothing") THEN Knows(Waited, seen) ELSE Waited,
            IF handler.enable \in {"known", "insists"} THEN After(seen) ELSE After("#"))

PagingOff == at = "paging" /\ Send(Types("paging off"), talk, "paging seen")
PagingSeen == at = "paging seen" /\ Read(dev, Waited, "ready")

Enable == StartEnable \/ LookAtPrompt \/ EnablePassword \/ PressReturn \/ Entered \/ PagingOff \/ PagingSeen

-----------------------------------------------------------------------------
(* The commands *)

SendCommand ==
    /\ at = "ready" /\ Len(results) < Commands
    /\ LET t == [talk EXCEPT !.acc = <<>>, !.reads = 0]
           d == Typed(dev, Command(Len(results) + 1))
       IN IF handler.drains THEN Read(d, t, "reading") ELSE Send(d, t, "reading")

(* The mutant: what was read before is forgotten. *)
OnlyChunk == wire

(* full_output: everything read since the command. *)
AllRead == talk.acc \o wire

More ==
    \/ handler.pager = "chunk" /\ "more" \in Kinds(wire)
    \/ handler.pager = "total" /\ "more" \in Kinds(AllRead)
Full == handler.bound \in {"reads", "dry"} /\ talk.reads >= MaxPages
Dry == handler.bound = "dry" /\ talk.reads > 0 /\ wire = <<>>
AtPrompt ==
    \/ handler.ends = "known" /\ talk.prompt \in Kinds(AllRead)
    \/ handler.ends = "last" /\ LastKind(AllRead) \in Prompts
    \/ handler.ends = "any" /\ SeesPrompt(AllRead)

(* The mutant: the reads after a pager are not counted. *)
CountedNever == talk.reads

Counted == IF handler.bound = "none" THEN 1 - talk.reads ELSE talk.reads + 1

AnswerPager ==
    /\ at = "reading" /\ More /\ ~Full /\ ~Dry
    /\ Read(Types("space"), [talk EXCEPT !.acc = AllRead, !.reads = IF handler.bound = "deadline" THEN @ ELSE Counted], "reading")

KeepReading ==
    /\ at = "reading" /\ ~More /\ ~Full /\ handler.ends # "once" /\ ~AtPrompt
    /\ \/ handler.bound = "reads" /\ Read(dev, [Waited EXCEPT !.acc = AllRead, !.reads = @ + 1], "reading")
       \/ handler.bound # "reads" /\ Read(dev, [talk EXCEPT !.acc = AllRead], "reading")

Return(t, tokens, error) ==
    /\ results' = Append(results, [text |-> OfKinds(tokens, {"text"}), error |-> error])
    /\ talk' = [t EXCEPT !.acc = <<>>, !.reads = 0]
    /\ wire' = <<>>
    /\ at' = "ready"
    /\ UNCHANGED <<handler, dev>>

ReturnOutput ==
    /\ at = "reading" /\ dev.link
    /\ \/ ~More /\ AtPrompt /\ Return(talk, AllRead, FALSE)
       \/ ((~More /\ handler.ends = "once") \/ Full \/ Dry) /\ Return(Waited, AllRead, FALSE)

Deadline == at = "reading" /\ dev.link /\ handler.bound = "deadline" /\ Return(Waited, AllRead, FALSE)

(* Reading or writing a broken connection raises: some handlers return the *)
(* message as the result of the command.                                   *)
Raise ==
    /\ ~dev.link /\ at \notin Ended
    /\ IF handler.hides /\ at \in {"ready", "reading"} /\ Len(results) < Commands THEN Return(talk, <<>>, TRUE)
       ELSE /\ at' = IF handler.hides /\ at \in {"enable", "look", "asked", "entered", "paging", "paging seen"} THEN "ready"
                     ELSE IF at = "ready" /\ Len(results) = Commands THEN "closed" ELSE "failed"
            /\ UNCHANGED <<handler, dev, wire, talk, results>>

Disconnect == at = "ready" /\ Len(results) = Commands /\ Send(dev, talk, "closed")

RunCommands == SendCommand \/ AnswerPager \/ KeepReading \/ ReturnOutput \/ Raise \/ Disconnect
VendorNext == Deliver \/ LoseLink \/ Login \/ Enable \/ RunCommands \/ Deadline

VendorFairness == WF_vendorVars(Deliver) /\ WF_vendorVars(Login \/ Enable \/ RunCommands) /\ WF_vendorVars(Deadline)

-----------------------------------------------------------------------------
(* A session in which no wait ended too early is exact: every result is    *)
(* the whole text of its own command and of no other, however the device   *)
(* pages and whichever mode the handler got into; and a login by dialogue  *)
(* typed the user name and the password only where they were asked for.    *)
WholeText(n) == [p \in 1 .. dev.pages[n] |-> Page(n, p)]
OnTimeSessionIsExact ==
    ~talk.late =>
        /\ \A n \in DOMAIN results : ~results[n].error => results[n].text = WholeText(n)
        /\ handler.login = "dialogue" => ~talk.misplaced

=============================================================================
