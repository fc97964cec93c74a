-------------------------- MODULE MCDeviceSession ---------------------------
(* What a run of the inspector is given, and a session that carries it out  *)
(* over one connection, on small instances.  They share no state, so one    *)
(* behaviour moves one of them and the run is the union.                    *)
EXTENDS DeviceSession, RunInputs, ProfileRules

CONSTANTS d1, d2    \* d1 is served by a handler, d2 by Netmiko

CONSTANT Parts    \* the parts this instance moves

VARIABLE part

partVars == <<part, vars, prepVars, ruleVars>>

Line(a, v, f) == [ip |-> a, vendor |-> v, filled |-> f]

\* lists of other programs: one device, two of which one lacks a value, a device
\* of a kind that has no profile, the same address twice
OtherLists ==
    {<<Line(1, "known", TRUE)>>, <<Line(2, "known", FALSE), Line(1, "known", TRUE)>>,
     <<Line(2, "new", TRUE)>>, <<Line(1, "known", TRUE), Line(1, "known", TRUE)>>}

----------------------------------------------------------------------------
(* Profiles: one that is shipped; what is saved over it, or for a kind of    *)
(* the user, and for a model; and what another program leaves in the file.   *)
Column(cols) == [kind |-> IF Len(cols) = 1 THEN "one" ELSE "group", cols |-> cols, more |-> {}]
Usage(free, used) == [kind |-> "usage", cols |-> <<free, used>>, more |-> {}]
Code(cols, more) == [kind |-> "code", cols |-> cols, more |-> more]

ShippedProfile ==
    [cmds |-> <<"ver", "cpu">>, backup |-> "run", conn |-> <<>>, handler |-> [paging |-> "off"],
     rules |-> [ver |-> <<Column(<<"os">>), Column(<<"model", "serial">>)>>, cpu |-> <<Column(<<"free">>), Usage("free", "load")>>]]

\* a rule that replaces the shipped one, and a command of its own that code parses
LogProfile ==
    [cmds |-> <<"ver", "log">>, backup |-> "", conn |-> <<>>, handler |-> <<>>,
     rules |-> [ver |-> <<Column(<<"serial">>)>>, log |-> <<Code(<<"note">>, {"note", "extra"})>>]]

CpuProfile ==
    [cmds |-> <<"cpu">>, backup |-> "all", conn |-> [ssh |-> "other"], handler |-> [width |-> "wide"],
     rules |-> [cpu |-> <<Column(<<"load">>)>>]]

BareProfile == [cmds |-> <<"ver">>, backup |-> "", conn |-> <<>>, handler |-> <<>>, rules |-> <<>>]

SavedProfiles == {LogProfile, BareProfile}
SavedForModels == {CpuProfile, LogProfile}

Nobody == [q \in Pairs |-> NoProfile]

OtherPrograms ==
    {Unreadable, Readable([Nobody EXCEPT !["own"] = LogProfile], [Nobody EXCEPT !["shipped"] = CpuProfile])}

NothingLeftOut == [q \in Pairs |-> [cmds |-> {}, cols |-> {}]]

SomeSetups ==
    {[out |-> NothingLeftOut, alias |-> [serial |-> "sn"], order |-> <<"sn", "os">>,
      orders |-> [q \in Pairs |-> <<>>]],
     [out |-> [NothingLeftOut EXCEPT !["shipped"] = [cmds |-> {"log"}, cols |-> {<<"ver", "os">>, <<"cpu", "free">>}],
                                     !["own"] = [cmds |-> {}, cols |-> {<<"log", "note">>, <<"ver", "serial">>}]],
      alias |-> [note |-> "remark"], order |-> <<"load">>,
      orders |-> [shipped |-> <<"serial", "load">>, own |-> <<"note">>]]}

Of(q, m) == [pair |-> q, model |-> m]
SomeInventories == {<<Of("shipped", FALSE)>>, <<Of("own", FALSE), Of("shipped", TRUE)>>, <<Of("own", TRUE)>>}

----------------------------------------------------------------------------
MCInit ==
    /\ Init /\ InputsInit /\ RulesInit
    /\ part \in Parts
    \* the parts that stand still start in one state
    /\ part = "inputs" \/ script = "plain"
    /\ part = "rules" \/ (rulesFile = NoRules /\ setup.order = <<"load">> /\ offers = "none")

OthersThanSession == part = "session" /\ UNCHANGED <<part, prepVars, ruleVars>>

Session ==
    \/ (Cancel \/ Terminated) /\ OthersThanSession
    \/ \E d \in Devices :
         \/ (Start(d) \/ Begin(d) \/ Probe(d) \/ Attempt(d) \/ Connect(d)) /\ OthersThanSession
         \/ Enable(d) /\ OthersThanSession
         \/ InspectNext(d) /\ OthersThanSession
         \/ InspectCommand(d) /\ OthersThanSession
         \/ InspectDone(d) /\ OthersThanSession
         \/ CustomNext(d) /\ OthersThanSession
         \/ CustomCommand(d) /\ OthersThanSession
         \/ StoreOutputs(d) /\ OthersThanSession
         \/ BackupNext(d) /\ OthersThanSession
         \/ BackupCommand(d) /\ OthersThanSession
         \/ (Close(d) \/ Cooldown(d) \/ Backoff(d) \/ OuterExcept(d) \/ Finish(d)) /\ OthersThanSession

\* the editor is looked at on a page whose other choices stand still, and they
\* with the editor closed
OnlyTheEditor ==
    /\ task'.st = "idle" /\ prep'.account = 0 /\ prep'.received = {} /\ prep'.source = "inline"
    /\ ~prep'.ok /\ ~prep'.first /\ prep'.missing = ""

Given ==
    /\ InputsNext
    /\ \/ part = "inputs" /\ ~editor'.open
       \/ part = "editor" /\ OnlyTheEditor
    /\ UNCHANGED <<part, vars, ruleVars>>

Rules == part = "rules" /\ RulesNext /\ UNCHANGED <<part, vars, prepVars>>

MCNext == Session \/ Given \/ Rules

MCSpec == MCInit /\ [][MCNext]_partVars

----------------------------------------------------------------------------
(* A run is given what was checked and confirmed, and does to each device    *)
(* what its profile says (inspector_tab.py, service.py, inspector.py).       *)
RunIsGivenWhatIsRight == RunInputsAreRight /\ ProfilesAreRight
=============================================================================
