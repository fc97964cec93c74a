---------------------------- MODULE NetworkPage ----------------------------
(* The page that changes the addresses of this computer                      *)
(* (app/ui/tabs/interface_tab.py) and the service that asks Windows to       *)
(* (app/services/network_interface_service.py): reading the adapters, the    *)
(* confirmation box, under which events of workers are still handled, the    *)
(* change by netsh with a PowerShell script to fall back on, and the refresh *)
(* after it.  Saved profiles enter as what they are to be applied with.      *)
EXTENDS Naturals, Sequences, FiniteSets

CONSTANTS
    NumAdapters,   \* adapters, in the order of their names
    Plans,         \* settings a user may type, or a profile hold
    Dhcp,          \* DHCP
    Unset,         \* no address, no gateway, no server
    MaxNicJobs,    \* bound: workers started
    MaxPlugs       \* bound: adapters plugged in or out

ASSUME NicAssumption ==
    /\ NumAdapters \in Nat \ {0} /\ {MaxNicJobs, MaxPlugs} \subseteq Nat
    /\ Dhcp # Unset /\ {Dhcp, Unset} \cap Plans = {}

VARIABLES
    nics,      \* Windows: plugged adapters, settings, count of changes
    nicTab,    \* the page: adapters shown, selection, form, flags
    nicBox,    \* the open confirmation
    nicJobs    \* the workers, in the order they were started

nicVars == <<nics, nicTab, nicBox, nicJobs>>

Adapters == 1 .. NumAdapters
NoAdapter == 0

\* the settings of an adapter: [address, first DNS server, further servers]; the gateway
\* goes with the address, and the script passes over a route it cannot make
All(p) == [address |-> p, dns |-> p, more |-> p]
Settings == {All(p) : p \in Plans \cup {Dhcp}}
NoBox == [open |-> FALSE]
NoRows == [a \in {} |-> All(Dhcp)]

NicInit ==
    /\ nics = [plugged |-> Adapters, set |-> [a \in Adapters |-> All(Dhcp)], changes |-> 0, plugs |-> 0]
    /\ \E pending \in {NoAdapter} \cup Adapters :
         nicTab = [rows |-> NoRows, at |-> 0, chosen |-> NoAdapter,
                   loading |-> FALSE, changing |-> FALSE, pending |-> pending]
    /\ nicBox = NoBox
    /\ nicJobs = <<>>

----------------------------------------------------------------------------
(* Workers. Each posts its result, or its error, and then its end.           *)
NicJob == DOMAIN nicJobs
NewJob == [kind |-> "list", st |-> "read", prefer |-> NoAdapter, rows |-> NoRows, at |-> 0,
           nic |-> NoAdapter, target |-> All(Dhcp), ok |-> TRUE]

Step(j, record) == nicJobs' = [nicJobs EXCEPT ![j] = record]
Goto(j, st) == Step(j, [nicJobs[j] EXCEPT !.st = st])

\* what the refresh would start, and the page that waits for it
ListJob == [NewJob EXCEPT !.prefer = nicTab.chosen]
Alive == {j \in NicJob : nicJobs[j].st # "over"}

(* refresh_adapters: start_initial_refresh and the button.                   *)
RefreshAdapters ==
    /\ ~nicTab.loading /\ ~nicBox.open /\ Len(nicJobs) < MaxNicJobs
    /\ nicJobs' = Append(nicJobs, ListJob)
    /\ nicTab' = [nicTab EXCEPT !.loading = TRUE]
    /\ UNCHANGED <<nics, nicBox>>

(* list_adapters: one script, or an error.                                   *)
ListAdapters(j) ==
    /\ nicJobs[j].kind = "list" /\ nicJobs[j].st = "read"
    /\ \/ Step(j, [nicJobs[j] EXCEPT !.st = "result", !.at = nics.changes,
                                     !.rows = [a \in nics.plugged |-> nics.set[a]]])
       \/ Goto(j, "error")
    /\ UNCHANGED <<nics, nicTab, nicBox>>

----------------------------------------------------------------------------
(* The page.                                                                 *)
First(rows) == CHOOSE a \in DOMAIN rows : \A b \in DOMAIN rows : a <= b

(* _populate_adapter_table: the adapter that was selected when the refresh   *)
(* began, or the first one, is selected; that of an earlier session once.    *)
Populate(rows, at, prefer) ==
    LET kept == IF prefer \in DOMAIN rows THEN prefer
                ELSE IF rows = NoRows THEN NoAdapter ELSE First(rows)
        chosen == IF nicTab.pending \in DOMAIN rows THEN nicTab.pending ELSE kept IN
    nicTab' = [nicTab EXCEPT !.rows = rows, !.at = at, !.chosen = chosen,
                             !.pending = IF rows = NoRows THEN @ ELSE NoAdapter]

ShowAdapters(j) ==
    /\ nicJobs[j].kind = "list" /\ nicJobs[j].st = "result"
    /\ Populate(nicJobs[j].rows, nicJobs[j].at, nicJobs[j].prefer)
    /\ Goto(j, "finished")
    /\ UNCHANGED <<nics, nicBox>>

(* _load_selected_adapter_into_form; the table is disabled while it loads.   *)
ChooseAdapter(a) ==
    /\ ~nicBox.open /\ ~nicTab.loading /\ a \in DOMAIN nicTab.rows
    /\ nicTab' = [nicTab EXCEPT !.chosen = a]
    /\ UNCHANGED <<nics, nicBox, nicJobs>>

(* apply_current_settings, apply_selected_profile, _confirm_apply: the form  *)
(* and a profile may hold anything, and what is asked is kept from before    *)
(* the box. Without the rights of an administrator nothing is asked.         *)
AskToApply(a, f) ==
    /\ ~nicBox.open /\ ~nicTab.changing
    /\ nicBox' = [open |-> TRUE, nic |-> a, target |-> f]
    /\ UNCHANGED <<nics, nicTab, nicJobs>>

\* a profile without a selected adapter goes to the one it names
Apply(f) ==
    \/ nicTab.chosen # NoAdapter /\ AskToApply(nicTab.chosen, f)
    \/ nicTab.chosen = NoAdapter /\ \E a \in Adapters : AskToApply(a, f)

Decline == nicBox.open /\ nicBox' = NoBox /\ UNCHANGED <<nics, nicTab, nicJobs>>

StartChange(a, f) ==
    /\ Len(nicJobs) < MaxNicJobs /\ ~nicTab.changing
    /\ nicJobs' = Append(nicJobs, [NewJob EXCEPT !.kind = "change", !.st = "address", !.nic = a, !.target = f])
    /\ nicTab' = [nicTab EXCEPT !.changing = TRUE]
    /\ nicBox' = NoBox
    /\ UNCHANGED nics

ConfirmAsShownNow ==    \* MUTANT: the selection is read after the box
    /\ nicBox.open
    /\ StartChange(IF nicTab.chosen = NoAdapter THEN nicBox.nic ELSE nicTab.chosen, nicBox.target)

(* _start_network_change.                                                    *)
Confirm == nicBox.open /\ StartChange(nicBox.nic, nicBox.target)

(* _handle_operation_result: success refreshes the list, unless a refresh    *)
(* runs already; a failure is shown in a box.                                *)
ChangeSucceeded(j) ==
    /\ nicJobs[j].kind = "change" /\ nicJobs[j].st = "result"
    /\ IF nicTab.loading \/ Len(nicJobs) >= MaxNicJobs
       THEN Goto(j, "finished") /\ UNCHANGED nicTab
       ELSE /\ nicJobs' = Append([nicJobs EXCEPT ![j].st = "finished"], ListJob)
            /\ nicTab' = [nicTab EXCEPT !.loading = TRUE]
    /\ UNCHANGED <<nics, nicBox>>

ShowError(j) ==
    /\ nicJobs[j].st \in {"failure", "error"}
    /\ Goto(j, "finished")
    /\ UNCHANGED <<nics, nicTab, nicBox>>

(* _set_loading(False), _finish_network_change.                              *)
JobFinished(j) ==
    /\ nicJobs[j].st = "finished"
    /\ nicTab' = IF nicJobs[j].kind = "list" THEN [nicTab EXCEPT !.loading = FALSE]
                 ELSE [nicTab EXCEPT !.changing = FALSE]
    /\ Step(j, [NewJob EXCEPT !.kind = nicJobs[j].kind, !.st = "over"])
    /\ UNCHANGED <<nics, nicBox>>

----------------------------------------------------------------------------
(* The change itself: each command is one step on Windows.                   *)
SetNic(a, settings) ==
    IF a \in nics.plugged /\ settings # nics.set[a]
    THEN nics' = [nics EXCEPT !.set[a] = settings, !.changes = @ + 1]
    ELSE UNCHANGED nics

\* a command that fails, or whose time is up, may have been carried out
Command(j, settings, next, otherwise) ==
    LET a == nicJobs[j].nic IN
    \/ a \in nics.plugged /\ SetNic(a, settings) /\ Step(j, next)
    \/ SetNic(a, settings) /\ Step(j, otherwise)
    \/ UNCHANGED nics /\ Step(j, otherwise)

At(j, st) == nicJobs[j].kind = "change" /\ nicJobs[j].st = st
IsStatic(j) == nicJobs[j].target.address # Dhcp
Now(j) == nics.set[nicJobs[j].nic]
Wanted(j) == nicJobs[j].target

(* set_static, _netsh_set_static.                                            *)
NetshAddress(j) ==
    /\ At(j, "address") /\ IsStatic(j)
    /\ Command(j, [Now(j) EXCEPT !.address = Wanted(j).address],
               [nicJobs[j] EXCEPT !.st = "dns"], [nicJobs[j] EXCEPT !.st = "fallback"])

NetshDns(j) ==
    /\ At(j, "dns") /\ IsStatic(j)
    /\ Command(j, [Now(j) EXCEPT !.dns = Wanted(j).dns, !.more = Unset],
               [nicJobs[j] EXCEPT !.st = "more"], [nicJobs[j] EXCEPT !.st = "fallback"])

\* the answers of the commands for further servers are not looked at
NetshMoreDns(j) ==
    /\ At(j, "more")
    /\ Command(j, [Now(j) EXCEPT !.more = Wanted(j).more],
               [nicJobs[j] EXCEPT !.st = "result"], [nicJobs[j] EXCEPT !.st = "result"])

\* the script: other addresses go first, then the new one, then the servers
ScriptStatic(j) ==
    LET a == nicJobs[j].nic
        addressed == [Now(j) EXCEPT !.address = Wanted(j).address] IN
    /\ At(j, "fallback") /\ IsStatic(j)
    /\ \/ /\ a \in nics.plugged
          /\ SetNic(a, Wanted(j))
          /\ Goto(j, "result")
       \/ /\ \/ SetNic(a, [Now(j) EXCEPT !.address = Unset])
             \/ SetNic(a, addressed)
             \/ UNCHANGED nics
          /\ Goto(j, "failure")

(* set_dhcp: both commands, the cleanup and the new lease are tried in any   *)
(* case; the script to fall back on passes over its own errors.              *)
NetshDhcp(j) ==
    /\ At(j, "address") /\ ~IsStatic(j)
    /\ Command(j, [Now(j) EXCEPT !.address = Dhcp],
               [nicJobs[j] EXCEPT !.st = "dns"], [nicJobs[j] EXCEPT !.st = "dns", !.ok = FALSE])

NetshDhcpDns(j) ==
    /\ At(j, "dns") /\ ~IsStatic(j)
    /\ Command(j, [Now(j) EXCEPT !.dns = Dhcp, !.more = Dhcp],
               [nicJobs[j] EXCEPT !.st = "cleanup"], [nicJobs[j] EXCEPT !.st = "cleanup", !.ok = FALSE])

CleanUpAndRenew(j) ==
    /\ At(j, "cleanup")
    /\ SetNic(nicJobs[j].nic, All(Dhcp)) \/ UNCHANGED nics
    /\ Goto(j, IF nicJobs[j].ok THEN "result" ELSE "fallback")

ScriptDhcp(j) ==
    /\ At(j, "fallback") /\ ~IsStatic(j)
    /\ SetNic(nicJobs[j].nic, All(Dhcp)) \/ UNCHANGED nics
    /\ \E outcome \in {"result", "failure"} : Goto(j, outcome)

\* netsh or PowerShell cannot be started
CannotStart(j) ==
    /\ \E st \in {"address", "dns", "more", "cleanup", "fallback"} : At(j, st)
    /\ Goto(j, "error")
    /\ UNCHANGED nics

ChangeStep(j) ==
    /\ \/ NetshAddress(j) \/ NetshDns(j) \/ NetshMoreDns(j) \/ ScriptStatic(j)
       \/ NetshDhcp(j) \/ NetshDhcpDns(j) \/ CleanUpAndRenew(j) \/ ScriptDhcp(j)
       \/ CannotStart(j)
    /\ UNCHANGED <<nicTab, nicBox>>

\* an adapter is plugged in or out
Plug ==
    /\ nics.plugs < MaxPlugs
    /\ \E a \in Adapters :
         nics' = [nics EXCEPT !.plugs = @ + 1, !.changes = @ + 1, !.set[a] = All(Dhcp),
                              !.plugged = IF a \in @ THEN @ \ {a} ELSE @ \cup {a}]
    /\ UNCHANGED <<nicTab, nicBox, nicJobs>>

NicNext ==
    \/ RefreshAdapters \/ Confirm \/ Decline \/ Plug
    \/ \E a \in Adapters : ChooseAdapter(a)
    \/ \E f \in Settings : Apply(f)
    \/ \E j \in NicJob : \/ ListAdapters(j) \/ ShowAdapters(j) \/ ChangeSucceeded(j)
                      \/ ShowError(j) \/ JobFinished(j) \/ ChangeStep(j)

----------------------------------------------------------------------------
(* The jobs that change an adapter and have not ended.                       *)
Changing == {j \in Alive : nicJobs[j].kind = "change"}

(* Never two changes at once: a second one would meet the address of one and *)
(* the DNS server of the other. The mark that keeps the buttons off goes     *)
(* down with the end of the job, not with its result.                        *)
OneChangeAtATime == Cardinality(Changing) <= 1 /\ (nicTab.changing <=> Changing # {})

(* A fixed address that is reported as applied is on the adapter with its    *)
(* first DNS server, whichever of the commands failed on the way, unless the *)
(* adapter was plugged out meanwhile.                                        *)
ReportedIsApplied ==
    \A j \in NicJob :
        (At(j, "result") /\ IsStatic(j) /\ nics.plugs = 0)
            => Now(j).address = Wanted(j).address /\ Now(j).dns = Wanted(j).dns

(* What is changed is the adapter, and to the settings, that the box showed, *)
(* though the list and the form may be filled anew under the open box.       *)
ConfirmedIsStarted ==
    [][\A j \in DOMAIN nicJobs' \ DOMAIN nicJobs :
          nicJobs'[j].kind = "change" => nicBox.open /\ nicJobs'[j].nic = nicBox.nic
                                                     /\ nicJobs'[j].target = nicBox.target]_nicVars

(* The list never goes back to an older state than it has shown.             *)
ListNeverGoesBack == [][nicTab'.at >= nicTab.at]_nicVars

(* The page that changes addresses does what was confirmed, once, and tells  *)
(* the truth about it (interface_tab.py, network_interface_service.py).      *)
NetworkChangeIsRight == [](OneChangeAtATime /\ ReportedIsApplied) /\ ConfirmedIsStarted /\ ListNeverGoesBack
=============================================================================
