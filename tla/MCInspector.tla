---------------------------- MODULE MCInspector ----------------------------
(* What surrounds the device session of the inspector, on small instances: *)
(* the terminal of one vendor handler, the choice of the SSH client in two *)
(* threads, the dialog of a profile, and the rows of a retried run.  They  *)
(* share nothing, so one behaviour moves one of them and the run is the    *)
(* union.                                                                  *)
EXTENDS VendorSession, SshFallback, ProfileDialog, MCRetryMerge

CONSTANTS s1, s2, e1, x, y    \* model values

CONSTANT Parts    \* the parts this instance moves

VARIABLE part

allVars == <<part, vendorVars, sshVars, dialogVars, mergeVars>>

Bounded == {Generic, DayouSSH, HandreamnetSSH, PiolinkSSH, AlcatelSSH, AxgateSSH, AxgateTelnet,
            VForceSSH, VForceTelnet, UbiquossSSH, UbiquossTelnet}
OldCisco == {CiscoLegacyTelnet}

\* a profile of two commands, and one of a single command
Drafts == {[texts |-> <<x, y>>, columns |-> <<y>>], [texts |-> <<y>>, columns |-> <<>>]}

NoVendor ==
    /\ handler = Generic /\ at = "closed" /\ results = <<>> /\ wire = <<>>
    /\ dev = [link |-> FALSE, out |-> <<>>] /\ talk = [late |-> TRUE]

NoSsh ==
    /\ known = {} /\ peer = <<>> /\ answers = <<>> /\ changes = 0
    /\ session = [s \in Sessions |-> [at |-> "new", held |-> FALSE, used |-> FALSE]]
    /\ helper = [s \in Sessions |-> NoHelper]

\* a part that stands still has one state
Init ==
    /\ part \in Parts
    \* a long text before a short one, and after it
    /\ IF part = "vendor" THEN VendorInit /\ dev.pages \in {<<2, 1>>, <<1, 2>>} ELSE NoVendor
    /\ IF part = "ssh" THEN SshInit ELSE NoSsh
    /\ DialogInit
    /\ IF part = "merge" THEN MergeInit ELSE NoMerge

Next ==
    \/ part = "vendor" /\ VendorNext /\ UNCHANGED <<part, sshVars, dialogVars, mergeVars>>
    \/ part = "ssh" /\ SshNext /\ UNCHANGED <<part, vendorVars, dialogVars, mergeVars>>
    \/ part = "dialog" /\ DialogNext /\ UNCHANGED <<part, vendorVars, sshVars, mergeVars>>
    \/ part = "merge" /\ MergeNext /\ UNCHANGED <<part, vendorVars, sshVars, dialogVars>>

\* VendorFairness, for the part that moves
Vendor(A) == part = "vendor" /\ A /\ UNCHANGED <<part, sshVars, dialogVars, mergeVars>>
Fairness ==
    /\ WF_allVars(Vendor(Deliver))
    /\ WF_allVars(Vendor(Login \/ Enable \/ RunCommands))
    /\ WF_allVars(Vendor(Deadline))

Spec == Init /\ [][Next]_allVars /\ Fairness

----------------------------------------------------------------------------

\* Whatever the device says or fails to say, a session of a handler ends.
SessionReturns == <>(at \in Ended)
=============================================================================
