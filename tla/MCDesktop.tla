----------------------------- MODULE MCDesktop -----------------------------
(* The window and pages of it on small instances: the way between the      *)
(* pages, the device table of the config builder and its profiles, and the *)
(* update from the first click to the restart.  They share nothing but the *)
(* window, so one behaviour moves one of them and the run is the union.    *)
EXTENDS DeviceTable, ProfileFiles, UpdateFlow, PortableSwap, WindowPages

CONSTANTS f1, f2, p1, p2, p3, n1, n2    \* model values

CONSTANT Parts    \* the parts this instance moves

VARIABLE part

allVars == <<part, tableVars, profileVars, winVars, updateVars, vars>>

\* three profile ids, two of which have the same file name
SafeNames == [i \in ProfileIds |-> IF i = p3 THEN p2 ELSE i]

\* a file with one device, and one with another or, without the live save, of no use
SmallTable ==
    /\ tableDisk.files[f1] = <<[name |-> n1, ok |-> TRUE, profile |-> p1]>>
    /\ tableDisk.files[f2] \in {Unreadable, <<[name |-> n2, ok |-> TRUE, profile |-> p2]>>}
    /\ (tableDisk.files[f2] = Unreadable) = ~options.live
    /\ ~options.evenErrors

MCInit ==
    /\ part \in Parts
    /\ TableInit /\ SmallTable /\ ProfileInit /\ UpdateInit /\ Init /\ PagesInit
    \* the parts that stand still start in one state
    /\ part = "table" \/ ~options.live
    /\ part = "pages" \/ winSaved = [page |-> "home", tool |-> "ping"]
    /\ part = "update" \/ (~program.portable /\ ~program.checkOnStartup)

Editor ==
    \/ part = "table" /\ TableNext /\ UNCHANGED profileVars
    \/ part = "files" /\ ProfileNext /\ UNCHANGED tableVars

Editors == Editor /\ UNCHANGED <<part, winVars, updateVars, vars>>

Moving == part = "pages" /\ PagesNext /\ UNCHANGED <<part, tableVars, profileVars, updateVars, vars>>

\* The updater is a process of its own from the moment it was launched.  The
\* process of the window ends after the window has closed.
SwapBegan == program.portable /\ launched > 0

UpdateStep ==
    \/ UpdateNext /\ UNCHANGED vars
    \/ (window = "closed" /\ OldExits) /\ UNCHANGED updateVars
    \/ (SwapBegan /\ (Updater \/ Crash \/ StartProgram)) /\ UNCHANGED updateVars

Update == part = "update" /\ UpdateStep /\ UNCHANGED <<part, tableVars, profileVars, winVars>>

MCNext == Editors \/ Moving \/ Update

MCSpec ==
    /\ MCInit /\ [][MCNext]_allVars
    \* UpdateFairness, for the part that moves
    /\ WF_updateVars(part = "update" /\ JobSteps /\ UNCHANGED program)
    /\ WF_updateVars(part = "update" /\ EventSteps /\ UNCHANGED program)
    /\ WF_vars(SwapBegan /\ Updater)

----------------------------------------------------------------------------

\* What is waited for: a chain of jobs, and an updater that was launched.
Waiting == (busy /\ window # "closed") \/ (SwapBegan /\ pc \notin {"done", "crashed"})

\* An update comes to its end and the button can be used again: a box that stays open
\* for long, a refused close or an error does not hold it up for ever, and an updater
\* that was launched ends whether or not the window agreed to close.
UpdateEnds == []<>~Waiting
=============================================================================
