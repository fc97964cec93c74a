---------------------------- MODULE MCTransfers ----------------------------
(* The file transfer tabs on small instances.  They share nothing but the  *)
(* window, so one behaviour moves one of them and the run is the union.    *)
EXTENDS FtpClient, CopyTools, TemporaryServers

CONSTANTS f1, f2, c1, c2    \* model values for names and clients

CONSTANT Parts    \* the tabs this instance moves

VARIABLE part

allVars == <<part, ftpVars, copyVars, srvVars>>

Init ==
    /\ part \in Parts /\ FtpInit /\ CopyInit /\ SrvInit
    \* the parts that stand still start in one state
    /\ part = "ftp" \/ (ftpTab.patient /\ ftpTab.protocol = "ftp" /\ ftpDisk.remote = ftpDisk.local)
    /\ part = "copies" \/ copyTool = "scp"
    /\ part = "servers" \/ srvSetup = [tool |-> "ftp", readOnly |-> TRUE]

Ftp == part = "ftp" /\ FtpNext /\ UNCHANGED <<part, copyVars, srvVars>>
Copies == part = "copies" /\ CopyNext /\ UNCHANGED <<part, ftpVars, srvVars>>
Servers == part = "servers" /\ SrvNext /\ UNCHANGED <<part, ftpVars, copyVars>>

Next == Ftp \/ Copies \/ Servers

\* SrvFairness, for the part that moves
Fairness == WF_srvVars(part = "servers" /\ SrvJobs)

Spec == Init /\ [][Next]_allVars /\ Fairness
=============================================================================
