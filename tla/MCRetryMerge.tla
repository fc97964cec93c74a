---------------------------- MODULE MCRetryMerge ----------------------------
(* merge_retry_results on every pair of row lists over a few devices, twice *)
(* in a row as when a retry is itself retried.                              *)
EXTENDS RetryMerge, FiniteSets

CONSTANTS IpSet

ASSUME IpSetAssumption == IsFiniteSet(IpSet)

\* lists of distinct elements: the inventory and a batch name a device once
IpLists(S) == UNION {{s \in [1..n -> S] : IsInjective(s)} : n \in 0..Cardinality(S)}
RowLists(run) == {[i \in DOMAIN s |-> [ip |-> s[i], run |-> run]] : s \in IpLists(IpSet)}

VARIABLES previous, rerun, again, order, merged, round

mergeVars == <<previous, rerun, again, order, merged, round>>

MergeInit ==
    /\ previous \in RowLists(0)
    /\ rerun \in RowLists(1)
    /\ again \in {r \in RowLists(2) : Ips(r) \subseteq Ips(rerun)}
    /\ order \in IpLists(IpSet)
    /\ merged = previous
    /\ round = 0

NoMerge ==
    /\ previous = <<>> /\ rerun = <<>> /\ again = <<>>
    /\ order = <<>> /\ merged = <<>> /\ round = 0

MergeRerun ==
    /\ round = 0
    /\ merged' = MergeRetryResults(merged, rerun, order)
    /\ round' = 1

MergeAgain ==
    /\ round = 1
    /\ merged' = MergeRetryResults(merged, again, order)
    /\ round' = 2

MergeNext == (MergeRerun \/ MergeAgain) /\ UNCHANGED <<previous, rerun, again, order>>

MergeSpec == MergeInit /\ [][MergeNext]_mergeVars

----------------------------------------------------------------------------

\* The merge is the newest row of each device in inventory order (with no inventory
\* order given, in the order the rows came); and when a retry is itself retried, the
\* row of the latest run that covered the device stands and none is lost.
MergeIsRight ==
    /\ round = 1 => IsMergeOf(merged, previous, rerun, order)
    /\ round = 1 => KeepsOrderOfUnknown(merged, previous, order)
    /\ round = 2 =>
        /\ Ips(merged) = Ips(previous) \cup Ips(rerun)
        /\ \A i \in DOMAIN merged : merged[i].run =
              IF merged[i].ip \in Ips(again) THEN 2
              ELSE IF merged[i].ip \in Ips(rerun) THEN 1 ELSE 0
=============================================================================
