----------------------------- MODULE RetryMerge -----------------------------
(***************************************************************************)
(* How the rows of a "run the failed devices again" are merged into the    *)
(* rows shown before: InspectorService.merge_retry_results                 *)
(* (src/netops_suite/modules/inspector/service.py).                        *)
(* A row is a record with an `ip`; its other fields are the caller's.      *)
(***************************************************************************)
EXTENDS Naturals, Sequences, SequencesExt, FiniteSetsExt

Ips(rows) == {rows[i].ip : i \in DOMAIN rows}

\* {ip: row for row in rerun}: the last row of an ip wins
RerunByIp(rerun) ==
    [ip \in Ips(rerun) |-> rerun[Max({i \in DOMAIN rerun : rerun[i].ip = ip})]]

\* {ip: index}, and after every known device for an unknown one
Position(ip, order) ==
    LET places == {i \in DOMAIN order : order[i] = ip}
    IN  IF places = {} THEN Len(order) + 1 ELSE Max(places)

\* The elements of a finite set in the order that a set of pairs puts them in:
\* the k-th has k - 1 before it.  (Said with CHOOSE and not with the sorting
\* operators of the libraries, which the provers cannot look into.)
Arranged(S, before) ==
    [k \in 1..Cardinality(S) |->
        CHOOSE i \in S : Cardinality({j \in S : <<j, i>> \in before}) = k - 1]

\* numbers in increasing order
InOrder(S) == Arranged(S, {p \in S \X S : p[1] < p[2]})

\* list.sort(key=...) is stable
StableOrder(rows, order) ==
    LET key(i) == Position(rows[i].ip, order)
    IN  {p \in (DOMAIN rows) \X (DOMAIN rows) :
            key(p[1]) < key(p[2]) \/ (key(p[1]) = key(p[2]) /\ p[1] < p[2])}

SortedByDevice(rows, order) ==
    LET arranged == Arranged(DOMAIN rows, StableOrder(rows, order))
    IN  [k \in DOMAIN rows |-> rows[arranged[k]]]

\* Mutant: a device that is not in the previous rows is forgotten.
MergeRetryResultsKnownOnly(previous, rerun, order) ==
    LET by == RerunByIp(rerun) IN
    SortedByDevice([i \in DOMAIN previous |->
        IF previous[i].ip \in DOMAIN by THEN by[previous[i].ip] ELSE previous[i]], order)

MergeRetryResults(previous, rerun, order) ==
    LET by == RerunByIp(rerun)
        replaced == [i \in DOMAIN previous |->
            IF previous[i].ip \in DOMAIN by THEN by[previous[i].ip] ELSE previous[i]]
        \* dict order: an ip stands where it was first inserted
        new == InOrder({i \in DOMAIN rerun :
                    /\ rerun[i].ip \notin Ips(previous)
                    /\ \A j \in 1..(i - 1) : rerun[j].ip # rerun[i].ip})
        merged == replaced \o [k \in DOMAIN new |-> by[rerun[new[k]].ip]]
    IN  IF order = <<>> THEN merged ELSE SortedByDevice(merged, order)

\* What the merge is for, stated without its steps: each device of either list
\* once, with its newest row, in the order of the inventory.
IsMergeOf(merged, previous, rerun, order) ==
    /\ \A i, j \in DOMAIN merged : merged[i].ip = merged[j].ip => i = j
    /\ Ips(merged) = Ips(previous) \cup Ips(rerun)
    /\ \A i \in DOMAIN merged :
          merged[i] \in IF merged[i].ip \in Ips(rerun) THEN ToSet(rerun)
                                                      ELSE ToSet(previous)
    /\ \A i, j \in DOMAIN merged :
          i < j => Position(merged[i].ip, order) <= Position(merged[j].ip, order)

\* Rows keep their place among devices the inventory does not tell apart.
KeepsOrderOfUnknown(merged, previous, order) ==
    \A i, j \in DOMAIN previous :
        (i < j /\ {previous[i].ip, previous[j].ip} \cap ToSet(order) = {})
            => \E k, l \in DOMAIN merged :
                   k < l /\ merged[k].ip = previous[i].ip /\ merged[l].ip = previous[j].ip
=============================================================================
