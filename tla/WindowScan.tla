----------------------------- MODULE WindowScan -----------------------------
(* The scan over a time window                                               *)
(* (app/services/wireless_service.py, scan_nearby_access_points_window):     *)
(* samples at fixed times, each of which may take long, fail or be           *)
(* cancelled, and the report of which access points come and go.             *)
EXTENDS Naturals, Sequences, FiniteSets

CONSTANTS
    Seen,            \* access points
    Channels,        \* channels they send on
    Durations,       \* seconds of a scan, as clamped
    Intervals,       \* seconds between samples, as clamped
    SampleTimes,     \* seconds one sample may take
    SampleCap        \* samples at most

ASSUME WindowAssumption ==
    /\ {SampleCap} \cup Durations \cup Intervals \subseteq Nat \ {0}
    /\ SampleTimes \subseteq Nat

VARIABLE window

\* what one sample finds: access points with their channels, or nothing for an error
Findings == UNION {[aps -> Channels] : aps \in SUBSET Seen}
NoFinding == [ap \in {} |-> 0]
Later(t, u) == IF t > u THEN t ELSE u

\* ceil(duration / interval), and what of it is taken
Requested == (window.duration + window.interval - 1) \div window.interval
Planned == IF Requested < SampleCap THEN Requested ELSE SampleCap

WindowInit ==
    \E d \in Durations, i \in Intervals :
        window = [st |-> "slot", duration |-> d, interval |-> i, now |-> 0, samples |-> <<>>,
                  stop |-> FALSE, cancelled |-> FALSE, limit |-> FALSE, unstable |-> {}]

Taken == Len(window.samples)
PastDeadline == Taken > 0 /\ window.now >= window.duration

CancelWindow ==
    /\ ~window.stop /\ window.st # "done"
    /\ window' = [window EXCEPT !.stop = TRUE]

\* the head of the loop; the wait ends at once when the scan is cancelled
WaitForScanSlot ==
    /\ window.st = "slot"
    /\ IF Taken = Planned THEN window' = [window EXCEPT !.st = "rest"]
       ELSE IF window.stop THEN window' = [window EXCEPT !.st = "report", !.cancelled = TRUE]
       ELSE IF PastDeadline THEN window' = [window EXCEPT !.st = "rest"]
       ELSE LET due == Later(window.now, Taken * window.interval) IN
            window' = [window EXCEPT !.now = due,
                         !.st = IF Taken > 0 /\ due >= window.duration THEN "rest" ELSE "sample"]

(* One scan.  Cancelled before it reads, it finds nothing and is no error.   *)
TakeSample ==
    /\ window.st = "sample"
    /\ \E t \in SampleTimes, ok \in BOOLEAN, found \in Findings :
         /\ ~ok => found = NoFinding
         /\ window' = [window EXCEPT !.now = @ + t, !.cancelled = window.stop,
                         !.st = IF window.stop THEN "report" ELSE "slot",
                         !.samples = Append(@, [ok |-> ok, found |-> found])]

\* a scan that was not capped is waited out to its end
RestOfWindow ==
    /\ window.st = "rest"
    /\ LET limit == Requested > Planned /\ Taken = Planned IN
       window' = [window EXCEPT !.st = "report", !.limit = limit,
                    !.cancelled = ~limit /\ window.stop,
                    !.now = IF limit \/ window.stop THEN @ ELSE Later(@, window.duration)]

----------------------------------------------------------------------------
(* _aggregate_observed_access_points. A signal that ranges over 20 points     *)
(* counts like a channel that changed.                                       *)
With(ap) == {i \in DOMAIN window.samples : ap \in DOMAIN window.samples[i].found}
ChannelsOf(ap) == {window.samples[i].found[ap] : i \in With(ap)}

Total == Cardinality(DOMAIN window.samples)    \* MUTANT: samples that failed count too

OkSamples == Cardinality({i \in DOMAIN window.samples : window.samples[i].ok})

Report ==
    /\ window.st = "report"
    /\ window' = [window EXCEPT !.st = "done",
                    !.unstable = {ap \in Seen : /\ With(ap) # {}
                                                /\ \/ Cardinality(With(ap)) < OkSamples
                                                   \/ Cardinality(ChannelsOf(ap)) > 1}]

WindowNext == CancelWindow \/ WaitForScanSlot \/ TakeSample \/ RestOfWindow \/ Report

----------------------------------------------------------------------------
(* In a report that was not cancelled an access point is called unstable     *)
(* exactly if some scan that worked missed it or saw it move; a scan that    *)
(* failed says nothing.  The scan covers its window unless the cap on the    *)
(* samples ended it, and never takes more of them.                           *)
WindowScanIsRight ==
    /\ Taken <= SampleCap
    /\ (window.st = "done" /\ ~window.cancelled) =>
         /\ window.unstable =
              {ap \in Seen : \E i, j \in DOMAIN window.samples :
                  LET f == window.samples[i].found  g == window.samples[j].found IN
                  /\ ap \in DOMAIN f
                  /\ \/ window.samples[j].ok /\ ap \notin DOMAIN g
                     \/ ap \in DOMAIN g /\ f[ap] # g[ap]}
         /\ window.limit \/ window.now >= window.duration
         /\ window.limit => Taken = SampleCap
============================================================================
