------------------------ MODULE InspectorRun_proofs ------------------------
(***************************************************************************)
(* What is proved of the runs of the inspector tab (InspectorRun) and of   *)
(* the merging of a retry's rows (RetryMerge), for any number of devices,  *)
(* rows and runs.                                                          *)
(*                                                                         *)
(* The first part is about lists: that the sort of the model is a sort,    *)
(* and that the merge is what IsMergeOf says a merge is.  What is found by *)
(* counting (the k-th element has k - 1 before it) needs no induction.     *)
(***************************************************************************)
EXTENDS InspectorRun, MCRetryMerge, FiniteSetTheorems, FunctionTheorems,
        SequenceTheorems, WellFoundedInduction, TLAPS

----------------------------------------------------------------------------
(* Smallest and largest numbers.                                           *)

LEMMA Smallest == ASSUME NEW T \in SUBSET Nat, T # {} PROVE \E x \in T : \A y \in T : x <= y
<1>1. IsWellFoundedOn(OpToRel(<, Nat), Nat) BY NatLessThanWellFounded
<1>2. PICK x \in T : \A y \in T : ~ (<<y, x>> \in OpToRel(<, Nat)) BY <1>1, WFMin
<1>3. \A y \in T : ~(y < x) BY <1>2 DEF OpToRel
<1> QED BY <1>3

LEMMA Largest ==
    ASSUME NEW n \in Nat, NEW T \in SUBSET (0..n), T # {}
    PROVE  \E x \in T : \A y \in T : y <= x
<1> DEFINE bounds == {b \in Nat : \A y \in T : y <= b}
<1>1. n \in bounds OBVIOUS
<1>2. PICK b \in bounds : \A c \in bounds : b <= c BY <1>1, Smallest
<1>3. b \in T
  <2>1. SUFFICES ASSUME b \notin T PROVE FALSE OBVIOUS
  <2>2. ASSUME NEW y \in T PROVE y <= b - 1 /\ b - 1 \in Nat
    <3>1. y \in Nat /\ b \in Nat /\ y <= b /\ y # b BY <1>2, <2>1
    <3> QED BY <3>1
  <2>3. b - 1 \in Nat BY <2>2
  <2>4. b - 1 \in bounds BY <2>2, <2>3
  <2> QED BY <1>2, <2>4
<1> QED BY <1>2, <1>3

LEMMA MaxTold ==
    ASSUME NEW n \in Nat, NEW T \in SUBSET (0..n), T # {}
    PROVE  Max(T) \in T /\ \A y \in T : y <= Max(T)
<1>1. \E x \in T : \A y \in T : x >= y BY Largest
<1> QED BY <1>1 DEF Max

LEMMA MinTold ==
    ASSUME NEW T \in SUBSET Nat, T # {}
    PROVE  Min(T) \in T /\ \A y \in T : Min(T) <= y
<1>1. \E x \in T : \A y \in T : x <= y BY Smallest
<1> QED BY <1>1 DEF Min

----------------------------------------------------------------------------
(* Sorting.  R is a strict linear order on S, as a set of pairs.           *)

LinearOn(R, S) ==
    /\ \A i \in S : <<i, i>> \notin R
    /\ \A i, j \in S : i # j => <<i, j>> \in R \/ <<j, i>> \in R
    /\ \A i, j, k \in S : <<i, j>> \in R /\ <<j, k>> \in R => <<i, k>> \in R

Below(i, R, S) == {j \in S : <<j, i>> \in R}

\* An element's place is the number of elements before it.
LEMMA Places ==
    ASSUME NEW S, IsFiniteSet(S), NEW R, LinearOn(R, S)
    PROVE  /\ \A i \in S : Cardinality(Below(i, R, S)) \in 0 .. Cardinality(S) - 1
           /\ \A i, j \in S : <<i, j>> \in R => Cardinality(Below(i, R, S)) < Cardinality(Below(j, R, S))
           /\ \A k \in 1 .. Cardinality(S) : \E i \in S : Cardinality(Below(i, R, S)) = k - 1
<1>1. Cardinality(S) \in Nat BY FS_CardinalityType
<1>2. ASSUME NEW i \in S
      PROVE  /\ IsFiniteSet(Below(i, R, S)) /\ Cardinality(Below(i, R, S)) \in Nat
             /\ Cardinality(Below(i, R, S)) <= Cardinality(S) - 1
  <2>1. Below(i, R, S) \in SUBSET (S \ {i}) BY DEF Below, LinearOn
  <2>2. IsFiniteSet(S \ {i}) /\ Cardinality(S \ {i}) = Cardinality(S) - 1 BY FS_RemoveElement
  <2>3. IsFiniteSet(Below(i, R, S)) /\ Cardinality(Below(i, R, S)) <= Cardinality(S \ {i})
    BY <2>1, <2>2, FS_Subset
  <2> QED BY <2>2, <2>3, FS_CardinalityType
<1>3. \A i \in S : Cardinality(Below(i, R, S)) \in 0 .. Cardinality(S) - 1 BY <1>1, <1>2
<1>4. ASSUME NEW i \in S, NEW j \in S, <<i, j>> \in R
      PROVE  Cardinality(Below(i, R, S)) < Cardinality(Below(j, R, S))
  <2>1. i \in Below(j, R, S) /\ i \notin Below(i, R, S) BY <1>4 DEF Below, LinearOn
  <2>2. Below(i, R, S) \in SUBSET (Below(j, R, S) \ {i}) BY <1>4, <2>1 DEF Below, LinearOn
  <2>3. /\ IsFiniteSet(Below(j, R, S) \ {i})
        /\ Cardinality(Below(j, R, S) \ {i}) = Cardinality(Below(j, R, S)) - 1
    BY <1>2, <2>1, FS_RemoveElement
  <2>4. Cardinality(Below(i, R, S)) <= Cardinality(Below(j, R, S) \ {i}) BY <2>2, <2>3, FS_Subset
  <2> QED BY <1>2, <2>3, <2>4
<1>5. ASSUME NEW k \in 1 .. Cardinality(S) PROVE \E i \in S : Cardinality(Below(i, R, S)) = k - 1
  <2> DEFINE place == [i \in S |-> Cardinality(Below(i, R, S)) + 1]
  <2>1. place \in [S -> 1 .. Cardinality(S)] BY <1>1, <1>3
  <2>2. ASSUME NEW i \in S, NEW j \in S, place[i] = place[j] PROVE i = j
    <3>1. Cardinality(Below(i, R, S)) = Cardinality(Below(j, R, S)) BY <1>2, <2>2
    <3>2. Cardinality(Below(i, R, S)) \in Nat BY <1>2
    <3>3. <<i, j>> \notin R /\ <<j, i>> \notin R BY <1>4, <3>1, <3>2
    <3> QED BY <3>3 DEF LinearOn
  <2>3. place \in Injection(S, 1 .. Cardinality(S)) BY <2>1, <2>2 DEF Injection, IsInjective
  <2>4. IsFiniteSet(1 .. Cardinality(S)) /\ Cardinality(1 .. Cardinality(S)) = Cardinality(S)
    BY <1>1, FS_Interval
  <2>5. place \in Surjection(S, 1 .. Cardinality(S)) BY <2>3, <2>4, FS_Injection
  <2>6. PICK i \in S : place[i] = k BY <2>5 DEF Surjection
  <2>7. Cardinality(Below(i, R, S)) + 1 = k BY <2>6
  <2> QED BY <1>3, <2>7
<1> QED BY <1>3, <1>4, <1>5

\* S in the order R: each element once, in order.
LEMMA Sorted ==
    ASSUME NEW S, IsFiniteSet(S), NEW R, LinearOn(R, S),
           NEW p, p = Arranged(S, R)
    PROVE  /\ p \in Seq(S) /\ Len(p) = Cardinality(S) /\ Cardinality(S) \in Nat
           /\ DOMAIN p = 1 .. Cardinality(S)
           /\ \A k, l \in DOMAIN p : p[k] = p[l] => k = l
           /\ \A i \in S : \E k \in DOMAIN p : p[k] = i
           /\ \A k, l \in DOMAIN p : k < l => <<p[k], p[l]>> \in R
<1>1. Cardinality(S) \in Nat BY FS_CardinalityType
<1>p. p = [k \in 1 .. Cardinality(S) |-> CHOOSE i \in S : Cardinality(Below(i, R, S)) = k - 1]
  BY DEF Arranged, Below
<1>2. ASSUME NEW k \in 1 .. Cardinality(S) PROVE p[k] \in S /\ Cardinality(Below(p[k], R, S)) = k - 1
  <2>1. \E i \in S : Cardinality(Below(i, R, S)) = k - 1 BY Places
  <2> QED BY <1>p, <2>1
<1>3. p \in Seq(S) /\ Len(p) = Cardinality(S) /\ DOMAIN p = 1 .. Cardinality(S)
  BY <1>1, <1>p, <1>2, IsASeq
<1>4. \A k, l \in DOMAIN p : p[k] = p[l] => k = l
  <2> SUFFICES ASSUME NEW k \in 1 .. Cardinality(S), NEW l \in 1 .. Cardinality(S), p[k] = p[l] PROVE k = l
    BY <1>3
  <2>1. k - 1 = l - 1 BY <1>2
  <2> QED BY <1>1, <2>1
<1>5. ASSUME NEW i \in S PROVE \E k \in DOMAIN p : p[k] = i
  <2>1. Cardinality(Below(i, R, S)) \in 0 .. Cardinality(S) - 1 BY Places
  <2> DEFINE k == Cardinality(Below(i, R, S)) + 1
  <2>2. k \in 1 .. Cardinality(S) /\ k - 1 = Cardinality(Below(i, R, S)) BY <1>1, <2>1
  <2>3. p[k] \in S /\ Cardinality(Below(p[k], R, S)) = Cardinality(Below(i, R, S)) BY <1>2, <2>2
  <2>4. ASSUME p[k] # i PROVE FALSE
    <3>1. <<p[k], i>> \in R \/ <<i, p[k]>> \in R BY <2>3, <2>4 DEF LinearOn
    <3>2. \/ Cardinality(Below(p[k], R, S)) < Cardinality(Below(i, R, S))
          \/ Cardinality(Below(i, R, S)) < Cardinality(Below(p[k], R, S))
      BY <2>3, <3>1, Places
    <3> QED BY <2>1, <2>3, <3>2
  <2> QED BY <1>3, <2>2, <2>4
<1>6. ASSUME NEW k \in DOMAIN p, NEW l \in DOMAIN p, k < l PROVE <<p[k], p[l]>> \in R
  <2>1. p[k] \in S /\ p[l] \in S /\ p[k] # p[l] BY <1>1, <1>2, <1>3, <1>4, <1>6
  <2>2. ASSUME <<p[l], p[k]>> \in R PROVE FALSE
    <3>1. Cardinality(Below(p[l], R, S)) < Cardinality(Below(p[k], R, S)) BY <2>1, <2>2, Places
    <3>2. l - 1 < k - 1 BY <1>2, <1>3, <3>1
    <3> QED BY <1>1, <1>3, <1>6, <3>2
  <2> QED BY <2>1, <2>2 DEF LinearOn
<1> QED BY <1>1, <1>3, <1>4, <1>5, <1>6

LEMMA InOrderTold ==
    ASSUME NEW S \in SUBSET Nat, IsFiniteSet(S), NEW p, p = InOrder(S)
    PROVE  /\ p \in Seq(S) /\ Len(p) = Cardinality(S) /\ Cardinality(S) \in Nat
           /\ DOMAIN p = 1 .. Cardinality(S)
           /\ \A k, l \in DOMAIN p : p[k] = p[l] => k = l
           /\ \A i \in S : \E k \in DOMAIN p : p[k] = i
           /\ \A k, l \in DOMAIN p : k < l => p[k] < p[l]
<1> DEFINE R == {q \in S \X S : q[1] < q[2]}
<1>1. \A i, j \in S : <<i, j>> \in R <=> i < j OBVIOUS
<1>2. p = Arranged(S, R) BY DEF InOrder
<1> HIDE DEF R
<1>3. LinearOn(R, S) BY <1>1 DEF LinearOn
<1>4. /\ p \in Seq(S) /\ Len(p) = Cardinality(S) /\ Cardinality(S) \in Nat
      /\ DOMAIN p = 1 .. Cardinality(S)
      /\ \A k, l \in DOMAIN p : p[k] = p[l] => k = l
      /\ \A i \in S : \E k \in DOMAIN p : p[k] = i
      /\ \A k, l \in DOMAIN p : k < l => <<p[k], p[l]>> \in R
  BY <1>2, <1>3, Sorted
<1>5. \A k \in DOMAIN p : p[k] \in S BY <1>4
<1> QED BY <1>1, <1>4, <1>5

LEMMA CardinalityUpTo == ASSUME NEW n \in Nat PROVE IsFiniteSet(1 .. n) /\ Cardinality(1 .. n) = n
BY FS_Interval

LEMMA PositionType == ASSUME NEW X, NEW ord \in Seq(X), NEW ip PROVE Position(ip, ord) \in Nat
<1> DEFINE places == {i \in DOMAIN ord : ord[i] = ip}
<1>1. Len(ord) \in Nat /\ DOMAIN ord = 1 .. Len(ord) OBVIOUS
<1>2. places \in SUBSET (0 .. Len(ord)) BY <1>1
<1>3. places # {} => Max(places) \in places
  <2> HIDE DEF places
  <2> QED BY <1>1, <1>2, MaxTold
<1>4. places # {} => Max(places) \in Nat BY <1>1, <1>2, <1>3
<1> QED BY <1>1, <1>4 DEF Position

LEMMA StableOrderTold ==
    ASSUME NEW Row, NEW rows \in Seq(Row), NEW X, NEW ord \in Seq(X)
    PROVE  /\ LinearOn(StableOrder(rows, ord), DOMAIN rows)
           /\ \A i, j \in DOMAIN rows :
                <<i, j>> \in StableOrder(rows, ord) <=>
                  \/ Position(rows[i].ip, ord) < Position(rows[j].ip, ord)
                  \/ /\ Position(rows[i].ip, ord) = Position(rows[j].ip, ord)
                     /\ i < j
<1>1. Len(rows) \in Nat /\ DOMAIN rows = 1 .. Len(rows) OBVIOUS
<1>2. \A i \in DOMAIN rows : Position(rows[i].ip, ord) \in Nat BY PositionType
<1> DEFINE key(i) == Position(rows[i].ip, ord)
<1>3. \A i, j \in DOMAIN rows :
        <<i, j>> \in StableOrder(rows, ord) <=> key(i) < key(j) \/ (key(i) = key(j) /\ i < j)
  BY DEF StableOrder
<1>4. \A i \in DOMAIN rows : key(i) \in Nat BY <1>2
<1> HIDE DEF key
<1>5. LinearOn(StableOrder(rows, ord), DOMAIN rows) BY <1>1, <1>3, <1>4 DEF LinearOn
<1> QED BY <1>3, <1>5 DEF key

\* s is rows moved as p says: none is lost, they stand in the order of the list,
\* and rows of one position as they stood.
SortedAs(s, rows, ord, p) ==
    /\ DOMAIN s = DOMAIN rows
    /\ \A k \in DOMAIN s : p[k] \in DOMAIN rows /\ s[k] = rows[p[k]]
    /\ \A k, l \in DOMAIN s : p[k] = p[l] => k = l
    /\ \A i \in DOMAIN rows : \E k \in DOMAIN s : p[k] = i
    /\ \A k, l \in DOMAIN s :
         k < l => \/ Position(s[k].ip, ord) < Position(s[l].ip, ord)
                  \/ /\ Position(s[k].ip, ord) = Position(s[l].ip, ord)
                     /\ p[k] < p[l]

LEMMA SortedByDeviceTold ==
    ASSUME NEW Row, NEW rows \in Seq(Row), NEW X, NEW ord \in Seq(X),
           NEW s, s = SortedByDevice(rows, ord)
    PROVE  s \in Seq(Row) /\ Len(s) = Len(rows) /\ \E p : SortedAs(s, rows, ord, p)
<1> DEFINE R == StableOrder(rows, ord)
           S == DOMAIN rows
           p == Arranged(S, R)
<1>1. Len(rows) \in Nat /\ S = 1 .. Len(rows) /\ \A i \in S : rows[i] \in Row OBVIOUS
<1>2. s = [k \in S |-> rows[p[k]]] BY DEF SortedByDevice
<1>3. LinearOn(R, S) BY StableOrderTold
<1>4. \A i, j \in S :
        <<i, j>> \in R <=> \/ Position(rows[i].ip, ord) < Position(rows[j].ip, ord)
                           \/ /\ Position(rows[i].ip, ord) = Position(rows[j].ip, ord)
                              /\ i < j
  BY StableOrderTold
<1>5. SortedAs(s, rows, ord, p) <=>
        /\ DOMAIN s = S
        /\ \A k \in S : p[k] \in S /\ s[k] = rows[p[k]]
        /\ \A k, l \in S : p[k] = p[l] => k = l
        /\ \A i \in S : \E k \in S : p[k] = i
        /\ \A k, l \in S :
             k < l => \/ Position(s[k].ip, ord) < Position(s[l].ip, ord)
                      \/ /\ Position(s[k].ip, ord) = Position(s[l].ip, ord)
                         /\ p[k] < p[l]
  BY <1>2 DEF SortedAs
<1> HIDE DEF R, S
<1>6. IsFiniteSet(S) /\ Cardinality(S) = Len(rows) BY <1>1, CardinalityUpTo
<1>7. p = Arranged(S, R) OBVIOUS
<1> HIDE DEF p
<1>8. /\ p \in Seq(S) /\ DOMAIN p = S
      /\ \A k, l \in S : p[k] = p[l] => k = l
      /\ \A i \in S : \E k \in S : p[k] = i
      /\ \A k, l \in S : k < l => <<p[k], p[l]>> \in R
  <2>1. /\ p \in Seq(S) /\ Len(p) = Cardinality(S) /\ Cardinality(S) \in Nat
        /\ DOMAIN p = 1 .. Cardinality(S)
        /\ \A k, l \in DOMAIN p : p[k] = p[l] => k = l
        /\ \A i \in S : \E k \in DOMAIN p : p[k] = i
        /\ \A k, l \in DOMAIN p : k < l => <<p[k], p[l]>> \in R
    BY <1>3, <1>6, <1>7, Sorted
  <2>2. DOMAIN p = S BY <1>1, <1>6, <2>1
  <2> QED BY <2>1, <2>2
<1>9. \A k \in S : p[k] \in S /\ s[k] = rows[p[k]] BY <1>2, <1>8
<1>10. s \in Seq(Row) /\ Len(s) = Len(rows)
  <2>1. s = [k \in 1 .. Len(rows) |-> s[k]] /\ \A k \in 1 .. Len(rows) : s[k] \in Row BY <1>1, <1>2, <1>9
  <2> QED BY <1>1, <2>1, IsASeq
<1>11. SortedAs(s, rows, ord, p)
  <2>1. ASSUME NEW k \in S, NEW l \in S, k < l
        PROVE  \/ Position(s[k].ip, ord) < Position(s[l].ip, ord)
               \/ /\ Position(s[k].ip, ord) = Position(s[l].ip, ord)
                  /\ p[k] < p[l]
    <3>1. <<p[k], p[l]>> \in R /\ p[k] \in S /\ p[l] \in S BY <1>8, <1>9, <2>1
    <3> QED BY <1>4, <1>9, <3>1
  <2>2. DOMAIN s = S BY <1>2
  <2> QED BY <1>5, <1>8, <1>9, <2>1, <2>2
<1> QED BY <1>10, <1>11

----------------------------------------------------------------------------
(* The merge of a retry.                                                   *)

LEMMA RerunByIpTold ==
    ASSUME NEW Row, NEW new \in Seq(Row)
    PROVE  /\ DOMAIN RerunByIp(new) = Ips(new)
           /\ \A ip \in Ips(new) : /\ RerunByIp(new)[ip] \in ToSet(new) /\ RerunByIp(new)[ip] \in Row
                                   /\ RerunByIp(new)[ip].ip = ip
<1>1. Len(new) \in Nat /\ DOMAIN new = 1 .. Len(new) /\ \A i \in DOMAIN new : new[i] \in Row OBVIOUS
<1>2. ASSUME NEW ip \in Ips(new)
      PROVE  /\ RerunByIp(new)[ip] \in ToSet(new) /\ RerunByIp(new)[ip] \in Row
             /\ RerunByIp(new)[ip].ip = ip
  <2> DEFINE at == {i \in DOMAIN new : new[i].ip = ip}
  <2>1. at \in SUBSET (0 .. Len(new)) /\ at # {} BY <1>1 DEF Ips
  <2>2. RerunByIp(new)[ip] = new[Max(at)] BY DEF RerunByIp
  <2>3. Max(at) \in at
    <3> HIDE DEF at
    <3> QED BY <1>1, <2>1, MaxTold
  <2>4. Max(at) \in DOMAIN new /\ new[Max(at)].ip = ip BY <2>3
  <2> QED BY <1>1, <2>2, <2>4 DEF ToSet
<1> QED BY <1>2 DEF RerunByIp

\* The rows before they are sorted: the old ones, replaced where they were run
\* again, and then those of devices that were not there before.
FirstOfNew(old, new) ==
    {i \in DOMAIN new : new[i].ip \notin Ips(old) /\ \A j \in 1..(i - 1) : new[j].ip # new[i].ip}
Replaced(old, new) ==
    [i \in DOMAIN old |->
        IF old[i].ip \in DOMAIN RerunByIp(new) THEN RerunByIp(new)[old[i].ip] ELSE old[i]]
Added(old, new) ==
    [k \in DOMAIN InOrder(FirstOfNew(old, new)) |->
        RerunByIp(new)[new[InOrder(FirstOfNew(old, new))[k]].ip]]

LEMMA MergeIsSorted ==
    ASSUME NEW old, NEW new, NEW ord
    PROVE  MergeRetryResults(old, new, ord) =
             IF ord = <<>> THEN Replaced(old, new) \o Added(old, new)
                           ELSE SortedByDevice(Replaced(old, new) \o Added(old, new), ord)
BY DEF MergeRetryResults, Replaced, Added, FirstOfNew

DistinctIps(rows) == \A i, j \in DOMAIN rows : rows[i].ip = rows[j].ip => i = j

LEMMA ReplacedTold ==
    ASSUME NEW Row, NEW old \in Seq(Row), NEW new \in Seq(Row), NEW s, s = Replaced(old, new)
    PROVE  /\ s \in Seq(Row) /\ Len(s) = Len(old) /\ DOMAIN s = DOMAIN old
           /\ \A i \in DOMAIN s :
                /\ s[i].ip = old[i].ip
                /\ s[i] \in IF s[i].ip \in Ips(new) THEN ToSet(new) ELSE ToSet(old)
<1>1. Len(old) \in Nat /\ DOMAIN old = 1 .. Len(old) OBVIOUS
<1>2. ASSUME NEW i \in DOMAIN old
      PROVE  /\ s[i] \in Row /\ s[i].ip = old[i].ip
             /\ s[i] \in IF s[i].ip \in Ips(new) THEN ToSet(new) ELSE ToSet(old)
  <2>1. CASE old[i].ip \in Ips(new)
    <3>1. s[i] = RerunByIp(new)[old[i].ip] BY <2>1, RerunByIpTold DEF Replaced
    <3> QED BY <2>1, <3>1, RerunByIpTold
  <2>2. CASE old[i].ip \notin Ips(new)
    <3>1. s[i] = old[i] BY <2>2, RerunByIpTold DEF Replaced
    <3> QED BY <2>2, <3>1 DEF ToSet
  <2> QED BY <2>1, <2>2
<1>3. s \in Seq(Row) /\ Len(s) = Len(old) /\ DOMAIN s = DOMAIN old
  <2>1. s = [i \in 1 .. Len(old) |-> s[i]] /\ DOMAIN s = DOMAIN old BY <1>1 DEF Replaced
  <2> QED BY <1>1, <1>2, <2>1, IsASeq
<1> QED BY <1>2, <1>3

LEMMA AddedTold ==
    ASSUME NEW Row, NEW old \in Seq(Row), NEW new \in Seq(Row), NEW s, s = Added(old, new)
    PROVE  /\ s \in Seq(Row)
           /\ \A k \in DOMAIN s : s[k].ip \in Ips(new) \ Ips(old) /\ s[k] \in ToSet(new)
           /\ \A k, l \in DOMAIN s : s[k].ip = s[l].ip => k = l
           /\ \A ip \in Ips(new) \ Ips(old) : \E k \in DOMAIN s : s[k].ip = ip
<1> DEFINE N == FirstOfNew(old, new)
           p == InOrder(N)
<1>1. Len(new) \in Nat /\ DOMAIN new = 1 .. Len(new) OBVIOUS
<1>2. N \in SUBSET Nat /\ IsFiniteSet(N)
  <2>1. N \in SUBSET (1 .. Len(new)) BY <1>1 DEF FirstOfNew
  <2>2. IsFiniteSet(1 .. Len(new)) BY <1>1, FS_Interval
  <2>3. IsFiniteSet(N)
    <3> HIDE DEF N
    <3> QED BY <2>1, <2>2, FS_Subset
  <2> QED BY <2>1, <2>3
<1>3. /\ p \in Seq(N) /\ Len(p) \in Nat /\ DOMAIN p = 1 .. Len(p)
      /\ \A k, l \in DOMAIN p : p[k] = p[l] => k = l
      /\ \A i \in N : \E k \in DOMAIN p : p[k] = i
  <2> HIDE DEF N
  <2> QED BY <1>2, InOrderTold
<1>4. s = [k \in DOMAIN p |-> RerunByIp(new)[new[p[k]].ip]] BY DEF Added
<1> HIDE DEF p
<1>5. \A k \in DOMAIN p : p[k] \in N BY <1>3
<1>6. ASSUME NEW i \in N
      PROVE  /\ i \in DOMAIN new /\ new[i].ip \in Ips(new) \ Ips(old)
             /\ \A j \in N : new[j].ip = new[i].ip => i = j
  <2>1. i \in DOMAIN new /\ new[i].ip \in Ips(new) \ Ips(old) BY DEF FirstOfNew, Ips
  <2>2. ASSUME NEW j \in N, new[j].ip = new[i].ip, i # j PROVE FALSE
    <3>1. i \in Nat /\ j \in Nat /\ i >= 1 /\ j >= 1 BY <1>1 DEF FirstOfNew
    <3>2. CASE i < j
      <4>1. i \in 1 .. (j - 1) BY <3>1, <3>2
      <4> QED BY <2>2, <4>1 DEF FirstOfNew
    <3>3. CASE j < i
      <4>1. j \in 1 .. (i - 1) BY <3>1, <3>3
      <4> QED BY <2>2, <4>1 DEF FirstOfNew
    <3> QED BY <2>2, <3>1, <3>2, <3>3
  <2> QED BY <2>1, <2>2
<1>7. ASSUME NEW ip \in Ips(new) \ Ips(old) PROVE \E i \in N : new[i].ip = ip
  <2> DEFINE at == {i \in DOMAIN new : new[i].ip = ip}
  <2>1. at \in SUBSET Nat /\ at # {} BY <1>1 DEF Ips
  <2>2. PICK i \in at : \A j \in at : i <= j BY <2>1, Smallest
  <2>3. \A j \in 1..(i - 1) : new[j].ip # new[i].ip
    <3> SUFFICES ASSUME NEW j \in 1..(i - 1), new[j].ip = new[i].ip PROVE FALSE OBVIOUS
    <3>1. i \in Nat /\ i <= Len(new) BY <1>1
    <3>2. j \in DOMAIN new /\ j \in Nat /\ j < i BY <1>1, <3>1
    <3>3. j \in at BY <3>2
    <3> QED BY <2>2, <3>1, <3>2, <3>3
  <2> QED BY <2>2, <2>3 DEF FirstOfNew
<1> HIDE DEF N
<1>8. ASSUME NEW k \in DOMAIN p
      PROVE  /\ s[k] \in Row /\ s[k].ip = new[p[k]].ip /\ s[k] \in ToSet(new)
             /\ new[p[k]].ip \in Ips(new) \ Ips(old)
  <2>1. new[p[k]].ip \in Ips(new) \ Ips(old) /\ s[k] = RerunByIp(new)[new[p[k]].ip] BY <1>4, <1>5, <1>6
  <2> QED BY <2>1, RerunByIpTold
<1>9. s \in Seq(Row) /\ DOMAIN s = DOMAIN p
  <2>1. s = [k \in 1 .. Len(p) |-> s[k]] /\ DOMAIN s = DOMAIN p BY <1>3, <1>4
  <2> QED BY <1>3, <1>8, <2>1, IsASeq
<1>10. \A k, l \in DOMAIN s : s[k].ip = s[l].ip => k = l BY <1>3, <1>5, <1>6, <1>8, <1>9
<1>11. \A ip \in Ips(new) \ Ips(old) : \E k \in DOMAIN s : s[k].ip = ip BY <1>3, <1>7, <1>8, <1>9
<1> QED BY <1>8, <1>9, <1>10, <1>11

LEMMA Rearranged ==
    ASSUME NEW Row, NEW rows \in Seq(Row), NEW X, NEW ord \in Seq(X),
           NEW s, (s = rows /\ ord = <<>>) \/ s = SortedByDevice(rows, ord)
    PROVE  /\ s \in Seq(Row) /\ Len(s) = Len(rows) /\ Ips(s) = Ips(rows) /\ ToSet(s) = ToSet(rows)
           /\ DistinctIps(rows) => DistinctIps(s)
           /\ \A i, j \in DOMAIN s : i < j => Position(s[i].ip, ord) <= Position(s[j].ip, ord)
           /\ \A i, j \in DOMAIN rows :
                i < j /\ Position(rows[i].ip, ord) = Position(rows[j].ip, ord) =>
                  \E k, l \in DOMAIN s : k < l /\ s[k] = rows[i] /\ s[l] = rows[j]
<1>1. DOMAIN rows = 1 .. Len(rows) /\ Len(rows) \in Nat OBVIOUS
<1>2. CASE s = rows /\ ord = <<>>
  <2>1. \A ip : Position(ip, ord) = 1
    <3>1. Len(ord) = 0 /\ DOMAIN ord = {} BY <1>2
    <3> QED BY <3>1 DEF Position
  <2> QED BY <1>2, <2>1
<1>3. CASE s = SortedByDevice(rows, ord)
  <2>1. PICK p : SortedAs(s, rows, ord, p) BY <1>3, SortedByDeviceTold
  <2>2. s \in Seq(Row) /\ Len(s) = Len(rows) /\ DOMAIN s = 1 .. Len(rows)
    <3>1. s \in Seq(Row) /\ Len(s) = Len(rows) BY <1>3, SortedByDeviceTold
    <3> QED BY <3>1
  <2>moved. \A k \in DOMAIN s : p[k] \in DOMAIN rows /\ s[k] = rows[p[k]] BY <2>1 DEF SortedAs
  <2>all. \A i \in DOMAIN rows : \E k \in DOMAIN s : s[k] = rows[i]
    <3> TAKE i \in DOMAIN rows
    <3>1. PICK k \in DOMAIN s : p[k] = i BY <2>1 DEF SortedAs
    <3> QED BY <2>moved, <3>1
  <2>3. ToSet(s) = ToSet(rows)
    <3>1. ASSUME NEW k \in DOMAIN s PROVE s[k] \in ToSet(rows) BY <2>moved DEF ToSet
    <3>2. ASSUME NEW i \in DOMAIN rows PROVE rows[i] \in ToSet(s) BY <2>all DEF ToSet
    <3> QED BY <3>1, <3>2 DEF ToSet
  <2>4. Ips(s) = Ips(rows)
    <3>1. ASSUME NEW k \in DOMAIN s PROVE s[k].ip \in Ips(rows)
      <4>1. p[k] \in DOMAIN rows /\ s[k].ip = rows[p[k]].ip BY <2>moved
      <4> QED BY <4>1 DEF Ips
    <3>2. ASSUME NEW i \in DOMAIN rows PROVE rows[i].ip \in Ips(s)
      <4>1. PICK k \in DOMAIN s : s[k].ip = rows[i].ip BY <2>all
      <4> QED BY <4>1 DEF Ips
    <3> QED BY <3>1, <3>2 DEF Ips
  <2>5. ASSUME DistinctIps(rows), NEW k \in DOMAIN s, NEW l \in DOMAIN s, s[k].ip = s[l].ip PROVE k = l
    <3>1. rows[p[k]].ip = rows[p[l]].ip /\ p[k] \in DOMAIN rows /\ p[l] \in DOMAIN rows
      BY <2>1, <2>5 DEF SortedAs
    <3>2. p[k] = p[l] BY <2>5, <3>1 DEF DistinctIps
    <3> QED BY <2>1, <3>2 DEF SortedAs
  <2>6. \A i, j \in DOMAIN s : i < j => Position(s[i].ip, ord) <= Position(s[j].ip, ord)
    <3> SUFFICES ASSUME NEW i \in DOMAIN s, NEW j \in DOMAIN s, i < j
                 PROVE  Position(s[i].ip, ord) <= Position(s[j].ip, ord)
      OBVIOUS
    <3>1. Position(s[i].ip, ord) \in Nat /\ Position(s[j].ip, ord) \in Nat BY PositionType
    <3>2. \/ Position(s[i].ip, ord) < Position(s[j].ip, ord)
          \/ Position(s[i].ip, ord) = Position(s[j].ip, ord)
      BY <2>1 DEF SortedAs
    <3> QED BY <3>1, <3>2
  <2>7. ASSUME NEW i \in DOMAIN rows, NEW j \in DOMAIN rows, i < j,
               Position(rows[i].ip, ord) = Position(rows[j].ip, ord)
        PROVE  \E k, l \in DOMAIN s : k < l /\ s[k] = rows[i] /\ s[l] = rows[j]
    <3>1. PICK k \in DOMAIN s, l \in DOMAIN s : p[k] = i /\ p[l] = j BY <2>1 DEF SortedAs
    <3>2. s[k] = rows[i] /\ s[l] = rows[j] BY <2>1, <3>1 DEF SortedAs
    <3>3. k \in Nat /\ l \in Nat /\ k # l /\ i \in Nat /\ j \in Nat BY <1>1, <2>2, <2>7, <3>1
    <3>4. ASSUME l < k PROVE FALSE
      <4>1. \/ Position(s[l].ip, ord) < Position(s[k].ip, ord)
            \/ Position(s[l].ip, ord) = Position(s[k].ip, ord) /\ p[l] < p[k]
        BY <2>1, <3>4 DEF SortedAs
      <4>2. Position(s[l].ip, ord) = Position(s[k].ip, ord) /\ Position(s[l].ip, ord) \in Nat
        BY <2>7, <3>2, PositionType
      <4> QED BY <2>7, <3>1, <3>3, <4>1, <4>2
    <3> QED BY <3>2, <3>3, <3>4
  <2> QED BY <2>2, <2>3, <2>4, <2>5, <2>6, <2>7 DEF DistinctIps
<1> QED BY <1>2, <1>3

\* Whatever the rows before, the rows of the retry and the list of devices are:
\* each device of either once, with its newest row, in the order of the list,
\* and the devices the list does not name as they stood.
THEOREM MergeIsRightForAll ==
    ASSUME NEW Row, NEW old \in Seq(Row), NEW new \in Seq(Row), NEW X, NEW ord \in Seq(X),
           DistinctIps(old)
    PROVE  /\ MergeRetryResults(old, new, ord) \in Seq(Row)
           /\ IsMergeOf(MergeRetryResults(old, new, ord), old, new, ord)
           /\ KeepsOrderOfUnknown(MergeRetryResults(old, new, ord), old, ord)
<1> DEFINE first == Replaced(old, new)
           rest == Added(old, new)
           joined == first \o rest
           merged1 == MergeRetryResults(old, new, ord)
<1>1. /\ first \in Seq(Row) /\ Len(first) = Len(old) /\ DOMAIN first = DOMAIN old
      /\ \A i \in DOMAIN first :
           /\ first[i].ip = old[i].ip
           /\ first[i] \in IF first[i].ip \in Ips(new) THEN ToSet(new) ELSE ToSet(old)
  BY ReplacedTold
<1>2. /\ rest \in Seq(Row)
      /\ \A k \in DOMAIN rest : rest[k].ip \in Ips(new) \ Ips(old) /\ rest[k] \in ToSet(new)
      /\ \A k, l \in DOMAIN rest : rest[k].ip = rest[l].ip => k = l
      /\ \A ip \in Ips(new) \ Ips(old) : \E k \in DOMAIN rest : rest[k].ip = ip
  BY AddedTold
<1>3. merged1 = IF ord = <<>> THEN joined ELSE SortedByDevice(joined, ord) BY MergeIsSorted
<1> HIDE DEF first, rest
<1>4. /\ joined \in Seq(Row) /\ DOMAIN joined = 1 .. Len(first) + Len(rest)
      /\ Len(first) \in Nat /\ Len(rest) \in Nat
      /\ DOMAIN first = 1 .. Len(first) /\ DOMAIN rest = 1 .. Len(rest)
      /\ \A i \in DOMAIN first : i \in DOMAIN joined /\ joined[i] = first[i]
      /\ \A k \in DOMAIN rest : Len(first) + k \in DOMAIN joined /\ joined[Len(first) + k] = rest[k]
      /\ \A i \in DOMAIN joined : i \in DOMAIN first \/ \E k \in DOMAIN rest : i = Len(first) + k
  <2>1. /\ joined \in Seq(Row) /\ Len(joined) = Len(first) + Len(rest)
        /\ \A i \in 1 .. Len(first) + Len(rest) :
             joined[i] = IF i <= Len(first) THEN first[i] ELSE rest[i - Len(first)]
    <3>1. first \in Seq(Row) /\ rest \in Seq(Row) BY <1>1, <1>2
    <3> QED BY <3>1, ConcatProperties
  <2>2. /\ Len(first) \in Nat /\ Len(rest) \in Nat
        /\ DOMAIN first = 1 .. Len(first) /\ DOMAIN rest = 1 .. Len(rest)
    BY <1>1, <1>2
  <2>3. DOMAIN joined = 1 .. Len(first) + Len(rest) BY <2>1, <2>2
  <2> HIDE DEF joined
  <2>4. \A i \in DOMAIN first : i \in DOMAIN joined /\ joined[i] = first[i] BY <2>1, <2>2, <2>3
  <2>5. \A k \in DOMAIN rest : Len(first) + k \in DOMAIN joined /\ joined[Len(first) + k] = rest[k]
    <3> SUFFICES ASSUME NEW k \in DOMAIN rest
                 PROVE  Len(first) + k \in DOMAIN joined /\ joined[Len(first) + k] = rest[k]
      OBVIOUS
    <3>1. /\ Len(first) + k \in 1 .. Len(first) + Len(rest) /\ ~(Len(first) + k <= Len(first))
          /\ (Len(first) + k) - Len(first) = k
      BY <2>2
    <3> QED BY <2>1, <2>3, <3>1
  <2>6. \A i \in DOMAIN joined : i \in DOMAIN first \/ \E k \in DOMAIN rest : i = Len(first) + k
    <3> SUFFICES ASSUME NEW i \in DOMAIN joined, i \notin DOMAIN first
                 PROVE  \E k \in DOMAIN rest : i = Len(first) + k
      OBVIOUS
    <3>1. i - Len(first) \in DOMAIN rest /\ i = Len(first) + (i - Len(first)) BY <2>2, <2>3
    <3> QED BY <3>1
  <2> QED BY <2>1, <2>2, <2>3, <2>4, <2>5, <2>6
<1> HIDE DEF joined, merged1
<1>5. /\ merged1 \in Seq(Row) /\ Ips(merged1) = Ips(joined) /\ ToSet(merged1) = ToSet(joined)
      /\ DistinctIps(joined) => DistinctIps(merged1)
      /\ \A i, j \in DOMAIN merged1 : i < j => Position(merged1[i].ip, ord) <= Position(merged1[j].ip, ord)
      /\ \A i, j \in DOMAIN joined :
           i < j /\ Position(joined[i].ip, ord) = Position(joined[j].ip, ord) =>
             \E k, l \in DOMAIN merged1 : k < l /\ merged1[k] = joined[i] /\ merged1[l] = joined[j]
  <2>1. (merged1 = joined /\ ord = <<>>) \/ merged1 = SortedByDevice(joined, ord) BY <1>3
  <2>2. joined \in Seq(Row) BY <1>4
  <2> QED BY <2>1, <2>2, Rearranged
<1>6. \A i \in DOMAIN first : joined[i].ip \in Ips(old) /\ joined[i].ip = old[i].ip /\ i \in DOMAIN old
  BY <1>1, <1>4 DEF Ips
<1>7. DistinctIps(joined)
  <2> SUFFICES ASSUME NEW i \in DOMAIN joined, NEW j \in DOMAIN joined, joined[i].ip = joined[j].ip
               PROVE  i = j
    BY DEF DistinctIps
  <2>1. CASE i \in DOMAIN first /\ j \in DOMAIN first BY <1>6, <2>1 DEF DistinctIps
  <2>2. CASE i \in DOMAIN first /\ \E k \in DOMAIN rest : j = Len(first) + k BY SMTT(30), <1>2, <1>4, <1>6, <2>2
  <2>3. CASE j \in DOMAIN first /\ \E k \in DOMAIN rest : i = Len(first) + k BY <1>2, <1>4, <1>6, <2>3
  <2>4. CASE (\E k \in DOMAIN rest : i = Len(first) + k) /\ \E k \in DOMAIN rest : j = Len(first) + k
    <3>1. PICK k \in DOMAIN rest, l \in DOMAIN rest : i = Len(first) + k /\ j = Len(first) + l BY <2>4
    <3>2. joined[i] = rest[k] /\ joined[j] = rest[l] BY <1>4, <3>1
    <3>3. rest[k].ip = rest[l].ip BY <3>2
    <3>4. k = l BY <1>2, <3>3
    <3> QED BY <3>1, <3>4
  <2> QED BY <1>4, <2>1, <2>2, <2>3, <2>4
<1>8. Ips(joined) = Ips(old) \cup Ips(new)
  <2>1. ASSUME NEW i \in DOMAIN joined PROVE joined[i].ip \in Ips(old) \cup Ips(new)
    <3>1. CASE i \in DOMAIN first BY <1>6, <3>1
    <3>2. CASE \E k \in DOMAIN rest : i = Len(first) + k
      <4>1. PICK k \in DOMAIN rest : i = Len(first) + k BY <3>2
      <4>2. joined[i] = rest[k] BY <1>4, <4>1
      <4> QED BY <1>2, <4>2
    <3> QED BY <1>4, <3>1, <3>2
  <2>2. \A i \in DOMAIN old : old[i].ip \in Ips(joined) BY <1>1, <1>4 DEF Ips
  <2>3. ASSUME NEW ip \in Ips(new) \ Ips(old) PROVE ip \in Ips(joined)
    <3>1. PICK k \in DOMAIN rest : rest[k].ip = ip BY <1>2
    <3>2. Len(first) + k \in DOMAIN joined /\ joined[Len(first) + k].ip = ip BY <1>4, <3>1
    <3> QED BY <3>2 DEF Ips
  <2> QED BY <2>1, <2>2, <2>3 DEF Ips
<1>9. \A i \in DOMAIN joined :
        joined[i] \in IF joined[i].ip \in Ips(new) THEN ToSet(new) ELSE ToSet(old)
  <2> SUFFICES ASSUME NEW i \in DOMAIN joined
               PROVE  joined[i] \in IF joined[i].ip \in Ips(new) THEN ToSet(new) ELSE ToSet(old)
    OBVIOUS
  <2>1. CASE i \in DOMAIN first BY <1>1, <1>4, <2>1
  <2>2. CASE \E k \in DOMAIN rest : i = Len(first) + k
    <3>1. PICK k \in DOMAIN rest : i = Len(first) + k BY <2>2
    <3>2. joined[i] = rest[k] BY <1>4, <3>1
    <3> QED BY <1>2, <3>2
  <2> QED BY <1>4, <2>1, <2>2
<1>10. IsMergeOf(merged1, old, new, ord)
  <2>1. \A i \in DOMAIN merged1 : \E k \in DOMAIN joined : merged1[i] = joined[k]
    <3> TAKE i \in DOMAIN merged1
    <3>1. merged1[i] \in ToSet(merged1) BY DEF ToSet
    <3>2. merged1[i] \in ToSet(joined) BY <1>5, <3>1
    <3> QED BY <3>2 DEF ToSet
  <2>2. \A i \in DOMAIN merged1 :
          merged1[i] \in IF merged1[i].ip \in Ips(new) THEN ToSet(new) ELSE ToSet(old)
    BY <1>9, <2>1
  <2> QED BY <1>5, <1>7, <1>8, <2>2 DEF IsMergeOf, DistinctIps
<1>11. KeepsOrderOfUnknown(merged1, old, ord)
  <2> SUFFICES ASSUME NEW i \in DOMAIN old, NEW j \in DOMAIN old, i < j,
                      {old[i].ip, old[j].ip} \cap ToSet(ord) = {}
               PROVE  \E k, l \in DOMAIN merged1 : k < l /\ merged1[k].ip = old[i].ip /\ merged1[l].ip = old[j].ip
    BY DEF KeepsOrderOfUnknown
  <2>1. \A ip : ip \notin ToSet(ord) => Position(ip, ord) = Len(ord) + 1 BY DEF Position, ToSet
  <2>2. joined[i].ip = old[i].ip /\ joined[j].ip = old[j].ip /\ i \in DOMAIN joined /\ j \in DOMAIN joined
    BY <1>1, <1>4, <1>6
  <2>3. Position(joined[i].ip, ord) = Position(joined[j].ip, ord) BY <2>1, <2>2
  <2> QED BY <1>5, <2>2, <2>3
<1> QED BY <1>5, <1>10, <1>11 DEF merged1

----------------------------------------------------------------------------
(* A retry, and the retry of a retry (MCRetryMerge).                       *)

MergeRow == [ip : IpSet, run : 0 .. 2]

LEMMA RowListTold ==
    ASSUME NEW r \in 0 .. 2, NEW s \in RowLists(r)
    PROVE  s \in Seq(MergeRow) /\ DistinctIps(s) /\ \A row \in ToSet(s) : row.run = r
<1>0. PICK t \in IpLists(IpSet) : s = [i \in DOMAIN t |-> [ip |-> t[i], run |-> r]] BY DEF RowLists
<1>1. PICK n \in 0 .. Cardinality(IpSet) : t \in [1..n -> IpSet] /\ IsInjective(t) BY DEF IpLists
<1>2. n \in Nat /\ DOMAIN t = 1..n BY <1>1, IpSetAssumption, FS_CardinalityType
<1>3. DOMAIN s = 1..n /\ \A i \in 1..n : s[i] = [ip |-> t[i], run |-> r] BY <1>0, <1>2
<1>4. \A i \in 1..n : s[i] \in MergeRow BY <1>1, <1>3 DEF MergeRow
<1>5. s \in Seq(MergeRow)
  <2>1. s = [i \in 1..n |-> s[i]] BY <1>0, <1>2
  <2> QED BY <1>2, <1>4, <2>1, IsASeq
<1>6. DistinctIps(s)
  <2>1. \A i, j \in 1..n : t[i] = t[j] => i = j BY <1>1, <1>2 DEF IsInjective
  <2> QED BY <1>3, <2>1 DEF DistinctIps
<1>7. \A row \in ToSet(s) : row.run = r BY <1>3 DEF ToSet
<1> QED BY <1>5, <1>6, <1>7

LEMMA IpListTold == ASSUME NEW s \in IpLists(IpSet) PROVE s \in Seq(IpSet)
<1>1. PICK n \in 0 .. Cardinality(IpSet) : s \in [1..n -> IpSet] BY DEF IpLists
<1>2. n \in Nat BY IpSetAssumption, FS_CardinalityType
<1> QED BY <1>1, <1>2

\* The lists stay, and the rows shown are what one merge or two have made of them.
MergeInv ==
    /\ previous \in RowLists(0) /\ rerun \in RowLists(1) /\ again \in RowLists(2)
    /\ Ips(again) \subseteq Ips(rerun) /\ order \in IpLists(IpSet)
    /\ round \in 0 .. 2
    /\ round = 0 => merged = previous
    /\ round = 1 => merged = MergeRetryResults(previous, rerun, order)
    /\ round = 2 => merged = MergeRetryResults(MergeRetryResults(previous, rerun, order), again, order)

LEMMA MergeInvIsRight == ASSUME MergeInv PROVE MergeIsRight
<1> DEFINE one == MergeRetryResults(previous, rerun, order)
           two == MergeRetryResults(one, again, order)
<1>1. /\ previous \in Seq(MergeRow) /\ DistinctIps(previous) /\ \A row \in ToSet(previous) : row.run = 0
      /\ rerun \in Seq(MergeRow) /\ \A row \in ToSet(rerun) : row.run = 1
      /\ again \in Seq(MergeRow) /\ \A row \in ToSet(again) : row.run = 2
      /\ order \in Seq(IpSet)
  BY RowListTold, IpListTold DEF MergeInv
<1>2. /\ one \in Seq(MergeRow)
      /\ IsMergeOf(one, previous, rerun, order)
      /\ KeepsOrderOfUnknown(one, previous, order)
  BY <1>1, MergeIsRightForAll
<1> HIDE DEF one
<1>3. DistinctIps(one) BY <1>2 DEF IsMergeOf, DistinctIps
<1>4. IsMergeOf(two, one, again, order) BY <1>1, <1>2, <1>3, MergeIsRightForAll
<1> HIDE DEF two
<1>5. Ips(two) = Ips(previous) \cup Ips(rerun) BY <1>2, <1>4 DEF IsMergeOf, MergeInv
<1>6. ASSUME NEW i \in DOMAIN two
      PROVE  two[i].run = IF two[i].ip \in Ips(again) THEN 2
                          ELSE IF two[i].ip \in Ips(rerun) THEN 1 ELSE 0
  <2>1. CASE two[i].ip \in Ips(again) BY <1>1, <1>4, <2>1 DEF IsMergeOf
  <2>2. CASE two[i].ip \notin Ips(again)
    <3>1. two[i] \in ToSet(one) BY <1>4, <2>2 DEF IsMergeOf
    <3>2. PICK k \in DOMAIN one : one[k] = two[i] BY <3>1 DEF ToSet
    <3>3. one[k] \in IF one[k].ip \in Ips(rerun) THEN ToSet(rerun) ELSE ToSet(previous)
      BY <1>2 DEF IsMergeOf
    <3> QED BY <1>1, <2>2, <3>2, <3>3
  <2> QED BY <2>1, <2>2
<1> QED BY <1>2, <1>5, <1>6 DEF MergeInv, MergeIsRight, one, two

\* The merge of a retry, and of a retry of a retry, is right for any devices and rows.
THEOREM MergeAlwaysRight == MergeSpec => []MergeIsRight
<1>1. MergeInit => MergeInv BY DEF MergeInit, MergeInv
<1>2. MergeInv /\ [MergeNext]_mergeVars => MergeInv'
  <2> SUFFICES ASSUME MergeInv, [MergeNext]_mergeVars PROVE MergeInv' OBVIOUS
  <2>1. CASE MergeRerun /\ UNCHANGED <<previous, rerun, again, order>>
    BY <2>1 DEF MergeInv, MergeRerun
  <2>2. CASE MergeAgain /\ UNCHANGED <<previous, rerun, again, order>>
    BY <2>2 DEF MergeInv, MergeAgain
  <2>3. CASE UNCHANGED mergeVars BY <2>3 DEF MergeInv, mergeVars
  <2> QED BY <2>1, <2>2, <2>3 DEF MergeNext
<1> QED BY <1>1, <1>2, MergeInvIsRight, PTL DEF MergeSpec

----------------------------------------------------------------------------
(* The run of the tab and its worker (InspectorRun).                       *)

Phases == {"none", "queued", "load", "batch", "check", "save"}
RequestSet == [made : BOOLEAN, first : BOOLEAN, only : SUBSET Devices, merging : BOOLEAN,
               merge : Seq(RowSet), stamp : 0..MaxRuns]
JobSet == [phase : Phases, run : 0..MaxRuns, request : RequestSet, targets : SUBSET Devices,
           order : Seq(Devices), rows : Seq(RowSet)]
FileSet == [state : {"absent", "whole", "broken"}, run : 0..MaxRuns, rows : Seq(RowSet)]
SignalSet ==
    [type : {"error", "finished"}] \cup [type : {"total"}, total : Nat]
      \cup [type : {"device_complete"}, success : BOOLEAN]
      \cup [type : {"result"}, result : ResultSet]

\* The variables have their types; a run number in `stopped` is not 0.
RunTypes ==
    /\ running \in BOOLEAN /\ shuttingDown \in BOOLEAN
    /\ event \in 0..MaxRuns /\ runs \in 0..MaxRuns
    /\ lastResult \in ResultSet /\ lastRequest \in RequestSet
    /\ progress \in [total : Nat, done : Nat, failed : Nat]
    /\ stopped \in SUBSET (1..MaxRuns) /\ early \in SUBSET stopped
    /\ job \in JobSet /\ signals \in Seq(SignalSet)
    /\ inventory \in SUBSET Devices /\ excel \in [1..MaxRuns -> FileSet]

AtWork == job.phase # "none"

\* The worker is of the last run, which has shown nothing yet; what it asks for
\* is what the tab remembers.
WorkerIsOfLastRun ==
    AtWork => /\ job.run = runs /\ job.run \in 1..MaxRuns
              /\ job.request = lastRequest
              /\ lastResult = NoResult

\* A signal that ends a run is one of a worker that has ended; nothing follows
\* `finished`.
FinishedIsLast(s) == \A i \in DOMAIN s : s[i].type = "finished" => i = Len(s)
SignalsFit ==
    /\ FinishedIsLast(signals)
    /\ \A sig \in ToSet(signals) : sig.type \in {"error", "result", "finished"} => ~AtWork

\* A retry asks for the failed devices of the rows it merges into.
RequestIsRight(r) ==
    r.merging => /\ r.only = Failed(r.merge) /\ r.only # {}
                 /\ DistinctIps(r.merge)
                 /\ r.stamp \in 1..MaxRuns

\* The worker's rows: one for a device, of the devices asked for, of this run.
JobIsRight ==
    AtWork => /\ job.phase \in {"queued", "load"} => job.rows = <<>>
              /\ job.request.only # {} => job.targets \subseteq job.request.only
              /\ Ips(job.rows) \subseteq job.targets
              /\ DistinctIps(job.rows)
              /\ \A row \in ToSet(job.rows) : row.run = job.run

\* A result, shown or on its way: in its file, a row for a device, and those of
\* a retry in place of the failed ones.
ResultIsRight(res) ==
    res.has =>
        /\ res.stamp \in 1..MaxRuns
        /\ excel[res.stamp] = [state |-> "whole", run |-> res.run, rows |-> res.rows]
        /\ DistinctIps(res.rows)
        /\ lastRequest.merging =>
             /\ Ips(res.rows) = Ips(lastRequest.merge)
             /\ \A i \in DOMAIN res.rows :
                  \/ res.rows[i] \in ToSet(lastRequest.merge)
                  \/ res.rows[i].ip \in lastRequest.only /\ res.rows[i].run = res.run
ResultsAreRight ==
    /\ ResultIsRight(lastResult)
    /\ \A sig \in ToSet(signals) : sig.type = "result" => ResultIsRight(sig.result)

\* No number of a file is that of the worker, and none is of a run stopped early.
NumbersFit ==
    /\ \A s \in 1..MaxRuns : excel[s].run <= runs /\ excel[s].run \notin early
                              /\ (AtWork => excel[s].run # job.run)
    /\ lastResult.run \notin early
    /\ \A sig \in ToSet(signals) : sig.type = "result" => sig.result.run \notin early
    /\ job.phase = "save" => job.run \notin early

RunInv ==
    /\ RunTypes
    /\ RunningCoversTheWorker
    /\ WorkerIsOfLastRun
    /\ SignalsFit
    /\ RequestIsRight(lastRequest)
    /\ JobIsRight
    /\ ResultsAreRight
    /\ NumbersFit

\* What a signal is, and what becomes of the queue when signals are added or taken.
LEMMA SignalTold ==
    ASSUME NEW sig \in SignalSet
    PROVE  /\ sig.type \in {"error", "finished", "total", "device_complete", "result"}
           /\ sig.type = "total" => sig.total \in Nat
           /\ sig.type = "device_complete" => sig.success \in BOOLEAN
           /\ sig.type = "result" => sig.result \in ResultSet
BY DEF SignalSet

LEMMA ElementsTold ==
    ASSUME NEW X, NEW s \in Seq(X)
    PROVE  /\ \A i \in DOMAIN s : s[i] \in ToSet(s)
           /\ \A x \in ToSet(s) : x \in X /\ \E i \in DOMAIN s : x = s[i]
BY DEF ToSet

IsAppend(t, s, x) == t = Append(s, x)

LEMMA AppendTold ==
    ASSUME NEW X, NEW s \in Seq(X), NEW x \in X, NEW t, IsAppend(t, s, x)
    PROVE  /\ t \in Seq(X) /\ ToSet(t) = ToSet(s) \cup {x}
           /\ Len(s) \in Nat /\ Len(t) = Len(s) + 1 /\ DOMAIN s = 1..Len(s) /\ DOMAIN t = 1..Len(s) + 1
           /\ \A i \in DOMAIN s : t[i] = s[i]
           /\ t[Len(s) + 1] = x
<1>1. /\ t \in Seq(X) /\ Len(s) \in Nat /\ Len(t) = Len(s) + 1
      /\ DOMAIN s = 1..Len(s) /\ DOMAIN t = 1..Len(s) + 1
      /\ \A i \in DOMAIN s : t[i] = s[i]
      /\ t[Len(s) + 1] = x
  BY DEF IsAppend
<1>2. \A i \in DOMAIN t : i \in DOMAIN s \/ i = Len(s) + 1 BY <1>1
<1>3. \A i \in DOMAIN s : i \in DOMAIN t BY <1>1
<1>4. ToSet(t) \subseteq ToSet(s) \cup {x} BY <1>1, <1>2 DEF ToSet
<1>5. ASSUME NEW y \in ToSet(s) \cup {x} PROVE y \in ToSet(t)
  <2>1. CASE y = x
    <3>1. Len(s) + 1 \in DOMAIN t BY <1>1
    <3> QED BY <1>1, <2>1, <3>1 DEF ToSet
  <2>2. CASE y \in ToSet(s)
    <3>1. PICK i \in DOMAIN s : s[i] = y BY <2>2 DEF ToSet
    <3> QED BY <1>1, <1>3, <3>1 DEF ToSet
  <2> QED BY <2>1, <2>2
<1> QED BY <1>1, <1>4, <1>5

LEMMA TailTold ==
    ASSUME NEW X, NEW s \in Seq(X), s # <<>>
    PROVE  /\ Tail(s) \in Seq(X) /\ Head(s) = s[1] /\ Head(s) \in ToSet(s)
           /\ ToSet(Tail(s)) \subseteq ToSet(s)
           /\ Len(s) \in Nat \ {0} /\ Len(Tail(s)) = Len(s) - 1
           /\ DOMAIN s = 1..Len(s) /\ DOMAIN Tail(s) = 1..Len(s) - 1
           /\ \A i \in DOMAIN Tail(s) : i + 1 \in DOMAIN s /\ Tail(s)[i] = s[i + 1]
<1>1. /\ Tail(s) \in Seq(X) /\ Head(s) = s[1]
      /\ Len(s) \in Nat \ {0} /\ Len(Tail(s)) = Len(s) - 1
      /\ DOMAIN s = 1..Len(s) /\ DOMAIN Tail(s) = 1..Len(s) - 1
  OBVIOUS
<1>2. \A i \in DOMAIN Tail(s) : i + 1 \in DOMAIN s /\ Tail(s)[i] = s[i + 1]
  <2> SUFFICES ASSUME NEW i \in DOMAIN Tail(s) PROVE i + 1 \in DOMAIN s /\ Tail(s)[i] = s[i + 1] OBVIOUS
  <2>1. i \in 1..Len(Tail(s)) /\ i + 1 \in 1..Len(s) BY <1>1
  <2> QED BY <1>1, <2>1
<1>3. 1 \in DOMAIN s BY <1>1
<1>4. Head(s) \in ToSet(s) BY <1>1, <1>3 DEF ToSet
<1>5. \A i \in DOMAIN Tail(s) : Tail(s)[i] \in ToSet(s) BY <1>2 DEF ToSet
<1>6. ToSet(Tail(s)) \subseteq ToSet(s) BY <1>5 DEF ToSet
<1> QED BY <1>1, <1>2, <1>4, <1>6

Ongoing(s) == \A sig \in ToSet(s) : sig.type \notin {"error", "result", "finished"}

LEMMA TakeTold ==
    ASSUME NEW s \in Seq(SignalSet), s # <<>>, FinishedIsLast(s)
    PROVE  /\ Tail(s) \in Seq(SignalSet) /\ ToSet(Tail(s)) \subseteq ToSet(s)
           /\ Head(s) \in ToSet(s) /\ Head(s) \in SignalSet
           /\ FinishedIsLast(Tail(s))
           /\ Head(s).type = "finished" => Tail(s) = <<>>
<1> DEFINE t == Tail(s)
<1>1. /\ t \in Seq(SignalSet) /\ Head(s) = s[1] /\ Head(s) \in ToSet(s)
      /\ ToSet(t) \subseteq ToSet(s)
      /\ Len(s) \in Nat \ {0} /\ Len(t) = Len(s) - 1
      /\ DOMAIN s = 1..Len(s) /\ DOMAIN t = 1..Len(s) - 1
      /\ \A i \in DOMAIN t : i + 1 \in DOMAIN s /\ t[i] = s[i + 1]
  BY TailTold
<1> HIDE DEF t
<1>2. FinishedIsLast(t)
  <2> SUFFICES ASSUME NEW i \in DOMAIN t, t[i].type = "finished" PROVE i = Len(t)
    BY DEF FinishedIsLast
  <2>1. i + 1 \in DOMAIN s /\ s[i + 1].type = "finished" BY <1>1
  <2>2. i + 1 = Len(s) /\ i \in Nat BY <1>1, <2>1 DEF FinishedIsLast
  <2> QED BY <1>1, <2>2
<1>3. ASSUME Head(s).type = "finished" PROVE t = <<>>
  <2>1. 1 \in DOMAIN s /\ s[1].type = "finished" BY <1>1, <1>3
  <2>2. Len(s) = 1 BY <2>1 DEF FinishedIsLast
  <2>3. Len(t) = 0 BY <1>1, <2>2
  <2> QED BY <1>1, <2>3
<1> QED BY <1>1, <1>2, <1>3, ElementsTold DEF t

LEMMA EmitTold ==
    ASSUME NEW s \in Seq(SignalSet), Ongoing(s), NEW x \in SignalSet, NEW t, IsAppend(t, s, x)
    PROVE  t \in Seq(SignalSet) /\ ToSet(t) = ToSet(s) \cup {x} /\ FinishedIsLast(t)
<1>1. /\ t \in Seq(SignalSet) /\ ToSet(t) = ToSet(s) \cup {x}
      /\ Len(s) \in Nat /\ Len(t) = Len(s) + 1 /\ DOMAIN s = 1..Len(s) /\ DOMAIN t = 1..Len(s) + 1
      /\ \A i \in DOMAIN s : t[i] = s[i]
      /\ t[Len(s) + 1] = x
  BY AppendTold
<1>2. FinishedIsLast(t)
  <2> SUFFICES ASSUME NEW i \in DOMAIN t, t[i].type = "finished", i # Len(t) PROVE FALSE
    BY DEF FinishedIsLast
  <2>1. i \in DOMAIN s BY <1>1
  <2>2. s[i] \in ToSet(s) /\ s[i].type = "finished" BY <1>1, <2>1, ElementsTold
  <2> QED BY <2>2 DEF Ongoing
<1> QED BY <1>1, <1>2

IsEnd(t, s, x) == t = s \o <<x, [type |-> "finished"]>>

LEMMA EndTold ==
    ASSUME NEW s \in Seq(SignalSet), Ongoing(s), NEW x \in SignalSet, x.type # "finished",
           NEW t, IsEnd(t, s, x)
    PROVE  /\ t \in Seq(SignalSet) /\ FinishedIsLast(t)
           /\ ToSet(t) = ToSet(s) \cup {x, [type |-> "finished"]}
<1> DEFINE last == [type |-> "finished"]
           t1 == Append(s, x)
<1>1. last \in SignalSet BY DEF SignalSet
<1>2. IsAppend(t, t1, last) /\ IsAppend(t1, s, x) BY DEF IsAppend, IsEnd
<1> HIDE DEF t1, last
<1>3. /\ t1 \in Seq(SignalSet) /\ ToSet(t1) = ToSet(s) \cup {x}
      /\ Len(s) \in Nat /\ Len(t1) = Len(s) + 1 /\ DOMAIN s = 1..Len(s) /\ DOMAIN t1 = 1..Len(s) + 1
      /\ \A i \in DOMAIN s : t1[i] = s[i]
      /\ t1[Len(s) + 1] = x
  BY <1>2, AppendTold
<1>4. /\ t \in Seq(SignalSet) /\ ToSet(t) = ToSet(t1) \cup {last}
      /\ Len(t1) \in Nat /\ Len(t) = Len(t1) + 1 /\ DOMAIN t1 = 1..Len(t1) /\ DOMAIN t = 1..Len(t1) + 1
      /\ \A i \in DOMAIN t1 : t[i] = t1[i]
      /\ t[Len(t1) + 1] = last
  <2>1. t1 \in Seq(SignalSet) BY <1>3
  <2> QED BY <1>1, <1>2, <2>1, AppendTold
<1>5. FinishedIsLast(t)
  <2> SUFFICES ASSUME NEW i \in DOMAIN t, t[i].type = "finished", i # Len(t) PROVE FALSE
    BY DEF FinishedIsLast
  <2>1. i \in DOMAIN t1 /\ t1[i].type = "finished" BY <1>4
  <2>2. i \in DOMAIN s /\ s[i].type = "finished" BY <1>3, <1>4, <2>1
  <2>3. s[i] \in ToSet(s) BY <2>2, ElementsTold
  <2> QED BY <2>2, <2>3 DEF Ongoing
<1> QED BY <1>3, <1>4, <1>5 DEF last

LEMMA NoneTyped ==
    /\ NoResult \in ResultSet /\ NoRequest \in RequestSet /\ NoJob \in JobSet /\ NoFile \in FileSet
    /\ ~NoResult.has /\ NoResult.run = 0 /\ ~NoRequest.merging /\ NoJob.phase = "none" /\ NoFile.run = 0
<1>1. MaxRuns \in Nat /\ 0 \in 0..MaxRuns BY RunAssumption
<1>2. <<>> \in Seq(RowSet) /\ <<>> \in Seq(Devices) OBVIOUS
<1>3. NoResult \in ResultSet /\ ~NoResult.has /\ NoResult.run = 0 BY <1>1, <1>2 DEF NoResult, ResultSet
<1>4. NoRequest \in RequestSet /\ ~NoRequest.merging BY <1>1, <1>2 DEF NoRequest, RequestSet
<1>5. NoJob \in JobSet /\ NoJob.phase = "none" BY <1>1, <1>2, <1>4 DEF NoJob, JobSet, Phases
<1>6. NoFile \in FileSet /\ NoFile.run = 0 BY <1>1, <1>2 DEF NoFile, FileSet
<1> QED BY <1>3, <1>4, <1>5, <1>6

LEMMA RunStart == Init => RunInv
<1> SUFFICES ASSUME Init PROVE RunInv OBVIOUS
<1>1. /\ lastResult = NoResult /\ lastRequest = NoRequest /\ job = NoJob /\ signals = <<>>
      /\ DOMAIN signals = {} /\ ToSet(signals) = {}
      /\ stopped = {} /\ early = {} /\ runs = 0
      /\ \A s \in 1..MaxRuns : excel[s] = NoFile
  BY DEF Init, ToSet
<1>2. RunTypes
  <2>1. signals \in Seq(SignalSet) BY <1>1
  <2>2. excel \in [1..MaxRuns -> FileSet] BY NoneTyped DEF Init
  <2>3. progress \in [total : Nat, done : Nat, failed : Nat] BY DEF Init, NoProgress
  <2>4. 0 \in 0..MaxRuns BY RunAssumption
  <2> QED BY <1>1, <2>1, <2>2, <2>3, <2>4, NoneTyped DEF Init, RunTypes
<1>3. RunningCoversTheWorker /\ WorkerIsOfLastRun /\ JobIsRight
  BY <1>1, NoneTyped DEF RunningCoversTheWorker, WorkerIsOfLastRun, JobIsRight, AtWork
<1>4. SignalsFit BY <1>1 DEF SignalsFit, FinishedIsLast
<1>5. RequestIsRight(lastRequest) BY <1>1, NoneTyped DEF RequestIsRight
<1>6. ResultsAreRight BY <1>1, NoneTyped DEF ResultsAreRight, ResultIsRight
<1>7. NumbersFit BY <1>1, NoneTyped DEF NumbersFit, AtWork
<1> QED BY <1>2, <1>3, <1>4, <1>5, <1>6, <1>7 DEF RunInv

\* Between runs there is no worker and no signal.
LEMMA Idle ==
    ASSUME RunInv, ~shuttingDown, ~running
    PROVE  job.phase = "none" /\ signals = <<>> /\ DOMAIN signals = {} /\ ToSet(signals) = {}
<1>1. job.phase = "none" /\ signals = <<>> BY DEF RunInv, RunningCoversTheWorker
<1> QED BY <1>1 DEF ToSet

LEMMA StartKeeps ==
    ASSUME RunInv, ~shuttingDown, ~running, NEW request \in RequestSet, RequestIsRight(request),
           StartRun(request)
    PROVE  RunInv'
<1> DEFINE new == [phase |-> "queued", run |-> runs + 1, request |-> request, targets |-> {},
                   order |-> <<>>, rows |-> <<>>]
<1>1. job.phase = "none" /\ signals = <<>> /\ DOMAIN signals = {} /\ ToSet(signals) = {} BY Idle
<1>2. /\ runs \in Nat /\ runs < MaxRuns /\ runs' = runs + 1 /\ runs + 1 \in 1..MaxRuns
      /\ lastResult' = NoResult /\ lastRequest' = request
      /\ UNCHANGED <<shuttingDown, stopped, signals, inventory, excel, early>>
  BY RunAssumption DEF StartRun, RunInv, RunTypes
<1>3. \/ running' = TRUE /\ event' = runs + 1 /\ job' = new
      \/ running' = FALSE /\ event' = 0 /\ job' = job
  BY DEF StartRun, NoJob
<1>4. new \in JobSet
  <2>1. <<>> \in Seq(RowSet) /\ <<>> \in Seq(Devices) OBVIOUS
  <2>2. runs + 1 \in 0..MaxRuns BY <1>2
  <2> QED BY <2>1, <2>2 DEF JobSet, Phases
<1>5. /\ new.phase = "queued" /\ new.run = runs + 1 /\ new.request = request
      /\ new.targets = {} /\ new.rows = <<>>
      /\ Ips(new.rows) = {} /\ DistinctIps(new.rows) /\ ToSet(new.rows) = {}
  BY DEF Ips, DistinctIps, ToSet
<1> HIDE DEF new
<1>6. RunTypes'
  <2>1. progress' \in [total : Nat, done : Nat, failed : Nat] BY DEF StartRun, NoProgress
  <2>2. runs + 1 \in 0..MaxRuns /\ 0 \in 0..MaxRuns BY <1>2, RunAssumption
  <2> QED BY <1>2, <1>3, <1>4, <2>1, <2>2, NoneTyped DEF RunInv, RunTypes
<1>7. RunningCoversTheWorker' BY <1>1, <1>2, <1>3, <1>5 DEF RunningCoversTheWorker
<1>8. WorkerIsOfLastRun' BY <1>1, <1>2, <1>3, <1>5 DEF WorkerIsOfLastRun, AtWork
<1>9. SignalsFit' BY <1>1, <1>2 DEF SignalsFit, FinishedIsLast
<1>10. RequestIsRight(lastRequest)' BY <1>2 DEF RequestIsRight
<1>11. JobIsRight' BY <1>1, <1>3, <1>5 DEF JobIsRight, AtWork
<1>12. ResultsAreRight' BY <1>1, <1>2, NoneTyped DEF ResultsAreRight, ResultIsRight
<1>13. NumbersFit'
  <2>1. \A s \in 1..MaxRuns : excel[s].run \in Nat /\ excel[s].run <= runs /\ excel[s].run \notin early
    BY DEF RunInv, RunTypes, FileSet, NumbersFit
  <2>2. \A s \in 1..MaxRuns : excel[s].run <= runs + 1 /\ excel[s].run # runs + 1 BY <1>2, <2>1
  <2>3. 0 \notin early BY RunAssumption DEF RunInv, RunTypes
  <2> QED BY <1>1, <1>2, <1>3, <1>5, <2>1, <2>2, <2>3, NoneTyped DEF NumbersFit, AtWork
<1> QED BY <1>6, <1>7, <1>8, <1>9, <1>10, <1>11, <1>12, <1>13 DEF RunInv

LEMMA RunKeeps == ASSUME RunInv, Run PROVE RunInv'
<1>1. PICK first \in BOOLEAN : StartRun([NoRequest EXCEPT !.made = TRUE, !.first = first]) BY DEF Run
<1> DEFINE request == [NoRequest EXCEPT !.made = TRUE, !.first = first]
<1>2. request \in RequestSet /\ ~request.merging BY NoneTyped DEF NoRequest, RequestSet
<1>3. StartRun(request) BY <1>1
<1> HIDE DEF request
<1>4. RequestIsRight(request) BY <1>2 DEF RequestIsRight
<1>5. ~shuttingDown /\ ~running BY DEF Run
<1> QED BY <1>2, <1>3, <1>4, <1>5, StartKeeps

LEMMA FailedTold ==
    ASSUME NEW rows \in Seq(RowSet)
    PROVE  Failed(rows) \subseteq Ips(rows) /\ Ips(rows) \subseteq Devices
<1>1. \A i \in DOMAIN rows : rows[i] \in RowSet OBVIOUS
<1>2. \A i \in DOMAIN rows : rows[i].ip \in Devices BY <1>1 DEF RowSet
<1> QED BY <1>2 DEF Failed, Ips

LEMMA RetryKeeps == ASSUME RunInv, RetryFailed PROVE RunInv'
<1> DEFINE request == [lastRequest EXCEPT !.first = FALSE, !.only = Failed(lastResult.rows),
                         !.merging = TRUE, !.merge = lastResult.rows, !.stamp = lastResult.stamp]
<1>1. StartRun(request) /\ ~shuttingDown /\ ~running /\ lastResult.has /\ Failed(lastResult.rows) # {}
  BY DEF RetryFailed
<1>2. lastResult.rows \in Seq(RowSet) /\ lastResult.stamp \in 0..MaxRuns /\ lastRequest \in RequestSet
  BY DEF RunInv, RunTypes, ResultSet
<1>3. Failed(lastResult.rows) \subseteq Devices BY <1>2, FailedTold
<1>4. request \in RequestSet BY <1>2, <1>3 DEF RequestSet
<1>5. /\ request.only = Failed(lastResult.rows) /\ request.merge = lastResult.rows
      /\ request.stamp = lastResult.stamp
  BY <1>2 DEF RequestSet
<1> HIDE DEF request
<1>6. lastResult.stamp \in 1..MaxRuns /\ DistinctIps(lastResult.rows)
  BY <1>1 DEF RunInv, ResultsAreRight, ResultIsRight
<1>7. RequestIsRight(request) BY <1>1, <1>5, <1>6 DEF RequestIsRight
<1> QED BY <1>1, <1>4, <1>7, StartKeeps

\* What is marked when the stop event is set: only the run at work.
LEMMA CancelTold ==
    ASSUME RunInv, event # 0, ~shuttingDown, SetCancelEvent
    PROVE  /\ stopped' \in SUBSET (1..MaxRuns) /\ early' \in SUBSET stopped'
           /\ early' # early => /\ job.phase \in {"queued", "load", "batch", "check"}
                                /\ early' = early \cup {job.run}
<1>1. event \in 1..MaxRuns BY RunAssumption DEF RunInv, RunTypes
<1>2. stopped' \in SUBSET (1..MaxRuns) /\ early' \in SUBSET stopped'
  BY <1>1 DEF SetCancelEvent, RunInv, RunTypes
<1>3. job.phase \in {"queued", "load", "batch", "check"} => event = job.run
  BY DEF RunInv, RunningCoversTheWorker
<1> QED BY <1>2, <1>3 DEF SetCancelEvent

LEMMA StopKeeps ==
    ASSUME RunInv,
           UNCHANGED <<running, event, lastResult, lastRequest, progress, runs, job,
                       signals, inventory, excel>>,
           shuttingDown' \in BOOLEAN, shuttingDown => shuttingDown',
           stopped' \in SUBSET (1..MaxRuns), early' \in SUBSET stopped',
           early' # early => /\ job.phase \in {"queued", "load", "batch", "check"}
                             /\ early' = early \cup {job.run}
    PROVE  RunInv'
<1>1. RunTypes' BY DEF RunInv, RunTypes
<1>2. RunningCoversTheWorker' BY DEF RunInv, RunningCoversTheWorker
<1>3. WorkerIsOfLastRun' /\ SignalsFit' /\ RequestIsRight(lastRequest)' /\ JobIsRight'
  BY DEF RunInv, WorkerIsOfLastRun, SignalsFit, FinishedIsLast, RequestIsRight, JobIsRight, AtWork
<1>4. ResultsAreRight' BY DEF RunInv, ResultsAreRight, ResultIsRight
<1>5. NumbersFit'
  <2>1. CASE early' = early BY <2>1 DEF RunInv, NumbersFit, AtWork
  <2>2. CASE early' # early
    <3>1. AtWork /\ job.phase # "save" /\ early' = early \cup {job.run} BY <2>2 DEF AtWork
    <3>2. lastResult.run = 0 /\ job.run # 0
      BY <3>1, NoneTyped, RunAssumption DEF RunInv, WorkerIsOfLastRun
    <3>3. \A sig \in ToSet(signals) : sig.type # "result" BY <3>1 DEF RunInv, SignalsFit
    <3>4. /\ \A s \in 1..MaxRuns : /\ excel[s].run <= runs /\ excel[s].run \notin early
                                   /\ excel[s].run # job.run
          /\ lastResult.run \notin early
      BY <3>1 DEF RunInv, NumbersFit
    <3> QED BY <3>1, <3>2, <3>3, <3>4 DEF NumbersFit, AtWork
  <2> QED BY <2>1, <2>2
<1> QED BY <1>1, <1>2, <1>3, <1>4, <1>5 DEF RunInv

LEMMA UserKeeps == ASSUME RunInv, User PROVE RunInv'
<1>1. CASE Run BY <1>1, RunKeeps
<1>2. CASE RetryFailed BY <1>2, RetryKeeps
<1>3. CASE Stop
  <2>1. SetCancelEvent /\ event # 0 /\ ~shuttingDown BY <1>3 DEF Stop
  <2>2. /\ UNCHANGED <<running, event, lastResult, lastRequest, progress, runs, job,
                       signals, inventory, excel>>
        /\ shuttingDown' = shuttingDown
    BY <1>3 DEF Stop, uiVars
  <2>3. shuttingDown' \in BOOLEAN BY <2>2 DEF RunInv, RunTypes
  <2> QED BY <2>1, <2>2, <2>3, CancelTold, StopKeeps
<1>4. CASE ChangeInventory
  <2>1. /\ ~shuttingDown /\ ~running /\ inventory' \in SUBSET Devices
        /\ lastResult' = NoResult /\ lastRequest' = NoRequest
        /\ UNCHANGED <<running, event, shuttingDown, progress, runs, stopped, job,
                       signals, excel, early>>
    BY <1>4 DEF ChangeInventory
  <2>2. job.phase = "none" /\ signals = <<>> /\ DOMAIN signals = {} /\ ToSet(signals) = {} BY <2>1, Idle
  <2>3. RunTypes' BY <2>1, NoneTyped DEF RunInv, RunTypes
  <2>4. RunningCoversTheWorker' /\ WorkerIsOfLastRun' /\ SignalsFit' /\ JobIsRight'
    BY <2>1, <2>2 DEF RunningCoversTheWorker, WorkerIsOfLastRun, SignalsFit, FinishedIsLast, JobIsRight, AtWork
  <2>5. RequestIsRight(lastRequest)' BY <2>1, NoneTyped DEF RequestIsRight
  <2>6. ResultsAreRight' BY <2>1, <2>2, NoneTyped DEF ResultsAreRight, ResultIsRight
  <2>7. 0 \notin early BY RunAssumption DEF RunInv, RunTypes
  <2>8. NumbersFit' BY <2>1, <2>2, <2>7, NoneTyped DEF RunInv, NumbersFit, AtWork
  <2> QED BY <2>3, <2>4, <2>5, <2>6, <2>8 DEF RunInv
<1>5. CASE EditInventoryFile
  <2>1. /\ inventory' \in SUBSET Devices
        /\ UNCHANGED <<running, event, shuttingDown, lastResult, lastRequest, progress, runs,
                       stopped, job, signals, excel, early>>
    BY <1>5 DEF EditInventoryFile, uiVars
  <2>2. RunTypes' BY <2>1 DEF RunInv, RunTypes
  <2>3. RunningCoversTheWorker' BY <2>1 DEF RunInv, RunningCoversTheWorker
  <2>4. WorkerIsOfLastRun' /\ SignalsFit' /\ RequestIsRight(lastRequest)' /\ JobIsRight'
    BY <2>1 DEF RunInv, WorkerIsOfLastRun, SignalsFit, FinishedIsLast, RequestIsRight, JobIsRight, AtWork
  <2>5. ResultsAreRight' BY <2>1 DEF RunInv, ResultsAreRight, ResultIsRight
  <2>6. NumbersFit' BY <2>1 DEF RunInv, NumbersFit, AtWork
  <2> QED BY <2>2, <2>3, <2>4, <2>5, <2>6 DEF RunInv
<1>6. CASE Shutdown
  <2>1. /\ UNCHANGED <<running, event, lastResult, lastRequest, progress, runs, job,
                       signals, inventory, excel>>
        /\ ~shuttingDown /\ shuttingDown' = TRUE
    BY <1>6 DEF Shutdown
  <2>2. CASE event # 0
    <3>1. SetCancelEvent BY <1>6, <2>2 DEF Shutdown
    <3> QED BY <2>1, <2>2, <3>1, CancelTold, StopKeeps
  <2>3. CASE event = 0
    <3>1. UNCHANGED <<stopped, early>> BY <1>6, <2>3 DEF Shutdown
    <3>2. stopped' \in SUBSET (1..MaxRuns) /\ early' \in SUBSET stopped' BY <3>1 DEF RunInv, RunTypes
    <3> QED BY <2>1, <3>1, <3>2, StopKeeps
  <2> QED BY <2>2, <2>3
<1> QED BY <1>1, <1>2, <1>3, <1>4, <1>5, <1>6 DEF User

\* A signal taken from the queue leaves what is said of the others.
LEMMA DeliveryKeeps ==
    ASSUME RunInv, signals # <<>>, signals' = Tail(signals),
           UNCHANGED <<shuttingDown, lastRequest, runs, stopped, job, inventory, excel, early>>,
           running' \in BOOLEAN, event' \in 0..MaxRuns,
           progress' \in [total : Nat, done : Nat, failed : Nat],
           \/ UNCHANGED lastResult
           \/ Head(signals).type = "result" /\ lastResult' = Head(signals).result,
           \/ UNCHANGED <<running, event>>
           \/ Head(signals).type = "finished"
    PROVE  RunInv'
<1>1. signals \in Seq(SignalSet) /\ FinishedIsLast(signals) BY DEF RunInv, RunTypes, SignalsFit
<1> DEFINE t == Tail(signals)
           h == Head(signals)
<1>2. /\ t \in Seq(SignalSet) /\ ToSet(t) \subseteq ToSet(signals)
      /\ h \in ToSet(signals) /\ h \in SignalSet
      /\ FinishedIsLast(t)
      /\ h.type = "finished" => t = <<>>
  BY <1>1, TakeTold
<1>3. /\ signals' = t
      /\ lastResult' = lastResult \/ (h.type = "result" /\ lastResult' = h.result)
      /\ (running' = running /\ event' = event) \/ h.type = "finished"
  OBVIOUS
<1> HIDE DEF t, h
<1>4. h.type \in {"error", "result", "finished"} => ~AtWork BY <1>2 DEF RunInv, SignalsFit
<1>5. RunTypes'
  <2>1. lastResult' \in ResultSet BY <1>2, <1>3, SignalTold DEF RunInv, RunTypes
  <2> QED BY <1>2, <1>3, <2>1 DEF RunInv, RunTypes
<1>6. RunningCoversTheWorker'
  <2>1. CASE h.type = "finished"
    <3>1. signals' = <<>> /\ job'.phase = "none" BY <1>2, <1>3, <1>4, <2>1 DEF AtWork
    <3> QED BY <3>1 DEF RunningCoversTheWorker
  <2>2. CASE h.type # "finished"
    <3>1. running' = running /\ event' = event BY <1>3, <2>2
    <3> QED BY <3>1 DEF RunInv, RunningCoversTheWorker
  <2> QED BY <2>1, <2>2
<1>7. WorkerIsOfLastRun' BY <1>3, <1>4 DEF RunInv, WorkerIsOfLastRun, AtWork
<1>8. SignalsFit' BY <1>2, <1>3 DEF RunInv, SignalsFit, AtWork
<1>9. RequestIsRight(lastRequest)' /\ JobIsRight' BY DEF RunInv, RequestIsRight, JobIsRight, AtWork
<1>10. ResultsAreRight'
  <2>2. ResultIsRight(lastResult) /\ (h.type = "result" => ResultIsRight(h.result))
    BY <1>2 DEF RunInv, ResultsAreRight
  <2>3. ResultIsRight(lastResult)'
    <3>1. CASE lastResult' = lastResult BY <2>2, <3>1 DEF ResultIsRight
    <3>2. CASE h.type = "result" /\ lastResult' = h.result BY <2>2, <3>2 DEF ResultIsRight
    <3> QED BY <1>3, <3>1, <3>2
  <2>4. ASSUME NEW sig \in ToSet(t), sig.type = "result" PROVE ResultIsRight(sig.result)'
    <3>1. ResultIsRight(sig.result) BY <1>2, <2>4 DEF RunInv, ResultsAreRight
    <3> QED BY <3>1 DEF ResultIsRight
  <2> QED BY <1>3, <2>3, <2>4 DEF ResultsAreRight
<1>11. NumbersFit' BY <1>2, <1>3 DEF RunInv, NumbersFit, AtWork
<1> QED BY <1>5, <1>6, <1>7, <1>8, <1>9, <1>10, <1>11 DEF RunInv

LEMMA EventLoopKeeps == ASSUME RunInv, EventLoop PROVE RunInv'
<1>t. /\ running \in BOOLEAN /\ event \in 0..MaxRuns /\ 0 \in 0..MaxRuns
      /\ progress \in [total : Nat, done : Nat, failed : Nat] /\ signals \in Seq(SignalSet)
  BY RunAssumption DEF RunInv, RunTypes
<1>1. CASE HandleProgress
  <2>1. /\ signals # <<>> /\ signals' = Tail(signals)
        /\ UNCHANGED <<running, event, shuttingDown, lastResult, lastRequest, runs,
                       stopped, job, inventory, excel, early>>
    BY <1>1 DEF HandleProgress, Delivered
  <2>2. Head(signals) \in SignalSet BY <1>t, <2>1, TailTold, ElementsTold
  <2>3. progress' \in [total : Nat, done : Nat, failed : Nat]
    <3>1. CASE Delivered("total") /\ progress' = [progress EXCEPT !.total = NextSignal.total]
      <4>1. NextSignal.total \in Nat BY <2>2, <3>1, SignalTold DEF Delivered, NextSignal
      <4> QED BY <1>t, <3>1, <4>1
    <3>2. CASE progress' = [progress EXCEPT !.done = @ + 1,
                              !.failed = @ + (IF NextSignal.success THEN 0 ELSE 1)]
      <4> DEFINE plus == IF NextSignal.success THEN 0 ELSE 1
                 d == progress.done + 1
                 f == progress.failed + plus
      <4>1. plus \in Nat OBVIOUS
      <4>2. progress' = [progress EXCEPT !.done = d, !.failed = f] BY <3>2
      <4> HIDE DEF plus
      <4>3. d \in Nat /\ f \in Nat BY <1>t, <4>1
      <4> HIDE DEF d, f
      <4> QED BY <1>t, <4>2, <4>3
    <3> QED BY <1>1, <3>1, <3>2 DEF HandleProgress
  <2> QED BY <1>t, <2>1, <2>3, DeliveryKeeps
<1>2. CASE HandleResult
  <2>1. /\ signals # <<>> /\ signals' = Tail(signals) /\ Head(signals).type = "result"
        /\ UNCHANGED <<running, event, shuttingDown, lastRequest, progress, runs,
                       stopped, job, inventory, excel, early>>
        /\ lastResult' = lastResult \/ lastResult' = Head(signals).result
    BY <1>2 DEF HandleResult, Delivered, NextSignal
  <2> QED BY <1>t, <2>1, DeliveryKeeps
<1>3. CASE HandleError
  <2>1. /\ signals # <<>> /\ signals' = Tail(signals)
        /\ UNCHANGED <<running, event, shuttingDown, lastResult, lastRequest, progress, runs,
                       stopped, job, inventory, excel, early>>
    BY <1>3 DEF HandleError, Delivered, uiVars
  <2> QED BY <1>t, <2>1, DeliveryKeeps
<1>4. CASE FinishRun
  <2>1. /\ signals # <<>> /\ signals' = Tail(signals) /\ Head(signals).type = "finished"
        /\ UNCHANGED <<shuttingDown, lastResult, lastRequest, progress, runs,
                       stopped, job, inventory, excel, early>>
        /\ (running' = running /\ event' = event) \/ (running' = FALSE /\ event' = 0)
    BY <1>4 DEF FinishRun, Delivered, NextSignal
  <2> QED BY <1>t, <2>1, DeliveryKeeps
<1> QED BY <1>1, <1>2, <1>3, <1>4 DEF EventLoop

LEMMA WorkTold ==
    ASSUME RunInv, AtWork
    PROVE  /\ Ongoing(signals) /\ signals \in Seq(SignalSet)
           /\ job \in JobSet /\ job.run = runs /\ job.run \in 1..MaxRuns /\ job.request = lastRequest
           /\ lastResult = NoResult
           /\ ~shuttingDown => running /\ event = job.run
           /\ \A sig \in ToSet(signals) : sig.type # "result"
BY DEF RunInv, RunTypes, SignalsFit, Ongoing, WorkerIsOfLastRun, RunningCoversTheWorker, AtWork

\* A run that ends with an error leaves its file as it was, or broken.
LEMMA RaiseKeeps ==
    ASSUME RunInv, AtWork, Raise,
           UNCHANGED <<uiVars, runs, stopped, inventory, early>>,
           \/ excel' = excel
           \/ excel' = [excel EXCEPT ![Stamp(job)].state = "broken"]
    PROVE  RunInv'
<1> DEFINE err == [type |-> "error"]
<1>1. /\ Ongoing(signals) /\ signals \in Seq(SignalSet) /\ lastResult = NoResult
      /\ ~shuttingDown => running /\ event = job.run
      /\ \A sig \in ToSet(signals) : sig.type # "result"
  BY WorkTold
<1>2. /\ UNCHANGED <<running, event, shuttingDown, lastResult, lastRequest, progress, runs, stopped,
                     inventory, early>>
      /\ job' = NoJob /\ job'.phase = "none" /\ IsEnd(signals', signals, err)
  BY NoneTyped DEF uiVars, Raise, IsEnd
<1>3. err \in SignalSet /\ err.type = "error" BY DEF SignalSet
<1> HIDE DEF err
<1>4. /\ signals' \in Seq(SignalSet) /\ FinishedIsLast(signals')
      /\ ToSet(signals') = ToSet(signals) \cup {err, [type |-> "finished"]}
  BY <1>1, <1>2, <1>3, EndTold
<1>5. \A sig \in ToSet(signals') : sig.type # "result" BY <1>1, <1>3, <1>4
<1>6. excel' \in [1..MaxRuns -> FileSet] /\ \A s \in 1..MaxRuns : excel'[s].run = excel[s].run
  <2>1. excel \in [1..MaxRuns -> FileSet] BY DEF RunInv, RunTypes
  <2>2. CASE excel' = excel BY <2>1, <2>2
  <2>3. CASE excel' = [excel EXCEPT ![Stamp(job)].state = "broken"]
    <3> DEFINE broken(f) == [f EXCEPT !.state = "broken"]
    <3>1. \A f \in FileSet : broken(f) \in FileSet /\ broken(f).run = f.run BY DEF FileSet
    <3>2. excel' = [s \in 1..MaxRuns |-> IF s = Stamp(job) THEN broken(excel[s]) ELSE excel[s]]
      BY <2>1, <2>3
    <3> HIDE DEF broken
    <3> QED BY <2>1, <3>1, <3>2
  <2> QED BY <2>2, <2>3
<1>7. RunTypes' BY <1>2, <1>4, <1>6, NoneTyped DEF RunInv, RunTypes
<1>8. RunningCoversTheWorker' BY <1>1, <1>2 DEF RunningCoversTheWorker
<1>9. WorkerIsOfLastRun' /\ JobIsRight' BY <1>2 DEF WorkerIsOfLastRun, JobIsRight, AtWork
<1>10. SignalsFit' BY <1>2, <1>4 DEF SignalsFit, AtWork
<1>11. RequestIsRight(lastRequest)' BY <1>2 DEF RunInv, RequestIsRight
<1>12. ResultsAreRight' BY <1>1, <1>2, <1>5, NoneTyped DEF ResultsAreRight, ResultIsRight
<1>13. NumbersFit' BY <1>2, <1>5, <1>6 DEF RunInv, NumbersFit, AtWork
<1> QED BY <1>7, <1>8, <1>9, <1>10, <1>11, <1>12, <1>13 DEF RunInv

\* A run that goes on.
LEMMA GoOnKeeps ==
    ASSUME RunInv, AtWork,
           UNCHANGED <<uiVars, runs, stopped, inventory, excel, early>>,
           job' \in JobSet, job'.phase # "none", job'.run = job.run, job'.request = job.request,
           job'.phase = "save" => job.phase = "save" \/ job.run \notin stopped,
           JobIsRight',
           \/ signals' = signals
           \/ \E x \in SignalSet : x.type \in {"total", "device_complete"} /\ IsAppend(signals', signals, x)
    PROVE  RunInv'
<1>1. /\ Ongoing(signals) /\ signals \in Seq(SignalSet) /\ lastResult = NoResult
      /\ job.run = runs /\ job.run \in 1..MaxRuns /\ job.request = lastRequest
      /\ ~shuttingDown => running /\ event = job.run
  BY WorkTold
<1>2. /\ UNCHANGED <<running, event, shuttingDown, lastResult, lastRequest, progress, runs, stopped,
                     inventory, excel, early>>
  BY DEF uiVars
<1>3. signals' \in Seq(SignalSet) /\ FinishedIsLast(signals') /\ Ongoing(signals')
  <2>1. CASE signals' = signals BY <1>1, <2>1 DEF RunInv, SignalsFit
  <2>2. CASE signals' # signals
    <3>1. PICK x \in SignalSet : x.type \in {"total", "device_complete"} /\ IsAppend(signals', signals, x)
      BY <2>2
    <3>2. signals' \in Seq(SignalSet) /\ ToSet(signals') = ToSet(signals) \cup {x} /\ FinishedIsLast(signals')
      BY <1>1, <3>1, EmitTold
    <3> QED BY <1>1, <3>1, <3>2 DEF Ongoing
  <2> QED BY <2>1, <2>2
<1>4. RunTypes' BY <1>2, <1>3 DEF RunInv, RunTypes
<1>5. RunningCoversTheWorker' BY <1>1, <1>2 DEF RunningCoversTheWorker
<1>6. WorkerIsOfLastRun' BY <1>1, <1>2 DEF WorkerIsOfLastRun, AtWork
<1>7. SignalsFit' BY <1>3 DEF SignalsFit, Ongoing
<1>8. RequestIsRight(lastRequest)' BY <1>2 DEF RunInv, RequestIsRight
<1>9. ResultsAreRight' BY <1>1, <1>2, <1>3, NoneTyped DEF ResultsAreRight, ResultIsRight, Ongoing
<1>10. NumbersFit'
  <2>1. job'.phase = "save" => job'.run \notin early'
    BY <1>2 DEF RunInv, NumbersFit, RunTypes
  <2> QED BY <1>2, <1>3, <2>1 DEF RunInv, NumbersFit, AtWork, Ongoing
<1> QED BY <1>4, <1>5, <1>6, <1>7, <1>8, <1>9, <1>10 DEF RunInv

LEMMA BeginKeeps == ASSUME RunInv, BeginJob PROVE RunInv'
<1>1. /\ UNCHANGED <<uiVars, runs, stopped, inventory, excel, early>> /\ job.phase = "queued" /\ AtWork
  BY DEF BeginJob, AtWork
<1>2. CASE Raise BY <1>1, <1>2, RaiseKeeps
<1>3. CASE job' = [job EXCEPT !.phase = "load"] /\ UNCHANGED signals
  <2>1. job \in JobSet BY WorkTold, <1>1
  <2>2. /\ job' \in JobSet /\ job'.phase = "load" /\ job'.run = job.run /\ job'.request = job.request
        /\ job'.targets = job.targets /\ job'.rows = job.rows
    BY <1>3, <2>1 DEF JobSet, Phases
  <2>3. JobIsRight' BY <1>1, <2>2 DEF RunInv, JobIsRight, AtWork
  <2> QED BY <1>1, <1>3, <2>2, <2>3, GoOnKeeps
<1> QED BY <1>2, <1>3 DEF BeginJob

LEMMA NoRowsTold == Ips(<<>>) = {} /\ DistinctIps(<<>>) /\ ToSet(<<>>) = {} /\ <<>> \in Seq(RowSet)
BY DEF Ips, DistinctIps, ToSet

LEMMA InFileOrderTold ==
    ASSUME NEW S \in SUBSET Devices
    PROVE  InFileOrder(S) \in Seq(Devices) /\ IsFiniteSet(S) /\ S \in SUBSET Nat
<1>1. S \in SUBSET Nat /\ IsFiniteSet(S) BY RunAssumption, FS_Subset
<1>2. InOrder(S) \in Seq(S) BY <1>1, InOrderTold
<1>3. InOrder(S) \in Seq(Devices) BY <1>2
<1> QED BY <1>1, <1>3 DEF InFileOrder

LEMMA CheckKeeps == ASSUME RunInv, CheckCancelled PROVE RunInv'
<1>1. /\ UNCHANGED <<uiVars, runs, stopped, inventory, excel, early>> /\ job.phase = "check" /\ AtWork
  BY DEF CheckCancelled, AtWork
<1>2. CASE Cancelled
  <2>1. Raise BY <1>2 DEF CheckCancelled
  <2> QED BY <1>1, <2>1, RaiseKeeps
<1>3. CASE ~Cancelled
  <2>0. job' = [job EXCEPT !.phase = "save"] /\ UNCHANGED signals BY <1>3 DEF CheckCancelled
  <2>1. job \in JobSet BY WorkTold, <1>1
  <2>2. /\ job' \in JobSet /\ job'.phase = "save" /\ job'.run = job.run /\ job'.request = job.request
        /\ job'.targets = job.targets /\ job'.rows = job.rows
    BY <2>0, <2>1 DEF JobSet, Phases
  <2>3. JobIsRight' BY <1>1, <2>2 DEF RunInv, JobIsRight, AtWork
  <2>4. job.run \notin stopped BY <1>3 DEF Cancelled
  <2> QED BY <1>1, <2>0, <2>2, <2>3, <2>4, GoOnKeeps
<1> QED BY <1>2, <1>3

LEMMA CompleteKeeps == ASSUME RunInv, DeviceComplete PROVE RunInv'
<1>1. /\ UNCHANGED <<uiVars, runs, stopped, inventory, excel, early>> /\ job.phase = "batch" /\ AtWork
  BY DEF DeviceComplete, AtWork
<1>2. PICK d \in job.targets \ Ips(job.rows), status \in Statuses :
        /\ job' = [job EXCEPT !.rows = Append(@, [ip |-> d, status |-> status, run |-> job.run])]
        /\ Emit([type |-> "device_complete", success |-> status = "success"])
  BY DEF DeviceComplete
<1>3. job \in JobSet /\ job.run \in 1..MaxRuns BY WorkTold, <1>1
<1> DEFINE row == [ip |-> d, status |-> status, run |-> job.run]
           rows == Append(job.rows, row)
           sig == [type |-> "device_complete", success |-> status = "success"]
<1>4. job.targets \in SUBSET Devices /\ job.rows \in Seq(RowSet) BY <1>3 DEF JobSet
<1>5. row \in RowSet /\ row.ip = d /\ row.run = job.run BY <1>3, <1>4 DEF RowSet
<1>6. sig \in SignalSet /\ sig.type = "device_complete" BY DEF SignalSet
<1>7. IsAppend(rows, job.rows, row) /\ IsAppend(signals', signals, sig) /\ job' = [job EXCEPT !.rows = rows]
  BY <1>2 DEF IsAppend, Emit
<1> HIDE DEF row, rows, sig
<1>8. /\ rows \in Seq(RowSet) /\ ToSet(rows) = ToSet(job.rows) \cup {row}
      /\ Len(job.rows) \in Nat /\ Len(rows) = Len(job.rows) + 1
      /\ DOMAIN job.rows = 1..Len(job.rows) /\ DOMAIN rows = 1..Len(job.rows) + 1
      /\ \A i \in DOMAIN job.rows : rows[i] = job.rows[i]
      /\ rows[Len(job.rows) + 1] = row
  BY <1>4, <1>5, <1>7, AppendTold
<1>9. /\ job' \in JobSet /\ job'.phase = "batch" /\ job'.run = job.run /\ job'.request = job.request
      /\ job'.targets = job.targets /\ job'.rows = rows
  BY <1>1, <1>3, <1>7, <1>8 DEF JobSet
<1>10. /\ job.request.only # {} => job.targets \subseteq job.request.only
       /\ Ips(job.rows) \subseteq job.targets
       /\ DistinctIps(job.rows)
       /\ \A r \in ToSet(job.rows) : r.run = job.run
  BY <1>1 DEF RunInv, JobIsRight
<1>11. \A i \in DOMAIN rows : (i \in DOMAIN job.rows /\ rows[i] = job.rows[i]) \/ (i = Len(job.rows) + 1 /\ rows[i] = row)
  BY <1>8
<1>12. \A i \in DOMAIN job.rows : job.rows[i].ip # d BY <1>2 DEF Ips
<1>13. Ips(rows) \subseteq job.targets BY <1>2, <1>5, <1>10, <1>11 DEF Ips
<1>14. DistinctIps(rows)
  <2> SUFFICES ASSUME NEW i \in DOMAIN rows, NEW j \in DOMAIN rows, rows[i].ip = rows[j].ip PROVE i = j
    BY DEF DistinctIps
  <2>1. CASE i \in DOMAIN job.rows /\ rows[i] = job.rows[i] /\ j \in DOMAIN job.rows /\ rows[j] = job.rows[j]
    BY <1>10, <2>1 DEF DistinctIps
  <2>2. CASE i = Len(job.rows) + 1 /\ rows[i] = row /\ j = Len(job.rows) + 1 BY <2>2
  <2> QED BY <1>5, <1>11, <1>12, <2>1, <2>2
<1>15. \A r \in ToSet(rows) : r.run = job.run BY <1>5, <1>8, <1>10
<1>16. JobIsRight' BY <1>9, <1>10, <1>13, <1>14, <1>15 DEF JobIsRight
<1> QED BY <1>1, <1>6, <1>7, <1>9, <1>16, GoOnKeeps

LEMMA ReturnKeeps == ASSUME RunInv, BatchReturns PROVE RunInv'
<1>1. /\ UNCHANGED <<uiVars, runs, stopped, inventory, excel, early>> /\ job.phase = "batch" /\ AtWork
      /\ UNCHANGED signals
  BY DEF BatchReturns, AtWork
<1> DEFINE rows == SortedByDevice(job.rows, job.order)
<1>2. job' = [job EXCEPT !.phase = "check", !.rows = rows] BY DEF BatchReturns
<1>3. job \in JobSet BY WorkTold, <1>1
<1>4. job.rows \in Seq(RowSet) /\ job.order \in Seq(Devices) BY <1>3 DEF JobSet
<1>5. /\ rows \in Seq(RowSet) /\ Ips(rows) = Ips(job.rows) /\ ToSet(rows) = ToSet(job.rows)
      /\ DistinctIps(job.rows) => DistinctIps(rows)
  BY <1>4, Rearranged
<1> HIDE DEF rows
<1>6. /\ job' \in JobSet /\ job'.phase = "check" /\ job'.run = job.run /\ job'.request = job.request
      /\ job'.targets = job.targets /\ job'.rows = rows
  BY <1>2, <1>3, <1>5 DEF JobSet, Phases
<1>7. JobIsRight' BY <1>1, <1>5, <1>6 DEF RunInv, JobIsRight, AtWork
<1> QED BY <1>1, <1>6, <1>7, GoOnKeeps

LEMMA LoadKeeps == ASSUME RunInv, LoadDevices PROVE RunInv'
<1> DEFINE wanted == IF job.request.only = {} THEN inventory ELSE inventory \cap job.request.only
           targets == IF job.request.first THEN {Min(wanted)} ELSE wanted
           ord == InFileOrder(inventory)
           sig == [type |-> "total", total |-> Cardinality(targets)]
<1>1. /\ UNCHANGED <<uiVars, runs, stopped, inventory, excel, early>> /\ job.phase = "load" /\ AtWork
  BY DEF LoadDevices, AtWork
<1>2. CASE Raise BY <1>1, <1>2, RaiseKeeps
<1>3. CASE /\ wanted # {}
           /\ job' = [job EXCEPT !.phase = "batch", !.targets = targets, !.order = ord]
           /\ Emit(sig)
  <2>1. job \in JobSet /\ inventory \in SUBSET Devices BY WorkTold, <1>1 DEF RunInv, RunTypes
  <2>2. /\ wanted \in SUBSET Devices /\ wanted # {}
        /\ job.request.only # {} => wanted \subseteq job.request.only
    BY <1>3, <2>1
  <2>3. IsAppend(signals', signals, sig) BY <1>3 DEF IsAppend, Emit
  <2>4. job' = [job EXCEPT !.phase = "batch", !.targets = targets, !.order = ord] BY <1>3
  <2> HIDE DEF wanted
  <2>5. Min(wanted) \in wanted
    <3>1. wanted \in SUBSET Nat BY <2>2, InFileOrderTold
    <3> QED BY <2>2, <3>1, MinTold
  <2>6. targets \in SUBSET wanted BY <2>5
  <2>7. ord \in Seq(Devices) BY <2>1, InFileOrderTold
  <2>8. sig \in SignalSet /\ sig.type = "total"
    <3>1. Cardinality(targets) \in Nat
      <4>1. targets \in SUBSET Devices BY <2>2, <2>6
      <4> HIDE DEF targets
      <4> QED BY <4>1, InFileOrderTold, FS_CardinalityType
    <3> QED BY <3>1 DEF SignalSet
  <2> HIDE DEF targets, ord, sig
  <2>9. /\ job' \in JobSet /\ job'.phase = "batch" /\ job'.run = job.run /\ job'.request = job.request
        /\ job'.targets = targets /\ job'.rows = job.rows
    BY <2>1, <2>2, <2>4, <2>6, <2>7 DEF JobSet, Phases
  <2>10. job.rows = <<>> BY <1>1 DEF RunInv, JobIsRight
  <2>11. JobIsRight' BY <2>2, <2>6, <2>9, <2>10, NoRowsTold DEF JobIsRight
  <2> QED BY <1>1, <2>3, <2>8, <2>9, <2>11, GoOnKeeps
<1> QED BY <1>2, <1>3 DEF LoadDevices

\* What a run saves and shows: one row for a device, and what RetryReplacesOnlyTheRerun says.
LEMMA MergedTold ==
    ASSUME RunInv, AtWork
    PROVE  /\ Merged \in Seq(RowSet) /\ DistinctIps(Merged)
           /\ Stamp(job) \in 1..MaxRuns
           /\ lastRequest.merging =>
                /\ Ips(Merged) = Ips(lastRequest.merge)
                /\ \A i \in DOMAIN Merged :
                     \/ Merged[i] \in ToSet(lastRequest.merge)
                     \/ Merged[i].ip \in lastRequest.only /\ Merged[i].run = job.run
<1>1. job \in JobSet /\ job.run \in 1..MaxRuns /\ job.request = lastRequest BY WorkTold
<1>2. /\ job.rows \in Seq(RowSet) /\ job.order \in Seq(Devices)
      /\ lastRequest.merge \in Seq(RowSet) /\ lastRequest.stamp \in 0..MaxRuns
  BY <1>1 DEF JobSet, RequestSet
<1>3. /\ lastRequest.only # {} => job.targets \subseteq lastRequest.only
      /\ Ips(job.rows) \subseteq job.targets
      /\ DistinctIps(job.rows)
      /\ \A row \in ToSet(job.rows) : row.run = job.run
  BY <1>1 DEF RunInv, JobIsRight
<1>4. Stamp(job) \in 1..MaxRuns BY <1>1, <1>2, RunAssumption DEF Stamp
<1>5. CASE ~lastRequest.merging
  <2>1. Merged = job.rows BY <1>1, <1>5 DEF Merged
  <2> QED BY <1>2, <1>3, <1>4, <1>5, <2>1
<1>6. CASE lastRequest.merging
  <2>1. Merged = MergeRetryResults(lastRequest.merge, job.rows, job.order) BY <1>1, <1>6 DEF Merged
  <2>2. /\ lastRequest.only = Failed(lastRequest.merge) /\ lastRequest.only # {}
        /\ DistinctIps(lastRequest.merge)
    BY <1>6 DEF RunInv, RequestIsRight
  <2>3. Merged \in Seq(RowSet) /\ IsMergeOf(Merged, lastRequest.merge, job.rows, job.order)
    BY <1>2, <2>1, <2>2, MergeIsRightForAll
  <2>4. DistinctIps(Merged) BY <2>3 DEF IsMergeOf, DistinctIps
  <2>5. Ips(job.rows) \subseteq lastRequest.only /\ lastRequest.only \subseteq Ips(lastRequest.merge)
    BY <1>2, <1>3, <2>2, FailedTold
  <2>6. Ips(Merged) = Ips(lastRequest.merge) BY <2>3, <2>5 DEF IsMergeOf
  <2>7. ASSUME NEW i \in DOMAIN Merged
        PROVE  \/ Merged[i] \in ToSet(lastRequest.merge)
               \/ Merged[i].ip \in lastRequest.only /\ Merged[i].run = job.run
    <3>1. Merged[i] \in IF Merged[i].ip \in Ips(job.rows) THEN ToSet(job.rows) ELSE ToSet(lastRequest.merge)
      BY <2>3 DEF IsMergeOf
    <3> QED BY <1>3, <2>5, <3>1
  <2> QED BY <1>4, <2>3, <2>4, <2>6, <2>7
<1> QED BY <1>5, <1>6

LEMMA SaveKeeps == ASSUME RunInv, SaveResult PROVE RunInv'
<1> DEFINE saved == [state |-> "whole", run |-> job.run, rows |-> Merged]
           res == [has |-> TRUE, stamp |-> Stamp(job), run |-> saved.run, rows |-> saved.rows]
           sig == [type |-> "result", result |-> res]
<1>1. UNCHANGED <<uiVars, runs, stopped, inventory, early>> /\ job.phase = "save" /\ AtWork
  BY DEF SaveResult, AtWork
<1>2. CASE Raise /\ (UNCHANGED excel \/ excel' = [excel EXCEPT ![Stamp(job)].state = "broken"])
  BY <1>1, <1>2, RaiseKeeps
<1>3. CASE /\ excel' = [excel EXCEPT ![Stamp(job)] = saved]
           /\ signals' = signals \o <<sig, [type |-> "finished"]>>
           /\ job' = NoJob
  <2>1. /\ Ongoing(signals) /\ signals \in Seq(SignalSet) /\ lastResult = NoResult
        /\ job.run = runs /\ job.run \in 1..MaxRuns
        /\ ~shuttingDown => running /\ event = job.run
        /\ \A s \in ToSet(signals) : s.type # "result"
    BY <1>1, WorkTold
  <2>2. /\ Merged \in Seq(RowSet) /\ DistinctIps(Merged)
        /\ Stamp(job) \in 1..MaxRuns
        /\ lastRequest.merging =>
             /\ Ips(Merged) = Ips(lastRequest.merge)
             /\ \A i \in DOMAIN Merged :
                  \/ Merged[i] \in ToSet(lastRequest.merge)
                  \/ Merged[i].ip \in lastRequest.only /\ Merged[i].run = job.run
    BY <1>1, MergedTold
  <2>3. /\ UNCHANGED <<running, event, shuttingDown, lastResult, lastRequest, progress, runs, stopped,
                       inventory, early>>
        /\ job' = NoJob /\ job'.phase = "none" /\ IsEnd(signals', signals, sig)
    BY <1>1, <1>3, NoneTyped DEF uiVars, IsEnd
  <2>4. saved \in FileSet /\ saved.run = job.run BY <2>1, <2>2, RunAssumption DEF FileSet
  <2>5. /\ res \in ResultSet /\ res.has /\ res.stamp = Stamp(job) /\ res.run = job.run /\ res.rows = Merged
        /\ saved = [state |-> "whole", run |-> res.run, rows |-> res.rows]
    BY <2>1, <2>2, RunAssumption DEF ResultSet
  <2>6. sig \in SignalSet /\ sig.type = "result" /\ sig.result = res
    <3> HIDE DEF res
    <3> QED BY <2>5 DEF SignalSet
  <2>7. excel' = [excel EXCEPT ![Stamp(job)] = saved] /\ excel \in [1..MaxRuns -> FileSet]
    BY <1>3 DEF RunInv, RunTypes
  <2> HIDE DEF saved, res, sig
  <2>8. /\ signals' \in Seq(SignalSet) /\ FinishedIsLast(signals')
        /\ ToSet(signals') = ToSet(signals) \cup {sig, [type |-> "finished"]}
    BY <2>1, <2>3, <2>6, EndTold
  <2>9. \A s \in ToSet(signals') : s.type = "result" => s = sig BY <2>1, <2>8
  <2>10. /\ excel' \in [1..MaxRuns -> FileSet] /\ excel'[Stamp(job)] = saved
         /\ \A s \in 1..MaxRuns : excel'[s] = excel[s] \/ excel'[s] = saved
    BY <2>2, <2>4, <2>7
  <2>11. RunTypes' BY <2>3, <2>8, <2>10, NoneTyped DEF RunInv, RunTypes
  <2>12. RunningCoversTheWorker' BY <2>1, <2>3 DEF RunningCoversTheWorker
  <2>13. WorkerIsOfLastRun' /\ JobIsRight' BY <2>3 DEF WorkerIsOfLastRun, JobIsRight, AtWork
  <2>14. SignalsFit' BY <2>3, <2>8 DEF SignalsFit, AtWork
  <2>15. RequestIsRight(lastRequest)' BY <2>3 DEF RunInv, RequestIsRight
  <2>16. ResultsAreRight'
    <3>1. ResultIsRight(lastResult)' BY <2>1, <2>3, NoneTyped DEF ResultIsRight
    <3>2. PICK r : r = res OBVIOUS
    <3>3. /\ r.has /\ r.stamp \in 1..MaxRuns /\ r.run = job.run /\ DistinctIps(r.rows)
          /\ r.rows = Merged /\ excel'[r.stamp] = [state |-> "whole", run |-> r.run, rows |-> r.rows]
      BY <2>2, <2>5, <2>10, <3>2
    <3>4. ResultIsRight(r)' BY <2>2, <2>3, <3>3 DEF ResultIsRight
    <3>5. ASSUME NEW s \in ToSet(signals'), s.type = "result" PROVE ResultIsRight(s.result)'
      <4>1. s.result = r BY <2>6, <2>9, <3>2, <3>5
      <4> QED BY <3>4, <4>1
    <3> QED BY <3>1, <3>5 DEF ResultsAreRight
  <2>17. job.run \notin early BY <1>1 DEF RunInv, NumbersFit
  <2>18. NumbersFit'
    <3>1. \A s \in 1..MaxRuns : excel'[s].run <= runs /\ excel'[s].run \notin early
      BY <2>1, <2>4, <2>10, <2>17, RunAssumption DEF RunInv, NumbersFit
    <3> QED BY <2>3, <2>5, <2>6, <2>9, <2>17, <3>1 DEF RunInv, NumbersFit, AtWork
  <2> QED BY <2>11, <2>12, <2>13, <2>14, <2>15, <2>16, <2>18 DEF RunInv
<1> QED BY <1>2, <1>3 DEF SaveResult

\* The inductive invariant of the inspector's run: every step of the user, the worker and the
\* window keeps it (inspector_tab.py, service.py).
THEOREM RunStep == RunInv /\ [Next]_vars => RunInv'
<1> SUFFICES ASSUME RunInv, [Next]_vars PROVE RunInv' OBVIOUS
<1>1. CASE User BY <1>1, UserKeeps
<1>2. CASE EventLoop BY <1>2, EventLoopKeeps
<1>3. CASE Worker BY <1>3, BeginKeeps, LoadKeeps, CompleteKeeps, ReturnKeeps, CheckKeeps, SaveKeeps DEF Worker
<1>4. CASE UNCHANGED vars
  <2>1. UNCHANGED <<running, event, shuttingDown, lastResult, lastRequest, progress, runs, stopped,
                    job, signals, inventory, excel, early>>
    BY <1>4 DEF vars, uiVars
  <2>2. shuttingDown' \in BOOLEAN /\ stopped' \in SUBSET (1..MaxRuns) /\ early' \in SUBSET stopped'
    BY <2>1 DEF RunInv, RunTypes
  <2> QED BY <2>1, <2>2, StopKeeps
<1> QED BY <1>1, <1>2, <1>3, <1>4 DEF Next

\* So it holds in every state a run can reach (inspector_tab.py, service.py).
THEOREM RunInvariant == Spec => []RunInv
BY RunStart, RunStep, PTL DEF Spec

\* A new run never meets the leftovers of the run before it, and the stop
\* button always holds the event of the worker that is at work.
THEOREM RunningAlwaysCovers == Spec => []RunningCoversTheWorker
<1>1. RunInv => RunningCoversTheWorker BY DEF RunInv
<1> QED BY <1>1, RunInvariant, PTL

\* A retry never contacts a device whose last row says success.
THEOREM SuccessNeverRunAgain == Spec => []SuccessIsNotRunAgain
<1>1. RunInv => SuccessIsNotRunAgain
  <2> SUFFICES ASSUME RunInv, job.request.merging, job.phase # "none"
               PROVE  job.targets \cap (Ips(job.request.merge) \ Failed(job.request.merge)) = {}
    BY DEF SuccessIsNotRunAgain
  <2>1. job.request = lastRequest BY DEF RunInv, WorkerIsOfLastRun, AtWork
  <2>2. job.request.only = Failed(job.request.merge) /\ job.request.only # {}
    BY <2>1 DEF RunInv, RequestIsRight
  <2>3. job.targets \subseteq job.request.only BY <2>2 DEF RunInv, JobIsRight, AtWork
  <2> QED BY <2>2, <2>3
<1> QED BY <1>1, RunInvariant, PTL

\* A run stopped before its last check shows nothing and writes nothing.
THEOREM StoppedRunNeverLeavesAnything == Spec => []StoppedRunLeavesNothing
<1>1. RunInv => StoppedRunLeavesNothing
  <2> SUFFICES ASSUME RunInv PROVE StoppedRunLeavesNothing OBVIOUS
  <2>1. \A i \in DOMAIN signals : signals[i] \in ToSet(signals) BY DEF ToSet
  <2> QED BY <2>1 DEF RunInv, NumbersFit, StoppedRunLeavesNothing
<1> QED BY <1>1, RunInvariant, PTL

\* What the tab shows of a run and of its retries is complete and on disk.
THEOREM ShownResultAlwaysRight == Spec => []ShownResultIsRight
<1>1. RunInv => ShownResultIsRight
  <2> SUFFICES ASSUME RunInv PROVE ShownResultIsRight OBVIOUS
  <2>1. ResultIsRight(lastResult) BY DEF RunInv, ResultsAreRight
  <2>2. ShownResultIsOnDisk BY <2>1 DEF ResultIsRight, ShownResultIsOnDisk
  <2>3. RetryReplacesOnlyTheRerun
    BY <2>1 DEF ResultIsRight, RetryReplacesOnlyTheRerun, DistinctIps
  <2> QED BY <2>2, <2>3 DEF ShownResultIsRight
<1> QED BY <1>1, RunInvariant, PTL

=============================================================================
