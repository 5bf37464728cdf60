-------------------------- MODULE VideoDedupProofs --------------------------
(***************************************************************************)
(* Theorems about VideoDedup, for any routes, workers and hashes, and      *)
(* about Navigation, for any headings, threshold and track.                *)
(***************************************************************************)
EXTENDS VideoDedup, Navigation, FiniteSetTheorems, SequenceTheorems, WellFoundedInduction, TLAPS

\* The values of every variable and of every field stay in their sets.
THEOREM TypeCorrect == DedupSpec => []DedupTypeOK
<1>1. DedupInit => DedupTypeOK
  BY MaxRunsAssumption DEF DedupInit, DedupTypeOK, DedupStep
<1>2. DedupTypeOK /\ [DedupNext]_dedupVars => DedupTypeOK'
  <2> SUFFICES ASSUME DedupTypeOK, [DedupNext]_dedupVars PROVE DedupTypeOK'
    OBVIOUS
  <2> USE FootageAssumption, MaxRunsAssumption DEF DedupTypeOK
  <2>1. ASSUME NEW w \in Worker, NEW r \in Route, Take(w, r) PROVE DedupTypeOK'
    BY <2>1 DEF Take, DedupStep
  <2>2. ASSUME NEW w \in Worker, BuildView(w) PROVE DedupTypeOK'
    BY <2>2 DEF BuildView, DedupStep
  <2>3. ASSUME NEW w \in Worker, KeepOwnCopy(w) PROVE DedupTypeOK'
    BY <2>3 DEF KeepOwnCopy, DedupStep
  <2>4. ASSUME NEW w \in Worker, ReuseExisting(w) PROVE DedupTypeOK'
    BY <2>4 DEF ReuseExisting, Row, DedupStep
  <2>5. ASSUME NEW w \in Worker, DropRedundant(w) PROVE DedupTypeOK'
    BY <2>5 DEF DropRedundant, DedupStep
  <2>6. ASSUME NEW w \in Worker, DeleteRow(w) PROVE DedupTypeOK'
    BY <2>6 DEF DeleteRow, DedupStep
  <2>7. ASSUME NEW w \in Worker, InsertRow(w) PROVE DedupTypeOK'
    <3> DEFINE new == [route |-> job[w], sha |-> Footage[job[w]],
                       key |-> target[w], created |-> instant]
    <3>1. new \in Row /\ new.created = instant
      BY DEF Row
    <3>2. rows' = rows \cup {new} /\ instant' = instant + 1
      BY <2>7 DEF InsertRow
    <3> HIDE DEF new
    <3>3. rows' \subseteq Row /\ instant' \in Nat
      BY <3>1, <3>2
    <3>4. \A x \in rows' : x.created < instant'
      BY <3>1, <3>2 DEF Row
    <3> QED
      BY <2>7, <3>3, <3>4 DEF InsertRow, DedupStep
  <2>8. ASSUME NEW w \in Worker, Abandon(w) PROVE DedupTypeOK'
    BY <2>8 DEF Abandon, DedupStep
  <2>9. CASE UNCHANGED dedupVars
    BY <2>9 DEF dedupVars
  <2> QED
    BY <2>1, <2>2, <2>3, <2>4, <2>5, <2>6, <2>7, <2>8, <2>9 DEF DedupNext
<1> QED
  BY <1>1, <1>2, PTL DEF DedupSpec

-----------------------------------------------------------------------------
(***************************************************************************)
(* A key holds the footage of the route it belongs to or nothing, and what *)
(* a worker decided to point at has the hash of what it assembled.          *)
(***************************************************************************)
ForeignInv ==
    /\ \A r \in Route : objects[r] \in {Footage[r], NoObject}
    /\ \A x \in rows : Footage[x.key] = x.sha
    /\ \A w \in Worker : wpc[w] \in {"drop", "delete", "insert"} =>
                            Footage[target[w]] = Footage[job[w]]

LEMMA ForeignStep == DedupTypeOK /\ ForeignInv /\ [DedupNext]_dedupVars => ForeignInv'
<1> SUFFICES ASSUME DedupTypeOK, ForeignInv, [DedupNext]_dedupVars PROVE ForeignInv'
  OBVIOUS
<1> USE FootageAssumption DEF DedupTypeOK, ForeignInv
<1>1. ASSUME NEW w \in Worker, NEW r \in Route, Take(w, r) PROVE ForeignInv'
  BY <1>1 DEF Take
<1>2. ASSUME NEW w \in Worker, BuildView(w) PROVE ForeignInv'
  BY <1>2 DEF BuildView
<1>3. ASSUME NEW w \in Worker, KeepOwnCopy(w) PROVE ForeignInv'
  BY <1>3 DEF KeepOwnCopy
<1>4. ASSUME NEW w \in Worker, ReuseExisting(w) PROVE ForeignInv'
  BY <1>4 DEF ReuseExisting, Oldest, Matching, Row
<1>5. ASSUME NEW w \in Worker, DropRedundant(w) PROVE ForeignInv'
  BY <1>5 DEF DropRedundant
<1>6. ASSUME NEW w \in Worker, DeleteRow(w) PROVE ForeignInv'
  BY <1>6 DEF DeleteRow
<1>7. ASSUME NEW w \in Worker, InsertRow(w) PROVE ForeignInv'
  BY <1>7 DEF InsertRow
<1>8. ASSUME NEW w \in Worker, Abandon(w) PROVE ForeignInv'
  BY <1>8 DEF Abandon
<1>9. CASE UNCHANGED dedupVars
  BY <1>9 DEF dedupVars
<1> QED
  BY <1>1, <1>2, <1>3, <1>4, <1>5, <1>6, <1>7, <1>8, <1>9 DEF DedupNext

\* However many workers and re-runs there are, a published row never serves the
\* footage of other clips than its own (the key it names may be empty).
THEOREM ForeignFree == DedupSpec => []NeverForeignFootage
<1>1. DedupInit => ForeignInv
  BY DEF DedupInit, ForeignInv
<1>2. DedupTypeOK /\ ForeignInv => NeverForeignFootage
  BY DEF DedupTypeOK, Row, ForeignInv, NeverForeignFootage
<1> QED
  BY <1>1, <1>2, TypeCorrect, ForeignStep, PTL DEF DedupSpec

-----------------------------------------------------------------------------
(***************************************************************************)
(* The key of a route that was processed once.  Nobody names it before its *)
(* own worker has published the route under it, and from then on nobody     *)
(* is at work on that route who could delete it.                           *)
(***************************************************************************)
Active(w) == wpc[w] # "idle"

Decided(w) == wpc[w] \in {"drop", "delete", "insert"}

\* A row names k, or a worker for another route has decided to.
Named(k) ==
    \/ \E x \in rows : x.key = k
    \/ \E w \in Worker : Decided(w) /\ job[w] # k /\ target[w] = k

KeyInv(k) ==
    /\ \A v, w \in Worker : Active(v) /\ job[v] = k /\ Active(w) /\ job[w] = k => v = w
    /\ \A w \in Worker : Active(w) /\ job[w] = k => runs[k] = 1 /\ ~Named(k)
    /\ \A w \in Worker : job[w] = k /\ wpc[w] = "lookup" => objects[k] = Footage[k]
    /\ \A w \in Worker : Decided(w) /\ target[w] = k => objects[k] = Footage[k]
    /\ \A x \in rows : x.key = k => runs[k] = 1 /\ objects[k] = Footage[k]
    /\ Named(k) => runs[k] = 1

OnceInv ==
    /\ \A k \in Route : runs[k] <= 1 => KeyInv(k)
    /\ \A w \in Worker : wpc[w] = "drop" => target[w] # job[w]

LEMMA OnceStep == DedupTypeOK /\ ForeignInv /\ OnceInv /\ [DedupNext]_dedupVars => OnceInv'
<1> SUFFICES ASSUME DedupTypeOK, ForeignInv, OnceInv, [DedupNext]_dedupVars PROVE OnceInv'
  OBVIOUS
<1>0. \A w \in Worker : (wpc[w] = "drop" => target[w] # job[w])'
  BY DEF DedupNext, dedupVars, Take, BuildView, KeepOwnCopy, ReuseExisting, DropRedundant, DeleteRow,
         InsertRow, Abandon, DedupTypeOK, OnceInv
<1> SUFFICES ASSUME NEW k \in Route, runs'[k] <= 1 PROVE KeyInv(k)'
  BY <1>0 DEF OnceInv
<1>a. runs[k] <= 1 /\ runs[k] \in Nat
  BY MaxRunsAssumption
     DEF DedupNext, dedupVars, Take, BuildView, KeepOwnCopy, ReuseExisting, DropRedundant, DeleteRow,
         InsertRow, Abandon, DedupTypeOK
<1>b. KeyInv(k)
  BY <1>a DEF OnceInv
<1> USE <1>b DEF DedupTypeOK, KeyInv, Named, Decided, Active
<1>1. ASSUME NEW w \in Worker, NEW r \in Route, Take(w, r) PROVE KeyInv(k)'
  <2>1. r = k => runs[k] = 0 /\ runs'[k] = 1
    BY <1>1, <1>a DEF Take
  <2> QED
    BY <1>1, <2>1 DEF Take
<1>2. ASSUME NEW w \in Worker, BuildView(w) PROVE KeyInv(k)'
  BY <1>2 DEF BuildView
<1>3. ASSUME NEW w \in Worker, KeepOwnCopy(w) PROVE KeyInv(k)'
  BY <1>3 DEF KeepOwnCopy
<1>4. ASSUME NEW w \in Worker, ReuseExisting(w) PROVE KeyInv(k)'
  <2>1. PICK x \in rows :
          /\ target' = [target EXCEPT ![w] = x.key]
          /\ wpc' = [wpc EXCEPT ![w] = IF x.key = job[w] THEN "delete" ELSE "drop"]
    BY <1>4 DEF ReuseExisting, Oldest, Matching
  <2> QED
    BY <1>4, <2>1 DEF ReuseExisting, Row
<1>5. ASSUME NEW w \in Worker, DropRedundant(w) PROVE KeyInv(k)'
  <2>1. wpc[w] = "drop" /\ target[w] # job[w]
    BY <1>5 DEF DropRedundant, OnceInv
  <2>2. job[w] # k => objects'[k] = objects[k]
    BY <1>5 DEF DropRedundant
  <2> QED
    BY <1>5, <2>1, <2>2 DEF DropRedundant
<1>6. ASSUME NEW w \in Worker, DeleteRow(w) PROVE KeyInv(k)'
  BY <1>6 DEF DeleteRow
<1>7. ASSUME NEW w \in Worker, InsertRow(w) PROVE KeyInv(k)'
  <2> DEFINE new == [route |-> job[w], sha |-> Footage[job[w]],
                     key |-> target[w], created |-> instant]
  <2>1. new.key = target[w] /\ rows' = rows \cup {new}
    BY <1>7 DEF InsertRow
  <2> HIDE DEF new
  <2> QED
    BY <1>7, <2>1 DEF InsertRow
<1>8. ASSUME NEW w \in Worker, Abandon(w) PROVE KeyInv(k)'
  BY <1>8 DEF Abandon
<1>9. CASE UNCHANGED dedupVars
  BY <1>9 DEF dedupVars
<1> QED
  BY <1>1, <1>2, <1>3, <1>4, <1>5, <1>6, <1>7, <1>8, <1>9 DEF DedupNext

\* A row that names the key of a route processed once finds its own footage there,
\* whatever other workers, routes, re-runs and deaths there are.
THEOREM OnceProcessedServes == DedupSpec => []OnceServes
<1>1. DedupInit => ForeignInv /\ OnceInv
  BY DEF DedupInit, ForeignInv, OnceInv, KeyInv, Named, Decided, Active
<1>2. DedupTypeOK /\ ForeignInv /\ OnceInv => OnceServes
  BY DEF DedupTypeOK, Row, ForeignInv, OnceInv, KeyInv, OnceServes
<1>3. DedupTypeOK /\ ForeignInv /\ OnceInv /\ [DedupNext]_dedupVars => (ForeignInv /\ OnceInv)'
  BY ForeignStep, OnceStep
<1> QED
  BY <1>1, <1>2, <1>3, TypeCorrect, PTL DEF DedupSpec

\* What a published row names is its own footage where its key was processed once, and is
\* never any other.
THEOREM FootageAlwaysStands == DedupSpec => []FootageStands
<1>1. OnceServes /\ NeverForeignFootage => FootageStands
  BY DEF FootageStands
<1> QED BY <1>1, ForeignFree, OnceProcessedServes, PTL

-----------------------------------------------------------------------------
(***************************************************************************)
(* With a single worker nobody inserts a row between its DELETE and its    *)
(* INSERT.                                                                 *)
(***************************************************************************)
OneRowPerRoute == \A x, y \in rows : x.route = y.route => x = y

AloneInv ==
    /\ OneRowPerRoute
    /\ \A w \in Worker : wpc[w] = "insert" => \A x \in rows : x.route # job[w]

\* A single worker leaves at most one row per route, however often it processes
\* the route and wherever it stops.
THEOREM AloneOneRow ==
    ASSUME \A v, w \in Worker : v = w
    PROVE  DedupSpec => []OneRowPerRoute
<1>1. DedupInit => AloneInv
  BY DEF DedupInit, AloneInv, OneRowPerRoute
<1>2. DedupTypeOK /\ AloneInv /\ [DedupNext]_dedupVars => AloneInv'
  <2> SUFFICES ASSUME DedupTypeOK, AloneInv, [DedupNext]_dedupVars PROVE AloneInv'
    OBVIOUS
  <2> USE DEF DedupTypeOK, AloneInv, OneRowPerRoute
  <2>1. ASSUME NEW w \in Worker, NEW r \in Route, Take(w, r) PROVE AloneInv'
    BY <2>1 DEF Take
  <2>2. ASSUME NEW w \in Worker, InsertRow(w) PROVE AloneInv'
    <3>1. wpc'[w] = "idle" /\ \A x \in rows : x.route # job[w]
      BY <2>2 DEF InsertRow
    <3> QED
      BY <2>2, <3>1 DEF InsertRow
  <2>3. ASSUME NEW w \in Worker, DeleteRow(w) PROVE AloneInv'
    BY <2>3 DEF DeleteRow
  <2>4. ASSUME NEW w \in Worker,
               \/ BuildView(w) \/ KeepOwnCopy(w) \/ ReuseExisting(w)
               \/ DropRedundant(w) \/ Abandon(w)
        PROVE  AloneInv'
    BY <2>4 DEF BuildView, KeepOwnCopy, ReuseExisting, DropRedundant, Abandon
  <2>5. CASE UNCHANGED dedupVars
    BY <2>5 DEF dedupVars
  <2> QED
    BY <2>1, <2>2, <2>3, <2>4, <2>5 DEF DedupNext
<1>3. AloneInv => OneRowPerRoute
  BY DEF AloneInv
<1> QED
  BY <1>1, <1>2, <1>3, TypeCorrect, PTL DEF DedupSpec
-----------------------------------------------------------------------------
(* The guide: the points of its track. *)

\* A set of numbers has a least one.
LEMMA LeastOf ==
    ASSUME NEW T \in SUBSET Nat, T # {}
    PROVE  \E x \in T : \A y \in T : x <= y
<1> DEFINE R == OpToRel(<, Nat)
<1>1. IsWellFoundedOn(R, Nat)
  BY NatLessThanWellFounded
<1>2. \A x, y \in Nat : x < y => <<x, y>> \in R
  BY DEF OpToRel
<1> HIDE DEF R
<1>3. PICK x \in T : \A y \in T : ~(<<y, x>> \in R)
  BY <1>1, WFMin
<1>4. ASSUME NEW y \in T PROVE x <= y
  <2>1. x \in Nat /\ y \in Nat
    OBVIOUS
  <2>2. ~(y < x)
    BY <1>2, <1>3, <2>1
  <2> QED BY <2>1, <2>2
<1> QED BY <1>4

LEMMA GreatestIs ==
    ASSUME NEW S \in SUBSET Int, NEW x \in S, \A y \in S : x >= y
    PROVE  Max(S) = x
<1>1. \A z \in S : (\A y \in S : z >= y) => z = x
  OBVIOUS
<1> QED BY <1>1 DEF Max

LEMMA LeastIs ==
    ASSUME NEW S \in SUBSET Int, NEW x \in S, \A y \in S : x <= y
    PROVE  Min(S) = x
<1>1. \A z \in S : (\A y \in S : z =< y) => z = x
  OBVIOUS
<1> QED BY <1>1 DEF Min

\* A set of integers that has an upper bound has a greatest one.
LEMMA GreatestInt ==
    ASSUME NEW high \in Int, NEW T \in SUBSET Int, T # {}, \A x \in T : x <= high
    PROVE  Max(T) \in T /\ \A x \in T : x <= Max(T)
<1> DEFINE U == {n \in Nat : high - n \in T}
<1>1. U # {}
  <2>1. PICK x \in T : TRUE
    OBVIOUS
  <2>2. high - x \in Nat /\ high - (high - x) = x
    OBVIOUS
  <2> QED BY <2>2
<1>2. PICK n \in U : \A m \in U : n <= m
  <2>1. U \in SUBSET Nat
    OBVIOUS
  <2> HIDE DEF U
  <2> QED BY <1>1, <2>1, LeastOf
<1>3. ASSUME NEW x \in T PROVE x <= high - n
  <2>1. high - x \in Nat /\ high - (high - x) = x
    OBVIOUS
  <2>2. high - x \in U
    BY <2>1
  <2>3. n <= high - x
    BY <1>2, <2>2
  <2> QED BY <1>2, <2>1, <2>3
<1>4. high - n \in T
  BY <1>2
<1>5. \A x \in T : high - n >= x
  BY <1>3, <1>4
<1>6. Max(T) = high - n
  BY <1>4, <1>5, GreatestIs
<1> QED BY <1>3, <1>4, <1>6

Upto(S, x) == {y \in S : y <= x}

\* A finite set of numbers in ascending order.
LEMMA AscendingIs ==
    ASSUME NEW S \in SUBSET Nat, IsFiniteSet(S), NEW s, s = Ascending(S), NEW n, n = Cardinality(S)
    PROVE  /\ n \in Nat /\ s \in [1 .. n -> S]
           /\ \A i, j \in 1 .. n : i < j => s[i] < s[j]
           /\ \A x \in S : \E i \in 1 .. n : s[i] = x
<1>1. n \in Nat
  BY FS_CardinalityType
<1> PICK R : R = [x \in S |-> Cardinality(Upto(S, x))]
  OBVIOUS
<1>2. ASSUME NEW x \in S PROVE R[x] \in 1 .. n /\ IsFiniteSet(Upto(S, x))
  <2>1. Upto(S, x) \in SUBSET S /\ x \in Upto(S, x)
    BY DEF Upto
  <2>2. IsFiniteSet(Upto(S, x)) /\ Cardinality(Upto(S, x)) <= n
    BY <2>1, FS_Subset
  <2>3. Cardinality(Upto(S, x)) \in Nat /\ Cardinality(Upto(S, x)) # 0
    BY <2>1, <2>2, FS_CardinalityType, FS_EmptySet
  <2> QED BY <1>1, <2>2, <2>3
<1>3. ASSUME NEW x \in S, NEW y \in S, x < y PROVE R[x] < R[y]
  <2>1. Upto(S, x) \in SUBSET Upto(S, y) /\ y \in Upto(S, y) /\ y \notin Upto(S, x)
    <3>1. ASSUME NEW z \in Upto(S, x) PROVE z \in Upto(S, y)
      BY <1>3 DEF Upto
    <3>2. y \in Upto(S, y) /\ y \notin Upto(S, x)
      BY <1>3 DEF Upto
    <3> QED BY <3>1, <3>2
  <2>2. IsFiniteSet(Upto(S, y)) /\ IsFiniteSet(Upto(S, x)) /\ Upto(S, x) # Upto(S, y)
    BY <1>2, <2>1
  <2>3. /\ Cardinality(Upto(S, x)) <= Cardinality(Upto(S, y))
        /\ Cardinality(Upto(S, x)) # Cardinality(Upto(S, y))
    BY <2>1, <2>2, FS_Subset
  <2> QED BY <1>2, <2>3
<1>4. ASSUME NEW x \in S, NEW y \in S, R[x] = R[y] PROVE x = y
  <2>1. ~(x < y) /\ ~(y < x)
    BY <1>2, <1>3, <1>4
  <2> QED BY <2>1
<1>5. \A i \in 1 .. n : \E x \in S : R[x] = i
  <2>1. R \in [S -> 1 .. n]
    BY <1>2
  <2>2. R \in Injection(S, 1 .. n)
    BY <1>4, <2>1 DEF Injection, IsInjective
  <2>3. IsFiniteSet(1 .. n) /\ Cardinality(1 .. n) = n
    BY <1>1, FS_Interval
  <2>4. R \in Surjection(S, 1 .. n)
    BY <2>2, <2>3, FS_Injection
  <2> QED BY <2>4 DEF Surjection
<1>6. s = [i \in 1 .. n |-> CHOOSE x \in S : Cardinality({y \in S : y <= x}) = i]
  BY DEF Ascending
<1>7. ASSUME NEW i \in 1 .. n PROVE s[i] \in S /\ R[s[i]] = i
  <2>1. \A x \in S : R[x] = Cardinality({y \in S : y <= x})
    BY DEF Upto
  <2>2. PICK x \in S : Cardinality({y \in S : y <= x}) = i
    BY <1>5, <2>1
  <2>3. s[i] = CHOOSE z \in S : Cardinality({y \in S : y <= z}) = i
    BY <1>6
  <2>4. s[i] \in S /\ Cardinality({y \in S : y <= s[i]}) = i
    BY <2>2, <2>3
  <2> QED BY <2>1, <2>4
<1>8. s \in [1 .. n -> S]
  BY <1>6, <1>7
<1>9. ASSUME NEW i \in 1 .. n, NEW j \in 1 .. n, i < j PROVE s[i] < s[j]
  <2>1. s[i] \in S /\ s[j] \in S /\ R[s[i]] = i /\ R[s[j]] = j
    BY <1>7
  <2>2. s[i] # s[j] /\ ~(s[j] < s[i])
    <3>1. s[j] < s[i] => j < i
      BY <1>3, <2>1
    <3> QED BY <1>9, <2>1, <3>1
  <2>3. s[i] \in Nat /\ s[j] \in Nat
    BY <2>1
  <2> QED BY <2>2, <2>3
<1>10. ASSUME NEW x \in S PROVE \E i \in 1 .. n : s[i] = x
  <2>1. R[x] \in 1 .. n
    BY <1>2
  <2>2. s[R[x]] \in S /\ R[s[R[x]]] = R[x]
    BY <1>7, <2>1
  <2> QED BY <1>4, <2>1, <2>2
<1> QED BY <1>1, <1>8, <1>9, <1>10

\* What the points of a track, and the bends at all but the first and the last, are.
Bent(kept, bends, N) ==
    /\ N \in Nat \ {0} /\ bends \in Seq(Int) /\ Len(bends) = N
    /\ kept \in Seq(Nat) /\ Len(kept) = N + 2 /\ kept[1] = 1
    /\ \A i, j \in 1 .. N + 2 : i < j => kept[i] < kept[j]

LEMMA SimpIs ==
    ASSUME NavigationTypeOK, Len(hops) >= 2, NEW kept, kept = simp
    PROVE  /\ kept \in Seq(Nat) /\ Len(kept) >= 3 /\ kept[1] = 1
           /\ \A i \in 1 .. Len(kept) : kept[i] \in 1 .. Len(hops) + 1
           /\ \A i, j \in 1 .. Len(kept) : i < j => kept[i] < kept[j]
<1> PICK h : h = Len(hops)
  OBVIOUS
<1>1. h \in Nat /\ h >= 2
  BY DEF NavigationTypeOK
<1> DEFINE S == {1} \cup {n \in 2 .. h + 1 : hops[n - 1].far}
<1> PICK far : far = Ascending(S)
  OBVIOUS
<1>2. S \in SUBSET Nat /\ IsFiniteSet(S) /\ S \subseteq 1 .. h + 1 /\ 1 \in S
  <2>1. S \subseteq 1 .. h + 1 /\ 1 \in S
    BY <1>1
  <2>2. IsFiniteSet(1 .. h + 1)
    BY <1>1, FS_Interval
  <2>3. S \in SUBSET Nat
    BY <1>1, <2>1
  <2> QED BY <2>1, <2>2, <2>3, FS_Subset
<1>3. kept = IF Len(far) < 3 THEN [n \in 1 .. h + 1 |-> n] ELSE far
  BY DEF simp
<1> HIDE DEF S
<1> PICK c : c = Cardinality(S)
  OBVIOUS
<1>4. /\ c \in Nat /\ far \in [1 .. c -> S]
      /\ \A i, j \in 1 .. c : i < j => far[i] < far[j]
      /\ \A x \in S : \E i \in 1 .. c : far[i] = x
  BY <1>2, AscendingIs
<1>5. CASE Len(far) < 3
  BY <1>1, <1>3, <1>5
<1>6. CASE ~(Len(far) < 3)
  <2>1. kept = far /\ far \in Seq(Nat) /\ Len(far) = c /\ c >= 3
    <3>1. kept = far
      BY <1>3, <1>6
    <3>2. far \in [1 .. c -> Nat] /\ c \in Nat
      BY <1>2, <1>4
    <3>3. far \in Seq(Nat) /\ Len(far) = c
      BY <3>2
    <3> QED BY <1>4, <1>6, <3>1, <3>3
  <2>2. far[1] = 1
    <3>1. PICK i \in 1 .. c : far[i] = 1
      BY <1>2, <1>4
    <3>2. 1 \in 1 .. c /\ far[1] \in 1 .. h + 1
      BY <1>2, <1>4, <2>1
    <3>3. i = 1
      BY <1>4, <3>1, <3>2
    <3> QED BY <3>1, <3>3
  <2>3. \A i \in 1 .. c : far[i] \in 1 .. h + 1
    BY <1>2, <1>4
  <2> QED BY <1>4, <2>1, <2>2, <2>3
<1> QED BY <1>5, <1>6

\* How far a heading is from another, the short way around.
LEMMA AngleIs ==
    ASSUME NEW a \in 0 .. 359, NEW b \in 0 .. 359
    PROVE  /\ _angle_diff(a, b) \in Int
           /\ (CHOOSE d \in {b - a, b - a + 360, b - a - 360} : -180 < d /\ d <= 180) = _angle_diff(a, b)
<1> PICK x : x = b - a
  OBVIOUS
<1>0. x \in Int /\ x >= -359 /\ x <= 359
  OBVIOUS
<1> PICK m : m = (x + 180) % 360
  OBVIOUS
<1>1. m = IF x + 180 < 0 THEN x + 540 ELSE IF x + 180 >= 360 THEN x - 180 ELSE x + 180
  BY <1>0
<1>2. _angle_diff(a, b) = IF m - 180 = -180 THEN 180 ELSE m - 180
  BY DEF _angle_diff
<1>3. /\ _angle_diff(a, b) \in {x, x + 360, x - 360} /\ _angle_diff(a, b) \in Int
      /\ -180 < _angle_diff(a, b) /\ _angle_diff(a, b) <= 180
  BY <1>0, <1>1, <1>2
<1>4. \A d, e \in {x, x + 360, x - 360} : -180 < d /\ d <= 180 /\ -180 < e /\ e <= 180 => d = e
  BY <1>0
<1> QED BY <1>3, <1>4

Drives(kept, bends, N) == [n \in 1 .. N |-> [t |-> kept[n + 1] - 1, d |-> bends[n]]]

\* The bends of a track, as the code finds them, are those that are driven.
LEMMA TrackIs ==
    ASSUME NavigationTypeOK, Len(hops) >= 2,
           NEW kept, kept = simp, NEW bends, bends = change, NEW driven, driven = Driven
    PROVE  \E N : /\ Bent(kept, bends, N)
                  /\ driven = Drives(kept, bends, N)
<1>1. /\ kept \in Seq(Nat) /\ Len(kept) >= 3 /\ kept[1] = 1
      /\ \A i \in 1 .. Len(kept) : kept[i] \in 1 .. Len(hops) + 1
      /\ \A i, j \in 1 .. Len(kept) : i < j => kept[i] < kept[j]
  BY SimpIs
<1> PICK N : N = Len(kept) - 2
  OBVIOUS
<1>2. N \in Nat \ {0} /\ Len(kept) = N + 2
  BY <1>1
<1> DEFINE H(n) == hops[kept[n + 1] - 1].heading
<1>3. ASSUME NEW n \in 1 .. N + 1 PROVE H(n) \in 0 .. 359
  <2>1. n + 1 \in 1 .. Len(kept) /\ 1 \in 1 .. Len(kept) /\ 1 < n + 1
    BY <1>2
  <2>2. kept[n + 1] \in 1 .. Len(hops) + 1 /\ kept[1] < kept[n + 1]
    BY <1>1, <2>1
  <2>3. kept[n + 1] - 1 \in 1 .. Len(hops)
    BY <1>1, <2>2 DEF NavigationTypeOK
  <2>4. hops[kept[n + 1] - 1] \in Hop
    BY <2>3 DEF NavigationTypeOK
  <2> QED BY <2>4, NavigationAssumption DEF Hop
<1>4. bearings = [n \in 1 .. N + 1 |-> H(n)]
  BY <1>2 DEF bearings
<1> HIDE DEF H
<1>5. bends = [n \in 1 .. N |-> _angle_diff(H(n), H(n + 1))]
  <2> PICK b : b = bearings
    OBVIOUS
  <2>1. Len(b) = N + 1 /\ \A n \in 1 .. N : b[n] = H(n) /\ b[n + 1] = H(n + 1)
    BY <1>2, <1>4
  <2>2. bends = [n \in 1 .. Len(b) - 1 |-> _angle_diff(b[n], b[n + 1])]
    BY DEF change
  <2>3. Len(b) - 1 = N
    BY <1>2, <2>1
  <2> QED BY <2>1, <2>2, <2>3
<1>6. \A n \in 1 .. N : bends[n] \in Int /\ bends[n] = _angle_diff(H(n), H(n + 1))
  <2> TAKE n \in 1 .. N
  <2>0. n \in 1 .. N + 1 /\ n + 1 \in 1 .. N + 1
    BY <1>2
  <2>1. H(n) \in 0 .. 359 /\ H(n + 1) \in 0 .. 359
    BY <1>3, <2>0
  <2>2. _angle_diff(H(n), H(n + 1)) \in Int
    BY <2>1, AngleIs
  <2>3. bends[n] = _angle_diff(H(n), H(n + 1))
    BY <1>5
  <2> QED BY <2>2, <2>3
<1>7. driven = Drives(kept, bends, N)
  <2> DEFINE D(n) == CHOOSE d \in {H(n + 1) - H(n), H(n + 1) - H(n) + 360, H(n + 1) - H(n) - 360} :
                        -180 < d /\ d <= 180
  <2>1. driven = [n \in 1 .. N |-> [t |-> kept[n + 1] - 1, d |-> D(n)]]
    <3>1. \A n \in 1 .. N : (n + 1) + 1 = n + 2
      BY <1>2
    <3> QED BY <3>1 DEF Driven, rel_ms, H
  <2>2. ASSUME NEW n \in 1 .. N PROVE D(n) = bends[n]
    <3>0. n \in 1 .. N + 1 /\ n + 1 \in 1 .. N + 1
      BY <1>2
    <3>1. H(n) \in 0 .. 359 /\ H(n + 1) \in 0 .. 359
      BY <1>3, <3>0
    <3>2. D(n) = _angle_diff(H(n), H(n + 1))
      BY <3>1, AngleIs
    <3> QED BY <1>6, <3>2
  <2> HIDE DEF D
  <2> QED BY <2>1, <2>2 DEF Drives
<1>8. bends \in Seq(Int) /\ Len(bends) = N
  BY <1>2, <1>5, <1>6
<1>9. Bent(kept, bends, N)
  BY <1>1, <1>2, <1>8 DEF Bent
<1> QED BY <1>7, <1>9

-----------------------------------------------------------------------------
(* What is told. *)

LEMMA RunIs ==
    ASSUME NEW kept, NEW bends, NEW N, Bent(kept, bends, N), NEW n \in 1 .. N
    PROVE  /\ RunEnd(bends, n) \in n .. N
           /\ \A k \in n .. RunEnd(bends, n) : bends[k] > 0 <=> bends[n] > 0
<1> DEFINE T == {m \in n .. N : \A k \in n + 1 .. m : (bends[k] > 0 <=> bends[n] > 0) /\ Abs(bends[k]) > 5}
<1>1. N \in Int /\ n \in Int /\ n <= N
  BY DEF Bent
<1>2. RunEnd(bends, n) = Max(T)
  BY DEF RunEnd, Bent
<1>3. n \in T
  BY <1>1
<1>4. T \in SUBSET Int /\ \A x \in T : x <= N
  BY <1>1
<1>5. Max(T) \in T
  <2> HIDE DEF T
  <2> QED BY <1>1, <1>3, <1>4, GreatestInt
<1>6. ASSUME NEW k \in n .. RunEnd(bends, n) PROVE bends[k] > 0 <=> bends[n] > 0
  <2>0. RunEnd(bends, n) \in Int
    BY <1>2, <1>4, <1>5
  <2>1. k = n \/ k \in n + 1 .. RunEnd(bends, n)
    BY <1>1, <2>0
  <2>2. \A m \in n + 1 .. RunEnd(bends, n) : bends[m] > 0 <=> bends[n] > 0
    BY <1>2, <1>5
  <2> QED BY <2>1, <2>2
<1>7. RunEnd(bends, n) \in n .. N
  BY <1>2, <1>5
<1> QED BY <1>6, <1>7

\* The last bend that what is told at the m-th is about, whether something is told there,
\* and what.
Past(bends, m) == IF IsRoundabout(bends, m) THEN RunEnd(bends, m) ELSE m
Sharp(bends, m) == Abs(bends[m]) >= turn_threshold
Tells(kept, bends, m) ==
    IF IsRoundabout(bends, m)
    THEN Instruction(kept[m + 1], "roundabout_exit", "none", exit_no(run_total(bends, m)))
    ELSE Instruction(kept[m + 1], _turn_phrase(bends[m]).type, _turn_phrase(bends[m]).side, 0)

\* What is told from the n-th bend on, if q says what is told from later ones on.
TellFrom(kept, bends, q, n) ==
    IF n > Len(bends) THEN <<>>
    ELSE IF IsRoundabout(bends, n) THEN <<Tells(kept, bends, n)>> \o q[RunEnd(bends, n) + 1]
    ELSE IF Sharp(bends, n) THEN <<Tells(kept, bends, n)>> \o q[n + 1]
    ELSE q[n + 1]
Telling(kept, bends, q) == [n \in 1 .. Len(bends) + 1 |-> TellFrom(kept, bends, q, n)]

\* The function of the code, written out.
TellingOut(kept, bends, q) ==
    [n \in 1 .. Len(bends) + 1 |->
       IF n > Len(bends) THEN <<>>
       ELSE IF IsRoundabout(bends, n)
            THEN <<Instruction(kept[n + 1], "roundabout_exit", "none", exit_no(run_total(bends, n)))>>
                    \o q[RunEnd(bends, n) + 1]
       ELSE IF Abs(bends[n]) >= turn_threshold
            THEN <<Instruction(kept[n + 1], _turn_phrase(bends[n]).type, _turn_phrase(bends[n]).side, 0)>>
                    \o q[n + 1]
       ELSE q[n + 1]]

LEMMA TellingIs ==
    ASSUME NEW kept, NEW bends, NEW q
    PROVE  TellingOut(kept, bends, q) = Telling(kept, bends, q)
  BY DEF TellingOut, Telling, TellFrom, Tells, Sharp

LEMMA GuideIs ==
    ASSUME NEW kept, kept = simp, NEW bends, bends = change
    PROVE  _from_geometry =
             <<Instruction(kept[1], "start", "none", 0)>>
               \o (CHOOSE q : q = TellingOut(kept, bends, q))[1]
               \o <<Instruction(Last(kept), "destination", "none", 0)>>
  BY DEF _from_geometry, TellingOut

\* There is such a function: for the last bends, and so for all.
LEMMA TellingExists ==
    ASSUME NEW kept, NEW bends, NEW N, Bent(kept, bends, N)
    PROVE  \E q : q = Telling(kept, bends, q)
<1>0. N \in Nat /\ Len(bends) = N
  BY DEF Bent
<1> DEFINE From(q, k) == \A n \in 1 .. N + 1 : n >= N + 1 - k => q[n] = TellFrom(kept, bends, q, n)
           B == {k \in Nat : ~ \E q : From(q, k)}
<1>1. \A n \in 1 .. N : RunEnd(bends, n) \in n .. N
  BY RunIs
<1>2. ASSUME NEW p, NEW q, NEW n \in 1 .. N + 1, \A m \in 1 .. N + 1 : m > n => p[m] = q[m]
      PROVE  TellFrom(kept, bends, p, n) = TellFrom(kept, bends, q, n)
  <2>1. CASE n > N
    BY <1>0, <2>1 DEF TellFrom
  <2>2. CASE ~(n > N)
    <3>1. n \in 1 .. N
      BY <1>0, <2>2
    <3>2. n + 1 \in 1 .. N + 1 /\ RunEnd(bends, n) + 1 \in 1 .. N + 1 /\ RunEnd(bends, n) + 1 > n /\ n + 1 > n
      BY <1>0, <1>1, <3>1
    <3>3. p[n + 1] = q[n + 1] /\ p[RunEnd(bends, n) + 1] = q[RunEnd(bends, n) + 1]
      BY <1>2, <3>2
    <3> QED BY <3>3 DEF TellFrom
  <2> QED BY <2>1, <2>2
<1>3. B = {}
  <2> SUFFICES ASSUME B # {} PROVE FALSE
    OBVIOUS
  <2>1. PICK k \in B : \A y \in B : k <= y
    <3>1. B \in SUBSET Nat
      OBVIOUS
    <3> HIDE DEF B
    <3> QED BY <3>1, LeastOf
  <2>2. CASE k = 0
    <3> DEFINE z == [n \in 1 .. N + 1 |-> <<>>]
    <3>1. ASSUME NEW n \in 1 .. N + 1, n >= N + 1 - 0 PROVE z[n] = TellFrom(kept, bends, z, n)
      <4>1. n > N
        BY <1>0, <3>1
      <4> QED BY <1>0, <4>1 DEF TellFrom
    <3>2. From(z, 0)
      BY <3>1
    <3> HIDE DEF z, From
    <3> QED BY <2>1, <2>2, <3>2
  <2>3. CASE k # 0
    <3>0. k \in Nat /\ k - 1 \in Nat
      BY <2>1, <2>3
    <3>1. k - 1 \in Nat /\ k - 1 \notin B
      <4> HIDE DEF B
      <4> QED BY <2>1, <3>0
    <3>2. PICK q : From(q, k - 1)
      BY <3>1
    <3> DEFINE p == [n \in 1 .. N + 1 |-> IF n >= N + 1 - (k - 1) THEN q[n] ELSE TellFrom(kept, bends, q, n)]
    <3>3. ASSUME NEW n \in 1 .. N + 1, n >= N + 1 - k PROVE p[n] = TellFrom(kept, bends, p, n)
      <4>1. p[n] = TellFrom(kept, bends, q, n)
        BY <3>2
      <4>2. ASSUME NEW m \in 1 .. N + 1, m > n PROVE p[m] = q[m]
        <5>1. m >= N + 1 - (k - 1)
          BY <1>0, <3>0, <3>3, <4>2
        <5> QED BY <5>1
      <4> HIDE DEF p
      <4>3. TellFrom(kept, bends, p, n) = TellFrom(kept, bends, q, n)
        BY <1>2, <4>2
      <4> QED BY <4>1, <4>3
    <3>4. From(p, k)
      BY <3>3
    <3> HIDE DEF p, From
    <3> QED BY <2>1, <3>4
  <2> QED BY <2>2, <2>3
<1>4. PICK q : From(q, N + 1)
  <2>1. N + 1 \notin B /\ N + 1 \in Nat
    <3> HIDE DEF B
    <3> QED BY <1>0, <1>3
  <2> QED BY <2>1
<1>5. ASSUME NEW n \in 1 .. N + 1 PROVE q[n] = TellFrom(kept, bends, q, n)
  <2>1. n >= N + 1 - (N + 1)
    BY <1>0
  <2> QED BY <1>4, <2>1
<1> DEFINE p == [n \in 1 .. N + 1 |-> q[n]]
<1>6. ASSUME NEW n \in 1 .. N + 1 PROVE p[n] = TellFrom(kept, bends, p, n)
  <2>1. \A m \in 1 .. N + 1 : m > n => p[m] = q[m]
    OBVIOUS
  <2>2. p[n] = TellFrom(kept, bends, q, n)
    BY <1>5
  <2> HIDE DEF p
  <2>3. TellFrom(kept, bends, p, n) = TellFrom(kept, bends, q, n)
    BY <1>2, <2>1
  <2> QED BY <2>2, <2>3
<1>7. p = [n \in 1 .. N + 1 |-> p[n]]
  OBVIOUS
<1> HIDE DEF p
<1>8. p = Telling(kept, bends, p)
  BY <1>0, <1>6, <1>7 DEF Telling
<1> QED BY <1>8

Told(kept, bends, L, p) == [i \in 1 .. L |-> Tells(kept, bends, p[i])]

\* What is told from the n-th bend on is told at bends p[1], p[2], ..., each past the one
\* before, and no sharp bend is left out.
Leads(bends, N, n, L, p) ==
    /\ L \in Nat /\ p \in [1 .. L -> n .. N]
    /\ \A i \in 1 .. L : IsRoundabout(bends, p[i]) \/ Sharp(bends, p[i])
    /\ \A i, j \in 1 .. L : i < j => Past(bends, p[i]) < p[j]
    /\ \A m \in n .. N : Sharp(bends, m) =>
          \E i \in 1 .. L : p[i] <= m /\ m <= Past(bends, p[i])

\* The n-th bend is told of before what is told at p.
TellsOn(kept, bends, N, n, L, p) ==
    \E q : /\ Leads(bends, N, n, L + 1, q)
           /\ <<Tells(kept, bends, n)>> \o Told(kept, bends, L, p) = Told(kept, bends, L + 1, q)

LEMMA ToldFirst ==
    ASSUME NEW kept, NEW bends, NEW N \in Nat, NEW n \in 1 .. N, NEW L, NEW p,
           Leads(bends, N, Past(bends, n) + 1, L, p), Past(bends, n) \in n .. N,
           IsRoundabout(bends, n) \/ Sharp(bends, n)
    PROVE  TellsOn(kept, bends, N, n, L, p)
<1> PICK r : r = Past(bends, n) + 1
  OBVIOUS
<1>1. /\ L \in Nat /\ p \in [1 .. L -> r .. N]
      /\ \A i \in 1 .. L : IsRoundabout(bends, p[i]) \/ Sharp(bends, p[i])
      /\ \A i, j \in 1 .. L : i < j => Past(bends, p[i]) < p[j]
      /\ \A m \in r .. N : Sharp(bends, m) =>
            \E i \in 1 .. L : p[i] <= m /\ m <= Past(bends, p[i])
  BY DEF Leads
<1>0. n \in Nat /\ r \in Nat /\ n < r /\ N \in Nat /\ Past(bends, n) \in Nat
  OBVIOUS
<1> PICK q : q = [i \in 1 .. L + 1 |-> IF i = 1 THEN n ELSE p[i - 1]]
  OBVIOUS
<1>2. q[1] = n /\ \A i \in 1 .. L : q[i + 1] = p[i] /\ i + 1 \in 1 .. L + 1
  BY <1>1
<1>3. \A i \in 1 .. L + 1 : i # 1 => i - 1 \in 1 .. L /\ q[i] = p[i - 1]
  BY <1>1
<1>4. \A i \in 1 .. L : p[i] \in r .. N
  BY <1>1
<1>5. q \in [1 .. L + 1 -> n .. N]
  <2>1. ASSUME NEW i \in 1 .. L + 1 PROVE q[i] \in n .. N
    <3>1. CASE i = 1
      BY <1>0, <1>2, <3>1
    <3>2. CASE i # 1
      <4>1. q[i] \in r .. N
        BY <1>3, <1>4, <3>2
      <4> QED BY <1>0, <4>1
    <3> QED BY <3>1, <3>2
  <2> QED BY <2>1
<1>6. ASSUME NEW i \in 1 .. L + 1 PROVE IsRoundabout(bends, q[i]) \/ Sharp(bends, q[i])
  <2>1. CASE i = 1
    BY <1>2, <2>1
  <2>2. CASE i # 1
    BY <1>1, <1>3, <2>2
  <2> QED BY <2>1, <2>2
<1>7. ASSUME NEW i \in 1 .. L + 1, NEW j \in 1 .. L + 1, i < j PROVE Past(bends, q[i]) < q[j]
  <2>1. j # 1 /\ j - 1 \in 1 .. L /\ q[j] = p[j - 1] /\ q[j] \in r .. N
    BY <1>1, <1>3, <1>4, <1>7
  <2>2. CASE i = 1
    <3>1. Past(bends, q[i]) = Past(bends, n)
      BY <1>2, <2>2
    <3> QED BY <1>0, <2>1, <3>1
  <2>3. CASE i # 1
    <3>1. i - 1 \in 1 .. L /\ q[i] = p[i - 1]
      BY <1>3, <2>3
    <3>2. i - 1 < j - 1
      BY <1>1, <1>7
    <3> QED BY <1>1, <2>1, <3>1, <3>2
  <2> QED BY <2>2, <2>3
<1>8. ASSUME NEW m \in n .. N, Sharp(bends, m)
      PROVE  \E i \in 1 .. L + 1 : q[i] <= m /\ m <= Past(bends, q[i])
  <2>1. CASE m \in r .. N
    <3>1. PICK i \in 1 .. L : p[i] <= m /\ m <= Past(bends, p[i])
      BY <1>1, <1>8, <2>1
    <3>2. q[i + 1] = p[i] /\ i + 1 \in 1 .. L + 1
      BY <1>2
    <3> QED BY <3>1, <3>2
  <2>2. CASE m \notin r .. N
    <3>1. n <= m /\ m <= Past(bends, n)
      BY <1>0, <2>2
    <3>2. 1 \in 1 .. L + 1
      BY <1>1
    <3> QED BY <1>2, <3>1, <3>2
  <2> QED BY <2>1, <2>2
<1>9. Leads(bends, N, n, L + 1, q)
  BY <1>1, <1>5, <1>6, <1>7, <1>8 DEF Leads
<1>10. <<Tells(kept, bends, n)>> \o Told(kept, bends, L, p) = Told(kept, bends, L + 1, q)
  <2> PICK x, T, Q : x = Tells(kept, bends, n) /\ T = Told(kept, bends, L, p) /\ Q = Told(kept, bends, L + 1, q)
    OBVIOUS
  <2> DEFINE S == {Tells(kept, bends, m) : m \in n .. N}
  <2>1. x \in S
    BY <1>0
  <2>2. ASSUME NEW i \in 1 .. L PROVE T[i] = Tells(kept, bends, p[i]) /\ T[i] \in S
    <3>1. p[i] \in n .. N
      BY <1>0, <1>4
    <3> QED BY <3>1 DEF Told
  <2>3. ASSUME NEW i \in 1 .. L + 1 PROVE Q[i] = Tells(kept, bends, q[i]) /\ Q[i] \in S
    BY <1>5 DEF Told
  <2> HIDE DEF S
  <2>4. T \in Seq(S) /\ Len(T) = L
    <3>1. T \in [1 .. L -> S]
      BY <2>2 DEF Told
    <3> QED BY <1>1, <3>1
  <2>5. Q \in Seq(S) /\ Len(Q) = L + 1
    <3>1. Q \in [1 .. L + 1 -> S]
      BY <2>3 DEF Told
    <3>2. L + 1 \in Nat
      BY <1>1
    <3> QED BY <3>1, <3>2
  <2>6. <<x>> \in Seq(S) /\ Len(<<x>>) = 1 /\ <<x>>[1] = x
    BY <2>1
  <2>7. <<x>> \o T \in Seq(S) /\ Len(<<x>> \o T) = 1 + L
    BY <2>4, <2>6, ConcatProperties
  <2>8. ASSUME NEW i \in 1 .. L + 1 PROVE (<<x>> \o T)[i] = Q[i]
    <3>1. i \in 1 .. 1 + L
      BY <1>1
    <3>2. (<<x>> \o T)[i] = IF i <= 1 THEN <<x>>[i] ELSE T[i - 1]
      BY <2>4, <2>6, <3>1, ConcatProperties
    <3>3. CASE i = 1
      BY <1>2, <2>3, <2>6, <3>2, <3>3
    <3>4. CASE i # 1
      <4>1. ~(i <= 1)
        BY <3>4
      <4>2. i - 1 \in 1 .. L /\ q[i] = p[i - 1]
        BY <1>3, <3>4
      <4>3. (<<x>> \o T)[i] = T[i - 1]
        BY <3>2, <4>1
      <4>4. T[i - 1] = Tells(kept, bends, p[i - 1])
        BY <2>2, <4>2
      <4>5. Q[i] = Tells(kept, bends, q[i])
        BY <2>3
      <4> QED BY <4>2, <4>3, <4>4, <4>5
    <3> QED BY <3>3, <3>4
  <2>9. 1 + L = L + 1
    BY <1>1
  <2> QED BY <2>5, <2>7, <2>8, <2>9, SeqEqual
<1> QED BY <1>9, <1>10 DEF TellsOn

\* What is told from each bend on.
TellingLed(kept, bends, N, q) ==
    \E L, p : Leads(bends, N, 1, L, p) /\ q[1] = Told(kept, bends, L, p)

LEMMA TellingLeads ==
    ASSUME NEW kept, NEW bends, NEW N, Bent(kept, bends, N), NEW q, q = Telling(kept, bends, q)
    PROVE  TellingLed(kept, bends, N, q)
<1>0. N \in Nat /\ Len(bends) = N /\ N # 0
  BY DEF Bent
<1>1. \A n \in 1 .. N + 1 : q[n] = TellFrom(kept, bends, q, n)
  BY <1>0 DEF Telling
<1>2. \A n \in 1 .. N : RunEnd(bends, n) \in n .. N
  BY RunIs
<1> DEFINE Good(n) == \E L, p : Leads(bends, N, n, L, p) /\ q[n] = Told(kept, bends, L, p)
           B == {k \in Nat : k <= N /\ ~Good(N + 1 - k)}
<1>3. B = {}
  <2> SUFFICES ASSUME B # {} PROVE FALSE
    OBVIOUS
  <2>1. PICK k \in B : \A y \in B : k <= y
    <3>1. B \in SUBSET Nat
      OBVIOUS
    <3> HIDE DEF B
    <3> QED BY <3>1, LeastOf
  <2> PICK n : n = N + 1 - k
    OBVIOUS
  <2>2. k \in Nat /\ k <= N /\ ~Good(n)
    BY <2>1
  <2>3. n \in 1 .. N + 1
    BY <1>0, <2>2
  <2>4. ASSUME NEW m \in 1 .. N + 1, m > n PROVE Good(m)
    <3> DEFINE j == N + 1 - m
    <3>1. j \in Nat /\ j <= N /\ j < k /\ N + 1 - j = m
      BY <1>0, <2>2, <2>4
    <3>2. j \notin B
      <4> HIDE DEF B, j
      <4> QED BY <2>1, <2>2, <3>1
    <3>3. Good(N + 1 - j)
      <4> HIDE DEF Good
      <4> QED BY <3>1, <3>2
    <3> HIDE DEF Good, j
    <3> QED BY <3>1, <3>3
  <2> HIDE DEF B
  <2>5. CASE n > N
    <3> PICK p : p = [i \in 1 .. 0 |-> 0]
      OBVIOUS
    <3>1. q[n] = <<>>
      BY <1>0, <1>1, <2>3, <2>5 DEF TellFrom
    <3>2. Told(kept, bends, 0, p) = <<>>
      BY DEF Told
    <3>3. Leads(bends, N, n, 0, p)
      <4>1. n .. N = {} /\ 1 .. 0 = {}
        BY <1>0, <2>3, <2>5
      <4>2. p \in [1 .. 0 -> n .. N]
        BY <4>1
      <4> QED BY <4>1, <4>2 DEF Leads
    <3> QED BY <2>2, <3>1, <3>2, <3>3
  <2>6. CASE ~(n > N)
    <3>1. n \in 1 .. N /\ n + 1 \in 1 .. N + 1
      BY <1>0, <2>3, <2>6
    <3>2. Past(bends, n) \in n .. N
      BY <1>0, <1>2, <3>1 DEF Past
    <3> PICK r : r = Past(bends, n) + 1
      OBVIOUS
    <3>3. r \in 1 .. N + 1 /\ r > n
      BY <1>0, <3>1, <3>2
    <3>4. CASE IsRoundabout(bends, n) \/ Sharp(bends, n)
      <4>1. q[n] = <<Tells(kept, bends, n)>> \o q[r]
        BY <1>0, <1>1, <2>3, <2>6, <3>4 DEF TellFrom, Past
      <4>2. PICK L, p : Leads(bends, N, r, L, p) /\ q[r] = Told(kept, bends, L, p)
        BY <2>4, <3>3
      <4>3. TellsOn(kept, bends, N, n, L, p)
        <5>1. Leads(bends, N, Past(bends, n) + 1, L, p)
          BY <4>2
        <5>2. N \in Nat
          BY <1>0
        <5> HIDE DEF Good
        <5> QED BY <3>1, <3>2, <3>4, <5>1, <5>2, ToldFirst
      <4>4. PICK s : /\ Leads(bends, N, n, L + 1, s)
                     /\ <<Tells(kept, bends, n)>> \o Told(kept, bends, L, p) = Told(kept, bends, L + 1, s)
        BY <4>3 DEF TellsOn
      <4> QED BY <2>2, <4>1, <4>2, <4>4
    <3>5. CASE ~(IsRoundabout(bends, n) \/ Sharp(bends, n))
      <4>1. q[n] = q[n + 1]
        BY <1>0, <1>1, <2>3, <2>6, <3>5 DEF TellFrom
      <4>2. n + 1 > n
        BY <3>1
      <4>3. PICK L, p : Leads(bends, N, n + 1, L, p) /\ q[n + 1] = Told(kept, bends, L, p)
        BY <2>4, <3>1, <4>2
      <4>4. Leads(bends, N, n, L, p)
        <5>1. \A m \in n .. N : m = n \/ m \in n + 1 .. N
          BY <1>0, <3>1
        <5>2. /\ L \in Nat /\ p \in [1 .. L -> n + 1 .. N]
              /\ \A i \in 1 .. L : IsRoundabout(bends, p[i]) \/ Sharp(bends, p[i])
              /\ \A i, j \in 1 .. L : i < j => Past(bends, p[i]) < p[j]
              /\ \A m \in n + 1 .. N : Sharp(bends, m) =>
                    \E i \in 1 .. L : p[i] <= m /\ m <= Past(bends, p[i])
          BY <4>3 DEF Leads
        <5>3. n + 1 .. N \subseteq n .. N
          BY <1>0, <3>1
        <5>4. p \in [1 .. L -> n .. N]
          BY <5>2, <5>3
        <5>5. ASSUME NEW m \in n .. N, Sharp(bends, m) PROVE \E i \in 1 .. L : p[i] <= m /\ m <= Past(bends, p[i])
          <6>1. m \in n + 1 .. N
            BY <3>5, <5>1, <5>5
          <6> QED BY <5>2, <5>5, <6>1
        <5> QED BY <5>2, <5>4, <5>5 DEF Leads
      <4> QED BY <2>2, <4>1, <4>3, <4>4
    <3> QED BY <3>4, <3>5
  <2> QED BY <2>5, <2>6
<1>4. N \in Nat /\ N <= N /\ N \notin B /\ N + 1 - N = 1
  <2> HIDE DEF B
  <2> QED BY <1>0, <1>3
<1>5. Good(N + 1 - N)
  <2> HIDE DEF Good
  <2> QED BY <1>4
<1> QED BY <1>4, <1>5 DEF TellingLed

-----------------------------------------------------------------------------
(* The guide. *)

\* The points that things are told at, and what is told there.
At(N, L, p) == [k \in 1 .. L + 2 |-> IF k = 1 THEN 1 ELSE IF k = L + 2 THEN N + 2 ELSE p[k - 1] + 1]
Guide(told, kept, bends, N, L, p) ==
    /\ Len(told) = L + 2 /\ DOMAIN told = 1 .. L + 2
    /\ told[1] = Instruction(kept[1], "start", "none", 0)
    /\ \A i \in 1 .. L : told[i + 1] = Tells(kept, bends, p[i])
    /\ told[L + 2] = Instruction(kept[N + 2], "destination", "none", 0)

LEMMA PastIs ==
    ASSUME NEW kept, NEW bends, NEW N, Bent(kept, bends, N), NEW n \in 1 .. N
    PROVE  Past(bends, n) \in n .. N
<1>1. RunEnd(bends, n) \in n .. N
  BY RunIs
<1>2. N \in Nat
  BY DEF Bent
<1> QED BY <1>1, <1>2 DEF Past

LEMMA AtIs ==
    ASSUME NEW kept, NEW bends, NEW N, Bent(kept, bends, N),
           NEW L, NEW p, Leads(bends, N, 1, L, p), NEW at, at = At(N, L, p)
    PROVE  /\ at[1] = 1 /\ at[L + 2] = N + 2
           /\ \A i \in 1 .. L : at[i + 1] = p[i] + 1
           /\ \A k \in 1 .. L + 2 : at[k] \in 1 .. N + 2
           /\ \A i, j \in 1 .. L + 2 : i < j => at[i] < at[j]
           /\ \A i \in 1 .. L, j \in 1 .. L + 2 : i + 1 < j => Past(bends, p[i]) + 1 < at[j]
<1>0. /\ N \in Nat /\ N # 0 /\ L \in Nat
      /\ \A i \in 1 .. L : p[i] \in 1 .. N
      /\ \A i, j \in 1 .. L : i < j => Past(bends, p[i]) < p[j]
  BY DEF Bent, Leads
<1>1. \A i \in 1 .. L : Past(bends, p[i]) \in p[i] .. N
  BY <1>0, PastIs
<1>2. at[1] = 1 /\ at[L + 2] = N + 2
  BY <1>0 DEF At
<1>3. ASSUME NEW i \in 1 .. L PROVE at[i + 1] = p[i] + 1
  <2>1. i + 1 \in 1 .. L + 2 /\ i + 1 # 1 /\ i + 1 # L + 2 /\ i + 1 - 1 = i
    BY <1>0
  <2> QED BY <2>1 DEF At
<1>4. ASSUME NEW k \in 1 .. L + 2 PROVE k = 1 \/ k = L + 2 \/ \E i \in 1 .. L : k = i + 1
  <2>1. CASE k # 1 /\ k # L + 2
    <3>1. k - 1 \in 1 .. L /\ k = k - 1 + 1
      BY <1>0, <2>1
    <3> QED BY <3>1
  <2> QED BY <2>1
<1>5. ASSUME NEW k \in 1 .. L + 2 PROVE at[k] \in 1 .. N + 2
  <2>1. 1 \in 1 .. N + 2 /\ N + 2 \in 1 .. N + 2
    BY <1>0
  <2>2. ASSUME NEW i \in 1 .. L, k = i + 1 PROVE at[k] \in 1 .. N + 2
    <3>1. p[i] \in 1 .. N /\ at[k] = p[i] + 1
      BY <1>0, <1>3, <2>2
    <3> QED BY <1>0, <3>1
  <2> QED BY <1>2, <1>4, <2>1, <2>2
<1>6. ASSUME NEW i \in 1 .. L, NEW j \in 1 .. L + 2, i + 1 < j PROVE Past(bends, p[i]) + 1 < at[j]
  <2>1. CASE j = L + 2
    BY <1>0, <1>1, <1>2, <2>1
  <2>2. ASSUME NEW h \in 1 .. L, j = h + 1 PROVE Past(bends, p[i]) + 1 < at[j]
    <3>1. i < h
      BY <1>0, <1>6, <2>2
    <3>2. Past(bends, p[i]) < p[h] /\ at[j] = p[h] + 1
      BY <1>0, <1>3, <2>2, <3>1
    <3> QED BY <1>0, <1>1, <3>2
  <2>3. j # 1
    BY <1>0, <1>6
  <2> QED BY <1>4, <2>1, <2>2, <2>3
<1>7. ASSUME NEW i \in 1 .. L + 2, NEW j \in 1 .. L + 2, i < j PROVE at[i] < at[j]
  <2>1. CASE i = 1
    <3>1. CASE j = L + 2
      BY <1>0, <1>2, <2>1, <3>1
    <3>2. ASSUME NEW h \in 1 .. L, j = h + 1 PROVE at[i] < at[j]
      <4>1. at[i] = 1 /\ p[h] \in 1 .. N /\ at[j] = p[h] + 1
        BY <1>0, <1>2, <1>3, <2>1, <3>2
      <4> QED BY <1>0, <4>1
    <3> QED BY <1>0, <1>4, <1>7, <2>1, <3>1, <3>2
  <2>2. ASSUME NEW g \in 1 .. L, i = g + 1 PROVE at[i] < at[j]
    <3>1. Past(bends, p[g]) + 1 < at[j]
      BY <1>6, <1>7, <2>2
    <3>2. at[i] = p[g] + 1 /\ p[g] \in 1 .. N /\ Past(bends, p[g]) \in p[g] .. N
      BY <1>0, <1>1, <1>3, <2>2
    <3> QED BY <1>5, <3>1, <3>2
  <2>3. i # L + 2
    BY <1>0, <1>7
  <2> QED BY <1>4, <2>1, <2>2, <2>3
<1> QED BY <1>2, <1>3, <1>5, <1>6, <1>7

\* When things are told.
LEMMA TimesAre ==
    ASSUME NEW kept, NEW bends, NEW N, Bent(kept, bends, N),
           NEW L, NEW p, Leads(bends, N, 1, L, p), NEW at, at = At(N, L, p),
           NEW told, Guide(told, kept, bends, N, L, p),
           NEW driven, driven = Drives(kept, bends, N)
    PROVE  /\ \A k \in 1 .. L + 2 : told[k].t_ms = kept[at[k]] - 1
           /\ \A j, k \in 1 .. L + 2 : j < k => told[j].t_ms < told[k].t_ms
           /\ \A k \in 1 .. L + 2, n \in 1 .. N :
                 /\ (told[k].t_ms <= driven[n].t) <=> (at[k] <= n + 1)
                 /\ (driven[n].t < told[k].t_ms) <=> (n + 1 < at[k])
                 /\ (driven[n].t = told[k].t_ms) <=> (n + 1 = at[k])
<1>0. /\ N \in Nat /\ L \in Nat /\ kept \in [1 .. N + 2 -> Nat]
      /\ \A i, j \in 1 .. N + 2 : i < j => kept[i] < kept[j]
  <2>1. kept \in Seq(Nat) /\ Len(kept) = N + 2
    BY DEF Bent
  <2>2. kept \in [1 .. N + 2 -> Nat]
    BY <2>1
  <2> QED BY <2>2 DEF Bent, Leads
<1>1. /\ at[1] = 1 /\ at[L + 2] = N + 2
      /\ \A i \in 1 .. L : at[i + 1] = p[i] + 1
      /\ \A k \in 1 .. L + 2 : at[k] \in 1 .. N + 2
      /\ \A i, j \in 1 .. L + 2 : i < j => at[i] < at[j]
  BY AtIs
<1>2. ASSUME NEW k \in 1 .. L + 2 PROVE told[k].t_ms = kept[at[k]] - 1
  <2>1. CASE k = 1
    BY <1>1, <2>1 DEF Guide, Instruction, rel_ms
  <2>2. CASE k = L + 2
    BY <1>1, <2>2 DEF Guide, Instruction, rel_ms
  <2>3. CASE k # 1 /\ k # L + 2
    <3> PICK i : i = k - 1
      OBVIOUS
    <3>1. i \in 1 .. L /\ k = i + 1
      BY <1>0, <2>3
    <3>2. told[k] = Tells(kept, bends, p[i]) /\ at[k] = p[i] + 1
      BY <1>1, <3>1 DEF Guide
    <3>3. Tells(kept, bends, p[i]).t_ms = kept[p[i] + 1] - 1
      <4> PICK a, b, c : a = exit_no(run_total(bends, p[i])) /\ b = _turn_phrase(bends[p[i]]).type /\ c = _turn_phrase(bends[p[i]]).side
        OBVIOUS
      <4> QED BY DEF Tells, Instruction, rel_ms
    <3> QED BY <3>2, <3>3
  <2> QED BY <2>1, <2>2, <2>3
<1>3. \A x, y \in 1 .. N + 2 : (kept[x] - 1 <= kept[y] - 1) <=> (x <= y)
  <2>1. ASSUME NEW x \in 1 .. N + 2, NEW y \in 1 .. N + 2 PROVE (kept[x] - 1 <= kept[y] - 1) <=> (x <= y)
    <3>1. kept[x] \in Nat /\ kept[y] \in Nat /\ (x < y => kept[x] < kept[y]) /\ (y < x => kept[y] < kept[x])
      BY <1>0
    <3> QED BY <1>0, <3>1
  <2> QED BY <2>1
<1>4. \A x, y \in 1 .. N + 2 : (kept[x] - 1 < kept[y] - 1) <=> (x < y)
  <2>1. ASSUME NEW x \in 1 .. N + 2, NEW y \in 1 .. N + 2 PROVE (kept[x] - 1 < kept[y] - 1) <=> (x < y)
    <3>1. kept[x] \in Nat /\ kept[y] \in Nat /\ ((kept[y] - 1 <= kept[x] - 1) <=> (y <= x))
      BY <1>0, <1>3
    <3> QED BY <1>0, <3>1
  <2> QED BY <2>1
<1>5. ASSUME NEW k \in 1 .. L + 2, NEW n \in 1 .. N
      PROVE  /\ (told[k].t_ms <= driven[n].t) <=> (at[k] <= n + 1)
             /\ (driven[n].t < told[k].t_ms) <=> (n + 1 < at[k])
             /\ (driven[n].t = told[k].t_ms) <=> (n + 1 = at[k])
  <2>1. /\ driven[n].t = kept[n + 1] - 1 /\ told[k].t_ms = kept[at[k]] - 1
        /\ n + 1 \in 1 .. N + 2 /\ at[k] \in 1 .. N + 2
        /\ kept[n + 1] \in Nat /\ kept[at[k]] \in Nat
    <3>1. driven[n] = [t |-> kept[n + 1] - 1, d |-> bends[n]]
      BY DEF Drives
    <3>2. n + 1 \in 1 .. N + 2 /\ at[k] \in 1 .. N + 2
      BY <1>0, <1>1
    <3>3. kept[n + 1] \in Nat /\ kept[at[k]] \in Nat
      BY <1>0, <3>2
    <3> QED BY <1>2, <3>1, <3>2, <3>3
  <2>2. /\ (kept[n + 1] - 1 <= kept[at[k]] - 1) <=> (n + 1 <= at[k])
        /\ (kept[at[k]] - 1 <= kept[n + 1] - 1) <=> (at[k] <= n + 1)
        /\ (kept[n + 1] - 1 < kept[at[k]] - 1) <=> (n + 1 < at[k])
    BY <1>3, <1>4, <2>1
  <2> QED BY <2>1, <2>2
<1>6. \A j, k \in 1 .. L + 2 : j < k => told[j].t_ms < told[k].t_ms
  BY <1>1, <1>2, <1>4
<1> QED BY <1>2, <1>5, <1>6

\* The phrase of a turn is none of a roundabout, and says its side.
LEMMA PhraseIs ==
    ASSUME NEW angle \in Int
    PROVE  _turn_phrase(angle).type # "roundabout_exit" /\ _turn_phrase(angle).side = SideOf(angle)
<1> PICK mag : mag = Abs(angle)
  OBVIOUS
<1>1. (CASE mag >= 150 -> "uturn" [] mag \in 110 .. 149 -> "sharp" [] mag \in 40 .. 109 -> "turn"
         [] mag \in 18 .. 39 -> "slight" [] OTHER -> "continue") # "roundabout_exit"
  OBVIOUS
<1> QED BY <1>1 DEF _turn_phrase, SideOf

\* What is told at a bend, but for the number of the exit.
LEMMA TellsIs ==
    ASSUME NEW kept, NEW bends, NEW m, bends[m] \in Int
    PROVE  /\ IsRoundabout(bends, m) => Tells(kept, bends, m).type = "roundabout_exit"
           /\ ~IsRoundabout(bends, m) => /\ Tells(kept, bends, m).type # "roundabout_exit"
                                         /\ Tells(kept, bends, m).side = SideOf(bends[m])
<1>1. _turn_phrase(bends[m]).type # "roundabout_exit" /\ _turn_phrase(bends[m]).side = SideOf(bends[m])
  BY PhraseIs
<1> PICK a, b, c : a = exit_no(run_total(bends, m)) /\ b = _turn_phrase(bends[m]).type /\ c = _turn_phrase(bends[m]).side
  OBVIOUS
<1> QED BY <1>1 DEF Tells, Instruction

\* At every bend its turn is told, or a roundabout was that has turned to its side since.
AtBends(told, driven) ==
    \A n \in DOMAIN driven : Abs(driven[n].d) >= turn_threshold =>
       LET heard == Heard(told, driven[n].t) IN
       \/ heard.t_ms = driven[n].t /\ heard.side = SideOf(driven[n].d)
       \/ /\ heard.type = "roundabout_exit"
          /\ \A m \in 1 .. n - 1 : heard.t_ms <= driven[m].t /\ driven[m].d # 0 =>
                SideOf(driven[m].d) = SideOf(driven[n].d)

LEMMA AtBendsIs ==
    ASSUME NEW kept, NEW bends, NEW N, Bent(kept, bends, N),
           NEW L, NEW p, Leads(bends, N, 1, L, p),
           NEW told, Guide(told, kept, bends, N, L, p),
           NEW driven, driven = Drives(kept, bends, N)
    PROVE  AtBends(told, driven)
<1> PICK at : at = At(N, L, p)
  OBVIOUS
<1>0. /\ N \in Nat /\ L \in Nat /\ bends \in [1 .. N -> Int]
      /\ \A i \in 1 .. L : p[i] \in 1 .. N
      /\ \A m \in 1 .. N : Sharp(bends, m) => \E i \in 1 .. L : p[i] <= m /\ m <= Past(bends, p[i])
  <2>1. bends \in Seq(Int) /\ Len(bends) = N
    BY DEF Bent
  <2>2. bends \in [1 .. N -> Int]
    BY <2>1
  <2> QED BY <2>2 DEF Bent, Leads
<1>1. /\ \A i \in 1 .. L : at[i + 1] = p[i] + 1
      /\ \A k \in 1 .. L + 2 : at[k] \in 1 .. N + 2
      /\ \A i \in 1 .. L, j \in 1 .. L + 2 : i + 1 < j => Past(bends, p[i]) + 1 < at[j]
  BY AtIs
<1>2. \A k \in 1 .. L + 2, n \in 1 .. N :
         /\ (told[k].t_ms <= driven[n].t) <=> (at[k] <= n + 1)
         /\ (driven[n].t < told[k].t_ms) <=> (n + 1 < at[k])
         /\ (driven[n].t = told[k].t_ms) <=> (n + 1 = at[k])
  BY TimesAre
<1>3. DOMAIN driven = 1 .. N /\ \A n \in 1 .. N : driven[n].d = bends[n]
  BY DEF Drives
<1>4. ASSUME NEW n \in 1 .. N, Sharp(bends, n)
      PROVE  LET heard == Heard(told, driven[n].t) IN
             \/ heard.t_ms = driven[n].t /\ heard.side = SideOf(bends[n])
             \/ /\ heard.type = "roundabout_exit"
                /\ \A m \in 1 .. n - 1 : heard.t_ms <= driven[m].t /\ driven[m].d # 0 =>
                      SideOf(driven[m].d) = SideOf(bends[n])
  <2>1. PICK i \in 1 .. L : p[i] <= n /\ n <= Past(bends, p[i])
    BY <1>0, <1>4
  <2>2. i + 1 \in 1 .. L + 2 /\ p[i] \in 1 .. N /\ at[i + 1] = p[i] + 1 /\ Past(bends, p[i]) \in p[i] .. N
    BY <1>0, <1>1, PastIs
  <2>3. Heard(told, driven[n].t) = told[i + 1]
    <3> DEFINE S == {k \in DOMAIN told : told[k].t_ms <= driven[n].t}
    <3>1. S = {k \in 1 .. L + 2 : at[k] <= n + 1}
      BY <1>2 DEF Guide
    <3>2. S \in SUBSET Int /\ i + 1 \in S
      <4>1. p[i] + 1 <= n + 1
        BY <1>0, <2>1, <2>2
      <4>2. at[i + 1] <= n + 1
        BY <2>2, <4>1
      <4>3. i + 1 \in S
        BY <2>2, <3>1, <4>2
      <4>4. S \subseteq 1 .. L + 2
        BY <3>1
      <4> HIDE DEF S
      <4> QED BY <1>0, <4>3, <4>4
    <3>3. ASSUME NEW k \in S PROVE i + 1 >= k
      <4>1. k \in 1 .. L + 2 /\ at[k] <= n + 1 /\ at[k] \in Int
        BY <1>0, <1>1, <3>1
      <4>2. ~(i + 1 < k)
        <5>1. i + 1 < k => Past(bends, p[i]) + 1 < at[k]
          BY <1>1, <4>1
        <5> QED BY <1>0, <2>1, <2>2, <4>1, <5>1
      <4> QED BY <1>0, <4>1, <4>2
    <3>4. Max(S) = i + 1
      <4> HIDE DEF S
      <4> QED BY <3>2, <3>3, GreatestIs
    <3> QED BY <3>4 DEF Heard
  <2> PICK heard : heard = told[i + 1]
    OBVIOUS
  <2>4. heard = Tells(kept, bends, p[i])
    BY DEF Guide
  <2>5. bends[p[i]] \in Int
    BY <1>0, <2>2
  <2>6. CASE IsRoundabout(bends, p[i])
    <3>1. heard.type = "roundabout_exit"
      BY <2>4, <2>5, <2>6, TellsIs
    <3>2. /\ Past(bends, p[i]) = RunEnd(bends, p[i])
          /\ \A k \in p[i] .. RunEnd(bends, p[i]) : bends[k] > 0 <=> bends[p[i]] > 0
      BY <2>2, <2>6, RunIs DEF Past
    <3>3. ASSUME NEW m \in 1 .. n - 1, heard.t_ms <= driven[m].t
          PROVE  SideOf(driven[m].d) = SideOf(bends[n])
      <4>1. m \in 1 .. N
        BY <1>0
      <4>2. at[i + 1] <= m + 1
        BY <1>2, <2>2, <3>3, <4>1
      <4>3. m \in p[i] .. RunEnd(bends, p[i]) /\ n \in p[i] .. RunEnd(bends, p[i])
        <5>1. n \in Int /\ m < n /\ p[i] \in Int /\ m \in Int
          BY <1>0, <2>2, <4>1
        <5>2. p[i] + 1 <= m + 1
          BY <2>2, <4>2
        <5>3. p[i] <= m
          BY <5>1, <5>2
        <5>4. RunEnd(bends, p[i]) \in p[i] .. N /\ n <= RunEnd(bends, p[i])
          BY <2>1, <2>2, <3>2
        <5> QED BY <1>0, <2>1, <5>1, <5>3, <5>4
      <4>4. bends[m] > 0 <=> bends[n] > 0
        BY <3>2, <4>3
      <4> QED BY <1>3, <4>1, <4>4 DEF SideOf
    <3> QED BY <2>3, <3>1, <3>3
  <2>7. CASE ~IsRoundabout(bends, p[i])
    <3>1. p[i] = n
      BY <1>0, <2>1, <2>2, <2>7 DEF Past
    <3>2. heard.side = SideOf(bends[n])
      BY <2>4, <2>5, <2>7, <3>1, TellsIs
    <3>3. heard.t_ms = driven[n].t
      BY <1>2, <2>2, <3>1
    <3> QED BY <2>3, <3>2, <3>3
  <2> QED BY <2>6, <2>7
<1>5. ASSUME NEW n \in 1 .. N, Abs(driven[n].d) >= turn_threshold PROVE Sharp(bends, n)
  BY <1>3, <1>5 DEF Sharp
<1> QED BY <1>3, <1>4, <1>5 DEF AtBends

\* What is told is a roundabout at one, and at a sharp bend otherwise.
LEMMA ToldAt ==
    ASSUME NEW kept, NEW bends, NEW N, Bent(kept, bends, N),
           NEW L, NEW p, Leads(bends, N, 1, L, p),
           NEW told, Guide(told, kept, bends, N, L, p), NEW k \in 1 .. L + 2
    PROVE  /\ told[k].type = "roundabout_exit" =>
                 \E i \in 1 .. L : k = i + 1 /\ IsRoundabout(bends, p[i])
           /\ k # 1 /\ k # L + 2 /\ told[k].type # "roundabout_exit" =>
                 \E i \in 1 .. L : k = i + 1 /\ Sharp(bends, p[i])
<1>0. /\ N \in Nat /\ L \in Nat /\ bends \in [1 .. N -> Int]
      /\ \A i \in 1 .. L : p[i] \in 1 .. N /\ (IsRoundabout(bends, p[i]) \/ Sharp(bends, p[i]))
  <2>1. bends \in Seq(Int) /\ Len(bends) = N
    BY DEF Bent
  <2>2. bends \in [1 .. N -> Int]
    BY <2>1
  <2> QED BY <2>2 DEF Bent, Leads
<1>1. CASE k = 1
  <2>1. told[k].type = "start"
    BY <1>1 DEF Guide, Instruction
  <2> QED BY <1>1, <2>1
<1>2. CASE k = L + 2
  <2>1. told[k].type = "destination"
    BY <1>2 DEF Guide, Instruction
  <2> QED BY <1>2, <2>1
<1>3. CASE k # 1 /\ k # L + 2
  <2> PICK i : i = k - 1
    OBVIOUS
  <2>1. i \in 1 .. L /\ k = i + 1
    BY <1>0, <1>3
  <2>2. told[k] = Tells(kept, bends, p[i]) /\ bends[p[i]] \in Int
    BY <1>0, <2>1 DEF Guide
  <2>3. IsRoundabout(bends, p[i]) <=> told[k].type = "roundabout_exit"
    BY <2>2, TellsIs
  <2> QED BY <1>0, <2>1, <2>3
<1> QED BY <1>1, <1>2, <1>3

\* A roundabout is told only where the track comes around.
AtRoundabouts(told) ==
    \A k \in {k \in DOMAIN told : told[k].type = "roundabout_exit"} :
       LET under == Under(told, k) IN \E n \in under : Abs(Around(Min(under), n)) >= 160

LEMMA AtRoundaboutsIs ==
    ASSUME NEW kept, NEW bends, NEW N, Bent(kept, bends, N),
           NEW L, NEW p, Leads(bends, N, 1, L, p),
           NEW told, Guide(told, kept, bends, N, L, p), Driven = Drives(kept, bends, N)
    PROVE  AtRoundabouts(told)
<1> PICK at : at = At(N, L, p)
  OBVIOUS
<1> PICK driven : driven = Drives(kept, bends, N)
  OBVIOUS
<1>0. /\ N \in Nat /\ L \in Nat /\ bends = [n \in 1 .. N |-> bends[n]]
      /\ \A i \in 1 .. L : p[i] \in 1 .. N
  <2>1. bends \in Seq(Int) /\ Len(bends) = N
    BY DEF Bent
  <2>2. bends = [n \in 1 .. N |-> bends[n]]
    BY <2>1
  <2> QED BY <2>2 DEF Bent, Leads
<1>1. /\ \A i \in 1 .. L : at[i + 1] = p[i] + 1
      /\ \A k \in 1 .. L + 2 : at[k] \in 1 .. N + 2
      /\ \A i \in 1 .. L, j \in 1 .. L + 2 : i + 1 < j => Past(bends, p[i]) + 1 < at[j]
  BY AtIs
<1>2. \A k \in 1 .. L + 2, n \in 1 .. N :
         /\ (told[k].t_ms <= driven[n].t) <=> (at[k] <= n + 1)
         /\ (driven[n].t < told[k].t_ms) <=> (n + 1 < at[k])
         /\ (driven[n].t = told[k].t_ms) <=> (n + 1 = at[k])
  BY TimesAre
<1>3. DOMAIN driven = 1 .. N /\ \A n \in 1 .. N : driven[n].d = bends[n]
  BY DEF Drives
<1>4. [n \in DOMAIN Driven |-> Driven[n].d] = bends
  BY <1>0, <1>3
<1>5. \A from, to : Around(from, to) = Turned(bends, from, to)
  BY <1>4 DEF Around
<1>6. ASSUME NEW k \in DOMAIN told, told[k].type = "roundabout_exit"
      PROVE  LET under == Under(told, k) IN \E n \in under : Abs(Around(Min(under), n)) >= 160
  <2>0. k \in 1 .. L + 2
    BY DEF Guide
  <2>1. PICK i \in 1 .. L : k = i + 1 /\ IsRoundabout(bends, p[i])
    BY <1>6, <2>0, ToldAt
  <2>2. /\ p[i] \in 1 .. N /\ k \in Int /\ k + 1 \in 1 .. L + 2 /\ i + 1 < k + 1 /\ at[k] = p[i] + 1
        /\ RunEnd(bends, p[i]) \in p[i] .. N /\ Past(bends, p[i]) = RunEnd(bends, p[i])
    BY <1>0, <1>1, <2>1, RunIs DEF Past
  <2>3. RunEnd(bends, p[i]) + 1 < at[k + 1] /\ at[k + 1] \in Int
    BY <1>0, <1>1, <2>1, <2>2
  <2> PICK under : under = Under(told, k)
    OBVIOUS
  <2>4. under = {n \in 1 .. N : at[k] <= n + 1 /\ n + 1 < at[k + 1]}
    <3>1. under = {n \in 1 .. N : told[k].t_ms <= driven[n].t /\ driven[n].t < told[k + 1].t_ms}
      BY <1>3 DEF Under
    <3>2. \A n \in 1 .. N : /\ (told[k].t_ms <= driven[n].t) <=> (at[k] <= n + 1)
                            /\ (driven[n].t < told[k + 1].t_ms) <=> (n + 1 < at[k + 1])
      BY <1>2, <2>0, <2>2
    <3> QED BY <3>1, <3>2
  <2>5. p[i] \in under /\ RunEnd(bends, p[i]) \in under
    <3> PICK r : r = RunEnd(bends, p[i])
      OBVIOUS
    <3>1. r \in 1 .. N /\ p[i] + 1 <= r + 1 /\ r + 1 < at[k + 1] /\ p[i] + 1 < at[k + 1]
      BY <1>0, <2>2, <2>3
    <3> QED BY <2>2, <2>4, <3>1
  <2>6. \A n \in under : p[i] <= n
    BY <1>0, <2>2, <2>4
  <2>7. Min(under) = p[i]
    <3>1. under \in SUBSET Int
      BY <1>0, <2>4
    <3> QED BY <2>5, <2>6, <3>1, LeastIs
  <2>8. Abs(Around(Min(under), RunEnd(bends, p[i]))) >= 160
    BY <1>5, <2>1, <2>7 DEF IsRoundabout, run_total
  <2> QED BY <2>5, <2>8
<1> QED BY <1>6 DEF AtRoundabouts

\* The guide, written out.
LEMMA GuideExists ==
    ASSUME NavigationTypeOK, Len(hops) >= 2
    PROVE  \E kept, bends, N, L, p :
              /\ Bent(kept, bends, N) /\ Leads(bends, N, 1, L, p)
              /\ Guide(generate, kept, bends, N, L, p) /\ Driven = Drives(kept, bends, N)
<1> PICK kept, bends : kept = simp /\ bends = change
  OBVIOUS
<1>1. PICK N : Bent(kept, bends, N) /\ Driven = Drives(kept, bends, N)
  BY TrackIs
<1>2. generate = _from_geometry
  <2>1. Len(hops) \in Nat
    BY DEF NavigationTypeOK
  <2> QED BY <2>1 DEF generate
<1> PICK q : q = CHOOSE r : r = TellingOut(kept, bends, r)
  OBVIOUS
<1>3. q = Telling(kept, bends, q)
  <2>1. PICK r : r = Telling(kept, bends, r)
    BY <1>1, TellingExists
  <2>2. \E s : s = TellingOut(kept, bends, s)
    BY <2>1, TellingIs
  <2>3. q = TellingOut(kept, bends, q)
    BY <2>2
  <2> QED BY <2>3, TellingIs
<1>4. PICK L, p : Leads(bends, N, 1, L, p) /\ q[1] = Told(kept, bends, L, p)
  <2>1. Bent(kept, bends, N)
    BY <1>1
  <2>2. TellingLed(kept, bends, N, q)
    BY <1>3, <2>1, TellingLeads
  <2> QED BY <2>2 DEF TellingLed
<1>5. L \in Nat
  BY <1>4 DEF Leads
<1> PICK T : T = Told(kept, bends, L, p)
  OBVIOUS
<1> PICK s, d : /\ s = Instruction(kept[1], "start", "none", 0)
                /\ d = Instruction(Last(kept), "destination", "none", 0)
  OBVIOUS
<1> DEFINE S == {s, d} \cup {Tells(kept, bends, p[i]) : i \in 1 .. L}
<1>6. T \in Seq(S) /\ Len(T) = L /\ \A i \in 1 .. L : T[i] = Tells(kept, bends, p[i])
  <2>1. T \in [1 .. L -> S]
    BY DEF Told
  <2> HIDE DEF S
  <2>2. T \in Seq(S) /\ Len(T) = L
    BY <1>5, <2>1
  <2> QED BY <1>5, <2>2 DEF Told
<1>7. s \in S /\ d \in S
  OBVIOUS
<1> PICK told : told = <<s>> \o T \o <<d>>
  OBVIOUS
<1>8. generate = told
  BY <1>2, <1>4, GuideIs
<1> HIDE DEF S
<1>9. <<s>> \o T \in Seq(S) /\ Len(<<s>> \o T) = L + 1
      /\ (<<s>> \o T)[1] = s /\ \A i \in 1 .. L : (<<s>> \o T)[i + 1] = T[i]
  <2>1. <<s>> \in Seq(S) /\ Len(<<s>>) = 1 /\ <<s>>[1] = s
    BY <1>7
  <2>2. <<s>> \o T \in Seq(S) /\ Len(<<s>> \o T) = 1 + L
    BY <1>6, <2>1, ConcatProperties
  <2>3. \A i \in 1 .. 1 + L : (<<s>> \o T)[i] = IF i <= 1 THEN <<s>>[i] ELSE T[i - 1]
    BY <1>6, <2>1, ConcatProperties
  <2>4. \A i \in 1 .. L : i + 1 \in 1 .. 1 + L /\ ~(i + 1 <= 1) /\ i + 1 - 1 = i
    BY <1>5
  <2>5. 1 \in 1 .. 1 + L /\ 1 + L = L + 1
    BY <1>5
  <2>6. (<<s>> \o T)[1] = s
    BY <2>1, <2>3, <2>5
  <2>7. \A i \in 1 .. L : (<<s>> \o T)[i + 1] = T[i]
    <3>1. ASSUME NEW i \in 1 .. L PROVE (<<s>> \o T)[i + 1] = T[i]
      <4> PICK h : h = i + 1
        OBVIOUS
      <4>1. h \in 1 .. 1 + L /\ ~(h <= 1) /\ h - 1 = i
        BY <2>4
      <4>2. (<<s>> \o T)[h] = T[h - 1]
        BY <2>3, <4>1
      <4> QED BY <4>1, <4>2
    <3> QED BY <3>1
  <2> QED BY <2>2, <2>5, <2>6, <2>7
<1> PICK U : U = <<s>> \o T
  OBVIOUS
<1>10. Len(told) = L + 2 /\ told \in Seq(S) /\ told[L + 2] = d /\ \A i \in 1 .. L + 1 : told[i] = U[i]
  <2>1. <<d>> \in Seq(S) /\ Len(<<d>>) = 1 /\ <<d>>[1] = d /\ told = U \o <<d>>
    BY <1>7
  <2>0. U \in Seq(S) /\ Len(U) = L + 1
    BY <1>9
  <2>2. told \in Seq(S) /\ Len(told) = L + 1 + 1
    BY <2>0, <2>1, ConcatProperties
  <2>3. \A i \in 1 .. L + 1 + 1 : told[i] = IF i <= L + 1 THEN U[i] ELSE <<d>>[i - (L + 1)]
    BY <2>0, <2>1, ConcatProperties
  <2>4. /\ L + 1 + 1 = L + 2 /\ L + 2 \in 1 .. L + 1 + 1 /\ ~(L + 2 <= L + 1) /\ L + 2 - (L + 1) = 1
        /\ \A i \in 1 .. L + 1 : i \in 1 .. L + 1 + 1 /\ i <= L + 1
    BY <1>5
  <2>5. told[L + 2] = d
    <3> PICK h : h = L + 2
      OBVIOUS
    <3>1. h \in 1 .. L + 1 + 1 /\ ~(h <= L + 1) /\ h - (L + 1) = 1
      BY <1>5
    <3>2. told[h] = <<d>>[h - (L + 1)]
      BY <2>3, <3>1
    <3> QED BY <2>1, <3>1, <3>2
  <2>6. \A i \in 1 .. L + 1 : told[i] = U[i]
    BY <2>3, <2>4
  <2> QED BY <2>2, <2>4, <2>5, <2>6
<1>11. d = Instruction(kept[N + 2], "destination", "none", 0)
  <2>1. Len(kept) = N + 2
    BY <1>1 DEF Bent
  <2> QED BY <2>1 DEF Last
<1>12. Guide(told, kept, bends, N, L, p)
  <2>1. told[1] = s
    <3>1. 1 \in 1 .. L + 1
      BY <1>5
    <3> QED BY <1>9, <1>10, <3>1
  <2>2. ASSUME NEW i \in 1 .. L PROVE told[i + 1] = Tells(kept, bends, p[i])
    <3>1. i + 1 \in 1 .. L + 1
      BY <1>5
    <3> QED BY <1>6, <1>9, <1>10, <3>1
  <2>3. DOMAIN told = 1 .. L + 2
    BY <1>5, <1>10
  <2> QED BY <1>10, <1>11, <2>1, <2>2, <2>3 DEF Guide
<1> QED BY <1>1, <1>4, <1>8, <1>12

-----------------------------------------------------------------------------
\* The spoken guide follows the drive (navigation.generate): for any headings, threshold
\* and track, it runs forward from the start to the end; every sharp bend is told, or is in
\* a roundabout that has turned to its side since it was told; a roundabout is told only
\* where the track comes around by 160 degrees, a turn only at a sharp bend.
THEOREM GuideAlwaysFollowsTheDrive == NavigationSpec => []GuideFollowsTheDrive
<1>1. NavigationInit => NavigationTypeOK
  BY DEF NavigationInit, NavigationTypeOK
<1>2. NavigationTypeOK /\ [NavigationNext]_hops => NavigationTypeOK'
  BY DEF NavigationTypeOK, NavigationNext
<1>3. ASSUME NavigationTypeOK PROVE GuideFollowsTheDrive
  <2> SUFFICES ASSUME Len(hops) >= 2 PROVE GuideFollowsTheDrive
    BY DEF GuideFollowsTheDrive
  <2> PICK told, driven : told = generate /\ driven = Driven
    OBVIOUS
  <2>1. PICK kept, bends, N, L, p :
              /\ Bent(kept, bends, N) /\ Leads(bends, N, 1, L, p)
              /\ Guide(told, kept, bends, N, L, p) /\ driven = Drives(kept, bends, N)
    BY <1>3, GuideExists
  <2>2. L \in Nat /\ N \in Nat /\ kept[1] = 1
    BY <2>1 DEF Bent, Leads
  <2> PICK at : at = At(N, L, p)
    OBVIOUS
  <2>3. /\ \A j, k \in 1 .. L + 2 : j < k => told[j].t_ms < told[k].t_ms
        /\ \A k \in 1 .. L + 2, n \in 1 .. N : (driven[n].t = told[k].t_ms) <=> (n + 1 = at[k])
    <3>1. /\ \A k \in 1 .. L + 2 : told[k].t_ms = kept[at[k]] - 1
          /\ \A j, k \in 1 .. L + 2 : j < k => told[j].t_ms < told[k].t_ms
          /\ \A k \in 1 .. L + 2, n \in 1 .. N :
                /\ (told[k].t_ms <= driven[n].t) <=> (at[k] <= n + 1)
                /\ (driven[n].t < told[k].t_ms) <=> (n + 1 < at[k])
                /\ (driven[n].t = told[k].t_ms) <=> (n + 1 = at[k])
      BY <2>1, TimesAre
    <3> QED BY <3>1
  <2>4. told[1].type = "start" /\ told[1].t_ms = 0 /\ Last(told).type = "destination"
    BY <2>1, <2>2 DEF Guide, Instruction, rel_ms, Last
  <2>5. \A k \in 1 .. Len(told) - 1 : told[k].t_ms < told[k + 1].t_ms
    <3>1. Len(told) = L + 2
      BY <2>1 DEF Guide
    <3>2. \A k \in 1 .. L + 2 - 1 : k \in 1 .. L + 2 /\ k + 1 \in 1 .. L + 2 /\ k < k + 1
      BY <2>2
    <3> QED BY <2>3, <3>1, <3>2
  <2>6. AtBends(told, driven)
    BY <2>1, AtBendsIs
  <2>7. AtRoundabouts(told)
    BY <2>1, AtRoundaboutsIs
  <2>8. ASSUME NEW k \in 2 .. Len(told) - 1, told[k].type # "roundabout_exit"
        PROVE  \E n \in DOMAIN driven : driven[n].t = told[k].t_ms /\ Abs(driven[n].d) >= turn_threshold
    <3>1. Len(told) = L + 2
      BY <2>1 DEF Guide
    <3>2. k \in 1 .. L + 2 /\ k # 1 /\ k # L + 2
      BY <2>2, <3>1
    <3>3. PICK i \in 1 .. L : k = i + 1 /\ Sharp(bends, p[i])
      BY <2>1, <2>8, <3>2, ToldAt
    <3>4. p[i] \in 1 .. N /\ at[i + 1] = p[i] + 1
      <4>1. p[i] \in 1 .. N
        BY <2>1 DEF Leads
      <4>2. \A h \in 1 .. L : at[h + 1] = p[h] + 1
        BY <2>1, AtIs
      <4> QED BY <4>1, <4>2
    <3>5. DOMAIN driven = 1 .. N /\ driven[p[i]].d = bends[p[i]]
      BY <2>1, <3>4 DEF Drives
    <3>6. driven[p[i]].t = told[k].t_ms
      BY <2>3, <3>2, <3>3, <3>4
    <3> QED BY <3>3, <3>4, <3>5, <3>6 DEF Sharp
  <2>9. Len(told) = L + 2 /\ DOMAIN told = 1 .. L + 2
    BY <2>1 DEF Guide
  <2>10. \A k \in 2 .. Len(told) - 1 : k \in DOMAIN told
    BY <2>2, <2>9
  <2> QED BY <2>4, <2>5, <2>6, <2>7, <2>8, <2>10 DEF GuideFollowsTheDrive, AtBends, AtRoundabouts
<1> QED BY <1>1, <1>2, <1>3, PTL DEF NavigationSpec
=============================================================================
