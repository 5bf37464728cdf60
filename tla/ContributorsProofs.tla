--------------------------- MODULE ContributorsProofs ---------------------------
(***************************************************************************)
(* Theorems about Fund, for any administrators, instances, months and      *)
(* amounts; about InstructorVerification, for any applicants, numbers and  *)
(* requests; about Revenue, for any charges, deliveries and refunds, and   *)
(* for any calls of runAttribution and seconds watched; about Community,   *)
(* for any contributors, routes, qualities and instances; and about        *)
(* UploadWizard, for any clips, centres, selections and presses.           *)
(***************************************************************************)
EXTENDS Revenue, Fund, InstructorVerification, Community, UploadWizard, FiniteSetTheorems,
        SequenceTheorems, WellFoundedInduction, TLAPS

-----------------------------------------------------------------------------
(* What a charge brings. *)

\* The types of what webhooks and providers touch.
BillingOK ==
    /\ charged \in [Charge -> Int \cup {Null}]
    /\ back \in [Charge -> 0 .. Amount]
    /\ due \subseteq Event
    /\ invoices \in [Charge -> -1 .. Amount]
    /\ month \in Int

Paid(c) == [kind |-> "paid", charge |-> c, total |-> 0]
GivenBack(c) == [kind |-> "refund", charge |-> c, total |-> back[c]]

\* Nothing is known of a charge before it is made.
NothingAhead == \A c \in Charge : charged[c] = Null =>
    invoices[c] = -1 /\ back[c] = 0 /\ \A e \in due : e.charge # c

\* What was paid is recorded or will be; what is recorded as given back has been;
\* and the last total given back is recorded or will be.
Recorded(c) == charged[c] # Null => Paid(c) \in due \/ invoices[c] # -1
Bounded(c) == invoices[c] <= back[c]
Settled(c) == c \notin early /\ back[c] > 0 => GivenBack(c) \in due \/ invoices[c] = back[c]
TotalsBounded == \A e \in due : e.kind = "refund" => e.total <= back[e.charge]

RevenueInv ==
    /\ BillingOK /\ NothingAhead /\ TotalsBounded
    /\ \A c \in Charge : Recorded(c) /\ Bounded(c) /\ Settled(c)

LEMMA RevenueStarts == Init => RevenueInv
<1> USE RevenueAssumption
<1> QED BY DEF Init, RevenueInv, BillingOK, NothingAhead, TotalsBounded, Recorded, Bounded, Settled, Month

LEMMA RevenueSettles == RevenueInv => RevenueExact
<1> SUFFICES ASSUME RevenueInv, NEW c \in Charge, c \notin early, charged[c] # Null,
                    \A e \in due : e.charge # c
             PROVE  invoices[c] = back[c]
  BY DEF RevenueExact
<1>1. Paid(c) \notin due /\ GivenBack(c) \notin due
  BY DEF Paid, GivenBack
<1>2. invoices[c] \in -1 .. Amount /\ back[c] \in 0 .. Amount
  BY DEF RevenueInv, BillingOK
<1> QED BY <1>1, <1>2 DEF RevenueInv, Recorded, Bounded, Settled

LEMMA PayStep ==
  ASSUME RevenueInv, NEW c \in Charge, Pay(c)
  PROVE  RevenueInv'
<1> USE RevenueAssumption
<1>1. BillingOK'
  BY DEF RevenueInv, BillingOK, Pay, Event, Month
<1>2. NothingAhead'
  BY DEF RevenueInv, BillingOK, Pay, NothingAhead
<1>3. TotalsBounded'
  BY DEF RevenueInv, BillingOK, Pay, TotalsBounded
<1>4. ASSUME NEW d \in Charge PROVE Recorded(d)' /\ Bounded(d)' /\ Settled(d)'
  BY DEF RevenueInv, BillingOK, Pay, Recorded, Bounded, Settled, Paid, GivenBack
<1> QED BY <1>1, <1>2, <1>3, <1>4 DEF RevenueInv

LEMMA GiveBackStep ==
  ASSUME RevenueInv, NEW c \in Charge, GiveBack(c)
  PROVE  RevenueInv'
<1> USE RevenueAssumption
<1>1. PICK total \in back[c] + 1 .. Amount :
        /\ back' = [back EXCEPT ![c] = total]
        /\ due' = due \cup {[kind |-> "refund", charge |-> c, total |-> total]}
  BY DEF GiveBack
<1>2. total \in 0 .. Amount /\ total > back[c] /\ back[c] \in 0 .. Amount
  BY <1>1 DEF RevenueInv, BillingOK
<1>3. BillingOK'
  BY <1>1, <1>2 DEF RevenueInv, BillingOK, GiveBack, Event
<1>4. NothingAhead'
  BY <1>1 DEF RevenueInv, BillingOK, GiveBack, NothingAhead
<1>5. TotalsBounded'
  <2> SUFFICES ASSUME NEW e \in due', e.kind = "refund" PROVE e.total <= back'[e.charge]
    BY DEF TotalsBounded
  <2>1. CASE e \in due
    BY <2>1, <1>1, <1>2 DEF RevenueInv, BillingOK, TotalsBounded, Event
  <2>2. CASE e = [kind |-> "refund", charge |-> c, total |-> total]
    BY <2>2, <1>1, <1>2 DEF RevenueInv, BillingOK
  <2> QED BY <2>1, <2>2, <1>1
<1>6. ASSUME NEW d \in Charge PROVE Recorded(d)' /\ Bounded(d)' /\ Settled(d)'
  <2>1. UNCHANGED <<charged, invoices, early>> /\ due \subseteq due'
    BY <1>1 DEF GiveBack
  <2>2. Recorded(d)'
    BY <2>1 DEF RevenueInv, Recorded, Paid
  <2>3. CASE d = c
    <3>1. back'[c] = total /\ GivenBack(c)' \in due'
      BY <1>1 DEF RevenueInv, BillingOK, GivenBack
    <3>2. invoices[c] \in -1 .. Amount /\ invoices[c] <= back[c]
      BY DEF RevenueInv, BillingOK, Bounded
    <3> QED BY <2>1, <2>2, <2>3, <1>2, <3>1, <3>2 DEF Bounded, Settled
  <2>4. CASE d # c
    <3>1. back'[d] = back[d]
      BY <2>4, <1>1 DEF RevenueInv, BillingOK
    <3>2. Bounded(d) /\ Settled(d)
      BY DEF RevenueInv
    <3> QED BY <2>1, <2>2, <3>1, <3>2 DEF Bounded, Settled, GivenBack
  <2> QED BY <2>3, <2>4
<1> QED BY <1>3, <1>4, <1>5, <1>6 DEF RevenueInv

LEMMA WebhookStep ==
  ASSUME RevenueInv, NEW e \in due, Webhook(e)
  PROVE  RevenueInv'
<1> USE RevenueAssumption
<1> DEFINE c == e.charge
<1>0. e \in Event /\ c \in Charge /\ charged[c] # Null /\ e.total \in 0 .. Amount
  BY DEF RevenueInv, BillingOK, NothingAhead, Event
<1>1. due' \subseteq due /\ due \subseteq due' \cup {e} /\ UNCHANGED <<charged, back, month>>
  BY DEF Webhook
<1>2. invoices[c] \in -1 .. Amount /\ back[c] \in 0 .. Amount /\ invoices[c] <= back[c]
  BY <1>0 DEF RevenueInv, BillingOK, Bounded
<1>3. CASE e.kind = "paid"
  <2>1. early' = early /\ invoices' = [invoices EXCEPT ![c] = IF @ = -1 THEN 0 ELSE @]
    BY <1>3 DEF Webhook, RecordInvoice
  <2>2. BillingOK'
    BY <2>1, <1>0, <1>1, <1>2 DEF RevenueInv, BillingOK
  <2>3. NothingAhead' /\ TotalsBounded'
    BY <2>1, <1>0, <1>1, <1>2 DEF RevenueInv, BillingOK, NothingAhead, TotalsBounded
  <2>4. ASSUME NEW d \in Charge PROVE Recorded(d)' /\ Bounded(d)' /\ Settled(d)'
    <3>1. GivenBack(d) # e
      BY <1>3 DEF GivenBack
    <3>2. Paid(d) = e => d = c
      BY DEF Paid
    <3> QED BY <3>1, <3>2, <2>1, <1>0, <1>1, <1>2
            DEF RevenueInv, BillingOK, Recorded, Bounded, Settled, Paid, GivenBack
  <2> QED BY <2>2, <2>3, <2>4 DEF RevenueInv
<1>4. CASE e.kind = "refund"
  <2>1. RecordRefund(c, e.total)
    BY <1>4 DEF Webhook
  <2>2. e.total <= back[c]
    BY <1>4 DEF RevenueInv, TotalsBounded
  <2>3. /\ invoices' = [invoices EXCEPT ![c] = invoices'[c]]
        /\ \/ invoices[c] = -1 /\ invoices'[c] = -1 /\ early' = early \cup {c}
           \/ /\ invoices[c] # -1 /\ early' = early
              /\ invoices'[c] = IF invoices[c] < e.total THEN e.total ELSE invoices[c]
    <3>1. CASE invoices[c] = -1
      BY <3>1, <2>1, <1>0 DEF RecordRefund, RevenueInv, BillingOK
    <3>2. CASE invoices[c] # -1
      BY <3>2, <2>1, <1>0, <1>2 DEF RecordRefund, Refunded, RevenueInv, BillingOK
    <3> QED BY <3>1, <3>2
  <2>4. BillingOK'
    BY <2>3, <1>0, <1>1, <1>2 DEF RevenueInv, BillingOK
  <2>5. NothingAhead' /\ TotalsBounded'
    BY <2>3, <1>0, <1>1, <1>2 DEF RevenueInv, BillingOK, NothingAhead, TotalsBounded
  <2>6. ASSUME NEW d \in Charge PROVE Recorded(d)' /\ Bounded(d)' /\ Settled(d)'
    <3>1. Paid(d) # e
      BY <1>4 DEF Paid
    <3>2. GivenBack(d) = e => d = c /\ e.total = back[c]
      BY DEF GivenBack
    <3>3. CASE d = c
      BY <3>1, <3>2, <3>3, <2>2, <2>3, <1>0, <1>1, <1>2
         DEF RevenueInv, BillingOK, Recorded, Bounded, Settled, Paid, GivenBack
    <3>4. CASE d # c
      BY <3>1, <3>2, <3>4, <2>3, <1>0, <1>1
         DEF RevenueInv, BillingOK, Recorded, Bounded, Settled, Paid, GivenBack
    <3> QED BY <3>3, <3>4
  <2> QED BY <2>4, <2>5, <2>6 DEF RevenueInv
<1> QED BY <1>0, <1>3, <1>4 DEF Event

LEMMA RevenueStep ==
  ASSUME RevenueInv, [Next]_vars
  PROVE  RevenueInv'
<1>1. ASSUME UNCHANGED billing, month' \in Int PROVE RevenueInv'
  BY <1>1 DEF RevenueInv, billing, BillingOK, NothingAhead, TotalsBounded, Recorded, Bounded, Settled,
              Paid, GivenBack
<1>2. month \in Int
  BY DEF RevenueInv, BillingOK
<1>3. CASE Tick
  BY <1>3, <1>2, <1>1 DEF Tick
<1>4. ASSUME NEW i \in Instructor, Watch(i) PROVE RevenueInv'
  BY <1>4, <1>2, <1>1 DEF Watch
<1>5. ASSUME NEW j \in Job, JobStep(j) PROVE RevenueInv'
  <2>1. UNCHANGED <<billing, month>>
    BY <1>5 DEF JobStep, ReadGross, ReadWatch, InsertRun, Line, Earn, Dies
  <2> QED BY <2>1, <1>2, <1>1
<1>6. CASE UNCHANGED vars
  BY <1>6, <1>2, <1>1 DEF vars
<1> QED BY <1>3, <1>4, <1>5, <1>6, PayStep, GiveBackStep, WebhookStep DEF Next

\* The recorded revenue of every charge settles to what was paid less what was
\* given back: recordInvoice and recordRefund commute with their own repetitions
\* and with each other, once there is an invoice.
THEOREM RevenueIsExact == Spec => []RevenueExact
<1>1. Spec => []RevenueInv
  BY RevenueStarts, RevenueStep, PTL DEF Spec
<1> QED BY <1>1, RevenueSettles, PTL

-----------------------------------------------------------------------------
(* Sums over a set (MapThenSumSet).  A sum is the value, for the whole set, of *)
(* a function of its subsets that takes them apart element by element.         *)

Picked(s) == CHOOSE x \in s : TRUE
\* The step: what q says of a set less one element, and that element's number.
Added(f, q, s) == IF s = {} THEN 0 ELSE f[Picked(s)] + q[s \ {Picked(s)}]
Adding(f, S, q) == [s \in SUBSET S |-> Added(f, q, s)]

\* A set of numbers has a least one.
LEMMA LeastOf ==
    ASSUME NEW T \in SUBSET Nat, T # {}
    PROVE  \E x \in T : \A y \in T : x <= y
<1> DEFINE R == OpToRel(<, Nat)
<1>1. IsWellFoundedOn(R, Nat)
  BY NatLessThanWellFounded
<1>2. \A x, y \in Nat : x < y => <<x, y>> \in R
  BY DEF OpToRel
<1> HIDE DEF R
<1>3. PICK x \in T : \A y \in T : ~(<<y, x>> \in R)
  BY <1>1, WFMin
<1>4. ASSUME NEW y \in T PROVE x <= y
  <2>1. x \in Nat /\ y \in Nat
    OBVIOUS
  <2>2. ~(y < x)
    BY <1>2, <1>3, <2>1
  <2> QED BY <2>1, <2>2
<1> QED BY <1>4

LEMMA PickedLess ==
    ASSUME NEW S, IsFiniteSet(S), NEW s \in SUBSET S
    PROVE  /\ IsFiniteSet(s) /\ Cardinality(s) \in Nat
           /\ Cardinality(s) = 0 <=> s = {}
           /\ s # {} => /\ Picked(s) \in s /\ s \ {Picked(s)} \in SUBSET S
                        /\ Cardinality(s \ {Picked(s)}) = Cardinality(s) - 1
<1>1. IsFiniteSet(s)
  BY FS_Subset
<1>2. Cardinality(s) \in Nat /\ (Cardinality(s) = 0 <=> s = {})
  BY <1>1, FS_CardinalityType, FS_EmptySet
<1>3. ASSUME s # {} PROVE Picked(s) \in s
  BY <1>3 DEF Picked
<1>4. s # {} => Cardinality(s \ {Picked(s)}) = Cardinality(s) - 1
  BY <1>1, <1>3, FS_RemoveElement
<1> QED BY <1>1, <1>2, <1>3, <1>4

\* The step does not look at q beyond the set that is left.
LEMMA AddedSame ==
    ASSUME NEW f, NEW p, NEW q, NEW s, s # {} => p[s \ {Picked(s)}] = q[s \ {Picked(s)}]
    PROVE  Added(f, p, s) = Added(f, q, s)
  BY DEF Added

\* There is such a function: up to each number of elements, and so up to all of them.
LEMMA SumExists ==
    ASSUME NEW S, IsFiniteSet(S), NEW f
    PROVE  \E q : q = Adding(f, S, q)
<1> DEFINE Upto(q, k) == \A s \in SUBSET S : Cardinality(s) <= k => q[s] = Added(f, q, s)
           B == {k \in Nat : ~ \E q : Upto(q, k)}
<1>1. B = {}
  <2> SUFFICES ASSUME B # {} PROVE FALSE
    OBVIOUS
  <2>1. PICK k \in B : \A y \in B : k <= y
    <3>1. B \in SUBSET Nat
      OBVIOUS
    <3> HIDE DEF B
    <3> QED BY <3>1, LeastOf
  <2>2. CASE k = 0
    <3> DEFINE z == [s \in SUBSET S |-> 0]
    <3>1. ASSUME NEW s \in SUBSET S, Cardinality(s) <= 0 PROVE z[s] = Added(f, z, s)
      <4>1. s = {}
        <5>1. Cardinality(s) \in Nat /\ (Cardinality(s) = 0 <=> s = {})
          BY PickedLess
        <5> QED BY <3>1, <5>1
      <4> QED BY <4>1 DEF Added
    <3>2. Upto(z, 0)
      BY <3>1
    <3> HIDE DEF z, Upto
    <3> QED BY <2>1, <2>2, <3>2
  <2>3. CASE k # 0
    <3>1. k - 1 \in Nat /\ k - 1 \notin B /\ k \in Nat
      BY <2>1, <2>3
    <3>2. PICK q : Upto(q, k - 1)
      BY <3>1
    <3> DEFINE p == [s \in SUBSET S |-> IF Cardinality(s) < k THEN q[s] ELSE Added(f, q, s)]
    <3>3. ASSUME NEW s \in SUBSET S, Cardinality(s) <= k PROVE p[s] = Added(f, p, s)
      <4>1. p[s] = Added(f, q, s)
        <5>1. CASE Cardinality(s) < k
          <6>1. Cardinality(s) <= k - 1
            <7>1. Cardinality(s) \in Nat
              BY PickedLess
            <7> QED BY <3>1, <5>1, <7>1
          <6>2. q[s] = Added(f, q, s)
            BY <3>2, <6>1
          <6> QED BY <5>1, <6>2
        <5>2. CASE ~(Cardinality(s) < k)
          BY <5>2
        <5> QED BY <5>1, <5>2
      <4>2. ASSUME s # {} PROVE p[s \ {Picked(s)}] = q[s \ {Picked(s)}]
        <5>1. /\ s \ {Picked(s)} \in SUBSET S /\ Cardinality(s \ {Picked(s)}) = Cardinality(s) - 1
              /\ Cardinality(s) \in Nat
          BY <4>2, PickedLess
        <5>2. Cardinality(s \ {Picked(s)}) < k
          BY <3>1, <3>3, <5>1
        <5> QED BY <5>1, <5>2
      <4> HIDE DEF p
      <4>3. Added(f, p, s) = Added(f, q, s)
        BY <4>2, AddedSame
      <4> QED BY <4>1, <4>3
    <3>4. Upto(p, k)
      BY <3>3
    <3> HIDE DEF p, Upto
    <3> QED BY <2>1, <3>4
  <2> QED BY <2>2, <2>3
<1>2. Cardinality(S) \in Nat
  BY FS_CardinalityType
<1>3. PICK q : Upto(q, Cardinality(S))
  <2>1. Cardinality(S) \notin B
    BY <1>1
  <2> QED BY <1>2, <2>1
<1>4. \A s \in SUBSET S : q[s] = Added(f, q, s)
  BY <1>3, FS_Subset
<1> DEFINE p == [s \in SUBSET S |-> q[s]]
<1>5. ASSUME NEW s \in SUBSET S PROVE p[s] = Added(f, p, s)
  <2>1. s # {} => p[s \ {Picked(s)}] = q[s \ {Picked(s)}]
    BY PickedLess
  <2>2. p[s] = Added(f, q, s)
    BY <1>4
  <2> HIDE DEF p
  <2> QED BY <2>1, <2>2, AddedSame
<1>6. p = [s \in SUBSET S |-> p[s]]
  OBVIOUS
<1> HIDE DEF p
<1>7. p = Adding(f, S, p)
  BY <1>5, <1>6 DEF Adding
<1> QED BY <1>7

\* Numbers add up to a number.
LEMMA SumTyped ==
    ASSUME NEW S, IsFiniteSet(S), NEW f, \A x \in S : f[x] \in Nat, NEW q, q = Adding(f, S, q)
    PROVE  \A s \in SUBSET S : q[s] \in Nat
<1> DEFINE B == {k \in Nat : \E s \in SUBSET S : Cardinality(s) = k /\ q[s] \notin Nat}
<1>0. \A s \in SUBSET S : q[s] = Added(f, q, s)
  BY DEF Adding
<1>1. B = {}
  <2> SUFFICES ASSUME B # {} PROVE FALSE
    OBVIOUS
  <2>1. PICK k \in B : \A y \in B : k <= y
    <3>1. B \in SUBSET Nat
      OBVIOUS
    <3> HIDE DEF B
    <3> QED BY <3>1, LeastOf
  <2>2. PICK s \in SUBSET S : Cardinality(s) = k /\ q[s] \notin Nat
    BY <2>1
  <2>3. s # {}
    BY <1>0, <2>2 DEF Added
  <2> PICK x : x = Picked(s)
    OBVIOUS
  <2>4. x \in s /\ s \ {x} \in SUBSET S /\ Cardinality(s \ {x}) = k - 1 /\ k \in Nat
    BY <2>2, <2>3, PickedLess
  <2>5. q[s] = f[x] + q[s \ {x}]
    BY <1>0, <2>3 DEF Added
  <2>6. k - 1 \in B
    <3>1. q[s \ {x}] \notin Nat
      BY <2>2, <2>4, <2>5
    <3>2. k - 1 \in Nat
      BY <2>4, PickedLess
    <3> QED BY <2>4, <3>1, <3>2
  <2> HIDE DEF B
  <2> QED BY <2>1, <2>4, <2>6
<1> QED BY <1>1, PickedLess

\* The sum of an instructor's column: of seconds watched, and of what was earned.
LEMMA SecondsAdd ==
    ASSUME NEW w
    PROVE  \E q : q = Adding(w, Instructor, q) /\ Seconds(w) = q[Instructor]
<1>1. Seconds(w) = (CHOOSE q : q = Adding(w, Instructor, q))[Instructor]
  BY DEF Seconds, MapThenSumSet, MapThenFoldSet, Adding, Added, Picked
<1>2. \E q : q = Adding(w, Instructor, q)
  BY SumExists, RevenueAssumption
<1>3. PICK q : q = (CHOOSE r : r = Adding(w, Instructor, r))
  OBVIOUS
<1>4. q = Adding(w, Instructor, q)
  BY <1>2, <1>3
<1> QED BY <1>1, <1>3, <1>4

LEMMA SecondsTyped ==
    ASSUME NEW w, \A i \in Instructor : w[i] \in Nat
    PROVE  Seconds(w) \in Nat
<1>1. PICK q : q = Adding(w, Instructor, q) /\ Seconds(w) = q[Instructor]
  BY SecondsAdd
<1>2. \A s \in SUBSET Instructor : q[s] \in Nat
  BY <1>1, SumTyped, RevenueAssumption
<1> QED BY <1>1, <1>2

\* What the invoices of a month add up to.
Netting(S, q) ==
    [s \in SUBSET S |-> IF s = {} THEN 0 ELSE (Amount - invoices[Picked(s)]) + q[s \ {Picked(s)}]]

LEMMA NettingIs ==
    ASSUME NEW m
    PROVE  Gross(m) = IF Counted(m) = {} THEN Estimate
                      ELSE (CHOOSE q : q = Netting(Counted(m), q))[Counted(m)]
  BY DEF Gross, MapThenSumSet, MapThenFoldSet, Netting, Picked

LEMMA NettingEach ==
    ASSUME NEW S, NEW q, NEW f, \A s \in SUBSET S : s # {} => f[Picked(s)] = Amount - invoices[Picked(s)]
    PROVE  Netting(S, q) = Adding(f, S, q)
<1>1. ASSUME NEW s \in SUBSET S
      PROVE  Netting(S, q)[s] = Adding(f, S, q)[s]
  <2>1. Netting(S, q)[s] = IF s = {} THEN 0 ELSE (Amount - invoices[Picked(s)]) + q[s \ {Picked(s)}]
    BY DEF Netting
  <2>2. Adding(f, S, q)[s] = IF s = {} THEN 0 ELSE f[Picked(s)] + q[s \ {Picked(s)}]
    BY DEF Adding, Added
  <2> QED BY <2>1, <2>2
<1>2. Netting(S, q) = [s \in SUBSET S |-> Netting(S, q)[s]]
  BY DEF Netting
<1>3. Adding(f, S, q) = [s \in SUBSET S |-> Adding(f, S, q)[s]]
  BY DEF Adding
<1> QED BY <1>1, <1>2, <1>3

LEMMA GrossTyped ==
    ASSUME NEW m, invoices \in [Charge -> -1 .. Amount]
    PROVE  Gross(m) \in Nat
<1> PICK S : S = Counted(m)
  OBVIOUS
<1>1. IsFiniteSet(S) /\ \A c \in S : c \in Charge /\ Amount - invoices[c] \in Nat
  <2>1. S \in SUBSET Charge /\ \A c \in S : invoices[c] \in 0 .. Amount - 1
    BY DEF Counted
  <2> QED BY <2>1, FS_Subset, RevenueAssumption
<1> PICK f : f = [c \in S |-> Amount - invoices[c]]
  OBVIOUS
<1>2. \A c \in S : f[c] \in Nat
  BY <1>1
<1>3. \A s \in SUBSET S : s # {} => f[Picked(s)] = Amount - invoices[Picked(s)]
  BY <1>1, PickedLess
<1>4. PICK r : r = Adding(f, S, r)
  BY <1>1, SumExists
<1>5. \A q : Netting(S, q) = Adding(f, S, q)
  BY <1>3, NettingEach
<1> PICK q : q = (CHOOSE z : z = Netting(S, z))
  OBVIOUS
<1>6. q = Netting(S, q)
  BY <1>4, <1>5
<1>7. q = Adding(f, S, q)
  BY <1>5, <1>6
<1>8. q[S] \in Nat
  BY <1>1, <1>2, <1>7, SumTyped
<1>9. Gross(m) = IF S = {} THEN Estimate ELSE q[S]
  BY NettingIs
<1> QED BY <1>8, <1>9, RevenueAssumption

LEMMA RoundTyped ==
    ASSUME NEW a \in Nat, NEW b \in Nat, b > 0
    PROVE  /\ Round(a, b) \in Nat
           /\ (2 * b) * Round(a, b) <= 2 * a + b
           /\ (2 * b) * Round(a, b) >= 2 * a - b
           /\ a = 0 => Round(a, b) = 0
<1> PICK x, d : x = 2 * a + b /\ d = 2 * b
  OBVIOUS
<1>1. x \in Nat /\ d \in Nat /\ d > 0
  OBVIOUS
<1>2. x \div d \in Nat
  BY <1>1
<1>3. d * (x \div d) <= x /\ x < d * (x \div d) + d
  BY <1>1
<1>4. Round(a, b) = x \div d
  BY DEF Round
<1>5. a = 0 => x \div d = 0
  BY <1>1
<1>6. d * (x \div d) \in Int
  BY <1>1, <1>2
<1> QED BY <1>2, <1>3, <1>4, <1>5, <1>6

LEMMA PoolTyped == ASSUME NEW gross \in Nat PROVE Pool(gross) \in Nat
<1>1. gross * Pct \in Nat
  BY RevenueAssumption
<1> QED BY <1>1, RoundTyped DEF Pool

LEMMA ShareTyped ==
    ASSUME NEW pool \in Nat, NEW w, \A i \in Instructor : w[i] \in Nat, NEW i \in Instructor
    PROVE  /\ Share(pool, w, i) \in Nat
           /\ w[i] = 0 => Share(pool, w, i) = 0
<1>1. Seconds(w) \in Nat
  BY SecondsTyped
<1>2. pool * w[i] \in Nat /\ (w[i] = 0 => pool * w[i] = 0)
  OBVIOUS
<1>3. Seconds(w) > 0 => Round(pool * w[i], Seconds(w)) \in Nat /\ (w[i] = 0 => Round(pool * w[i], Seconds(w)) = 0)
  BY <1>1, <1>2, RoundTyped
<1> QED BY <1>1, <1>3 DEF Share

\* Those of a set who were watched, one by one.
Seen(w, s) == {i \in s : w[i] > 0}

LEMMA SumTimes ==
    ASSUME NEW a \in Int, NEW b \in Int, NEW c \in Int PROVE a * (b + c) = a * b + a * c
  OBVIOUS

LEMMA TwiceOf == ASSUME NEW a \in Int, NEW b \in Int PROVE (2 * a) * b = 2 * (a * b)
  OBVIOUS

LEMMA WatchersLess ==
    ASSUME NEW w, NEW s \in SUBSET Instructor, s # {}, NEW x, x = Picked(s)
    PROVE  /\ Cardinality(Seen(w, s)) \in Nat
           /\ Cardinality(Seen(w, s)) = Cardinality(Seen(w, s \ {x})) + (IF w[x] > 0 THEN 1 ELSE 0)
<1> PICK here, left : here = Seen(w, s) /\ left = Seen(w, s \ {x})
  OBVIOUS
<1>1. x \in s /\ IsFiniteSet(s)
  BY PickedLess, RevenueAssumption
<1>2. IsFiniteSet(here) /\ Cardinality(here) \in Nat
  <2>1. here \in SUBSET s
    BY DEF Seen
  <2> QED BY <1>1, <2>1, FS_Subset, FS_CardinalityType
<1>3. left = here \ {x} /\ (x \in here <=> w[x] > 0)
  BY <1>1 DEF Seen
<1>4. Cardinality(left) = IF x \in here THEN Cardinality(here) - 1 ELSE Cardinality(here)
  <2>1. Cardinality(here \ {x}) = IF x \in here THEN Cardinality(here) - 1 ELSE Cardinality(here)
    BY <1>2, FS_RemoveElement
  <2> QED BY <1>3, <2>1
<1>5. Cardinality(here) = Cardinality(left) + (IF w[x] > 0 THEN 1 ELSE 0)
  <2> PICK g : g = (w[x] > 0)
    OBVIOUS
  <2>1. Cardinality(left) = IF g THEN Cardinality(here) - 1 ELSE Cardinality(here)
    BY <1>3, <1>4
  <2>2. Cardinality(here) = Cardinality(left) + (IF g THEN 1 ELSE 0)
    BY <1>2, <2>1
  <2> QED BY <2>2
<1> QED BY <1>2, <1>5

\* Whoever was watched was so for a second at least.
LEMMA WatchersFew ==
    ASSUME NEW w, \A i \in Instructor : w[i] \in Nat, NEW q, q = Adding(w, Instructor, q)
    PROVE  \A s \in SUBSET Instructor : Cardinality(Seen(w, s)) <= q[s]
<1> DEFINE n(s) == Cardinality(Seen(w, s))
           B == {k \in Nat : \E s \in SUBSET Instructor : Cardinality(s) = k /\ ~(n(s) <= q[s])}
<1>0. /\ IsFiniteSet(Instructor) /\ \A s \in SUBSET Instructor : q[s] = Added(w, q, s) /\ q[s] \in Nat
  <2>1. IsFiniteSet(Instructor)
    BY RevenueAssumption
  <2>2. \A s \in SUBSET Instructor : q[s] \in Nat
    BY <2>1, SumTyped
  <2> QED BY <2>1, <2>2 DEF Adding
<1>1. B = {}
  <2> SUFFICES ASSUME B # {} PROVE FALSE
    OBVIOUS
  <2>1. PICK k \in B : \A y \in B : k <= y
    <3>1. B \in SUBSET Nat
      OBVIOUS
    <3> HIDE DEF B
    <3> QED BY <3>1, LeastOf
  <2>2. PICK s \in SUBSET Instructor : Cardinality(s) = k /\ ~(n(s) <= q[s])
    BY <2>1
  <2>3. s # {}
    <3> SUFFICES ASSUME s = {} PROVE n(s) <= q[s]
      BY <2>2
    <3>1. Seen(w, s) = {}
      BY DEF Seen
    <3>2. n(s) = 0 /\ q[s] \in Nat
      BY <1>0, <3>1, FS_EmptySet
    <3> QED BY <3>2
  <2> PICK x : x = Picked(s)
    OBVIOUS
  <2>4. x \in s /\ s \ {x} \in SUBSET Instructor /\ Cardinality(s \ {x}) = k - 1 /\ Cardinality(s \ {x}) \in Nat
    BY <1>0, <2>2, <2>3, PickedLess
  <2>5. q[s] = w[x] + q[s \ {x}] /\ w[x] \in Nat /\ q[s \ {x}] \in Nat /\ q[s] \in Nat
    BY <1>0, <2>3, <2>4 DEF Added
  <2>6. n(s) = n(s \ {x}) + (IF w[x] > 0 THEN 1 ELSE 0) /\ n(s) \in Nat
    BY <2>3, WatchersLess
  <2>7. n(s \ {x}) \in Int
    <3>1. Seen(w, s \ {x}) \in SUBSET Instructor
      BY DEF Seen
    <3>2. IsFiniteSet(Seen(w, s \ {x}))
      BY <1>0, <3>1, FS_Subset
    <3>3. Cardinality(Seen(w, s \ {x})) \in Nat
      BY <3>2, FS_CardinalityType
    <3> QED BY <3>3
  <2>8. ~(n(s \ {x}) <= q[s \ {x}])
    <3> HIDE DEF n
    <3> QED BY <2>2, <2>5, <2>6, <2>7
  <2>9. k - 1 \in B
    BY <2>4, <2>8
  <2>10. k \in Nat
    BY <2>1
  <2> HIDE DEF B
  <2> QED BY <2>1, <2>9, <2>10
<1> QED BY <1>0, <1>1, PickedLess

\* One more share, rounded, to shares that add up to nearly their part of the pool.
LEMMA OneMoreShare ==
    ASSUME NEW W \in Nat, NEW pool \in Nat, NEW a \in Nat, NEW b \in Nat, NEW m \in Int,
           NEW ex \in Nat, NEW wx \in Nat,
           (2 * W) * b <= (2 * pool) * a + W * m, (2 * W) * b >= (2 * pool) * a - W * m,
           (2 * W) * ex <= 2 * (pool * wx) + W, (2 * W) * ex >= 2 * (pool * wx) - W
    PROVE  /\ (2 * W) * (ex + b) <= (2 * pool) * (wx + a) + W * (m + 1)
           /\ (2 * W) * (ex + b) >= (2 * pool) * (wx + a) - W * (m + 1)
<1>1. (2 * W) * (ex + b) = (2 * W) * ex + (2 * W) * b
  BY SumTimes
<1>2. (2 * pool) * (wx + a) = (2 * pool) * wx + (2 * pool) * a
  BY SumTimes
<1>3. (2 * pool) * wx = 2 * (pool * wx)
  BY TwiceOf
<1>4. W * (m + 1) = W * m + W
  BY SumTimes
<1>5. /\ W * m \in Int /\ (2 * W) * ex \in Int /\ (2 * W) * b \in Int
      /\ 2 * (pool * wx) \in Int /\ (2 * pool) * a \in Int
  OBVIOUS
<1> QED BY <1>1, <1>2, <1>3, <1>4, <1>5

\* Shares miss their part of the pool by less than one half for each who was watched.
LEMMA SharesNear ==
    ASSUME NEW pool \in Nat, NEW w, \A i \in Instructor : w[i] \in Nat, Seconds(w) > 0,
           NEW e, \A i \in Instructor : e[i] = Share(pool, w, i),
           NEW q, q = Adding(w, Instructor, q), NEW r, r = Adding(e, Instructor, r)
    PROVE  \A s \in SUBSET Instructor :
              LET n == Cardinality(Seen(w, s))
                  W == Seconds(w)
              IN  /\ (2 * W) * r[s] <= (2 * pool) * q[s] + W * n
                  /\ (2 * W) * r[s] >= (2 * pool) * q[s] - W * n
<1> PICK W : W = Seconds(w)
  OBVIOUS
<1> DEFINE n(s) == Cardinality(Seen(w, s))
           Near(s) == /\ (2 * W) * r[s] <= (2 * pool) * q[s] + W * n(s)
                      /\ (2 * W) * r[s] >= (2 * pool) * q[s] - W * n(s)
           B == {k \in Nat : \E s \in SUBSET Instructor : Cardinality(s) = k /\ ~Near(s)}
<1>0. /\ IsFiniteSet(Instructor) /\ W \in Nat /\ W > 0
      /\ \A s \in SUBSET Instructor : q[s] = Added(w, q, s) /\ q[s] \in Nat
      /\ \A s \in SUBSET Instructor : r[s] = Added(e, r, s) /\ r[s] \in Nat
  <2>1. IsFiniteSet(Instructor)
    BY RevenueAssumption
  <2>2. \A i \in Instructor : e[i] \in Nat
    BY ShareTyped
  <2>3. \A s \in SUBSET Instructor : q[s] \in Nat /\ r[s] \in Nat
    BY <2>1, <2>2, SumTyped
  <2>4. W \in Nat /\ W > 0
    BY SecondsTyped
  <2> QED BY <2>1, <2>3, <2>4 DEF Adding
<1>1. B = {}
  <2> SUFFICES ASSUME B # {} PROVE FALSE
    OBVIOUS
  <2>1. PICK k \in B : \A y \in B : k <= y
    <3>1. B \in SUBSET Nat
      OBVIOUS
    <3> HIDE DEF B
    <3> QED BY <3>1, LeastOf
  <2>2. PICK s \in SUBSET Instructor : Cardinality(s) = k /\ ~Near(s)
    BY <2>1
  <2>3. s # {}
    <3> SUFFICES ASSUME s = {} PROVE Near(s)
      BY <2>2
    <3>1. Seen(w, s) = {}
      BY DEF Seen
    <3>2. n(s) = 0 /\ q[s] = 0 /\ r[s] = 0
      BY <1>0, <3>1, FS_EmptySet DEF Added
    <3> HIDE DEF n
    <3> QED BY <1>0, <3>2
  <2> PICK x : x = Picked(s)
    OBVIOUS
  <2>4. x \in s /\ s \ {x} \in SUBSET Instructor /\ Cardinality(s \ {x}) = k - 1 /\ Cardinality(s \ {x}) \in Nat
    BY <1>0, <2>2, <2>3, PickedLess
  <2>5. q[s] = w[x] + q[s \ {x}] /\ w[x] \in Nat /\ q[s \ {x}] \in Nat
    BY <1>0, <2>3, <2>4 DEF Added
  <2>6. r[s] = e[x] + r[s \ {x}] /\ r[s \ {x}] \in Nat /\ x \in Instructor
    BY <1>0, <2>3, <2>4 DEF Added
  <2>7. n(s) = n(s \ {x}) + (IF w[x] > 0 THEN 1 ELSE 0)
    BY <2>3, WatchersLess
  <2>8. n(s \ {x}) \in Int
    <3>1. Seen(w, s \ {x}) \in SUBSET Instructor
      BY DEF Seen
    <3>2. IsFiniteSet(Seen(w, s \ {x}))
      BY <1>0, <3>1, FS_Subset
    <3>3. Cardinality(Seen(w, s \ {x})) \in Nat
      BY <3>2, FS_CardinalityType
    <3> QED BY <3>3
  <2>9. e[x] = Round(pool * w[x], W) /\ pool * w[x] \in Nat
    BY <1>0, <2>5, <2>6 DEF Share
  <2>10. /\ e[x] \in Nat
         /\ (2 * W) * e[x] <= 2 * (pool * w[x]) + W
         /\ (2 * W) * e[x] >= 2 * (pool * w[x]) - W
         /\ w[x] = 0 => e[x] = 0
    <3> PICK y : y = pool * w[x]
      OBVIOUS
    <3>1. /\ Round(y, W) \in Nat
          /\ (2 * W) * Round(y, W) <= 2 * y + W
          /\ (2 * W) * Round(y, W) >= 2 * y - W
          /\ y = 0 => Round(y, W) = 0
      BY <1>0, <2>9, RoundTyped
    <3>2. w[x] = 0 => y = 0
      OBVIOUS
    <3> QED BY <2>9, <3>1, <3>2
  <2>11. ~Near(s \ {x})
    <3> SUFFICES ASSUME Near(s \ {x}) PROVE Near(s)
      BY <2>2
    <3> PICK a, b, m, ex, wx : /\ a = q[s \ {x}] /\ b = r[s \ {x}] /\ m = n(s \ {x})
                               /\ ex = e[x] /\ wx = w[x]
      OBVIOUS
    <3>1. a \in Nat /\ b \in Nat /\ m \in Int /\ ex \in Nat /\ wx \in Nat /\ W \in Nat /\ W > 0
      BY <1>0, <2>5, <2>6, <2>8, <2>10
    <3>2. (2 * W) * b <= (2 * pool) * a + W * m /\ (2 * W) * b >= (2 * pool) * a - W * m
      OBVIOUS
    <3>3. q[s] = wx + a /\ r[s] = ex + b
      BY <2>5, <2>6
    <3>6. CASE wx > 0
      <4>1. n(s) = m + 1
        BY <2>7, <3>6
      <4>3. (2 * W) * ex <= 2 * (pool * wx) + W /\ (2 * W) * ex >= 2 * (pool * wx) - W
        BY <2>10
      <4> HIDE DEF n
      <4>5. /\ (2 * W) * (ex + b) <= (2 * pool) * (wx + a) + W * (m + 1)
            /\ (2 * W) * (ex + b) >= (2 * pool) * (wx + a) - W * (m + 1)
        BY <3>1, <3>2, <4>3, OneMoreShare
      <4> QED BY <3>3, <4>1, <4>5
    <3>7. CASE ~(wx > 0)
      <4>1. n(s) = m
        BY <2>7, <2>8, <3>7
      <4>2. wx = 0 /\ ex = 0
        BY <2>10, <3>1, <3>7
      <4>3. q[s] = a /\ r[s] = b
        BY <3>1, <3>3, <4>2
      <4> HIDE DEF n
      <4> QED BY <3>2, <4>1, <4>3
    <3> QED BY <3>6, <3>7
  <2>12. k - 1 \in B
    <3> HIDE DEF Near
    <3> QED BY <2>4, <2>11
  <2>13. k \in Nat
    BY <2>1
  <2> HIDE DEF B
  <2> QED BY <2>1, <2>12, <2>13
<1>2. \A s \in SUBSET Instructor : Near(s)
  <2> HIDE DEF Near
  <2> QED BY <1>0, <1>1, PickedLess
<1> QED BY <1>2

\* What is paid out of a pool misses it by rounding only.
LEMMA SharesAddUp ==
    ASSUME NEW pool \in Nat, NEW w, \A i \in Instructor : w[i] \in Nat,
           NEW e, \A i \in Instructor : e[i] = Share(pool, w, i),
           NEW n, n = Cardinality(Watchers(w)), n > 0
    PROVE  2 * Seconds(e) \in 2 * pool - n .. 2 * pool + n
<1>1. PICK q : q = Adding(w, Instructor, q) /\ Seconds(w) = q[Instructor]
  BY SecondsAdd
<1>2. PICK r : r = Adding(e, Instructor, r) /\ Seconds(e) = r[Instructor]
  BY SecondsAdd
<1> PICK W, E : W = Seconds(w) /\ E = Seconds(e)
  OBVIOUS
<1>3. W \in Nat /\ E \in Nat
  BY ShareTyped, SecondsTyped
<1>4. n \in Nat /\ n <= W
  <2>1. Watchers(w) = Seen(w, Instructor) /\ Watchers(w) \in SUBSET Instructor
    BY DEF Watchers, Seen
  <2>2. n <= q[Instructor]
    BY <1>1, <2>1, WatchersFew
  <2> QED BY <1>1, <2>1, <2>2, FS_Subset, FS_CardinalityType, RevenueAssumption
<1>5. W > 0
  BY <1>3, <1>4
<1>6. (2 * W) * E <= (2 * pool) * W + W * n /\ (2 * W) * E >= (2 * pool) * W - W * n
  BY <1>1, <1>2, <1>5, SharesNear DEF Watchers, Seen
<1>7. ASSUME NEW a \in Int, NEW b \in Int, W * a <= W * b PROVE a <= b
  <2> SUFFICES ASSUME a > b PROVE FALSE
    OBVIOUS
  <2>1. a - b \in Nat /\ a - b >= 1
    OBVIOUS
  <2>2. W * (a - b) >= W
    BY <1>3, <1>5, <2>1
  <2>3. W * (a - b) = W * a - W * b
    BY <1>3
  <2>4. W * a \in Int /\ W * b \in Int
    BY <1>3
  <2> QED BY <1>3, <1>5, <1>7, <2>2, <2>3, <2>4
<1>8. /\ W * (2 * E) = (2 * W) * E /\ W * (2 * pool + n) = (2 * pool) * W + W * n
      /\ W * (2 * pool - n) = (2 * pool) * W - W * n
  BY <1>3, <1>4
<1>9. 2 * E <= 2 * pool + n /\ 2 * pool - n <= 2 * E
  BY <1>3, <1>4, <1>6, <1>7, <1>8
<1> QED BY <1>3, <1>4, <1>9

-----------------------------------------------------------------------------
(* The runs: the types first, whose pools and shares are numbers.              *)

LEMMA ResultTypes ==
    ASSUME TypeOK, NEW j \in Job
    PROVE  /\ jm[j] \in Month /\ jpool[j] \in Nat /\ jwatch[j] \in Secs
           /\ \A i \in Instructor : jwatch[j][i] \in Nat
           /\ \A i \in Instructor : Share(jpool[j], jwatch[j], i) \in Nat
<1>1. jm[j] \in Month /\ jpool[j] \in Nat /\ jwatch[j] \in Secs
  BY DEF TypeOK
<1>2. \A i \in Instructor : jwatch[j][i] \in Nat
  BY <1>1, RevenueAssumption DEF Secs
<1> QED BY <1>1, <1>2, ShareTyped

LEMMA RestTyped == NoWatch \in Secs /\ 1 \in Month /\ \A i \in Instructor : NoWatch[i] = 0
  BY RevenueAssumption DEF NoWatch, Secs, Month

LEMMA EndTyped ==
    ASSUME TypeOK, NEW j \in Job, End(j)
    PROVE  /\ jpc' \in [Job -> {"idle", "watch", "run", "line", "earn"}]
           /\ jm' \in [Job -> Month] /\ jpool' \in [Job -> Nat] /\ jwatch' \in [Job -> Secs]
           /\ todo' \in [Job -> SUBSET Instructor] /\ cur' \in [Job -> Instructor \cup {Null}]
  BY RestTyped DEF TypeOK, End, Go

LEMMA TickTyped == ASSUME TypeOK, Tick PROVE TypeOK'
<1>1. month' \in 1 .. MaxMonth + 1
  BY RevenueAssumption DEF TypeOK, Tick, Month
<1> QED BY <1>1 DEF TypeOK, Tick, billing, tables, local

LEMMA PayTyped == ASSUME TypeOK, NEW c \in Charge, Pay(c) PROVE TypeOK'
<1>1. [kind |-> "paid", charge |-> c, total |-> 0] \in Event
  BY RevenueAssumption DEF Event
<1> QED BY <1>1 DEF TypeOK, Pay, tables, local

LEMMA GiveBackTyped == ASSUME TypeOK, NEW c \in Charge, GiveBack(c) PROVE TypeOK'
<1>1. PICK total \in back[c] + 1 .. Amount :
        /\ back' = [back EXCEPT ![c] = total]
        /\ due' = due \cup {[kind |-> "refund", charge |-> c, total |-> total]}
  BY DEF GiveBack
<1>2. total \in 0 .. Amount
  BY RevenueAssumption, <1>1 DEF TypeOK
<1>3. [kind |-> "refund", charge |-> c, total |-> total] \in Event
  BY <1>2 DEF Event
<1>4. back' \in [Charge -> 0 .. Amount] /\ due' \subseteq Event
  BY <1>1, <1>2, <1>3 DEF TypeOK
<1> QED BY <1>4 DEF TypeOK, GiveBack, tables, local

LEMMA WatchTyped == ASSUME TypeOK, NEW i \in Instructor, Watch(i) PROVE TypeOK'
<1>1. month \in Month /\ watched[month] \in Secs /\ watched[month][i] \in 0 .. MaxWatch
  BY DEF TypeOK, Watch, Secs
<1>2. watched[month][i] + 1 \in 0 .. MaxWatch
  BY RevenueAssumption, <1>1 DEF Watch
<1>3. watched' = [watched EXCEPT ![month] = [watched[month] EXCEPT ![i] = watched[month][i] + 1]]
  BY DEF Watch
<1>4. [watched[month] EXCEPT ![i] = watched[month][i] + 1] \in Secs
  BY <1>1, <1>2 DEF Secs
<1>5. watched' \in [Month -> Secs]
  BY <1>1, <1>3, <1>4 DEF TypeOK
<1> QED BY <1>5 DEF TypeOK, Watch, billing, tables, local

LEMMA WebhookTyped == ASSUME TypeOK, NEW e \in due, Webhook(e) PROVE TypeOK'
<1> PICK c, total : c = e.charge /\ total = e.total
  OBVIOUS
<1>1. c \in Charge /\ total \in 0 .. Amount /\ invoices[c] \in -1 .. Amount
  BY DEF TypeOK, Event
<1>2. due' \subseteq Event
  BY DEF TypeOK, Webhook
<1>3. invoices' \in [Charge -> -1 .. Amount] /\ early' \subseteq Charge
  <2>1. CASE RecordInvoice(c)
    <3>1. (IF invoices[c] = -1 THEN 0 ELSE invoices[c]) \in -1 .. Amount
      BY <1>1, RevenueAssumption
    <3> QED BY <1>1, <2>1, <3>1 DEF TypeOK, RecordInvoice
  <2>2. CASE RecordRefund(c, total)
    <3>1. invoices[c] # -1 => Refunded(invoices[c], total) \in -1 .. Amount
      BY <1>1, RevenueAssumption DEF Refunded
    <3> QED BY <1>1, <2>2, <3>1 DEF TypeOK, RecordRefund
  <2> QED BY <2>1, <2>2 DEF Webhook
<1> QED BY <1>2, <1>3 DEF TypeOK, Webhook, tables, local

LEMMA ReadTyped ==
    ASSUME TypeOK, NEW j \in Job, (\E m \in Month : ReadGross(j, m)) \/ ReadWatch(j)
    PROVE  TypeOK'
<1>1. ASSUME NEW m \in Month, ReadGross(j, m) PROVE TypeOK'
  <2>1. Pool(Gross(m)) \in Nat
    BY GrossTyped, PoolTyped DEF TypeOK
  <2> QED BY <1>1, <2>1 DEF TypeOK, ReadGross, Go, billing, tables
<1>2. CASE ReadWatch(j)
  <2>1. watched[jm[j]] \in Secs /\ jm[j] \in Month
    BY DEF TypeOK
  <2> QED BY <1>2, <2>1 DEF TypeOK, ReadWatch, Go, billing, tables
<1> QED BY <1>1, <1>2

LEMMA InsertRunTyped == ASSUME TypeOK, NEW j \in Job, InsertRun(j) PROVE TypeOK'
<1>1. jm[j] \in Month /\ jpool[j] \in Nat /\ Watchers(jwatch[j]) \in SUBSET Instructor
  BY DEF TypeOK, Watchers
<1>2. runs' \in [Month -> Int]
  BY <1>1 DEF TypeOK, InsertRun
<1>3. /\ jpc' \in [Job -> {"idle", "watch", "run", "line", "earn"}]
      /\ jm' \in [Job -> Month] /\ jpool' \in [Job -> Nat] /\ jwatch' \in [Job -> Secs]
      /\ todo' \in [Job -> SUBSET Instructor] /\ cur' \in [Job -> Instructor \cup {Null}]
  <2>1. CASE End(j)
    BY <2>1, EndTyped
  <2>2. CASE ~End(j)
    BY <2>2, <1>1 DEF TypeOK, InsertRun, Go
  <2> QED BY <2>1, <2>2
<1> QED BY <1>2, <1>3 DEF TypeOK, InsertRun, billing

\* A line goes to the end of what there is for the instructor.
LEMMA LineWrites ==
    ASSUME TypeOK, NEW j \in Job, NEW i \in Instructor, Line(j, i),
           NEW m, m = jm[j], NEW amount, amount = Share(jpool[j], jwatch[j], i)
    PROVE  \A n \in Month, k \in Instructor :
              /\ lines'[n][k].rows = IF n = m /\ k = i THEN lines[n][k].rows + 1 ELSE lines[n][k].rows
              /\ lines'[n][k].amount = IF n = m /\ k = i THEN lines[n][k].amount + amount
                                       ELSE lines[n][k].amount
              /\ lines'[n][k] \in [rows : Nat, amount : Nat]
<1>1. m \in Month /\ amount \in Nat
  BY ResultTypes
<1> DEFINE row == [rows |-> lines[m][i].rows + 1, amount |-> lines[m][i].amount + amount]
<1>2. lines' = [lines EXCEPT ![m] = [lines[m] EXCEPT ![i] = row]]
  BY DEF Line
<1>3. \A n \in Month, k \in Instructor : lines[n][k] \in [rows : Nat, amount : Nat]
  BY DEF TypeOK
<1>4. lines[m][i].rows \in Nat /\ lines[m][i].amount \in Nat
  BY <1>1, <1>3
<1>5. row \in [rows : Nat, amount : Nat] /\ row.rows = lines[m][i].rows + 1 /\ row.amount = lines[m][i].amount + amount
  BY <1>1, <1>4
<1> HIDE DEF row
<1>6. \A n \in Month, k \in Instructor : lines'[n][k] = IF n = m /\ k = i THEN row ELSE lines[n][k]
  BY <1>1, <1>2 DEF TypeOK
<1> QED BY <1>3, <1>5, <1>6

LEMMA LineTyped == ASSUME TypeOK, NEW j \in Job, NEW i \in Instructor, Line(j, i) PROVE TypeOK'
<1> PICK m, amount : m = jm[j] /\ amount = Share(jpool[j], jwatch[j], i)
  OBVIOUS
<1>1. lines' \in [Month -> [Instructor -> [rows : Nat, amount : Nat]]]
  <2>1. \A n \in Month, k \in Instructor : lines'[n][k] \in [rows : Nat, amount : Nat]
    BY LineWrites
  <2>2. PICK row : lines' = [lines EXCEPT ![m] = [lines[m] EXCEPT ![i] = row]]
    BY DEF Line
  <2>3. m \in Month
    BY ResultTypes
  <2>4. lines' = [n \in Month |-> lines'[n]] /\ \A n \in Month : lines'[n] = [k \in Instructor |-> lines'[n][k]]
    BY <2>2, <2>3 DEF TypeOK
  <2> HIDE <2>2
  <2> QED BY <2>1, <2>4
<1>2. /\ jpc' \in [Job -> {"idle", "watch", "run", "line", "earn"}]
      /\ jm' \in [Job -> Month] /\ jpool' \in [Job -> Nat] /\ jwatch' \in [Job -> Secs]
      /\ todo' \in [Job -> SUBSET Instructor] /\ cur' \in [Job -> Instructor \cup {Null}]
  <2>1. CASE End(j)
    BY <2>1, EndTyped
  <2>2. CASE ~End(j)
    <3>1. /\ Go(j, IF amount > 0 THEN "earn" ELSE "line")
          /\ todo' = [todo EXCEPT ![j] = @ \ {i}]
          /\ cur' = [cur EXCEPT ![j] = IF amount > 0 THEN i ELSE Null]
          /\ UNCHANGED <<jm, jpool, jwatch>>
      BY <2>2 DEF Line
    <3> QED BY <3>1 DEF TypeOK, Go
  <2> QED BY <2>1, <2>2
<1> QED BY <1>1, <1>2 DEF TypeOK, Line, billing

LEMMA EarnWrites ==
    ASSUME TypeOK, NEW j \in Job, Earn(j), cur[j] \in Instructor,
           NEW m, m = jm[j], NEW amount, amount = Share(jpool[j], jwatch[j], cur[j])
    PROVE  \A n \in Month, k \in Instructor :
              /\ earned'[n][k] = IF n = m /\ k = cur[j] THEN earned[n][k] + amount ELSE earned[n][k]
              /\ earned'[n][k] \in Nat
<1>1. m \in Month /\ amount \in Nat
  BY ResultTypes
<1> PICK i : i = cur[j]
  OBVIOUS
<1>2. earned' = [earned EXCEPT ![m] = [earned[m] EXCEPT ![i] = earned[m][i] + amount]]
  BY DEF Earn
<1>3. \A n \in Month, k \in Instructor : earned[n][k] \in Nat
  BY DEF TypeOK
<1>4. \A n \in Month, k \in Instructor :
         earned'[n][k] = IF n = m /\ k = i THEN earned[n][k] + amount ELSE earned[n][k]
  BY <1>1, <1>2 DEF TypeOK
<1> QED BY <1>1, <1>3, <1>4

LEMMA EarnTyped == ASSUME TypeOK, NEW j \in Job, Earn(j), cur[j] \in Instructor PROVE TypeOK'
<1> PICK m, i : m = jm[j] /\ i = cur[j]
  OBVIOUS
<1>1. earned' \in [Month -> [Instructor -> Nat]]
  <2>1. \A n \in Month, k \in Instructor : earned'[n][k] \in Nat
    BY EarnWrites
  <2>2. PICK more : earned' = [earned EXCEPT ![m] = [earned[m] EXCEPT ![i] = more]]
    BY DEF Earn
  <2>3. m \in Month
    BY ResultTypes
  <2>4. earned' = [n \in Month |-> earned'[n]] /\ \A n \in Month : earned'[n] = [k \in Instructor |-> earned'[n][k]]
    BY <2>2, <2>3 DEF TypeOK
  <2> HIDE <2>2
  <2> QED BY <2>1, <2>4
<1>2. /\ jpc' \in [Job -> {"idle", "watch", "run", "line", "earn"}]
      /\ jm' \in [Job -> Month] /\ jpool' \in [Job -> Nat] /\ jwatch' \in [Job -> Secs]
      /\ todo' \in [Job -> SUBSET Instructor] /\ cur' \in [Job -> Instructor \cup {Null}]
  <2>1. CASE End(j)
    BY <2>1, EndTyped
  <2>2. CASE ~End(j)
    BY <2>2 DEF TypeOK, Earn, Go
  <2> QED BY <2>1, <2>2
<1> QED BY <1>1, <1>2 DEF TypeOK, Earn, billing

LEMMA DiesTyped == ASSUME TypeOK, NEW j \in Job, Dies(j) PROVE TypeOK'
<1>1. broken' \subseteq Month
  BY DEF TypeOK, Dies
<1>2. End(j)
  BY DEF Dies
<1> QED BY <1>1, <1>2, EndTyped DEF TypeOK, Dies, billing, tables

\* How far a call is with the lines of its month.
Working(j) == jpc[j] \in {"line", "earn"}
Handled(j) == Watchers(jwatch[j]) \ todo[j]

LineSays(j, i) ==
    LET m == jm[j] IN
    /\ lines[m][i].rows = IF i \in Handled(j) THEN 1 ELSE 0
    /\ lines[m][i].amount = IF i \in Handled(j) THEN Share(jpool[j], jwatch[j], i) ELSE 0
    /\ earned[m][i] = IF jpc[j] = "earn" /\ i = cur[j] THEN 0 ELSE lines[m][i].amount

\* One call has the lines of a month to itself, and has written those it is past.
Progress(j) ==
    Working(j) => /\ runs[jm[j]] = jpool[j] /\ todo[j] \subseteq Watchers(jwatch[j])
                  /\ jpc[j] = "earn" => cur[j] \in Handled(j)
                  /\ \A i \in Instructor : LineSays(j, i)
Alone == \A j, k \in Job : Working(j) /\ Working(k) /\ jm[j] = jm[k] => j = k

\* A month that was over when it was read is as it was read.
ReadOver(j) ==
    jpc[j] \in {"run", "line", "earn"} /\ jm[j] \notin hasty =>
        jm[j] < month /\ jwatch[j] = watched[jm[j]]

\* What the lines and the ledger of a month may hold, with a run and without.
Held(m, i) ==
    /\ lines[m][i].rows <= 1 /\ earned[m][i] <= lines[m][i].amount
    /\ runs[m] = -1 => lines[m][i].rows = 0 /\ lines[m][i].amount = 0 /\ earned[m][i] = 0

\* A finished run has shared its pool by what was read of the month.
SharedBy(m, w) ==
    /\ m \notin hasty => m < month /\ w = watched[m]
    /\ \A i \in Instructor : /\ lines[m][i].rows = IF i \in Watchers(w) THEN 1 ELSE 0
                             /\ lines[m][i].amount = Share(runs[m], w, i)
                             /\ earned[m][i] = Share(runs[m], w, i)

SettleInv ==
    /\ TypeOK /\ Alone
    /\ \A j \in Job : Progress(j) /\ ReadOver(j)
    /\ \A m \in Month : /\ runs[m] = -1 \/ runs[m] \in Nat
                        /\ \A i \in Instructor : Held(m, i)
                        /\ Complete(m) => \E w \in Secs : SharedBy(m, w)

\* What a call does concerns no other call.
Apart(j) == \A k \in Job \ {j} :
    /\ jpc'[k] = jpc[k] /\ jm'[k] = jm[k] /\ jpool'[k] = jpool[k]
    /\ jwatch'[k] = jwatch[k] /\ todo'[k] = todo[k] /\ cur'[k] = cur[k]

\* A month's rows are what they were.
SameRows(m) ==
    /\ runs'[m] = runs[m]
    /\ \A i \in Instructor : /\ lines'[m][i].rows = lines[m][i].rows
                             /\ lines'[m][i].amount = lines[m][i].amount
                             /\ earned'[m][i] = earned[m][i]

LEMMA EndsApart == ASSUME TypeOK, NEW j \in Job, End(j) PROVE Apart(j) /\ jpc'[j] = "idle"
  BY DEF TypeOK, End, Go, Apart

LEMMA StepsApart ==
    ASSUME TypeOK, NEW j \in Job, JobStep(j)
    PROVE  Apart(j)
<1>1. ASSUME NEW m \in Month, ReadGross(j, m) PROVE Apart(j)
  BY <1>1 DEF TypeOK, ReadGross, Go, Apart
<1>2. CASE ReadWatch(j)
  BY <1>2 DEF TypeOK, ReadWatch, Go, Apart
<1>3. CASE InsertRun(j)
  BY <1>3, EndsApart DEF TypeOK, InsertRun, Go, Apart
<1>4. CASE Earn(j)
  BY <1>4, EndsApart DEF TypeOK, Earn, Go, Apart
<1>5. CASE Dies(j)
  BY <1>5, EndsApart DEF Dies
<1>6. ASSUME NEW i \in Instructor, Line(j, i) PROVE Apart(j)
  <2>1. CASE End(j)
    BY <2>1, EndsApart
  <2>2. CASE ~End(j)
    <3>1. PICK place, one : /\ jpc' = [jpc EXCEPT ![j] = place]
                            /\ todo' = [todo EXCEPT ![j] = @ \ {i}]
                            /\ cur' = [cur EXCEPT ![j] = one]
                            /\ UNCHANGED <<jm, jpool, jwatch>>
      BY <1>6, <2>2 DEF Line, Go
    <3> QED BY <3>1 DEF TypeOK, Apart
  <2> QED BY <2>1, <2>2
<1> QED BY <1>1, <1>2, <1>3, <1>4, <1>5, <1>6 DEF JobStep

\* For a month that a call has no lines of, nothing becomes complete by what it does.
LEMMA CompleteElse ==
    ASSUME NEW j \in Job, Apart(j), NEW n, ~Working(j) \/ jm[j] # n,
           runs'[n] = runs[n], broken \subseteq broken', Complete(n)'
    PROVE  Complete(n)
  BY DEF Apart, Working, Complete, AtWork

LEMMA SharedElse ==
    ASSUME NEW n, NEW w, SameRows(n), UNCHANGED <<month, watched>>, hasty \subseteq hasty', SharedBy(n, w)
    PROVE  SharedBy(n, w)'
  BY DEF SameRows, SharedBy

LEMMA ProgressElse ==
    ASSUME NEW j \in Job, Apart(j), NEW k \in Job \ {j}, Progress(k), Working(k) => SameRows(jm[k])
    PROVE  Progress(k)'
<1>1. Working(k)' <=> Working(k)
  BY DEF Working, Apart
<1>2. SUFFICES ASSUME Working(k) PROVE Progress(k)'
  BY <1>1 DEF Progress
<1>3. /\ jm'[k] = jm[k] /\ jpool'[k] = jpool[k] /\ jwatch'[k] = jwatch[k] /\ jpc'[k] = jpc[k]
      /\ todo'[k] = todo[k] /\ cur'[k] = cur[k] /\ Handled(k)' = Handled(k)
  BY DEF Apart, Handled
<1>4. \A i \in Instructor : LineSays(k, i)'
  BY <1>2, <1>3 DEF Progress, LineSays, SameRows
<1> QED BY <1>2, <1>3, <1>4 DEF Progress, SameRows

LEMMA ReadOverElse ==
    ASSUME NEW j \in Job, Apart(j), NEW k \in Job \ {j}, ReadOver(k),
           UNCHANGED <<month, watched>>, hasty \subseteq hasty'
    PROVE  ReadOver(k)'
  BY DEF Apart, ReadOver

LEMMA AloneElse ==
    ASSUME Alone, NEW j \in Job, Apart(j), Working(j)' => Working(j) /\ jm'[j] = jm[j]
    PROVE  Alone'
  BY DEF Alone, Apart, Working

\* Time, the providers and the learners leave the runs alone; what is watched is watched now.
LEMMA QuietStep ==
    ASSUME SettleInv, TypeOK', UNCHANGED <<tables, local, broken, hasty>>, month' >= month,
           \A m \in Month : m < month => watched'[m] = watched[m]
    PROVE  SettleInv'
<1>1. UNCHANGED <<runs, lines, earned, jpc, jm, jpool, jwatch, todo, cur, broken, hasty>>
  BY DEF tables, local
<1>2. month \in Int /\ month' \in Int /\ \A j \in Job : jm[j] \in Month
  BY DEF SettleInv, TypeOK
<1>3. Alone'
  BY <1>1 DEF SettleInv, Alone, Working
<1>4. ASSUME NEW j \in Job PROVE Progress(j)'
  BY <1>1 DEF SettleInv, Progress, Working, Handled, LineSays
<1>5. ASSUME NEW j \in Job PROVE ReadOver(j)'
  <2>1. jm[j] \in Int /\ ReadOver(j)
    BY <1>2 DEF SettleInv, Month
  <2> QED BY <1>1, <1>2, <2>1 DEF ReadOver
<1>6. ASSUME NEW m \in Month PROVE /\ runs'[m] = -1 \/ runs'[m] \in Nat
                                   /\ \A i \in Instructor : Held(m, i)'
  BY <1>1 DEF SettleInv, Held
<1>7. ASSUME NEW m \in Month, Complete(m)' PROVE \E w \in Secs : SharedBy(m, w)'
  <2>1. Complete(m)
    BY <1>1, <1>7 DEF Complete, AtWork
  <2>2. PICK w \in Secs : SharedBy(m, w)
    BY <2>1 DEF SettleInv
  <2>3. SharedBy(m, w)'
    <3>1. m \in Int
      BY DEF Month
    <3> QED BY <1>1, <1>2, <2>2, <3>1 DEF SharedBy
  <2> QED BY <2>3
<1> QED BY <1>3, <1>4, <1>5, <1>6, <1>7 DEF SettleInv

\* Reading leaves the tables alone; a month read before it was over is hasty.
LEMMA ReadStep ==
    ASSUME SettleInv, TypeOK', NEW j \in Job, (\E m \in Month : ReadGross(j, m)) \/ ReadWatch(j)
    PROVE  SettleInv'
<1>1. TypeOK /\ Apart(j)
  BY StepsApart DEF SettleInv, JobStep
<1>2. /\ UNCHANGED <<month, watched, tables, broken>> /\ hasty \subseteq hasty'
      /\ ~Working(j) /\ ~Working(j)'
  BY <1>1 DEF TypeOK, ReadGross, ReadWatch, Go, Working, tables
<1>3. \A m \in Month : SameRows(m)
  BY <1>2 DEF SameRows, tables
<1>4. Alone'
  BY <1>1, <1>2, AloneElse DEF SettleInv
<1>5. ASSUME NEW k \in Job PROVE Progress(k)' /\ ReadOver(k)'
  <2>1. CASE k # j
    <3>1. jm[k] \in Month /\ Progress(k) /\ ReadOver(k)
      BY <1>1 DEF SettleInv, TypeOK
    <3> QED BY <1>1, <1>2, <1>3, <2>1, <3>1, ProgressElse, ReadOverElse
  <2>2. Progress(j)'
    BY <1>2 DEF Progress
  <2>3. ReadOver(j)'
    BY <1>1 DEF TypeOK, ReadGross, ReadWatch, Go, ReadOver
  <2> QED BY <2>1, <2>2, <2>3
<1>6. ASSUME NEW m \in Month PROVE /\ runs'[m] = -1 \/ runs'[m] \in Nat
                                   /\ \A i \in Instructor : Held(m, i)'
  BY <1>2 DEF SettleInv, Held, tables
<1>7. ASSUME NEW m \in Month, Complete(m)' PROVE \E w \in Secs : SharedBy(m, w)'
  <2>1. Complete(m)
    BY <1>1, <1>2, <1>7, CompleteElse DEF tables
  <2>2. PICK w \in Secs : SharedBy(m, w)
    BY <2>1 DEF SettleInv
  <2> QED BY <1>2, <1>3, <2>2, SharedElse
<1> QED BY <1>4, <1>5, <1>6, <1>7 DEF SettleInv

\* The UNIQUE period lets one call at most begin the lines of a month.
LEMMA InsertRunStep ==
    ASSUME SettleInv, TypeOK', NEW j \in Job, InsertRun(j)
    PROVE  SettleInv'
<1> PICK m, pool, w : m = jm[j] /\ pool = jpool[j] /\ w = jwatch[j]
  OBVIOUS
<1>1. TypeOK /\ Apart(j)
  BY StepsApart DEF SettleInv, JobStep
<1>2. m \in Month /\ pool \in Nat /\ w \in Secs /\ \A i \in Instructor : w[i] \in Nat
  BY <1>1, ResultTypes
<1>3. /\ UNCHANGED <<month, watched, lines, earned, broken, hasty>> /\ ~Working(j) /\ runs[m] = -1
      /\ runs' = [runs EXCEPT ![m] = pool]
  BY DEF InsertRun, Working
<1>4. runs'[m] = pool /\ \A n \in Month \ {m} : SameRows(n)
  BY <1>1, <1>2, <1>3 DEF TypeOK, SameRows
<1>5. \A k \in Job : Working(k) => jm[k] # m /\ jm[k] \in Month
  <2> SUFFICES ASSUME NEW k \in Job, Working(k) PROVE jm[k] # m /\ jm[k] \in Month
    OBVIOUS
  <2>1. runs[jm[k]] \in Nat /\ jm[k] \in Month
    BY <1>1, ResultTypes DEF SettleInv, Progress
  <2> QED BY <1>3, <2>1
<1>6. \A i \in Instructor : lines[m][i].rows = 0 /\ lines[m][i].amount = 0 /\ earned[m][i] = 0
  BY <1>2, <1>3 DEF SettleInv, Held
<1>7. \/ Watchers(w) = {} /\ ~Working(j)'
      \/ /\ Working(j)' /\ jpc'[j] = "line" /\ todo'[j] = Watchers(w)
         /\ jm'[j] = m /\ jpool'[j] = pool /\ jwatch'[j] = w
  <2>1. CASE Watchers(w) = {}
    BY <1>1, <2>1, EndsApart DEF InsertRun, Working
  <2>2. CASE Watchers(w) # {}
    BY <1>1, <2>2 DEF TypeOK, InsertRun, Go, Working
  <2> QED BY <2>1, <2>2
<1>8. Alone'
  <2> SUFFICES ASSUME NEW k \in Job, NEW l \in Job, Working(k)', Working(l)', jm'[k] = jm'[l]
               PROVE  k = l
    BY DEF Alone
  <2>1. ASSUME NEW p \in Job, Working(p)', p # j PROVE Working(p) /\ jm'[p] = jm[p] /\ jm[p] # m
    BY <1>1, <1>5, <2>1 DEF Apart, Working
  <2>2. CASE k # j /\ l # j
    BY <2>1, <2>2 DEF SettleInv, Alone
  <2>3. Working(j)' => jm'[j] = m
    BY <1>7
  <2> QED BY <2>1, <2>2, <2>3
<1>9. ASSUME NEW k \in Job PROVE Progress(k)'
  <2>1. CASE k # j
    <3>1. Progress(k) /\ (Working(k) => SameRows(jm[k]))
      BY <1>4, <1>5 DEF SettleInv
    <3> QED BY <1>1, <2>1, <3>1, ProgressElse
  <2>2. Progress(j)'
    <3>1. SUFFICES ASSUME Working(j)' PROVE Progress(j)'
      BY DEF Progress
    <3>2. Handled(j)' = {}
      BY <1>7, <3>1 DEF Handled
    <3>3. \A i \in Instructor : LineSays(j, i)'
      BY <1>3, <1>6, <1>7, <3>1, <3>2 DEF LineSays
    <3> QED BY <1>4, <1>7, <3>1, <3>3 DEF Progress
  <2> QED BY <2>1, <2>2
<1>10. ASSUME NEW k \in Job PROVE ReadOver(k)'
  <2>1. CASE k # j
    <3>1. ReadOver(k)
      BY DEF SettleInv
    <3> QED BY <1>1, <1>3, <2>1, <3>1, ReadOverElse
  <2>2. ReadOver(j)'
    <3>1. jpc[j] = "run" /\ ReadOver(j)
      BY DEF SettleInv, InsertRun
    <3>2. jpc'[j] = "idle" \/ (jm'[j] = m /\ jwatch'[j] = w)
      BY <1>1, EndsApart DEF InsertRun
    <3> QED BY <1>3, <3>1, <3>2 DEF ReadOver
  <2> QED BY <2>1, <2>2
<1>11. ASSUME NEW n \in Month PROVE /\ runs'[n] = -1 \/ runs'[n] \in Nat
                                    /\ \A i \in Instructor : Held(n, i)'
  <2>1. /\ runs[n] = -1 \/ runs[n] \in Nat
        /\ \A i \in Instructor : Held(n, i)
    BY DEF SettleInv
  <2>2. CASE n = m
    BY <1>2, <1>3, <1>4, <2>1, <2>2 DEF Held
  <2>3. CASE n # m
    BY <1>3, <1>4, <2>1, <2>3 DEF Held, SameRows
  <2> QED BY <2>2, <2>3
<1>12. ASSUME NEW n \in Month, Complete(n)' PROVE \E v \in Secs : SharedBy(n, v)'
  <2>1. CASE n # m
    <3>1. SameRows(n) /\ runs'[n] = runs[n]
      BY <1>4, <2>1 DEF SameRows
    <3>2. Complete(n)
      BY <1>1, <1>3, <1>12, <3>1, CompleteElse
    <3>3. PICK v \in Secs : SharedBy(n, v)
      BY <3>2 DEF SettleInv
    <3> QED BY <1>3, <3>1, <3>3, SharedElse
  <2>2. CASE n = m
    <3>1. Watchers(w) = {}
      BY <1>7, <1>12, <2>2 DEF Complete, AtWork, Working
    <3>2. \A i \in Instructor : w[i] = 0
      BY <1>2, <3>1 DEF Watchers
    <3>3. \A i \in Instructor : Share(pool, w, i) = 0
      BY <1>2, <3>2, ShareTyped
    <3>4. m \notin hasty => m < month /\ w = watched[m]
      BY DEF SettleInv, ReadOver, InsertRun
    <3>5. SharedBy(m, w)'
      BY <1>3, <1>4, <1>6, <3>1, <3>3, <3>4 DEF SharedBy
    <3> QED BY <1>2, <2>2, <3>5
  <2> QED BY <2>1, <2>2
<1> QED BY <1>8, <1>9, <1>10, <1>11, <1>12 DEF SettleInv

\* A line is the first of its instructor; what it says follows in the ledger, or is nothing.
LEMMA LineStep ==
    ASSUME SettleInv, TypeOK', NEW j \in Job, NEW i \in Instructor, Line(j, i)
    PROVE  SettleInv'
<1> PICK m, pool, w, amount : m = jm[j] /\ pool = jpool[j] /\ w = jwatch[j] /\ amount = Share(pool, w, i)
  OBVIOUS
<1>1. TypeOK /\ Apart(j)
  BY StepsApart DEF SettleInv, JobStep
<1>2. /\ m \in Month /\ pool \in Nat /\ w \in Secs /\ amount \in Nat
      /\ \A k \in Instructor : w[k] \in Nat
  BY <1>1, ResultTypes
<1>3. /\ UNCHANGED <<month, watched, runs, earned, broken, hasty>> /\ jpc[j] = "line" /\ i \in todo[j]
      /\ Working(j)
  BY DEF Line, Working
<1>4. \A n \in Month, k \in Instructor :
         /\ lines'[n][k].rows = IF n = m /\ k = i THEN lines[n][k].rows + 1 ELSE lines[n][k].rows
         /\ lines'[n][k].amount = IF n = m /\ k = i THEN lines[n][k].amount + amount
                                  ELSE lines[n][k].amount
  BY <1>1, LineWrites
<1>5. \A n \in Month \ {m} : SameRows(n)
  BY <1>3, <1>4 DEF SameRows
<1>6. /\ runs[m] = pool /\ todo[j] \subseteq Watchers(w) /\ i \in Watchers(w)
      /\ \A k \in Instructor : LineSays(j, k)
  BY <1>3 DEF SettleInv, Progress
<1>7. /\ lines[m][i].rows = 0 /\ lines[m][i].amount = 0 /\ earned[m][i] = 0
      /\ \A k \in Instructor \ {i} :
            /\ lines[m][k].rows = IF k \in Watchers(w) \ todo[j] THEN 1 ELSE 0
            /\ lines[m][k].amount = IF k \in Watchers(w) \ todo[j] THEN Share(pool, w, k) ELSE 0
            /\ earned[m][k] = lines[m][k].amount
  BY <1>3, <1>6 DEF LineSays, Handled
<1>8. /\ lines'[m][i].rows = 1 /\ lines'[m][i].amount = amount /\ earned'[m][i] = 0
      /\ \A k \in Instructor \ {i} :
            /\ lines'[m][k].rows = IF k \in Watchers(w) \ todo[j] THEN 1 ELSE 0
            /\ lines'[m][k].amount = IF k \in Watchers(w) \ todo[j] THEN Share(pool, w, k) ELSE 0
            /\ earned'[m][k] = lines'[m][k].amount
  <2>1. 0 + amount = amount
    BY <1>2
  <2> QED BY <1>2, <1>3, <1>4, <1>7, <2>1
<1>9. \/ amount = 0 /\ todo[j] = {i} /\ ~Working(j)'
      \/ /\ jm'[j] = m /\ jpool'[j] = pool /\ jwatch'[j] = w /\ todo'[j] = todo[j] \ {i} /\ Working(j)'
         /\ \/ amount > 0 /\ jpc'[j] = "earn" /\ cur'[j] = i
            \/ amount = 0 /\ jpc'[j] = "line"
  <2>1. CASE amount = 0 /\ todo[j] = {i}
    BY <1>1, <2>1, EndsApart DEF Line, Working
  <2>2. CASE ~(amount = 0 /\ todo[j] = {i})
    <3>1. /\ Go(j, IF amount > 0 THEN "earn" ELSE "line")
          /\ todo' = [todo EXCEPT ![j] = @ \ {i}]
          /\ cur' = [cur EXCEPT ![j] = IF amount > 0 THEN i ELSE Null]
          /\ UNCHANGED <<jm, jpool, jwatch>>
      BY <2>2 DEF Line
    <3>2. amount > 0 \/ amount = 0
      BY <1>2
    <3> QED BY <1>1, <3>1, <3>2 DEF TypeOK, Go, Working
  <2> QED BY <2>1, <2>2
<1>10. Alone'
  BY <1>1, <1>3, <1>9, AloneElse DEF SettleInv
<1>11. ASSUME NEW k \in Job PROVE Progress(k)'
  <2>1. CASE k # j
    <3>1. Progress(k) /\ (Working(k) => jm[k] # m /\ jm[k] \in Month)
      BY <1>1, <1>3, <2>1 DEF SettleInv, Alone, TypeOK
    <3> QED BY <1>1, <1>5, <2>1, <3>1, ProgressElse
  <2>2. Progress(j)'
    <3>1. SUFFICES ASSUME Working(j)' PROVE Progress(j)'
      BY DEF Progress
    <3>2. Handled(j)' = (Watchers(w) \ todo[j]) \cup {i} /\ todo'[j] \subseteq Watchers(w)
      BY <1>6, <1>9, <3>1 DEF Handled
    <3>3. LineSays(j, i)'
      BY <1>2, <1>8, <1>9, <3>1, <3>2 DEF LineSays
    <3>4. ASSUME NEW l \in Instructor \ {i} PROVE LineSays(j, l)'
      BY <1>8, <1>9, <3>1, <3>2 DEF LineSays
    <3>5. \A l \in Instructor : LineSays(j, l)'
      BY <3>3, <3>4
    <3>6. jpc'[j] = "earn" => cur'[j] \in Handled(j)'
      BY <1>9, <3>1, <3>2
    <3> QED BY <1>3, <1>6, <1>9, <3>1, <3>2, <3>5, <3>6 DEF Progress
  <2> QED BY <2>1, <2>2
<1>12. ASSUME NEW k \in Job PROVE ReadOver(k)'
  <2>1. ReadOver(k)
    BY DEF SettleInv
  <2>2. CASE k # j
    BY <1>1, <1>3, <2>1, <2>2, ReadOverElse
  <2>3. CASE k = j
    <3>1. jpc'[j] = "idle" \/ (jm'[j] = m /\ jwatch'[j] = w)
      <4>1. CASE End(j)
        BY <1>1, <4>1, EndsApart
      <4>2. CASE ~End(j)
        BY <4>2 DEF Line
      <4> QED BY <4>1, <4>2
    <3> QED BY <1>3, <2>1, <2>3, <3>1 DEF ReadOver
  <2> QED BY <2>2, <2>3
<1>13. ASSUME NEW n \in Month PROVE /\ runs'[n] = -1 \/ runs'[n] \in Nat
                                    /\ \A k \in Instructor : Held(n, k)'
  <2>1. /\ runs[n] = -1 \/ runs[n] \in Nat
        /\ \A k \in Instructor : Held(n, k)
    BY DEF SettleInv
  <2>2. ASSUME NEW k \in Instructor PROVE Held(n, k)'
    <3>1. CASE n = m /\ k = i
      BY <1>2, <1>3, <1>6, <1>8, <3>1 DEF Held
    <3>2. CASE ~(n = m /\ k = i)
      BY <1>3, <1>4, <2>1, <3>2 DEF Held
    <3> QED BY <3>1, <3>2
  <2> QED BY <1>3, <2>1, <2>2
<1>14. ASSUME NEW n \in Month, Complete(n)' PROVE \E v \in Secs : SharedBy(n, v)'
  <2>1. CASE n # m
    <3>1. SameRows(n) /\ runs'[n] = runs[n]
      BY <1>3, <1>5, <2>1
    <3>2. Complete(n)
      BY <1>1, <1>3, <1>14, <2>1, <3>1, CompleteElse
    <3>3. PICK v \in Secs : SharedBy(n, v)
      BY <3>2 DEF SettleInv
    <3> QED BY <1>3, <3>1, <3>3, SharedElse
  <2>2. CASE n = m
    <3>1. amount = 0 /\ todo[j] = {i}
      BY <1>9, <1>14, <2>2 DEF Complete, AtWork, Working
    <3>2. m \notin hasty => m < month /\ w = watched[m]
      BY <1>3 DEF SettleInv, ReadOver
    <3>3. ASSUME NEW k \in Instructor
          PROVE  /\ lines'[m][k].rows = IF k \in Watchers(w) THEN 1 ELSE 0
                 /\ lines'[m][k].amount = Share(pool, w, k)
                 /\ earned'[m][k] = Share(pool, w, k)
      <4>1. CASE k = i
        BY <1>6, <1>8, <3>1, <4>1
      <4>2. CASE k # i /\ k \in Watchers(w)
        BY <1>8, <3>1, <4>2
      <4>3. CASE k # i /\ k \notin Watchers(w)
        <5>1. w[k] = 0
          BY <1>2, <4>3 DEF Watchers
        <5>2. Share(pool, w, k) = 0
          BY <1>2, <5>1, ShareTyped
        <5> QED BY <1>8, <4>3, <5>2
      <4> QED BY <4>1, <4>2, <4>3
    <3>4. SharedBy(m, w)'
      BY <1>3, <1>6, <3>2, <3>3 DEF SharedBy
    <3> QED BY <1>2, <2>2, <3>4
  <2> QED BY <2>1, <2>2
<1> QED BY <1>10, <1>11, <1>12, <1>13, <1>14 DEF SettleInv

\* The entry of the ledger says what the line says.
LEMMA EarnStep ==
    ASSUME SettleInv, TypeOK', NEW j \in Job, Earn(j)
    PROVE  SettleInv'
<1> PICK m, pool, w, i : m = jm[j] /\ pool = jpool[j] /\ w = jwatch[j] /\ i = cur[j]
  OBVIOUS
<1> PICK amount : amount = Share(pool, w, i)
  OBVIOUS
<1>1. TypeOK /\ Apart(j)
  BY StepsApart DEF SettleInv, JobStep
<1>3. /\ UNCHANGED <<month, watched, runs, lines, broken, hasty>> /\ jpc[j] = "earn" /\ Working(j)
  BY DEF Earn, Working
<1>6. /\ runs[m] = pool /\ todo[j] \subseteq Watchers(w) /\ i \in Watchers(w) \ todo[j]
      /\ \A k \in Instructor : LineSays(j, k)
  BY <1>3 DEF SettleInv, Progress, Handled
<1>2. /\ m \in Month /\ pool \in Nat /\ w \in Secs /\ i \in Instructor
      /\ \A k \in Instructor : w[k] \in Nat
  BY <1>1, <1>6, ResultTypes DEF Watchers
<1>4. amount \in Nat /\ \A n \in Month, k \in Instructor :
         earned'[n][k] = IF n = m /\ k = i THEN earned[n][k] + amount ELSE earned[n][k]
  BY <1>1, <1>2, EarnWrites, ResultTypes
<1>5. \A n \in Month \ {m} : SameRows(n)
  BY <1>3, <1>4 DEF SameRows
<1>7. /\ earned[m][i] = 0
      /\ \A k \in Instructor :
            /\ lines[m][k].rows = IF k \in Watchers(w) \ todo[j] THEN 1 ELSE 0
            /\ lines[m][k].amount = IF k \in Watchers(w) \ todo[j] THEN Share(pool, w, k) ELSE 0
            /\ k # i => earned[m][k] = lines[m][k].amount
  BY <1>2, <1>3, <1>6 DEF LineSays, Handled
<1>8. \A k \in Instructor : earned'[m][k] = lines[m][k].amount
  <2>1. 0 + amount = amount
    BY <1>4
  <2> QED BY <1>2, <1>4, <1>6, <1>7, <2>1
<1>9. \/ todo[j] = {} /\ ~Working(j)'
      \/ /\ jm'[j] = m /\ jpool'[j] = pool /\ jwatch'[j] = w /\ todo'[j] = todo[j] /\ Working(j)'
         /\ jpc'[j] = "line"
  <2>1. CASE todo[j] = {}
    BY <1>1, <2>1, EndsApart DEF Earn, Working
  <2>2. CASE todo[j] # {}
    BY <1>1, <2>2 DEF TypeOK, Earn, Go, Working
  <2> QED BY <2>1, <2>2
<1>10. Alone'
  BY <1>1, <1>3, <1>9, AloneElse DEF SettleInv
<1>11. ASSUME NEW k \in Job PROVE Progress(k)'
  <2>1. CASE k # j
    <3>1. Progress(k) /\ (Working(k) => jm[k] # m /\ jm[k] \in Month)
      BY <1>1, <1>3, <2>1 DEF SettleInv, Alone, TypeOK
    <3> QED BY <1>1, <1>5, <2>1, <3>1, ProgressElse
  <2>2. Progress(j)'
    <3>1. SUFFICES ASSUME Working(j)' PROVE Progress(j)'
      BY DEF Progress
    <3>2. Handled(j)' = Watchers(w) \ todo[j]
      BY <1>9, <3>1 DEF Handled
    <3>3. \A l \in Instructor : LineSays(j, l)'
      BY <1>3, <1>7, <1>8, <1>9, <3>1, <3>2 DEF LineSays
    <3> QED BY <1>3, <1>6, <1>9, <3>1, <3>3 DEF Progress
  <2> QED BY <2>1, <2>2
<1>12. ASSUME NEW k \in Job PROVE ReadOver(k)'
  <2>1. ReadOver(k)
    BY DEF SettleInv
  <2>2. CASE k # j
    BY <1>1, <1>3, <2>1, <2>2, ReadOverElse
  <2>3. CASE k = j
    <3>1. jpc'[j] = "idle" \/ (jm'[j] = m /\ jwatch'[j] = w)
      <4>1. CASE End(j)
        BY <1>1, <4>1, EndsApart
      <4>2. CASE ~End(j)
        BY <4>2 DEF Earn
      <4> QED BY <4>1, <4>2
    <3> QED BY <1>3, <2>1, <2>3, <3>1 DEF ReadOver
  <2> QED BY <2>2, <2>3
<1>13. ASSUME NEW n \in Month PROVE /\ runs'[n] = -1 \/ runs'[n] \in Nat
                                    /\ \A k \in Instructor : Held(n, k)'
  <2>1. /\ runs[n] = -1 \/ runs[n] \in Nat
        /\ \A k \in Instructor : Held(n, k)
    BY DEF SettleInv
  <2>2. ASSUME NEW k \in Instructor PROVE Held(n, k)'
    <3>1. CASE n = m
      <4>1. lines[m][k].amount \in Nat
        BY <1>1, <1>2 DEF TypeOK
      <4> QED BY <1>2, <1>3, <1>6, <1>8, <2>1, <3>1, <4>1 DEF Held
    <3>2. CASE n # m
      BY <1>3, <1>4, <2>1, <3>2 DEF Held
    <3> QED BY <3>1, <3>2
  <2> QED BY <1>3, <2>1, <2>2
<1>14. ASSUME NEW n \in Month, Complete(n)' PROVE \E v \in Secs : SharedBy(n, v)'
  <2>1. CASE n # m
    <3>1. SameRows(n) /\ runs'[n] = runs[n]
      BY <1>3, <1>5, <2>1
    <3>2. Complete(n)
      BY <1>1, <1>3, <1>14, <2>1, <3>1, CompleteElse
    <3>3. PICK v \in Secs : SharedBy(n, v)
      BY <3>2 DEF SettleInv
    <3> QED BY <1>3, <3>1, <3>3, SharedElse
  <2>2. CASE n = m
    <3>1. todo[j] = {}
      BY <1>9, <1>14, <2>2 DEF Complete, AtWork, Working
    <3>2. m \notin hasty => m < month /\ w = watched[m]
      BY <1>3 DEF SettleInv, ReadOver
    <3>3. ASSUME NEW k \in Instructor
          PROVE  /\ lines'[m][k].rows = IF k \in Watchers(w) THEN 1 ELSE 0
                 /\ lines'[m][k].amount = Share(pool, w, k)
                 /\ earned'[m][k] = Share(pool, w, k)
      <4>1. CASE k \in Watchers(w)
        BY <1>3, <1>7, <1>8, <3>1, <4>1
      <4>2. CASE k \notin Watchers(w)
        <5>1. w[k] = 0
          BY <1>2, <4>2 DEF Watchers
        <5>2. Share(pool, w, k) = 0
          BY <1>2, <5>1, ShareTyped
        <5> QED BY <1>3, <1>7, <1>8, <4>2, <5>2
      <4> QED BY <4>1, <4>2
    <3>4. SharedBy(m, w)'
      BY <1>3, <1>6, <3>2, <3>3 DEF SharedBy
    <3> QED BY <1>2, <2>2, <3>4
  <2> QED BY <2>1, <2>2
<1> QED BY <1>10, <1>11, <1>12, <1>13, <1>14 DEF SettleInv

\* A call that dies among its lines leaves its month broken, and no other.
LEMMA DiesStep ==
    ASSUME SettleInv, TypeOK', NEW j \in Job, Dies(j)
    PROVE  SettleInv'
<1>1. TypeOK /\ Apart(j) /\ ~Working(j)' /\ jpc'[j] = "idle"
  BY EndsApart DEF SettleInv, Dies, Working
<1>2. UNCHANGED <<month, watched, runs, lines, earned, hasty>>
  BY DEF Dies, tables
<1>3. \A n \in Month : SameRows(n)
  BY <1>2 DEF SameRows
<1>4. broken \subseteq broken' /\ (Working(j) => jm[j] \in broken')
  BY DEF Dies, Working
<1>5. Alone'
  BY <1>1, AloneElse DEF SettleInv
<1>6. ASSUME NEW k \in Job PROVE Progress(k)' /\ ReadOver(k)'
  <2>1. CASE k # j
    <3>1. Progress(k) /\ ReadOver(k) /\ jm[k] \in Month
      BY <1>1 DEF SettleInv, TypeOK
    <3> QED BY <1>1, <1>2, <1>3, <2>1, <3>1, ProgressElse, ReadOverElse
  <2>2. CASE k = j
    BY <1>1, <2>2 DEF Progress, ReadOver
  <2> QED BY <2>1, <2>2
<1>7. ASSUME NEW n \in Month PROVE /\ runs'[n] = -1 \/ runs'[n] \in Nat
                                   /\ \A k \in Instructor : Held(n, k)'
  BY <1>2 DEF SettleInv, Held
<1>8. ASSUME NEW n \in Month, Complete(n)' PROVE \E v \in Secs : SharedBy(n, v)'
  <2>1. n \notin broken'
    BY <1>8 DEF Complete
  <2>2. Complete(n)
    BY <1>1, <1>2, <1>4, <1>8, <2>1, CompleteElse
  <2>3. PICK v \in Secs : SharedBy(n, v)
    BY <2>2 DEF SettleInv
  <2> QED BY <1>2, <1>3, <2>3, SharedElse
<1> QED BY <1>5, <1>6, <1>7, <1>8 DEF SettleInv

LEMMA SettleStarts == Init => SettleInv
<1> SUFFICES ASSUME Init PROVE SettleInv
  OBVIOUS
<1>1. TypeOK
  BY RestTyped, RevenueAssumption DEF Init, TypeOK, Month
<1>2. \A j \in Job : ~Working(j) /\ jpc[j] = "idle"
  BY DEF Init, Working
<1>3. Alone /\ \A j \in Job : Progress(j) /\ ReadOver(j)
  BY <1>2 DEF Alone, Progress, ReadOver
<1>4. \A m \in Month : runs[m] = -1 /\ \A i \in Instructor : Held(m, i)
  BY DEF Init, Held
<1>5. \A m \in Month : ~Complete(m)
  BY <1>4 DEF Complete
<1> QED BY <1>1, <1>3, <1>4, <1>5 DEF SettleInv

LEMMA SettleStep == SettleInv /\ [Next]_vars => SettleInv'
<1> SUFFICES ASSUME SettleInv, [Next]_vars PROVE SettleInv'
  OBVIOUS
<1>1. TypeOK /\ month \in Int
  BY DEF SettleInv, TypeOK
<1>2. CASE Tick
  <2>1. UNCHANGED <<tables, local, broken, hasty, watched>> /\ month' >= month
    BY <1>1, <1>2 DEF Tick
  <2> QED BY <1>1, <1>2, <2>1, TickTyped, QuietStep
<1>3. ASSUME NEW c \in Charge, Pay(c) \/ GiveBack(c) PROVE SettleInv'
  <2>1. UNCHANGED <<tables, local, broken, hasty, watched, month>> /\ month' >= month
    BY <1>1, <1>3 DEF Pay, GiveBack
  <2> QED BY <1>1, <1>3, <2>1, PayTyped, GiveBackTyped, QuietStep
<1>4. ASSUME NEW i \in Instructor, Watch(i) PROVE SettleInv'
  <2>1. UNCHANGED <<tables, local, broken, hasty, month>> /\ month' >= month
    BY <1>1, <1>4 DEF Watch
  <2>2. \A m \in Month : m < month => watched'[m] = watched[m]
    BY <1>1, <1>4 DEF Watch, TypeOK, Month
  <2> QED BY <1>1, <1>4, <2>1, <2>2, WatchTyped, QuietStep
<1>5. ASSUME NEW e \in due, Webhook(e) PROVE SettleInv'
  <2>1. UNCHANGED <<tables, local, broken, hasty, watched, month>> /\ month' >= month
    BY <1>1, <1>5 DEF Webhook
  <2> QED BY <1>1, <1>5, <2>1, WebhookTyped, QuietStep
<1>6. ASSUME NEW j \in Job, JobStep(j) PROVE SettleInv'
  <2>1. CASE (\E m \in Month : ReadGross(j, m)) \/ ReadWatch(j)
    BY <1>1, <2>1, ReadTyped, ReadStep
  <2>2. CASE InsertRun(j)
    BY <1>1, <2>2, InsertRunTyped, InsertRunStep
  <2>3. CASE Earn(j)
    <3>1. cur[j] \in Instructor
      BY <2>3 DEF SettleInv, Progress, Earn, Working, Handled, Watchers
    <3> QED BY <1>1, <2>3, <3>1, EarnTyped, EarnStep
  <2>4. CASE Dies(j)
    BY <1>1, <2>4, DiesTyped, DiesStep
  <2>5. ASSUME NEW i \in Instructor, Line(j, i) PROVE SettleInv'
    BY <1>1, <2>5, LineTyped, LineStep
  <2> QED BY <1>6, <2>1, <2>2, <2>3, <2>4, <2>5 DEF JobStep
<1>7. CASE UNCHANGED vars
  <2>1. UNCHANGED <<tables, local, broken, hasty, watched, month>> /\ month' >= month
    BY <1>1, <1>7 DEF vars
  <2>2. TypeOK'
    BY <1>1, <1>7 DEF vars, billing, tables, local, TypeOK
  <2> QED BY <2>1, <2>2, QuietStep
<1> QED BY <1>2, <1>3, <1>4, <1>5, <1>6, <1>7 DEF Next

\* The amounts of a finished run are shares of its pool, and shares add up.
LEMMA SettledRuns == SettleInv => RunSettles
<1> SUFFICES ASSUME SettleInv PROVE RunSettles
  OBVIOUS
<1>1. TypeOK
  BY DEF SettleInv
<1>2. LedgerMatchesLines
  <2> SUFFICES ASSUME NEW m \in Month, NEW i \in Instructor
               PROVE  /\ lines[m][i].rows <= 1
                      /\ earned[m][i] <= lines[m][i].amount
                      /\ Complete(m) => earned[m][i] = lines[m][i].amount
    BY DEF LedgerMatchesLines
  <2> QED BY DEF SettleInv, Held, SharedBy
<1>3. PoolIsShared
  <2> SUFFICES ASSUME NEW m \in Month \ hasty, Complete(m),
                      NEW paid, paid = MapThenSumSet(LAMBDA i : earned[m][i], Instructor),
                      NEW n, n = Cardinality(Watchers(watched[m]))
               PROVE  /\ \A i \in Instructor : lines[m][i].rows = IF watched[m][i] > 0 THEN 1 ELSE 0
                      /\ n > 0 => 2 * paid \in 2 * runs[m] - n .. 2 * runs[m] + n
    BY DEF PoolIsShared
  <2>1. PICK w \in Secs : SharedBy(m, w)
    BY DEF SettleInv
  <2>2. w = watched[m]
    BY <2>1 DEF SharedBy
  <2>3. \A i \in Instructor : lines[m][i].rows = IF watched[m][i] > 0 THEN 1 ELSE 0
    BY <2>1, <2>2 DEF SharedBy, Watchers
  <2>4. ASSUME n > 0 PROVE 2 * paid \in 2 * runs[m] - n .. 2 * runs[m] + n
    <3> PICK e : e = earned[m]
      OBVIOUS
    <3>1. paid = Seconds(e)
      BY DEF Seconds
    <3>2. runs[m] \in Nat
      BY DEF SettleInv, Complete
    <3>3. \A i \in Instructor : w[i] \in Nat
      BY RevenueAssumption DEF Secs
    <3>4. \A i \in Instructor : e[i] = Share(runs[m], w, i)
      BY <2>1 DEF SharedBy
    <3>5. n = Cardinality(Watchers(w))
      BY <2>2
    <3> QED BY <2>4, <3>1, <3>2, <3>3, <3>4, <3>5, SharesAddUp
  <2> QED BY <2>3, <2>4
<1> QED BY <1>2, <1>3 DEF RunSettles

\* Every table and every call of the revenue share keeps its type; the pools and the
\* shares that runAttribution computes are whole numbers that are not negative.
THEOREM RevenueTypeCorrect == Spec => []TypeOK
<1>1. Spec => []SettleInv
  BY SettleStarts, SettleStep, PTL DEF Spec
<1>2. SettleInv => TypeOK
  BY DEF SettleInv
<1> QED BY <1>1, <1>2, PTL

\* However many instances and administrators run a month, and whenever they die: no
\* line is there twice, the ledger says what the lines say, and a run that ended has
\* shared the pool among those watched up to the rounding of each share (runAttribution).
THEOREM AlwaysSettles == Spec => []RunSettles
<1>1. Spec => []SettleInv
  BY SettleStarts, SettleStep, PTL DEF Spec
<1> QED BY <1>1, SettledRuns, PTL


-----------------------------------------------------------------------------
(* The fund. *)

USE FundAssumption

LEMMA RoundedInt == \A n \in Int, d \in Nat \ {0} : Rounded(n, d) \in Int
BY DEF Rounded

LEMMA ContributionInt == \A m, y \in Subscribers : Contribution(m, y) \in Int
<1> SUFFICES ASSUME NEW m \in Subscribers, NEW y \in Subscribers PROVE Contribution(m, y) \in Int
  OBVIOUS
<1> DEFINE part == Rounded(y * PRICE_YEARLY_MINOR, 12)
           gross == m * PRICE_MONTHLY_MINOR + part
           netProfit == Rounded(gross * (100 - COST_PCT), 100)
<1>1. y * PRICE_YEARLY_MINOR \in Int /\ m * PRICE_MONTHLY_MINOR \in Int
  BY DEF PRICE_YEARLY_MINOR, PRICE_MONTHLY_MINOR
<1>2. part \in Int
  BY <1>1, RoundedInt
<1> HIDE DEF part
<1>3. gross * (100 - COST_PCT) \in Int
  BY <1>1, <1>2 DEF COST_PCT
<1> HIDE DEF gross
<1>4. netProfit \in Int
  BY <1>3, RoundedInt
<1> HIDE DEF netProfit
<1>5. netProfit * ALLOCATION_PCT \in Int
  BY <1>4 DEF ALLOCATION_PCT
<1>6. Rounded(netProfit * ALLOCATION_PCT, 100) \in Int
  BY <1>5, RoundedInt
<1> QED
  BY <1>6 DEF Contribution, netProfit, gross, part

Place == [pc : {"idle", "compute", "insert"}, period : Period, amount : Nat]

LEMMA RestingTyped == Resting \in Place /\ Resting.pc = "idle"
<1>1. (CHOOSE p \in Period : TRUE) \in Period
  OBVIOUS
<1> QED BY <1>1 DEF Resting, Place

\* An amount is in the ledger only once it was more than nothing.
LEMMA ComputeMoves ==
    ASSUME FundTypeOK, NEW i \in Instance, ContributionCompute(i)
    PROVE  \E e \in Place : /\ cron' = [cron EXCEPT ![i] = e]
                            /\ e.pc = "idle" \/ (e.pc = "insert" /\ e.period = cron[i].period)
<1>1. PICK m \in Subscribers, y \in Subscribers :
        cron' = [cron EXCEPT ![i] = IF Contribution(m, y) <= 0 THEN Resting
                                    ELSE [cron[i] EXCEPT !.pc = "insert", !.amount = Contribution(m, y)]]
  BY DEF ContributionCompute, FundTypeOK
<1>2. Contribution(m, y) \in Int
  BY ContributionInt
<1>3. CASE Contribution(m, y) <= 0
  BY <1>1, <1>3, RestingTyped
<1>4. CASE ~(Contribution(m, y) <= 0)
  <2> DEFINE e == [cron[i] EXCEPT !.pc = "insert", !.amount = Contribution(m, y)]
  <2>1. Contribution(m, y) \in Nat /\ cron[i] \in Place
    BY <1>2, <1>4 DEF FundTypeOK, Place
  <2>2. e \in Place /\ e.pc = "insert" /\ e.period = cron[i].period
    BY <2>1 DEF Place
  <2> QED BY <1>1, <1>4, <2>2
<1> QED BY <1>3, <1>4

LEMMA FundTypeStep == FundTypeOK /\ [FundNext]_fundVars => FundTypeOK'
<1> SUFFICES ASSUME FundTypeOK, [FundNext]_fundVars PROVE FundTypeOK'
  OBVIOUS
<1> USE RestingTyped
<1>0. cron \in [Instance -> Place]
  BY DEF FundTypeOK, Place
<1>1. ASSUME NEW a \in Admin, PayoutInsert(a) PROVE FundTypeOK'
  BY <1>1 DEF FundTypeOK, PayoutInsert
<1>2. ASSUME NEW a \in Admin, NEW amount \in Asked, PayoutCheck(a, amount) PROVE FundTypeOK'
  <2>1. amount \in Nat
    BY <1>2 DEF PayoutCheck
  <2> QED BY <1>2, <2>1 DEF FundTypeOK, PayoutCheck
<1>3. ASSUME NEW i \in Instance, NEW p \in Period, ContributionLook(i, p) PROVE FundTypeOK'
  <2>1. cron' \in [Instance -> Place]
    BY <1>0, <1>3 DEF ContributionLook, Place
  <2> QED BY <1>3, <2>1 DEF FundTypeOK, ContributionLook, Place
<1>4. ASSUME NEW i \in Instance, ContributionCompute(i) PROVE FundTypeOK'
  <2>1. cron' \in [Instance -> Place]
    BY <1>0, <1>4, ComputeMoves
  <2> QED BY <1>4, <2>1 DEF FundTypeOK, ContributionCompute, Place
<1>5. ASSUME NEW i \in Instance, ContributionInsert(i) PROVE FundTypeOK'
  <2>1. cron[i].amount \in Nat /\ cron[i].period \in Period /\ cron' \in [Instance -> Place]
    BY <1>0, <1>5 DEF ContributionInsert, Place
  <2> QED BY <1>5, <2>1 DEF FundTypeOK, ContributionInsert, Place
<1>6. CASE CallDies
  <2>1. cron' \in [Instance -> Place] /\ admin' \in [Admin -> Nat]
    BY <1>0, <1>6 DEF CallDies, FundTypeOK
  <2> QED BY <1>6, <2>1 DEF FundTypeOK, CallDies, Place
<1>7. CASE UNCHANGED fundVars
  BY <1>7 DEF FundTypeOK, fundVars
<1> QED
  BY <1>1, <1>2, <1>3, <1>4, <1>5, <1>6, <1>7 DEF FundNext

LEMMA FundStarts == FundInit => FundTypeOK
<1> SUFFICES ASSUME FundInit PROVE FundTypeOK
  OBVIOUS
<1>1. cron \in [Instance -> Place]
  BY RestingTyped DEF FundInit
<1>2. payouts \in 0 .. MaxPayouts /\ entries \in [Period -> Nat] /\ admin \in [Admin -> Nat]
  BY DEF FundInit
<1> QED BY <1>1, <1>2 DEF FundInit, FundTypeOK, Place

\* Sums, counts and amounts are never negative, and the cron knows its month.
THEOREM FundTypeCorrect == FundSpec => []FundTypeOK
BY FundStarts, FundTypeStep, PTL DEF FundSpec

-----------------------------------------------------------------------------
\* As long as no payout overtook another, every payout that was checked still fits.
PayoutsFit ==
    ~overtaken => /\ paidOut <= contributed
                  /\ \A a \in Admin : paidOut + admin[a] <= contributed

LEMMA PayoutsStep == FundTypeOK /\ PayoutsFit /\ [FundNext]_fundVars => PayoutsFit'
<1> SUFFICES ASSUME FundTypeOK, PayoutsFit, [FundNext]_fundVars PROVE PayoutsFit'
  OBVIOUS
<1> USE DEF FundTypeOK, PayoutsFit
<1>1. ASSUME NEW a \in Admin, PayoutInsert(a) PROVE PayoutsFit'
  <2>1. CASE \E b \in Admin \ {a} : admin[b] > 0
    BY <1>1, <2>1 DEF PayoutInsert
  <2>2. CASE \A b \in Admin \ {a} : admin[b] = 0
    BY <1>1, <2>2 DEF PayoutInsert
  <2> QED BY <2>1, <2>2
<1>2. ASSUME NEW a \in Admin, NEW amount \in Asked, PayoutCheck(a, amount) PROVE PayoutsFit'
  BY <1>2 DEF PayoutCheck, Balance
<1>3. ASSUME NEW i \in Instance, ContributionInsert(i) PROVE PayoutsFit'
  <2>1. cron[i].amount \in Nat
    OBVIOUS
  <2> QED BY <1>3, <2>1 DEF ContributionInsert
<1>4. CASE CallDies
  BY <1>4 DEF CallDies
<1>5. ASSUME UNCHANGED <<contributed, paidOut, admin, overtaken>> PROVE PayoutsFit'
  BY <1>5
<1>6. (\E i \in Instance : ContributionCompute(i) \/ \E p \in Period : ContributionLook(i, p))
      \/ UNCHANGED fundVars => UNCHANGED <<contributed, paidOut, admin, overtaken>>
  BY DEF ContributionCompute, ContributionLook, fundVars
<1> QED
  BY <1>1, <1>2, <1>3, <1>4, <1>5, <1>6 DEF FundNext

\* Whoever works on a month found it without a contribution, and works on it alone.
AtWorkOn(i, p) == cron[i].pc # "idle" /\ cron[i].period = p
MonthsApart ==
    \A p \in Period \ doubled :
       /\ entries[p] <= 1
       /\ \A i \in Instance : AtWorkOn(i, p) =>
             entries[p] = 0 /\ \A j \in Instance : AtWorkOn(j, p) => i = j

\* A step that takes nobody to another month.
LEMMA MonthsKept ==
    ASSUME MonthsApart, UNCHANGED <<entries, doubled>>,
           \A i \in Instance, p \in Period : AtWorkOn(i, p)' => AtWorkOn(i, p)
    PROVE  MonthsApart'
BY DEF MonthsApart

LEMMA MonthsStep == FundTypeOK /\ MonthsApart /\ [FundNext]_fundVars => MonthsApart'
<1> SUFFICES ASSUME FundTypeOK, MonthsApart, [FundNext]_fundVars PROVE MonthsApart'
  OBVIOUS
<1> USE RestingTyped
<1>0. cron \in [Instance -> Place]
  BY DEF FundTypeOK, Place
<1>1. ASSUME NEW i \in Instance, NEW p \in Period, ContributionLook(i, p) PROVE MonthsApart'
  <2>1. \A j \in Instance, q \in Period :
          AtWorkOn(j, q)' <=> IF j = i THEN q = p ELSE AtWorkOn(j, q)
    BY <1>0, <1>1 DEF ContributionLook, AtWorkOn
  <2>2. doubled' = IF \E j \in Instance \ {i} : AtWorkOn(j, p) THEN doubled \cup {p} ELSE doubled
    BY <1>1 DEF ContributionLook, AtWorkOn
  <2>3. ~\E q \in Period : AtWorkOn(i, q)
    BY <1>1 DEF ContributionLook, AtWorkOn
  <2>4. entries' = entries /\ entries[p] = 0
    BY <1>1 DEF ContributionLook
  <2> QED BY <2>1, <2>2, <2>3, <2>4 DEF MonthsApart
<1>2. ASSUME NEW i \in Instance, ContributionCompute(i) PROVE MonthsApart'
  <2>1. PICK e \in Place : /\ cron' = [cron EXCEPT ![i] = e]
                           /\ e.pc = "idle" \/ (e.pc = "insert" /\ e.period = cron[i].period)
    BY <1>2, ComputeMoves
  <2>2. cron[i].pc = "compute" /\ UNCHANGED <<entries, doubled>>
    BY <1>2 DEF ContributionCompute
  <2>3. \A j \in Instance, p \in Period : AtWorkOn(j, p)' => AtWorkOn(j, p)
    BY <1>0, <2>1, <2>2 DEF AtWorkOn
  <2> QED BY <2>2, <2>3, MonthsKept
<1>3. ASSUME NEW i \in Instance, ContributionInsert(i) PROVE MonthsApart'
  <2>1. AtWorkOn(i, cron[i].period) /\ cron[i].period \in Period
    BY <1>0, <1>3 DEF ContributionInsert, AtWorkOn, Place
  <2>2. \A j \in Instance, p \in Period : AtWorkOn(j, p)' => j # i /\ AtWorkOn(j, p)
    BY <1>0, <1>3 DEF ContributionInsert, AtWorkOn
  <2>3. /\ doubled' = doubled /\ entries \in [Period -> Nat]
        /\ entries' = [entries EXCEPT ![cron[i].period] = @ + 1]
    BY <1>3 DEF ContributionInsert, FundTypeOK
  <2> SUFFICES ASSUME NEW p \in Period \ doubled
               PROVE  /\ entries'[p] <= 1
                      /\ \A j \in Instance : AtWorkOn(j, p)' =>
                            entries'[p] = 0 /\ \A k \in Instance : AtWorkOn(k, p)' => j = k
    BY <2>3 DEF MonthsApart
  <2>4. CASE p = cron[i].period
    <3>1. entries[p] = 0 /\ \A j \in Instance : AtWorkOn(j, p) => i = j
      BY <2>1, <2>4 DEF MonthsApart
    <3> QED BY <2>2, <2>3, <2>4, <3>1
  <2>5. CASE p # cron[i].period
    BY <2>2, <2>3, <2>5 DEF MonthsApart
  <2> QED BY <2>4, <2>5
<1>4. CASE CallDies
  <2>1. \A i \in Instance, p \in Period : AtWorkOn(i, p)' => AtWorkOn(i, p)
    BY <1>0, <1>4 DEF CallDies, AtWorkOn
  <2> QED BY <1>4, <2>1, MonthsKept DEF CallDies
<1>5. ASSUME UNCHANGED <<entries, doubled, cron>> PROVE MonthsApart'
  BY <1>5, MonthsKept DEF AtWorkOn
<1>6. (\E a \in Admin : PayoutInsert(a) \/ \E amount \in Asked : PayoutCheck(a, amount))
      \/ UNCHANGED fundVars => UNCHANGED <<entries, doubled, cron>>
  BY DEF PayoutInsert, PayoutCheck, fundVars
<1> QED
  BY <1>1, <1>2, <1>3, <1>4, <1>5, <1>6 DEF FundNext

\* The fund is overdrawn and a month contributes twice only where two requests, or two
\* instances, were between their look-up and their insert at once.
THEOREM FundAlwaysKept == FundSpec => []FundKept
<1>1. FundInit => PayoutsFit /\ MonthsApart
  BY RestingTyped DEF FundInit, PayoutsFit, MonthsApart, AtWorkOn
<1>2. PayoutsFit /\ MonthsApart => FundKept
  BY DEF PayoutsFit, MonthsApart, FundKept, NeverOverdrawn, ContributedOnce
<1> QED
  BY <1>1, <1>2, FundStarts, FundTypeStep, PayoutsStep, MonthsStep, PTL DEF FundSpec
-----------------------------------------------------------------------------
(* The badge. *)

\* A request that is under way knows whom it is about.
VerificationTyped ==
    /\ VerificationTypeOK
    /\ \A r \in Request : /\ req[r].pc # "idle" => req[r].user \in User
                          /\ req[r].pc \in {"claim", "insert", "list"} => req[r].number \in AdiNumber

Moving == [pc : Pc, user : User \cup {"none"}, number : Number]

LEMMA IdleTyped == IdleRequest \in Moving /\ IdleRequest.pc = "idle"
BY DEF IdleRequest, Moving, Pc, Number

LEMMA RowsTyped ==
    VerificationTypeOK => \A v \in DOMAIN verifications :
                             verifications[v] \in Row /\ v \in 1 .. Len(verifications)
BY DEF VerificationTypeOK

\* Only requests moved, or a request and the sets of users.
LEMMA OnlyRequests ==
    ASSUME VerificationTyped, NEW r \in Request, NEW e \in Moving, req' = [req EXCEPT ![r] = e],
           e.pc # "idle" => e.user \in User,
           e.pc \in {"claim", "insert", "list"} => e.number \in AdiNumber,
           verifications' \in Seq(Row),
           contributors' \in [User -> [status : Status \cup {"none"}, number : Number]],
           instructors' \subseteq User, badges' \subseteq User, crossed' \subseteq User
    PROVE  VerificationTyped'
<1>1. req' \in [Request -> Moving]
  BY DEF VerificationTyped, VerificationTypeOK, Moving
<1>2. \A q \in Request : req'[q] = IF q = r THEN e ELSE req[q]
  BY DEF VerificationTyped, VerificationTypeOK
<1> QED BY <1>1, <1>2 DEF VerificationTyped, VerificationTypeOK, Moving

LEMMA VerificationTypeStep ==
    VerificationTyped /\ [VerificationNext]_verificationVars => VerificationTyped'
<1> SUFFICES ASSUME VerificationTyped, [VerificationNext]_verificationVars
             PROVE  VerificationTyped'
  OBVIOUS
<1>0. /\ \A r \in Request : req[r] \in Moving
      /\ \A r \in Request, p \in Pc : LET e == [req[r] EXCEPT !.pc = p]
           IN  e \in Moving /\ e.pc = p /\ e.user = req[r].user /\ e.number = req[r].number
      /\ verifications \in Seq(Row) /\ Len(verifications) \in Nat
      /\ contributors \in [User -> [status : Status \cup {"none"}, number : Number]]
      /\ instructors \subseteq User /\ badges \subseteq User /\ crossed \subseteq User
  BY DEF VerificationTyped, VerificationTypeOK, Moving
<1> USE IdleTyped
<1>1. ASSUME NEW r \in Request, NEW u \in User, NEW n \in AdiNumber, SubmitStart(r, u, n)
      PROVE  VerificationTyped'
  <2> DEFINE e == [pc |-> "claim", user |-> u, number |-> n]
  <2>1. e \in Moving /\ e.user \in User /\ e.number \in AdiNumber
    BY DEF Moving, Pc, Number
  <2> QED BY <1>0, <1>1, <2>1, OnlyRequests DEF SubmitStart
<1>2. ASSUME NEW r \in Request, NEW acceptable \in BOOLEAN, SubmitClaim(r, acceptable)
      PROVE  VerificationTyped'
  <2>1. req[r].user \in User /\ req[r].number \in AdiNumber /\ "insert" \in Pc
    BY <1>2 DEF VerificationTyped, SubmitClaim, At, Pc
  <2>2. PICK e \in Moving : /\ req' = [req EXCEPT ![r] = e]
                            /\ e.pc = "idle" \/ (e.user \in User /\ e.number \in AdiNumber)
    <3>1. CASE GoTo(r, "insert")
      BY <1>0, <2>1, <3>1 DEF GoTo
    <3>2. CASE Done(r)
      BY <3>2 DEF Done
    <3> QED BY <1>2, <3>1, <3>2 DEF SubmitClaim
  <2> QED BY <1>0, <1>2, <2>2, OnlyRequests DEF SubmitClaim
<1>3. ASSUME NEW r \in Request, SubmitInsert(r) PROVE VerificationTyped'
  <2>1. req[r].user \in User /\ req[r].number \in AdiNumber /\ "list" \in Pc
    BY <1>3 DEF VerificationTyped, SubmitInsert, At, Pc
  <2>2. CASE Rows(User, {req[r].number}, {"pending"}) = {}
    <3> DEFINE x == [user |-> req[r].user, number |-> req[r].number, status |-> "pending"]
    <3>1. x \in Row
      BY <2>1 DEF Row, Status
    <3>2. verifications' = Append(verifications, x) /\ GoTo(r, "list")
      BY <1>3, <2>2 DEF SubmitInsert
    <3> HIDE DEF x
    <3>3. verifications' \in Seq(Row)
      BY <1>0, <3>1, <3>2
    <3> DEFINE e == [req[r] EXCEPT !.pc = "list"]
    <3>4. e \in Moving /\ e.user \in User /\ e.number \in AdiNumber
      BY <1>0, <2>1
    <3>5. req' = [req EXCEPT ![r] = e]
      BY <3>2 DEF GoTo
    <3> HIDE DEF e
    <3> QED BY <1>0, <1>3, <3>3, <3>4, <3>5, OnlyRequests DEF SubmitInsert
  <2>3. CASE Rows(User, {req[r].number}, {"pending"}) # {}
    BY <1>0, <1>3, <2>3, OnlyRequests DEF SubmitInsert, Done
  <2> QED BY <2>2, <2>3
<1>4. ASSUME NEW r \in Request, SubmitList(r) PROVE VerificationTyped'
  <2>1. req[r].user \in User /\ req[r].number \in AdiNumber
    BY <1>4 DEF VerificationTyped, SubmitList, At
  <2>2. contributors' \in [User -> [status : Status \cup {"none"}, number : Number]]
    BY <1>0, <1>4, <2>1 DEF SubmitList, Status, Number
  <2> QED BY <1>0, <1>4, <2>2, OnlyRequests DEF SubmitList, Done
<1>5. ASSUME NEW r \in Request, NEW v \in DOMAIN verifications, NEW d \in {"verified", "rejected"},
             Decide(r, v, d) PROVE VerificationTyped'
  <2> DEFINE u == verifications[v].user
             e == [pc |-> "role", user |-> u, number |-> "none"]
  <2>1. u \in User /\ verifications[v].number \in AdiNumber /\ verifications[v] \in Row
    BY RowsTyped DEF VerificationTyped, Row
  <2>2. verifications' \in Seq(Row)
    <3>1. [verifications[v] EXCEPT !.status = d] \in Row
      BY <2>1 DEF Row, Status
    <3>2. verifications' = [verifications EXCEPT ![v] = [verifications[v] EXCEPT !.status = d]]
      BY <1>5 DEF Decide
    <3> QED BY <1>0, <3>1, <3>2
  <2>3. contributors' \in [User -> [status : Status \cup {"none"}, number : Number]]
    BY <1>0, <1>5, <2>1 DEF Decide, Status, Number
  <2>4. crossed' \subseteq User
    BY <1>0, <1>5, <2>1 DEF Decide
  <2>5. e \in Moving /\ e.pc = "role" /\ e.user \in User
    BY <2>1 DEF Moving, Pc, Number
  <2>6. UNCHANGED <<instructors, badges>> /\ (req' = [req EXCEPT ![r] = e] \/ req' = req)
    BY <1>5 DEF Decide
  <2> HIDE DEF e
  <2>7. CASE req' = [req EXCEPT ![r] = e]
    BY <1>0, <2>2, <2>3, <2>4, <2>5, <2>6, <2>7, OnlyRequests
  <2>8. CASE req' = req
    BY <1>0, <2>2, <2>3, <2>4, <2>6, <2>8 DEF VerificationTyped, VerificationTypeOK
  <2> QED BY <2>6, <2>7, <2>8
<1>6. ASSUME NEW r \in Request, GrantRole(r) PROVE VerificationTyped'
  <2>1. req[r].user \in User /\ "award" \in Pc
    BY <1>6 DEF VerificationTyped, GrantRole, At, Pc
  <2>2. [req[r] EXCEPT !.pc = "award"] \in Moving
    BY <1>0, <2>1
  <2> QED BY <1>0, <1>6, <2>1, <2>2, OnlyRequests DEF GrantRole, GoTo
<1>7. ASSUME NEW r \in Request, AwardBadge(r) PROVE VerificationTyped'
  <2>1. req[r].user \in User
    BY <1>7 DEF VerificationTyped, AwardBadge, At
  <2> QED BY <1>0, <1>7, <2>1, OnlyRequests DEF AwardBadge, Done
<1>8. ASSUME NEW r \in Request, RequestDies(r) PROVE VerificationTyped'
  <2>1. crossed' \subseteq User
    BY <1>0, <1>8 DEF VerificationTyped, RequestDies, At
  <2> QED BY <1>0, <1>8, <2>1, OnlyRequests DEF RequestDies, Done
<1>9. CASE UNCHANGED verificationVars
  BY <1>9 DEF verificationVars, VerificationTyped, VerificationTypeOK
<1> QED
  BY <1>1, <1>2, <1>3, <1>4, <1>5, <1>6, <1>7, <1>8, <1>9 DEF VerificationNext

LEMMA VerificationStarts == VerificationInit => VerificationTyped
BY IdleTyped DEF VerificationInit, VerificationTyped, VerificationTypeOK, Moving, Status, Number

\* The values of every variable stay in their sets.
THEOREM VerificationTypeCorrect == VerificationSpec => []VerificationTypeOK
<1>1. VerificationTyped => VerificationTypeOK
  BY DEF VerificationTyped
<1> QED BY <1>1, VerificationStarts, VerificationTypeStep, PTL DEF VerificationSpec

\* The unique index, and a row behind every badge.
BadgeInv ==
    /\ \A v, w \in DOMAIN verifications :
          verifications[v].number = verifications[w].number
          /\ verifications[v].status = verifications[w].status => v = w
    /\ \A u \in User : contributors[u].status = "verified" =>
          \E v \in DOMAIN verifications : /\ verifications[v].user = u
                                          /\ verifications[v].number = contributors[u].number
                                          /\ verifications[v].status = "verified"

LEMMA BadgeStep ==
    VerificationTyped /\ BadgeInv /\ [VerificationNext]_verificationVars => BadgeInv'
<1> SUFFICES ASSUME VerificationTyped, BadgeInv, [VerificationNext]_verificationVars
             PROVE  BadgeInv'
  OBVIOUS
<1>0. /\ verifications \in Seq(Row)
      /\ contributors \in [User -> [status : Status \cup {"none"}, number : Number]]
      /\ \A v \in DOMAIN verifications : verifications[v] \in Row /\ verifications[v].user \in User
  BY RowsTyped DEF VerificationTyped, VerificationTypeOK, Row
<1>1. ASSUME NEW r \in Request, SubmitInsert(r) PROVE BadgeInv'
  <2>1. CASE Rows(User, {req[r].number}, {"pending"}) = {}
    <3> DEFINE x == [user |-> req[r].user, number |-> req[r].number, status |-> "pending"]
               n == Len(verifications) + 1
    <3>1. verifications' = Append(verifications, x) /\ contributors' = contributors
      BY <1>1, <2>1 DEF SubmitInsert
    <3>2. \A v \in DOMAIN verifications :
            verifications[v].number = req[r].number => verifications[v].status # "pending"
      BY <1>0, <2>1 DEF Rows
    <3>3. /\ DOMAIN verifications' = DOMAIN verifications \cup {n}
          /\ \A v \in DOMAIN verifications : verifications'[v] = verifications[v]
          /\ verifications'[n] = x
      BY <1>0, <3>1
    <3> HIDE DEF n
    <3> QED BY <3>1, <3>2, <3>3 DEF BadgeInv
  <2>2. CASE Rows(User, {req[r].number}, {"pending"}) # {}
    <3>1. verifications' = verifications /\ contributors' = contributors
      BY <1>1, <2>2 DEF SubmitInsert
    <3> QED BY <3>1 DEF BadgeInv
  <2> QED BY <2>1, <2>2
<1>2. ASSUME NEW r \in Request, SubmitList(r) PROVE BadgeInv'
  BY <1>0, <1>2 DEF SubmitList, BadgeInv
<1>3. ASSUME NEW r \in Request, NEW v \in DOMAIN verifications, NEW d \in {"verified", "rejected"},
             Decide(r, v, d) PROVE BadgeInv'
  <2> DEFINE u == verifications[v].user
             x == [verifications[v] EXCEPT !.status = d]
             c == [status |-> d, number |-> verifications[v].number]
  <2>1. x.status = d /\ x.user = u /\ x.number = verifications[v].number /\ u \in User
    BY <1>0 DEF Row
  <2>2. verifications' = [verifications EXCEPT ![v] = x] /\ contributors' = [contributors EXCEPT ![u] = c]
    BY <1>3 DEF Decide
  <2>3. \A w \in DOMAIN verifications :
          verifications[w].number = verifications[v].number /\ verifications[w].status = d => w = v
    BY <1>0, <1>3 DEF Decide, MayBecome, Rows
  <2> HIDE DEF x
  <2>4. /\ DOMAIN verifications' = DOMAIN verifications
        /\ \A w \in DOMAIN verifications : verifications'[w] = IF w = v THEN x ELSE verifications[w]
    BY <1>0, <2>2
  <2>5. \A w, y \in DOMAIN verifications' :
          verifications'[w].number = verifications'[y].number
          /\ verifications'[w].status = verifications'[y].status => w = y
    BY <2>1, <2>3, <2>4 DEF BadgeInv
  <2>6. ASSUME NEW z \in User, contributors'[z].status = "verified"
        PROVE  \E w \in DOMAIN verifications' : /\ verifications'[w].user = z
                                                /\ verifications'[w].number = contributors'[z].number
                                                /\ verifications'[w].status = "verified"
    <3>1. CASE z = u
      BY <1>0, <2>1, <2>2, <2>4, <2>6, <3>1
    <3>2. CASE z # u
      <4>1. contributors'[z] = contributors[z]
        BY <1>0, <2>2, <3>2
      <4>2. PICK w \in DOMAIN verifications : /\ verifications[w].user = z
                                              /\ verifications[w].number = contributors[z].number
                                              /\ verifications[w].status = "verified"
        BY <2>6, <4>1 DEF BadgeInv
      <4>3. w # v
        BY <3>2, <4>2
      <4> QED BY <2>4, <4>1, <4>2, <4>3
    <3> QED BY <3>1, <3>2
  <2> QED BY <2>5, <2>6 DEF BadgeInv
<1>4. ASSUME UNCHANGED <<verifications, contributors>> PROVE BadgeInv'
  BY <1>4 DEF BadgeInv
<1>5. \/ \E r \in Request :
           \/ \E u \in User, n \in AdiNumber : SubmitStart(r, u, n)
           \/ \E acceptable \in BOOLEAN : SubmitClaim(r, acceptable)
           \/ GrantRole(r) \/ AwardBadge(r) \/ RequestDies(r)
      \/ UNCHANGED verificationVars
      => UNCHANGED <<verifications, contributors>>
  BY DEF SubmitStart, SubmitClaim, GrantRole, AwardBadge, RequestDies, verificationVars
<1> QED
  BY <1>1, <1>2, <1>3, <1>4, <1>5 DEF VerificationNext

\* Nobody is shown as verified without a verified application for the number shown, and no
\* two share a number, however submissions and decisions overlap.
THEOREM BadgeAlwaysBacked == VerificationSpec => []BadgeIsBacked
<1>1. VerificationInit => BadgeInv
  BY DEF VerificationInit, BadgeInv
<1>2. VerificationTyped /\ BadgeInv => BadgeIsBacked
  <2> SUFFICES ASSUME VerificationTyped, BadgeInv, NEW u \in User,
                      contributors[u].status = "verified"
               PROVE  /\ Rows({u}, {contributors[u].number}, {"verified"}) # {}
                      /\ Rows(User \ {u}, {contributors[u].number}, {"verified"}) = {}
    BY DEF BadgeIsBacked
  <2>1. PICK v \in DOMAIN verifications : /\ verifications[v].user = u
                                          /\ verifications[v].number = contributors[u].number
                                          /\ verifications[v].status = "verified"
    BY DEF BadgeInv
  <2> QED BY <2>1 DEF Rows, BadgeInv
<1> QED
  BY <1>1, <1>2, VerificationStarts, VerificationTypeStep, BadgeStep, PTL DEF VerificationSpec

\* Who is shown as pending, or is about to be, has a pending application.
PendingInv ==
    \A u \in User \ crossed :
       contributors[u].status = "pending" \/ (\E r \in Request : At(r, "list") /\ req[r].user = u)
          => \E v \in DOMAIN verifications : /\ verifications[v].user = u
                                             /\ verifications[v].status = "pending"

LEMMA PendingStep ==
    VerificationTyped /\ PendingInv /\ [VerificationNext]_verificationVars => PendingInv'
<1> SUFFICES ASSUME VerificationTyped, PendingInv, [VerificationNext]_verificationVars
             PROVE  PendingInv'
  OBVIOUS
<1>0. /\ verifications \in Seq(Row) /\ crossed \subseteq User
      /\ contributors \in [User -> [status : Status \cup {"none"}, number : Number]]
      /\ req \in [Request -> [pc : Pc, user : User \cup {"none"}, number : Number]]
  BY DEF VerificationTyped, VerificationTypeOK
<1>1. ASSUME NEW r \in Request, SubmitInsert(r) PROVE PendingInv'
  <2>1. CASE Rows(User, {req[r].number}, {"pending"}) = {}
    <3> DEFINE x == [user |-> req[r].user, number |-> req[r].number, status |-> "pending"]
               n == Len(verifications) + 1
    <3>1. /\ verifications' = Append(verifications, x)
          /\ UNCHANGED <<contributors, crossed>> /\ req' = [req EXCEPT ![r].pc = "list"]
      BY <1>1, <2>1 DEF SubmitInsert, GoTo
    <3>2. /\ DOMAIN verifications' = DOMAIN verifications \cup {n}
          /\ \A v \in DOMAIN verifications : verifications'[v] = verifications[v]
          /\ verifications'[n] = x
      BY <1>0, <3>1
    <3>3. x.user = req[r].user /\ x.status = "pending"
      OBVIOUS
    <3>4. \A q \in Request : /\ req'[q].user = req[q].user
                             /\ q # r => req'[q].pc = req[q].pc
      BY <1>0, <3>1
    <3> HIDE DEF n, x
    <3>5. ASSUME NEW u \in User \ crossed,
                 contributors[u].status = "pending" \/ \E q \in Request : At(q, "list")' /\ req'[q].user = u
          PROVE  \E v \in DOMAIN verifications' : /\ verifications'[v].user = u
                                                  /\ verifications'[v].status = "pending"
      <4>1. CASE u = req[r].user
        BY <3>2, <3>3, <4>1
      <4>2. CASE u # req[r].user
        <5>1. contributors[u].status = "pending" \/ \E q \in Request : At(q, "list") /\ req[q].user = u
          BY <3>4, <3>5, <4>2 DEF At
        <5>2. PICK v \in DOMAIN verifications : /\ verifications[v].user = u
                                                /\ verifications[v].status = "pending"
          BY <5>1 DEF PendingInv
        <5> QED BY <3>2, <5>2
      <4> QED BY <4>1, <4>2
    <3> QED BY <3>1, <3>5 DEF PendingInv
  <2>2. CASE Rows(User, {req[r].number}, {"pending"}) # {}
    <3>1. UNCHANGED <<verifications, contributors, crossed>> /\ req' = [req EXCEPT ![r] = IdleRequest]
      BY <1>1, <2>2 DEF SubmitInsert, Done
    <3>2. \A q \in Request : At(q, "list")' => At(q, "list") /\ req'[q] = req[q]
      BY <1>0, <3>1 DEF At, IdleRequest
    <3> QED BY <3>1, <3>2 DEF PendingInv
  <2> QED BY <2>1, <2>2
<1>2. ASSUME NEW r \in Request, SubmitList(r) PROVE PendingInv'
  <2>1. /\ UNCHANGED <<verifications, crossed>> /\ req' = [req EXCEPT ![r] = IdleRequest]
        /\ contributors' = [contributors EXCEPT ![req[r].user] =
                              [status |-> "pending", number |-> req[r].number]]
    BY <1>2 DEF SubmitList, Done
  <2>2. At(r, "list")
    BY <1>2 DEF SubmitList
  <2>3. \A q \in Request : At(q, "list")' => At(q, "list") /\ req'[q] = req[q]
    BY <1>0, <2>1 DEF At, IdleRequest
  <2>4. \A u \in User : u # req[r].user => contributors'[u] = contributors[u]
    BY <1>0, <2>1
  <2> QED BY <2>1, <2>2, <2>3, <2>4 DEF PendingInv
<1>3. ASSUME NEW r \in Request, NEW v \in DOMAIN verifications, NEW d \in {"verified", "rejected"},
             Decide(r, v, d) PROVE PendingInv'
  <2> DEFINE u == verifications[v].user
             x == [verifications[v] EXCEPT !.status = d]
             c == [status |-> d, number |-> verifications[v].number]
  <2>1. /\ verifications' = [verifications EXCEPT ![v] = x]
        /\ contributors' = [contributors EXCEPT ![u] = c]
        /\ crossed' = IF \E q \in Request : At(q, "list") /\ req[q].user = u
                      THEN crossed \cup {u} ELSE crossed
    BY <1>3 DEF Decide
  <2>2. \A q \in Request : At(q, "list")' => At(q, "list") /\ req'[q] = req[q]
    <3>1. At(r, "idle") /\ (req' = [req EXCEPT ![r] = [pc |-> "role", user |-> u, number |-> "none"]]
                            \/ req' = req)
      BY <1>3 DEF Decide
    <3> QED BY <1>0, <3>1 DEF At
  <2>3. /\ DOMAIN verifications' = DOMAIN verifications
        /\ \A w \in DOMAIN verifications : w # v => verifications'[w] = verifications[w]
    BY <1>0, <2>1
  <2>4. ASSUME NEW z \in User \ crossed',
               contributors'[z].status = "pending" \/ \E q \in Request : At(q, "list")' /\ req'[q].user = z
        PROVE  \E w \in DOMAIN verifications' : /\ verifications'[w].user = z
                                                /\ verifications'[w].status = "pending"
    <3>1. z \in User \ crossed
      BY <2>1
    <3>2. z # u
      <4>1. CASE \E q \in Request : At(q, "list")' /\ req'[q].user = z
        BY <2>1, <2>2, <4>1
      <4>2. CASE contributors'[z].status = "pending"
        BY <1>0, <2>1, <4>2
      <4> QED BY <2>4, <4>1, <4>2
    <3>3. contributors'[z] = contributors[z]
      BY <1>0, <2>1, <3>2
    <3>4. contributors[z].status = "pending" \/ \E q \in Request : At(q, "list") /\ req[q].user = z
      BY <2>2, <2>4, <3>3
    <3>5. PICK w \in DOMAIN verifications : /\ verifications[w].user = z
                                            /\ verifications[w].status = "pending"
      BY <3>1, <3>4 DEF PendingInv
    <3>6. w # v
      BY <3>2, <3>5
    <3> QED BY <2>3, <3>5, <3>6
  <2> QED BY <2>4 DEF PendingInv
<1>4. ASSUME NEW r \in Request, RequestDies(r) PROVE PendingInv'
  <2>1. /\ UNCHANGED <<verifications, contributors>> /\ req' = [req EXCEPT ![r] = IdleRequest]
        /\ crossed \subseteq crossed'
    BY <1>4 DEF RequestDies, Done
  <2>2. \A q \in Request : At(q, "list")' => At(q, "list") /\ req'[q] = req[q]
    BY <1>0, <2>1 DEF At, IdleRequest
  <2> QED BY <2>1, <2>2 DEF PendingInv
<1>5. ASSUME UNCHANGED <<verifications, contributors, crossed>>,
             \A q \in Request : At(q, "list")' => At(q, "list") /\ req'[q].user = req[q].user
      PROVE  PendingInv'
  BY <1>5 DEF PendingInv
<1>6. ASSUME NEW r \in Request, NEW u \in User, NEW n \in AdiNumber, SubmitStart(r, u, n)
      PROVE  PendingInv'
  BY <1>0, <1>5, <1>6 DEF SubmitStart, At
<1>7. ASSUME NEW r \in Request, NEW acceptable \in BOOLEAN, SubmitClaim(r, acceptable)
      PROVE  PendingInv'
  BY <1>0, <1>5, <1>7 DEF SubmitClaim, At, GoTo, Done, IdleRequest
<1>8. ASSUME NEW r \in Request, GrantRole(r) PROVE PendingInv'
  BY <1>0, <1>5, <1>8 DEF GrantRole, At, GoTo
<1>9. ASSUME NEW r \in Request, AwardBadge(r) PROVE PendingInv'
  BY <1>0, <1>5, <1>9 DEF AwardBadge, At, Done, IdleRequest
<1>10. CASE UNCHANGED verificationVars
  BY <1>5, <1>10 DEF verificationVars, At
<1> QED
  BY <1>1, <1>2, <1>3, <1>4, <1>6, <1>7, <1>8, <1>9, <1>10 DEF VerificationNext

\* Whatever is shown of an instructor, the badge or that one is applied for, an application
\* backs it: a decided one, or one an administrator will find, unless a decision fell
\* between the two writes of a submission.
THEOREM StandingAlwaysBacked == VerificationSpec => []StandingIsBacked
<1>1. VerificationInit => PendingInv
  BY DEF VerificationInit, PendingInv, At, IdleRequest
<1>2. VerificationTyped /\ PendingInv => PendingIsQueued
  <2> SUFFICES ASSUME VerificationTyped, PendingInv, NEW u \in User \ crossed,
                      contributors[u].status = "pending"
               PROVE  Rows({u}, AdiNumber, {"pending"}) # {}
    BY DEF PendingIsQueued
  <2>1. PICK v \in DOMAIN verifications : /\ verifications[v].user = u
                                          /\ verifications[v].status = "pending"
    BY DEF PendingInv
  <2>2. verifications[v].number \in AdiNumber
    BY RowsTyped DEF VerificationTyped, VerificationTypeOK, Row
  <2> QED BY <2>1, <2>2 DEF Rows
<1>3. BadgeIsBacked /\ PendingIsQueued => StandingIsBacked
  BY DEF StandingIsBacked
<1> QED
  BY <1>1, <1>2, <1>3, VerificationStarts, VerificationTypeStep, PendingStep, BadgeAlwaysBacked, PTL
     DEF VerificationSpec

-----------------------------------------------------------------------------
(* The community: what calls know, and what has become of each approval. *)

CallTyped(m) ==
    /\ calls[m].at \in {"idle", "stats", "standing", "write", "badges", "boost"}
    /\ ~Stat(m, "idle") => calls[m].user \in Contributor
    /\ calls[m].at \in {"standing", "write", "badges"} =>
          /\ calls[m].stats.published \in Nat /\ calls[m].stats.average \in Nat
          /\ Fulfilled(calls[m].stats) \subseteq reached[calls[m].user]
    /\ Stat(m, "stats") => Fulfilled(Stats(Published(calls[m].user))) \subseteq reached[calls[m].user]

CommunityTyped ==
    /\ CommunityTypeOK /\ calls = [m \in Moderator |-> calls[m]]
    /\ \A m \in Moderator : CallTyped(m)
    /\ BadgesWereEarned

\* Approvals whose credits are still to come.
Unpaid(u) == {m \in About(u) : calls[m].at \in {"stats", "standing", "write"}}

\* The row of a contributor says what the routes and the standing are.
RowSays(u, verified) ==
    LET s == Stats(Published(u)) IN counted[u] = s.published /\ reputation[u] = Reputation(s, verified)

\* What the one call about a contributor has found, or has yet to do.
Knows(m) ==
    LET u == calls[m].user
        s == Stats(Published(u))
    IN  /\ calls[m].at \in {"standing", "write"} => calls[m].stats = s
        /\ Stat(m, "write") => calls[m].verified = (u \in standing)
        /\ Stat(m, "badges") => RowSays(u, u \in standing)
        /\ Stat(m, "boost") => u \in standing /\ RowSays(u, FALSE)

RowInv ==
    \A u \in Contributor \ stale :
        /\ About(u) = {} => RowSays(u, u \in standing)
        /\ \A m \in About(u) : Knows(m) /\ About(u) = {m}

\* A board, between rebuilds and in one.
Standing(b) ==
    /\ {row.user : row \in boards[b]} = listed[b]
    /\ {row.rank : row \in boards[b]} = 1 .. Cardinality(boards[b])
    /\ \A row, other \in boards[b] : row.rank < other.rank => row.score >= other.score

BoardInv ==
    ~disordered => \A b \in Board :
        /\ Rebuilding(b) = {} => Standing(b)
        /\ \A i \in Rebuilding(b) : Rebuilding(b) = {i} /\ boards[b] = {}

CommunityInv == CommunityTyped /\ CreditsAdd /\ RowInv /\ BoardInv

\* What the routes table says is a number, whatever routes there are.
LEMMA QualityAdds ==
    ASSUME NEW S \in SUBSET Route
    PROVE  MapThenSumSet(LAMBDA r : Quality[r], S) \in Nat
<1>1. IsFiniteSet(S) /\ \A r \in S : Quality[r] \in Nat
  BY FS_Subset, CommunityAssumption
<1>2. MapThenSumSet(LAMBDA r : Quality[r], S) = (CHOOSE q : q = Adding(Quality, S, q))[S]
  BY DEF MapThenSumSet, MapThenFoldSet, Adding, Added, Picked
<1>3. PICK q : q = (CHOOSE p : p = Adding(Quality, S, p))
  OBVIOUS
<1>4. q = Adding(Quality, S, q)
  BY <1>1, <1>3, SumExists
<1>5. q[S] \in Nat
  BY <1>1, <1>4, SumTyped
<1> QED BY <1>2, <1>3, <1>5

LEMMA StatsTyped ==
    ASSUME NEW S \in SUBSET Route
    PROVE  Stats(S).published \in Nat /\ Stats(S).average \in Nat
<1>1. IsFiniteSet(S) /\ Cardinality(S) \in Nat /\ (Cardinality(S) = 0 <=> S = {})
  BY FS_Subset, FS_CardinalityType, FS_EmptySet, CommunityAssumption
<1>2. ASSUME S # {} PROVE Average(S) \in Nat
  <2> PICK n, sum : n = Cardinality(S) /\ sum = MapThenSumSet(LAMBDA r : Quality[r], S)
    OBVIOUS
  <2>1. n \in Nat /\ n > 0 /\ sum \in Nat
    <3>1. MapThenSumSet(LAMBDA r : Quality[r], S) \in Nat
      BY QualityAdds
    <3> QED BY <1>1, <1>2, <3>1
  <2>2. (2 * sum + n) \div (2 * n) \in Nat
    <3>1. 2 * sum + n \in Nat /\ 2 * n \in Nat /\ 2 * n > 0
      BY <2>1
    <3> PICK a, b : a = 2 * sum + n /\ b = 2 * n
      OBVIOUS
    <3>2. a \div b \in Nat
      BY <3>1
    <3> QED BY <3>2
  <2> QED BY <2>2 DEF Average
<1> QED BY <1>1, <1>2 DEF Stats

LEMMA PublishedTyped == CommunityTypeOK => \A u : Published(u) \in SUBSET Route
  BY DEF CommunityTypeOK, Published

LEMMA AwardTyped ==
    ASSUME NEW s, s.published \in Nat, s.average \in Nat, NEW v
    PROVE  Reputation(s, v) \in Nat
<1>1. Boost \in Nat
  BY CommunityAssumption
<1> QED BY <1>1 DEF Reputation

LEMMA CreditsForTyped ==
    ASSUME NEW s
    PROVE  CreditsFor(s) \in Nat /\ CreditsFor(s) \in PerRoute .. PerRoute + HighBonus
<1>1. PerRoute \in Nat /\ HighBonus \in Nat
  BY CommunityAssumption
<1> QED BY <1>1 DEF CreditsFor

\* One call moves.
LEMMA CallMoves ==
    ASSUME CommunityTyped, NEW m \in Moderator, NEW c, calls' = [calls EXCEPT ![m] = c]
    PROVE  /\ \A n \in Moderator : calls'[n] = IF n = m THEN c ELSE calls[n]
           /\ calls' = [n \in Moderator |-> calls'[n]] /\ DOMAIN calls' = Moderator
           /\ \A u : /\ m \in About(u)' <=> c.at # "idle" /\ c.user = u
                     /\ About(u)' \ {m} = About(u) \ {m}
                     /\ m \in Unpaid(u)' <=> c.at \in {"stats", "standing", "write"} /\ c.user = u
                     /\ Unpaid(u)' \ {m} = Unpaid(u) \ {m}
<1>1. DOMAIN calls = Moderator
  BY DEF CommunityTyped, CommunityTypeOK
<1>2. /\ \A n \in Moderator : calls'[n] = IF n = m THEN c ELSE calls[n]
      /\ calls' = [n \in Moderator |-> calls'[n]] /\ DOMAIN calls' = Moderator
  BY <1>1
<1>3. ASSUME NEW u
      PROVE  /\ m \in About(u)' <=> c.at # "idle" /\ c.user = u
             /\ About(u)' \ {m} = About(u) \ {m}
  BY <1>2 DEF About
<1>4. ASSUME NEW u
      PROVE  /\ m \in Unpaid(u)' <=> c.at \in {"stats", "standing", "write"} /\ c.user = u
             /\ Unpaid(u)' \ {m} = Unpaid(u) \ {m}
  BY <1>2 DEF Unpaid, About
<1> QED BY <1>2, <1>3, <1>4

LEMMA OthersTyped ==
    ASSUME CommunityTyped, NEW n \in Moderator, calls'[n] = calls[n], UNCHANGED <<public, owner>>,
           \A u \in Contributor : reached[u] \subseteq reached'[u]
    PROVE  CallTyped(n)'
<1>1. CallTyped(n) /\ \A u : Published(u)' = Published(u)
  BY DEF CommunityTyped, Published
<1> QED BY <1>1 DEF CallTyped, Stat

LEMMA ApproveTyped ==
    ASSUME CommunityTyped, NEW m \in Moderator, NEW r \in Route, Approve(m, r)
    PROVE  CommunityTyped'
<1> PICK u, c, S : /\ u = owner[r] /\ c = [at |-> "stats", user |-> u]
                   /\ S = {s \in public \cup {r} : owner[s] = u}
  OBVIOUS
<1>1. /\ u \in Contributor /\ public' = public \cup {r} /\ UNCHANGED owner
      /\ calls' = [calls EXCEPT ![m] = c] /\ reached' = [reached EXCEPT ![u] = @ \cup Fulfilled(Stats(S))]
  BY DEF Approve, CommunityTyped, CommunityTypeOK
<1>2. /\ \A n \in Moderator : calls'[n] = IF n = m THEN c ELSE calls[n]
      /\ calls' = [n \in Moderator |-> calls'[n]] /\ DOMAIN calls' = Moderator
  BY <1>1, CallMoves
<1>3. /\ \A v \in Contributor : reached'[v] = IF v = u THEN reached[v] \cup Fulfilled(Stats(S)) ELSE reached[v]
      /\ reached' \in [Contributor -> SUBSET Badge]
  BY <1>1 DEF CommunityTyped, CommunityTypeOK, Fulfilled
<1>4. CommunityTypeOK'
  <2>1. approvals' \in [Contributor -> Nat]
    BY <1>1 DEF Approve, CommunityTyped, CommunityTypeOK
  <2>2. stale' \subseteq Contributor
    BY <1>1 DEF Approve, CommunityTyped, CommunityTypeOK, Begun
  <2> QED BY <1>1, <1>2, <1>3, <2>1, <2>2 DEF Approve, CommunityTyped, CommunityTypeOK, boardVars
<1>5. ASSUME NEW n \in Moderator PROVE CallTyped(n)'
  <2>1. Published(u)' = S /\ \A v : v # u => Published(v)' = Published(v)
    BY <1>1 DEF Published
  <2>2. CallTyped(n)
    BY DEF CommunityTyped
  <2>3. CASE n = m
    BY <1>1, <1>2, <1>3, <2>1, <2>3 DEF CallTyped, Stat
  <2>4. CASE n # m
    <3>1. calls'[n] = calls[n]
      BY <1>2, <2>4
    <3>2. ASSUME Stat(n, "stats")'
          PROVE  Fulfilled(Stats(Published(calls[n].user)))' \subseteq reached'[calls[n].user]
      <4>1. Stat(n, "stats") /\ calls[n].user \in Contributor
        BY <2>2, <3>1, <3>2 DEF CallTyped, Stat
      <4>2. CASE calls[n].user = u
        BY <1>1, <1>3, <2>1, <4>2
      <4>3. CASE calls[n].user # u
        BY <1>3, <2>1, <2>2, <3>1, <4>1, <4>3 DEF CallTyped
      <4> QED BY <4>2, <4>3
    <3>3. \A v \in Contributor : reached[v] \subseteq reached'[v]
      BY <1>3
    <3> QED BY <2>2, <3>1, <3>2, <3>3 DEF CallTyped, Stat
  <2> QED BY <2>3, <2>4
<1>6. BadgesWereEarned'
  BY <1>3 DEF Approve, CommunityTyped, BadgesWereEarned
<1> QED BY <1>2, <1>4, <1>5, <1>6 DEF CommunityTyped

LEMMA UnpublishTyped ==
    ASSUME CommunityTyped, NEW r \in Route, Unpublish(r)
    PROVE  CommunityTyped'
<1> PICK u, S : u = owner[r] /\ S = Published(u) \ {r}
  OBVIOUS
<1>1. /\ u \in Contributor /\ public' = public \ {r} /\ UNCHANGED <<owner, calls>>
      /\ reached' = [reached EXCEPT ![u] = @ \cup Fulfilled(Stats(S))]
  BY DEF Unpublish, CommunityTyped, CommunityTypeOK
<1>3. /\ \A v \in Contributor : reached'[v] = IF v = u THEN reached[v] \cup Fulfilled(Stats(S)) ELSE reached[v]
      /\ reached' \in [Contributor -> SUBSET Badge]
  BY <1>1 DEF CommunityTyped, CommunityTypeOK, Fulfilled
<1>4. CommunityTypeOK'
  BY <1>1, <1>3 DEF Unpublish, CommunityTyped, CommunityTypeOK, boardVars
<1>5. ASSUME NEW n \in Moderator PROVE CallTyped(n)'
  <2>1. Published(u)' = S /\ \A v : v # u => Published(v)' = Published(v)
    BY <1>1 DEF Published
  <2>2. CallTyped(n)
    BY DEF CommunityTyped
  <2>3. ASSUME Stat(n, "stats")'
        PROVE  Fulfilled(Stats(Published(calls[n].user)))' \subseteq reached'[calls[n].user]
    <3>1. Stat(n, "stats") /\ calls[n].user \in Contributor
      BY <1>1, <2>2, <2>3 DEF CallTyped, Stat
    <3>2. CASE calls[n].user = u
      BY <1>1, <1>3, <2>1, <3>2
    <3>3. CASE calls[n].user # u
      BY <1>1, <1>3, <2>1, <2>2, <3>1, <3>3 DEF CallTyped
    <3> QED BY <3>2, <3>3
  <2>4. \A v \in Contributor : reached[v] \subseteq reached'[v]
    BY <1>3
  <2> QED BY <1>1, <2>2, <2>3, <2>4 DEF CallTyped, Stat
<1>6. BadgesWereEarned'
  BY <1>3 DEF Unpublish, CommunityTyped, BadgesWereEarned
<1> QED BY <1>1, <1>4, <1>5, <1>6 DEF CommunityTyped

LEMMA ReadStatsTyped ==
    ASSUME CommunityTyped, NEW m \in Moderator, ReadStats(m)
    PROVE  CommunityTyped'
<1> PICK u, s : u = calls[m].user /\ s = Stats(Published(u))
  OBVIOUS
<1> PICK c : c = [at |-> "standing", user |-> u, stats |-> s]
  OBVIOUS
<1>1. calls' = [calls EXCEPT ![m] = c] /\ UNCHANGED <<communityTables, approvals, lost, reached, stale, boardVars>>
  BY DEF ReadStats
<1>2. /\ \A n \in Moderator : calls'[n] = IF n = m THEN c ELSE calls[n]
      /\ calls' = [n \in Moderator |-> calls'[n]] /\ DOMAIN calls' = Moderator
  BY <1>1, CallMoves
<1>3. CallTyped(m)'
  <2>1. u \in Contributor /\ Fulfilled(s) \subseteq reached[u]
    BY DEF CommunityTyped, CallTyped, ReadStats, Stat
  <2>2. s.published \in Nat /\ s.average \in Nat
    BY StatsTyped, PublishedTyped DEF CommunityTyped
  <2>3. calls'[m] = c /\ reached' = reached
    BY <1>1, <1>2
  <2> QED BY <2>1, <2>2, <2>3 DEF CallTyped, Stat
<1>4. ASSUME NEW n \in Moderator PROVE CallTyped(n)'
  BY <1>1, <1>2, <1>3, OthersTyped DEF communityTables
<1> QED BY <1>1, <1>2, <1>4 DEF CommunityTyped, CommunityTypeOK, BadgesWereEarned, communityTables, boardVars

LEMMA ReadStandingTyped ==
    ASSUME CommunityTyped, NEW m \in Moderator, ReadStanding(m)
    PROVE  CommunityTyped'
<1> PICK u, s : u = calls[m].user /\ s = calls[m].stats
  OBVIOUS
<1> PICK c : c = [at |-> "write", user |-> u, stats |-> s, verified |-> u \in standing]
  OBVIOUS
<1>1. calls' = [calls EXCEPT ![m] = c] /\ UNCHANGED <<communityTables, approvals, lost, reached, stale, boardVars>>
  BY DEF ReadStanding
<1>2. /\ \A n \in Moderator : calls'[n] = IF n = m THEN c ELSE calls[n]
      /\ calls' = [n \in Moderator |-> calls'[n]] /\ DOMAIN calls' = Moderator
  BY <1>1, CallMoves
<1>3. CallTyped(m)'
  <2>1. u \in Contributor /\ Fulfilled(s) \subseteq reached[u] /\ s.published \in Nat /\ s.average \in Nat
    BY DEF CommunityTyped, CallTyped, ReadStanding, Stat
  <2>3. calls'[m] = c /\ reached' = reached
    BY <1>1, <1>2
  <2> QED BY <2>1, <2>3 DEF CallTyped, Stat
<1>4. ASSUME NEW n \in Moderator PROVE CallTyped(n)'
  BY <1>1, <1>2, <1>3, OthersTyped DEF communityTables
<1> QED BY <1>1, <1>2, <1>4 DEF CommunityTyped, CommunityTypeOK, BadgesWereEarned, communityTables, boardVars

\* What a write of an award leaves in the row.
LEMMA AwardWrites ==
    ASSUME CommunityTyped, NEW m \in Moderator, WriteAward(m),
           NEW u, u = calls[m].user, NEW s, s = calls[m].stats
    PROVE  /\ u \in Contributor /\ s.published \in Nat /\ s.average \in Nat
           /\ Fulfilled(s) \subseteq reached[u]
           /\ \A v \in Contributor :
                 /\ credits'[v] = IF v = u THEN credits[v] + CreditsFor(s) ELSE credits[v]
                 /\ reputation'[v] = IF v = u THEN Reputation(s, calls[m].verified) ELSE reputation[v]
                 /\ counted'[v] = IF v = u THEN s.published ELSE counted[v]
           /\ credits' \in [Contributor -> Nat] /\ reputation' \in [Contributor -> Nat]
           /\ counted' \in [Contributor -> Nat]
<1>1. /\ u \in Contributor /\ s.published \in Nat /\ s.average \in Nat
      /\ Fulfilled(s) \subseteq reached[u]
  BY DEF CommunityTyped, CallTyped, WriteAward, Stat
<1>2. CreditsFor(s) \in Nat /\ Reputation(s, calls[m].verified) \in Nat
  BY <1>1, CreditsForTyped, AwardTyped
<1>3. credits[u] + CreditsFor(s) \in Nat
  BY <1>1, <1>2 DEF CommunityTyped, CommunityTypeOK
<1>4. /\ credits' = [credits EXCEPT ![u] = credits[u] + CreditsFor(s)]
      /\ reputation' = [reputation EXCEPT ![u] = Reputation(s, calls[m].verified)]
      /\ counted' = [counted EXCEPT ![u] = s.published]
  BY DEF WriteAward
<1> QED BY <1>1, <1>2, <1>3, <1>4 DEF CommunityTyped, CommunityTypeOK

LEMMA WriteAwardTyped ==
    ASSUME CommunityTyped, NEW m \in Moderator, WriteAward(m)
    PROVE  CommunityTyped'
<1> PICK u, s : u = calls[m].user /\ s = calls[m].stats
  OBVIOUS
<1> PICK c : c = [at |-> "badges", user |-> u, stats |-> s]
  OBVIOUS
<1>1. /\ calls' = [calls EXCEPT ![m] = c]
      /\ UNCHANGED <<owner, public, standing, awarded, approvals, lost, reached, stale, boardVars>>
  BY DEF WriteAward
<1>2. /\ \A n \in Moderator : calls'[n] = IF n = m THEN c ELSE calls[n]
      /\ calls' = [n \in Moderator |-> calls'[n]] /\ DOMAIN calls' = Moderator
  BY <1>1, CallMoves
<1>3. /\ u \in Contributor /\ s.published \in Nat /\ s.average \in Nat
      /\ Fulfilled(s) \subseteq reached[u]
      /\ credits' \in [Contributor -> Nat] /\ reputation' \in [Contributor -> Nat]
      /\ counted' \in [Contributor -> Nat]
  BY AwardWrites
<1>4. CallTyped(m)'
  <2>1. calls'[m] = c /\ reached' = reached
    BY <1>1, <1>2
  <2> QED BY <1>3, <2>1 DEF CallTyped, Stat
<1>5. ASSUME NEW n \in Moderator PROVE CallTyped(n)'
  BY <1>1, <1>2, <1>4, OthersTyped
<1> QED BY <1>1, <1>2, <1>3, <1>5 DEF CommunityTyped, CommunityTypeOK, BadgesWereEarned, boardVars

\* A call ends, or a boost begins: nothing is left that it found out.
LEMMA EndTypes ==
    ASSUME CommunityTyped, NEW m \in Moderator, NEW c, calls' = [calls EXCEPT ![m] = c],
           c = Idle \/ \E u \in Contributor : c = [at |-> "boost", user |-> u],
           UNCHANGED <<owner, public, reached>>
    PROVE  /\ \A n \in Moderator : CallTyped(n)'
           /\ calls' = [n \in Moderator |-> calls'[n]] /\ DOMAIN calls' = Moderator
<1>1. /\ \A n \in Moderator : calls'[n] = IF n = m THEN c ELSE calls[n]
      /\ calls' = [n \in Moderator |-> calls'[n]] /\ DOMAIN calls' = Moderator
  BY CallMoves
<1>2. CallTyped(m)'
  BY <1>1 DEF CallTyped, Stat, Idle
<1> QED BY <1>1, <1>2, OthersTyped

LEMMA AwardBadgesTyped ==
    ASSUME CommunityTyped, NEW m \in Moderator, AwardBadges(m)
    PROVE  CommunityTyped'
<1> PICK u, s : u = calls[m].user /\ s = calls[m].stats
  OBVIOUS
<1>1. u \in Contributor /\ Fulfilled(s) \subseteq reached[u]
  BY DEF CommunityTyped, CallTyped, AwardBadges, Stat
<1>2. awarded' \in [Contributor -> SUBSET Badge] /\ BadgesWereEarned'
  BY <1>1 DEF CommunityTyped, CommunityTypeOK, BadgesWereEarned, AwardBadges, Fulfilled
<1>3. /\ \A n \in Moderator : CallTyped(n)'
      /\ calls' = [n \in Moderator |-> calls'[n]] /\ DOMAIN calls' = Moderator
  BY EndTypes DEF AwardBadges
<1> QED BY <1>2, <1>3 DEF CommunityTyped, CommunityTypeOK, AwardBadges, boardVars

LEMMA VerifyTyped ==
    ASSUME CommunityTyped, NEW m \in Moderator, NEW u \in Contributor, Verify(m, u)
    PROVE  CommunityTyped'
<1>1. /\ \A n \in Moderator : CallTyped(n)'
      /\ calls' = [n \in Moderator |-> calls'[n]] /\ DOMAIN calls' = Moderator
  BY EndTypes DEF Verify
<1>2. stale' \subseteq Contributor
  BY DEF CommunityTyped, CommunityTypeOK, Verify, Begun
<1> QED BY <1>1, <1>2 DEF CommunityTyped, CommunityTypeOK, BadgesWereEarned, Verify, boardVars

LEMMA UnverifyTyped ==
    ASSUME CommunityTyped, NEW u \in Contributor, Unverify(u)
    PROVE  CommunityTyped'
<1>1. \A n \in Moderator : CallTyped(n)'
  BY OthersTyped DEF Unverify
<1> QED BY <1>1 DEF CommunityTyped, CommunityTypeOK, BadgesWereEarned, Unverify, boardVars

LEMMA BoostTyped ==
    ASSUME CommunityTyped, NEW m \in Moderator, BoostReputation(m)
    PROVE  /\ CommunityTyped' /\ calls[m].user \in Contributor
           /\ \A v \in Contributor : reputation'[v] = IF v = calls[m].user THEN reputation[v] + Boost
                                                      ELSE reputation[v]
<1> PICK u : u = calls[m].user
  OBVIOUS
<1>1. u \in Contributor /\ Boost \in Nat
  BY CommunityAssumption DEF CommunityTyped, CallTyped, BoostReputation, Stat
<1>2. reputation[u] \in Nat /\ reputation[u] + Boost \in Nat
  BY <1>1 DEF CommunityTyped, CommunityTypeOK
<1>3. reputation' = [reputation EXCEPT ![u] = reputation[u] + Boost]
  BY DEF BoostReputation
<1>4. /\ reputation' \in [Contributor -> Nat]
      /\ \A v \in Contributor : reputation'[v] = IF v = u THEN reputation[v] + Boost ELSE reputation[v]
  BY <1>1, <1>2, <1>3 DEF CommunityTyped, CommunityTypeOK
<1>5. /\ \A n \in Moderator : CallTyped(n)'
      /\ calls' = [n \in Moderator |-> calls'[n]] /\ DOMAIN calls' = Moderator
  BY EndTypes DEF BoostReputation
<1> QED BY <1>1, <1>4, <1>5 DEF CommunityTyped, CommunityTypeOK, BadgesWereEarned, BoostReputation, boardVars

LEMMA CallDiesTyped ==
    ASSUME CommunityTyped, NEW m \in Moderator, CallDiesAwarding(m)
    PROVE  /\ CommunityTyped' /\ calls[m].user \in Contributor
           /\ \A v \in Contributor : lost'[v] = IF v = calls[m].user /\ calls[m].at \in {"stats", "standing", "write"}
                                                THEN lost[v] + 1 ELSE lost[v]
<1> PICK u : u = calls[m].user
  OBVIOUS
<1>1. u \in Contributor /\ CallTyped(m)
  BY DEF CommunityTyped, CallTyped, CallDiesAwarding, Stat
<1>2. awarded' \in [Contributor -> SUBSET Badge] /\ BadgesWereEarned'
  <2>1. CASE Stat(m, "badges")
    <3>1. PICK B \in SUBSET Fulfilled(calls[m].stats) : awarded' = [awarded EXCEPT ![u] = @ \cup B]
      BY <2>1 DEF CallDiesAwarding
    <3>2. B \subseteq reached[u] /\ B \subseteq Badge
      BY <1>1, <2>1 DEF CallTyped, Stat, Fulfilled
    <3> QED BY <1>1, <3>1, <3>2 DEF CommunityTyped, CommunityTypeOK, BadgesWereEarned, CallDiesAwarding
  <2>2. CASE ~Stat(m, "badges")
    BY <2>2 DEF CommunityTyped, CommunityTypeOK, BadgesWereEarned, CallDiesAwarding
  <2> QED BY <2>1, <2>2
<1>3. /\ lost' \in [Contributor -> Nat]
      /\ \A v \in Contributor : lost'[v] = IF v = u /\ calls[m].at \in {"stats", "standing", "write"}
                                           THEN lost[v] + 1 ELSE lost[v]
  <2> PICK k : k = IF calls[m].at \in {"stats", "standing", "write"} THEN 1 ELSE 0
    OBVIOUS
  <2>1. lost' = [lost EXCEPT ![u] = lost[u] + k]
    BY DEF CallDiesAwarding
  <2>2. lost[u] \in Nat
    BY <1>1 DEF CommunityTyped, CommunityTypeOK
  <2>3. lost[u] + k \in Nat /\ (calls[m].at \notin {"stats", "standing", "write"} => lost[u] + k = lost[u])
    BY <2>2
  <2> QED BY <1>1, <2>1, <2>3 DEF CommunityTyped, CommunityTypeOK
<1>4. stale' \subseteq Contributor
  BY <1>1 DEF CommunityTyped, CommunityTypeOK, CallDiesAwarding
<1>5. /\ \A n \in Moderator : CallTyped(n)'
      /\ calls' = [n \in Moderator |-> calls'[n]] /\ DOMAIN calls' = Moderator
  BY EndTypes DEF CallDiesAwarding
<1> QED BY <1>1, <1>2, <1>3, <1>4, <1>5 DEF CommunityTyped, CommunityTypeOK, CallDiesAwarding, boardVars

(* The credits. *)

SeenThrough(u) == approvals[u] - lost[u] - Cardinality(Unpaid(u))
PaidFor(u) == credits[u] \in PerRoute * SeenThrough(u) .. (PerRoute + HighBonus) * SeenThrough(u)

LEMMA CreditsEach == CreditsAdd <=> \A u \in Contributor : PaidFor(u)
  BY DEF CreditsAdd, PaidFor, SeenThrough, Unpaid

LEMMA UnpaidCounts ==
    ASSUME CommunityTyped, NEW u \in Contributor
    PROVE  /\ IsFiniteSet(Unpaid(u)) /\ Cardinality(Unpaid(u)) \in Nat
           /\ SeenThrough(u) \in Int /\ approvals[u] \in Nat /\ lost[u] \in Nat /\ credits[u] \in Nat
<1>1. Unpaid(u) \subseteq Moderator
  BY DEF Unpaid, About
<1>2. IsFiniteSet(Unpaid(u)) /\ Cardinality(Unpaid(u)) \in Nat
  BY <1>1, FS_Subset, FS_CardinalityType, CommunityAssumption
<1>3. approvals[u] \in Nat /\ lost[u] \in Nat /\ credits[u] \in Nat
  BY DEF CommunityTyped, CommunityTypeOK
<1> QED BY <1>2, <1>3 DEF SeenThrough

\* One call more or less that is still to be paid for.
LEMMA UnpaidMoves ==
    ASSUME CommunityTyped, NEW m \in Moderator, NEW c, calls' = [calls EXCEPT ![m] = c],
           NEW u \in Contributor
    PROVE  /\ m \in Unpaid(u) /\ m \notin Unpaid(u)' => Cardinality(Unpaid(u)') = Cardinality(Unpaid(u)) - 1
           /\ m \notin Unpaid(u) /\ m \in Unpaid(u)' => Cardinality(Unpaid(u)') = Cardinality(Unpaid(u)) + 1
           /\ (m \in Unpaid(u) <=> m \in Unpaid(u)') => Unpaid(u)' = Unpaid(u)
<1> PICK a, b : a = Unpaid(u) /\ b = Unpaid(u)'
  OBVIOUS
<1>1. b \ {m} = a \ {m}
  BY CallMoves
<1>2. IsFiniteSet(a) /\ Cardinality(a) \in Nat
  BY UnpaidCounts
<1>3. CASE m \in a /\ m \notin b
  <2>1. b = a \ {m}
    BY <1>1, <1>3
  <2>2. Cardinality(a \ {m}) = Cardinality(a) - 1 /\ IsFiniteSet(a \ {m})
    BY <1>1, <1>2, <1>3, FS_RemoveElement
  <2>3. Cardinality(a \ {m}) \in Nat
    BY <2>2, FS_CardinalityType
  <2> QED BY <1>3, <2>1, <2>2, <2>3
<1>4. CASE m \notin a /\ m \in b
  <2>1. b = a \cup {m}
    BY <1>1, <1>4
  <2>2. Cardinality(a \cup {m}) = Cardinality(a) + 1
    BY <1>1, <1>2, <1>4, FS_AddElement
  <2> QED BY <1>2, <1>4, <2>1, <2>2
<1>5. CASE m \in a <=> m \in b
  <2>1. a = b
    BY <1>1, <1>5
  <2> QED BY <1>2, <1>5, <2>1
<1> QED BY <1>3, <1>4, <1>5

LEMMA PaidStays ==
    ASSUME NEW u, PaidFor(u), credits'[u] = credits[u], SeenThrough(u)' = SeenThrough(u)
    PROVE  PaidFor(u)'
  BY DEF PaidFor

\* A call that is not to be paid for, before and after, changes no account.
LEMMA CreditsStay ==
    ASSUME CommunityTyped, CreditsAdd, NEW m \in Moderator, NEW c, calls' = [calls EXCEPT ![m] = c],
           \A u \in Contributor : m \in Unpaid(u) <=> m \in Unpaid(u)',
           UNCHANGED <<credits, approvals, lost>>
    PROVE  CreditsAdd'
<1> SUFFICES ASSUME NEW u \in Contributor PROVE PaidFor(u)'
  BY DEF CreditsAdd, PaidFor, SeenThrough, Unpaid
<1>1. Unpaid(u)' = Unpaid(u)
  BY UnpaidMoves
<1>2. SeenThrough(u)' = SeenThrough(u)
  BY <1>1 DEF SeenThrough
<1> QED BY <1>2, CreditsEach, PaidStays

LEMMA OneMorePaid ==
    ASSUME NEW p \in Nat, NEW h \in Nat, NEW s \in Int, NEW x \in Int, NEW y \in Int,
           x \in p * s .. (p + h) * s, y \in p .. p + h
    PROVE  x + y \in p * (s + 1) .. (p + h) * (s + 1)
<1>1. p * (s + 1) = p * s + p
  BY SumTimes
<1>2. (p + h) * (s + 1) = (p + h) * s + (p + h)
  BY SumTimes
<1>3. p * s \in Int /\ (p + h) * s \in Int
  OBVIOUS
<1> QED BY <1>1, <1>2, <1>3

LEMMA ApproveCredits ==
    ASSUME CommunityTyped, CreditsAdd, NEW m \in Moderator, NEW r \in Route, Approve(m, r)
    PROVE  CreditsAdd'
<1> PICK u, c : u = owner[r] /\ c = [at |-> "stats", user |-> u]
  OBVIOUS
<1>1. /\ u \in Contributor /\ calls' = [calls EXCEPT ![m] = c] /\ UNCHANGED <<credits, lost>>
      /\ approvals' = [approvals EXCEPT ![u] = @ + 1] /\ calls[m].at = "idle"
  BY DEF Approve, CommunityTyped, CommunityTypeOK, Stat
<1> SUFFICES ASSUME NEW v \in Contributor PROVE PaidFor(v)'
  BY DEF CreditsAdd, PaidFor, SeenThrough, Unpaid
<1>2. m \notin Unpaid(v) /\ (m \in Unpaid(v)' <=> v = u)
  <2>1. m \notin Unpaid(v)
    BY <1>1 DEF Unpaid, About
  <2>2. m \in Unpaid(v)' <=> c.at \in {"stats", "standing", "write"} /\ c.user = v
    BY <1>1, CallMoves
  <2> QED BY <2>1, <2>2
<1>3. approvals'[v] = IF v = u THEN approvals[v] + 1 ELSE approvals[v]
  BY <1>1 DEF CommunityTyped, CommunityTypeOK
<1>4. approvals[v] \in Nat /\ lost[v] \in Nat /\ Cardinality(Unpaid(v)) \in Nat
  BY UnpaidCounts
<1>5. SeenThrough(v)' = SeenThrough(v)
  <2>1. CASE v = u
    <3>1. Cardinality(Unpaid(v)') = Cardinality(Unpaid(v)) + 1
      BY <1>1, <1>2, <2>1, UnpaidMoves
    <3> QED BY <1>1, <1>3, <1>4, <2>1, <3>1 DEF SeenThrough
  <2>2. CASE v # u
    <3>1. Unpaid(v)' = Unpaid(v)
      BY <1>1, <1>2, <2>2, UnpaidMoves
    <3> QED BY <1>1, <1>3, <2>2, <3>1 DEF SeenThrough
  <2> QED BY <2>1, <2>2
<1> QED BY <1>1, <1>5, CreditsEach, PaidStays

LEMMA WriteAwardCredits ==
    ASSUME CommunityTyped, CreditsAdd, NEW m \in Moderator, WriteAward(m)
    PROVE  CreditsAdd'
<1> PICK u, s : u = calls[m].user /\ s = calls[m].stats
  OBVIOUS
<1> PICK c : c = [at |-> "badges", user |-> u, stats |-> s]
  OBVIOUS
<1>1. /\ calls' = [calls EXCEPT ![m] = c] /\ UNCHANGED <<approvals, lost>> /\ calls[m].at = "write"
  BY DEF WriteAward, Stat
<1>2. /\ u \in Contributor
      /\ \A v \in Contributor : credits'[v] = IF v = u THEN credits[v] + CreditsFor(s) ELSE credits[v]
  BY AwardWrites
<1> SUFFICES ASSUME NEW v \in Contributor PROVE PaidFor(v)'
  BY DEF CreditsAdd, PaidFor, SeenThrough, Unpaid
<1>3. (m \in Unpaid(v) <=> v = u) /\ m \notin Unpaid(v)'
  BY <1>1, CallMoves DEF Unpaid, About
<1>4. /\ approvals[v] \in Nat /\ lost[v] \in Nat /\ Cardinality(Unpaid(v)) \in Nat
      /\ SeenThrough(v) \in Int /\ credits[v] \in Nat
  BY UnpaidCounts
<1>5. PaidFor(v)
  BY CreditsEach
<1>6. CASE v = u
  <2>1. Cardinality(Unpaid(v)') = Cardinality(Unpaid(v)) - 1
    BY <1>1, <1>3, <1>6, UnpaidMoves
  <2>2. SeenThrough(v)' = SeenThrough(v) + 1
    BY <1>1, <1>4, <2>1 DEF SeenThrough
  <2> PICK x, y, t : x = credits[v] /\ y = CreditsFor(s) /\ t = SeenThrough(v)
    OBVIOUS
  <2>3. x \in Int /\ y \in Int /\ t \in Int /\ y \in PerRoute .. PerRoute + HighBonus
        /\ PerRoute \in Nat /\ HighBonus \in Nat
    BY <1>4, CreditsForTyped, CommunityAssumption
  <2>4. x \in PerRoute * t .. (PerRoute + HighBonus) * t
    BY <1>5 DEF PaidFor
  <2>5. x + y \in PerRoute * (t + 1) .. (PerRoute + HighBonus) * (t + 1)
    BY <2>3, <2>4, OneMorePaid
  <2>6. credits'[v] = x + y
    BY <1>2, <1>6
  <2> QED BY <2>2, <2>5, <2>6 DEF PaidFor
<1>7. CASE v # u
  <2>1. Unpaid(v)' = Unpaid(v)
    BY <1>1, <1>3, <1>7, UnpaidMoves
  <2>2. SeenThrough(v)' = SeenThrough(v)
    BY <1>1, <2>1 DEF SeenThrough
  <2> QED BY <1>2, <1>5, <1>7, <2>2, PaidStays
<1> QED BY <1>6, <1>7

LEMMA CallDiesCredits ==
    ASSUME CommunityTyped, CreditsAdd, NEW m \in Moderator, CallDiesAwarding(m)
    PROVE  CreditsAdd'
<1> PICK u, open : u = calls[m].user /\ open = (calls[m].at \in {"stats", "standing", "write"})
  OBVIOUS
<1>1. calls' = [calls EXCEPT ![m] = Idle] /\ UNCHANGED <<approvals, credits>> /\ calls[m].at # "idle"
  BY DEF CallDiesAwarding, Stat
<1>2. /\ u \in Contributor
      /\ \A v \in Contributor : lost'[v] = IF v = u /\ open THEN lost[v] + 1 ELSE lost[v]
  BY CallDiesTyped
<1> SUFFICES ASSUME NEW v \in Contributor PROVE PaidFor(v)'
  BY DEF CreditsAdd, PaidFor, SeenThrough, Unpaid
<1>3. (m \in Unpaid(v) <=> v = u /\ open) /\ m \notin Unpaid(v)'
  <2>1. Idle.at \notin {"stats", "standing", "write"}
    BY DEF Idle
  <2> QED BY <1>1, <2>1, CallMoves DEF Unpaid, About
<1>4. approvals[v] \in Nat /\ lost[v] \in Nat /\ Cardinality(Unpaid(v)) \in Nat
  BY UnpaidCounts
<1>5. SeenThrough(v)' = SeenThrough(v)
  <2>1. CASE v = u /\ open
    <3>1. Cardinality(Unpaid(v)') = Cardinality(Unpaid(v)) - 1
      BY <1>1, <1>3, <2>1, UnpaidMoves
    <3> QED BY <1>1, <1>2, <1>4, <2>1, <3>1 DEF SeenThrough
  <2>2. CASE ~(v = u /\ open)
    <3>1. Unpaid(v)' = Unpaid(v)
      BY <1>1, <1>3, <2>2, UnpaidMoves
    <3> QED BY <1>1, <1>2, <2>2, <3>1 DEF SeenThrough
  <2> QED BY <2>1, <2>2
<1> QED BY <1>1, <1>5, CreditsEach, PaidStays

LEMMA OtherCredits ==
    ASSUME CommunityTyped, CreditsAdd, NEW m \in Moderator,
           \/ ReadStats(m) \/ ReadStanding(m) \/ AwardBadges(m) \/ BoostReputation(m)
           \/ \E u \in Contributor : Verify(m, u)
    PROVE  CreditsAdd'
<1> DEFINE Goes(c) == /\ calls' = [calls EXCEPT ![m] = c]
                      /\ \/ /\ calls[m].at \in {"stats", "standing"} /\ c.at \in {"standing", "write"}
                            /\ c.user = calls[m].user
                         \/ calls[m].at \in {"idle", "badges", "boost"} /\ c.at \in {"idle", "boost"}
<1>1. PICK c : Goes(c)
  <2>1. CASE ReadStats(m)
    <3> PICK c : c = [at |-> "standing", user |-> calls[m].user, stats |-> Stats(Published(calls[m].user))]
      OBVIOUS
    <3>1. Goes(c)
      BY <2>1 DEF ReadStats, Stat
    <3> QED BY <3>1
  <2>2. CASE ReadStanding(m)
    <3> PICK c : c = [at |-> "write", user |-> calls[m].user, stats |-> calls[m].stats,
                      verified |-> calls[m].user \in standing]
      OBVIOUS
    <3>1. Goes(c)
      BY <2>2 DEF ReadStanding, Stat
    <3> QED BY <3>1
  <2>3. CASE AwardBadges(m) \/ BoostReputation(m)
    <3>1. Goes(Idle)
      BY <2>3 DEF AwardBadges, BoostReputation, Stat, Idle
    <3> QED BY <3>1
  <2>4. ASSUME NEW u \in Contributor, Verify(m, u) PROVE \E c : Goes(c)
    <3>1. Goes([at |-> "boost", user |-> u])
      BY <2>4 DEF Verify, Stat
    <3> QED BY <3>1
  <2> QED BY <2>1, <2>2, <2>3, <2>4
<1>2. UNCHANGED <<credits, approvals, lost>>
  BY DEF ReadStats, ReadStanding, AwardBadges, BoostReputation, Verify, communityTables
<1>3. ASSUME NEW u \in Contributor PROVE m \in Unpaid(u) <=> m \in Unpaid(u)'
  BY <1>1, CallMoves DEF Unpaid, About
<1> QED BY <1>1, <1>2, <1>3, CreditsStay

-----------------------------------------------------------------------------
(* The rows of contributors. *)

RowOf(u) == /\ About(u) = {} => RowSays(u, u \in standing)
            /\ \A m \in About(u) : Knows(m) /\ About(u) = {m}

LEMMA RowsEach == RowInv <=> \A u \in Contributor \ stale : RowOf(u)
  BY DEF RowInv, RowOf

\* Nothing about a contributor moves.
LEMMA RowElse ==
    ASSUME NEW u, RowOf(u), About(u)' = About(u), \A n \in About(u) : calls'[n] = calls[n],
           Published(u)' = Published(u), (u \in standing)' <=> u \in standing,
           counted'[u] = counted[u], reputation'[u] = reputation[u]
    PROVE  RowOf(u)'
<1>1. \A v : RowSays(u, v)' <=> RowSays(u, v)
  BY DEF RowSays
<1>2. ASSUME NEW n \in About(u) PROVE Knows(n)'
  <2>1. Knows(n) /\ calls[n].user = u /\ calls'[n] = calls[n]
    BY <1>2 DEF RowOf, About
  <2>2. \A v : RowSays(u, v)' <=> RowSays(u, v)
    BY DEF RowSays
  <2>3. calls'[n].at \in {"standing", "write"} => calls'[n].stats = Stats(Published(u))'
    BY <2>1 DEF Knows
  <2>4. Stat(n, "write")' => calls'[n].verified = (u \in standing')
    BY <2>1 DEF Knows, Stat
  <2>5. Stat(n, "badges")' => RowSays(u, u \in standing)'
    BY <2>1 DEF Knows, Stat, RowSays
  <2>6. Stat(n, "boost")' => u \in standing' /\ RowSays(u, FALSE)'
    BY <2>1 DEF Knows, Stat, RowSays
  <2> QED BY <2>1, <2>3, <2>4, <2>5, <2>6 DEF Knows, RowSays
<1>3. About(u) = {} => RowSays(u, u \in standing)'
  BY DEF RowOf, RowSays
<1> QED BY <1>2, <1>3 DEF RowOf

\* A call moves, which is not about the contributor.
LEMMA RowApart ==
    ASSUME CommunityTyped, NEW m \in Moderator, NEW c, calls' = [calls EXCEPT ![m] = c],
           NEW u, RowOf(u), calls[m].at = "idle" \/ calls[m].user # u, c.at = "idle" \/ c.user # u,
           Published(u)' = Published(u), (u \in standing)' <=> u \in standing,
           counted'[u] = counted[u], reputation'[u] = reputation[u]
    PROVE  RowOf(u)'
<1>1. /\ m \notin About(u) /\ About(u)' = About(u)
      /\ \A n \in About(u) : calls'[n] = calls[n]
  <2>1. m \notin About(u) /\ m \notin About(u)' /\ About(u)' \ {m} = About(u) \ {m}
    BY CallMoves DEF About
  <2>2. \A n \in Moderator : calls'[n] = IF n = m THEN c ELSE calls[n]
    BY CallMoves
  <2>3. About(u) \subseteq Moderator
    BY DEF About
  <2> QED BY <2>1, <2>2, <2>3
<1> QED BY <1>1, RowElse

\* The one call about a contributor.
LEMMA RowAlone ==
    ASSUME CommunityTyped, RowInv, NEW m \in Moderator, NEW u, u = calls[m].user, ~Stat(m, "idle"),
           u \notin stale
    PROVE  u \in Contributor /\ About(u) = {m} /\ Knows(m)
<1>1. u \in Contributor
  BY DEF CommunityTyped, CallTyped
<1>2. m \in About(u)
  BY DEF About, Stat
<1> QED BY <1>1, <1>2 DEF RowInv

LEMMA RowMoves ==
    ASSUME CommunityTyped, NEW m \in Moderator, NEW c, calls' = [calls EXCEPT ![m] = c],
           NEW u, About(u) \subseteq {m}
    PROVE  /\ calls'[m] = c
           /\ About(u)' = IF c.at # "idle" /\ c.user = u THEN {m} ELSE {}
<1>1. /\ calls'[m] = c /\ (m \in About(u)' <=> c.at # "idle" /\ c.user = u)
      /\ About(u)' \ {m} = About(u) \ {m}
  BY CallMoves
<1>2. About(u)' \subseteq {m}
  BY <1>1
<1> QED BY <1>1, <1>2

LEMMA ApproveRow ==
    ASSUME CommunityTyped, RowInv, NEW m \in Moderator, NEW r \in Route, Approve(m, r)
    PROVE  RowInv'
<1> PICK u, c : u = owner[r] /\ c = [at |-> "stats", user |-> u]
  OBVIOUS
<1>1. /\ calls' = [calls EXCEPT ![m] = c] /\ calls[m].at = "idle" /\ public' = public \cup {r}
      /\ UNCHANGED <<owner, standing, counted, reputation>> /\ stale' = Begun(u, TRUE)
  BY DEF Approve, Stat
<1> SUFFICES ASSUME NEW v \in Contributor, v \notin stale' PROVE RowOf(v)'
  BY DEF RowInv, RowOf
<1>2. CASE v # u
  <2>1. v \notin stale
    BY <1>1, <1>2 DEF Begun
  <2>2. Published(v)' = Published(v)
    BY <1>1, <1>2 DEF Published
  <2>3. RowOf(v)
    BY <2>1, RowsEach
  <2>4. c.user # v /\ calls[m].at = "idle" /\ counted'[v] = counted[v] /\ reputation'[v] = reputation[v]
        /\ ((v \in standing') <=> v \in standing)
    BY <1>1, <1>2
  <2> QED BY <1>1, <2>2, <2>3, <2>4, RowApart
<1>3. CASE v = u
  <2>1. About(u) = {}
    BY <1>1, <1>3 DEF Begun
  <2>2. calls'[m] = c /\ About(u)' = {m}
    BY <1>1, <2>1, RowMoves
  <2>3. Knows(m)'
    BY <2>2 DEF Knows, Stat
  <2> QED BY <1>3, <2>2, <2>3 DEF RowOf
<1> QED BY <1>2, <1>3

LEMMA UnpublishRow ==
    ASSUME CommunityTyped, RowInv, NEW r \in Route, Unpublish(r)
    PROVE  RowInv'
<1> SUFFICES ASSUME NEW v \in Contributor, v \notin stale' PROVE RowOf(v)'
  BY DEF RowInv, RowOf
<1>1. v \notin stale /\ v # owner[r] /\ UNCHANGED <<calls, standing, counted, reputation>>
  BY DEF Unpublish
<1>2. Published(v)' = Published(v) /\ About(v)' = About(v)
  BY <1>1 DEF Unpublish, Published, About
<1> QED BY <1>1, <1>2, RowsEach, RowElse

LEMMA UnverifyRow ==
    ASSUME CommunityTyped, RowInv, NEW u \in Contributor, Unverify(u)
    PROVE  RowInv'
<1> SUFFICES ASSUME NEW v \in Contributor, v \notin stale' PROVE RowOf(v)'
  BY DEF RowInv, RowOf
<1>1. v \notin stale /\ v # u /\ UNCHANGED <<calls, public, owner, counted, reputation>>
      /\ standing' = standing \ {u}
  BY DEF Unverify
<1>2. Published(v)' = Published(v) /\ About(v)' = About(v)
  BY <1>1 DEF Published, About
<1> QED BY <1>1, <1>2, RowsEach, RowElse

LEMMA ReadStatsRow ==
    ASSUME CommunityTyped, RowInv, NEW m \in Moderator, ReadStats(m)
    PROVE  RowInv'
<1> PICK u, s : u = calls[m].user /\ s = Stats(Published(u))
  OBVIOUS
<1> PICK c : c = [at |-> "standing", user |-> u, stats |-> s]
  OBVIOUS
<1>1. /\ calls' = [calls EXCEPT ![m] = c] /\ UNCHANGED <<owner, public, standing, counted, reputation, stale>>
      /\ calls[m].at = "stats"
  BY DEF ReadStats, communityTables, Stat
<1> SUFFICES ASSUME NEW v \in Contributor, v \notin stale' PROVE RowOf(v)'
  BY DEF RowInv, RowOf
<1>2. Published(v)' = Published(v) /\ v \notin stale
  BY <1>1 DEF Published
<1>3. CASE v # u
  <2>1. c.user # v /\ calls[m].user # v /\ counted'[v] = counted[v] /\ reputation'[v] = reputation[v]
        /\ ((v \in standing') <=> v \in standing)
    BY <1>1, <1>3
  <2>2. RowOf(v)
    BY <1>2, RowsEach
  <2> QED BY <1>1, <1>2, <2>1, <2>2, RowApart
<1>4. CASE v = u
  <2>1. About(u) = {m}
    BY <1>1, <1>2, <1>4, RowAlone DEF Stat
  <2>0. c.at = "standing" /\ c.user = u /\ c.stats = s
    OBVIOUS
  <2>2. calls'[m] = c /\ About(u)' = {m}
    <3>1. c.at # "idle" /\ c.user = u /\ About(u) \subseteq {m}
      BY <2>0, <2>1
    <3> QED BY <1>1, <3>1, RowMoves
  <2>3. Knows(m)'
    <3>1. calls'[m].at = "standing" /\ calls'[m].stats = s /\ calls'[m].user = u
      BY <2>0, <2>2
    <3>2. s = Stats(Published(u))'
      BY <1>2, <1>4
    <3> QED BY <3>1, <3>2 DEF Knows, Stat
  <2> QED BY <1>4, <2>2, <2>3 DEF RowOf
<1> QED BY <1>3, <1>4

LEMMA ReadStandingRow ==
    ASSUME CommunityTyped, RowInv, NEW m \in Moderator, ReadStanding(m)
    PROVE  RowInv'
<1> PICK u, s : u = calls[m].user /\ s = calls[m].stats
  OBVIOUS
<1> PICK c : c = [at |-> "write", user |-> u, stats |-> s, verified |-> u \in standing]
  OBVIOUS
<1>1. /\ calls' = [calls EXCEPT ![m] = c] /\ UNCHANGED <<owner, public, standing, counted, reputation, stale>>
      /\ calls[m].at = "standing"
  BY DEF ReadStanding, communityTables, Stat
<1> SUFFICES ASSUME NEW v \in Contributor, v \notin stale' PROVE RowOf(v)'
  BY DEF RowInv, RowOf
<1>2. Published(v)' = Published(v) /\ v \notin stale
  BY <1>1 DEF Published
<1>3. CASE v # u
  <2>1. c.user # v /\ calls[m].user # v /\ counted'[v] = counted[v] /\ reputation'[v] = reputation[v]
        /\ ((v \in standing') <=> v \in standing)
    BY <1>1, <1>3
  <2>2. RowOf(v)
    BY <1>2, RowsEach
  <2> QED BY <1>1, <1>2, <2>1, <2>2, RowApart
<1>4. CASE v = u
  <2>1. About(u) = {m} /\ Knows(m)
    BY <1>1, <1>2, <1>4, RowAlone DEF Stat
  <2>0. c.at = "write" /\ c.user = u /\ c.stats = s
    OBVIOUS
  <2>2. calls'[m] = c /\ About(u)' = {m}
    <3>1. c.at # "idle" /\ c.user = u /\ m \in About(u)
      BY <2>0, <2>1
    <3>2. calls' = [calls EXCEPT ![m] = c]
      BY <1>1
    <3>3. calls'[m] = c /\ (m \in About(u)' <=> c.at # "idle" /\ c.user = u)
          /\ About(u)' \ {m} = About(u) \ {m}
      BY <3>2, CallMoves
    <3> QED BY <2>1, <3>1, <3>3
  <2>3. s = Stats(Published(u))
    BY <1>1, <2>1 DEF Knows
  <2>4. Knows(m)'
    <3>1. /\ calls'[m].at = "write" /\ calls'[m].stats = s /\ calls'[m].user = u
          /\ calls'[m].verified = (u \in standing')
      <4>1. c.verified = (u \in standing)
        OBVIOUS
      <4> QED BY <1>1, <2>0, <2>2, <4>1
    <3>2. s = Stats(Published(u))'
      BY <1>2, <1>4, <2>3
    <3> QED BY <3>1, <3>2 DEF Knows, Stat
  <2> QED BY <1>4, <2>2, <2>4 DEF RowOf
<1> QED BY <1>3, <1>4

LEMMA WriteAwardRow ==
    ASSUME CommunityTyped, RowInv, NEW m \in Moderator, WriteAward(m)
    PROVE  RowInv'
<1> PICK u, s : u = calls[m].user /\ s = calls[m].stats
  OBVIOUS
<1> PICK c : c = [at |-> "badges", user |-> u, stats |-> s]
  OBVIOUS
<1>1. /\ calls' = [calls EXCEPT ![m] = c] /\ UNCHANGED <<owner, public, standing, stale>>
      /\ calls[m].at = "write"
  BY DEF WriteAward, Stat
<1>0. About(u) = {m} => calls'[m] = c /\ About(u)' = {m}
  <2> SUFFICES ASSUME About(u) = {m} PROVE calls'[m] = c /\ About(u)' = {m}
    OBVIOUS
  <2>1. c.at = "badges" /\ c.user = u
    OBVIOUS
  <2>2. calls'[m] = c /\ (m \in About(u)' <=> c.at # "idle" /\ c.user = u)
        /\ About(u)' \ {m} = About(u) \ {m}
    BY <1>1, CallMoves
  <2> QED BY <2>1, <2>2
<1>2. \A v \in Contributor :
         /\ reputation'[v] = IF v = u THEN Reputation(s, calls[m].verified) ELSE reputation[v]
         /\ counted'[v] = IF v = u THEN s.published ELSE counted[v]
  BY AwardWrites
<1> SUFFICES ASSUME NEW v \in Contributor, v \notin stale' PROVE RowOf(v)'
  BY DEF RowInv, RowOf
<1>3. Published(v)' = Published(v) /\ v \notin stale
  BY <1>1 DEF Published
<1>4. CASE v # u
  <2>1. c.user # v /\ calls[m].user # v /\ counted'[v] = counted[v] /\ reputation'[v] = reputation[v]
        /\ ((v \in standing') <=> v \in standing)
    BY <1>1, <1>2, <1>4
  <2>2. RowOf(v)
    BY <1>3, RowsEach
  <2> QED BY <1>1, <1>3, <2>1, <2>2, RowApart
<1>5. CASE v = u
  <2>1. About(u) = {m} /\ Knows(m)
    BY <1>1, <1>3, <1>5, RowAlone DEF Stat
  <2>0. c.at = "badges" /\ c.user = u /\ c.stats = s
    OBVIOUS
  <2>2. calls'[m] = c /\ About(u)' = {m}
    BY <1>0, <2>1
  <2>3. s = Stats(Published(u)) /\ calls[m].verified = (u \in standing)
    BY <1>1, <2>1 DEF Knows, Stat
  <2>4. counted'[u] = s.published /\ reputation'[u] = Reputation(s, u \in standing)
    BY <1>2, <1>5, <2>3
  <2>5. RowSays(u, u \in standing)'
    BY <1>1, <1>3, <1>5, <2>3, <2>4 DEF RowSays
  <2>6. Knows(m)'
    BY <2>2, <2>5 DEF Knows, Stat
  <2> QED BY <1>5, <2>2, <2>6 DEF RowOf
<1> QED BY <1>4, <1>5

LEMMA AwardBadgesRow ==
    ASSUME CommunityTyped, RowInv, NEW m \in Moderator,
           AwardBadges(m) \/ (CallDiesAwarding(m) /\ Stat(m, "badges"))
    PROVE  RowInv'
<1> PICK u : u = calls[m].user
  OBVIOUS
<1>1. /\ calls' = [calls EXCEPT ![m] = Idle] /\ UNCHANGED <<owner, public, standing, counted, reputation, stale>>
      /\ calls[m].at = "badges" /\ Idle.at = "idle"
  BY DEF AwardBadges, CallDiesAwarding, Stat, Idle
<1> SUFFICES ASSUME NEW v \in Contributor, v \notin stale' PROVE RowOf(v)'
  BY DEF RowInv, RowOf
<1>2. Published(v)' = Published(v) /\ v \notin stale
  BY <1>1 DEF Published
<1>3. CASE v # u
  <2>1. Idle.at = "idle" /\ calls[m].user # v /\ counted'[v] = counted[v] /\ reputation'[v] = reputation[v]
        /\ ((v \in standing') <=> v \in standing)
    BY <1>1, <1>3
  <2>2. RowOf(v)
    BY <1>2, RowsEach
  <2> QED BY <1>1, <1>2, <2>1, <2>2, RowApart
<1>4. CASE v = u
  <2>1. About(u) = {m} /\ Knows(m)
    BY <1>1, <1>2, <1>4, RowAlone DEF Stat
  <2>2. About(u)' = {}
    BY <1>1, <2>1, RowMoves
  <2>3. RowSays(u, u \in standing)
    BY <1>1, <2>1 DEF Knows, Stat
  <2>4. RowSays(u, u \in standing)'
    BY <1>1, <1>2, <1>4, <2>3 DEF RowSays
  <2> QED BY <1>4, <2>2, <2>4 DEF RowOf
<1> QED BY <1>3, <1>4

LEMMA CallDiesRow ==
    ASSUME CommunityTyped, RowInv, NEW m \in Moderator, CallDiesAwarding(m), ~Stat(m, "badges")
    PROVE  RowInv'
<1> PICK u : u = calls[m].user
  OBVIOUS
<1>1. /\ calls' = [calls EXCEPT ![m] = Idle] /\ UNCHANGED <<owner, public, standing, counted, reputation>>
      /\ stale' = stale \cup {u} /\ Idle.at = "idle"
  BY DEF CallDiesAwarding, Idle
<1> SUFFICES ASSUME NEW v \in Contributor, v \notin stale' PROVE RowOf(v)'
  BY DEF RowInv, RowOf
<1>2. Published(v)' = Published(v) /\ v \notin stale /\ v # u
  BY <1>1 DEF Published
<1> QED BY <1>1, <1>2, RowsEach, RowApart

LEMMA VerifyRow ==
    ASSUME CommunityTyped, RowInv, NEW m \in Moderator, NEW u \in Contributor, Verify(m, u)
    PROVE  RowInv'
<1> PICK c : c = [at |-> "boost", user |-> u]
  OBVIOUS
<1>1. /\ calls' = [calls EXCEPT ![m] = c] /\ calls[m].at = "idle"
      /\ UNCHANGED <<owner, public, counted, reputation>> /\ standing' = standing \cup {u}
      /\ stale' = Begun(u, FALSE) \cup (IF u \in standing THEN {u} ELSE {})
  BY DEF Verify, Stat
<1> SUFFICES ASSUME NEW v \in Contributor, v \notin stale' PROVE RowOf(v)'
  BY DEF RowInv, RowOf
<1>2. Published(v)' = Published(v) /\ v \notin stale
  BY <1>1 DEF Published, Begun
<1>3. CASE v # u
  <2>1. c.user # v /\ calls[m].at = "idle" /\ counted'[v] = counted[v] /\ reputation'[v] = reputation[v]
        /\ ((v \in standing') <=> v \in standing)
    BY <1>1, <1>3
  <2>2. RowOf(v)
    BY <1>2, RowsEach
  <2> QED BY <1>1, <1>2, <2>1, <2>2, RowApart
<1>4. CASE v = u
  <2>1. About(u) = {} /\ u \notin standing
    BY <1>1, <1>4 DEF Begun
  <2>2. calls'[m] = c /\ About(u)' = {m}
    BY <1>1, <2>1, RowMoves
  <2>3. RowSays(u, u \in standing)
    BY <1>2, <1>4, <2>1, RowsEach DEF RowOf
  <2>4. (u \in standing) = FALSE
    BY <2>1
  <2>5. RowSays(u, FALSE)
    BY <2>3, <2>4 DEF RowSays
  <2>6. RowSays(u, FALSE)'
    BY <1>1, <1>2, <1>4, <2>5 DEF RowSays
  <2>7. Knows(m)'
    <3>1. calls'[m].at = "boost" /\ calls'[m].user = u /\ u \in standing'
      BY <1>1, <2>2
    <3> QED BY <2>6, <3>1 DEF Knows, Stat
  <2> QED BY <1>4, <2>2, <2>7 DEF RowOf
<1> QED BY <1>3, <1>4

LEMMA BoostRow ==
    ASSUME CommunityTyped, RowInv, NEW m \in Moderator, BoostReputation(m)
    PROVE  RowInv'
<1> PICK u : u = calls[m].user
  OBVIOUS
<1>1. /\ calls' = [calls EXCEPT ![m] = Idle] /\ UNCHANGED <<owner, public, standing, counted, stale>>
      /\ calls[m].at = "boost" /\ Idle.at = "idle"
  BY DEF BoostReputation, Stat, Idle
<1>2. \A v \in Contributor : reputation'[v] = IF v = u THEN reputation[v] + Boost ELSE reputation[v]
  BY BoostTyped
<1> SUFFICES ASSUME NEW v \in Contributor, v \notin stale' PROVE RowOf(v)'
  BY DEF RowInv, RowOf
<1>3. Published(v)' = Published(v) /\ v \notin stale
  BY <1>1 DEF Published
<1>4. CASE v # u
  <2>1. Idle.at = "idle" /\ calls[m].user # v /\ counted'[v] = counted[v] /\ reputation'[v] = reputation[v]
        /\ ((v \in standing') <=> v \in standing)
    BY <1>1, <1>2, <1>4
  <2>2. RowOf(v)
    BY <1>3, RowsEach
  <2> QED BY <1>1, <1>3, <2>1, <2>2, RowApart
<1>5. CASE v = u
  <2>1. About(u) = {m} /\ Knows(m)
    BY <1>1, <1>3, <1>5, RowAlone DEF Stat
  <2>2. About(u)' = {}
    BY <1>1, <2>1, RowMoves
  <2>3. u \in standing /\ RowSays(u, FALSE)
    BY <1>1, <2>1 DEF Knows, Stat
  <2> PICK s : s = Stats(Published(u))
    OBVIOUS
  <2>4. counted[u] = s.published /\ reputation[u] = Reputation(s, FALSE)
    BY <2>3 DEF RowSays
  <2>5. s.published \in Nat /\ s.average \in Nat /\ Boost \in Nat
    BY StatsTyped, PublishedTyped, CommunityAssumption DEF CommunityTyped
  <2>6. Reputation(s, FALSE) + Boost = Reputation(s, TRUE)
    BY <2>5 DEF Reputation
  <2>7. counted'[u] = s.published /\ reputation'[u] = Reputation(s, TRUE)
    BY <1>1, <1>2, <1>5, <2>4, <2>6
  <2>8. (u \in standing') = TRUE /\ Stats(Published(u))' = s
    BY <1>1, <1>3, <1>5, <2>3
  <2>9. RowSays(u, u \in standing)'
    BY <2>7, <2>8 DEF RowSays
  <2> QED BY <1>5, <2>2, <2>9 DEF RowOf
<1> QED BY <1>4, <1>5

-----------------------------------------------------------------------------
(* The boards. *)

StandsOrRebuilt(b) ==
    /\ Rebuilding(b) = {} => Standing(b)
    /\ \A i \in Rebuilding(b) : Rebuilding(b) = {i} /\ boards[b] = {}

LEMMA BoardsEach == BoardInv <=> (~disordered => \A b \in Board : StandsOrRebuilt(b))
  BY DEF BoardInv, StandsOrRebuilt

LEMMA BoardElse ==
    ASSUME NEW b, StandsOrRebuilt(b), Rebuilding(b)' = Rebuilding(b),
           boards'[b] = boards[b], listed'[b] = listed[b]
    PROVE  StandsOrRebuilt(b)'
<1>1. Standing(b)' <=> Standing(b)
  BY DEF Standing
<1> QED BY <1>1 DEF StandsOrRebuilt

\* The calls of moderators leave the boards alone, the rebuilds the contributors.
LEMMA BoardsStay == BoardInv /\ UNCHANGED boardVars => BoardInv'
  BY DEF BoardInv, Standing, Rebuilding, boardVars

LEMMA ContributorsStay ==
    ASSUME CommunityTyped, CreditsAdd, RowInv,
           UNCHANGED <<communityTables, calls, approvals, lost, reached, stale>>,
           boards' \in [Board -> SUBSET BoardRow], rebuilds' \in [Rebuild -> Board \cup {"idle"}],
           listed' \in [Board -> SUBSET Contributor], disordered' \in BOOLEAN
    PROVE  CommunityTyped' /\ CreditsAdd' /\ RowInv'
<1>1. \A n \in Moderator : CallTyped(n)'
  BY OthersTyped DEF communityTables
<1>2. CommunityTyped'
  BY <1>1 DEF CommunityTyped, CommunityTypeOK, BadgesWereEarned, communityTables
<1>3. CreditsAdd'
  BY DEF CreditsAdd, About, communityTables
<1>4. RowInv'
  <2> SUFFICES ASSUME NEW u \in Contributor, u \notin stale PROVE RowOf(u)'
    BY DEF RowInv, RowOf
  <2>1. /\ Published(u)' = Published(u) /\ About(u)' = About(u) /\ calls' = calls
        /\ ((u \in standing)' <=> u \in standing) /\ counted' = counted /\ reputation' = reputation
    BY DEF Published, About, communityTables
  <2> QED BY <2>1, RowsEach, RowElse
<1> QED BY <1>2, <1>3, <1>4

\* One instance takes up a board, or lets go of it.
LEMMA RebuildMoves ==
    ASSUME CommunityTyped, NEW i \in Rebuild, NEW a \in Board \cup {"idle"},
           rebuilds' = [rebuilds EXCEPT ![i] = a]
    PROVE  /\ rebuilds' \in [Rebuild -> Board \cup {"idle"}]
           /\ \A b : (i \in Rebuilding(b)' <=> a = b) /\ Rebuilding(b)' \ {i} = Rebuilding(b) \ {i}
  BY DEF Rebuilding, CommunityTyped, CommunityTypeOK

LEMMA DeleteKeeps ==
    ASSUME CommunityInv, NEW i \in Rebuild, NEW b \in Board, DeleteBoard(i, b)
    PROVE  CommunityInv'
<1>1. /\ rebuilds' = [rebuilds EXCEPT ![i] = b] /\ rebuilds[i] = "idle"
      /\ boards' = [boards EXCEPT ![b] = {}] /\ disordered' = (disordered \/ Rebuilding(b) # {})
      /\ listed' = listed /\ UNCHANGED <<communityTables, calls, approvals, lost, reached, stale>>
  BY DEF DeleteBoard
<1>2. boards \in [Board -> SUBSET BoardRow] /\ listed \in [Board -> SUBSET Contributor] /\ disordered \in BOOLEAN
  BY DEF CommunityInv, CommunityTyped, CommunityTypeOK
<1>3. /\ rebuilds' \in [Rebuild -> Board \cup {"idle"}]
      /\ \A d : (i \in Rebuilding(d)' <=> b = d) /\ Rebuilding(d)' \ {i} = Rebuilding(d) \ {i}
  BY <1>1, RebuildMoves DEF CommunityInv
<1>4. CommunityTyped' /\ CreditsAdd' /\ RowInv'
  <2>1. boards' \in [Board -> SUBSET BoardRow] /\ listed' \in [Board -> SUBSET Contributor]
        /\ disordered' \in BOOLEAN
    BY <1>1, <1>2
  <2> QED BY <1>1, <1>3, <2>1, ContributorsStay DEF CommunityInv
<1>5. ASSUME ~disordered', NEW d \in Board PROVE StandsOrRebuilt(d)'
  <2>1. ~disordered /\ Rebuilding(b) = {} /\ StandsOrRebuilt(d)
    BY <1>1, <1>5, BoardsEach DEF CommunityInv
  <2>2. CASE d = b
    <3>1. Rebuilding(b)' = {i} /\ boards'[b] = {}
      BY <1>1, <1>2, <1>3, <2>1
    <3> QED BY <2>2, <3>1 DEF StandsOrRebuilt
  <2>3. CASE d # b
    <3>1. boards'[d] = boards[d] /\ listed'[d] = listed[d]
      BY <1>1, <1>2, <2>3
    <3>2. Rebuilding(d)' = Rebuilding(d)
      <4>1. i \notin Rebuilding(d)
        BY <1>1, CommunityAssumption DEF Rebuilding
      <4> QED BY <1>3, <2>3, <4>1
    <3> QED BY <2>1, <3>1, <3>2, BoardElse
  <2> QED BY <2>2, <2>3
<1>6. BoardInv'
  BY <1>5 DEF BoardInv, StandsOrRebuilt
<1> QED BY <1>4, <1>6 DEF CommunityInv

\* Ranks are given out to all, each once.
LEMMA RanksAreAll ==
    ASSUME CommunityTyped, NEW o \in Orders
    PROVE  /\ {o[u] : u \in Ranked} = 1 .. Cardinality(Ranked)
           /\ IsFiniteSet(Ranked) /\ Cardinality(Ranked) \in Nat
<1> PICK n : n = Cardinality(Ranked)
  OBVIOUS
<1>1. IsFiniteSet(Ranked) /\ n \in Nat
  <2>1. Ranked \subseteq Contributor
    BY DEF Ranked
  <2> QED BY <2>1, FS_Subset, FS_CardinalityType, CommunityAssumption
<1>2. o \in [Ranked -> 1 .. n] /\ \A u, v \in Ranked : u # v => o[u] # o[v]
  BY DEF Orders
<1>3. o \in Injection(Ranked, 1 .. n)
  BY <1>2 DEF Injection, IsInjective
<1>4. IsFiniteSet(1 .. n) /\ Cardinality(1 .. n) = n
  BY <1>1, FS_Interval
<1>5. o \in Surjection(Ranked, 1 .. n)
  BY <1>3, <1>4, FS_Injection
<1>6. \A k \in 1 .. n : \E u \in Ranked : o[u] = k
  BY <1>5 DEF Surjection
<1> QED BY <1>1, <1>2, <1>6

RankRow(o, u) == [user |-> u, rank |-> o[u], score |-> reputation[u]]
RankRows(o) == {RankRow(o, u) : u \in Ranked}

LEMMA RowsAreAsMany ==
    ASSUME IsFiniteSet(Ranked), NEW o
    PROVE  Cardinality(RankRows(o)) = Cardinality(Ranked)
<1> PICK f : f = [u \in Ranked |-> RankRow(o, u)]
  OBVIOUS
<1>1. f \in Surjection(Ranked, RankRows(o))
  BY DEF Surjection, RankRows
<1>2. \A u, v \in Ranked : f[u] = f[v] => u = v
  <2>1. \A u : RankRow(o, u).user = u
    BY DEF RankRow
  <2> QED BY <2>1
<1>3. f \in Injection(Ranked, RankRows(o))
  BY <1>1, <1>2 DEF Injection, IsInjective, Surjection
<1> QED BY <1>1, <1>3, FS_Surjection

\* The rows of a rebuild are a board that stands.
LEMMA RanksStand ==
    ASSUME CommunityTyped, NEW o \in Orders
    PROVE  /\ RankRows(o) \subseteq BoardRow
           /\ {row.user : row \in RankRows(o)} = Ranked
           /\ {row.rank : row \in RankRows(o)} = 1 .. Cardinality(RankRows(o))
           /\ \A row, other \in RankRows(o) : row.rank < other.rank => row.score >= other.score
<1>1. /\ {o[u] : u \in Ranked} = 1 .. Cardinality(Ranked)
      /\ Cardinality(Ranked) \in Nat /\ Cardinality(RankRows(o)) = Cardinality(Ranked)
  BY RanksAreAll, RowsAreAsMany
<1>2. /\ o \in [Ranked -> 1 .. Cardinality(Ranked)]
      /\ \A u, v \in Ranked : Before(u, v) => o[u] < o[v]
  BY DEF Orders
<1>3. \A u \in Ranked : u \in Contributor /\ reputation[u] \in Nat /\ o[u] \in Nat
  BY <1>1, <1>2 DEF Ranked, CommunityTyped, CommunityTypeOK
<1>4. \A u : RankRow(o, u).user = u /\ RankRow(o, u).rank = o[u] /\ RankRow(o, u).score = reputation[u]
  BY DEF RankRow
<1>5. RankRows(o) \subseteq BoardRow
  BY <1>3 DEF RankRows, RankRow, BoardRow
<1>6. {row.user : row \in RankRows(o)} = Ranked
  BY <1>4 DEF RankRows
<1>7. {row.rank : row \in RankRows(o)} = 1 .. Cardinality(RankRows(o))
  <2>1. {row.rank : row \in RankRows(o)} = {o[u] : u \in Ranked}
    BY <1>4 DEF RankRows
  <2> QED BY <1>1, <2>1
<1>8. ASSUME NEW row \in RankRows(o), NEW other \in RankRows(o), row.rank < other.rank
      PROVE  row.score >= other.score
  <2>1. PICK u \in Ranked, v \in Ranked : row = RankRow(o, u) /\ other = RankRow(o, v)
    BY DEF RankRows
  <2>2. o[u] < o[v] /\ row.score = reputation[u] /\ other.score = reputation[v]
    BY <1>4, <1>8, <2>1
  <2>3. ~Before(v, u)
    BY <1>2, <1>3, <2>2
  <2>4. reputation[u] \in Nat /\ reputation[v] \in Nat
    BY <1>3
  <2> QED BY <2>2, <2>3, <2>4 DEF Before
<1> QED BY <1>5, <1>6, <1>7, <1>8

LEMMA InsertKeeps ==
    ASSUME CommunityInv, NEW i \in Rebuild, InsertBoard(i)
    PROVE  CommunityInv'
<1> PICK b : b = rebuilds[i]
  OBVIOUS
<1>1. /\ b # "idle" /\ rebuilds' = [rebuilds EXCEPT ![i] = "idle"] /\ disordered' = disordered
      /\ UNCHANGED <<communityTables, calls, approvals, lost, reached, stale>>
  BY DEF InsertBoard
<1>2. /\ boards \in [Board -> SUBSET BoardRow] /\ listed \in [Board -> SUBSET Contributor]
      /\ disordered \in BOOLEAN /\ b \in Board /\ CommunityTyped /\ Ranked \subseteq Contributor
  BY <1>1 DEF CommunityInv, CommunityTyped, CommunityTypeOK, Ranked
<1>3. /\ rebuilds' \in [Rebuild -> Board \cup {"idle"}]
      /\ \A d : (i \in Rebuilding(d)' <=> "idle" = d) /\ Rebuilding(d)' \ {i} = Rebuilding(d) \ {i}
  BY <1>1, <1>2, RebuildMoves
<1>4. \/ UNCHANGED <<boards, listed>> /\ boards[b] # {}
      \/ \E o \in Orders : /\ boards' = [boards EXCEPT ![b] = boards[b] \cup RankRows(o)]
                           /\ listed' = [listed EXCEPT ![b] = Ranked]
  <2>1. CASE \E row \in boards[b] : row.user \in Ranked
    BY <2>1 DEF InsertBoard
  <2>2. CASE ~ \E row \in boards[b] : row.user \in Ranked
    BY <2>2 DEF InsertBoard, RankRows, RankRow
  <2> QED BY <2>1, <2>2
<1>5. /\ boards' \in [Board -> SUBSET BoardRow] /\ listed' \in [Board -> SUBSET Contributor]
      /\ \A d \in Board : d # b => boards'[d] = boards[d] /\ listed'[d] = listed[d]
  <2>1. CASE UNCHANGED <<boards, listed>>
    BY <1>2, <2>1
  <2>2. ASSUME NEW o \in Orders, boards' = [boards EXCEPT ![b] = boards[b] \cup RankRows(o)],
               listed' = [listed EXCEPT ![b] = Ranked]
        PROVE  /\ boards' \in [Board -> SUBSET BoardRow] /\ listed' \in [Board -> SUBSET Contributor]
               /\ \A d \in Board : d # b => boards'[d] = boards[d] /\ listed'[d] = listed[d]
    <3>1. RankRows(o) \subseteq BoardRow
      BY <1>2, RanksStand
    <3> QED BY <1>2, <2>2, <3>1
  <2> QED BY <1>4, <2>1, <2>2
<1>6. CommunityTyped' /\ CreditsAdd' /\ RowInv'
  BY <1>1, <1>2, <1>3, <1>5, ContributorsStay DEF CommunityInv
<1>7. ASSUME ~disordered', NEW d \in Board PROVE StandsOrRebuilt(d)'
  <2>1. StandsOrRebuilt(d) /\ StandsOrRebuilt(b)
    BY <1>1, <1>2, <1>7, BoardsEach DEF CommunityInv
  <2>2. CASE d = b
    <3>1. Rebuilding(b) = {i} /\ boards[b] = {}
      <4>1. i \in Rebuilding(b)
        BY DEF Rebuilding
      <4> QED BY <2>1, <4>1 DEF StandsOrRebuilt
    <3>2. PICK o \in Orders : /\ boards' = [boards EXCEPT ![b] = boards[b] \cup RankRows(o)]
                              /\ listed' = [listed EXCEPT ![b] = Ranked]
      BY <1>4, <3>1
    <3>3. boards'[b] = RankRows(o) /\ listed'[b] = Ranked
      BY <1>2, <3>1, <3>2
    <3>4. Standing(b)'
      BY <1>2, <3>3, RanksStand DEF Standing
    <3>5. Rebuilding(b)' = {}
      BY <1>1, <1>3, <3>1
    <3> QED BY <2>2, <3>4, <3>5 DEF StandsOrRebuilt
  <2>3. CASE d # b
    <3>1. i \notin Rebuilding(d)
      BY <2>3 DEF Rebuilding
    <3>2. Rebuilding(d)' = Rebuilding(d)
      <4>1. "idle" # d
        BY CommunityAssumption
      <4> QED BY <1>3, <3>1, <4>1
    <3> QED BY <1>5, <2>1, <2>3, <3>2, BoardElse
  <2> QED BY <2>2, <2>3
<1>8. BoardInv'
  BY <1>7 DEF BoardInv, StandsOrRebuilt
<1> QED BY <1>6, <1>8 DEF CommunityInv

LEMMA DiesKeeps ==
    ASSUME CommunityInv, NEW i \in Rebuild, RebuildDies(i)
    PROVE  CommunityInv'
<1>1. /\ rebuilds' = [rebuilds EXCEPT ![i] = "idle"] /\ disordered' = TRUE
      /\ UNCHANGED <<communityTables, calls, approvals, lost, reached, stale, boards, listed>>
  BY DEF RebuildDies
<1>2. rebuilds' \in [Rebuild -> Board \cup {"idle"}]
  BY <1>1, RebuildMoves DEF CommunityInv
<1>3. boards' \in [Board -> SUBSET BoardRow] /\ listed' \in [Board -> SUBSET Contributor]
      /\ disordered' \in BOOLEAN
  BY <1>1 DEF CommunityInv, CommunityTyped, CommunityTypeOK
<1>4. CommunityTyped' /\ CreditsAdd' /\ RowInv'
  BY <1>1, <1>2, <1>3, ContributorsStay DEF CommunityInv
<1>5. BoardInv'
  BY <1>1 DEF BoardInv
<1> QED BY <1>4, <1>5 DEF CommunityInv

LEMMA CommunityStarts == CommunityInit => CommunityInv
<1> SUFFICES ASSUME CommunityInit PROVE CommunityInv
  OBVIOUS
<1>1. CommunityTyped
  <2>1. \A m \in Moderator : CallTyped(m)
    BY DEF CommunityInit, CallTyped, Stat, Idle
  <2>2. CommunityTypeOK
    BY DEF CommunityInit, CommunityTypeOK
  <2> QED BY <2>1, <2>2 DEF CommunityInit, CommunityTyped, BadgesWereEarned
<1>2. CreditsAdd
  <2> SUFFICES ASSUME NEW u \in Contributor PROVE PaidFor(u)
    BY CreditsEach
  <2>1. Unpaid(u) = {}
    BY DEF CommunityInit, Unpaid, About, Idle
  <2>2. SeenThrough(u) = 0 /\ credits[u] = 0
    BY <2>1, FS_EmptySet DEF CommunityInit, SeenThrough
  <2>3. PerRoute \in Nat /\ HighBonus \in Nat
    BY CommunityAssumption
  <2> QED BY <2>2, <2>3 DEF PaidFor
<1>3. RowInv
  <2> SUFFICES ASSUME NEW u \in Contributor PROVE RowOf(u)
    BY RowsEach
  <2>1. About(u) = {} /\ Published(u) = {} /\ (u \in standing) = FALSE
    BY DEF CommunityInit, About, Published, Idle
  <2>2. Stats({}).published = 0 /\ Stats({}).average = 0
    BY FS_EmptySet DEF Stats
  <2>3. Reputation(Stats({}), FALSE) = 0
    BY <2>2 DEF Reputation
  <2>4. RowSays(u, u \in standing)
    BY <2>1, <2>2, <2>3 DEF CommunityInit, RowSays
  <2> QED BY <2>1, <2>4 DEF RowOf
<1>4. BoardInv
  <2> SUFFICES ASSUME NEW b \in Board PROVE StandsOrRebuilt(b)
    BY BoardsEach
  <2>1. Rebuilding(b) = {} /\ boards[b] = {} /\ listed[b] = {}
    BY CommunityAssumption DEF CommunityInit, Rebuilding
  <2>2. Cardinality(boards[b]) = 0 /\ 1 .. 0 = {}
    BY <2>1, FS_EmptySet
  <2>3. Standing(b)
    BY <2>1, <2>2 DEF Standing
  <2> QED BY <2>1, <2>3 DEF StandsOrRebuilt
<1> QED BY <1>1, <1>2, <1>3, <1>4 DEF CommunityInv

LEMMA CommunityStep == CommunityInv /\ [CommunityNext]_communityVars => CommunityInv'
<1> SUFFICES ASSUME CommunityInv, [CommunityNext]_communityVars PROVE CommunityInv'
  OBVIOUS
<1> USE DEF CommunityInv
<1>1. ASSUME NEW m \in Moderator, NEW r \in Route, Approve(m, r) PROVE CommunityInv'
  BY <1>1, ApproveTyped, ApproveCredits, ApproveRow, BoardsStay DEF Approve
<1>2. ASSUME NEW m \in Moderator, ReadStats(m) PROVE CommunityInv'
  BY <1>2, ReadStatsTyped, OtherCredits, ReadStatsRow, BoardsStay DEF ReadStats
<1>3. ASSUME NEW m \in Moderator, ReadStanding(m) PROVE CommunityInv'
  BY <1>3, ReadStandingTyped, OtherCredits, ReadStandingRow, BoardsStay DEF ReadStanding
<1>4. ASSUME NEW m \in Moderator, WriteAward(m) PROVE CommunityInv'
  BY <1>4, WriteAwardTyped, WriteAwardCredits, WriteAwardRow, BoardsStay DEF WriteAward
<1>5. ASSUME NEW m \in Moderator, AwardBadges(m) PROVE CommunityInv'
  BY <1>5, AwardBadgesTyped, OtherCredits, AwardBadgesRow, BoardsStay DEF AwardBadges
<1>6. ASSUME NEW m \in Moderator, NEW u \in Contributor, Verify(m, u) PROVE CommunityInv'
  BY <1>6, VerifyTyped, OtherCredits, VerifyRow, BoardsStay DEF Verify
<1>7. ASSUME NEW m \in Moderator, BoostReputation(m) PROVE CommunityInv'
  BY <1>7, BoostTyped, OtherCredits, BoostRow, BoardsStay DEF BoostReputation
<1>8. ASSUME NEW m \in Moderator, CallDiesAwarding(m) PROVE CommunityInv'
  BY <1>8, CallDiesTyped, CallDiesCredits, CallDiesRow, AwardBadgesRow, BoardsStay DEF CallDiesAwarding
<1>9. ASSUME NEW r \in Route, Unpublish(r) PROVE CommunityInv'
  <2>1. CreditsAdd'
    BY <1>9 DEF Unpublish, CreditsAdd, About
  <2> QED BY <1>9, <2>1, UnpublishTyped, UnpublishRow, BoardsStay DEF Unpublish
<1>10. ASSUME NEW u \in Contributor, Unverify(u) PROVE CommunityInv'
  <2>1. CreditsAdd'
    BY <1>10 DEF Unverify, CreditsAdd, About
  <2> QED BY <1>10, <2>1, UnverifyTyped, UnverifyRow, BoardsStay DEF Unverify
<1>11. ASSUME NEW i \in Rebuild,
              (\E b \in Board : DeleteBoard(i, b)) \/ InsertBoard(i) \/ RebuildDies(i)
       PROVE  CommunityInv'
  BY <1>11, DeleteKeeps, InsertKeeps, DiesKeeps
<1>12. CASE UNCHANGED communityVars
  <2>1. UNCHANGED <<communityTables, calls, approvals, lost, reached, stale, boardVars>>
    BY <1>12 DEF communityVars
  <2>2. boards' \in [Board -> SUBSET BoardRow] /\ rebuilds' \in [Rebuild -> Board \cup {"idle"}]
        /\ listed' \in [Board -> SUBSET Contributor] /\ disordered' \in BOOLEAN
    BY <2>1 DEF boardVars, CommunityTyped, CommunityTypeOK
  <2> QED BY <2>1, <2>2, ContributorsStay, BoardsStay
<1> QED BY <1>1, <1>2, <1>3, <1>4, <1>5, <1>6, <1>7, <1>8, <1>9, <1>10, <1>11, <1>12 DEF CommunityNext

LEMMA CommunityInductive == CommunitySpec => []CommunityInv
  BY CommunityStarts, CommunityStep, PTL DEF CommunitySpec

\* For any contributors, routes, moderators and instances: what admin.service.ts and
\* community.service.ts keep of a contributor are whole numbers, and boards rows of them.
THEOREM CommunityTypeCorrect == CommunitySpec => []CommunityTypeOK
<1>1. CommunityInv => CommunityTypeOK
  BY DEF CommunityInv, CommunityTyped
<1> QED BY <1>1, CommunityInductive, PTL

\* However approvals, verifications and rebuilds overlap and die: each approval seen through
\* has added its credits (onRoutePublished); a row whose calls did not overlap says what the
\* routes and the standing are; a badge was once earned (evaluateBadges); and a board that
\* one instance rebuilt ranks all it found, each once, by their reputation (rebuildLeaderboards).
THEOREM CommunityAlwaysStands == CommunitySpec => []CommunityStands
<1>1. CommunityInv => CommunityStands
  <2> SUFFICES ASSUME CommunityInv PROVE CommunityStands
    OBVIOUS
  <2>1. RowIsFresh
    BY DEF CommunityInv, RowInv, RowSays, RowIsFresh
  <2>2. RankingStands
    BY DEF CommunityInv, BoardInv, Standing, RankingStands
  <2> QED BY <2>1, <2>2 DEF CommunityInv, CommunityTyped, CommunityStands
<1> QED BY <1>1, CommunityInductive, PTL
-----------------------------------------------------------------------------
(* The upload wizard (UploadPage.tsx) and its review of the clips (clipAnalysis.ts). *)

\* The wizard's clips: what of a set comes before c, c included.
NotAfter(S, c) == {d \in S : Earlier(d, c) \/ d = c}

LEMMA EarlierOrders ==
    ASSUME WizardTypeOK, NEW c \in Clip, NEW d \in Clip
    PROVE  /\ films[c].start \in Nat /\ films[c].ms \in Nat /\ EndOf(c) \in Nat
           /\ ~Earlier(c, c)
           /\ c # d => (Earlier(c, d) \/ Earlier(d, c))
           /\ ~(Earlier(c, d) /\ Earlier(d, c))
           /\ \A e \in Clip : Earlier(c, d) /\ Earlier(d, e) => Earlier(c, e)
<1>1. \A e \in Clip : e \in Nat /\ films[e].start \in Nat /\ films[e].ms \in Nat
  <2>1. films \in [Clip -> Film] /\ Clip \subseteq Nat /\ MaxMs \in Nat
    BY WizardAssumption DEF WizardTypeOK
  <2> QED BY <2>1 DEF Film
<1> QED BY <1>1 DEF Earlier, EndOf

LEMMA NotAfterGrows ==
    ASSUME WizardTypeOK, NEW S \in SUBSET Clip, NEW c \in S, NEW d \in S, Earlier(c, d)
    PROVE  Cardinality(NotAfter(S, c)) < Cardinality(NotAfter(S, d))
<1>1. IsFiniteSet(S) /\ NotAfter(S, c) \in SUBSET S /\ NotAfter(S, d) \in SUBSET S
  BY WizardAssumption, FS_Subset DEF NotAfter
<1>2. IsFiniteSet(NotAfter(S, d))
  BY <1>1, FS_Subset
<1>3. NotAfter(S, c) \subseteq NotAfter(S, d)
  <2> SUFFICES ASSUME NEW e \in NotAfter(S, c) PROVE e \in NotAfter(S, d)
    OBVIOUS
  <2>1. e \in S /\ e \in Clip /\ (Earlier(e, c) \/ e = c)
    BY DEF NotAfter
  <2>2. Earlier(e, d)
    BY <2>1, EarlierOrders
  <2> QED BY <2>1, <2>2 DEF NotAfter
<1>4. d \in NotAfter(S, d) /\ d \notin NotAfter(S, c)
  <2>1. c \in Clip /\ d \in Clip
    OBVIOUS
  <2>2. ~Earlier(d, c) /\ d # c
    BY <2>1, EarlierOrders
  <2> QED BY <2>2 DEF NotAfter
<1>5. /\ Cardinality(NotAfter(S, c)) <= Cardinality(NotAfter(S, d))
      /\ Cardinality(NotAfter(S, c)) # Cardinality(NotAfter(S, d))
  BY <1>2, <1>3, <1>4, FS_Subset
<1>6. Cardinality(NotAfter(S, c)) \in Nat /\ Cardinality(NotAfter(S, d)) \in Nat
  BY <1>1, FS_Subset, FS_CardinalityType
<1> QED BY <1>5, <1>6

Sorted(S, s) == /\ s \in [1 .. Cardinality(S) -> S]
                /\ \A i, j \in DOMAIN s : i < j => Earlier(s[i], s[j])

\* The clip that as many come before as its place says: so there is an order.
LEMMA OrderExists ==
    ASSUME WizardTypeOK, NEW S \in SUBSET Clip
    PROVE  \E s : Sorted(S, s)
<1> PICK n : n = Cardinality(S)
  OBVIOUS
<1>1. IsFiniteSet(S) /\ n \in Nat
  BY WizardAssumption, FS_Subset, FS_CardinalityType
<1> PICK R : R = [c \in S |-> Cardinality(NotAfter(S, c))]
  OBVIOUS
<1>2. ASSUME NEW c \in S PROVE R[c] \in 1 .. n
  <2>1. NotAfter(S, c) \in SUBSET S /\ c \in NotAfter(S, c)
    BY DEF NotAfter
  <2>2. IsFiniteSet(NotAfter(S, c)) /\ Cardinality(NotAfter(S, c)) <= n
    BY <1>1, <2>1, FS_Subset
  <2>3. Cardinality(NotAfter(S, c)) \in Nat /\ Cardinality(NotAfter(S, c)) # 0
    BY <2>1, <2>2, FS_CardinalityType, FS_EmptySet
  <2> QED BY <1>1, <2>2, <2>3
<1>3. \A c, d \in S : Earlier(c, d) => R[c] < R[d]
  BY NotAfterGrows
<1>4. \A c, d \in S : c # d => R[c] # R[d]
  <2> SUFFICES ASSUME NEW c \in S, NEW d \in S, c # d PROVE R[c] # R[d]
    OBVIOUS
  <2>1. Earlier(c, d) \/ Earlier(d, c)
    BY EarlierOrders
  <2>2. R[c] \in Nat /\ R[d] \in Nat
    BY <1>2, <1>1
  <2> QED BY <1>3, <2>1, <2>2
<1>5. R \in Injection(S, 1 .. n)
  BY <1>2, <1>4 DEF Injection, IsInjective
<1>6. IsFiniteSet(1 .. n) /\ Cardinality(1 .. n) = n
  BY <1>1, FS_Interval
<1>7. R \in Surjection(S, 1 .. n)
  BY <1>5, <1>6, FS_Injection
<1>8. \A i \in 1 .. n : \E c \in S : R[c] = i
  BY <1>7 DEF Surjection
<1> PICK s : s = [i \in 1 .. n |-> CHOOSE c \in S : R[c] = i]
  OBVIOUS
<1>9. \A i \in 1 .. n : s[i] \in S /\ R[s[i]] = i
  BY <1>8
<1>10. ASSUME NEW i \in 1 .. n, NEW j \in 1 .. n, i < j PROVE Earlier(s[i], s[j])
  <2>1. s[i] \in S /\ s[j] \in S /\ R[s[i]] = i /\ R[s[j]] = j
    BY <1>9
  <2>2. ~Earlier(s[j], s[i])
    <3>1. Earlier(s[j], s[i]) => j < i
      BY <1>3, <2>1
    <3> QED BY <1>1, <1>10, <3>1
  <2>3. s[i] # s[j]
    BY <1>10, <2>1
  <2> QED BY <2>1, <2>2, <2>3, EarlierOrders
<1> QED BY <1>9, <1>10 DEF Sorted

\* It has each of them.
LEMMA OrderedIs ==
    ASSUME WizardTypeOK, NEW S \in SUBSET Clip
    PROVE  /\ Sorted(S, Ordered(S)) /\ Cardinality(S) \in Nat /\ (Cardinality(S) = 0 <=> S = {})
           /\ DOMAIN Ordered(S) = 1 .. Cardinality(S)
           /\ Ordered(S) \in Seq(S) /\ Len(Ordered(S)) = Cardinality(S)
           /\ \A c \in S : \E i \in 1 .. Cardinality(S) : Ordered(S)[i] = c
           /\ ToSet(Ordered(S)) = S
<1> PICK n : n = Cardinality(S)
  OBVIOUS
<1> PICK s : s = Ordered(S)
  OBVIOUS
<1>1. IsFiniteSet(S) /\ n \in Nat /\ (n = 0 <=> S = {})
  BY WizardAssumption, FS_Subset, FS_CardinalityType, FS_EmptySet
<1>2. Sorted(S, s)
  <2>1. PICK t : Sorted(S, t)
    BY OrderExists
  <2>2. t \in [1 .. Cardinality(S) -> S] /\ \A i, j \in DOMAIN t : i < j => Earlier(t[i], t[j])
    BY <2>1 DEF Sorted
  <2>3. s \in [1 .. Cardinality(S) -> S] /\ \A i, j \in DOMAIN s : i < j => Earlier(s[i], s[j])
    BY <2>2 DEF Ordered
  <2> QED BY <2>3 DEF Sorted
<1>3. s \in [1 .. n -> S] /\ \A i, j \in 1 .. n : i < j => Earlier(s[i], s[j])
  BY <1>2 DEF Sorted
<1>4. \A i, j \in 1 .. n : i # j => s[i] # s[j]
  <2> SUFFICES ASSUME NEW i \in 1 .. n, NEW j \in 1 .. n, i # j PROVE s[i] # s[j]
    OBVIOUS
  <2>1. s[i] \in Clip /\ s[j] \in Clip /\ (i < j \/ j < i)
    BY <1>1, <1>3
  <2>2. Earlier(s[i], s[j]) \/ Earlier(s[j], s[i])
    BY <1>3, <2>1
  <2> QED BY <2>1, <2>2, EarlierOrders
<1>5. s \in Injection(1 .. n, S)
  BY <1>3, <1>4 DEF Injection, IsInjective
<1>6. Cardinality(1 .. n) = n
  BY <1>1, FS_Interval
<1>7. s \in Surjection(1 .. n, S)
  BY <1>1, <1>5, <1>6, FS_Injection
<1>8. \A c \in S : \E i \in 1 .. n : s[i] = c
  BY <1>7 DEF Surjection
<1>9. s \in Seq(S) /\ Len(s) = n /\ DOMAIN s = 1 .. n
  BY <1>1, <1>3
<1>10. ToSet(s) = S
  BY <1>3, <1>8, <1>9 DEF ToSet
<1> QED BY <1>1, <1>2, <1>8, <1>9, <1>10

\* What the sets of a family cover, and whether no two of them share anything.
Cover(G, s) == UNION {G[x] : x \in s}
Disjoint(G, s) == \A x, y \in s : x # y => G[x] \cap G[y] = {}

\* A family covers as much as its sets add up to if they are apart, and otherwise less.
LEMMA CoverGrows ==
    ASSUME NEW G, NEW s, NEW x \in s
    PROVE  /\ Cover(G, s) = Cover(G, s \ {x}) \cup G[x]
           /\ Disjoint(G, s) <=> Disjoint(G, s \ {x}) /\ Cover(G, s \ {x}) \cap G[x] = {}
<1>1. Cover(G, s) = Cover(G, s \ {x}) \cup G[x]
  BY DEF Cover
<1>2. ASSUME Disjoint(G, s) PROVE Disjoint(G, s \ {x}) /\ Cover(G, s \ {x}) \cap G[x] = {}
  BY <1>2 DEF Cover, Disjoint
<1>3. ASSUME Disjoint(G, s \ {x}), Cover(G, s \ {x}) \cap G[x] = {} PROVE Disjoint(G, s)
  <2>1. \A y \in s \ {x} : G[y] \cap G[x] = {}
    BY <1>3 DEF Cover
  <2> QED BY <1>3, <2>1 DEF Disjoint
<1> QED BY <1>1, <1>2, <1>3

LEMMA UnionCounts ==
    ASSUME NEW c, NEW g, IsFiniteSet(c), IsFiniteSet(g)
    PROVE  /\ IsFiniteSet(c \cup g) /\ Cardinality(c \cup g) \in Nat
           /\ Cardinality(c) \in Nat /\ Cardinality(g) \in Nat
           /\ Cardinality(c \cup g) <= Cardinality(c) + Cardinality(g)
           /\ Cardinality(c \cup g) = Cardinality(c) + Cardinality(g) <=> c \cap g = {}
<1>1. /\ IsFiniteSet(c \cup g)
      /\ Cardinality(c \cup g) = Cardinality(c) + (Cardinality(g) - Cardinality(c \cap g))
  BY FS_Union
<1>2. IsFiniteSet(c \cap g)
  BY FS_Subset
<1> PICK u, v, w, z : /\ u = Cardinality(c \cup g) /\ v = Cardinality(c)
                      /\ w = Cardinality(g) /\ z = Cardinality(c \cap g)
  OBVIOUS
<1>3. u \in Nat /\ v \in Nat /\ w \in Nat /\ z \in Nat /\ (z = 0 <=> c \cap g = {})
  BY <1>1, <1>2, FS_CardinalityType, FS_EmptySet
<1>4. u = v + (w - z)
  BY <1>1
<1>5. u <= v + w /\ (u = v + w <=> z = 0)
  BY <1>3, <1>4
<1> QED BY <1>1, <1>3, <1>5

CountedUp(G, q, s) ==
    /\ IsFiniteSet(Cover(G, s)) /\ q[s] \in Nat /\ Cardinality(Cover(G, s)) \in Nat
    /\ Cardinality(Cover(G, s)) <= q[s]
    /\ Cardinality(Cover(G, s)) = q[s] <=> Disjoint(G, s)

LEMMA CoverStep ==
    ASSUME NEW G, NEW q, NEW s, NEW x \in s, IsFiniteSet(G[x]), CountedUp(G, q, s \ {x}),
           q[s] = Cardinality(G[x]) + q[s \ {x}]
    PROVE  CountedUp(G, q, s)
<1> PICK c, g, y : c = Cover(G, s \ {x}) /\ g = G[x] /\ y = q[s \ {x}]
  OBVIOUS
<1>1. /\ Cover(G, s) = c \cup g
      /\ Disjoint(G, s) <=> Disjoint(G, s \ {x}) /\ c \cap g = {}
  BY CoverGrows
<1>2. /\ IsFiniteSet(c) /\ y \in Nat /\ Cardinality(c) <= y
      /\ Cardinality(c) = y <=> Disjoint(G, s \ {x})
  BY DEF CountedUp
<1>3. IsFiniteSet(g) /\ q[s] = Cardinality(g) + y
  OBVIOUS
<1>4. IsFiniteSet(c) /\ IsFiniteSet(g)
  BY <1>2, <1>3
<1>5. /\ IsFiniteSet(c \cup g) /\ Cardinality(c \cup g) \in Nat
      /\ Cardinality(c) \in Nat /\ Cardinality(g) \in Nat
      /\ Cardinality(c \cup g) <= Cardinality(c) + Cardinality(g)
      /\ Cardinality(c \cup g) = Cardinality(c) + Cardinality(g) <=> c \cap g = {}
  BY <1>4, UnionCounts
<1> PICK u, v, w : u = Cardinality(c \cup g) /\ v = Cardinality(c) /\ w = Cardinality(g)
  OBVIOUS
<1>6. u \in Nat /\ v \in Nat /\ w \in Nat /\ u <= v + w /\ (u = v + w <=> c \cap g = {})
  BY <1>5
<1>7. w + y \in Nat /\ u <= w + y /\ (u = w + y <=> u = v + w /\ v = y)
  BY <1>2, <1>6
<1>8. Cover(G, s) = c \cup g /\ (u = w + y <=> Disjoint(G, s))
  BY <1>1, <1>2, <1>6, <1>7
<1>9. Cardinality(Cover(G, s)) = u /\ IsFiniteSet(Cover(G, s)) /\ q[s] = w + y
  BY <1>3, <1>5, <1>8
<1> QED BY <1>6, <1>7, <1>8, <1>9 DEF CountedUp

LEMMA CoverCounts ==
    ASSUME NEW S, IsFiniteSet(S), NEW G, \A x \in S : IsFiniteSet(G[x]),
           NEW f, \A x \in S : f[x] = Cardinality(G[x]), NEW q, q = Adding(f, S, q)
    PROVE  \A s \in SUBSET S : CountedUp(G, q, s)
<1> DEFINE B == {k \in Nat : \E s \in SUBSET S : Cardinality(s) = k /\ ~CountedUp(G, q, s)}
<1>0. \A s \in SUBSET S : q[s] = Added(f, q, s)
  BY DEF Adding
<1>1. B = {}
  <2> SUFFICES ASSUME B # {} PROVE FALSE
    OBVIOUS
  <2>1. PICK k \in B : \A y \in B : k <= y
    <3>1. B \in SUBSET Nat
      OBVIOUS
    <3> HIDE DEF B
    <3> QED BY <3>1, LeastOf
  <2>2. PICK s \in SUBSET S : Cardinality(s) = k /\ ~CountedUp(G, q, s)
    BY <2>1
  <2>3. s # {}
    <3> SUFFICES ASSUME s = {} PROVE CountedUp(G, q, s)
      BY <2>2
    <3>1. Cover(G, s) = {} /\ Disjoint(G, s) /\ q[s] = 0
      BY <1>0 DEF Cover, Disjoint, Added
    <3>2. IsFiniteSet({}) /\ Cardinality({}) = 0
      BY FS_EmptySet
    <3> QED BY <3>1, <3>2 DEF CountedUp
  <2> PICK x : x = Picked(s)
    OBVIOUS
  <2>4. x \in s /\ s \ {x} \in SUBSET S /\ Cardinality(s \ {x}) = k - 1 /\ k \in Nat
    BY <2>2, <2>3, PickedLess
  <2>5. q[s] = Cardinality(G[x]) + q[s \ {x}] /\ IsFiniteSet(G[x])
    <3>1. q[s] = f[x] + q[s \ {x}]
      BY <1>0, <2>3 DEF Added
    <3> QED BY <2>4, <3>1
  <2>6. CountedUp(G, q, s \ {x})
    <3>1. k - 1 \in Nat /\ k - 1 < k
      BY <2>4, PickedLess
    <3>2. k - 1 \notin B
      <4> HIDE DEF B
      <4> QED BY <2>1, <2>4, <3>1
    <3> QED BY <2>4, <3>1, <3>2
  <2> QED BY <2>2, <2>4, <2>5, <2>6, CoverStep
<1> QED BY <1>1, PickedLess

LEMMA Within ==
    ASSUME NEW a \in Int, NEW b \in Int, NEW c \in Int, NEW d \in Int, c <= a, b <= d
    PROVE  (a .. b) \subseteq (c .. d)
  OBVIOUS

\* Intervals that begin one after the other and none of which lies within another.
LEMMA TwoIntervals ==
    ASSUME NEW a \in Nat, NEW b \in Nat, NEW c \in Nat, NEW d \in Nat, a <= c,
           ~((a .. b - 1) \subseteq (c .. d - 1)), ~((c .. d - 1) \subseteq (a .. b - 1))
    PROVE  a < c /\ b < d
<1>1. b < d
  <2> SUFFICES ASSUME d <= b PROVE FALSE
    OBVIOUS
  <2>1. a \in Int /\ b - 1 \in Int /\ c \in Int /\ d - 1 \in Int /\ d - 1 <= b - 1
    OBVIOUS
  <2> QED BY <2>1, Within
<1>2. a # c
  <2> SUFFICES ASSUME a = c PROVE FALSE
    OBVIOUS
  <2>1. a \in Int /\ b - 1 \in Int /\ c \in Int /\ d - 1 \in Int /\ b - 1 <= d - 1 /\ c <= a
    BY <1>1
  <2> QED BY <2>1, Within
<1> QED BY <1>1, <1>2

OneByOne(n, A, E) ==
    /\ n \in Nat /\ A \in [1 .. n -> Nat] /\ E \in [1 .. n -> Nat]
    /\ \A i, j \in 1 .. n : i < j => A[i] <= A[j]
    /\ \A i, j \in 1 .. n : i # j => ~((A[i] .. E[i] - 1) \subseteq (A[j] .. E[j] - 1))

LEMMA IntervalsStep ==
    ASSUME NEW n, NEW A, NEW E, OneByOne(n, A, E)
    PROVE  \A i, j \in 1 .. n : i < j => A[i] < A[j] /\ E[i] < E[j]
<1> SUFFICES ASSUME NEW i \in 1 .. n, NEW j \in 1 .. n, i < j
             PROVE  A[i] < A[j] /\ E[i] < E[j]
  OBVIOUS
<1> PICK a, b, c, d : a = A[i] /\ b = E[i] /\ c = A[j] /\ d = E[j]
  OBVIOUS
<1>1. a \in Nat /\ b \in Nat /\ c \in Nat /\ d \in Nat /\ a <= c
  BY DEF OneByOne
<1>2. ~((a .. b - 1) \subseteq (c .. d - 1)) /\ ~((c .. d - 1) \subseteq (a .. b - 1))
  <2>1. i # j
    BY DEF OneByOne
  <2> QED BY <2>1 DEF OneByOne
<1>3. a < c /\ b < d
  BY <1>1, <1>2, TwoIntervals
<1> QED BY <1>3

\* They span all from the first beginning to the last end but the gaps between neighbours.
LEMMA SpanIs ==
    ASSUME NEW n \in Nat, n > 0, NEW A \in [1 .. n -> Nat], NEW E \in [1 .. n -> Nat],
           \A i \in 1 .. n : A[i] < E[i],
           \A i, j \in 1 .. n : i < j => A[i] < A[j] /\ E[i] < E[j],
           NEW t \in Int
    PROVE  t \in A[1] .. E[n] - 1
              <=> \/ \E i \in 1 .. n : t \in A[i] .. E[i] - 1
                  \/ \E i \in 2 .. n : t \in E[i - 1] .. A[i] - 1
<1>0. 1 \in 1 .. n /\ n \in 1 .. n /\ \A i \in 1 .. n : A[i] \in Nat /\ E[i] \in Nat /\ i \in Nat
  OBVIOUS
<1>1. \A i \in 1 .. n : A[1] <= A[i] /\ E[i] <= E[n]
  <2> SUFFICES ASSUME NEW i \in 1 .. n PROVE A[1] <= A[i] /\ E[i] <= E[n]
    OBVIOUS
  <2>1. (1 = i \/ 1 < i) /\ (i = n \/ i < n)
    OBVIOUS
  <2>2. 1 < i => A[1] < A[i]
    BY <1>0
  <2>3. i < n => E[i] < E[n]
    BY <1>0
  <2> QED BY <1>0, <2>1, <2>2, <2>3
<1>2. ASSUME NEW i \in 1 .. n, t \in A[i] .. E[i] - 1 PROVE t \in A[1] .. E[n] - 1
  <2>1. A[1] <= A[i] /\ E[i] <= E[n] /\ A[1] \in Nat /\ E[n] \in Nat /\ A[i] \in Nat /\ E[i] \in Nat
    BY <1>0, <1>1
  <2> QED BY <1>2, <2>1
<1>3. ASSUME NEW i \in 2 .. n, t \in E[i - 1] .. A[i] - 1 PROVE t \in A[1] .. E[n] - 1
  <2> PICK k : k = i - 1
    OBVIOUS
  <2>1. k \in 1 .. n /\ i \in 1 .. n
    OBVIOUS
  <2>2. A[1] <= A[k] /\ A[k] < E[k] /\ A[i] < E[i] /\ E[i] <= E[n]
    BY <1>1, <2>1
  <2>3. A[1] \in Nat /\ A[k] \in Nat /\ E[k] \in Nat /\ A[i] \in Nat /\ E[i] \in Nat /\ E[n] \in Nat
    BY <1>0, <2>1
  <2>4. E[k] <= t /\ t <= A[i] - 1
    BY <1>3, <2>3
  <2> QED BY <2>2, <2>3, <2>4
<1>4. ASSUME t \in A[1] .. E[n] - 1, \A i \in 1 .. n : t \notin A[i] .. E[i] - 1
      PROVE  \E i \in 2 .. n : t \in E[i - 1] .. A[i] - 1
  <2> PICK T : T = {i \in 1 .. n : A[i] > t}
    OBVIOUS
  <2>1. A[1] <= t /\ t <= E[n] - 1
    BY <1>0, <1>4
  <2>2. n \in T
    <3>1. t \notin A[n] .. E[n] - 1
      BY <1>0, <1>4
    <3> QED BY <1>0, <2>1, <3>1
  <2>3. PICK i \in T : \A y \in T : i <= y
    <3>1. T \in SUBSET Nat /\ T # {}
      BY <2>2
    <3> QED BY <3>1, LeastOf
  <2> PICK k : k = i - 1
    OBVIOUS
  <2>4. i \in 1 .. n /\ A[i] > t /\ i # 1
    BY <1>0, <2>1, <2>3
  <2>5. k \in 1 .. n /\ k < i
    BY <2>4
  <2>6. ~(A[k] > t)
    <3>1. k \notin T
      BY <2>3, <2>4, <2>5
    <3> QED BY <2>5, <3>1
  <2>7. t \notin A[k] .. E[k] - 1
    BY <1>4, <2>5
  <2>8. A[k] \in Nat /\ E[k] \in Nat /\ A[i] \in Nat
    BY <1>0, <2>4, <2>5
  <2>9. t \in E[k] .. A[i] - 1
    BY <2>4, <2>6, <2>7, <2>8
  <2>10. i \in 2 .. n
    BY <2>4
  <2> QED BY <2>9, <2>10
<1> QED BY <1>2, <1>3, <1>4

\* No gap has a part of an interval or of another gap.
LEMMA GapsDisjoint ==
    ASSUME NEW n \in Nat, NEW A \in [1 .. n -> Nat], NEW E \in [1 .. n -> Nat],
           \A i \in 1 .. n : A[i] < E[i],
           \A i, j \in 1 .. n : i < j => A[i] < A[j] /\ E[i] < E[j],
           NEW t \in Int, NEW i \in 2 .. n, t \in E[i - 1] .. A[i] - 1
    PROVE  /\ \A j \in 1 .. n : t \notin A[j] .. E[j] - 1
           /\ \A j \in 2 .. n : t \in E[j - 1] .. A[j] - 1 => j = i
<1> PICK k : k = i - 1
  OBVIOUS
<1>0. \A j \in 1 .. n : A[j] \in Nat /\ E[j] \in Nat /\ j \in Nat
  OBVIOUS
<1>1. k \in 1 .. n /\ i \in 1 .. n
  OBVIOUS
<1>2. E[k] <= t /\ t < A[i]
  BY <1>0, <1>1
<1>3. ASSUME NEW j \in 1 .. n PROVE IF j < i THEN E[j] <= t ELSE A[j] > t
  <2>1. CASE j < i
    <3>1. j = k \/ j < k
      BY <1>1, <2>1
    <3>2. j < k => E[j] < E[k]
      BY <1>1
    <3>3. E[j] <= E[k] /\ E[j] \in Nat /\ E[k] \in Nat
      BY <1>0, <1>1, <3>1, <3>2
    <3> QED BY <1>2, <2>1, <3>3
  <2>2. CASE ~(j < i)
    <3>1. i = j \/ i < j
      BY <1>1, <2>2
    <3>2. i < j => A[i] < A[j]
      BY <1>1
    <3>3. A[i] <= A[j] /\ A[j] \in Nat /\ A[i] \in Nat
      BY <1>0, <1>1, <3>1, <3>2
    <3> QED BY <1>2, <2>2, <3>3
  <2> QED BY <2>1, <2>2
<1>4. ASSUME NEW j \in 1 .. n PROVE t \notin A[j] .. E[j] - 1
  <2>1. A[j] \in Nat /\ E[j] \in Nat
    BY <1>0
  <2>2. E[j] <= t \/ A[j] > t
    BY <1>3
  <2> QED BY <2>1, <2>2
<1>5. ASSUME NEW j \in 2 .. n, t \in E[j - 1] .. A[j] - 1 PROVE j = i
  <2> PICK m : m = j - 1
    OBVIOUS
  <2>1. j \in 1 .. n /\ m \in 1 .. n
    OBVIOUS
  <2>2. A[j] \in Nat /\ E[m] \in Nat /\ A[m] \in Nat /\ E[j] \in Nat
    BY <1>0, <2>1
  <2>3. E[m] <= t /\ t < A[j]
    BY <1>5, <2>2
  <2>4. ~(j < i)
    <3>1. j < i => E[j] <= t
      BY <1>3, <2>1
    <3>2. A[j] < E[j]
      BY <2>1
    <3> QED BY <2>2, <2>3, <3>1, <3>2
  <2>5. m < i
    <3>1. ~(m < i) => A[m] > t
      BY <1>3, <2>1
    <3>2. A[m] < E[m]
      BY <2>1
    <3> QED BY <2>2, <2>3, <3>1, <3>2
  <2> QED BY <2>4, <2>5
<1> QED BY <1>4, <1>5

Rising(n, A, E) ==
    /\ n \in Nat /\ n > 0 /\ A \in [1 .. n -> Nat] /\ E \in [1 .. n -> Nat]
    /\ \A i \in 1 .. n : A[i] < E[i]
    /\ \A i, j \in 1 .. n : i < j => A[i] < A[j] /\ E[i] < E[j]

InInterval(n, A, E, t) == \E i \in 1 .. n : t \in A[i] .. E[i] - 1
InGap(n, A, E, t) == \E i \in 2 .. n : t \in E[i - 1] .. A[i] - 1

LEMMA SpanRising ==
    ASSUME NEW n, NEW A, NEW E, Rising(n, A, E), NEW t \in Int
    PROVE  t \in A[1] .. E[n] - 1 <=> InInterval(n, A, E, t) \/ InGap(n, A, E, t)
<1>1. /\ n \in Nat /\ n > 0 /\ A \in [1 .. n -> Nat] /\ E \in [1 .. n -> Nat]
      /\ \A i \in 1 .. n : A[i] < E[i]
      /\ \A i, j \in 1 .. n : i < j => A[i] < A[j] /\ E[i] < E[j]
  BY DEF Rising
<1>2. t \in A[1] .. E[n] - 1
          <=> \/ \E i \in 1 .. n : t \in A[i] .. E[i] - 1
              \/ \E i \in 2 .. n : t \in E[i - 1] .. A[i] - 1
  BY <1>1, SpanIs
<1> QED BY <1>2 DEF InInterval, InGap

\* The clips of S in their order: their beginnings and their ends.
Lined(S, n, s, A, E) ==
    /\ n \in Nat /\ n > 0 /\ n = Cardinality(S) /\ s = Ordered(S) /\ Len(s) = n
    /\ \A i \in 1 .. n : s[i] \in S
    /\ \A c \in S : \E i \in 1 .. n : s[i] = c
    /\ A \in [1 .. n -> Nat] /\ E \in [1 .. n -> Nat]
    /\ \A i \in 1 .. n : A[i] = films[s[i]].start /\ E[i] = EndOf(s[i])
    /\ \A i \in 1 .. n : A[i] < E[i]
    /\ \A i, j \in 1 .. n : i < j => A[i] < A[j] /\ E[i] < E[j]

\* Every length is known, and no clip lies within another.
Clean(S) == /\ \A c \in S : films[c].ms # 0
            /\ \A c, d \in S : c # d => ~(Instants(c) \subseteq Instants(d))

LEMMA CleanLined ==
    ASSUME WizardTypeOK, NEW S \in SUBSET Clip, S # {}, Clean(S)
    PROVE  \E n, s, A, E : Lined(S, n, s, A, E)
<1> PICK n, s : n = Cardinality(S) /\ s = Ordered(S)
  OBVIOUS
<1> PICK A, E : /\ A = [i \in 1 .. n |-> films[s[i]].start]
                /\ E = [i \in 1 .. n |-> EndOf(s[i])]
  OBVIOUS
<1>1. /\ n \in Nat /\ n > 0 /\ Len(s) = n
      /\ s \in [1 .. n -> S] /\ \A i, j \in 1 .. n : i < j => Earlier(s[i], s[j])
      /\ \A c \in S : \E i \in 1 .. n : s[i] = c
  <2>1. n \in Nat /\ n # 0 /\ Len(s) = n /\ \A c \in S : \E i \in 1 .. n : s[i] = c
    BY OrderedIs
  <2>2. Sorted(S, s)
    BY OrderedIs
  <2>3. s \in [1 .. n -> S] /\ \A i, j \in 1 .. n : i < j => Earlier(s[i], s[j])
    BY <2>2 DEF Sorted
  <2> QED BY <2>1, <2>3
<1>2. ASSUME NEW i \in 1 .. n
      PROVE  /\ s[i] \in S /\ A[i] = films[s[i]].start /\ E[i] = EndOf(s[i])
             /\ A[i] \in Nat /\ E[i] \in Nat /\ A[i] < E[i]
  <2> PICK c : c = s[i]
    OBVIOUS
  <2>1. c \in S /\ c \in Clip
    BY <1>1
  <2>2. films[c].start \in Nat /\ films[c].ms \in Nat /\ EndOf(c) \in Nat /\ films[c].ms # 0
    BY <2>1, EarlierOrders DEF Clean
  <2>3. films[c].start < EndOf(c)
    BY <2>2 DEF EndOf
  <2> QED BY <2>1, <2>2, <2>3
<1>3. A \in [1 .. n -> Nat] /\ E \in [1 .. n -> Nat]
  BY <1>2
<1>4. \A i, j \in 1 .. n : i < j => A[i] <= A[j]
  <2> SUFFICES ASSUME NEW i \in 1 .. n, NEW j \in 1 .. n, i < j PROVE A[i] <= A[j]
    OBVIOUS
  <2>1. Earlier(s[i], s[j])
    BY <1>1
  <2>2. films[s[i]].start < films[s[j]].start \/ films[s[i]].start = films[s[j]].start
    BY <2>1 DEF Earlier
  <2>3. /\ A[i] = films[s[i]].start /\ A[j] = films[s[j]].start
        /\ A[i] \in Nat /\ A[j] \in Nat
    BY <1>2
  <2> QED BY <2>2, <2>3
<1>5. \A i, j \in 1 .. n : i # j => ~((A[i] .. E[i] - 1) \subseteq (A[j] .. E[j] - 1))
  <2> SUFFICES ASSUME NEW i \in 1 .. n, NEW j \in 1 .. n, i # j
               PROVE  ~((A[i] .. E[i] - 1) \subseteq (A[j] .. E[j] - 1))
    OBVIOUS
  <2>1. s[i] \in S /\ s[j] \in S /\ s[i] # s[j]
    <3>1. s[i] \in Clip /\ s[j] \in Clip /\ (i < j \/ j < i)
      BY <1>1
    <3>2. Earlier(s[i], s[j]) \/ Earlier(s[j], s[i])
      BY <1>1, <3>1
    <3>3. s[i] # s[j]
      BY <3>1, <3>2, EarlierOrders
    <3> QED BY <1>1, <3>3
  <2>2. ~(Instants(s[i]) \subseteq Instants(s[j]))
    BY <2>1 DEF Clean
  <2>3. Instants(s[i]) = A[i] .. E[i] - 1 /\ Instants(s[j]) = A[j] .. E[j] - 1
    BY <1>2 DEF Instants
  <2> QED BY <2>2, <2>3
<1>6. \A i, j \in 1 .. n : i < j => A[i] < A[j] /\ E[i] < E[j]
  <2>1. OneByOne(n, A, E)
    BY <1>1, <1>3, <1>4, <1>5 DEF OneByOne
  <2> QED BY <2>1, IntervalsStep
<1>7. Lined(S, n, s, A, E)
  BY <1>1, <1>2, <1>3, <1>6 DEF Lined
<1> QED BY <1>7

Shown(S) == UNION {Instants(c) : c \in S}
Span(S) == UNION {films[c].start .. EndOf(d) - 1 : c, d \in S}

Stretch(c, d) == films[c].start .. EndOf(d) - 1

LEMMA SpanHas ==
    ASSUME NEW S, NEW t
    PROVE  t \in Span(S) <=> \E c, d \in S : t \in Stretch(c, d)
<1>1. Span(S) = UNION {Stretch(c, d) : c, d \in S}
  BY DEF Span, Stretch
<1>2. ASSUME t \in Span(S) PROVE \E c, d \in S : t \in Stretch(c, d)
  BY <1>1, <1>2
<1>3. ASSUME NEW c \in S, NEW d \in S, t \in Stretch(c, d) PROVE t \in Span(S)
  BY <1>1, <1>3
<1> QED BY <1>2, <1>3

LEMMA SpanLined ==
    ASSUME NEW S, NEW n, NEW s, NEW A, NEW E, Lined(S, n, s, A, E)
    PROVE  /\ Span(S) = A[1] .. E[n] - 1
           /\ \A t : t \in Shown(S) <=> \E i \in 1 .. n : t \in A[i] .. E[i] - 1
<1>1. /\ n \in Nat /\ n > 0 /\ 1 \in 1 .. n /\ n \in 1 .. n
      /\ \A i \in 1 .. n : A[i] \in Nat /\ E[i] \in Nat
      /\ \A i \in 1 .. n : s[i] \in S /\ A[i] = films[s[i]].start /\ E[i] = EndOf(s[i])
      /\ \A c \in S : \E i \in 1 .. n : s[i] = c
      /\ \A i, j \in 1 .. n : i < j => A[i] < A[j] /\ E[i] < E[j]
  BY DEF Lined
<1>2. \A i \in 1 .. n : A[1] <= A[i] /\ E[i] <= E[n]
  <2> SUFFICES ASSUME NEW i \in 1 .. n PROVE A[1] <= A[i] /\ E[i] <= E[n]
    OBVIOUS
  <2>1. (1 = i \/ 1 < i) /\ (i = n \/ i < n)
    BY <1>1
  <2>2. (1 < i => A[1] < A[i]) /\ (i < n => E[i] < E[n])
    BY <1>1
  <2>3. A[1] \in Nat /\ A[i] \in Nat /\ E[i] \in Nat /\ E[n] \in Nat
    BY <1>1
  <2> QED BY <2>1, <2>2, <2>3
<1>3. ASSUME NEW t \in Span(S) PROVE t \in A[1] .. E[n] - 1
  <2>1. PICK c \in S, d \in S : t \in films[c].start .. EndOf(d) - 1
    BY SpanHas DEF Stretch
  <2>2. PICK i \in 1 .. n, j \in 1 .. n : s[i] = c /\ s[j] = d
    BY <1>1, <2>1
  <2>3. t \in A[i] .. E[j] - 1
    BY <1>1, <2>1, <2>2
  <2>4. /\ A[1] \in Nat /\ A[i] \in Nat /\ E[j] \in Nat /\ E[n] \in Nat
        /\ A[1] <= A[i] /\ E[j] <= E[n]
    BY <1>1, <1>2
  <2> QED BY <2>3, <2>4
<1>4. ASSUME NEW t \in A[1] .. E[n] - 1 PROVE t \in Span(S)
  <2>1. s[1] \in S /\ s[n] \in S /\ t \in films[s[1]].start .. EndOf(s[n]) - 1
    BY <1>1
  <2> QED BY <2>1, SpanHas DEF Stretch
<1>5. ASSUME NEW t PROVE t \in Shown(S) <=> \E i \in 1 .. n : t \in A[i] .. E[i] - 1
  <2>1. ASSUME t \in Shown(S) PROVE \E i \in 1 .. n : t \in A[i] .. E[i] - 1
    <3>1. PICK c \in S : t \in Instants(c)
      BY <2>1 DEF Shown
    <3>2. PICK i \in 1 .. n : s[i] = c
      BY <1>1, <3>1
    <3> QED BY <1>1, <3>1, <3>2 DEF Instants
  <2>2. ASSUME NEW i \in 1 .. n, t \in A[i] .. E[i] - 1 PROVE t \in Shown(S)
    <3>1. s[i] \in S /\ t \in Instants(s[i])
      BY <1>1, <2>2 DEF Instants
    <3> QED BY <3>1 DEF Shown
  <2> QED BY <2>1, <2>2
<1>6. Span(S) = A[1] .. E[n] - 1
  BY <1>3, <1>4
<1> QED BY <1>5, <1>6

\* The whole length.
LEMMA WallIsSpan ==
    ASSUME NEW S, S # {}, NEW n, NEW s, NEW A, NEW E, Lined(S, n, s, A, E)
    PROVE  buildPreview(S).wall = Cardinality(Span(S))
<1>1. Span(S) = A[1] .. E[n] - 1
  BY SpanLined
<1>2. /\ n \in Nat /\ n > 0 /\ 1 \in 1 .. n /\ n \in 1 .. n /\ Len(s) = n /\ s = Ordered(S)
      /\ A[1] = films[s[1]].start /\ E[n] = EndOf(s[n])
      /\ A[1] \in Nat /\ E[n] \in Nat /\ A[n] \in Nat
      /\ A[n] < E[n] /\ (1 < n => A[1] < A[n])
  BY DEF Lined
<1>3. buildPreview(S).wall = EndOf(s[n]) - films[s[1]].start
  BY <1>2 DEF buildPreview, Last
<1> PICK a, b : a = A[1] /\ b = E[n]
  OBVIOUS
<1>4. a \in Nat /\ b \in Nat /\ a < b
  <2>1. n = 1 \/ 1 < n
    BY <1>2
  <2> QED BY <1>2, <2>1
<1>5. a \in Int /\ b - 1 \in Int /\ ~(a > b - 1) /\ (b - 1) - a + 1 = b - a
  BY <1>4
<1>6. Cardinality(a .. b - 1) = (b - 1) - a + 1
  BY <1>5, FS_Interval
<1> QED BY <1>1, <1>2, <1>3, <1>5, <1>6

\* What is missing before each clip but the first.
GapsOf(n, A, E) == [i \in 2 .. n |-> E[i - 1] .. A[i] - 1]

LEMMA GapsAre ==
    ASSUME NEW S, NEW n, NEW s, NEW A, NEW E, Lined(S, n, s, A, E)
    PROVE  /\ Disjoint(GapsOf(n, A, E), 2 .. n)
           /\ Cover(GapsOf(n, A, E), 2 .. n) = Span(S) \ Shown(S)
           /\ \A i \in 2 .. n : /\ IsFiniteSet(GapsOf(n, A, E)[i])
                                /\ Cardinality(GapsOf(n, A, E)[i]) = Gap(s, i)
<1> PICK G : G = GapsOf(n, A, E)
  OBVIOUS
<1>1. /\ n \in Nat /\ n > 0 /\ A \in [1 .. n -> Nat] /\ E \in [1 .. n -> Nat]
      /\ \A i \in 1 .. n : A[i] < E[i]
      /\ \A i, j \in 1 .. n : i < j => A[i] < A[j] /\ E[i] < E[j]
      /\ \A i \in 1 .. n : A[i] = films[s[i]].start /\ E[i] = EndOf(s[i])
  BY DEF Lined
<1>0. Rising(n, A, E)
  BY <1>1 DEF Rising
<1>2. \A i \in 2 .. n : G[i] = E[i - 1] .. A[i] - 1
  BY DEF GapsOf
<1>3. \A t : t \in Cover(G, 2 .. n) <=> \E i \in 2 .. n : t \in E[i - 1] .. A[i] - 1
  BY <1>2 DEF Cover
<1>4. ASSUME NEW i \in 2 .. n PROVE E[i - 1] \in Nat /\ A[i] \in Nat /\ i \in 1 .. n /\ i - 1 \in 1 .. n
  BY <1>1
<1>5. ASSUME NEW i \in 2 .. n, NEW j \in 2 .. n, NEW t, t \in E[i - 1] .. A[i] - 1
      PROVE  /\ t \in E[j - 1] .. A[j] - 1 => j = i
             /\ \A k \in 1 .. n : t \notin A[k] .. E[k] - 1
  <2>1. t \in Int
    BY <1>4, <1>5
  <2> QED BY <1>1, <1>5, <2>1, GapsDisjoint
<1>6. Disjoint(G, 2 .. n)
  <2> SUFFICES ASSUME NEW i \in 2 .. n, NEW j \in 2 .. n, i # j, NEW t, t \in G[i], t \in G[j]
               PROVE  FALSE
    BY DEF Disjoint
  <2>1. t \in E[i - 1] .. A[i] - 1 /\ t \in E[j - 1] .. A[j] - 1
    BY <1>2
  <2> QED BY <1>5, <2>1
<1>7. Span(S) = A[1] .. E[n] - 1 /\ \A t : t \in Shown(S) <=> \E i \in 1 .. n : t \in A[i] .. E[i] - 1
  BY SpanLined
<1>8. ASSUME NEW t PROVE t \in Cover(G, 2 .. n) <=> t \in Span(S) /\ t \notin Shown(S)
  <2>1. ASSUME t \in Cover(G, 2 .. n) PROVE t \in Span(S) /\ t \notin Shown(S)
    <3>1. PICK i \in 2 .. n : t \in E[i - 1] .. A[i] - 1
      BY <1>3, <2>1
    <3>2. t \in Int
      BY <1>4, <3>1
    <3>3. t \in A[1] .. E[n] - 1
      <4>1. InGap(n, A, E, t)
        BY <3>1 DEF InGap
      <4> QED BY <1>0, <3>2, <4>1, SpanRising
    <3>4. \A k \in 1 .. n : t \notin A[k] .. E[k] - 1
      BY <1>5, <3>1
    <3> QED BY <1>7, <3>3, <3>4
  <2>2. ASSUME t \in Span(S), t \notin Shown(S) PROVE t \in Cover(G, 2 .. n)
    <3>1. t \in A[1] .. E[n] - 1 /\ \A k \in 1 .. n : t \notin A[k] .. E[k] - 1
      BY <1>7, <2>2
    <3>2. t \in Int
      <4>1. A[1] \in Nat /\ E[n] \in Nat
        BY <1>1
      <4> QED BY <3>1, <4>1
    <3>3. \E i \in 2 .. n : t \in E[i - 1] .. A[i] - 1
      <4>1. t \in A[1] .. E[n] - 1 /\ ~InInterval(n, A, E, t)
        BY <3>1 DEF InInterval
      <4>2. InGap(n, A, E, t)
        BY <1>0, <3>2, <4>1, SpanRising
      <4> QED BY <4>2 DEF InGap
    <3> QED BY <1>3, <3>3
  <2> QED BY <2>1, <2>2
<1>9. ASSUME NEW i \in 2 .. n PROVE IsFiniteSet(G[i]) /\ Cardinality(G[i]) = Gap(s, i)
  <2> PICK a, b : a = E[i - 1] /\ b = A[i]
    OBVIOUS
  <2>1. a \in Int /\ b \in Int /\ b - 1 \in Int /\ (a > b - 1 <=> ~(b - a > 0)) /\ (b - 1) - a + 1 = b - a
    BY <1>4
  <2>2. G[i] = a .. b - 1
    BY <1>2
  <2>3. IsFiniteSet(a .. b - 1) /\ Cardinality(a .. b - 1) = IF a > b - 1 THEN 0 ELSE (b - 1) - a + 1
    BY <2>1, FS_Interval
  <2>4. Delta(s, i) = b - a
    BY <1>1, <1>4 DEF Delta
  <2>5. Gap(s, i) = IF b - a > 0 THEN b - a ELSE 0
    BY <2>4 DEF Gap
  <2> QED BY <2>1, <2>2, <2>3, <2>5
<1>10. Cover(G, 2 .. n) = Span(S) \ Shown(S)
  BY <1>8
<1> QED BY <1>6, <1>9, <1>10

\* The sum of the gaps, and that of the lengths.
Missing(s, T, q) == [t \in SUBSET T |-> IF t = {} THEN 0 ELSE Gap(s, Picked(t)) + q[t \ {Picked(t)}]]
Lasting(T, q) == [t \in SUBSET T |-> IF t = {} THEN 0 ELSE films[Picked(t)].ms + q[t \ {Picked(t)}]]

Overlapping(s) == {i \in 2 .. Len(s) : Delta(s, i) < 0}

LEMMA PreviewIs ==
    ASSUME NEW S, NEW s, s = Ordered(S)
    PROVE  /\ buildPreview(S).dropped = (CHOOSE q : q = Missing(s, 2 .. Len(s), q))[2 .. Len(s)]
           /\ buildPreview(S).video = (CHOOSE q : q = Lasting(S, q))[S]
           /\ buildPreview(S).overlaps = Cardinality(Overlapping(s))
  BY DEF buildPreview, Overlapping, MapThenSumSet, MapThenFoldSet, Missing, Lasting, Picked

LEMMA MissingIs ==
    ASSUME NEW s, NEW T, NEW q
    PROVE  Missing(s, T, q) = Adding([i \in T |-> Gap(s, i)], T, q)
<1> PICK f : f = [i \in T |-> Gap(s, i)]
  OBVIOUS
<1>1. ASSUME NEW t \in SUBSET T PROVE Missing(s, T, q)[t] = Adding(f, T, q)[t]
  <2>1. Missing(s, T, q)[t] = IF t = {} THEN 0 ELSE Gap(s, Picked(t)) + q[t \ {Picked(t)}]
    BY DEF Missing
  <2>2. Adding(f, T, q)[t] = IF t = {} THEN 0 ELSE f[Picked(t)] + q[t \ {Picked(t)}]
    BY DEF Adding, Added
  <2>3. t # {} => f[Picked(t)] = Gap(s, Picked(t))
    <3>1. t # {} => Picked(t) \in t
      BY DEF Picked
    <3> QED BY <3>1
  <2> QED BY <2>1, <2>2, <2>3
<1>2. Missing(s, T, q) = [t \in SUBSET T |-> Missing(s, T, q)[t]]
  BY DEF Missing
<1>3. Adding(f, T, q) = [t \in SUBSET T |-> Adding(f, T, q)[t]]
  BY DEF Adding
<1> QED BY <1>1, <1>2, <1>3

LEMMA LastingIs ==
    ASSUME NEW T, NEW q
    PROVE  Lasting(T, q) = Adding([c \in T |-> films[c].ms], T, q)
<1> PICK f : f = [c \in T |-> films[c].ms]
  OBVIOUS
<1>1. ASSUME NEW t \in SUBSET T PROVE Lasting(T, q)[t] = Adding(f, T, q)[t]
  <2>1. Lasting(T, q)[t] = IF t = {} THEN 0 ELSE films[Picked(t)].ms + q[t \ {Picked(t)}]
    BY DEF Lasting
  <2>2. Adding(f, T, q)[t] = IF t = {} THEN 0 ELSE f[Picked(t)] + q[t \ {Picked(t)}]
    BY DEF Adding, Added
  <2>3. t # {} => f[Picked(t)] = films[Picked(t)].ms
    <3>1. t # {} => Picked(t) \in t
      BY DEF Picked
    <3> QED BY <3>1
  <2> QED BY <2>1, <2>2, <2>3
<1>2. Lasting(T, q) = [t \in SUBSET T |-> Lasting(T, q)[t]]
  BY DEF Lasting
<1>3. Adding(f, T, q) = [t \in SUBSET T |-> Adding(f, T, q)[t]]
  BY DEF Adding
<1> QED BY <1>1, <1>2, <1>3

LEMMA DroppedIsMissing ==
    ASSUME NEW S, NEW n, NEW s, NEW A, NEW E, Lined(S, n, s, A, E)
    PROVE  buildPreview(S).dropped = Cardinality(Span(S) \ Shown(S))
<1> PICK T : T = 2 .. n
  OBVIOUS
<1> PICK G : G = GapsOf(n, A, E)
  OBVIOUS
<1> PICK f : f = [i \in T |-> Gap(s, i)]
  OBVIOUS
<1>1. n \in Nat /\ s = Ordered(S) /\ Len(s) = n
  BY DEF Lined
<1>2. IsFiniteSet(T)
  BY <1>1, FS_Interval
<1>3. /\ \A i \in T : IsFiniteSet(G[i]) /\ f[i] = Cardinality(G[i])
      /\ Disjoint(G, T) /\ Cover(G, T) = Span(S) \ Shown(S)
  BY GapsAre
<1>4. PICK r : r = Adding(f, T, r)
  BY <1>2, SumExists
<1>5. \A q : Missing(s, T, q) = Adding(f, T, q)
  BY MissingIs
<1> PICK q : q = (CHOOSE z : z = Missing(s, T, z))
  OBVIOUS
<1>6. q = Missing(s, T, q)
  BY <1>4, <1>5
<1>7. q = Adding(f, T, q)
  BY <1>5, <1>6
<1>8. CountedUp(G, q, T)
  BY <1>2, <1>3, <1>7, CoverCounts
<1>9. Cardinality(Cover(G, T)) = q[T]
  BY <1>3, <1>8 DEF CountedUp
<1>10. buildPreview(S).dropped = q[T]
  BY <1>1, PreviewIs
<1> QED BY <1>3, <1>9, <1>10

\* A clip that begins before the one before it ends shows some of the drive twice.
LEMMA OverlapsAre ==
    ASSUME NEW S, NEW n, NEW s, NEW A, NEW E, Lined(S, n, s, A, E)
    PROVE  buildPreview(S).overlaps = 0 <=> \A c, d \in S : c # d => Instants(c) \cap Instants(d) = {}
<1>1. /\ n \in Nat /\ n > 0 /\ s = Ordered(S) /\ Len(s) = n
      /\ \A i \in 1 .. n : A[i] \in Nat /\ E[i] \in Nat
      /\ \A i \in 1 .. n : A[i] < E[i]
      /\ \A i \in 1 .. n : s[i] \in S /\ A[i] = films[s[i]].start /\ E[i] = EndOf(s[i])
      /\ \A c \in S : \E i \in 1 .. n : s[i] = c
      /\ \A i, j \in 1 .. n : i < j => A[i] < A[j] /\ E[i] < E[j]
  BY DEF Lined
<1> PICK O : O = {i \in 2 .. n : Delta(s, i) < 0}
  OBVIOUS
<1>2. buildPreview(S).overlaps = Cardinality(O)
  <2>1. s = Ordered(S) /\ Len(s) = n
    BY <1>1
  <2>2. buildPreview(S).overlaps = Cardinality(Overlapping(s))
    BY <2>1, PreviewIs
  <2>3. O = Overlapping(s)
    BY <2>1 DEF Overlapping
  <2> QED BY <2>2, <2>3
<1>3. IsFiniteSet(O)
  <2>1. IsFiniteSet(2 .. n) /\ O \in SUBSET (2 .. n)
    BY <1>1, FS_Interval
  <2> QED BY <2>1, FS_Subset
<1>4. Cardinality(O) = 0 <=> O = {}
  BY <1>3, FS_EmptySet
<1>5. \A i \in 2 .. n : Delta(s, i) = A[i] - E[i - 1]
  <2> SUFFICES ASSUME NEW i \in 2 .. n PROVE Delta(s, i) = A[i] - E[i - 1]
    OBVIOUS
  <2>1. i \in 1 .. n /\ i - 1 \in 1 .. n
    BY <1>1
  <2> QED BY <1>1, <2>1 DEF Delta
<1>6. ASSUME O = {}, NEW i \in 1 .. n, NEW j \in 1 .. n, i < j PROVE E[i] <= A[j]
  <2> PICK k : k = i + 1
    OBVIOUS
  <2>1. k \in 2 .. n /\ k \in 1 .. n /\ k - 1 = i /\ (k = j \/ k < j)
    BY <1>1, <1>6
  <2>2. ~(Delta(s, k) < 0)
    BY <1>6, <2>1
  <2>3. ~(A[k] - E[i] < 0)
    BY <1>5, <2>1, <2>2
  <2>4. /\ A[k] \in Nat /\ E[i] \in Nat /\ A[j] \in Nat
        /\ k < j => A[k] < A[j]
    BY <1>1, <2>1
  <2> QED BY <2>1, <2>3, <2>4
<1>7. ASSUME O = {}, NEW c \in S, NEW d \in S, c # d PROVE Instants(c) \cap Instants(d) = {}
  <2>1. PICK i \in 1 .. n, j \in 1 .. n : s[i] = c /\ s[j] = d
    BY <1>1
  <2>2. i < j \/ j < i
    BY <1>7, <2>1
  <2>3. E[i] <= A[j] \/ E[j] <= A[i]
    BY <1>6, <1>7, <2>2
  <2>4. Instants(c) = A[i] .. E[i] - 1 /\ Instants(d) = A[j] .. E[j] - 1
    BY <1>1, <2>1 DEF Instants
  <2>5. A[i] \in Nat /\ E[i] \in Nat /\ A[j] \in Nat /\ E[j] \in Nat
    BY <1>1
  <2>6. (A[i] .. E[i] - 1) \cap (A[j] .. E[j] - 1) = {}
    BY <2>3, <2>5
  <2> QED BY <2>4, <2>6
<1>8. ASSUME \A c, d \in S : c # d => Instants(c) \cap Instants(d) = {}, NEW i \in O PROVE FALSE
  <2> PICK k : k = i - 1
    OBVIOUS
  <2>1. i \in 2 .. n /\ i \in 1 .. n /\ k \in 1 .. n /\ k < i
    BY <1>1
  <2>2. Delta(s, i) < 0
    OBVIOUS
  <2>3. A[i] - E[k] < 0
    BY <1>5, <2>1, <2>2
  <2>4. /\ A[i] \in Nat /\ E[i] \in Nat /\ A[k] \in Nat /\ E[k] \in Nat
        /\ A[i] < E[i] /\ A[k] < A[i]
    BY <1>1, <2>1
  <2>5. A[i] \in A[i] .. E[i] - 1 /\ A[i] \in A[k] .. E[k] - 1
    BY <2>3, <2>4
  <2>6. Instants(s[i]) = A[i] .. E[i] - 1 /\ Instants(s[k]) = A[k] .. E[k] - 1
    BY <1>1, <2>1 DEF Instants
  <2>7. s[i] \in S /\ s[k] \in S /\ s[i] # s[k]
    BY <1>1, <2>1, <2>4
  <2> QED BY <1>8, <2>5, <2>6, <2>7
<1> QED BY <1>2, <1>4, <1>7, <1>8

LEMMA VideoIsShown ==
    ASSUME WizardTypeOK, NEW S \in SUBSET Clip, Clean(S)
    PROVE  buildPreview(S).video = Cardinality(Shown(S))
              <=> \A c, d \in S : c # d => Instants(c) \cap Instants(d) = {}
<1> PICK G, f : G = [c \in S |-> Instants(c)] /\ f = [c \in S |-> films[c].ms]
  OBVIOUS
<1>1. IsFiniteSet(S)
  BY WizardAssumption, FS_Subset
<1>2. ASSUME NEW c \in S PROVE IsFiniteSet(G[c]) /\ f[c] = Cardinality(G[c])
  <2> PICK a, m : a = films[c].start /\ m = films[c].ms
    OBVIOUS
  <2>1. a \in Nat /\ m \in Nat /\ m # 0
    BY EarlierOrders DEF Clean
  <2>2. a \in Int /\ (a + m) - 1 \in Int /\ ~(a > (a + m) - 1) /\ ((a + m) - 1) - a + 1 = m
    BY <2>1
  <2>3. IsFiniteSet(a .. (a + m) - 1) /\ Cardinality(a .. (a + m) - 1) = ((a + m) - 1) - a + 1
    BY <2>2, FS_Interval
  <2>4. G[c] = a .. (a + m) - 1 /\ f[c] = m
    BY DEF Instants, EndOf
  <2> QED BY <2>2, <2>3, <2>4
<1>3. PICK r : r = Adding(f, S, r)
  BY <1>1, SumExists
<1>4. \A q : Lasting(S, q) = Adding(f, S, q)
  BY LastingIs
<1> PICK q : q = (CHOOSE z : z = Lasting(S, z))
  OBVIOUS
<1>5. q = Lasting(S, q)
  BY <1>3, <1>4
<1>6. q = Adding(f, S, q)
  BY <1>4, <1>5
<1>7. CountedUp(G, q, S)
  BY <1>1, <1>2, <1>6, CoverCounts
<1>8. Cover(G, S) = Shown(S)
  BY DEF Cover, Shown
<1>9. Disjoint(G, S) <=> \A c, d \in S : c # d => Instants(c) \cap Instants(d) = {}
  BY DEF Disjoint
<1>10. buildPreview(S).video = q[S]
  BY PreviewIs
<1> QED BY <1>7, <1>8, <1>9, <1>10 DEF CountedUp

\* What PreviewIsTheFilm says of one list.
PreviewTells(S) ==
    LET p == buildPreview(S)
        shown == UNION {Instants(c) : c \in S}
        span == UNION {films[c].start .. EndOf(d) - 1 : c, d \in S}
    IN  \/ p.unknown
        \/ \E c, d \in S : c # d /\ Instants(c) \subseteq Instants(d)
        \/ /\ p.wall = Cardinality(span)
           /\ p.dropped = Cardinality(span \ shown)
           /\ p.overlaps = 0 <=> p.video = Cardinality(shown)

LEMMA PreviewTrue == WizardTypeOK => PreviewIsTheFilm
<1>0. PreviewIsTheFilm <=> \A S \in {ToSet(clips[v]) : v \in View} \ {{}} : PreviewTells(S)
  BY DEF PreviewIsTheFilm, PreviewTells
<1> SUFFICES ASSUME WizardTypeOK, NEW S \in {ToSet(clips[v]) : v \in View} \ {{}}
             PROVE  PreviewTells(S)
  BY <1>0
<1>1. S \in SUBSET Clip /\ S # {}
  <2>1. PICK v \in View : S = ToSet(clips[v])
    OBVIOUS
  <2>2. clips[v] \in Seq(Clip)
    BY DEF WizardTypeOK
  <2>3. DOMAIN clips[v] = 1 .. Len(clips[v]) /\ clips[v] \in [1 .. Len(clips[v]) -> Clip]
    BY <2>2, LenProperties
  <2>4. \A i \in DOMAIN clips[v] : clips[v][i] \in Clip
    BY <2>3
  <2>5. ToSet(clips[v]) \subseteq Clip
    BY <2>4 DEF ToSet
  <2> QED BY <2>1, <2>5
<1>2. buildPreview(S).unknown <=> \E c \in S : films[c].ms = 0
  BY DEF buildPreview
<1>3. ASSUME Clean(S)
      PROVE  /\ buildPreview(S).wall = Cardinality(Span(S))
             /\ buildPreview(S).dropped = Cardinality(Span(S) \ Shown(S))
             /\ buildPreview(S).overlaps = 0 <=> buildPreview(S).video = Cardinality(Shown(S))
  <2>1. PICK n, s, A, E : Lined(S, n, s, A, E)
    BY <1>1, <1>3, CleanLined
  <2>2. buildPreview(S).wall = Cardinality(Span(S))
    BY <1>1, <2>1, WallIsSpan
  <2>3. buildPreview(S).dropped = Cardinality(Span(S) \ Shown(S))
    BY <2>1, DroppedIsMissing
  <2> QED BY <1>1, <1>3, <2>1, <2>2, <2>3, OverlapsAre, VideoIsShown
<1>4. Clean(S) \/ (\E c \in S : films[c].ms = 0)
               \/ \E c, d \in S : c # d /\ Instants(c) \subseteq Instants(d)
  BY DEF Clean
<1>5. /\ Shown(S) = UNION {Instants(c) : c \in S}
      /\ Span(S) = UNION {films[c].start .. EndOf(d) - 1 : c, d \in S}
  BY DEF Shown, Span
<1> QED BY <1>2, <1>3, <1>4, <1>5 DEF PreviewTells

\* A clip that is moved changes places with its neighbour.
LEMMA RemoveIs ==
    ASSUME NEW T, NEW s \in Seq(T), NEW i \in 1 .. Len(s)
    PROVE  /\ RemoveAt(s, i) \in Seq(T) /\ Len(RemoveAt(s, i)) = Len(s) - 1
           /\ \A k \in 1 .. Len(s) - 1 : RemoveAt(s, i)[k] = IF k < i THEN s[k] ELSE s[k + 1]
<1> PICK n : n = Len(s)
  OBVIOUS
<1>1. n \in Nat /\ \A k \in 1 .. n : s[k] \in T
  BY LenProperties, ElementOfSeq
<1>0. PICK a, b : a = SubSeq(s, 1, i - 1) /\ b = SubSeq(s, i + 1, n)
  OBVIOUS
<1>2. a \in Seq(T) /\ Len(a) = i - 1 /\ \A k \in 1 .. i - 1 : a[k] = s[k]
  <2>1. 1 \in Int /\ i - 1 \in Int /\ \A k \in 1 .. i - 1 : s[k] \in T
    BY <1>1
  <2>2. /\ a \in Seq(T) /\ Len(a) = IF 1 <= i - 1 THEN (i - 1) - 1 + 1 ELSE 0
        /\ \A k \in 1 .. (i - 1) - 1 + 1 : a[k] = s[1 + k - 1]
    BY <1>0, <2>1, SubSeqProperties
  <2> QED BY <1>1, <2>2
<1>3. b \in Seq(T) /\ Len(b) = n - i /\ \A k \in 1 .. n - i : b[k] = s[i + k]
  <2>1. i + 1 \in Int /\ n \in Int /\ \A k \in i + 1 .. n : s[k] \in T
    BY <1>1
  <2>2. /\ b \in Seq(T) /\ Len(b) = IF i + 1 <= n THEN n - (i + 1) + 1 ELSE 0
        /\ \A k \in 1 .. n - (i + 1) + 1 : b[k] = s[(i + 1) + k - 1]
    BY <1>0, <2>1, SubSeqProperties
  <2> QED BY <1>1, <2>2
<1>4. /\ a \o b \in Seq(T) /\ Len(a \o b) = Len(a) + Len(b)
      /\ \A k \in 1 .. Len(a) + Len(b) : (a \o b)[k] = IF k <= Len(a) THEN a[k] ELSE b[k - Len(a)]
  <2>1. a \in Seq(T) /\ b \in Seq(T)
    BY <1>2, <1>3
  <2> QED BY <2>1, ConcatProperties
<1>5. RemoveAt(s, i) = a \o b
  BY <1>0 DEF RemoveAt
<1>6. Len(a) + Len(b) = n - 1
  <2>1. Len(a) = i - 1 /\ Len(b) = n - i /\ i \in Int /\ n \in Int
    BY <1>1, <1>2, <1>3
  <2> QED BY <2>1
<1>7. ASSUME NEW k \in 1 .. n - 1 PROVE (a \o b)[k] = IF k < i THEN s[k] ELSE s[k + 1]
  <2>1. (a \o b)[k] = IF k <= i - 1 THEN a[k] ELSE b[k - (i - 1)]
    BY <1>2, <1>4, <1>6
  <2>2. k <= i - 1 => a[k] = s[k]
    BY <1>1, <1>2
  <2>3. ~(k <= i - 1) => b[k - (i - 1)] = s[k + 1]
    <3>1. ~(k <= i - 1) => k - (i - 1) \in 1 .. n - i /\ i + (k - (i - 1)) = k + 1
      BY <1>1
    <3> QED BY <1>3, <3>1
  <2>4. k < i <=> k <= i - 1
    BY <1>1
  <2> QED BY <2>1, <2>2, <2>3, <2>4
<1> QED BY <1>4, <1>5, <1>6, <1>7

Inserted(q, T, r, n, i, e) ==
    /\ q \in Seq(T) /\ Len(q) = n + 1 /\ q[i] = e
    /\ \A k \in 1 .. n + 1 : k < i => q[k] = r[k]
    /\ \A k \in 1 .. n + 1 : k > i => q[k] = r[k - 1]

LEMMA InsertIs ==
    ASSUME NEW T, NEW r \in Seq(T), NEW n, n = Len(r), NEW i \in 1 .. n + 1, NEW e \in T
    PROVE  Inserted(InsertAt(r, i, e), T, r, n, i, e)
<1>1. n \in Nat /\ i \in 1 .. n + 1 /\ \A k \in 1 .. n : r[k] \in T
  BY LenProperties, ElementOfSeq
<1>0. PICK a, b : a = SubSeq(r, 1, i - 1) /\ b = SubSeq(r, i, n)
  OBVIOUS
<1>2. a \in Seq(T) /\ Len(a) = i - 1 /\ \A k \in 1 .. i - 1 : a[k] = r[k]
  <2>1. 1 \in Int /\ i - 1 \in Int /\ \A k \in 1 .. i - 1 : r[k] \in T
    BY <1>1
  <2>2. /\ a \in Seq(T) /\ Len(a) = IF 1 <= i - 1 THEN (i - 1) - 1 + 1 ELSE 0
        /\ \A k \in 1 .. (i - 1) - 1 + 1 : a[k] = r[1 + k - 1]
    BY <1>0, <2>1, SubSeqProperties
  <2> QED BY <1>1, <2>2
<1>3. b \in Seq(T) /\ Len(b) = (n - i) + 1 /\ \A k \in 1 .. (n - i) + 1 : b[k] = r[(i + k) - 1]
  <2>1. i \in Int /\ n \in Int /\ \A k \in i .. n : r[k] \in T
    BY <1>1
  <2>2. /\ b \in Seq(T) /\ Len(b) = IF i <= n THEN n - i + 1 ELSE 0
        /\ \A k \in 1 .. n - i + 1 : b[k] = r[i + k - 1]
    BY <1>0, <2>1, SubSeqProperties
  <2> QED BY <1>1, <2>2
<1>9. PICK c : c = a \o <<e>>
  OBVIOUS
<1>4. c \in Seq(T) /\ Len(c) = i /\ \A k \in 1 .. i : c[k] = IF k < i THEN a[k] ELSE e
  <2>1. <<e>> \in Seq(T) /\ Len(<<e>>) = 1 /\ <<e>>[1] = e
    OBVIOUS
  <2>2. /\ c \in Seq(T) /\ Len(c) = Len(a) + 1
        /\ \A k \in 1 .. Len(a) + 1 : c[k] = IF k <= Len(a) THEN a[k] ELSE <<e>>[k - Len(a)]
    BY <1>2, <1>9, <2>1, ConcatProperties
  <2>3. Len(a) + 1 = i /\ Len(a) = i - 1
    BY <1>1, <1>2
  <2>4. ASSUME NEW k \in 1 .. i PROVE c[k] = IF k < i THEN a[k] ELSE e
    <3>1. c[k] = IF k <= i - 1 THEN a[k] ELSE <<e>>[k - (i - 1)]
      BY <2>2, <2>3
    <3>2. (k < i <=> k <= i - 1) /\ (~(k < i) => k - (i - 1) = 1)
      BY <1>1
    <3> QED BY <2>1, <3>1, <3>2
  <2> QED BY <2>2, <2>3, <2>4
<1>5. /\ c \o b \in Seq(T) /\ Len(c \o b) = Len(c) + Len(b)
      /\ \A k \in 1 .. Len(c) + Len(b) : (c \o b)[k] = IF k <= Len(c) THEN c[k] ELSE b[k - Len(c)]
  <2>1. c \in Seq(T) /\ b \in Seq(T)
    BY <1>3, <1>4
  <2> QED BY <2>1, ConcatProperties
<1>6. InsertAt(r, i, e) = c \o b
  BY <1>0, <1>9 DEF InsertAt
<1>7. Len(c) + Len(b) = n + 1
  BY <1>1, <1>3, <1>4
<1>8. ASSUME NEW k \in 1 .. n + 1
      PROVE  /\ k < i => (c \o b)[k] = r[k]
             /\ k = i => (c \o b)[k] = e
             /\ k > i => (c \o b)[k] = r[k - 1]
  <2>1. (c \o b)[k] = IF k <= i THEN c[k] ELSE b[k - i]
    BY <1>4, <1>5, <1>7
  <2>2. k < i => c[k] = r[k]
    BY <1>1, <1>2, <1>4
  <2>3. k = i => c[k] = e
    BY <1>1, <1>4
  <2>4. ~(k <= i) => b[k - i] = r[k - 1]
    <3>1. ~(k <= i) => k - i \in 1 .. (n - i) + 1 /\ (i + (k - i)) - 1 = k - 1
      BY <1>1
    <3> QED BY <1>3, <3>1
  <2>5. k \in Int /\ i \in Int
    BY <1>1
  <2>6. CASE k < i
    BY <2>1, <2>2, <2>5, <2>6
  <2>7. CASE k = i
    BY <2>1, <2>3, <2>5, <2>7
  <2>8. CASE k > i
    BY <2>1, <2>4, <2>5, <2>8
  <2>9. k < i \/ k = i \/ k > i
    BY <2>5
  <2> QED BY <2>6, <2>7, <2>8, <2>9
<1> QED BY <1>1, <1>5, <1>6, <1>7, <1>8 DEF Inserted

Swapped(q, T, s, n, i, j) ==
    /\ q \in Seq(T) /\ Len(q) = n /\ q[j] = s[i]
    /\ \A k \in 1 .. n : k < j /\ k < i => q[k] = s[k]
    /\ \A k \in 1 .. n : k < j /\ ~(k < i) => q[k] = s[k + 1]
    /\ \A k \in 1 .. n : k > j /\ k - 1 < i => q[k] = s[k - 1]
    /\ \A k \in 1 .. n : k > j /\ ~(k - 1 < i) => q[k] = s[k]

LEMMA Reinserted ==
    ASSUME NEW T, NEW s \in Seq(T), NEW n, n = Len(s), NEW i \in 1 .. n, NEW j \in 1 .. n,
           NEW q, q = InsertAt(RemoveAt(s, i), j, s[i])
    PROVE  Swapped(q, T, s, n, i, j)
<1>1. n \in Nat /\ s[i] \in T
  BY LenProperties, ElementOfSeq
<1>2. PICK r : r = RemoveAt(s, i)
  OBVIOUS
<1>3. r \in Seq(T) /\ Len(r) = n - 1 /\ \A k \in 1 .. n - 1 : r[k] = IF k < i THEN s[k] ELSE s[k + 1]
  BY <1>2, RemoveIs
<1> PICK m, e : m = Len(r) /\ e = s[i]
  OBVIOUS
<1>4. r \in Seq(T) /\ m = Len(r) /\ m + 1 = n /\ e \in T /\ j \in 1 .. m + 1
  BY <1>1, <1>3
<1>5. q = InsertAt(r, j, e)
  BY <1>2
<1>6. /\ q \in Seq(T) /\ Len(q) = m + 1 /\ q[j] = e
      /\ \A k \in 1 .. m + 1 : k < j => q[k] = r[k]
      /\ \A k \in 1 .. m + 1 : k > j => q[k] = r[k - 1]
  <2>1. Inserted(q, T, r, m, j, e)
    BY <1>4, <1>5, InsertIs
  <2> QED BY <2>1 DEF Inserted
<1>7. ASSUME NEW k \in 1 .. n, k < j PROVE q[k] = IF k < i THEN s[k] ELSE s[k + 1]
  <2>1. k \in 1 .. n - 1 /\ k \in 1 .. m + 1
    BY <1>1, <1>4, <1>7
  <2> QED BY <1>3, <1>6, <1>7, <2>1
<1>8. ASSUME NEW k \in 1 .. n, k > j PROVE q[k] = IF k - 1 < i THEN s[k - 1] ELSE s[k]
  <2>1. k - 1 \in 1 .. n - 1 /\ k \in 1 .. m + 1 /\ (k - 1) + 1 = k
    BY <1>1, <1>4, <1>8
  <2> QED BY <1>3, <1>6, <1>8, <2>1
<1> QED BY <1>4, <1>6, <1>7, <1>8 DEF Swapped

LEMMA MovedIs ==
    ASSUME NEW T, NEW s \in Seq(T), NEW from \in DOMAIN s, NEW to \in {from - 1, from + 1}
    PROVE  moveClip(s, from, to) \in Seq(T) /\ ToSet(moveClip(s, from, to)) = ToSet(s)
<1>1. CASE to \notin DOMAIN s
  BY <1>1 DEF moveClip
<1>2. CASE to \in DOMAIN s
  <2> PICK n : n = Len(s)
    OBVIOUS
  <2>1. n \in Nat /\ DOMAIN s = 1 .. n /\ from \in 1 .. n /\ to \in 1 .. n
    BY <1>2, LenProperties
  <2>2. PICK q : q = InsertAt(RemoveAt(s, from), to, s[from])
    OBVIOUS
  <2>3. /\ q \in Seq(T) /\ Len(q) = n /\ q[to] = s[from]
        /\ \A k \in 1 .. n : k < to /\ k < from => q[k] = s[k]
        /\ \A k \in 1 .. n : k < to /\ ~(k < from) => q[k] = s[k + 1]
        /\ \A k \in 1 .. n : k > to /\ k - 1 < from => q[k] = s[k - 1]
        /\ \A k \in 1 .. n : k > to /\ ~(k - 1 < from) => q[k] = s[k]
    <3>1. Swapped(q, T, s, n, from, to)
      BY <2>1, <2>2, Reinserted
    <3> QED BY <3>1 DEF Swapped
  <2>5. ASSUME NEW k \in 1 .. n
        PROVE  q[k] = IF k = to THEN s[from] ELSE IF k = from THEN s[to] ELSE s[k]
    <3>1. CASE k = to
      BY <2>1, <2>3, <3>1
    <3>2. CASE k < to /\ k < from
      BY <2>1, <2>3, <3>2
    <3>3. CASE k < to /\ ~(k < from)
      <4>1. k = from /\ k + 1 = to
        BY <2>1, <3>3
      <4>2. q[k] = s[k + 1]
        BY <2>3, <3>3
      <4> QED BY <2>1, <3>3, <4>1, <4>2
    <3>4. CASE k > to /\ k - 1 < from
      <4>1. k = from /\ k - 1 = to
        BY <2>1, <3>4
      <4>2. q[k] = s[k - 1]
        BY <2>3, <3>4
      <4> QED BY <2>1, <3>4, <4>1, <4>2
    <3>5. CASE k > to /\ ~(k - 1 < from)
      BY <2>1, <2>3, <3>5
    <3>6. k = to \/ k < to \/ k > to
      BY <2>1
    <3> QED BY <3>1, <3>2, <3>3, <3>4, <3>5, <3>6
  <2>6. DOMAIN q = 1 .. n
    BY <2>3, LenProperties
  <2>7. ToSet(q) = ToSet(s)
    <3>1. ASSUME NEW k \in 1 .. n PROVE q[k] \in ToSet(s)
      BY <2>1, <2>5 DEF ToSet
    <3>2. ASSUME NEW k \in 1 .. n PROVE s[k] \in ToSet(q)
      <4>1. q[from] = s[to] /\ q[to] = s[from] /\ (k # from /\ k # to => q[k] = s[k])
        BY <2>1, <2>5
      <4> QED BY <2>1, <2>6, <4>1 DEF ToSet
    <3>3. ASSUME NEW x \in ToSet(q) PROVE x \in ToSet(s)
      <4>1. \E k \in 1 .. n : x = q[k]
        BY <2>6 DEF ToSet
      <4> QED BY <3>1, <4>1
    <3>4. ASSUME NEW x \in ToSet(s) PROVE x \in ToSet(q)
      <4>1. \E k \in 1 .. n : x = s[k]
        BY <2>1 DEF ToSet
      <4> QED BY <3>2, <4>1
    <3> QED BY <3>3, <3>4
  <2>8. moveClip(s, from, to) = q
    BY <1>2, <2>2 DEF moveClip
  <2> QED BY <2>3, <2>7, <2>8
<1> QED BY <1>1, <1>2

Live(p) == sends[p] # None /\ sends[p].at \in {"agree", "hash", "send", "complete"}
Uploaded(p) == sends[p] # None /\ sends[p].completed

Fits(selection) == selection.front # {} /\ (wizard.source = "camera" => selection.gps # {})

\* Unless the page moved on by itself, what it has got to was valid when it got there.
AnswersInv ==
    ~jumped =>
        /\ wizard.step \in {2, 3, 4} => Step1Valid
        /\ wizard.step \in {3, 4} => Step2Valid /\ \A v \in View : ToSet(clips[v]) = picked[v]
        /\ analysing # None => wizard.step = 2 /\ Fits(analysing)

\* A page that was left waits for nothing.
AwayInv == ~There => analysing = None /\ asked = {}

\* A route is chosen from the list of its centre.
RoutesInv ==
    ~rash =>
        /\ wizard.centre # None => wizard.route \in {wizard.centre, None}
        /\ asked = {} /\ wizard.offered # None => wizard.offered = wizard.centre
        /\ \A p \in Attempt :
              sends[p] # None /\ sends[p].centre # None => sends[p].route \in {sends[p].centre, None}

\* One press at a time, and the page shows the step of the one that is past the agreement.
PressesInv ==
    ~twice =>
        /\ \A p, q \in Attempt : Reached(p, "agree") /\ Reached(q, "agree") => p = q
        /\ \A p \in Attempt : Uploaded(p) => ~There
        /\ ~jumped => \A p \in Attempt :
              /\ Sending(p) /\ There => wizard.step = 4
              /\ Sending(p) \/ Uploaded(p) => \A q \in Attempt : Live(q) \/ Uploaded(q) => q = p

WizardInv == WizardTypeOK /\ AnswersInv /\ AwayInv /\ RoutesInv /\ PressesInv

LEMMA NoneIsNoPage == None \notin Selection /\ None \notin Send /\ None \notin Centre
  BY WizardAssumption

LEMMA WizardStarts == WizardInit => WizardInv
<1> SUFFICES ASSUME WizardInit PROVE WizardInv
  OBVIOUS
<1>1. /\ wizard = Fresh(1) /\ analysing = None /\ asked = {} /\ picked = Nothing
      /\ sends = [p \in Attempt |-> None] /\ clips = [v \in View |-> <<>>]
      /\ films \in [Clip -> Film] /\ {jumped, rash, twice} \subseteq BOOLEAN
  BY DEF WizardInit
<1>2. WizardTypeOK
  <2>1. wizard \in Page /\ picked \in Selection
    BY <1>1 DEF Fresh, Page, Nothing, Selection
  <2>2. DOMAIN clips = View /\ \A v \in View : clips[v] \in Seq(Clip)
    BY <1>1
  <2> QED BY <1>1, <2>1, <2>2 DEF WizardTypeOK
<1>3. wizard.step = 1 /\ wizard.centre = None /\ wizard.route = None /\ wizard.offered = None
  BY <1>1 DEF Fresh
<1>4. AnswersInv /\ AwayInv
  BY <1>1, <1>3 DEF AnswersInv, AwayInv
<1>5. RoutesInv
  BY <1>1, <1>3 DEF RoutesInv
<1>6. PressesInv
  <2>1. \A p \in Attempt : ~Reached(p, "agree") /\ ~Uploaded(p) /\ ~Sending(p)
    BY <1>1 DEF Reached, Uploaded, Sending
  <2> QED BY <2>1 DEF PressesInv
<1> QED BY <1>2, <1>4, <1>5, <1>6 DEF WizardInv

\* What an action leaves alone.
LEMMA AnswersStay ==
    ASSUME AnswersInv, jumped' = jumped, picked' = picked, analysing' = analysing,
           wizard'.step = wizard.step, wizard'.centre = wizard.centre,
           wizard'.source = wizard.source, wizard'.journey = wizard.journey,
           \A v \in View : ToSet(clips'[v]) = ToSet(clips[v])
    PROVE  AnswersInv'
<1>1. Step1Valid' = Step1Valid /\ Step2Valid' = Step2Valid
  BY DEF Step1Valid, Step2Valid
<1>2. Fits(analysing)' = Fits(analysing)
  BY DEF Fits
<1> QED BY <1>1, <1>2 DEF AnswersInv

LEMMA AwayStays ==
    ASSUME AwayInv, analysing' = analysing, asked' = asked, wizard'.step = wizard.step
    PROVE  AwayInv'
  BY DEF AwayInv, There

LEMMA RoutesStay ==
    ASSUME RoutesInv, rash' = rash, asked' = asked, sends' = sends,
           wizard'.centre = wizard.centre, wizard'.route = wizard.route,
           wizard'.offered = wizard.offered
    PROVE  RoutesInv'
  BY DEF RoutesInv

LEMMA PressesStay ==
    ASSUME PressesInv, twice' = twice, jumped' = jumped, sends' = sends, wizard'.step = wizard.step
    PROVE  PressesInv'
<1>1. \A p \in Attempt : /\ Reached(p, "agree")' = Reached(p, "agree") /\ Uploaded(p)' = Uploaded(p)
                         /\ Sending(p)' = Sending(p) /\ Live(p)' = Live(p)
  BY DEF Reached, Uploaded, Sending, Live
<1>2. There' = There
  BY DEF There
<1> QED BY <1>1, <1>2 DEF PressesInv

LEMMA ChooseCentreKeeps ==
    ASSUME WizardInv, NEW c \in Centre \cup {None}, ChooseCentre(c)
    PROVE  WizardInv'
<1>1. /\ WizardTypeOK /\ AnswersInv /\ AwayInv /\ RoutesInv /\ PressesInv
      /\ wizard \in Page /\ wizard.step = 1
  BY DEF WizardInv, WizardTypeOK, ChooseCentre
<1>2. /\ wizard' = IF c = None THEN [wizard EXCEPT !.centre = None, !.offered = None]
                   ELSE [wizard EXCEPT !.centre = c, !.route = None]
      /\ asked' = IF c = None THEN asked ELSE asked \cup {c}
      /\ UNCHANGED <<films, picked, clips, analysing, sends, jumped, rash, twice>>
  BY DEF ChooseCentre
<1>3. /\ wizard' \in Page /\ wizard'.step = 1 /\ wizard'.centre = c
      /\ c = None => wizard'.offered = None
      /\ c # None => wizard'.route = None
  BY <1>1, <1>2 DEF Page
<1>4. WizardTypeOK'
  BY <1>1, <1>2, <1>3 DEF WizardTypeOK
<1>5. AnswersInv'
  BY <1>1, <1>2, <1>3 DEF AnswersInv
<1>6. AwayInv'
  BY <1>3 DEF AwayInv, There
<1>7. RoutesInv'
  BY <1>1, <1>2, <1>3 DEF RoutesInv
<1>8. PressesInv'
  BY <1>1, <1>2, <1>3, PressesStay
<1> QED BY <1>4, <1>5, <1>6, <1>7, <1>8 DEF WizardInv

LEMMA ListedKeeps ==
    ASSUME WizardInv, NEW c \in Centre, RoutesListed(c) \/ RoutesNotListed(c)
    PROVE  WizardInv'
<1>1. /\ WizardTypeOK /\ AnswersInv /\ AwayInv /\ RoutesInv /\ PressesInv
      /\ wizard \in Page /\ c \in asked /\ asked \subseteq Centre
  BY DEF WizardInv, WizardTypeOK, RoutesListed, RoutesNotListed
<1>2. /\ wizard' = [wizard EXCEPT !.offered = c] \/ wizard' = [wizard EXCEPT !.offered = None]
      /\ asked' = asked \ {c} /\ rash' \in BOOLEAN /\ (rash => rash')
      /\ UNCHANGED <<films, picked, clips, analysing, sends, jumped, twice>>
      /\ ~rash' => wizard'.offered \in {wizard.centre, None}
  <2>1. rash \in BOOLEAN
    BY <1>1 DEF WizardTypeOK
  <2>2. CASE RoutesListed(c)
    <3>1. wizard' = [wizard EXCEPT !.offered = c] /\ rash' = (rash \/ c # wizard.centre)
      BY <2>2 DEF RoutesListed
    <3>2. wizard'.offered = c
      BY <1>1, <3>1 DEF Page
    <3> QED BY <2>1, <2>2, <3>1, <3>2 DEF RoutesListed
  <2>3. CASE RoutesNotListed(c)
    <3>1. wizard' = [wizard EXCEPT !.offered = None] /\ rash' = rash
      BY <2>3 DEF RoutesNotListed
    <3>2. wizard'.offered = None
      BY <1>1, <3>1 DEF Page
    <3> QED BY <2>1, <2>3, <3>1, <3>2 DEF RoutesNotListed
  <2> QED BY <2>2, <2>3
<1>3. /\ wizard' \in Page /\ wizard'.step = wizard.step /\ wizard'.centre = wizard.centre
      /\ wizard'.route = wizard.route /\ wizard'.source = wizard.source
      /\ wizard'.journey = wizard.journey
  BY <1>1, <1>2 DEF Page
<1>4. WizardTypeOK'
  BY <1>1, <1>2, <1>3 DEF WizardTypeOK
<1>5. AnswersInv'
  BY <1>1, <1>2, <1>3, AnswersStay
<1>6. AwayInv'
  BY <1>1, <1>2, <1>3 DEF AwayInv, There
<1>7. RoutesInv'
  BY <1>1, <1>2, <1>3 DEF RoutesInv
<1>8. PressesInv'
  BY <1>1, <1>2, <1>3, PressesStay
<1> QED BY <1>4, <1>5, <1>6, <1>7, <1>8 DEF WizardInv

LEMMA ChooseRouteKeeps ==
    ASSUME WizardInv, NEW r \in Centre \cup {None}, ChooseRoute(r)
    PROVE  WizardInv'
<1>1. /\ WizardTypeOK /\ AnswersInv /\ AwayInv /\ RoutesInv /\ PressesInv /\ wizard \in Page
      /\ wizard.centre # None /\ wizard.offered # None /\ r \in {wizard.offered, None}
      /\ rash \in BOOLEAN
  BY DEF WizardInv, WizardTypeOK, ChooseRoute
<1>2. /\ wizard' = [wizard EXCEPT !.route = r] /\ rash' = (rash \/ asked # {})
      /\ UNCHANGED <<films, picked, clips, analysing, asked, sends, jumped, twice>>
  BY DEF ChooseRoute
<1>3. /\ wizard' \in Page /\ wizard'.step = wizard.step /\ wizard'.centre = wizard.centre
      /\ wizard'.route = r /\ wizard'.offered = wizard.offered /\ wizard'.source = wizard.source
      /\ wizard'.journey = wizard.journey
  BY <1>1, <1>2 DEF Page
<1>4. WizardTypeOK'
  BY <1>1, <1>2, <1>3 DEF WizardTypeOK
<1>5. AnswersInv'
  BY <1>1, <1>2, <1>3, AnswersStay
<1>6. AwayInv'
  BY <1>1, <1>2, <1>3, AwayStays
<1>7. RoutesInv'
  BY <1>1, <1>2, <1>3 DEF RoutesInv
<1>8. PressesInv'
  BY <1>1, <1>2, <1>3, PressesStay
<1> QED BY <1>4, <1>5, <1>6, <1>7, <1>8 DEF WizardInv

\* The other answers of step 1, and the agreement of step 3.
LEMMA AnswerKeeps ==
    ASSUME WizardInv,
           \/ \E s \in {"camera", "embedded", "app_journey"} : ChooseSource(s)
           \/ \E chosen \in BOOLEAN : ChooseJourney(chosen)
           \/ \E agree \in BOOLEAN : Agree(agree)
    PROVE  WizardInv'
<1>1. /\ WizardTypeOK /\ AnswersInv /\ AwayInv /\ RoutesInv /\ PressesInv /\ wizard \in Page
  BY DEF WizardInv, WizardTypeOK
<1>2. /\ \/ wizard.step = 1 /\ \E s \in {"camera", "embedded", "app_journey"} :
                                  wizard' = [wizard EXCEPT !.source = s]
         \/ wizard.step = 1 /\ \E b \in BOOLEAN : wizard' = [wizard EXCEPT !.journey = b]
         \/ \E b \in BOOLEAN : wizard' = [wizard EXCEPT !.agree = b]
      /\ UNCHANGED <<films, picked, clips, analysing, asked, sends, jumped, rash, twice>>
  BY DEF ChooseSource, ChooseJourney, Agree
<1>3. /\ wizard' \in Page /\ wizard'.step = wizard.step /\ wizard'.centre = wizard.centre
      /\ wizard'.route = wizard.route /\ wizard'.offered = wizard.offered
      /\ \/ wizard.step = 1
         \/ wizard'.source = wizard.source /\ wizard'.journey = wizard.journey
  BY <1>1, <1>2 DEF Page
<1>4. WizardTypeOK'
  BY <1>1, <1>2, <1>3 DEF WizardTypeOK
<1>5. AnswersInv'
  <2>1. CASE wizard.step = 1
    BY <1>1, <1>2, <1>3, <2>1 DEF AnswersInv
  <2>2. CASE wizard'.source = wizard.source /\ wizard'.journey = wizard.journey
    BY <1>1, <1>2, <1>3, <2>2, AnswersStay
  <2> QED BY <1>3, <2>1, <2>2
<1>6. AwayInv'
  BY <1>1, <1>2, <1>3, AwayStays
<1>7. RoutesInv'
  BY <1>1, <1>2, <1>3, RoutesStay
<1>8. PressesInv'
  BY <1>1, <1>2, <1>3, PressesStay
<1> QED BY <1>4, <1>5, <1>6, <1>7, <1>8 DEF WizardInv

LEMMA ChooseFilesKeeps == WizardInv /\ ChooseFiles => WizardInv'
<1> SUFFICES ASSUME WizardInv, ChooseFiles PROVE WizardInv'
  OBVIOUS
<1>1. /\ WizardTypeOK /\ AnswersInv /\ AwayInv /\ RoutesInv /\ PressesInv /\ wizard \in Page
      /\ wizard.step = 1 /\ Step1Valid /\ jumped \in BOOLEAN
  BY DEF WizardInv, WizardTypeOK, ChooseFiles
<1>2. /\ wizard' = [wizard EXCEPT !.step = 2]
      /\ jumped' = (jumped /\ (analysing # None \/ \E p \in Attempt : Sending(p)))
      /\ UNCHANGED <<films, picked, clips, analysing, asked, sends, rash, twice>>
  BY DEF ChooseFiles
<1>3. /\ wizard' \in Page /\ wizard'.step = 2 /\ wizard'.centre = wizard.centre
      /\ wizard'.route = wizard.route /\ wizard'.offered = wizard.offered
      /\ wizard'.source = wizard.source /\ wizard'.journey = wizard.journey
  BY <1>1, <1>2 DEF Page
<1>4. WizardTypeOK'
  BY <1>1, <1>2, <1>3 DEF WizardTypeOK
<1>5. AnswersInv'
  <2>1. Step1Valid'
    BY <1>1, <1>3 DEF Step1Valid
  <2>2. ~jumped => analysing = None
    BY <1>1 DEF AnswersInv
  <2>3. ~jumped' => analysing' = None
    BY <1>2, <2>2
  <2> QED BY <1>3, <2>1, <2>3 DEF AnswersInv
<1>6. AwayInv'
  BY <1>3 DEF AwayInv, There
<1>7. RoutesInv'
  BY <1>1, <1>2, <1>3, RoutesStay
<1>8. PressesInv'
  <2> SUFFICES ASSUME ~twice' PROVE PressesInv'
    BY DEF PressesInv
  <2>1. There /\ There' /\ ~twice
    BY <1>1, <1>2, <1>3 DEF There
  <2>2. \A p \in Attempt : /\ Reached(p, "agree")' = Reached(p, "agree") /\ Uploaded(p)' = Uploaded(p)
                           /\ Sending(p)' = Sending(p) /\ Live(p)' = Live(p)
    BY <1>2 DEF Reached, Uploaded, Sending, Live
  <2>3. \A p \in Attempt : ~Uploaded(p)
    BY <1>1, <2>1 DEF PressesInv
  <2>4. ~jumped => \A p \in Attempt : ~Sending(p)
    BY <1>1, <2>1 DEF PressesInv
  <2>5. ~jumped' => \A p \in Attempt : ~Sending(p)
    BY <1>2, <2>4
  <2>6. \A p, q \in Attempt : Reached(p, "agree") /\ Reached(q, "agree") => p = q
    BY <1>1, <2>1 DEF PressesInv
  <2> QED BY <2>2, <2>3, <2>5, <2>6 DEF PressesInv
<1> QED BY <1>4, <1>5, <1>6, <1>7, <1>8 DEF WizardInv

LEMMA PickKeeps == ASSUME WizardInv, NEW selection \in Tried, Pick(selection) PROVE WizardInv'
<1>1. /\ WizardTypeOK /\ AnswersInv /\ AwayInv /\ RoutesInv /\ PressesInv
      /\ wizard.step = 2 /\ picked' = selection /\ selection \in Selection
      /\ UNCHANGED <<films, wizard, clips, analysing, asked, sends, jumped, rash, twice>>
  BY WizardAssumption DEF WizardInv, Pick
<1>2. WizardTypeOK'
  BY <1>1 DEF WizardTypeOK
<1>3. AnswersInv'
  <2>1. Step1Valid' = Step1Valid /\ Fits(analysing)' = Fits(analysing)
    BY <1>1 DEF Step1Valid, Fits
  <2> QED BY <1>1, <2>1 DEF AnswersInv
<1>4. AwayInv' /\ RoutesInv' /\ PressesInv'
  BY <1>1, AwayStays, RoutesStay, PressesStay
<1> QED BY <1>2, <1>3, <1>4 DEF WizardInv

LEMMA GoToReviewKeeps == WizardInv /\ GoToReview => WizardInv'
<1> SUFFICES ASSUME WizardInv, GoToReview PROVE WizardInv'
  OBVIOUS
<1>1. /\ WizardTypeOK /\ AnswersInv /\ AwayInv /\ RoutesInv /\ PressesInv
      /\ wizard.step = 2 /\ Step2Valid /\ analysing' = picked
      /\ UNCHANGED <<films, wizard, picked, clips, asked, sends, jumped, rash, twice>>
  BY DEF WizardInv, GoToReview
<1>2. WizardTypeOK'
  BY <1>1 DEF WizardTypeOK
<1>3. AnswersInv'
  <2>1. Step1Valid' = Step1Valid /\ Fits(analysing)'
    BY <1>1 DEF Step1Valid, Step2Valid, Fits
  <2> QED BY <1>1, <2>1 DEF AnswersInv
<1>4. AwayInv'
  BY <1>1 DEF AwayInv, There
<1>5. RoutesInv' /\ PressesInv'
  BY <1>1, RoutesStay, PressesStay
<1> QED BY <1>2, <1>3, <1>4, <1>5 DEF WizardInv

LEMMA PreviewClips ==
    ASSUME WizardTypeOK, NEW S \in SUBSET Clip
    PROVE  buildPreview(S).clips \in Seq(Clip) /\ ToSet(buildPreview(S).clips) = S
<1>1. buildPreview(S).clips = Ordered(S)
  BY DEF buildPreview
<1>2. Ordered(S) \in Seq(S) /\ ToSet(Ordered(S)) = S
  BY OrderedIs
<1>3. Ordered(S) \in Seq(Clip)
  BY <1>2, SeqMonotonic
<1> QED BY <1>1, <1>2, <1>3

LEMMA AnalysedKeeps == WizardInv /\ Analysed => WizardInv'
<1> SUFFICES ASSUME WizardInv, Analysed PROVE WizardInv'
  OBVIOUS
<1>1. /\ WizardTypeOK /\ AnswersInv /\ AwayInv /\ RoutesInv /\ PressesInv /\ wizard \in Page
      /\ analysing # None /\ analysing \in Selection /\ jumped \in BOOLEAN
  BY DEF WizardInv, WizardTypeOK, Analysed
<1>2. /\ wizard' = [wizard EXCEPT !.step = 3] /\ analysing' = None
      /\ clips' = [v \in View |-> buildPreview(analysing[v]).clips]
      /\ jumped' = (jumped \/ wizard.step # 2 \/ analysing # picked)
      /\ UNCHANGED <<films, picked, asked, sends, rash, twice>>
  BY DEF Analysed
<1>3. /\ wizard' \in Page /\ wizard'.step = 3 /\ wizard'.centre = wizard.centre
      /\ wizard'.route = wizard.route /\ wizard'.offered = wizard.offered
      /\ wizard'.source = wizard.source /\ wizard'.journey = wizard.journey
  BY <1>1, <1>2 DEF Page
<1>4. ASSUME NEW v \in View
      PROVE  clips'[v] \in Seq(Clip) /\ ToSet(clips'[v]) = analysing[v]
  <2>1. analysing[v] \in SUBSET Clip
    BY <1>1 DEF Selection, View
  <2>2. clips'[v] = buildPreview(analysing[v]).clips
    BY <1>2
  <2> QED BY <1>1, <2>1, <2>2, PreviewClips
<1>5. WizardTypeOK'
  <2>1. DOMAIN clips' = View
    BY <1>2
  <2> QED BY <1>1, <1>2, <1>3, <1>4, <2>1 DEF WizardTypeOK
<1>6. AnswersInv'
  <2> SUFFICES ASSUME ~jumped'
               PROVE  Step1Valid' /\ Step2Valid' /\ \A v \in View : ToSet(clips'[v]) = picked'[v]
    BY <1>2 DEF AnswersInv
  <2>1. ~jumped /\ wizard.step = 2 /\ analysing = picked
    BY <1>2
  <2>2. Step1Valid /\ Fits(picked)
    BY <1>1, <2>1 DEF AnswersInv
  <2>3. Step1Valid' /\ Step2Valid'
    BY <1>2, <1>3, <2>2 DEF Step1Valid, Step2Valid, Fits
  <2> QED BY <1>2, <1>4, <2>1, <2>3
<1>7. AwayInv'
  BY <1>3 DEF AwayInv, There
<1>8. RoutesInv'
  BY <1>1, <1>2, <1>3, RoutesStay
<1>9. PressesInv'
  <2> SUFFICES ASSUME ~twice' PROVE PressesInv'
    BY DEF PressesInv
  <2>1. There /\ There' /\ ~twice
    BY <1>1, <1>2, <1>3 DEF There, AwayInv
  <2>2. \A p \in Attempt : /\ Reached(p, "agree")' = Reached(p, "agree") /\ Uploaded(p)' = Uploaded(p)
                           /\ Sending(p)' = Sending(p) /\ Live(p)' = Live(p)
    BY <1>2 DEF Reached, Uploaded, Sending, Live
  <2>3. ~jumped' => ~jumped /\ \A p \in Attempt : ~Sending(p)
    <3>1. ~jumped => \A p \in Attempt : Sending(p) /\ There => wizard.step = 4
      BY <1>1, <2>1 DEF PressesInv
    <3>2. ASSUME ~jumped' PROVE ~jumped /\ wizard.step # 4
      <4>1. ~jumped /\ wizard.step = 2
        BY <1>2, <3>2
      <4> QED BY <4>1
    <3> QED BY <2>1, <3>1, <3>2
  <2> QED BY <1>1, <2>1, <2>2, <2>3 DEF PressesInv
<1> QED BY <1>5, <1>6, <1>7, <1>8, <1>9 DEF WizardInv

LEMMA BackKeeps == WizardInv /\ Back => WizardInv'
<1> SUFFICES ASSUME WizardInv, Back PROVE WizardInv'
  OBVIOUS
<1>1. /\ WizardTypeOK /\ AnswersInv /\ AwayInv /\ RoutesInv /\ PressesInv /\ wizard \in Page
      /\ wizard.step \in {2, 3} /\ jumped \in BOOLEAN
  BY DEF WizardInv, WizardTypeOK, Back
<1>2. /\ wizard' = [wizard EXCEPT !.step = wizard.step - 1]
      /\ jumped' = (jumped \/ analysing # None)
      /\ UNCHANGED <<films, picked, clips, analysing, asked, sends, rash, twice>>
  BY DEF Back
<1>3. /\ wizard' \in Page /\ wizard'.step = wizard.step - 1 /\ wizard'.centre = wizard.centre
      /\ wizard'.route = wizard.route /\ wizard'.offered = wizard.offered
      /\ wizard'.source = wizard.source /\ wizard'.journey = wizard.journey
  BY <1>1, <1>2 DEF Page
<1>4. wizard'.step \in {1, 2} /\ (wizard'.step = 2 => wizard.step = 3)
  BY <1>1, <1>3
<1>5. WizardTypeOK'
  BY <1>1, <1>2, <1>3 DEF WizardTypeOK
<1>6. AnswersInv'
  <2>1. Step1Valid' = Step1Valid
    BY <1>3 DEF Step1Valid
  <2>2. ~jumped' => ~jumped /\ analysing' = None
    BY <1>1, <1>2
  <2>3. ~jumped' /\ wizard'.step = 2 => Step1Valid'
    BY <1>1, <1>4, <2>1, <2>2 DEF AnswersInv
  <2>4. wizard'.step \notin {3, 4} /\ (wizard'.step \in {2, 3, 4} => wizard'.step = 2)
    BY <1>4
  <2> QED BY <2>2, <2>3, <2>4 DEF AnswersInv
<1>7. AwayInv'
  BY <1>4 DEF AwayInv, There
<1>8. RoutesInv'
  BY <1>1, <1>2, <1>3, RoutesStay
<1>9. PressesInv'
  <2> SUFFICES ASSUME ~twice' PROVE PressesInv'
    BY DEF PressesInv
  <2>1. There /\ There' /\ ~twice /\ wizard.step # 4
    BY <1>1, <1>2, <1>4 DEF There
  <2>2. \A p \in Attempt : /\ Reached(p, "agree")' = Reached(p, "agree") /\ Uploaded(p)' = Uploaded(p)
                           /\ Sending(p)' = Sending(p) /\ Live(p)' = Live(p)
    BY <1>2 DEF Reached, Uploaded, Sending, Live
  <2>3. ~jumped' => ~jumped /\ \A p \in Attempt : ~Sending(p)
    <3>1. ~jumped => \A p \in Attempt : Sending(p) /\ There => wizard.step = 4
      BY <1>1, <2>1 DEF PressesInv
    <3>2. ~jumped' => ~jumped /\ wizard.step # 4
      BY <1>1, <1>2, <2>1
    <3> QED BY <2>1, <3>1, <3>2
  <2> QED BY <1>1, <2>1, <2>2, <2>3 DEF PressesInv
<1> QED BY <1>5, <1>6, <1>7, <1>8, <1>9 DEF WizardInv

\* The page is left: with nothing to say of what it held.
LEMMA GoneIs ==
    ASSUME WizardTypeOK, Gone
    PROVE  /\ wizard' \in Page /\ wizard'.step = 0 /\ picked' \in Selection
           /\ DOMAIN clips' = View /\ \A v \in View : clips'[v] \in Seq(Clip)
           /\ analysing' = None /\ asked' = {} /\ ~There' /\ AnswersInv' /\ AwayInv'
           /\ wizard'.centre = None /\ wizard'.offered = None
<1>1. /\ wizard' = Fresh(0) /\ picked' = Nothing /\ clips' = [v \in View |-> <<>>]
      /\ analysing' = None /\ asked' = {}
  BY DEF Gone
<1>2. wizard' \in Page /\ wizard'.step = 0 /\ wizard'.centre = None /\ wizard'.offered = None
  BY <1>1 DEF Fresh, Page
<1>3. picked' \in Selection
  BY <1>1 DEF Nothing, Selection
<1>4. DOMAIN clips' = View /\ \A v \in View : clips'[v] \in Seq(Clip)
  BY <1>1
<1>5. ~There'
  BY <1>2 DEF There
<1>6. AnswersInv' /\ AwayInv'
  BY <1>1, <1>2 DEF AnswersInv, AwayInv
<1> QED BY <1>1, <1>2, <1>3, <1>4, <1>5, <1>6

LEMMA LeaveKeeps == WizardInv /\ LeaveWizard => WizardInv'
<1> SUFFICES ASSUME WizardInv, LeaveWizard PROVE WizardInv'
  OBVIOUS
<1>1. /\ WizardTypeOK /\ RoutesInv /\ PressesInv /\ There /\ Gone
      /\ UNCHANGED <<films, sends, jumped, rash, twice>>
  BY DEF WizardInv, LeaveWizard
<1>2. /\ wizard' \in Page /\ wizard'.step = 0 /\ picked' \in Selection
      /\ DOMAIN clips' = View /\ \A v \in View : clips'[v] \in Seq(Clip)
      /\ analysing' = None /\ asked' = {} /\ ~There' /\ AnswersInv' /\ AwayInv'
      /\ wizard'.centre = None /\ wizard'.offered = None
  BY <1>1, GoneIs
<1>3. WizardTypeOK'
  BY <1>1, <1>2 DEF WizardTypeOK
<1>4. RoutesInv'
  BY <1>1, <1>2 DEF RoutesInv
<1>5. PressesInv'
  <2>1. \A p \in Attempt : /\ Reached(p, "agree")' = Reached(p, "agree") /\ Uploaded(p)' = Uploaded(p)
                           /\ Sending(p)' = Sending(p) /\ Live(p)' = Live(p)
    BY <1>1 DEF Reached, Uploaded, Sending, Live
  <2> QED BY <1>1, <1>2, <2>1 DEF PressesInv
<1> QED BY <1>2, <1>3, <1>4, <1>5 DEF WizardInv

LEMMA MoveKeeps ==
    ASSUME WizardInv, NEW v \in View, NEW from, NEW to, MoveClip(v, from, to)
    PROVE  WizardInv'
<1>1. /\ WizardTypeOK /\ AnswersInv /\ AwayInv /\ RoutesInv /\ PressesInv
      /\ from \in DOMAIN clips[v] /\ to \in {from - 1, from + 1}
      /\ clips' = [clips EXCEPT ![v] = moveClip(clips[v], from, to)]
      /\ UNCHANGED <<films, wizard, picked, analysing, asked, sends, jumped, rash, twice>>
  BY DEF WizardInv, MoveClip
<1>2. DOMAIN clips = View /\ \A w \in View : clips[w] \in Seq(Clip)
  BY <1>1 DEF WizardTypeOK
<1>3. /\ moveClip(clips[v], from, to) \in Seq(Clip)
      /\ ToSet(moveClip(clips[v], from, to)) = ToSet(clips[v])
  <2>1. clips[v] \in Seq(Clip) /\ from \in DOMAIN clips[v] /\ to \in {from - 1, from + 1}
    BY <1>1, <1>2
  <2> QED BY <2>1, MovedIs
<1>4. DOMAIN clips' = View /\ \A w \in View : clips'[w] = IF w = v THEN moveClip(clips[v], from, to) ELSE clips[w]
  BY <1>1, <1>2
<1>5. \A w \in View : clips'[w] \in Seq(Clip) /\ ToSet(clips'[w]) = ToSet(clips[w])
  BY <1>2, <1>3, <1>4
<1>6. WizardTypeOK'
  BY <1>1, <1>4, <1>5 DEF WizardTypeOK
<1>7. AnswersInv'
  BY <1>1, <1>5, AnswersStay
<1>8. AwayInv' /\ RoutesInv' /\ PressesInv'
  BY <1>1, AwayStays, RoutesStay, PressesStay
<1> QED BY <1>6, <1>7, <1>8 DEF WizardInv

\* Only one press moves on.
LEMMA OthersStay ==
    ASSUME WizardTypeOK, NEW p \in Attempt, NEW r, r \in Send \cup {None},
           sends' = [sends EXCEPT ![p] = r]
    PROVE  /\ sends' \in [Attempt -> Send \cup {None}] /\ sends'[p] = r
           /\ \A q \in Attempt : q # p =>
                 /\ sends'[q] = sends[q]
                 /\ Reached(q, "agree")' = Reached(q, "agree") /\ Uploaded(q)' = Uploaded(q)
                 /\ Sending(q)' = Sending(q) /\ Live(q)' = Live(q)
<1>1. sends \in [Attempt -> Send \cup {None}]
  BY DEF WizardTypeOK
<1>2. /\ sends' \in [Attempt -> Send \cup {None}] /\ sends'[p] = r
      /\ \A q \in Attempt : q # p => sends'[q] = sends[q]
  BY <1>1
<1>3. ASSUME NEW q \in Attempt, q # p
      PROVE  /\ Reached(q, "agree")' = Reached(q, "agree") /\ Uploaded(q)' = Uploaded(q)
             /\ Sending(q)' = Sending(q) /\ Live(q)' = Live(q)
  BY <1>2, <1>3 DEF Reached, Uploaded, Sending, Live
<1> QED BY <1>2, <1>3

\* What it sends stays what it was.
LEMMA RoutesSent ==
    ASSUME RoutesInv, NEW p \in Attempt, rash' = rash, asked' = asked,
           wizard'.centre = wizard.centre, wizard'.route = wizard.route,
           wizard'.offered = wizard.offered,
           sends[p] # None, sends'[p].centre = sends[p].centre, sends'[p].route = sends[p].route,
           \A q \in Attempt : q # p => sends'[q] = sends[q]
    PROVE  RoutesInv'
<1> SUFFICES ASSUME ~rash' PROVE RoutesInv'
  BY DEF RoutesInv
<1>1. /\ wizard.centre # None => wizard.route \in {wizard.centre, None}
      /\ asked = {} /\ wizard.offered # None => wizard.offered = wizard.centre
      /\ \A q \in Attempt :
            sends[q] # None /\ sends[q].centre # None => sends[q].route \in {sends[q].centre, None}
  BY DEF RoutesInv
<1>2. ASSUME NEW q \in Attempt, sends'[q] # None, sends'[q].centre # None
      PROVE  sends'[q].route \in {sends'[q].centre, None}
  <2>1. CASE q = p
    BY <1>1, <1>2, <2>1
  <2>2. CASE q # p
    BY <1>1, <1>2, <2>2
  <2> QED BY <2>1, <2>2
<1> QED BY <1>1, <1>2 DEF RoutesInv

LEMMA SubmitKeeps == ASSUME WizardInv, NEW p \in Attempt, Submit(p) PROVE WizardInv'
<1> PICK r : r = [at |-> "agree", completed |-> FALSE, centre |-> wizard.centre,
                  route |-> wizard.route]
  OBVIOUS
<1>1. /\ WizardTypeOK /\ AnswersInv /\ AwayInv /\ RoutesInv /\ PressesInv /\ wizard \in Page
      /\ wizard.step = 3 /\ sends[p] = None /\ twice \in BOOLEAN
      /\ sends' = [sends EXCEPT ![p] = r]
      /\ twice' = (twice \/ \E q \in Attempt : sends[q] # None /\ sends[q].at = "agree")
      /\ UNCHANGED <<films, wizard, picked, clips, analysing, asked, jumped, rash>>
  BY DEF WizardInv, WizardTypeOK, Submit
<1>2. r \in Send /\ r # None
  <2>1. wizard.centre \in Centre \cup {None} /\ wizard.route \in Centre \cup {None}
    BY <1>1 DEF Page
  <2>2. r \in Send
    BY <2>1 DEF Send
  <2> QED BY <2>2, NoneIsNoPage
<1>3. /\ sends' \in [Attempt -> Send \cup {None}] /\ sends'[p] = r
      /\ \A q \in Attempt : q # p =>
            /\ sends'[q] = sends[q]
            /\ Reached(q, "agree")' = Reached(q, "agree") /\ Uploaded(q)' = Uploaded(q)
            /\ Sending(q)' = Sending(q) /\ Live(q)' = Live(q)
  BY <1>1, <1>2, OthersStay
<1>4. WizardTypeOK'
  BY <1>1, <1>3 DEF WizardTypeOK
<1>5. AnswersInv' /\ AwayInv'
  BY <1>1, AnswersStay, AwayStays
<1>6. RoutesInv'
  <2> SUFFICES ASSUME ~rash' PROVE RoutesInv'
    BY DEF RoutesInv
  <2>1. /\ wizard.centre # None => wizard.route \in {wizard.centre, None}
        /\ asked = {} /\ wizard.offered # None => wizard.offered = wizard.centre
        /\ \A q \in Attempt :
              sends[q] # None /\ sends[q].centre # None => sends[q].route \in {sends[q].centre, None}
    BY <1>1 DEF RoutesInv
  <2>2. ASSUME NEW q \in Attempt, sends'[q] # None, sends'[q].centre # None
        PROVE  sends'[q].route \in {sends'[q].centre, None}
    <3>1. CASE q = p
      BY <1>3, <2>1, <2>2, <3>1
    <3>2. CASE q # p
      BY <1>3, <2>1, <2>2, <3>2
    <3> QED BY <3>1, <3>2
  <2> QED BY <1>1, <2>1, <2>2 DEF RoutesInv
<1>7. PressesInv'
  <2> SUFFICES ASSUME ~twice' PROVE PressesInv'
    BY DEF PressesInv
  <2>1. ~twice /\ \A q \in Attempt : ~Reached(q, "agree")
    BY <1>1 DEF Reached
  <2>2. There /\ There' = There /\ wizard.step # 4
    BY <1>1 DEF There
  <2>3. (\A q \in Attempt : ~Uploaded(q)) /\ (~jumped => \A q \in Attempt : ~Sending(q))
    BY <1>1, <2>1, <2>2 DEF PressesInv
  <2>4. ~Uploaded(p)' /\ ~Sending(p)'
    BY <1>3 DEF Uploaded, Sending
  <2>5. \A q \in Attempt : q # p => ~Reached(q, "agree")'
    BY <1>3, <2>1
  <2>6. \A q \in Attempt : ~Uploaded(q)'
    BY <1>3, <2>3, <2>4
  <2>7. ~jumped' => \A q \in Attempt : ~Sending(q)'
    BY <1>1, <1>3, <2>3, <2>4
  <2> QED BY <2>5, <2>6, <2>7 DEF PressesInv
<1> QED BY <1>4, <1>5, <1>6, <1>7 DEF WizardInv

\* What the page shows of a send: nothing, where it was left.
LEMMA ShowsIs ==
    ASSUME WizardInv, NEW step \in {3, 4}, NEW phase \in {"form", "hashing", "uploading", "finalising"},
           Shows(step, phase), UNCHANGED <<picked, clips, analysing, asked>>
    PROVE  /\ wizard' \in Page /\ jumped' \in BOOLEAN /\ There' = There
           /\ There => wizard'.step = step
           /\ wizard'.centre = wizard.centre /\ wizard'.route = wizard.route
           /\ wizard'.offered = wizard.offered
           /\ ~jumped' => ~jumped
           /\ AnswersInv' /\ AwayInv'
<1>1. wizard \in Page /\ jumped \in BOOLEAN /\ AnswersInv /\ AwayInv
  BY DEF WizardInv, WizardTypeOK
<1>2. /\ wizard' = IF There THEN [wizard EXCEPT !.step = step, !.phase = phase] ELSE wizard
      /\ jumped' = (jumped \/ wizard.step \in {1, 2})
  BY DEF Shows
<1>3. /\ wizard' \in Page /\ wizard'.centre = wizard.centre /\ wizard'.route = wizard.route
      /\ wizard'.offered = wizard.offered /\ wizard'.source = wizard.source
      /\ wizard'.journey = wizard.journey
      /\ There => wizard'.step = step
      /\ ~There => wizard'.step = wizard.step
  <2>1. CASE There
    <3>1. wizard' = [wizard EXCEPT !.step = step, !.phase = phase] /\ step \in 0 .. 4
      BY <1>2, <2>1
    <3> QED BY <1>1, <2>1, <3>1 DEF Page
  <2>2. CASE ~There
    BY <1>1, <1>2, <2>2
  <2> QED BY <2>1, <2>2
<1>4. There' = There
  BY <1>3 DEF There
<1>5. AnswersInv'
  <2> SUFFICES ASSUME ~jumped' PROVE AnswersInv'
    BY DEF AnswersInv
  <2>1. ~jumped /\ wizard.step \notin {1, 2} /\ wizard.step \in 0 .. 4
    BY <1>1, <1>2 DEF Page
  <2>2. Step1Valid' = Step1Valid /\ Step2Valid' = Step2Valid
    BY <1>3 DEF Step1Valid, Step2Valid
  <2>3. analysing = None
    BY <1>1, <2>1 DEF AnswersInv
  <2>4. CASE There
    <3>1. wizard.step \in {3, 4}
      BY <2>1, <2>4 DEF There
    <3>2. Step1Valid /\ Step2Valid /\ \A v \in View : ToSet(clips[v]) = picked[v]
      BY <1>1, <2>1, <3>1 DEF AnswersInv
    <3> QED BY <2>2, <2>3, <3>2 DEF AnswersInv
  <2>5. CASE ~There
    <3>1. wizard'.step = 0
      BY <1>3, <2>5 DEF There
    <3> QED BY <2>3, <3>1 DEF AnswersInv
  <2> QED BY <2>4, <2>5
<1>6. AwayInv'
  BY <1>1, <1>4 DEF AwayInv
<1> QED BY <1>1, <1>2, <1>3, <1>4, <1>5, <1>6

LEMMA AgreedKeeps == ASSUME WizardInv, NEW p \in Attempt, Agreed(p) PROVE WizardInv'
<1> PICK r : r = [sends[p] EXCEPT !.at = "hash"]
  OBVIOUS
<1>1. /\ WizardTypeOK /\ RoutesInv /\ PressesInv /\ sends[p] # None /\ sends[p].at = "agree"
      /\ sends[p] \in Send /\ sends' = [sends EXCEPT ![p] = r] /\ Shows(4, "hashing")
      /\ UNCHANGED <<films, picked, clips, analysing, asked, rash, twice>>
  BY DEF WizardInv, WizardTypeOK, Agreed, Reached
<1>2. /\ r \in Send /\ r # None /\ r.at = "hash" /\ r.completed = sends[p].completed
      /\ r.centre = sends[p].centre /\ r.route = sends[p].route
  BY <1>1, NoneIsNoPage DEF Send
<1>3. /\ sends' \in [Attempt -> Send \cup {None}] /\ sends'[p] = r
      /\ \A q \in Attempt : q # p =>
            /\ sends'[q] = sends[q]
            /\ Reached(q, "agree")' = Reached(q, "agree") /\ Uploaded(q)' = Uploaded(q)
            /\ Sending(q)' = Sending(q) /\ Live(q)' = Live(q)
  BY <1>1, <1>2, OthersStay
<1>4. /\ wizard' \in Page /\ jumped' \in BOOLEAN /\ There' = There
      /\ There => wizard'.step = 4
      /\ wizard'.centre = wizard.centre /\ wizard'.route = wizard.route
      /\ wizard'.offered = wizard.offered
      /\ ~jumped' => ~jumped
      /\ AnswersInv' /\ AwayInv'
  BY <1>1, ShowsIs
<1>5. WizardTypeOK'
  BY <1>1, <1>3, <1>4 DEF WizardTypeOK
<1>6. RoutesInv'
  BY <1>1, <1>2, <1>3, <1>4, RoutesSent
<1>7. PressesInv'
  <2> SUFFICES ASSUME ~twice' PROVE PressesInv'
    BY DEF PressesInv
  <2>1. /\ \A q, s \in Attempt : Reached(q, "agree") /\ Reached(s, "agree") => q = s
        /\ \A q \in Attempt : Uploaded(q) => ~There
        /\ ~jumped => \A q \in Attempt : Sending(q) \/ Uploaded(q) =>
              \A s \in Attempt : Live(s) \/ Uploaded(s) => s = q
    BY <1>1 DEF PressesInv
  <2>2. /\ Reached(p, "agree") /\ Live(p) /\ ~Sending(p)
        /\ ~Reached(p, "agree")' /\ Uploaded(p)' = Uploaded(p)
    BY <1>1, <1>2, <1>3 DEF Reached, Live, Sending, Uploaded
  <2>3. \A q \in Attempt : ~Reached(q, "agree")'
    BY <1>3, <2>1, <2>2
  <2>4. \A q \in Attempt : Uploaded(q)' => ~There'
    BY <1>3, <1>4, <2>1, <2>2
  <2>5. ASSUME ~jumped' PROVE \A q \in Attempt : q # p => ~Sending(q)' /\ ~Uploaded(q)' /\ ~Live(q)'
    <3> SUFFICES ASSUME NEW q \in Attempt, q # p PROVE ~Sending(q) /\ ~Uploaded(q) /\ ~Live(q)
      BY <1>3
    <3>1. ~Sending(q) /\ ~Uploaded(q)
      BY <1>4, <2>1, <2>2, <2>5
    <3>2. ~Reached(q, "agree")
      BY <2>1, <2>2
    <3> QED BY <3>1, <3>2 DEF Live, Sending, Reached
  <2>6. ASSUME ~jumped', NEW q \in Attempt
        PROVE  /\ Sending(q)' /\ There' => wizard'.step = 4
               /\ Sending(q)' \/ Uploaded(q)' => \A s \in Attempt : Live(s)' \/ Uploaded(s)' => s = q
    <3>1. There' => wizard'.step = 4
      BY <1>4
    <3>2. Sending(q)' \/ Uploaded(q)' => q = p
      BY <2>5, <2>6
    <3>3. \A s \in Attempt : Live(s)' \/ Uploaded(s)' => s = p
      BY <2>5, <2>6
    <3> QED BY <3>1, <3>2, <3>3
  <2> QED BY <2>3, <2>4, <2>6 DEF PressesInv
<1> QED BY <1>4, <1>5, <1>6, <1>7 DEF WizardInv

\* A send goes on.
LEMMA ProceedKeeps == ASSUME WizardInv, NEW p \in Attempt, Hashed(p) \/ Sent(p) PROVE WizardInv'
<1>1. PICK at \in {"send", "complete"}, phase \in {"uploading", "finalising"} :
          /\ sends' = [sends EXCEPT ![p].at = at]
          /\ wizard' = IF There THEN [wizard EXCEPT !.phase = phase] ELSE wizard
  BY DEF Hashed, Sent, Phase
<1> PICK r : r = [sends[p] EXCEPT !.at = at]
  OBVIOUS
<1>2. /\ WizardTypeOK /\ AnswersInv /\ AwayInv /\ RoutesInv /\ PressesInv /\ wizard \in Page
      /\ sends[p] # None /\ sends[p].at \in {"hash", "send"} /\ sends[p] \in Send
      /\ sends' = [sends EXCEPT ![p] = r]
      /\ UNCHANGED <<films, picked, clips, analysing, asked, jumped, rash, twice>>
  BY <1>1 DEF WizardInv, WizardTypeOK, Hashed, Sent, Reached
<1>3. /\ r \in Send /\ r # None /\ r.at \in {"send", "complete"} /\ r.completed = sends[p].completed
      /\ r.centre = sends[p].centre /\ r.route = sends[p].route
  BY <1>2, NoneIsNoPage DEF Send
<1>4. /\ sends' \in [Attempt -> Send \cup {None}] /\ sends'[p] = r
      /\ \A q \in Attempt : q # p =>
            /\ sends'[q] = sends[q]
            /\ Reached(q, "agree")' = Reached(q, "agree") /\ Uploaded(q)' = Uploaded(q)
            /\ Sending(q)' = Sending(q) /\ Live(q)' = Live(q)
  BY <1>2, <1>3, OthersStay
<1>5. /\ wizard' \in Page /\ wizard'.step = wizard.step /\ wizard'.centre = wizard.centre
      /\ wizard'.route = wizard.route /\ wizard'.offered = wizard.offered
      /\ wizard'.source = wizard.source /\ wizard'.journey = wizard.journey
  BY <1>1, <1>2 DEF Page
<1>6. WizardTypeOK'
  BY <1>2, <1>4, <1>5 DEF WizardTypeOK
<1>7. AnswersInv' /\ AwayInv'
  BY <1>2, <1>5, AnswersStay, AwayStays
<1>8. RoutesInv'
  BY <1>2, <1>3, <1>4, <1>5, RoutesSent
<1>9. PressesInv'
  <2>1. /\ Reached(p, "agree")' = Reached(p, "agree") /\ Uploaded(p)' = Uploaded(p)
        /\ Sending(p)' = Sending(p) /\ Live(p)' = Live(p)
    BY <1>2, <1>3, <1>4 DEF Reached, Uploaded, Sending, Live
  <2>2. \A q \in Attempt : /\ Reached(q, "agree")' = Reached(q, "agree") /\ Uploaded(q)' = Uploaded(q)
                           /\ Sending(q)' = Sending(q) /\ Live(q)' = Live(q)
    BY <1>4, <2>1
  <2>3. There' = There /\ twice' = twice /\ jumped' = jumped
    BY <1>2, <1>5 DEF There
  <2> QED BY <1>2, <1>5, <2>2, <2>3 DEF PressesInv
<1> QED BY <1>6, <1>7, <1>8, <1>9 DEF WizardInv

LEMMA CompletedKeeps == ASSUME WizardInv, NEW p \in Attempt, Completed(p) PROVE WizardInv'
<1> PICK r : r = [sends[p] EXCEPT !.at = "done", !.completed = TRUE]
  OBVIOUS
<1>1. /\ WizardTypeOK /\ RoutesInv /\ PressesInv /\ sends[p] # None /\ sends[p].at = "complete"
      /\ sends[p] \in Send /\ sends' = [sends EXCEPT ![p] = r] /\ Gone
      /\ UNCHANGED <<films, jumped, rash, twice>>
  BY DEF WizardInv, WizardTypeOK, Completed, Reached
<1>2. /\ r \in Send /\ r # None /\ r.at = "done" /\ r.completed
      /\ r.centre = sends[p].centre /\ r.route = sends[p].route
  BY <1>1, NoneIsNoPage DEF Send
<1>3. /\ sends' \in [Attempt -> Send \cup {None}] /\ sends'[p] = r
      /\ \A q \in Attempt : q # p =>
            /\ sends'[q] = sends[q]
            /\ Reached(q, "agree")' = Reached(q, "agree") /\ Uploaded(q)' = Uploaded(q)
            /\ Sending(q)' = Sending(q) /\ Live(q)' = Live(q)
  BY <1>1, <1>2, OthersStay
<1>4. /\ wizard' \in Page /\ wizard'.step = 0 /\ picked' \in Selection
      /\ DOMAIN clips' = View /\ \A v \in View : clips'[v] \in Seq(Clip)
      /\ analysing' = None /\ asked' = {} /\ ~There' /\ AnswersInv' /\ AwayInv'
      /\ wizard'.centre = None /\ wizard'.offered = None
  BY <1>1, GoneIs
<1>5. WizardTypeOK'
  BY <1>1, <1>3, <1>4 DEF WizardTypeOK
<1>6. RoutesInv'
  <2> SUFFICES ASSUME ~rash', NEW q \in Attempt, sends'[q] # None, sends'[q].centre # None
               PROVE  sends'[q].route \in {sends'[q].centre, None}
    BY <1>4 DEF RoutesInv
  <2>1. \A s \in Attempt :
           sends[s] # None /\ sends[s].centre # None => sends[s].route \in {sends[s].centre, None}
    BY <1>1 DEF RoutesInv
  <2>2. CASE q = p
    BY <1>1, <1>2, <1>3, <2>1, <2>2
  <2>3. CASE q # p
    BY <1>3, <2>1, <2>3
  <2> QED BY <2>2, <2>3
<1>7. PressesInv'
  <2> SUFFICES ASSUME ~twice' PROVE PressesInv'
    BY DEF PressesInv
  <2>1. /\ \A q, s \in Attempt : Reached(q, "agree") /\ Reached(s, "agree") => q = s
        /\ ~jumped => \A q \in Attempt : Sending(q) \/ Uploaded(q) =>
              \A s \in Attempt : Live(s) \/ Uploaded(s) => s = q
    BY <1>1 DEF PressesInv
  <2>2. Sending(p) /\ ~Reached(p, "agree")' /\ ~Live(p)' /\ ~Sending(p)'
    BY <1>1, <1>2, <1>3 DEF Reached, Live, Sending
  <2>3. \A q, s \in Attempt : Reached(q, "agree")' /\ Reached(s, "agree")' => q = s
    BY <1>3, <2>1, <2>2
  <2>4. ASSUME ~jumped' PROVE \A q \in Attempt : q # p => ~Sending(q)' /\ ~Uploaded(q)' /\ ~Live(q)'
    <3> SUFFICES ASSUME NEW q \in Attempt, q # p PROVE ~Sending(q) /\ ~Uploaded(q) /\ ~Live(q)
      BY <1>3
    <3>1. ~Live(q) /\ ~Uploaded(q)
      BY <1>1, <2>1, <2>2, <2>4
    <3> QED BY <3>1 DEF Live, Sending
  <2>5. ASSUME ~jumped', NEW q \in Attempt
        PROVE  Sending(q)' \/ Uploaded(q)' => \A s \in Attempt : Live(s)' \/ Uploaded(s)' => s = q
    <3>1. Sending(q)' \/ Uploaded(q)' => q = p
      BY <2>4, <2>5
    <3>2. \A s \in Attempt : Live(s)' \/ Uploaded(s)' => s = p
      BY <2>4, <2>5
    <3> QED BY <3>1, <3>2
  <2> QED BY <1>4, <2>3, <2>5 DEF PressesInv
<1> QED BY <1>4, <1>5, <1>6, <1>7 DEF WizardInv

LEMMA FailedKeeps == ASSUME WizardInv, NEW p \in Attempt, Failed(p) PROVE WizardInv'
<1>1. PICK carriedOut \in BOOLEAN :
          /\ sends' = [sends EXCEPT ![p].at = "failed", ![p].completed = carriedOut]
          /\ twice' = (twice \/ carriedOut)
  BY DEF Failed
<1> PICK r : r = [sends[p] EXCEPT !.at = "failed", !.completed = carriedOut]
  OBVIOUS
<1>2. /\ WizardTypeOK /\ RoutesInv /\ PressesInv /\ sends[p] # None /\ Live(p)
      /\ sends[p] \in Send /\ sends' = [sends EXCEPT ![p] = r] /\ Shows(3, "form")
      /\ twice \in BOOLEAN
      /\ UNCHANGED <<films, picked, clips, analysing, asked, rash>>
  BY <1>1 DEF WizardInv, WizardTypeOK, Failed, Live
<1>3. /\ r \in Send /\ r # None /\ r.at = "failed" /\ r.completed = carriedOut
      /\ r.centre = sends[p].centre /\ r.route = sends[p].route
  BY <1>2, NoneIsNoPage DEF Send
<1>4. /\ sends' \in [Attempt -> Send \cup {None}] /\ sends'[p] = r
      /\ \A q \in Attempt : q # p =>
            /\ sends'[q] = sends[q]
            /\ Reached(q, "agree")' = Reached(q, "agree") /\ Uploaded(q)' = Uploaded(q)
            /\ Sending(q)' = Sending(q) /\ Live(q)' = Live(q)
  BY <1>2, <1>3, OthersStay
<1>5. /\ wizard' \in Page /\ jumped' \in BOOLEAN /\ There' = There
      /\ There => wizard'.step = 3
      /\ wizard'.centre = wizard.centre /\ wizard'.route = wizard.route
      /\ wizard'.offered = wizard.offered
      /\ ~jumped' => ~jumped
      /\ AnswersInv' /\ AwayInv'
  BY <1>2, ShowsIs
<1>6. WizardTypeOK'
  BY <1>1, <1>2, <1>4, <1>5 DEF WizardTypeOK
<1>7. RoutesInv'
  BY <1>2, <1>3, <1>4, <1>5, RoutesSent
<1>8. PressesInv'
  <2> SUFFICES ASSUME ~twice' PROVE PressesInv'
    BY DEF PressesInv
  <2>1. ~twice /\ ~carriedOut
    BY <1>1
  <2>2. /\ \A q, s \in Attempt : Reached(q, "agree") /\ Reached(s, "agree") => q = s
        /\ \A q \in Attempt : Uploaded(q) => ~There
        /\ ~jumped => \A q \in Attempt : Sending(q) \/ Uploaded(q) =>
              \A s \in Attempt : Live(s) \/ Uploaded(s) => s = q
    BY <1>2, <2>1 DEF PressesInv
  <2>3. ~Reached(p, "agree")' /\ ~Live(p)' /\ ~Sending(p)' /\ ~Uploaded(p)'
    BY <1>3, <1>4, <2>1 DEF Reached, Live, Sending, Uploaded
  <2>4. \A q, s \in Attempt : Reached(q, "agree")' /\ Reached(s, "agree")' => q = s
    BY <1>4, <2>2, <2>3
  <2>5. \A q \in Attempt : Uploaded(q)' => ~There'
    BY <1>4, <1>5, <2>2, <2>3
  <2>6. ~jumped' => \A q \in Attempt : ~Sending(q)' /\ ~Uploaded(q)'
    <3> SUFFICES ASSUME ~jumped', NEW q \in Attempt, q # p PROVE ~Sending(q) /\ ~Uploaded(q)
      BY <1>4, <2>3
    <3> QED BY <1>2, <1>5, <2>2
  <2> QED BY <2>4, <2>5, <2>6 DEF PressesInv
<1> QED BY <1>5, <1>6, <1>7, <1>8 DEF WizardInv

LEMMA WizardStep == WizardInv /\ [WizardNext]_wizardVars => WizardInv'
<1> SUFFICES ASSUME WizardInv, [WizardNext]_wizardVars PROVE WizardInv'
  OBVIOUS
<1>1. ASSUME NEW c \in Centre \cup {None}, ChooseCentre(c) \/ ChooseRoute(c) PROVE WizardInv'
  BY <1>1, ChooseCentreKeeps, ChooseRouteKeeps
<1>2. ASSUME NEW c \in Centre, RoutesListed(c) \/ RoutesNotListed(c) PROVE WizardInv'
  BY <1>2, ListedKeeps
<1>3. ASSUME \/ \E s \in {"camera", "embedded", "app_journey"} : ChooseSource(s)
             \/ \E chosen \in BOOLEAN : ChooseJourney(chosen)
             \/ \E agree \in BOOLEAN : Agree(agree)
      PROVE  WizardInv'
  BY <1>3, AnswerKeeps
<1>4. ASSUME NEW selection \in Tried, Pick(selection) PROVE WizardInv'
  BY <1>4, PickKeeps
<1>5. ASSUME ChooseFiles \/ GoToReview \/ Analysed \/ Back \/ LeaveWizard PROVE WizardInv'
  BY <1>5, ChooseFilesKeeps, GoToReviewKeeps, AnalysedKeeps, BackKeeps, LeaveKeeps
<1>6. ASSUME NEW v \in View, NEW from, NEW to, MoveClip(v, from, to) PROVE WizardInv'
  BY <1>6, MoveKeeps
<1>7. ASSUME NEW p \in Attempt,
             Submit(p) \/ Agreed(p) \/ Hashed(p) \/ Sent(p) \/ Completed(p) \/ Failed(p)
      PROVE  WizardInv'
  BY <1>7, SubmitKeeps, AgreedKeeps, ProceedKeeps, CompletedKeeps, FailedKeeps
<1>8. ASSUME UNCHANGED wizardVars PROVE WizardInv'
  <2>1. /\ WizardTypeOK /\ AnswersInv /\ AwayInv /\ RoutesInv /\ PressesInv
        /\ UNCHANGED <<films, wizard, picked, clips, analysing, asked, sends, jumped, rash, twice>>
    BY <1>8 DEF WizardInv, wizardVars
  <2>2. WizardTypeOK'
    BY <2>1 DEF WizardTypeOK
  <2> QED BY <2>1, <2>2, AnswersStay, AwayStays, RoutesStay, PressesStay DEF WizardInv
<1> QED BY <1>1, <1>2, <1>3, <1>4, <1>5, <1>6, <1>7, <1>8 DEF WizardNext

LEMMA WizardAlways == WizardSpec => []WizardInv
  BY WizardStarts, WizardStep, PTL DEF WizardSpec

\* The type invariant of the wizard (UploadPage.tsx).
THEOREM WizardTypeCorrect == WizardSpec => []WizardTypeOK
<1>1. WizardInv => WizardTypeOK
  BY DEF WizardInv
<1> QED BY <1>1, WizardAlways, PTL

LEMMA InvReviewed == WizardInv => SentAsReviewed
<1> SUFFICES ASSUME WizardInv PROVE SentAsReviewed
  OBVIOUS
<1>1. AnswersInv /\ RoutesInv /\ PressesInv
  BY DEF WizardInv
<1>2. wizard.step = 3 /\ ~jumped =>
          /\ Step1Valid /\ Step2Valid
          /\ \A v \in View : ToSet(clips[v]) = picked[v]
  BY <1>1 DEF AnswersInv
<1>3. ~rash => \A p \in Attempt :
          sends[p] # None /\ sends[p].centre # None => sends[p].route \in {sends[p].centre, None}
  BY <1>1 DEF RoutesInv
<1>4. ~jumped /\ ~twice => \A p \in Attempt : Sending(p) \/ Uploaded(p) =>
          \A q \in Attempt : Live(q) \/ Uploaded(q) => q = p
  BY <1>1 DEF PressesInv
<1>5. ~jumped /\ ~twice => \A p, q \in Attempt : p = q \/ ~Sending(p) \/ ~Sending(q)
  <2>1. \A q \in Attempt : Sending(q) => Live(q)
    BY DEF Sending, Live
  <2> QED BY <1>4, <2>1
<1>6. ~jumped /\ ~twice => \A p, q \in Attempt :
          (sends[p] # None /\ sends[q] # None /\ sends[p].completed /\ sends[q].completed) => p = q
  BY <1>4 DEF Uploaded
<1> QED BY <1>2, <1>3, <1>5, <1>6 DEF SentAsReviewed

\* For any clips, selections and number of presses: what is sent was reviewed, and what the
\* review says of the clips is true (UploadPage.tsx, clipAnalysis.ts).
THEOREM ReviewAlwaysStands == WizardSpec => []ReviewStands
<1>1. WizardInv => ReviewStands
  BY InvReviewed, PreviewTrue DEF WizardInv, ReviewStands
<1> QED BY <1>1, WizardAlways, PTL
=============================================================================
