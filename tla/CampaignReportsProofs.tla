----------------------- MODULE CampaignReportsProofs -----------------------
(***************************************************************************)
(* Theorems about the events of recipients and the reports of a campaign,  *)
(* for any campaigns, emails, links and times, any number of events, and   *)
(* whatever the job does between two queries of a report.                  *)
(***************************************************************************)
EXTENDS CampaignReports, RunCampaignsProofs, FiniteSetTheorems, NaturalsInduction,
        WellFoundedInduction

-----------------------------------------------------------------------------
(* Naturals, and the sum behind an average.                                *)

\* Some natural numbers have a least one.
LEMMA SmallestExists ==
  ASSUME NEW T, T \subseteq Nat, T # {}
  PROVE  \E x \in T : \A y \in T : x <= y
<1>1. IsWellFoundedOn({p \in Nat \X Nat : p[1] < p[2]}, Nat)
  BY NatLessThanWellFounded DEF OpToRel
<1>2. PICK x \in T : \A y \in T : ~(<<y, x>> \in {p \in Nat \X Nat : p[1] < p[2]})
  BY <1>1, WFMin
<1>3. ASSUME NEW y \in T
      PROVE  x <= y
  <2>1. x \in Nat /\ y \in Nat /\ ~(y < x)
    BY <1>2
  <2>2. QED
    BY <2>1
<1>4. QED
  BY <1>3

\* A set of positions that holds 0 and, below n, the position after each of its own.
LEMMA Climb ==
  ASSUME NEW n \in Nat, NEW T, 0 \in T, \A i \in 1..n : i - 1 \in T => i \in T
  PROVE  \A i \in 0..n : i \in T
<1> DEFINE U == {i \in 0..n : i \notin T}
<1>1. SUFFICES ASSUME U # {} PROVE FALSE
  OBVIOUS
<1>2. PICK i \in U : \A j \in U : i <= j
  <2>1. U \subseteq Nat
    OBVIOUS
  <2> HIDE DEF U
  <2>2. QED
    BY <1>1, <2>1, SmallestExists
<1>3. i \in 1..n
  BY <1>2
<1>4. i - 1 \in 0..n /\ i - 1 \notin U
  BY <1>2, <1>3
<1>5. QED
  BY <1>2, <1>3, <1>4

\* f adds up the numbers t[1], t[2] and so on to t[n].
AddsUp(f, t, n) == f[0] = 0 /\ \A i \in 1..n : f[i] = f[i - 1] + t[i]

\* There are such sums, of natural numbers.
LEMMA SumsExist ==
  ASSUME NEW n \in Nat, NEW t \in [1..n -> Nat]
  PROVE  \E f \in [0..n -> Nat] : AddsUp(f, t, n)
<1> DEFINE T == {m \in 0..n : \E f \in [0..m -> Nat] : AddsUp(f, t, m)}
<1>1. 0 \in T
  <2>1. [i \in 0..0 |-> 0] \in [0..0 -> Nat] /\ AddsUp([i \in 0..0 |-> 0], t, 0)
    BY DEF AddsUp
  <2>2. QED
    BY <2>1
<1>2. ASSUME NEW m \in 1..n, m - 1 \in T
      PROVE  m \in T
  <2>1. PICK f \in [0..(m - 1) -> Nat] : AddsUp(f, t, m - 1)
    BY <1>2
  <2> DEFINE g == [i \in 0..m |-> IF i = m THEN f[m - 1] + t[m] ELSE f[i]]
  <2>2. m - 1 \in 0..(m - 1) /\ f[m - 1] \in Nat /\ t[m] \in Nat
    OBVIOUS
  <2>3. g \in [0..m -> Nat]
    BY <2>2
  <2>4. g[0] = 0 /\ g[m] = f[m - 1] + t[m] /\ g[m - 1] = f[m - 1]
    BY <2>1 DEF AddsUp
  <2>5. ASSUME NEW i \in 1..m
        PROVE  g[i] = g[i - 1] + t[i]
    <3>1. CASE i = m
      BY <2>4, <3>1
    <3>2. CASE i # m
      <4>1. i \in 1..(m - 1) /\ i \in 0..m /\ i - 1 \in 0..m /\ i - 1 # m
        BY <3>2
      <4>2. g[i] = f[i] /\ g[i - 1] = f[i - 1]
        BY <3>2, <4>1
      <4>3. QED
        BY <2>1, <4>1, <4>2 DEF AddsUp
    <3>3. QED
      BY <3>1, <3>2
  <2> HIDE DEF g
  <2>6. AddsUp(g, t, m)
    BY <2>4, <2>5 DEF AddsUp
  <2>7. QED
    BY <2>3, <2>6
<1> HIDE DEF T
<1>3. n \in T
  <2>1. \A m \in 1..n : m - 1 \in T => m \in T
    BY <1>2
  <2>2. \A m \in 0..n : m \in T
    BY <1>1, <2>1, Climb
  <2>3. QED
    BY <2>2
<1>4. QED
  BY <1>3 DEF T

\* Events have a time.
LEMMA TimesNat == \A x \in EmailEvents : EventTime(x) \in Nat /\ EventTime(x) > 0
<1> SUFFICES ASSUME NEW x \in EmailEvents PROVE EventTime(x) \in Nat /\ EventTime(x) > 0
  OBVIOUS
<1>1. x.m \in Tagged
  BY DEF EmailEvents, EventsOf
<1>2. x.m.to \in Recipients
  BY <1>1 DEF Tagged
<1>3. QED
  BY <1>2, ReportsAssumption DEF EventTime

\* The times of the rows with these ids, and nothing for the others.
TimesOf(rows, ids) ==
  [i \in 1..Len(rows) |-> IF i \in ids THEN EventTime(rows[i]) ELSE 0]

\* TotalTime is a sum over the rows.
LEMMA TotalTimeFacts ==
  ASSUME NEW rows \in Seq(EmailEvents), NEW ids
  PROVE  /\ TimesOf(rows, ids) \in [1..Len(rows) -> Nat]
         /\ \E f \in [0..Len(rows) -> Nat] :
              AddsUp(f, TimesOf(rows, ids), Len(rows)) /\ TotalTime(rows, ids) = f[Len(rows)]
<1> DEFINE Row0(g, i) == IF i = 0 THEN 0
                         ELSE g[i - 1] + (IF i \in ids THEN EventTime(rows[i]) ELSE 0)
           P(g) == g = [i \in 0..Len(rows) |-> Row0(g, i)]
<1>1. PICK n \in Nat : n = Len(rows)
  OBVIOUS
<1>2. TimesOf(rows, ids) \in [1..Len(rows) -> Nat]
  BY TimesNat DEF TimesOf
<1>3. PICK t \in [1..n -> Nat] : t = TimesOf(rows, ids)
  BY <1>1, <1>2
<1>4. PICK f \in [0..n -> Nat] : AddsUp(f, t, n)
  BY SumsExist
<1>5. \A g, i : i \in 1..n => Row0(g, i) = g[i - 1] + t[i]
  BY <1>1, <1>3 DEF TimesOf
<1>6. \A g : Row0(g, 0) = 0
  OBVIOUS
<1> HIDE DEF Row0
<1>7. P(f)
  <2>1. ASSUME NEW i \in 0..n
        PROVE  f[i] = Row0(f, i)
    <3>1. CASE i = 0
      BY <1>4, <1>6, <3>1 DEF AddsUp
    <3>2. CASE i # 0
      <4>1. i \in 1..n
        BY <3>2
      <4>2. QED
        BY <1>4, <1>5, <4>1 DEF AddsUp
    <3>3. QED
      BY <3>1, <3>2
  <2>2. QED
    BY <1>1, <2>1
<1>8. ASSUME NEW g, P(g)
      PROVE  g[n] = f[n]
  <2> DEFINE T == {i \in 0..n : g[i] = f[i]}
  <2>1. \A i \in 0..n : g[i] = Row0(g, i) /\ f[i] = Row0(f, i)
    BY <1>1, <1>7, <1>8
  <2>2. 0 \in T
    BY <1>6, <2>1
  <2>3. ASSUME NEW i \in 1..n, i - 1 \in T PROVE i \in T
    <3>1. g[i] = g[i - 1] + t[i] /\ f[i] = f[i - 1] + t[i]
      <4>1. i \in 0..n
        OBVIOUS
      <4>2. g[i] = Row0(g, i)
        BY <2>1, <4>1
      <4>3. Row0(g, i) = g[i - 1] + t[i]
        BY <1>5
      <4>4. QED
        BY <1>4, <4>2, <4>3 DEF AddsUp
    <3>2. g[i - 1] = f[i - 1]
      BY <2>3
    <3>3. QED
      BY <3>1, <3>2
  <2> HIDE DEF T
  <2>4. \A i \in 0..n : i \in T
    BY <2>2, <2>3, Climb
  <2>5. QED
    BY <2>4 DEF T
<1>9. TotalTime(rows, ids) = (CHOOSE g : P(g))[n]
  BY <1>1 DEF TotalTime, Row0
<1> HIDE DEF P
<1>10. TotalTime(rows, ids) = f[n]
  BY <1>7, <1>8, <1>9
<1>11. QED
  BY <1>1, <1>2, <1>3, <1>4, <1>10

\* The counts of the first positions among some.
LEMMA PrefixCounts ==
  ASSUME NEW n \in Nat, NEW ids \in SUBSET (1..n)
  PROVE  /\ Cardinality(ids \cap 1..0) = 0 /\ ids \cap 1..n = ids
         /\ \A i \in 1..n : LET before == Cardinality(ids \cap 1..(i - 1))
                            IN  /\ before \in Nat
                                /\ Cardinality(ids \cap 1..i) =
                                     IF i \in ids THEN before + 1 ELSE before
<1>1. ids \cap 1..0 = {} /\ ids \cap 1..n = ids
  <2>1. \A x \in ids : x \in 1..n /\ x \notin 1..0
    OBVIOUS
  <2>2. ids \cap 1..0 = {}
    BY <2>1
  <2>3. ids \cap 1..n = ids
    BY <2>1
  <2>4. QED
    BY <2>2, <2>3
<1>2. ASSUME NEW i \in 1..n
      PROVE  LET before == Cardinality(ids \cap 1..(i - 1))
             IN  /\ before \in Nat
                 /\ Cardinality(ids \cap 1..i) = IF i \in ids THEN before + 1 ELSE before
  <2> DEFINE S == ids \cap 1..(i - 1)
  <2>1. S \in SUBSET (1..(i - 1)) /\ i \notin S
    OBVIOUS
  <2>2. IsFiniteSet(1..(i - 1))
    BY FS_Interval
  <2>3. ids \cap 1..i = IF i \in ids THEN S \cup {i} ELSE S
    OBVIOUS
  <2> HIDE DEF S
  <2>4. IsFiniteSet(S)
    BY <2>1, <2>2, FS_Subset
  <2>5. Cardinality(S) \in Nat /\ Cardinality(S \cup {i}) = Cardinality(S) + 1
    BY <2>1, <2>4, FS_CardinalityType, FS_AddElement
  <2>6. QED
    BY <2>3, <2>5 DEF S
<1>3. QED
  BY <1>1, <1>2, FS_EmptySet

\* A product grows by one factor.
LEMMA OneMore == ASSUME NEW a \in Nat, NEW b \in Nat PROVE a * (b + 1) = a * b + a /\ a * 0 = 0
OBVIOUS

\* A sum of numbers that are all at least, or all at most, a is at least, or at most, a
\* times how many there are.
LEMMA SumBounds ==
  ASSUME NEW n \in Nat, NEW t \in [1..n -> Nat], NEW f \in [0..n -> Nat], AddsUp(f, t, n),
         NEW ids \in SUBSET (1..n), \A i \in 1..n : i \notin ids => t[i] = 0, NEW a \in Nat
  PROVE  /\ (\A i \in ids : t[i] >= a) => f[n] >= a * Cardinality(ids)
         /\ (\A i \in ids : t[i] <= a) => f[n] <= a * Cardinality(ids)
<1> DEFINE k(i) == Cardinality(ids \cap 1..i)
<1>1. /\ k(0) = 0 /\ k(n) = Cardinality(ids)
      /\ \A i \in 1..n : k(i - 1) \in Nat /\ k(i) = IF i \in ids THEN k(i - 1) + 1 ELSE k(i - 1)
  BY PrefixCounts
<1> HIDE DEF k
<1>2. f[0] = 0 /\ \A i \in 1..n : f[i] = f[i - 1] + t[i] /\ f[i - 1] \in Nat /\ t[i] \in Nat
  BY DEF AddsUp
<1>3. ASSUME \A i \in ids : t[i] >= a PROVE f[n] >= a * Cardinality(ids)
  <2> DEFINE T == {i \in 0..n : f[i] >= a * k(i)}
  <2>1. 0 \in T
    BY <1>1, <1>2, OneMore
  <2>2. ASSUME NEW i \in 1..n, i - 1 \in T PROVE i \in T
    <3>1. f[i - 1] >= a * k(i - 1) /\ k(i - 1) \in Nat
      BY <1>1, <2>2
    <3>2. PICK p \in Nat : p = a * k(i - 1)
      BY <3>1
    <3>3. CASE i \in ids
      <4>1. a * k(i) = p + a
        BY <1>1, <3>2, <3>3, OneMore
      <4>2. f[i] >= p + a
        BY <1>2, <1>3, <3>1, <3>2, <3>3
      <4>3. QED
        BY <4>1, <4>2
    <3>4. CASE i \notin ids
      <4>1. a * k(i) = p
        BY <1>1, <3>2, <3>4
      <4>2. f[i] >= p
        BY <1>2, <3>1, <3>2
      <4>3. QED
        BY <4>1, <4>2
    <3>5. QED
      BY <3>3, <3>4
  <2> HIDE DEF T
  <2>3. \A i \in 0..n : i \in T
    BY <2>1, <2>2, Climb
  <2>4. QED
    BY <1>1, <2>3 DEF T
<1>4. ASSUME \A i \in ids : t[i] <= a PROVE f[n] <= a * Cardinality(ids)
  <2> DEFINE T == {i \in 0..n : f[i] <= a * k(i)}
  <2>1. 0 \in T
    BY <1>1, <1>2, OneMore
  <2>2. ASSUME NEW i \in 1..n, i - 1 \in T PROVE i \in T
    <3>1. f[i - 1] <= a * k(i - 1) /\ k(i - 1) \in Nat
      BY <1>1, <2>2
    <3>2. PICK p \in Nat : p = a * k(i - 1)
      BY <3>1
    <3>3. CASE i \in ids
      <4>1. a * k(i) = p + a
        BY <1>1, <3>2, <3>3, OneMore
      <4>2. f[i] <= p + a
        BY <1>2, <1>4, <3>1, <3>2, <3>3
      <4>3. QED
        BY <4>1, <4>2
    <3>4. CASE i \notin ids
      <4>1. a * k(i) = p
        BY <1>1, <3>2, <3>4
      <4>2. f[i] <= p
        BY <1>2, <3>1, <3>2, <3>4
      <4>3. QED
        BY <4>1, <4>2
    <3>5. QED
      BY <3>3, <3>4
  <2> HIDE DEF T
  <2>3. \A i \in 0..n : i \in T
    BY <2>1, <2>2, Climb
  <2>4. QED
    BY <1>1, <2>3 DEF T
<1>5. QED
  BY <1>3, <1>4

\* The rounded quotient of an average.
LEMMA RoundedQuotient ==
  ASSUME NEW x \in Nat, NEW y \in Nat \ {0}
  PROVE  /\ (2 * x + y) \div (2 * y) \in Nat
         /\ 2 * y * ((2 * x + y) \div (2 * y)) <= 2 * x + y
         /\ 2 * x + y < 2 * y * ((2 * x + y) \div (2 * y)) + 2 * y
<1>1. PICK p \in Nat, q \in Nat \ {0} : p = 2 * x + y /\ q = 2 * y
  OBVIOUS
<1>2. p \div q \in Nat /\ q * (p \div q) <= p /\ p < q * (p \div q) + q
  OBVIOUS
<1>3. QED
  BY <1>1, <1>2

\* An average lies between the times it is made of.
LEMMA AvgFacts ==
  ASSUME NEW rows \in Seq(EmailEvents), NEW ids \in SUBSET (1..Len(rows))
  PROVE  /\ AvgTime(rows, ids) \in Nat
         /\ ids = {} => AvgTime(rows, ids) = 0
         /\ ids # {} => /\ \E i \in ids : EventTime(rows[i]) <= AvgTime(rows, ids)
                        /\ \E i \in ids : AvgTime(rows, ids) <= EventTime(rows[i])
<1>1. CASE ids = {}
  BY <1>1 DEF AvgTime
<1>2. CASE ids # {}
  <2>1. PICK n \in Nat : n = Len(rows)
    OBVIOUS
  <2>2. PICK t \in [1..n -> Nat] : t = TimesOf(rows, ids)
    BY <2>1, TotalTimeFacts
  <2>3. PICK f \in [0..n -> Nat] : AddsUp(f, t, n) /\ TotalTime(rows, ids) = f[n]
    BY <2>1, <2>2, TotalTimeFacts
  <2>4. /\ \A i \in 1..n : i \notin ids => t[i] = 0
        /\ \A i \in ids : t[i] = EventTime(rows[i]) /\ t[i] \in Nat
    BY <2>1, <2>2 DEF TimesOf
  <2>5. ids \in SUBSET (1..n)
    BY <2>1
  <2>6. Cardinality(ids) \in Nat \ {0}
    <3>1. IsFiniteSet(1..n)
      BY FS_Interval
    <3>2. IsFiniteSet(ids)
      BY <2>5, <3>1, FS_Subset
    <3>3. QED
      BY <1>2, <3>2, FS_CardinalityType, FS_EmptySet
  <2>7. PICK k \in Nat \ {0} : k = Cardinality(ids)
    BY <2>6
  <2>8. PICK total \in Nat : total = f[n]
    OBVIOUS
  <2>9. AvgTime(rows, ids) = (2 * total + k) \div (2 * k)
    BY <1>2, <2>3, <2>7, <2>8 DEF AvgTime
  <2>10. PICK a \in Nat : /\ a = AvgTime(rows, ids)
                          /\ 2 * k * a <= 2 * total + k /\ 2 * total + k < 2 * k * a + 2 * k
    BY <2>9, RoundedQuotient
  <2>11. PICK ka \in Nat : ka = k * a /\ 2 * k * a = 2 * ka
    OBVIOUS
  <2>12. \E i \in ids : t[i] <= a
    <3>1. SUFFICES ASSUME \A i \in ids : ~(t[i] <= a) PROVE FALSE
      OBVIOUS
    <3>2. a + 1 \in Nat /\ \A i \in ids : t[i] >= a + 1
      BY <2>4, <3>1
    <3>3. total >= (a + 1) * k
      BY <2>3, <2>4, <2>5, <2>7, <2>8, <3>2, SumBounds
    <3>4. (a + 1) * k = ka + k
      BY <2>11
    <3>5. 2 * total + k < 2 * ka + 2 * k
      BY <2>10, <2>11
    <3>6. total >= ka + k
      BY <3>3, <3>4
    <3>7. QED
      BY <3>5, <3>6
  <2>13. \E i \in ids : a <= t[i]
    <3>1. SUFFICES ASSUME \A i \in ids : ~(a <= t[i]) PROVE FALSE
      OBVIOUS
    <3>2. PICK i \in ids : t[i] \in Nat /\ t[i] < a
      <4>1. PICK i \in ids : TRUE
        BY <1>2
      <4>2. t[i] \in Nat /\ ~(a <= t[i])
        BY <2>4, <3>1
      <4>3. t[i] < a
        BY <4>2
      <4>4. QED
        BY <4>2, <4>3
    <3>3. PICK m \in Nat : m + 1 = a
      <4>1. a - 1 \in Nat /\ (a - 1) + 1 = a
        BY <3>2
      <4>2. QED
        BY <4>1
    <3>4. \A j \in ids : t[j] <= m
      BY <2>4, <3>1, <3>3
    <3>5. total <= m * k
      BY <2>3, <2>4, <2>5, <2>7, <2>8, <3>4, SumBounds
    <3>6. ka = m * k + k
      BY <2>11, <3>3
    <3>7. total + k <= ka
      <4>1. m * k \in Nat
        OBVIOUS
      <4>2. QED
        BY <3>5, <3>6, <4>1
    <3>8. 2 * ka <= 2 * total + k
      BY <2>10, <2>11
    <3>9. QED
      BY <3>7, <3>8
  <2>14. QED
    BY <1>2, <2>4, <2>10, <2>12, <2>13
<1>3. QED
  BY <1>1, <1>2

-----------------------------------------------------------------------------
(* Counting rows of the log, which only grows.                             *)

\* A later log begins with the rows of an earlier one.
Extends(rows, more) ==
  Len(rows) <= Len(more) /\ \A i \in 1..Len(rows) : more[i] = rows[i]

Clicks(rows, c, e, l) ==
  {i \in DOMAIN rows : rows[i].m.c = c /\ rows[i].m.e = e /\ rows[i].link = l}
Opens(rows, c, e) ==
  {i \in DOMAIN rows :
     rows[i].m.c = c /\ rows[i].m.e = e /\ rows[i].event = "unique_opened"}
Clicked(rows, c, e) == {l \in Links : Cardinality(Clicks(rows, c, e, l)) > 0}

\* Sets of rows are finite, and larger ones have more.
LEMMA IdsFacts ==
  ASSUME NEW rows \in Seq(EmailEvents), NEW ids \in SUBSET (1..Len(rows))
  PROVE  /\ Cardinality(ids) \in Nat /\ IsFiniteSet(ids)
         /\ Cardinality(ids) > 0 <=> ids # {}
         /\ \A some \in SUBSET ids : Cardinality(some) <= Cardinality(ids)
<1>1. IsFiniteSet(1..Len(rows))
  BY FS_Interval
<1>2. IsFiniteSet(ids)
  BY <1>1, FS_Subset
<1>3. Cardinality(ids) \in Nat /\ (Cardinality(ids) = 0 <=> ids = {})
  BY <1>2, FS_CardinalityType, FS_EmptySet
<1>4. \A some \in SUBSET ids : Cardinality(some) <= Cardinality(ids)
  BY <1>2, FS_Subset
<1>5. Cardinality(ids) > 0 <=> ids # {}
  <2>1. PICK n \in Nat : n = Cardinality(ids)
    BY <1>3
  <2>2. n > 0 <=> n # 0
    OBVIOUS
  <2>3. QED
    BY <1>3, <2>1, <2>2, Zenon
<1>6. QED
  BY <1>2, <1>3, <1>4, <1>5

\* The rows counted in a log are counted in a later one.
LEMMA CountsGrow ==
  ASSUME NEW rows \in Seq(EmailEvents), NEW more \in Seq(EmailEvents), Extends(rows, more),
         NEW c, NEW e
  PROVE  /\ Opens(rows, c, e) \subseteq Opens(more, c, e)
         /\ Cardinality(Opens(rows, c, e)) <= Cardinality(Opens(more, c, e))
         /\ \A l : Cardinality(Clicks(rows, c, e, l)) <= Cardinality(Clicks(more, c, e, l))
         /\ Clicked(rows, c, e) \subseteq Clicked(more, c, e)
<1>1. PICK n \in Nat, m \in Nat : n = Len(rows) /\ m = Len(more) /\ n <= m
  BY DEF Extends
<1>2. DOMAIN rows = 1..n /\ DOMAIN more = 1..m /\ \A i \in 1..n : i \in 1..m /\ more[i] = rows[i]
  BY <1>1 DEF Extends
<1>3. Opens(rows, c, e) \subseteq Opens(more, c, e) /\ Opens(more, c, e) \in SUBSET (1..m)
  BY <1>2 DEF Opens
<1>4. \A l : /\ Clicks(rows, c, e, l) \subseteq Clicks(more, c, e, l)
             /\ Clicks(more, c, e, l) \in SUBSET (1..m)
             /\ Clicks(rows, c, e, l) \in SUBSET (1..n)
  BY <1>2 DEF Clicks
<1>5. Cardinality(Opens(rows, c, e)) <= Cardinality(Opens(more, c, e))
  BY <1>1, <1>3, IdsFacts
<1>6. \A l : /\ Cardinality(Clicks(rows, c, e, l)) <= Cardinality(Clicks(more, c, e, l))
             /\ Cardinality(Clicks(rows, c, e, l)) \in Nat
             /\ Cardinality(Clicks(more, c, e, l)) \in Nat
  BY <1>1, <1>4, IdsFacts
<1>7. Clicked(rows, c, e) \subseteq Clicked(more, c, e)
  BY <1>6 DEF Clicked
<1>8. QED
  BY <1>3, <1>5, <1>6, <1>7

\* The beginning of a log, which later rows leave alone.
LEMMA StartFacts ==
  ASSUME NEW rows \in Seq(EmailEvents), NEW since \in 0..Len(rows)
  PROVE  /\ SubSeq(rows, 1, since) \in Seq(EmailEvents)
         /\ Extends(SubSeq(rows, 1, since), rows)
         /\ \A more \in Seq(EmailEvents) :
              Extends(rows, more) => SubSeq(more, 1, since) = SubSeq(rows, 1, since)
<1>1. SubSeq(rows, 1, since) \in Seq(EmailEvents) /\ Len(SubSeq(rows, 1, since)) = since
  OBVIOUS
<1>2. \A i \in 1..since : SubSeq(rows, 1, since)[i] = rows[i]
  OBVIOUS
<1>3. ASSUME NEW more \in Seq(EmailEvents), Extends(rows, more)
      PROVE  SubSeq(more, 1, since) = SubSeq(rows, 1, since)
  <2>1. PICK n \in Nat, m \in Nat : n = Len(rows) /\ m = Len(more) /\ n <= m /\ since <= n
    BY <1>3 DEF Extends
  <2>2. \A i \in 1..since : more[i] = rows[i]
    BY <1>3, <2>1 DEF Extends
  <2>3. SubSeq(more, 1, since) \in Seq(EmailEvents) /\ Len(SubSeq(more, 1, since)) = since
    BY <2>1
  <2>4. \A i \in 1..since : SubSeq(more, 1, since)[i] = more[i]
    BY <2>1
  <2>5. QED
    BY <1>1, <1>2, <2>2, <2>3, <2>4
<1>4. QED
  BY <1>1, <1>2, <1>3 DEF Extends

-----------------------------------------------------------------------------
(* What a report of a request says about the log.                          *)

\* The emails whose opens, clicks and averages the report has read.
ReadA(r) == {e \in EmailsOf(r.c) : e < r.k \/ r.pc = "answer"}
ReadC(r) == ReadA(r) \cup (IF r.pc = "avg" THEN {r.k} ELSE {})
ReadO(r) == ReadA(r) \cup (IF r.pc \in {"clicks", "avg"} THEN {r.k} ELSE {})

Start(r, rows) == SubSeq(rows, 1, r.since)

OpensRight(n, start, rows, c, e) ==
  Cardinality(Opens(start, c, e)) <= n /\ n <= Cardinality(Opens(rows, c, e))

AvgRight(avg, rows, c, e) ==
  /\ \E i \in Opens(rows, c, e) : EventTime(rows[i]) <= avg
  /\ \E i \in Opens(rows, c, e) : avg <= EventTime(rows[i])

ClicksRight(shown, start, rows, c, e) ==
  /\ \A l \in Links : shown[l] > 0 => l \in Clicked(rows, c, e)
  /\ Clicked(start, c, e) # {} => \E l \in Links : shown[l] > 0
  /\ \A l \in Links :
       Clicked(rows, c, e) = {l} =>
         /\ Cardinality(Clicks(start, c, e, l)) <= shown[l]
         /\ shown[l] <= Cardinality(Clicks(rows, c, e, l))

Shown(r, rows) ==
  /\ r.pc = "idle" => \A e \in EmailIds : r.results[e] = NoResult
  /\ \A e \in EmailIds :
       r.results[e] # NoResult => \E i \in DOMAIN rows : rows[i].m.c = r.c
  /\ \A e \in EmailIds \ ReadC(r) : r.results[e].links = NoClicks

\* Email e of the report, as far as it has been read.
EmailRight(r, rows, e) ==
  /\ e \in ReadO(r) => OpensRight(r.results[e].opens, Start(r, rows), rows, r.c, e)
  /\ e \in ReadA(r) => (r.results[e].opens > 0 => AvgRight(r.results[e].avg, rows, r.c, e))
  /\ e \in ReadC(r) => ClicksRight(r.results[e].links, Start(r, rows), rows, r.c, e)

Right(r, rows) ==
  /\ r \in Report_ /\ r.k \in EmailsOf(r.c) /\ r.since <= Len(rows)
  /\ Shown(r, rows)
  /\ r.pc # "idle" => \A e \in EmailIds : EmailRight(r, rows, e)

EventsInv ==
  /\ inbox \subseteq Tagged
  /\ happened \subseteq EmailEvents
  /\ calls \subseteq happened
  /\ log \in Seq(EmailEvents)
  /\ NoEventLost /\ EventsKnown

ReportRight == Right(report, log)

\* The emails of a campaign are among 1..4, and there is one at least.
LEMMA EmailsFacts ==
  ASSUME NEW c \in Campaigns
  PROVE  /\ EmailsOf(c) = 1..Len(Ratios[c]) /\ Len(Ratios[c]) \in 1..4
         /\ EmailsOf(c) \subseteq EmailIds
         /\ EmailIds = 1..4
<1>1. Ratios[c] \in Seq(Nat) /\ Len(Ratios[c]) \in 1..MaxEmails
  BY RatiosAssumption
<1>2. QED
  BY <1>1 DEF EmailsOf, EmailIds, MaxEmails

\* What has been read is an email of the campaign.
LEMMA ReadFacts ==
  ASSUME NEW r \in Report_, r.k \in EmailsOf(r.c)
  PROVE  /\ ReadA(r) \subseteq ReadO(r) /\ ReadA(r) \subseteq ReadC(r)
         /\ ReadO(r) \subseteq EmailIds /\ ReadC(r) \subseteq EmailIds
         /\ r.c \in Campaigns /\ r.pc \in ReportPC /\ r.k \in EmailIds /\ r.since \in Nat
         /\ r.results \in [EmailIds -> CampaignResult]
<1>1. r.c \in Campaigns /\ r.pc \in ReportPC /\ r.k \in EmailIds /\ r.since \in Nat
      /\ r.results \in [EmailIds -> CampaignResult]
  BY DEF Report_
<1>2. EmailsOf(r.c) \subseteq EmailIds
  BY <1>1, EmailsFacts
<1>3. QED
  BY <1>1, <1>2 DEF ReadA, ReadO, ReadC

\* The invariant is one about events and one about the report.
LEMMA InvParts == ReportsInv <=> EventsInv /\ ReportRight
<1> DEFINE r == report
           S == Start(report, log)
<1>1. ASSUME ReportsInv
      PROVE  EventsInv /\ ReportRight
  <2>1. /\ report \in Report_ /\ report.k \in EmailsOf(report.c) /\ report.since <= Len(log)
        /\ EventsInv
    BY <1>1 DEF ReportsInv, ReportsTypeOK, EventsInv, ReportGrows
  <2>2. Shown(report, log)
    BY <1>1 DEF ReportsInv, ReportGrows, Shown, ClicksRead, AvgRead, ReadC, ReadA
  <2>3. ASSUME report.pc # "idle", NEW e \in EmailIds
        PROVE  EmailRight(report, log, e)
    <3>1. e \in ReadO(report) => OpensRight(report.results[e].opens, S, log, report.c, e)
      BY <1>1, <2>3 DEF ReportsInv, ReportGrows, OpensRead, OpensIn, AvgRead, ReadO, ReadA,
         OpensRight, Opens, Start, Before
    <3>2. e \in ReadA(report) => (report.results[e].opens > 0 =>
                                    AvgRight(report.results[e].avg, log, report.c, e))
      BY <1>1, <2>3 DEF ReportsInv, OpensReported, AvgRead, ReadA, AvgRight, Opens
    <3>3. e \in ReadC(report) => ClicksRight(report.results[e].links, S, log, report.c, e)
      BY <1>1, <2>3 DEF ReportsInv, ClicksReported, AvgRead, ReadA, ClicksRead, ReadC,
         ClicksRight, Clicked, Clicks, Start, Before
    <3>4. QED
      BY <3>1, <3>2, <3>3 DEF EmailRight
  <2>4. QED
    BY <2>1, <2>2, <2>3 DEF ReportRight, Right
<1>2. ASSUME EventsInv, ReportRight
      PROVE  ReportsInv
  <2>1. /\ report \in Report_ /\ report.k \in EmailsOf(report.c) /\ report.since <= Len(log)
        /\ Shown(report, log)
        /\ report.pc # "idle" => \A e \in EmailIds : EmailRight(report, log, e)
    BY <1>2 DEF ReportRight, Right
  <2>2. ReportsTypeOK /\ NoEventLost /\ EventsKnown
    BY <1>2, <2>1 DEF ReportsTypeOK, EventsInv
  <2>3. AvgRead = ReadA(report) /\ ClicksRead = ReadC(report) /\ OpensRead = ReadO(report)
    BY DEF AvgRead, ClicksRead, OpensRead, ReadA, ReadC, ReadO
  <2>4. /\ ReadA(report) \subseteq ReadO(report)
        /\ ReadO(report) \subseteq EmailIds /\ ReadC(report) \subseteq EmailIds
    BY <2>1, ReadFacts
  <2>5. report.pc # "idle" => \A e \in ReadO(report) :
          OpensRight(report.results[e].opens, S, log, report.c, e)
    BY <2>1, <2>4 DEF EmailRight
  <2>6. ReportGrows
    BY <2>1, <2>3, <2>5 DEF ReportGrows, Shown, OpensRight, Opens, OpensIn, Start, Before
  <2>7. ASSUME report.pc # "idle", NEW e \in ReadA(report)
        PROVE  report.results[e].opens > 0 => AvgRight(report.results[e].avg, log, report.c, e)
    BY <2>1, <2>4, <2>7 DEF EmailRight
  <2>8. OpensReported
    BY <2>3, <2>4, <2>5, <2>7 DEF OpensReported, OpensRight, AvgRight, Opens, Start, Before
  <2>9. ASSUME report.pc # "idle", NEW e \in ReadC(report)
        PROVE  ClicksRight(report.results[e].links, S, log, report.c, e)
    BY <2>1, <2>4, <2>9 DEF EmailRight
  <2>10. ClicksReported
    BY <2>3, <2>9 DEF ClicksReported, ClicksRight, Clicked, Clicks, Start, Before
  <2>11. QED
    BY <2>2, <2>6, <2>8, <2>10 DEF ReportsInv
<1>3. QED
  BY <1>1, <1>2

\* Counts that were right stay right when rows are added.
LEMMA OpensGrow ==
  ASSUME NEW rows \in Seq(EmailEvents), NEW more \in Seq(EmailEvents), Extends(rows, more),
         NEW c, NEW e, NEW start, NEW n \in Nat, OpensRight(n, start, rows, c, e)
  PROVE  OpensRight(n, start, more, c, e)
<1>1. Opens(rows, c, e) \in SUBSET (1..Len(rows)) /\ Opens(more, c, e) \in SUBSET (1..Len(more))
  BY DEF Opens
<1>2. /\ Cardinality(Opens(rows, c, e)) \in Nat /\ Cardinality(Opens(more, c, e)) \in Nat
      /\ Cardinality(Opens(rows, c, e)) <= Cardinality(Opens(more, c, e))
  BY <1>1, IdsFacts, CountsGrow
<1>3. QED
  BY <1>2 DEF OpensRight

\* So do averages.
LEMMA AvgGrows ==
  ASSUME NEW rows \in Seq(EmailEvents), NEW more \in Seq(EmailEvents), Extends(rows, more),
         NEW c, NEW e, NEW avg \in Nat, AvgRight(avg, rows, c, e)
  PROVE  AvgRight(avg, more, c, e)
<1>1. Opens(rows, c, e) \subseteq Opens(more, c, e)
  BY CountsGrow
<1>2. \A i \in Opens(rows, c, e) : more[i] = rows[i]
  BY DEF Opens, Extends
<1>3. QED
  BY <1>1, <1>2 DEF AvgRight

\* And so do clicks: a link that is the only one clicked in the end was the
\* only one, or there was none.
LEMMA ClicksGrow ==
  ASSUME NEW rows \in Seq(EmailEvents), NEW more \in Seq(EmailEvents), Extends(rows, more),
         NEW c, NEW e, NEW start \in Seq(EmailEvents), Extends(start, rows),
         NEW shown \in [Links -> Nat], ClicksRight(shown, start, rows, c, e)
  PROVE  ClicksRight(shown, start, more, c, e)
<1>1. /\ Clicked(rows, c, e) \subseteq Clicked(more, c, e)
      /\ \A l : /\ Cardinality(Clicks(rows, c, e, l)) <= Cardinality(Clicks(more, c, e, l))
                /\ Cardinality(Clicks(start, c, e, l)) <= Cardinality(Clicks(rows, c, e, l))
  BY CountsGrow
<1>2. \A l : /\ Cardinality(Clicks(start, c, e, l)) \in Nat
             /\ Cardinality(Clicks(rows, c, e, l)) \in Nat
             /\ Cardinality(Clicks(more, c, e, l)) \in Nat
  <2>1. \A l : /\ Clicks(start, c, e, l) \in SUBSET (1..Len(start))
               /\ Clicks(rows, c, e, l) \in SUBSET (1..Len(rows))
               /\ Clicks(more, c, e, l) \in SUBSET (1..Len(more))
    BY DEF Clicks
  <2>2. QED
    BY <2>1, IdsFacts
<1>3. /\ \A l \in Links : shown[l] > 0 => l \in Clicked(rows, c, e)
      /\ Clicked(start, c, e) # {} => \E l \in Links : shown[l] > 0
      /\ \A l \in Links :
           Clicked(rows, c, e) = {l} =>
             /\ Cardinality(Clicks(start, c, e, l)) <= shown[l]
             /\ shown[l] <= Cardinality(Clicks(rows, c, e, l))
  BY DEF ClicksRight
<1>4. ASSUME NEW l \in Links, Clicked(more, c, e) = {l}
      PROVE  /\ Cardinality(Clicks(start, c, e, l)) <= shown[l]
             /\ shown[l] <= Cardinality(Clicks(more, c, e, l))
  <2>1. CASE Clicked(rows, c, e) = {l}
    BY <1>1, <1>2, <1>3, <2>1
  <2>2. CASE Clicked(rows, c, e) = {}
    <3>1. shown[l] = 0
      BY <1>3, <2>2
    <3>2. ~(Cardinality(Clicks(rows, c, e, l)) > 0)
      BY <2>2 DEF Clicked
    <3>3. QED
      BY <1>1, <1>2, <3>1, <3>2
  <2>3. QED
    BY <1>1, <1>4, <2>1, <2>2
<1>5. QED
  BY <1>1, <1>3, <1>4 DEF ClicksRight

\* A report under way stays right when rows are added to the log.
LEMMA RightGrows ==
  ASSUME NEW rows \in Seq(EmailEvents), NEW more \in Seq(EmailEvents), Extends(rows, more),
         NEW r, Right(r, rows)
  PROVE  Right(r, more)
<1>1. /\ r \in Report_ /\ r.k \in EmailsOf(r.c) /\ r.since <= Len(rows)
      /\ Shown(r, rows)
      /\ r.pc # "idle" => \A e \in EmailIds : EmailRight(r, rows, e)
  BY DEF Right
<1>2. /\ r.since \in 0..Len(rows) /\ r.since <= Len(more)
      /\ Start(r, rows) \in Seq(EmailEvents) /\ Extends(Start(r, rows), rows)
      /\ Start(r, more) = Start(r, rows)
  <2>1. r.since \in 0..Len(rows) /\ r.since <= Len(more)
    BY <1>1, ReadFacts DEF Extends
  <2>2. QED
    BY <2>1, StartFacts DEF Start
<1>3. Shown(r, more)
  BY <1>1 DEF Shown, Extends
<1>4. ASSUME r.pc # "idle", NEW e \in EmailIds
      PROVE  EmailRight(r, more, e)
  <2>1. EmailRight(r, rows, e)
    BY <1>1, <1>4
  <2>2. /\ r.results[e] \in CampaignResult /\ r.results[e].opens \in Nat
        /\ r.results[e].avg \in Nat /\ r.results[e].links \in [Links -> Nat]
    BY <1>1, ReadFacts DEF CampaignResult
  <2>3. e \in ReadO(r) => OpensRight(r.results[e].opens, Start(r, more), more, r.c, e)
    BY <1>2, <2>1, <2>2, OpensGrow DEF EmailRight
  <2>4. e \in ReadA(r) => (r.results[e].opens > 0 => AvgRight(r.results[e].avg, more, r.c, e))
    BY <2>1, <2>2, AvgGrows DEF EmailRight
  <2>5. e \in ReadC(r) => ClicksRight(r.results[e].links, Start(r, more), more, r.c, e)
    BY <1>2, <2>1, <2>2, ClicksGrow DEF EmailRight
  <2>6. QED
    BY <2>3, <2>4, <2>5 DEF EmailRight
<1>5. QED
  BY <1>1, <1>2, <1>3, <1>4 DEF Right

-----------------------------------------------------------------------------
(* The queries of a report.                                                *)

\* Report s is report r after a query that filled in result q of email k, the one
\* being read, with something right.
FillsIn(r, s, k, q, rows) ==
  /\ k = r.k /\ q \in CampaignResult /\ s \in Report_
  /\ r.pc # "idle" /\ s.pc # "idle"
  /\ s.c = r.c /\ s.since = r.since /\ s.k \in EmailsOf(s.c)
  /\ s.results = [r.results EXCEPT ![k] = q]
  /\ q # NoResult => r.results[k] # NoResult \/ \E i \in DOMAIN rows : rows[i].m.c = r.c
  /\ k \notin ReadC(s) => q.links = NoClicks
  /\ \A e \in EmailIds : e # k =>
       /\ e \in ReadO(s) => e \in ReadO(r)
       /\ e \in ReadA(s) => e \in ReadA(r)
       /\ e \in ReadC(s) <=> e \in ReadC(r)
  /\ EmailRight(s, rows, k)

\* Such a query leaves the report right.
LEMMA QueryRight ==
  ASSUME NEW rows \in Seq(EmailEvents), NEW r, Right(r, rows),
         NEW k, NEW q, NEW s, FillsIn(r, s, k, q, rows)
  PROVE  Right(s, rows)
<1>0. /\ k = r.k /\ q \in CampaignResult /\ s \in Report_
      /\ r.pc # "idle" /\ s.pc # "idle"
      /\ s.c = r.c /\ s.since = r.since /\ s.k \in EmailsOf(s.c)
      /\ s.results = [r.results EXCEPT ![k] = q]
      /\ q # NoResult => r.results[k] # NoResult \/ \E i \in DOMAIN rows : rows[i].m.c = r.c
      /\ k \notin ReadC(s) => q.links = NoClicks
      /\ \A e \in EmailIds : e # k =>
           /\ e \in ReadO(s) => e \in ReadO(r)
           /\ e \in ReadA(s) => e \in ReadA(r)
           /\ e \in ReadC(s) <=> e \in ReadC(r)
      /\ EmailRight(s, rows, k)
  BY DEF FillsIn
<1>1. /\ r \in Report_ /\ r.k \in EmailsOf(r.c) /\ r.since <= Len(rows)
      /\ Shown(r, rows)
      /\ \A e \in EmailIds : EmailRight(r, rows, e)
  BY <1>0 DEF Right
<1>2. r.results \in [EmailIds -> CampaignResult] /\ k \in EmailIds
  BY <1>0, <1>1, ReadFacts
<1>3. s.results[k] = q /\ \A e \in EmailIds : e # k => s.results[e] = r.results[e]
  BY <1>0, <1>2
<1>4. Shown(s, rows)
  <2>1. ASSUME NEW e \in EmailIds, s.results[e] # NoResult
        PROVE  \E i \in DOMAIN rows : rows[i].m.c = s.c
    BY <1>0, <1>1, <1>2, <1>3, <2>1 DEF Shown
  <2>2. ASSUME NEW e \in EmailIds \ ReadC(s)
        PROVE  s.results[e].links = NoClicks
    BY <1>0, <1>1, <1>3, <2>2 DEF Shown
  <2>3. QED
    BY <1>0, <2>1, <2>2 DEF Shown
<1>5. Start(s, rows) = Start(r, rows)
  BY <1>0 DEF Start
<1>6. ASSUME NEW e \in EmailIds
      PROVE  EmailRight(s, rows, e)
  <2>1. CASE e = k
    BY <1>0, <2>1
  <2>2. CASE e # k
    BY <1>0, <1>1, <1>3, <1>5, <2>2 DEF EmailRight
  <2>3. QED
    BY <2>1, <2>2
<1>7. QED
  BY <1>0, <1>1, <1>4, <1>6 DEF Right

\* The rows a filter on campaign email and event selects are those of the opens,
\* or those of the clicks.
LEMMA RowsFacts ==
  ASSUME NEW rows \in Seq(EmailEvents), NEW c, NEW e
  PROVE  /\ Rows(rows, c, e, "unique_opened") = Opens(rows, c, e)
         /\ Opens(rows, c, e) \in SUBSET (1..Len(rows))
         /\ Rows(rows, c, e, "click") \in SUBSET (1..Len(rows))
         /\ \A l \in Links : /\ Clicks(rows, c, e, l) \in SUBSET (1..Len(rows))
                             /\ Clicks(rows, c, e, l) =
                                  {i \in Rows(rows, c, e, "click") : rows[i].link = l}
         /\ \A i \in Rows(rows, c, e, "click") : rows[i].link \in Links
         /\ \A i \in 1..Len(rows) : rows[i].m \in Tagged
<1>1. \A i \in 1..Len(rows) : rows[i] \in EmailEvents
  OBVIOUS
<1>2. \A x \in EmailEvents : /\ x.m \in Tagged
                             /\ \/ x.event = "unique_opened" /\ x.link = NoLink
                                \/ x.event = "click" /\ x.link \in Links
  BY DEF EmailEvents, EventsOf
<1>3. \A l \in Links : l # NoLink
  BY ReportsAssumption
<1>4. \A i \in 1..Len(rows) : rows[i].link \in Links <=> rows[i].event = "click"
  BY <1>1, <1>2, <1>3
<1>5. \A l \in Links : Clicks(rows, c, e, l) =
                         {i \in Rows(rows, c, e, "click") : rows[i].link = l}
  BY <1>4 DEF Rows, Clicks
<1>6. QED
  BY <1>1, <1>2, <1>4, <1>5 DEF Rows, Opens, Clicks

\* No report has nothing read, and shows nothing.
LEMMA IdleRight ==
  ASSUME NEW rows \in Seq(EmailEvents)
  PROVE  Right(IdleReport, rows)
<1>1. PICK c \in Campaigns : c = CHOOSE d \in Campaigns : TRUE
  BY BoundsAssumption
<1>2. NoResult \in CampaignResult /\ NoResult.links = NoClicks
  BY DEF NoResult, CampaignResult, NoClicks
<1>3. [e \in EmailIds |-> NoResult] \in [EmailIds -> CampaignResult]
  BY <1>2
<1>4. 1 \in EmailIds /\ 1 \in EmailsOf(c)
  BY EmailsFacts
<1>5. IdleReport = [pc |-> "idle", c |-> c, k |-> 1,
                    results |-> [e \in EmailIds |-> NoResult], since |-> 0]
  BY <1>1 DEF IdleReport
<1>6. IdleReport \in Report_
  BY <1>3, <1>4, <1>5 DEF Report_, ReportPC
<1>7. Shown(IdleReport, rows)
  BY <1>2, <1>5 DEF Shown
<1>8. QED
  BY <1>4, <1>5, <1>6, <1>7 DEF Right

\* A report begins with nothing read.
LEMMA GetCampaignRight ==
  ASSUME NEW rows \in Seq(EmailEvents), NEW c \in Campaigns
  PROVE  Right([IdleReport EXCEPT !.pc = "opens", !.c = c, !.since = Len(rows)], rows)
<1>1. NoResult.links = NoClicks
  BY DEF NoResult, NoClicks
<1>2. PICK i \in Report_ : i = IdleReport
  BY IdleRight DEF Right
<1>3. i.k = 1 /\ \A e \in EmailIds : i.results[e] = NoResult
  BY <1>2 DEF IdleReport
<1>4. PICK n \in Nat : n = Len(rows)
  OBVIOUS
<1>5. PICK s : s = [i EXCEPT !.pc = "opens", !.c = c, !.since = n]
  OBVIOUS
<1>6. s \in Report_
  BY <1>5 DEF Report_, ReportPC
<1>7. s.pc = "opens" /\ s.c = c /\ s.k = 1 /\ s.since = n /\ s.results = i.results
  BY <1>3, <1>5 DEF Report_
<1>8. 1 \in EmailsOf(c)
  BY EmailsFacts
<1>9. ReadA(s) = {} /\ ReadC(s) = {} /\ ReadO(s) = {}
  BY <1>7, EmailsFacts DEF ReadA, ReadC, ReadO
<1>10. Shown(s, rows)
  BY <1>1, <1>3, <1>7 DEF Shown
<1>11. \A e \in EmailIds : EmailRight(s, rows, e)
  BY <1>9 DEF EmailRight
<1>12. Right(s, rows)
  BY <1>4, <1>6, <1>7, <1>8, <1>10, <1>11 DEF Right
<1>13. QED
  BY <1>2, <1>4, <1>5, <1>12

\* A result in which nothing is new but a number or a link's clicks.
LEMMA ResultFacts ==
  ASSUME NEW q \in CampaignResult
  PROVE  /\ q.opens \in Nat /\ q.avg \in Nat /\ q.links \in [Links -> Nat]
         /\ q = NoResult <=> q.opens = 0 /\ q.links = NoClicks /\ q.avg = 0
BY DEF CampaignResult, NoResult

\* Counting the opens of an email.
LEMMA CountOpensRight ==
  ASSUME NEW rows \in Seq(EmailEvents), NEW r, Right(r, rows), r.pc = "opens"
  PROVE  Right([r EXCEPT
                  !.results[r.k].opens = Cardinality(Rows(rows, r.c, r.k, "unique_opened")),
                  !.pc = "clicks"], rows)
<1>1. /\ r \in Report_ /\ r.k \in EmailsOf(r.c) /\ r.since <= Len(rows)
      /\ Shown(r, rows)
  BY DEF Right
<1>2. PICK k : k = r.k
  OBVIOUS
<1>3. k \in EmailIds /\ r.results \in [EmailIds -> CampaignResult] /\ r.results[k] \in CampaignResult
      /\ r.c \in Campaigns /\ r.since \in Nat
  BY <1>1, <1>2, ReadFacts
<1>4. PICK n : n = Cardinality(Opens(rows, r.c, k))
  OBVIOUS
<1>5. n \in Nat /\ (n > 0 => Opens(rows, r.c, k) # {})
      /\ Rows(rows, r.c, k, "unique_opened") = Opens(rows, r.c, k)
  BY <1>4, RowsFacts, IdsFacts
<1>6. PICK q : q = [r.results[k] EXCEPT !.opens = n]
  OBVIOUS
<1>7. q \in CampaignResult /\ q.opens = n /\ q.links = r.results[k].links
      /\ q.avg = r.results[k].avg
  BY <1>3, <1>5, <1>6 DEF CampaignResult
<1>8. PICK s : s = [r EXCEPT !.results[k].opens = n, !.pc = "clicks"]
  OBVIOUS
<1>9. /\ s.pc = "clicks" /\ s.c = r.c /\ s.k = k /\ s.since = r.since
      /\ s.results = [r.results EXCEPT ![k] = q]
      /\ s = [r EXCEPT !.results = [r.results EXCEPT ![k] = q], !.pc = "clicks"]
  BY <1>1, <1>2, <1>6, <1>8 DEF Report_
<1>10. s \in Report_
  <2>1. [r.results EXCEPT ![k] = q] \in [EmailIds -> CampaignResult]
    BY <1>3, <1>7
  <2>2. QED
    BY <1>1, <1>9, <2>1 DEF Report_, ReportPC
<1>11. /\ ReadA(s) = ReadA(r) /\ ReadC(s) = ReadC(r)
       /\ ReadO(s) \subseteq ReadO(r) \cup {k} /\ k \notin ReadC(s) /\ k \notin ReadA(s)
  BY <1>1, <1>2, <1>3, <1>9 DEF ReadA, ReadC, ReadO, EmailIds
<1>12. q.links = NoClicks
  BY <1>3, <1>1, <1>7, <1>11 DEF Shown
<1>13. q # NoResult => r.results[k] # NoResult \/ \E i \in DOMAIN rows : rows[i].m.c = r.c
  <2>1. n > 0 => \E i \in DOMAIN rows : rows[i].m.c = r.c
    BY <1>5 DEF Opens
  <2>2. QED
    BY <1>3, <1>5, <1>7, <2>1, ResultFacts
<1>14. EmailRight(s, rows, k)
  <2>1. s.results[k].opens = n
    BY <1>3, <1>7, <1>9
  <2>2. Start(s, rows) \in Seq(EmailEvents) /\ Extends(Start(s, rows), rows)
    BY <1>1, <1>3, <1>9, StartFacts DEF Start
  <2>3. Cardinality(Opens(Start(s, rows), s.c, k)) <= n
    BY <1>4, <1>9, <2>2, CountsGrow
  <2>4. OpensRight(n, Start(s, rows), rows, s.c, k)
    BY <1>4, <1>5, <1>9, <2>3 DEF OpensRight
  <2>5. QED
    BY <1>11, <2>1, <2>4 DEF EmailRight
<1>15. Right(s, rows)
  <2>1. r.pc # "idle" /\ s.pc # "idle"
    BY <1>9
  <2>2. s.c = r.c /\ s.since = r.since /\ s.k \in EmailsOf(s.c)
        /\ s.results = [r.results EXCEPT ![k] = q]
    BY <1>1, <1>2, <1>9
  <2>3. \A e \in EmailIds : e # k =>
          /\ e \in ReadO(s) => e \in ReadO(r)
          /\ e \in ReadA(s) => e \in ReadA(r)
          /\ e \in ReadC(s) <=> e \in ReadC(r)
    BY <1>11
  <2>4. k \notin ReadC(s) => q.links = NoClicks
    BY <1>12
  <2>5. FillsIn(r, s, k, q, rows)
    BY <1>2, <1>7, <1>10, <1>13, <1>14, <2>1, <2>2, <2>3, <2>4 DEF FillsIn
  <2>6. QED
    BY <2>5, QueryRight
<1>16. QED
  BY <1>2, <1>4, <1>5, <1>8, <1>15

\* The groups of the clicks of an email are the links clicked in it.
LEMMA GroupsFacts ==
  ASSUME NEW rows \in Seq(EmailEvents), NEW c, NEW e, NEW ids, ids = Rows(rows, c, e, "click")
  PROVE  /\ LinksIn(rows, ids) = Clicked(rows, c, e)
         /\ \A l \in Links : {i \in ids : rows[i].link = l} = Clicks(rows, c, e, l)
         /\ Cardinality(Clicked(rows, c, e)) \in Nat
         /\ Clicked(rows, c, e) # {} => Cardinality(Clicked(rows, c, e)) > 0
         /\ \A l : Clicked(rows, c, e) = {l} => Cardinality(Clicked(rows, c, e)) = 1
<1>1. /\ ids \in SUBSET (1..Len(rows))
      /\ \A l \in Links : /\ Clicks(rows, c, e, l) \in SUBSET (1..Len(rows))
                          /\ Clicks(rows, c, e, l) = {i \in ids : rows[i].link = l}
      /\ \A i \in ids : rows[i].link \in Links
  BY RowsFacts
<1>2. \A l \in Links : Cardinality(Clicks(rows, c, e, l)) > 0 <=> Clicks(rows, c, e, l) # {}
  BY <1>1, IdsFacts
<1>3. LinksIn(rows, ids) = Clicked(rows, c, e)
  BY <1>1, <1>2 DEF LinksIn, Clicked
<1>4. PICK groups : groups = LinksIn(rows, ids)
  OBVIOUS
<1>5. IsFiniteSet(groups)
  <2>1. IsFiniteSet(ids)
    BY <1>1, IdsFacts
  <2>2. [i \in ids |-> rows[i].link] \in Surjection(ids, groups)
    BY <1>4 DEF LinksIn, Surjection
  <2>3. QED
    BY <2>1, <2>2, FS_Surjection
<1>6. Cardinality(groups) \in Nat /\ (Cardinality(groups) = 0 <=> groups = {})
  BY <1>5, FS_CardinalityType, FS_EmptySet
<1>7. groups # {} => Cardinality(groups) > 0
  BY <1>6
<1>8. \A l : groups = {l} => Cardinality(groups) = 1
  BY FS_Singleton
<1>9. QED
  BY <1>1, <1>3, <1>4, <1>6, <1>7, <1>8

\* Clicks counted by a scan that keeps the last of its groups only.
LEMMA ScanRight ==
  ASSUME NEW rows \in Seq(EmailEvents), NEW start \in Seq(EmailEvents), Extends(start, rows),
         NEW c, NEW e, NEW last \in Clicked(rows, c, e)
  PROVE  LET n == Cardinality(Clicked(rows, c, e)) * Cardinality(Clicks(rows, c, e, last))
         IN  /\ n \in Nat /\ n > 0
             /\ ClicksRight([NoClicks EXCEPT ![last] = n], start, rows, c, e)
<1>1. PICK g : g = Cardinality(Clicked(rows, c, e))
  OBVIOUS
<1>2. PICK m : m = Cardinality(Clicks(rows, c, e, last))
  OBVIOUS
<1>3. g \in Nat /\ g > 0 /\ \A l : Clicked(rows, c, e) = {l} => g = 1
  <2>1. PICK ids : ids = Rows(rows, c, e, "click")
    OBVIOUS
  <2>2. /\ Cardinality(Clicked(rows, c, e)) \in Nat
        /\ Clicked(rows, c, e) # {} => Cardinality(Clicked(rows, c, e)) > 0
        /\ \A l : Clicked(rows, c, e) = {l} => Cardinality(Clicked(rows, c, e)) = 1
    BY <2>1, GroupsFacts
  <2>3. QED
    BY <1>1, <2>2
<1>4. m \in Nat /\ m > 0
  <2>1. Clicks(rows, c, e, last) \in SUBSET (1..Len(rows))
    BY DEF Clicks
  <2>2. QED
    BY <1>2, <2>1, IdsFacts DEF Clicked
<1>5. PICK n : n = g * m
  OBVIOUS
<1>6. n \in Nat /\ n > 0 /\ (g = 1 => n = m)
  <2>1. PICK h \in Nat : h = g - 1
    BY <1>3
  <2>2. g = h + 1
    BY <1>3, <2>1
  <2>3. PICK p \in Nat : p = m * h
    BY <1>4
  <2>4. m * (h + 1) = p + m
    BY <1>4, <2>3, OneMore
  <2>5. n = p + m
    <3>1. g * m = m * g
      BY <1>3, <1>4
    <3>2. QED
      BY <1>5, <2>2, <2>4, <3>1
  <2>6. n \in Nat /\ n > 0
    BY <1>4, <2>5
  <2>7. ASSUME g = 1 PROVE n = m
    <3>1. h = 0
      BY <2>1, <2>7
    <3>2. p = 0
      BY <1>4, <2>3, <3>1, OneMore
    <3>3. QED
      BY <1>4, <2>5, <3>2
  <2>8. QED
    BY <2>6, <2>7
<1>7. last \in Links
  BY DEF Clicked
<1>8. PICK shown : shown = [NoClicks EXCEPT ![last] = n]
  OBVIOUS
<1>9. shown[last] = n /\ \A l \in Links : l # last => shown[l] = 0
  BY <1>7, <1>8 DEF NoClicks
<1>10. \A l \in Links : shown[l] > 0 => l \in Clicked(rows, c, e)
  BY <1>9
<1>11. \E l \in Links : shown[l] > 0
  BY <1>6, <1>7, <1>9
<1>12. ASSUME NEW l \in Links, Clicked(rows, c, e) = {l}
       PROVE  /\ Cardinality(Clicks(start, c, e, l)) <= shown[l]
              /\ shown[l] <= Cardinality(Clicks(rows, c, e, l))
  <2>1. l = last /\ shown[l] = m
    BY <1>3, <1>6, <1>9, <1>12
  <2>2. Cardinality(Clicks(start, c, e, l)) <= Cardinality(Clicks(rows, c, e, l))
    BY CountsGrow
  <2>3. QED
    BY <1>2, <1>4, <2>1, <2>2
<1>13. ClicksRight(shown, start, rows, c, e)
  BY <1>10, <1>11, <1>12 DEF ClicksRight
<1>14. QED
  BY <1>1, <1>2, <1>5, <1>6, <1>8, <1>13

\* Counting the clicks of an email.
LEMMA CountClicksRight ==
  ASSUME NEW rows \in Seq(EmailEvents), NEW r, Right(r, rows), r.pc = "clicks",
         NEW k, k = r.k, NEW shown \in [Links -> Nat], NEW s,
         s = [r EXCEPT !.results[k].links = shown, !.pc = "avg"],
         shown # NoClicks => \E i \in DOMAIN rows : rows[i].m.c = r.c,
         ClicksRight(shown, Start(r, rows), rows, r.c, k)
  PROVE  Right(s, rows)
<1>1. /\ r \in Report_ /\ r.k \in EmailsOf(r.c) /\ r.since <= Len(rows)
      /\ Shown(r, rows)
      /\ \A e \in EmailIds : EmailRight(r, rows, e)
  BY DEF Right
<1>2. k \in EmailIds /\ r.results \in [EmailIds -> CampaignResult] /\ r.results[k] \in CampaignResult
      /\ r.c \in Campaigns /\ r.since \in Nat
  BY <1>1, ReadFacts
<1>3. PICK q : q = [r.results[k] EXCEPT !.links = shown]
  OBVIOUS
<1>4. q \in CampaignResult /\ q.opens = r.results[k].opens /\ q.links = shown
      /\ q.avg = r.results[k].avg
  BY <1>2, <1>3 DEF CampaignResult
<1>5. /\ s.pc = "avg" /\ s.c = r.c /\ s.k = k /\ s.since = r.since
      /\ s.results = [r.results EXCEPT ![k] = q]
      /\ s = [r EXCEPT !.results = [r.results EXCEPT ![k] = q], !.pc = "avg"]
  BY <1>1, <1>2, <1>3 DEF Report_
<1>6. s \in Report_
  <2>1. [r.results EXCEPT ![k] = q] \in [EmailIds -> CampaignResult]
    BY <1>2, <1>4
  <2>2. QED
    BY <1>1, <1>5, <2>1 DEF Report_, ReportPC
<1>7. /\ ReadA(s) = ReadA(r) /\ ReadC(s) = ReadC(r) \cup {k} /\ ReadO(s) = ReadO(r)
      /\ k \in ReadO(r) /\ k \in ReadC(s) /\ k \notin ReadC(r) /\ k \notin ReadA(s)
  BY <1>1, <1>2, <1>5 DEF ReadA, ReadC, ReadO, EmailIds
<1>8. r.results[k].links = NoClicks
  BY <1>1, <1>2, <1>7 DEF Shown
<1>9. q # NoResult => r.results[k] # NoResult \/ \E i \in DOMAIN rows : rows[i].m.c = r.c
  BY <1>2, <1>4, <1>8, ResultFacts
<1>10. EmailRight(s, rows, k)
  <2>1. s.results[k] = q
    BY <1>2, <1>5
  <2>2. Start(s, rows) = Start(r, rows)
    BY <1>5 DEF Start
  <2>3. OpensRight(r.results[k].opens, Start(r, rows), rows, r.c, k)
    BY <1>1, <1>2, <1>7 DEF EmailRight
  <2>4. QED
    BY <1>4, <1>5, <1>7, <2>1, <2>2, <2>3 DEF EmailRight
<1>11. r.pc # "idle" /\ s.pc # "idle"
  BY <1>5
<1>12. s.c = r.c /\ s.since = r.since /\ s.k \in EmailsOf(s.c)
       /\ s.results = [r.results EXCEPT ![k] = q]
  BY <1>1, <1>5
<1>13. \A e \in EmailIds : e # k =>
         /\ e \in ReadO(s) => e \in ReadO(r)
         /\ e \in ReadA(s) => e \in ReadA(r)
         /\ e \in ReadC(s) <=> e \in ReadC(r)
  BY <1>7
<1>14. k \notin ReadC(s) => q.links = NoClicks
  BY <1>7
<1>15. QED
  <2>1. FillsIn(r, s, k, q, rows)
    BY <1>4, <1>6, <1>9, <1>10, <1>11, <1>12, <1>13, <1>14 DEF FillsIn
  <2>2. QED
    BY <2>1, QueryRight

\* Averaging the opens of an email, and going on to the next one.
LEMMA AvgOpensRight ==
  ASSUME NEW rows \in Seq(EmailEvents), NEW r, Right(r, rows), r.pc = "avg",
         NEW k, k = r.k, NEW avg, avg = AvgTime(rows, Rows(rows, r.c, k, "unique_opened")),
         NEW s,
         s = [r EXCEPT !.results[k].avg = avg,
                       !.k = IF LastEmail(r.c, k) THEN k ELSE k + 1,
                       !.pc = IF LastEmail(r.c, k) THEN "answer" ELSE "opens"]
  PROVE  Right(s, rows)
<1>1. /\ r \in Report_ /\ r.k \in EmailsOf(r.c) /\ r.since <= Len(rows)
      /\ Shown(r, rows)
      /\ \A e \in EmailIds : EmailRight(r, rows, e)
  BY DEF Right
<1>2. k \in EmailIds /\ r.results \in [EmailIds -> CampaignResult] /\ r.results[k] \in CampaignResult
      /\ r.c \in Campaigns /\ r.since \in Nat
  BY <1>1, ReadFacts
<1>3. PICK n : n = Len(Ratios[r.c])
  OBVIOUS
<1>4. n \in 1..4 /\ k \in 1..n /\ EmailsOf(r.c) = 1..n /\ EmailIds = 1..4
      /\ (LastEmail(r.c, k) <=> k = n)
  BY <1>1, <1>2, <1>3, EmailsFacts DEF LastEmail
<1>5. PICK kk, pc : kk = (IF k = n THEN k ELSE k + 1)
                    /\ pc = (IF k = n THEN "answer" ELSE "opens")
  OBVIOUS
<1>6. kk \in 1..n /\ kk \in EmailIds /\ pc \in ReportPC
  BY <1>4, <1>5 DEF ReportPC
<1>7. /\ Rows(rows, r.c, k, "unique_opened") = Opens(rows, r.c, k)
      /\ Opens(rows, r.c, k) \in SUBSET (1..Len(rows))
  BY RowsFacts
<1>8. /\ avg \in Nat
      /\ Opens(rows, r.c, k) = {} => avg = 0
      /\ Opens(rows, r.c, k) # {} => AvgRight(avg, rows, r.c, k)
  BY <1>7, AvgFacts DEF AvgRight
<1>9. PICK q : q = [r.results[k] EXCEPT !.avg = avg]
  OBVIOUS
<1>10. q \in CampaignResult /\ q.opens = r.results[k].opens /\ q.links = r.results[k].links
       /\ q.avg = avg
  BY <1>2, <1>8, <1>9 DEF CampaignResult
<1>11. s = [r EXCEPT !.results[k].avg = avg, !.k = kk, !.pc = pc]
  BY <1>4, <1>5
<1>12. /\ s.pc = pc /\ s.c = r.c /\ s.k = kk /\ s.since = r.since
       /\ s.results = [r.results EXCEPT ![k] = q]
       /\ s = [r EXCEPT !.results = [r.results EXCEPT ![k] = q], !.k = kk, !.pc = pc]
  BY <1>1, <1>2, <1>9, <1>11 DEF Report_
<1>13. s \in Report_
  <2>1. [r.results EXCEPT ![k] = q] \in [EmailIds -> CampaignResult]
    BY <1>2, <1>10
  <2>2. QED
    BY <1>1, <1>6, <1>12, <2>1 DEF Report_
<1>14. /\ ReadA(s) = ReadA(r) \cup {k} /\ ReadC(s) = ReadC(r) /\ ReadO(s) = ReadO(r)
       /\ k \in ReadO(r) /\ k \in ReadC(s) /\ k \in ReadC(r)
  <2>1. CASE k = n
    BY <1>1, <1>2, <1>4, <1>5, <1>12, <2>1 DEF ReadA, ReadC, ReadO
  <2>2. CASE k # n
    BY <1>1, <1>2, <1>4, <1>5, <1>12, <2>2 DEF ReadA, ReadC, ReadO
  <2>3. QED
    BY <2>1, <2>2
<1>15. EmailRight(r, rows, k)
  BY <1>1, <1>2
<1>16. /\ OpensRight(r.results[k].opens, Start(r, rows), rows, r.c, k)
       /\ ClicksRight(r.results[k].links, Start(r, rows), rows, r.c, k)
  BY <1>14, <1>15 DEF EmailRight
<1>17. r.results[k].opens > 0 => Opens(rows, r.c, k) # {}
  <2>1. Cardinality(Opens(rows, r.c, k)) > 0 <=> Opens(rows, r.c, k) # {}
    BY <1>7, IdsFacts
  <2>2. Cardinality(Opens(rows, r.c, k)) \in Nat /\ r.results[k].opens \in Nat
    BY <1>2, <1>7, IdsFacts, ResultFacts
  <2>3. QED
    BY <1>16, <2>1, <2>2 DEF OpensRight
<1>18. q # NoResult => r.results[k] # NoResult \/ \E i \in DOMAIN rows : rows[i].m.c = r.c
  <2>1. Opens(rows, r.c, k) # {} => \E i \in DOMAIN rows : rows[i].m.c = r.c
    BY DEF Opens
  <2>2. QED
    BY <1>2, <1>8, <1>10, <2>1, ResultFacts
<1>19. EmailRight(s, rows, k)
  <2>1. s.results[k] = q
    BY <1>2, <1>12
  <2>2. Start(s, rows) = Start(r, rows)
    BY <1>12 DEF Start
  <2>3. QED
    BY <1>8, <1>10, <1>12, <1>16, <1>17, <2>1, <2>2 DEF EmailRight
<1>20. r.pc # "idle" /\ s.pc # "idle"
  BY <1>5, <1>12
<1>21. s.c = r.c /\ s.since = r.since /\ s.k \in EmailsOf(s.c)
       /\ s.results = [r.results EXCEPT ![k] = q]
  BY <1>4, <1>6, <1>12
<1>22. \A e \in EmailIds : e # k =>
         /\ e \in ReadO(s) => e \in ReadO(r)
         /\ e \in ReadA(s) => e \in ReadA(r)
         /\ e \in ReadC(s) <=> e \in ReadC(r)
  BY <1>14
<1>23. k \notin ReadC(s) => q.links = NoClicks
  BY <1>14
<1>24. QED
  <2>1. FillsIn(r, s, k, q, rows)
    BY <1>10, <1>13, <1>18, <1>19, <1>20, <1>21, <1>22, <1>23 DEF FillsIn
  <2>2. QED
    BY <2>1, QueryRight

-----------------------------------------------------------------------------
(* The steps.                                                              *)

\* A step of a report leaves it right, and touches nothing else.
LEMMA ReportSteps ==
  ASSUME log \in Seq(EmailEvents), ReportRight, ReportStep
  PROVE  ReportRight' /\ UNCHANGED <<vars, inbox, happened, calls, log>>
<1> DEFINE c == report.c
           k == report.k
<1>1. Right(report, log)
  BY DEF ReportRight
<1>2. SUFFICES UNCHANGED <<vars, inbox, happened, calls, log>> /\ Right(report', log)
  BY DEF ReportRight
<1>3. ASSUME NEW d \in Campaigns, GetCampaign(d)
      PROVE  UNCHANGED <<vars, inbox, happened, calls, log>> /\ Right(report', log)
  BY <1>3, GetCampaignRight DEF GetCampaign
<1>4. CASE CountTotalUniqueOpen
  BY <1>1, <1>4, CountOpensRight DEF CountTotalUniqueOpen, Count
<1>5. CASE CountClicksByLink
  <2> DEFINE ids == Rows(log, c, k, "click")
             groups == LinksIn(log, ids)
  <2>1. report.pc = "clicks" /\ UNCHANGED <<vars, inbox, happened, calls, log>>
    BY <1>5 DEF CountClicksByLink
  <2>2. /\ report \in Report_ /\ k \in EmailsOf(c) /\ report.since <= Len(log)
        /\ Shown(report, log)
    BY <1>1 DEF Right
  <2>3. /\ report.results \in [EmailIds -> CampaignResult] /\ k \in EmailIds
        /\ report.since \in 0..Len(log)
    BY <2>2, ReadFacts
  <2>4. k \notin ReadC(report)
    BY <2>1, <2>2, <2>3 DEF ReadC, ReadA, EmailIds
  <2>5. report.results[k].links = NoClicks
    BY <2>2, <2>3, <2>4 DEF Shown
  <2>6. Start(report, log) \in Seq(EmailEvents) /\ Extends(Start(report, log), log)
    BY <2>3, StartFacts DEF Start
  <2>7. groups = Clicked(log, c, k)
        /\ \A l \in Links : {i \in ids : log[i].link = l} = Clicks(log, c, k, l)
    BY GroupsFacts
  <2>8. CASE groups = {} /\ report' = [report EXCEPT !.pc = "avg"]
    <3>1. NoClicks \in [Links -> Nat] /\ \A l \in Links : NoClicks[l] = 0
      BY DEF NoClicks
    <3>2. Clicked(log, c, k) = {} /\ Clicked(Start(report, log), c, k) = {}
      BY <2>6, <2>7, <2>8, CountsGrow
    <3>3. ClicksRight(NoClicks, Start(report, log), log, c, k)
      BY <3>1, <3>2 DEF ClicksRight
    <3>4. [report EXCEPT !.results[k].links = NoClicks, !.pc = "avg"]
            = [report EXCEPT !.pc = "avg"]
      <4>1. report.results[k] \in CampaignResult
        BY <2>3
      <4>2. [report.results[k] EXCEPT !.links = NoClicks] = report.results[k]
        BY <4>1, <2>5 DEF CampaignResult
      <4>3. [report.results EXCEPT ![k] = report.results[k]] = report.results
        BY <2>3
      <4>4. [report EXCEPT !.results = report.results, !.pc = "avg"] = [report EXCEPT !.pc = "avg"]
        BY <2>2 DEF Report_
      <4>5. QED
        BY <4>2, <4>3, <4>4
    <3>5. Right(report', log)
      BY <1>1, <2>1, <2>8, <3>1, <3>3, <3>4, CountClicksRight
    <3>6. QED
      BY <2>1, <3>5
  <2>9. ASSUME NEW last \in groups \cap Links,
               report' = [report EXCEPT
                 !.results[k].links[last] = Cardinality(groups) * ClicksOn(log, ids, last),
                 !.pc = "avg"]
        PROVE  Right(report', log)
    <3>1. PICK n : n = Cardinality(Clicked(log, c, k)) * Cardinality(Clicks(log, c, k, last))
      OBVIOUS
    <3>2. n \in Nat /\ n > 0
          /\ ClicksRight([NoClicks EXCEPT ![last] = n], Start(report, log), log, c, k)
      BY <2>6, <2>7, <2>9, <3>1, ScanRight
    <3>3. Cardinality(groups) * ClicksOn(log, ids, last) = n
      BY <2>7, <2>9, <3>1 DEF ClicksOn
    <3>4. PICK shown : shown = [NoClicks EXCEPT ![last] = n]
      OBVIOUS
    <3>5. shown \in [Links -> Nat]
      BY <3>2, <3>4 DEF NoClicks
    <3>6. report' = [report EXCEPT !.results[k].links[last] = n, !.pc = "avg"]
      BY <2>9, <3>3
    <3>7. report' = [report EXCEPT !.results[k].links = shown, !.pc = "avg"]
      BY <2>5, <3>4, <3>6
    <3>8. \E i \in DOMAIN log : log[i].m.c = c
      <4>1. last \in Clicked(log, c, k)
        BY <2>7, <2>9
      <4>2. Clicks(log, c, k, last) \in SUBSET (1..Len(log)) /\ last \in Links
            /\ Cardinality(Clicks(log, c, k, last)) > 0
        BY <4>1 DEF Clicked, Clicks
      <4>3. Clicks(log, c, k, last) # {}
        BY <4>2, IdsFacts
      <4>4. QED
        BY <4>3 DEF Clicks
    <3>9. QED
      BY <1>1, <2>1, <3>2, <3>4, <3>5, <3>7, <3>8, CountClicksRight
  <2>10. QED
    BY <1>5, <2>1, <2>8, <2>9 DEF CountClicksByLink
<1>6. CASE GetAvgOpenTime
  <2>1. PICK s : s = [report EXCEPT
           !.results[k].avg = AvgTime(log, Rows(log, c, k, "unique_opened")),
           !.k = IF LastEmail(c, k) THEN k ELSE k + 1,
           !.pc = IF LastEmail(c, k) THEN "answer" ELSE "opens"]
    OBVIOUS
  <2>2. report' = s /\ report.pc = "avg" /\ UNCHANGED <<vars, inbox, happened, calls, log>>
    BY <1>6, <2>1 DEF GetAvgOpenTime
  <2>3. QED
    BY <1>1, <2>1, <2>2, AvgOpensRight
<1>7. CASE EndReport
  BY <1>7, IdleRight DEF EndReport
<1>8. QED
  BY <1>3, <1>4, <1>5, <1>6, <1>7 DEF ReportStep

\* Events that happen, and their calls: none is lost and the log grows.
LEMMA EventSteps ==
  ASSUME EventsInv, ReportRight,
         \/ \E m \in inbox : \E x \in EventsOf(m) : Happens(x)
         \/ \E x \in calls : EventStep(x)
  PROVE  EventsInv' /\ ReportRight' /\ UNCHANGED vars
<1>1. /\ inbox \subseteq Tagged /\ happened \subseteq EmailEvents /\ calls \subseteq happened
      /\ log \in Seq(EmailEvents)
      /\ \A x \in happened : x \in calls \/ \E i \in DOMAIN log : log[i] = x
      /\ \A m \in inbox : db[m.c].status # "Pending"
      /\ \A x \in happened : x.m \in inbox
      /\ \A i \in DOMAIN log : log[i] \in happened
  BY DEF EventsInv, NoEventLost, EventsKnown
<1>2. Right(report, log)
  BY DEF ReportRight
<1>3. ASSUME NEW m \in inbox, NEW x \in EventsOf(m), Happens(x)
      PROVE  EventsInv' /\ ReportRight' /\ UNCHANGED vars
  <2>1. x \in EmailEvents /\ x.m = m
    BY <1>1 DEF EmailEvents, EventsOf
  <2>2. /\ happened' = happened \cup {x} /\ calls' = calls \cup {x}
        /\ UNCHANGED <<inbox, log, report>> /\ UNCHANGED vars
    BY <1>3 DEF Happens
  <2>3. UNCHANGED db
    BY <2>2 DEF vars
  <2>4. EventsInv'
    BY <1>1, <2>1, <2>2, <2>3 DEF EventsInv, NoEventLost, EventsKnown
  <2>5. QED
    BY <1>2, <2>2, <2>4 DEF ReportRight
<1>4. ASSUME NEW x \in calls, EventStep(x)
      PROVE  EventsInv' /\ ReportRight' /\ UNCHANGED vars
  <2>1. /\ log' \in {log, Append(log, x)} /\ UNCHANGED <<inbox, happened, report>>
        /\ calls' \subseteq calls /\ \A y \in calls : y \in calls' \/ (y = x /\ log' = Append(log, x))
        /\ UNCHANGED vars
    BY <1>4 DEF EventStep, LogEvent, LogEventFails, CalledAgain
  <2>2. x \in EmailEvents /\ x \in happened
    BY <1>1
  <2>3. PICK n \in Nat : n = Len(log)
    BY <1>1
  <2>4. /\ log' \in Seq(EmailEvents) /\ Extends(log, log')
        /\ DOMAIN log = 1..n /\ \A i \in DOMAIN log : i \in DOMAIN log' /\ log'[i] = log[i]
        /\ \A i \in DOMAIN log' : log'[i] \in happened
        /\ log' = Append(log, x) => n + 1 \in DOMAIN log' /\ log'[n + 1] = x
    <3>1. CASE log' = log
      <4>1. Append(log, x) # log
        BY <1>1, <2>2
      <4>2. QED
        BY <1>1, <2>3, <3>1, <4>1 DEF Extends
    <3>2. CASE log' = Append(log, x)
      <4>1. log' \in Seq(EmailEvents) /\ Len(log') = n + 1 /\ DOMAIN log' = 1..(n + 1)
            /\ DOMAIN log = 1..n /\ log'[n + 1] = x /\ \A i \in 1..n : log'[i] = log[i]
        BY <1>1, <2>2, <2>3, <3>2
      <4>2. QED
        BY <1>1, <2>2, <2>3, <4>1 DEF Extends
    <3>3. QED
      BY <2>1, <3>1, <3>2
  <2>5. UNCHANGED db
    BY <2>1 DEF vars
  <2>6. NoEventLost'
    <3>1. SUFFICES ASSUME NEW y \in happened
                   PROVE  y \in calls' \/ \E i \in DOMAIN log' : log'[i] = y
      BY <2>1 DEF NoEventLost
    <3>2. CASE y \in calls
      BY <2>1, <2>4, <3>2
    <3>3. CASE \E i \in DOMAIN log : log[i] = y
      BY <2>4, <3>3
    <3>4. QED
      BY <1>1, <3>2, <3>3
  <2>7. EventsKnown'
    BY <1>1, <2>1, <2>4, <2>5 DEF EventsKnown
  <2>8. EventsInv'
    BY <1>1, <2>1, <2>4, <2>6, <2>7 DEF EventsInv
  <2>9. Right(report, log')
    BY <1>1, <1>2, <2>4, RightGrows
  <2>10. QED
    BY <2>1, <2>8, <2>9 DEF ReportRight
<1>5. QED
  BY <1>3, <1>4

\* A message leaves with a step of the job only when its campaign is claimed,
\* and no step hands the campaign back.
LEMMA JobSteps ==
  ASSUME TypeOK, ClaimInv, PendingMeansUnsent, PendingMeansUnsent', EventsInv, ReportRight,
         JobStep
  PROVE  EventsInv' /\ ReportRight'
<1>1. /\ inbox \subseteq Tagged /\ happened \subseteq EmailEvents /\ calls \subseteq happened
      /\ log \in Seq(EmailEvents) /\ NoEventLost
      /\ \A m \in inbox : db[m.c].status # "Pending"
      /\ \A x \in happened : x.m \in inbox
      /\ \A i \in DOMAIN log : log[i] \in happened
  BY DEF EventsInv, EventsKnown
<1>2. Next /\ inbox' = inbox \cup Sent /\ UNCHANGED <<happened, calls, log, report>>
  BY DEF JobStep
<1>3. \A c \in Campaigns : db[c].status # "Pending" => db'[c].status # "Pending"
  BY <1>2, StepClaimInv
<1>4. ASSUME NEW m \in Sent
      PROVE  m \in Tagged /\ db'[m.c].status # "Pending"
  <2>1. m \in Tagged /\ m.c \in Campaigns /\ m.to \in Recipients
        /\ delivered'[m.c][m.to] # delivered[m.c][m.to]
    BY DEF Sent, Tagged
  <2>2. ASSUME db'[m.c].status = "Pending"
        PROVE  FALSE
    <3>1. db[m.c].status = "Pending"
      BY <1>3, <2>1, <2>2
    <3>2. delivered[m.c][m.to] = 0
      BY <2>1, <3>1 DEF PendingMeansUnsent
    <3>3. delivered'[m.c][m.to] = 0
      BY <2>1, <2>2 DEF PendingMeansUnsent
    <3>4. QED
      BY <2>1, <3>2, <3>3
  <2>3. QED
    BY <2>1, <2>2
<1>5. \A m \in inbox : m.c \in Campaigns
  BY <1>1 DEF Tagged
<1>6. inbox' \subseteq Tagged /\ \A m \in inbox' : db'[m.c].status # "Pending"
  BY <1>1, <1>2, <1>3, <1>4, <1>5
<1>7. EventsInv'
  BY <1>1, <1>2, <1>6 DEF EventsInv, EventsKnown, NoEventLost
<1>8. QED
  BY <1>2, <1>7 DEF ReportRight

-----------------------------------------------------------------------------
(* The theorems.                                                           *)

\* Recipients, service and reports leave the job to itself: what holds of the
\* job alone holds of it among them.
LEMMA ReportsImplementJob == ReportsSpec => Spec
<1>1. ReportsInit => Init
  BY DEF ReportsInit
<1>2. [ReportsNext]_allVars => [Next]_vars
  <2>1. SUFFICES ASSUME [ReportsNext]_allVars PROVE Next \/ UNCHANGED vars
    OBVIOUS
  <2>2. CASE JobStep
    BY <2>2 DEF JobStep
  <2>3. ASSUME NEW m \in inbox, NEW x \in EventsOf(m), Happens(x) PROVE UNCHANGED vars
    BY <2>3 DEF Happens
  <2>4. ASSUME NEW x \in calls, EventStep(x) PROVE UNCHANGED vars
    BY <2>4 DEF EventStep, LogEvent, LogEventFails
  <2>5. CASE ReportStep
    BY <2>5 DEF ReportStep, GetCampaign, CountTotalUniqueOpen, CountClicksByLink,
       GetAvgOpenTime, EndReport
  <2>6. CASE UNCHANGED allVars
    BY <2>6 DEF allVars
  <2>7. QED
    BY <2>1, <2>2, <2>3, <2>4, <2>5, <2>6 DEF ReportsNext
<1>3. QED
  BY <1>1, <1>2, PTL DEF ReportsSpec, Spec

\* Nothing has happened yet, and no report is under way.
LEMMA InitReportsInv == ReportsInit => ReportsInv
<1> SUFFICES ASSUME ReportsInit PROVE ReportsInv
  OBVIOUS
<1>1. inbox = {} /\ happened = {} /\ calls = {} /\ log = <<>> /\ report = IdleReport
  BY DEF ReportsInit
<1>2. log \in Seq(EmailEvents) /\ DOMAIN log = {}
  BY <1>1
<1>3. EventsInv
  BY <1>1, <1>2 DEF EventsInv, NoEventLost, EventsKnown
<1>4. ReportRight
  BY <1>1, <1>2, IdleRight DEF ReportRight
<1>5. QED
  BY <1>3, <1>4, InvParts

\* Every step keeps the events known and the report right.
LEMMA StepReportsInv ==
  /\ TypeOK /\ ClaimInv /\ PendingMeansUnsent /\ PendingMeansUnsent'
  /\ ReportsInv /\ [ReportsNext]_allVars
  => ReportsInv'
<1>1. ASSUME TypeOK, ClaimInv, PendingMeansUnsent, PendingMeansUnsent',
             EventsInv, ReportRight, [ReportsNext]_allVars
      PROVE  EventsInv' /\ ReportRight'
  <2>1. CASE JobStep
    BY <1>1, <2>1, JobSteps
  <2>2. CASE \/ \E m \in inbox : \E x \in EventsOf(m) : Happens(x)
             \/ \E x \in calls : EventStep(x)
    BY <1>1, <2>2, EventSteps
  <2>3. CASE ReportStep
    <3>1. log \in Seq(EmailEvents)
      BY <1>1 DEF EventsInv
    <3>2. ReportRight' /\ UNCHANGED <<vars, inbox, happened, calls, log>>
      BY <1>1, <2>3, <3>1, ReportSteps
    <3>3. QED
      BY <1>1, <3>2 DEF EventsInv, NoEventLost, EventsKnown, vars
  <2>4. CASE UNCHANGED allVars
    BY <1>1, <2>4 DEF EventsInv, NoEventLost, EventsKnown, ReportRight, allVars, vars, reportVars
  <2>5. QED
    BY <1>1, <2>1, <2>2, <2>3, <2>4 DEF ReportsNext
<1>2. (EventsInv /\ ReportRight)' <=> ReportsInv'
  BY InvParts, PTL
<1>3. QED
  BY <1>1, <1>2, InvParts

\* The events are known, the counts of a report under way lie between those of
\* its beginning and those of now, and what it shows is right: the invariant
\* the properties below follow from.
THEOREM ReportsInvariant == ReportsSpec => []ReportsInv
<1>1. QED
  BY InitReportsInv, StepReportsInv, ReportsImplementJob, TypeCorrect, ClaimInvariant,
     PendingUnsent, PTL DEF ReportsSpec

\* The events, rows, calls and reports have the shape they stand for.
THEOREM ReportsTypeCorrect == ReportsSpec => []ReportsTypeOK
<1>1. ReportsInv => ReportsTypeOK
  BY DEF ReportsInv
<1>2. QED
  BY <1>1, ReportsInvariant, PTL

\* OnEmailAction loses no event, however its insertions and answers fail.
THEOREM NoEventIsLost == ReportsSpec => []NoEventLost
<1>1. ReportsInv => NoEventLost
  BY DEF ReportsInv
<1>2. QED
  BY <1>1, ReportsInvariant, PTL

\* A report that shows a result is one of a campaign that has left Pending.
THEOREM ResultsAreOfClaimed == ReportsSpec => []ResultsOfClaimed
<1>1. ReportsInv => ResultsOfClaimed
  BY DEF ReportsInv, ReportGrows, EventsKnown, ResultsOfClaimed
<1>2. QED
  BY <1>1, ReportsInvariant, PTL

\* The opens of a report lie between those logged when it began and those logged
\* now, and its average between two of their times.
THEOREM OpensAreReported == ReportsSpec => []OpensReported
<1>1. ReportsInv => OpensReported
  BY DEF ReportsInv
<1>2. QED
  BY <1>1, ReportsInvariant, PTL

\* The clicks of a report are of links that were clicked, and exact as long as
\* one link only was.
THEOREM ClicksAreReported == ReportsSpec => []ClicksReported
<1>1. ReportsInv => ClicksReported
  BY DEF ReportsInv
<1>2. QED
  BY <1>1, ReportsInvariant, PTL
=============================================================================
