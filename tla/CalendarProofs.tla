--------------------------- MODULE CalendarProofs ---------------------------
(***************************************************************************)
(* What NextOccurrence returns, for every length of day and week.          *)
(***************************************************************************)
EXTENDS Calendar, WellFoundedInduction, TLAPS

\* What Validate accepts of a plan's days and time.
Timed(plan) ==
    /\ plan.days # {} /\ plan.days \subseteq 0 .. (DaysInWeek - 1)
    /\ plan.time \in 0 .. (SlotsPerDay - 1)

\* Quotient and remainder, as Day, Weekday and Allowed use them.
LEMMA Division ==
    \A a, b \in Int : b > 0 =>
        /\ a \div b \in Int /\ a % b \in Int
        /\ 0 <= a % b /\ a % b < b
        /\ a = b * (a \div b) + (a % b)
BY SMT

\* Division has one quotient and one remainder.
LEMMA DivisionUnique ==
    \A b, q, r \in Int : b > 0 /\ 0 <= r /\ r < b =>
        (b * q + r) \div b = q /\ (b * q + r) % b = r
BY SMT

\* The first day with a given weekday is less than a week away.
LEMMA WeekdaySoon ==
    \A b, n, w \in Int : b > 0 /\ 0 <= w /\ w < b =>
        \E d \in Int : n <= d /\ d < n + b /\ d % b = w
<1> SUFFICES ASSUME NEW b \in Int, NEW n \in Int, NEW w \in Int, b > 0, 0 <= w, w < b
             PROVE  \E d \in Int : n <= d /\ d < n + b /\ d % b = w
  OBVIOUS
<1>1. PICK q \in Int : b * q <= n /\ n < b * q + b
  <2>1. n \div b \in Int /\ 0 <= n % b /\ n % b < b /\ n = b * (n \div b) + (n % b) /\ n % b \in Int
    BY Division
  <2>2. QED
    BY <2>1
<1>2. PICK this \in Int : this = b * q + w
  OBVIOUS
<1>3. PICK next \in Int : next = b * (q + 1) + w
  OBVIOUS
<1>4. this % b = w /\ next % b = w
  BY <1>2, <1>3, DivisionUnique, q + 1 \in Int
<1>5. next = this + b
  BY <1>2, <1>3
<1>6. this <= n + w /\ n < this + b
  BY <1>1, <1>2
<1>7. CASE n <= this
  BY <1>4, <1>6, <1>7
<1>8. CASE this < n
  <2>1. n <= next /\ next < n + b
    BY <1>5, <1>6, <1>8
  <2>2. QED
    BY <1>4, <2>1
<1>9. QED
  BY <1>7, <1>8

\* So an allowed slot comes within a week and a day.
LEMMA AllowedSoon ==
    ASSUME NEW plan, Timed(plan), NEW after \in Nat
    PROVE  \E k \in (after + 1) .. (after + (DaysInWeek + 1) * SlotsPerDay) : Allowed(plan, k)
<1> DEFINE S == SlotsPerDay
           day == after \div S
<1>1. S \in Int /\ S > 0 /\ DaysInWeek \in Int /\ DaysInWeek > 0
  BY CalendarConstants
<1>2. PICK w \in plan.days : w \in Int /\ 0 <= w /\ w < DaysInWeek
  BY <1>1 DEF Timed
<1>3. day \in Int /\ S * day \in Int /\ S * day <= after /\ after < S * day + S
  <2>1. /\ after % S \in Int /\ 0 <= after % S /\ after % S < S
        /\ after = S * day + (after % S) /\ day \in Int
    BY <1>1, Division
  <2>2. QED
    BY <1>1, <2>1
<1> HIDE DEF day
<1>4. PICK d \in Int : day + 1 <= d /\ d < day + 1 + DaysInWeek /\ d % DaysInWeek = w
  <2>1. day + 1 \in Int
    BY <1>3
  <2>2. QED
    BY <1>1, <1>2, <2>1, WeekdaySoon
<1> DEFINE k == S * d + plan.time
<1>5. plan.time \in Int /\ 0 <= plan.time /\ plan.time < S
  BY <1>1 DEF Timed
<1>6. k \div S = d /\ k % S = plan.time
  BY <1>1, <1>5, DivisionUnique
<1>7. Allowed(plan, k)
  BY <1>2, <1>4, <1>6 DEF Allowed, Weekday, Day
<1> HIDE DEF S, day
<1>8. S * d \in Int /\ S * d >= S * day + S
  BY <1>1, <1>3, <1>4
<1>9. S * d <= S * day + S * DaysInWeek /\ S * DaysInWeek \in Int
  BY <1>1, <1>3, <1>4
<1>10. (DaysInWeek + 1) * S = S * DaysInWeek + S
  BY <1>1, <1>9
<1>11. k \in Int /\ after + 1 <= k /\ k <= after + (DaysInWeek + 1) * S
  BY <1>1, <1>3, <1>5, <1>8, <1>9, <1>10
<1>12. k \in (after + 1) .. (after + (DaysInWeek + 1) * S)
  BY <1>11, <1>1, <1>9, <1>10
<1>13. QED
  BY <1>7, <1>12 DEF S

\* A set of naturals that is not empty has a least element.
LEMMA LeastElement ==
    ASSUME NEW S \in SUBSET Nat, S # {}
    PROVE  \E k \in S : \A other \in S : k <= other
<1>1. PICK k \in S : \A other \in S : ~ (<<other, k>> \in OpToRel(<, Nat))
  BY NatLessThanWellFounded, WFMin
<1>2. ASSUME NEW other \in S PROVE k <= other
  <2>1. k \in Nat /\ other \in Nat
    OBVIOUS
  <2>2. ASSUME other < k PROVE <<other, k>> \in OpToRel(<, Nat)
    BY <2>1, <2>2, Zenon DEF OpToRel
  <2>3. ~ (other < k)
    BY <1>1, <2>2, Zenon
  <2>4. QED
    BY <2>1, <2>3
<1>3. QED
  BY <1>2

\* NextOccurrence is the first allowed slot after the given one: it is allowed,
\* it is later, and no slot between is allowed.
THEOREM NextOccurrenceIsNext ==
    ASSUME NEW plan, Timed(plan), NEW after \in Nat
    PROVE  /\ NextOccurrence(plan, after) \in Nat
           /\ NextOccurrence(plan, after) > after
           /\ Allowed(plan, NextOccurrence(plan, after))
           /\ \A k \in (after + 1) .. (NextOccurrence(plan, after) - 1) : ~ Allowed(plan, k)
<1> DEFINE last == after + (DaysInWeek + 1) * SlotsPerDay
           later == {k \in (after + 1) .. last : Allowed(plan, k)}
           next == CHOOSE k \in later : \A other \in later : k <= other
<1>1. last \in Int
  BY CalendarConstants
<1>2. later \in SUBSET Nat
  BY <1>1
<1>3. later # {}
  BY AllowedSoon
<1>4. next \in later /\ \A other \in later : next <= other
  BY <1>2, <1>3, LeastElement
<1>5. next = NextOccurrence(plan, after)
  BY DEF NextOccurrence
<1> HIDE DEF next
<1>6. next \in Nat /\ next > after /\ next <= last /\ Allowed(plan, next)
  BY <1>1, <1>2, <1>4
<1>7. ASSUME NEW k \in (after + 1) .. (next - 1), Allowed(plan, k) PROVE FALSE
  <2>1. k \in (after + 1) .. last /\ k < next
    BY <1>1, <1>6
  <2>2. k \in later
    BY <2>1, <1>7
  <2>3. QED
    BY <1>4, <1>6, <2>1, <2>2
<1>8. QED
  BY <1>5, <1>6, <1>7
=============================================================================
