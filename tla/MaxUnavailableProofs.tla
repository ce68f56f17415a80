----------------------- MODULE MaxUnavailableProofs -----------------------
(***************************************************************************)
(* What holds of maxUnavailable for every value and number of enactments.  *)
(***************************************************************************)
EXTENDS MCLimits, TLAPS

\* Rounding up gives the least number that is not below the exact share.
LEMMA CeilIsLeast ==
    ASSUME NEW x \in Int
    PROVE  /\ CeilPercent(x) \in Int
           /\ x <= 100 * CeilPercent(x)
           /\ 100 * (CeilPercent(x) - 1) < x
BY DEF CeilPercent

\* A larger share is not rounded to a smaller number.
LEMMA CeilGrows ==
    ASSUME NEW x \in Int, NEW y \in Int, x <= y
    PROVE  CeilPercent(x) <= CeilPercent(y)
BY CeilIsLeast

\* Products stay integers and grow with a factor.
LEMMA Products ==
    ASSUME NEW v \in Int, NEW n \in Nat
    PROVE  /\ v * n \in Int
           /\ v >= 0 => v * n <= v * (n + 1)
           /\ v \in 0..100 => v * n \in 0..(100 * n)
OBVIOUS

\* The default is half of the nodes, rounded up.
LEMMA DefaultCount ==
    ASSUME NEW n \in Nat
    PROVE  /\ scaledDefaultMaxUnavailableNodeCount(n) = CeilPercent(50 * n)
           /\ CeilPercent(50 * n) \in Nat
           /\ n > 0 => CeilPercent(50 * n) >= 1
           /\ CeilPercent(50 * n) <= CeilPercent(50 * (n + 1))
<1>1. scaledDefaultMaxUnavailableNodeCount(n) = CeilPercent(50 * n)
  BY DEF scaledDefaultMaxUnavailableNodeCount, Scaled, DefaultMaxunavailable
<1>2. /\ CeilPercent(50 * n) \in Int
      /\ 50 * n <= 100 * CeilPercent(50 * n)
      /\ 100 * (CeilPercent(50 * n) - 1) < 50 * n
  BY CeilIsLeast
<1>3. CeilPercent(50 * n) <= CeilPercent(50 * (n + 1))
  BY CeilGrows
<1> QED
  BY <1>1, <1>2, <1>3

\* The count of every kind of value.
LEMMA Counts ==
    ASSUME NEW n \in Nat, NEW v \in Values
    PROVE  /\ v.type \in ValueTypes /\ v.val \in Int
           /\ v.type \in {"nil", "badString", "badPercent"} =>
                  MaxUnavailableNodeCount(n, v).count = CeilPercent(50 * n)
           /\ v.type \in {"int", "intString"} => MaxUnavailableNodeCount(n, v).count = v.val
           /\ v.type = "percent" => MaxUnavailableNodeCount(n, v).count = CeilPercent(v.val * n)
           /\ v.type \in {"int", "intString", "percent"} =>
                  MaxUnavailableNodeCount(n, v).err =
                      IF n > 0 /\ MaxUnavailableNodeCount(n, v).count < 1
                      THEN "invalid" ELSE "none"
<1>1. v.type \in ValueTypes /\ v.val \in Int
  BY ValuesAssumption DEF Values
<1>2. scaledDefaultMaxUnavailableNodeCount(n) = CeilPercent(50 * n)
  BY DefaultCount
<1>3. CASE v.type = "nil"
  BY <1>1, <1>2, <1>3 DEF MaxUnavailableNodeCount, ScaledMaxUnavailableNodeCount, DefaultMaxunavailable, Scaled
<1>4. CASE v.type # "nil"
  <2>1. MaxUnavailableNodeCount(n, v) = ScaledMaxUnavailableNodeCount(n, v)
    BY <1>4 DEF MaxUnavailableNodeCount
  <2> QED
    BY <1>1, <1>2, <1>4, <2>1 DEF ScaledMaxUnavailableNodeCount, Scaled, MinMaxunavailable, ValueTypes
<1> QED
  BY <1>3, <1>4

\* A case is a number of enactments and a value, and its count an integer.
LEMMA CaseIsTyped ==
    ASSUME NEW c \in Cases
    PROVE  c.total \in Nat /\ c.value \in Values /\ Result(c).count \in Int
<1>1. c.total \in Nat /\ c.value \in Values
  BY ValuesAssumption DEF Cases
<1>2. 50 * c.total \in Int /\ c.value.val \in Int /\ c.value.val * c.total \in Int
  BY <1>1, Counts, Products
<1> QED
  BY <1>1, <1>2, Counts, CeilIsLeast, SMTT(30) DEF Result, ValueTypes

\* Whatever is written into spec.maxUnavailable, and however many nodes take
\* part, the rollout may go on or the value is reported as invalid
\* (ScaledMaxUnavailableNodeCount).
THEOREM EveryValueLetsTheRolloutGo == Spec => NoValueBlocksTheRollout
<1>1. Blocked = {}
  <2> SUFFICES ASSUME NEW c \in Cases, c.total > 0, Usable(Result(c)) PROVE Result(c).count >= 1
    BY CaseIsTyped DEF Blocked
  <2>1. c.total \in Nat /\ c.value \in Values /\ Result(c).count \in Int
    BY CaseIsTyped
  <2>2. CeilPercent(50 * c.total) >= 1
    BY <2>1, DefaultCount
  <2>3. CASE c.value.type \in {"nil", "badString", "badPercent"}
    BY <2>1, <2>2, <2>3, Counts DEF Result
  <2>4. CASE c.value.type \in {"int", "intString", "percent"}
    BY <2>1, <2>4, Counts DEF Result, Usable
  <2> QED
    BY <2>1, <2>3, <2>4, Counts DEF ValueTypes
<1> QED
  BY <1>1, PTL DEF NoValueBlocksTheRollout

\* Every percentage, negative or above 100 included, is rounded up, and by less
\* than a node (GetScaledValueFromIntOrPercent as MaxUnavailableNodeCount uses it).
THEOREM EveryPercentageIsRoundedUp == Spec => PercentageIsRoundedUp
<1>1. Misrounded = {}
  <2> SUFFICES ASSUME NEW c \in Cases, c.value.type = "percent"
               PROVE  /\ 100 * Result(c).count >= c.value.val * c.total
                      /\ 100 * (Result(c).count - 1) < c.value.val * c.total
                      /\ c.value.val \in 0..100 => Result(c).count \in 0..c.total
    <3>1. \A c \in Cases : /\ c.value.val * c.total \in Int /\ Result(c).count \in Int
      BY CaseIsTyped, Counts, Products
    <3> QED
      BY <3>1 DEF Misrounded
  <2>1. c.total \in Nat /\ c.value \in Values /\ c.value.val \in Int
    BY CaseIsTyped, Counts
  <2> DEFINE x == c.value.val * c.total
  <2>2. x \in Int /\ (c.value.val \in 0..100 => x \in 0..(100 * c.total))
    BY <2>1, Products
  <2>3. Result(c).count = CeilPercent(x)
    BY <2>1, Counts DEF Result
  <2> HIDE DEF x
  <2>4. /\ CeilPercent(x) \in Int
        /\ x <= 100 * CeilPercent(x)
        /\ 100 * (CeilPercent(x) - 1) < x
    BY <2>2, CeilIsLeast
  <2>5. c.value.val \in 0..100 => CeilPercent(x) \in 0..c.total
    BY <2>1, <2>2, <2>4
  <2> QED
    BY <2>3, <2>4, <2>5 DEF x
<1> QED
  BY <1>1, PTL DEF PercentageIsRoundedUp

\* The limit of a value does not shrink when a node joins: a slot claimed below
\* it stays below it (MaxUnavailableNodeCount, the fact LimitAssumption of
\* NNCPHandler takes from it).
THEOREM EveryLimitGrows == Spec => LimitGrowsWithTheRollout
<1>1. Shrinking = {}
  <2> SUFFICES ASSUME NEW c \in Cases, c.total < MaxNodes, c.value.val >= 0
               PROVE  Result(c).count <= Result([c EXCEPT !.total = @ + 1]).count
    <3>1. \A c \in Cases : c.total < MaxNodes => [c EXCEPT !.total = @ + 1] \in Cases
      BY ValuesAssumption DEF Cases
    <3> QED
      BY <3>1, CaseIsTyped DEF Shrinking
  <2>1. c.total \in Nat /\ c.value \in Values /\ c.value.val \in Int
    BY CaseIsTyped, Counts
  <2>2. Result([c EXCEPT !.total = @ + 1]) = MaxUnavailableNodeCount(c.total + 1, c.value)
    BY DEF Result, Cases
  <2>3. /\ c.value.val * c.total \in Int /\ c.value.val * (c.total + 1) \in Int
        /\ c.value.val * c.total <= c.value.val * (c.total + 1)
    BY <2>1, Products
  <2>4. CeilPercent(c.value.val * c.total) <= CeilPercent(c.value.val * (c.total + 1))
    BY <2>3, CeilGrows
  <2>5. CASE c.value.type \in {"nil", "badString", "badPercent"}
    <3>1. Result(c).count = CeilPercent(50 * c.total)
      BY <2>1, <2>5, Counts DEF Result
    <3>2. MaxUnavailableNodeCount(c.total + 1, c.value).count = CeilPercent(50 * (c.total + 1))
      BY <2>1, <2>5, Counts
    <3> QED
      BY <2>1, <2>2, <3>1, <3>2, DefaultCount
  <2>6. CASE c.value.type \in {"int", "intString"}
    BY <2>1, <2>2, <2>6, Counts DEF Result
  <2>7. CASE c.value.type = "percent"
    <3>1. Result(c).count = CeilPercent(c.value.val * c.total)
      BY <2>1, <2>7, Counts DEF Result
    <3>2. MaxUnavailableNodeCount(c.total + 1, c.value).count
              = CeilPercent(c.value.val * (c.total + 1))
      BY <2>1, <2>7, Counts
    <3> QED
      BY <2>2, <2>4, <3>1, <3>2
  <2> QED
    BY <2>1, <2>5, <2>6, <2>7, Counts DEF ValueTypes
<1> QED
  BY <1>1, PTL DEF LimitGrowsWithTheRollout
=============================================================================
