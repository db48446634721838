--------------------------- MODULE ScoringProofs ---------------------------
(***************************************************************************)
(* Theorems of the scores, the catalogue and the ranking, whatever the     *)
(* audits find: a weighted mean lies between the scores it is a mean of,   *)
(* and the action list has each finding that it should have, in order.     *)
(***************************************************************************)
EXTENDS Report, FiniteSetTheorems, SequenceTheorems, Induction

(***************************************************************************)
(* Sums and means                                                          *)
(***************************************************************************)
\* What a recursive sum keeps from one place to the next.
IsSum(sum, seq) ==
    /\ sum \in [0..Len(seq) -> Int]
    /\ sum[0] = 0
    /\ \A n \in 1..Len(seq) :
         sum[n] = IF seq[n] = None THEN sum[n - 1] ELSE sum[n - 1] + seq[n]

Numbers == Int \union {None}

\* The recursion of SumOf defines a function, and SumOf is its last value.
LEMMA SumExists ==
  ASSUME NEW seq \in Seq(Numbers)
  PROVE  \E sum : IsSum(sum, seq) /\ SumOf(seq) = sum[Len(seq)]
<1> DEFINE step == [n \in 1..Len(seq) |->
                      [x \in Int |-> IF seq[n] = None THEN x ELSE x + seq[n]]]
           F(f) == [n \in 0..Len(seq) |->
                      IF n = 0 THEN 0 ELSE IF seq[n] = None THEN f[n - 1]
                      ELSE f[n - 1] + seq[n]]
           sum == CHOOSE f : f = F(f)
<1>0. Len(seq) \in Nat /\ \A n \in 1..Len(seq) : seq[n] = None \/ seq[n] \in Int
  BY DEF Numbers
<1>1. step \in [1..Len(seq) -> [Int -> Int]] BY <1>0
<1>2. Iterable(Len(seq), Int, 0, step)
  <2> HIDE DEF step
  <2> QED BY <1>0, <1>1 DEF Iterable
<1>3. PICK f : Iterates(f, Len(seq), Int, 0, step)
  <2> HIDE DEF step
  <2> QED BY <1>2, Iteration
<1>4. f = F(f)
  <2>1. f \in [0..Len(seq) -> Int] /\ f[0] = 0 BY <1>3 DEF Iterates
  <2>2. ASSUME NEW n \in 1..Len(seq)
        PROVE  f[n] = IF seq[n] = None THEN f[n - 1] ELSE f[n - 1] + seq[n]
    <3>1. f[n - 1] \in Int BY <2>1, <1>0
    <3>2. f[n] = step[n][f[n - 1]] BY <1>3 DEF Iterates
    <3>3. QED BY <3>1, <3>2
  <2>3. \A n \in 0..Len(seq) : f[n] = F(f)[n]
    BY <2>1, <2>2, <1>0
  <2>4. QED BY <2>1, <2>3
<1>5. sum = F(sum) BY <1>4
<1>6. SumOf(seq) = sum[Len(seq)] BY DEF SumOf
<1>7. IsSum(sum, seq)
  <2> HIDE DEF sum
  <2>1. DOMAIN sum = 0..Len(seq) /\ sum[0] = 0 BY <1>5, <1>0
  <2>2. ASSUME NEW n \in 1..Len(seq)
        PROVE  sum[n] = IF seq[n] = None THEN sum[n - 1] ELSE sum[n - 1] + seq[n]
    BY <1>5, <1>0, SMTT(30)
  <2>3. \A n \in 0..Len(seq) : sum[n] \in Int
    <3> DEFINE T == {n \in Nat : sum[n] \in Int}
    <3>1. 0 \in T BY <2>1
    <3>2. ASSUME NEW n \in 1..Len(seq), n - 1 \in T PROVE n \in T
      <4>1. sum[n - 1] \in Int BY <3>2
      <4>2. seq[n] = None \/ seq[n] \in Int BY <1>0
      <4>3. QED BY <4>1, <4>2, <2>2, <1>0
    <3> HIDE DEF T
    <3>3. \A n \in 0..Len(seq) : n \in T BY <3>1, <3>2, <1>0, IntervalInduction
    <3>4. QED BY <3>3 DEF T
  <2>4. QED BY <2>1, <2>2, <2>3, <1>5 DEF IsSum
<1> HIDE DEF sum
<1>8. QED BY <1>6, <1>7

\* Scores and their weights, as the means take them.
Weighable(scores, weights) ==
    /\ scores \in Seq(Int \union {None})
    /\ weights \in Seq(Nat \ {0})
    /\ Len(weights) = Len(scores)

\* The partial sums of a mean: of what the scores contribute, of the weights.
PartialSums(total, weight, scores, weights) ==
    /\ total \in [0..Len(scores) -> Int] /\ weight \in [0..Len(scores) -> Int]
    /\ total[0] = 0 /\ weight[0] = 0
    /\ \A n \in 1..Len(scores) :
         IF scores[n] = None
         THEN total[n] = total[n - 1] /\ weight[n] = weight[n - 1]
         ELSE /\ total[n] = total[n - 1] + scores[n] * weights[n]
              /\ weight[n] = weight[n - 1] + weights[n]
    /\ SumOf(Contributions(scores, weights)) = total[Len(scores)]
    /\ WeightOf(scores, weights) = weight[Len(scores)]

\* A mean has its partial sums.
LEMMA PartialSumsExist ==
  ASSUME NEW scores, NEW weights, Weighable(scores, weights)
  PROVE  \E total, weight : PartialSums(total, weight, scores, weights)
<1> DEFINE parts == Contributions(scores, weights)
           counted == [i \in DOMAIN scores |->
                         IF scores[i] = None THEN None ELSE weights[i]]
<1>0. /\ Len(scores) \in Nat /\ DOMAIN scores = 1..Len(scores)
      /\ \A n \in 1..Len(scores) : /\ scores[n] \in Int \union {None}
                                   /\ weights[n] \in Nat \ {0}
  BY DEF Weighable
<1>1. None \notin Int BY ScoresAssumption
<1>2. parts \in Seq(Numbers) /\ Len(parts) = Len(scores)
  <2>1. \A n \in 1..Len(scores) : scores[n] # None => scores[n] * weights[n] \in Int
    BY <1>0
  <2>2. QED BY <1>0, <2>1 DEF Contributions, Numbers
<1>3. counted \in Seq(Numbers) /\ Len(counted) = Len(scores)
  BY <1>0 DEF Numbers
<1>4. WeightOf(scores, weights) = SumOf(counted) BY DEF WeightOf
<1>5. \A n \in 1..Len(scores) :
        /\ parts[n] = IF scores[n] = None THEN None ELSE scores[n] * weights[n]
        /\ counted[n] = IF scores[n] = None THEN None ELSE weights[n]
        /\ scores[n] # None => parts[n] # None /\ counted[n] # None
  <2> SUFFICES ASSUME NEW n \in 1..Len(scores)
               PROVE /\ parts[n] = IF scores[n] = None THEN None
                                   ELSE scores[n] * weights[n]
                     /\ counted[n] = IF scores[n] = None THEN None ELSE weights[n]
                     /\ scores[n] # None => parts[n] # None /\ counted[n] # None
    OBVIOUS
  <2>1. scores[n] # None => scores[n] * weights[n] \in Int BY <1>0
  <2>2. QED BY <1>0, <1>1, <2>1 DEF Contributions
<1> HIDE DEF parts, counted
<1>6. PICK total : IsSum(total, parts) /\ SumOf(parts) = total[Len(parts)]
  BY <1>2, SumExists
<1>7. PICK weight : IsSum(weight, counted) /\ SumOf(counted) = weight[Len(counted)]
  BY <1>3, SumExists
<1>8. ASSUME NEW n \in 1..Len(scores)
      PROVE IF scores[n] = None
            THEN total[n] = total[n - 1] /\ weight[n] = weight[n - 1]
            ELSE /\ total[n] = total[n - 1] + scores[n] * weights[n]
                 /\ weight[n] = weight[n - 1] + weights[n]
  BY <1>2, <1>3, <1>5, <1>6, <1>7 DEF IsSum
<1>9. PartialSums(total, weight, scores, weights)
  <2>1. SumOf(Contributions(scores, weights)) = total[Len(scores)]
    BY <1>2, <1>6 DEF parts
  <2>2. WeightOf(scores, weights) = weight[Len(scores)] BY <1>3, <1>4, <1>7
  <2>3. QED BY <1>2, <1>3, <1>6, <1>7, <1>8, <2>1, <2>2 DEF PartialSums, IsSum
<1>10. QED BY <1>9


\* Products keep the order of their first factors.
LEMMA ScaledOrder ==
  ASSUME NEW a \in Int, NEW b \in Int, NEW w \in Nat, a <= b
  PROVE  a * w <= b * w
<1>1. PICK d \in Nat : b = a + d
  <2>1. b - a \in Nat /\ b = a + (b - a) OBVIOUS
  <2>2. QED BY <2>1
<1>2. b * w = a * w + d * w /\ d * w \in Nat BY <1>1
<1>3. QED BY <1>2

\* Sums of ordered numbers are ordered.
LEMMA SumOrder ==
  ASSUME NEW a \in Int, NEW b \in Int, NEW c \in Int, NEW d \in Int, a <= c, b <= d
  PROVE  a + b <= c + d
OBVIOUS

\* The partial sums stay on the side of a bound that the scores are on.
LEMMA SumsAboveBound ==
  ASSUME NEW scores, NEW weights, Weighable(scores, weights),
         NEW total, NEW weight, PartialSums(total, weight, scores, weights),
         NEW low \in Int,
         \A n \in 1..Len(scores) : scores[n] # None => low <= scores[n]
  PROVE  low * weight[Len(scores)] <= total[Len(scores)]
<1> DEFINE T == {n \in Nat : low * weight[n] <= total[n]}
<1>0. Len(scores) \in Nat BY DEF Weighable
<1>1. 0 \in T BY DEF PartialSums
<1>2. ASSUME NEW n \in 1..Len(scores), n - 1 \in T PROVE n \in T
  <2>1. n - 1 \in 0..Len(scores) /\ n \in 0..Len(scores) BY <1>0
  <2>2. /\ weight[n - 1] \in Int /\ total[n - 1] \in Int
        /\ low * weight[n - 1] <= total[n - 1]
    BY <1>2, <2>1 DEF PartialSums
  <2>3. CASE scores[n] = None
    <3>1. total[n] = total[n - 1] /\ weight[n] = weight[n - 1]
      BY <2>3 DEF PartialSums
    <3>2. QED BY <2>2, <3>1
  <2>4. CASE scores[n] # None
    <3>1. /\ total[n] = total[n - 1] + scores[n] * weights[n]
          /\ weight[n] = weight[n - 1] + weights[n]
      BY <2>4 DEF PartialSums
    <3>2. scores[n] \in Int /\ weights[n] \in Nat BY <2>4 DEF Weighable
    <3>3. low * weights[n] <= scores[n] * weights[n] BY <2>4, <3>2, ScaledOrder
    <3>4. low * (weight[n - 1] + weights[n])
            = low * weight[n - 1] + low * weights[n]
      BY <2>2, <3>2
    <3>5. /\ low * weights[n] \in Int /\ scores[n] * weights[n] \in Int
          /\ low * weight[n - 1] \in Int
      BY <2>2, <3>2, SMTT(30)
    <3>6. low * weight[n - 1] + low * weights[n]
            <= total[n - 1] + scores[n] * weights[n]
      BY <2>2, <3>3, <3>5, SumOrder
    <3>7. low * weight[n] <= total[n] BY <3>1, <3>4, <3>6
    <3>8. n \in Nat BY <2>1, <1>0
    <3>9. QED BY <3>7, <3>8
  <2>5. QED BY <2>3, <2>4
<1> HIDE DEF T
<1>3. \A n \in 0..Len(scores) : n \in T BY <1>0, <1>1, <1>2, IntervalInduction
<1>4. QED BY <1>0, <1>3 DEF T

\* The same from above.
LEMMA SumsBelowBound ==
  ASSUME NEW scores, NEW weights, Weighable(scores, weights),
         NEW total, NEW weight, PartialSums(total, weight, scores, weights),
         NEW high \in Int,
         \A n \in 1..Len(scores) : scores[n] # None => scores[n] <= high
  PROVE  total[Len(scores)] <= high * weight[Len(scores)]
<1> DEFINE T == {n \in Nat : total[n] <= high * weight[n]}
<1>0. Len(scores) \in Nat BY DEF Weighable
<1>1. 0 \in T BY DEF PartialSums
<1>2. ASSUME NEW n \in 1..Len(scores), n - 1 \in T PROVE n \in T
  <2>1. n - 1 \in 0..Len(scores) /\ n \in 0..Len(scores) BY <1>0
  <2>2. /\ weight[n - 1] \in Int /\ total[n - 1] \in Int
        /\ total[n - 1] <= high * weight[n - 1]
    BY <1>2, <2>1 DEF PartialSums
  <2>3. CASE scores[n] = None
    <3>1. total[n] = total[n - 1] /\ weight[n] = weight[n - 1]
      BY <2>3 DEF PartialSums
    <3>2. QED BY <2>2, <3>1
  <2>4. CASE scores[n] # None
    <3>1. /\ total[n] = total[n - 1] + scores[n] * weights[n]
          /\ weight[n] = weight[n - 1] + weights[n]
      BY <2>4 DEF PartialSums
    <3>2. scores[n] \in Int /\ weights[n] \in Nat BY <2>4 DEF Weighable
    <3>3. scores[n] * weights[n] <= high * weights[n] BY <2>4, <3>2, ScaledOrder
    <3>4. high * (weight[n - 1] + weights[n])
            = high * weight[n - 1] + high * weights[n]
      BY <2>2, <3>2
    <3>5. /\ high * weights[n] \in Int /\ scores[n] * weights[n] \in Int
          /\ high * weight[n - 1] \in Int
      BY <2>2, <3>2, SMTT(30)
    <3>6. total[n - 1] + scores[n] * weights[n]
            <= high * weight[n - 1] + high * weights[n]
      BY <2>2, <3>3, <3>5, SumOrder
    <3>7. total[n] <= high * weight[n] BY <3>1, <3>4, <3>6
    <3>8. n \in Nat BY <2>1, <1>0
    <3>9. QED BY <3>7, <3>8
  <2>5. QED BY <2>3, <2>4
<1> HIDE DEF T
<1>3. \A n \in 0..Len(scores) : n \in T BY <1>0, <1>1, <1>2, IntervalInduction
<1>4. QED BY <1>0, <1>3 DEF T

\* The weight of a mean is zero exactly when no score is there.
LEMMA WeightCounts ==
  ASSUME NEW scores, NEW weights, Weighable(scores, weights),
         NEW total, NEW weight, PartialSums(total, weight, scores, weights)
  PROVE  /\ weight[Len(scores)] \in Nat
         /\ weight[Len(scores)] = 0
              <=> \A n \in 1..Len(scores) : scores[n] = None
<1> DEFINE T == {n \in Nat : /\ weight[n] \in Nat
                             /\ weight[n] = 0
                                  <=> \A k \in 1..n : scores[k] = None}
<1>0. Len(scores) \in Nat BY DEF Weighable
<1>1. 0 \in T BY DEF PartialSums
<1>2. ASSUME NEW n \in 1..Len(scores), n - 1 \in T PROVE n \in T
  <2>1. \A k \in 1..n : k \in 1..(n - 1) \/ k = n BY <1>0
  <2>2. n \in 1..n /\ \A k \in 1..(n - 1) : k \in 1..n BY <1>0
  <2>3. CASE scores[n] = None
    <3>1. weight[n] = weight[n - 1] BY <2>3 DEF PartialSums
    <3>2. QED BY <1>0, <1>2, <2>1, <2>2, <2>3, <3>1
  <2>4. CASE scores[n] # None
    <3>1. weight[n] = weight[n - 1] + weights[n] BY <2>4 DEF PartialSums
    <3>2. weights[n] \in Nat \ {0} BY DEF Weighable
    <3>3. weight[n] \in Nat /\ weight[n] # 0 BY <1>2, <3>1, <3>2
    <3>4. QED BY <1>0, <2>2, <2>4, <3>3
  <2>5. QED BY <2>3, <2>4
<1> HIDE DEF T
<1>3. \A n \in 0..Len(scores) : n \in T BY <1>0, <1>1, <1>2, IntervalInduction
<1>4. QED BY <1>0, <1>3 DEF T


\* The quotient of a division, as what it multiplies back to.
LEMMA Quotient ==
  ASSUME NEW a \in Int, NEW b \in Nat \ {0}
  PROVE  a \div b \in Int /\ b * (a \div b) <= a /\ a < b * (a \div b) + b
OBVIOUS

\* A quotient stays on the side of a bound that its parts are on.
LEMMA QuotientBounds ==
  ASSUME NEW a \in Int, NEW b \in Nat \ {0}, NEW c \in Int
  PROVE  /\ c * b <= a => c <= a \div b
         /\ a <= c * b => a \div b <= c
<1> DEFINE q == a \div b
<1>1. q \in Int /\ b * q <= a /\ a < b * q + b BY Quotient
<1> HIDE DEF q
<1>2. ASSUME c * b <= a, q < c PROVE FALSE
  <2>1. (q + 1) * b <= c * b BY <1>1, <1>2, ScaledOrder
  <2>2. (q + 1) * b = b * q + b /\ c * b \in Int BY <1>1
  <2>3. QED BY <1>1, <1>2, <2>1, <2>2
<1>3. ASSUME a <= c * b, c < q PROVE FALSE
  <2>1. (c + 1) * b <= q * b BY <1>1, <1>3, ScaledOrder
  <2>2. (c + 1) * b = c * b + b /\ q * b = b * q /\ c * b \in Int BY <1>1
  <2>3. QED BY <1>1, <1>3, <2>1, <2>2
<1>4. QED BY <1>1, <1>2, <1>3 DEF q

Present(scores) == {i \in 1..Len(scores) : scores[i] # None}

\* A weighted mean is None exactly when no score is there, and else lies
\* between two of the scores.
LEMMA MeanLiesBetween ==
  ASSUME NEW scores, NEW weights, Weighable(scores, weights)
  PROVE  /\ WeightedMean(scores, weights) = None <=> Present(scores) = {}
         /\ Present(scores) # {} =>
              /\ WeightedMean(scores, weights) \in Int
              /\ \E i \in Present(scores) : scores[i] <= WeightedMean(scores, weights)
              /\ \E i \in Present(scores) : WeightedMean(scores, weights) <= scores[i]
<1> DEFINE mean == WeightedMean(scores, weights)
           n == Len(scores)
<1>1. PICK total, weight : PartialSums(total, weight, scores, weights)
  BY PartialSumsExist
<1>2. /\ weight[n] \in Nat
      /\ weight[n] = 0 <=> \A i \in 1..n : scores[i] = None
  BY <1>1, WeightCounts
<1>3. mean = IF weight[n] = 0 THEN None ELSE total[n] \div weight[n]
  <2>1. /\ WeightOf(scores, weights) = weight[n]
        /\ SumOf(Contributions(scores, weights)) = total[n]
    BY <1>1 DEF PartialSums
  <2>2. QED BY <2>1 DEF WeightedMean
<1>4. total[n] \in Int
  BY <1>1 DEF PartialSums, Weighable
<1>5. weight[n] = 0 <=> Present(scores) = {} BY <1>2 DEF Present
<1>6. CASE weight[n] = 0
  BY <1>3, <1>5, <1>6
<1>7. CASE weight[n] # 0
  <2>1. weight[n] \in Nat \ {0} /\ mean = total[n] \div weight[n] BY <1>2, <1>3, <1>7
  <2> HIDE DEF mean
  <2>2. mean \in Int BY <1>4, <2>1, Quotient
  <2>3. mean # None BY <2>2, ScoresAssumption
  <2>4. \A i \in Present(scores) : i \in 1..n /\ scores[i] \in Int
    BY DEF Present, Weighable
  <2>5. ASSUME \A i \in Present(scores) : ~(scores[i] <= mean) PROVE FALSE
    <3>1. \A i \in 1..n : scores[i] # None => mean + 1 <= scores[i]
      BY <2>2, <2>4, <2>5 DEF Present
    <3>2. mean + 1 \in Int BY <2>2
    <3>3. (mean + 1) * weight[n] <= total[n]
      BY <1>1, <3>1, <3>2, SumsAboveBound
    <3>4. mean + 1 <= mean BY <1>4, <2>1, <3>2, <3>3, QuotientBounds
    <3>5. QED BY <2>2, <3>4
  <2>6. ASSUME \A i \in Present(scores) : ~(mean <= scores[i]) PROVE FALSE
    <3>1. \A i \in 1..n : scores[i] # None => scores[i] <= mean - 1
      BY <2>2, <2>4, <2>6 DEF Present
    <3>2. mean - 1 \in Int BY <2>2
    <3>3. total[n] <= (mean - 1) * weight[n]
      BY <1>1, <3>1, <3>2, SumsBelowBound
    <3>4. mean <= mean - 1 BY <1>4, <2>1, <3>2, <3>3, QuotientBounds
    <3>5. QED BY <2>2, <3>4
  <2>7. QED BY <1>5, <1>7, <2>2, <2>3, <2>5, <2>6 DEF mean
<1>8. QED BY <1>6, <1>7


(***************************************************************************)
(* The catalogue                                                           *)
(***************************************************************************)
\* A set of natural numbers that is not empty has a least element.
LEMMA LeastElement ==
  ASSUME NEW I \in SUBSET Nat, I # {}
  PROVE  Min(I) \in I /\ \A j \in I : Min(I) <= j
<1>1. ASSUME ~\E i \in I : \A j \in I : i <= j PROVE FALSE
  <2> DEFINE T == {n \in Nat : \A j \in I : n < j}
  <2>1. 0 \in T BY <1>1
  <2>2. ASSUME NEW n \in T PROVE n + 1 \in T
    <3>1. n \in Nat /\ \A j \in I : n < j OBVIOUS
    <3>2. \A j \in I : j \in Nat /\ n + 1 <= j BY <3>1
    <3>3. n + 1 \notin I BY <1>1, <3>2
    <3>4. \A j \in I : n + 1 < j BY <3>1, <3>2, <3>3
    <3>5. QED BY <3>1, <3>4
  <2>3. T \in SUBSET Nat OBVIOUS
  <2>4. PICK j \in I : TRUE OBVIOUS
  <2>5. \A n \in T : \A k \in I : n < k OBVIOUS
  <2> HIDE DEF T
  <2>6. Nat = T BY <2>1, <2>2, <2>3, SetInduction
  <2>7. j \in Nat /\ j < j BY <2>4, <2>5, <2>6
  <2>8. QED BY <2>7
<1>2. PICK i \in I : \A j \in I : i <= j BY <1>1
<1>3. QED BY <1>2 DEF Min

\* What SelectInSeq returns for the places at which its test holds.
FirstOf(I) == IF I # {} THEN Min(I) ELSE 0

\* It is the first of them, and 0 is no place.
LEMMA FirstPlace ==
  ASSUME NEW n \in Nat, NEW I \in SUBSET (1..n)
  PROVE  /\ FirstOf(I) \in 0..n
         /\ I # {} => FirstOf(I) \in I /\ FirstOf(I) # 0
         /\ I = {} => FirstOf(I) = 0
<1>1. I \in SUBSET Nat OBVIOUS
<1>2. I # {} => Min(I) \in I BY <1>1, LeastElement
<1>3. 0 \in 0..n /\ \A i \in 1..n : i \in 0..n /\ i # 0 OBVIOUS
<1>4. CASE I = {} BY <1>3, <1>4 DEF FirstOf
<1>5. CASE I # {}
  <2>1. FirstOf(I) = Min(I) /\ Min(I) \in I BY <1>2, <1>5 DEF FirstOf
  <2>2. QED BY <1>3, <1>5, <2>1
<1>6. QED BY <1>4, <1>5

\* The names of the rows, audit by audit.
analytics_keys ==
    {"behavioural_analytics", "conversion_tracking",
     "data_infrastructure", "measurement_unobserved", "web_analytics"}

build_security_keys ==
    {"ai_build_likelihood", "component_", "cookie_flags",
     "copyright_year", "crawl_signals", "exposed_paths",
     "header_content_security_policy", "header_permissions_policy",
     "header_referrer_policy", "header_strict_transport_security",
     "header_x_content_type_options", "header_x_frame_options",
     "https_enforced", "info_leakage", "known_vulnerabilities",
     "mixed_content", "stack_detected", "tls_expiry", "tls_valid",
     "version_disclosure"}

compliance_keys ==
    {"accessibility_statement", "company_identity",
     "consent_mechanism", "form_privacy_notice",
     "form_secure_submission", "pii_forms",
     "privacy_policy_completeness", "privacy_policy_present",
     "secure_transport", "terms_present", "third_party_inventory",
     "trackers_before_consent", "us_processor_transfer",
     "wcag_automated"}

content_quality_keys ==
    {"authorship", "content_dates", "copyright_current",
     "depth_analysis", "duplicate_content", "first_hand_experience",
     "generic_prose", "physical_presence", "scannability",
     "social_proof", "substance", "trust_pages"}

content_strategy_keys ==
    {"content_inventory", "content_performance", "content_recency",
     "content_relevance", "conversion_pathway",
     "publishing_regularity"}

geo_keys ==
    {"ai_answer_citation", "ai_crawler_access",
     "corroboration_signals", "extractable_chunks", "faq_content",
     "icp_question_coverage", "icp_question_source", "llms_txt",
     "off_page_authority", "qa_structure"}

messaging_keys ==
    {"audience_signal", "benefit_language", "brand_consistency",
     "clarity_judgement", "conversion_systems", "cta_present",
     "hero_headline", "icp_fit", "plain_language", "proof"}

on_page_seo_keys ==
    {"anticipated_phrases", "average_position", "content_depth", "h1",
     "image_alt", "intent_analysis", "local_signals",
     "meta_description", "nap_presence", "rankings",
     "search_visibility", "semantic_coverage", "striking_distance",
     "title_h1_alignment", "title_tag", "title_uniqueness"}

performance_keys ==
    {"compression", "cwv_cls", "cwv_inp", "cwv_lcp",
     "lighthouse_score", "page_weight", "pagespeed_unavailable",
     "ttfb"}

schema_keys ==
    {"core_types", "deprecated_rich", "json_ld_valid",
     "organization_entity", "required_properties",
     "rich_eligible_types", "structured_data_present"}

technical_seo_keys ==
    {"canonical_tag", "crawl_depth", "homepage_indexable", "hreflang",
     "https_canonicalisation", "indexed_count",
     "js_content_dependency", "robots_txt", "sitemap_coverage",
     "sitemap_health", "status_health", "viewport_meta",
     "xml_sitemap"}

\* The keys of the checks: the named ones and those of the components.
CheckKeys ==
    UNION {analytics_keys, build_security_keys, compliance_keys,
           content_quality_keys, content_strategy_keys, geo_keys,
           messaging_keys, on_page_seo_keys, performance_keys,
           schema_keys, technical_seo_keys, FAMILIES.component_}

\* The checks of an audit that the catalogue explains.
Explained(audit) == {key \in CheckKeys : row_of(audit, key) # 0}

\* A check with a row of its own is explained, and its row is a place.
LEMMA RowPlace ==
  ASSUME NEW audit, Len(CATALOGUE[audit]) \in Nat, NEW key
  PROVE  /\ row_of(audit, key) \in 0..Len(CATALOGUE[audit])
         /\ \A i \in 1..Len(CATALOGUE[audit]) :
              CATALOGUE[audit][i][1] = key => row_of(audit, key) # 0
         /\ \A i \in 1..Len(CATALOGUE[audit]) :
              /\ CATALOGUE[audit][i][1] \in DOMAIN FAMILIES
              /\ key \in FAMILIES[CATALOGUE[audit][i][1]]
              => row_of(audit, key) # 0
<1> DEFINE n == Len(CATALOGUE[audit])
           exact == {i \in 1..n : CATALOGUE[audit][i][1] = key}
           family == {i \in 1..n : /\ CATALOGUE[audit][i][1] \in DOMAIN FAMILIES
                                   /\ key \in FAMILIES[CATALOGUE[audit][i][1]]}
<1>0. n \in Nat OBVIOUS
<1>1. row_of(audit, key)
        = IF FirstOf(exact) # 0 THEN FirstOf(exact) ELSE FirstOf(family)
  BY DEF row_of, SelectInSeq, FirstOf
<1>2. exact \in SUBSET (1..n) /\ family \in SUBSET (1..n) OBVIOUS
<1>3. /\ \A i \in 1..n : CATALOGUE[audit][i][1] = key => exact # {}
      /\ \A i \in 1..n : /\ CATALOGUE[audit][i][1] \in DOMAIN FAMILIES
                         /\ key \in FAMILIES[CATALOGUE[audit][i][1]]
                         => family # {}
  OBVIOUS
<1> HIDE DEF exact, family
<1>4. /\ FirstOf(exact) \in 0..n /\ FirstOf(family) \in 0..n
      /\ exact # {} => FirstOf(exact) # 0
      /\ family # {} => FirstOf(family) # 0
  BY <1>0, <1>2, FirstPlace
<1>5. row_of(audit, key) \in 0..n BY <1>1, <1>4
<1>6. exact # {} \/ family # {} => row_of(audit, key) # 0 BY <1>1, <1>4
<1>7. QED BY <1>3, <1>5, <1>6

\* What every audit's rows are made of.
GoodRows(audit) ==
    /\ Len(CATALOGUE[audit]) \in Nat
    /\ \A i \in 1..Len(CATALOGUE[audit]) :
         CATALOGUE[audit][i][2] \in 1..5 /\ CATALOGUE[audit][i][3] \in 1..3

\* The rows name the keys, and rate their impact and effort.
Name(rows, keys) ==
    /\ Len(rows) \in Nat
    /\ \A i \in 1..Len(rows) : rows[i][2] \in 1..5 /\ rows[i][3] \in 1..3
    /\ \A key \in keys : \E i \in 1..Len(rows) : rows[i][1] = key
    /\ keys \subseteq CheckKeys

\* The keys that the rows of an audit name are checks that it explains.
LEMMA RowsExplain ==
  ASSUME NEW audit, NEW keys, Name(CATALOGUE[audit], keys)
  PROVE  GoodRows(audit) /\ keys \subseteq Explained(audit)
<1>1. ASSUME NEW key \in keys PROVE row_of(audit, key) # 0
  <2>1. PICK i \in 1..Len(CATALOGUE[audit]) : CATALOGUE[audit][i][1] = key
    BY DEF Name
  <2>2. Len(CATALOGUE[audit]) \in Nat BY DEF Name
  <2>3. QED BY <2>1, <2>2, RowPlace
<1>2. QED BY <1>1 DEF GoodRows, Explained, Name

\* The rows of analytics.
LEMMA AnalyticsRows == GoodRows("analytics") /\ analytics_keys \subseteq Explained("analytics")
<1>1. CATALOGUE["analytics"] = analytics_entries BY DEF CATALOGUE
<1>2. /\ Len(analytics_entries) = 5
      /\ \A i \in 1..5 : /\ analytics_entries[i][2] \in 1..5
                         /\ analytics_entries[i][3] \in 1..3
      /\ \A key \in analytics_keys : \E i \in 1..5 : analytics_entries[i][1] = key
  BY DEF analytics_entries, analytics_keys
<1>3. Name(analytics_entries, analytics_keys) BY <1>2 DEF Name, CheckKeys
<1>4. QED BY <1>1, <1>3, RowsExplain

\* The rows of build security, one of which is for every component.
LEMMA BuildSecurityRows ==
  /\ GoodRows("build_security")
  /\ build_security_keys \subseteq Explained("build_security")
  /\ FAMILIES.component_ \subseteq Explained("build_security")
<1>1. CATALOGUE["build_security"] = build_security_entries BY DEF CATALOGUE
<1>2. /\ Len(build_security_entries) = 20
      /\ \A i \in 1..20 : /\ build_security_entries[i][2] \in 1..5
                         /\ build_security_entries[i][3] \in 1..3
      /\ \A key \in build_security_keys :
           \E i \in 1..20 : build_security_entries[i][1] = key
  BY DEF build_security_entries, build_security_keys
<1>3. Name(build_security_entries, build_security_keys)
  BY <1>2 DEF Name, CheckKeys
<1>4. /\ GoodRows("build_security")
      /\ build_security_keys \subseteq Explained("build_security")
  BY <1>1, <1>3, RowsExplain
<1>5. ASSUME NEW key \in FAMILIES.component_ PROVE key \in Explained("build_security")
  <2>1. Len(CATALOGUE["build_security"]) = 20 /\ 2 \in 1..20 BY <1>1, <1>2
  <2>2. CATALOGUE["build_security"][2][1] = "component_"
    BY <1>1 DEF build_security_entries
  <2>3. /\ "component_" \in DOMAIN FAMILIES
        /\ key \in FAMILIES["component_"]
    BY DEF FAMILIES
  <2>4. row_of("build_security", key) # 0 BY <2>1, <2>2, <2>3, RowPlace
  <2>5. key \in CheckKeys BY DEF CheckKeys
  <2>6. QED BY <2>4, <2>5 DEF Explained
<1>6. QED BY <1>4, <1>5

\* The rows of compliance.
LEMMA ComplianceRows == GoodRows("compliance") /\ compliance_keys \subseteq Explained("compliance")
<1>1. CATALOGUE["compliance"] = compliance_entries BY DEF CATALOGUE
<1>2. /\ Len(compliance_entries) = 14
      /\ \A i \in 1..14 : /\ compliance_entries[i][2] \in 1..5
                         /\ compliance_entries[i][3] \in 1..3
      /\ \A key \in compliance_keys : \E i \in 1..14 : compliance_entries[i][1] = key
  BY DEF compliance_entries, compliance_keys
<1>3. Name(compliance_entries, compliance_keys) BY <1>2 DEF Name, CheckKeys
<1>4. QED BY <1>1, <1>3, RowsExplain

\* The rows of content quality.
LEMMA ContentQualityRows == GoodRows("content_quality") /\ content_quality_keys \subseteq Explained("content_quality")
<1>1. CATALOGUE["content_quality"] = content_quality_entries BY DEF CATALOGUE
<1>2. /\ Len(content_quality_entries) = 12
      /\ \A i \in 1..12 : /\ content_quality_entries[i][2] \in 1..5
                         /\ content_quality_entries[i][3] \in 1..3
      /\ \A key \in content_quality_keys : \E i \in 1..12 : content_quality_entries[i][1] = key
  BY DEF content_quality_entries, content_quality_keys
<1>3. Name(content_quality_entries, content_quality_keys) BY <1>2 DEF Name, CheckKeys
<1>4. QED BY <1>1, <1>3, RowsExplain

\* The rows of content strategy.
LEMMA ContentStrategyRows == GoodRows("content_strategy") /\ content_strategy_keys \subseteq Explained("content_strategy")
<1>1. CATALOGUE["content_strategy"] = content_strategy_entries BY DEF CATALOGUE
<1>2. /\ Len(content_strategy_entries) = 6
      /\ \A i \in 1..6 : /\ content_strategy_entries[i][2] \in 1..5
                         /\ content_strategy_entries[i][3] \in 1..3
      /\ \A key \in content_strategy_keys : \E i \in 1..6 : content_strategy_entries[i][1] = key
  BY DEF content_strategy_entries, content_strategy_keys
<1>3. Name(content_strategy_entries, content_strategy_keys) BY <1>2 DEF Name, CheckKeys
<1>4. QED BY <1>1, <1>3, RowsExplain

\* The rows of geo.
LEMMA GeoRows == GoodRows("geo") /\ geo_keys \subseteq Explained("geo")
<1>1. CATALOGUE["geo"] = geo_entries BY DEF CATALOGUE
<1>2. /\ Len(geo_entries) = 10
      /\ \A i \in 1..10 : /\ geo_entries[i][2] \in 1..5
                         /\ geo_entries[i][3] \in 1..3
      /\ \A key \in geo_keys : \E i \in 1..10 : geo_entries[i][1] = key
  BY DEF geo_entries, geo_keys
<1>3. Name(geo_entries, geo_keys) BY <1>2 DEF Name, CheckKeys
<1>4. QED BY <1>1, <1>3, RowsExplain

\* The rows of messaging.
LEMMA MessagingRows == GoodRows("messaging") /\ messaging_keys \subseteq Explained("messaging")
<1>1. CATALOGUE["messaging"] = messaging_entries BY DEF CATALOGUE
<1>2. /\ Len(messaging_entries) = 10
      /\ \A i \in 1..10 : /\ messaging_entries[i][2] \in 1..5
                         /\ messaging_entries[i][3] \in 1..3
      /\ \A key \in messaging_keys : \E i \in 1..10 : messaging_entries[i][1] = key
  BY DEF messaging_entries, messaging_keys
<1>3. Name(messaging_entries, messaging_keys) BY <1>2 DEF Name, CheckKeys
<1>4. QED BY <1>1, <1>3, RowsExplain

\* The rows of on page seo.
LEMMA OnPageSeoRows == GoodRows("on_page_seo") /\ on_page_seo_keys \subseteq Explained("on_page_seo")
<1>1. CATALOGUE["on_page_seo"] = on_page_seo_entries BY DEF CATALOGUE
<1>2. /\ Len(on_page_seo_entries) = 16
      /\ \A i \in 1..16 : /\ on_page_seo_entries[i][2] \in 1..5
                         /\ on_page_seo_entries[i][3] \in 1..3
      /\ \A key \in on_page_seo_keys : \E i \in 1..16 : on_page_seo_entries[i][1] = key
  BY DEF on_page_seo_entries, on_page_seo_keys
<1>3. Name(on_page_seo_entries, on_page_seo_keys) BY <1>2 DEF Name, CheckKeys
<1>4. QED BY <1>1, <1>3, RowsExplain

\* The rows of performance.
LEMMA PerformanceRows == GoodRows("performance") /\ performance_keys \subseteq Explained("performance")
<1>1. CATALOGUE["performance"] = performance_entries BY DEF CATALOGUE
<1>2. /\ Len(performance_entries) = 8
      /\ \A i \in 1..8 : /\ performance_entries[i][2] \in 1..5
                         /\ performance_entries[i][3] \in 1..3
      /\ \A key \in performance_keys : \E i \in 1..8 : performance_entries[i][1] = key
  BY DEF performance_entries, performance_keys
<1>3. Name(performance_entries, performance_keys) BY <1>2 DEF Name, CheckKeys
<1>4. QED BY <1>1, <1>3, RowsExplain

\* The rows of schema.
LEMMA SchemaRows == GoodRows("schema") /\ schema_keys \subseteq Explained("schema")
<1>1. CATALOGUE["schema"] = schema_entries BY DEF CATALOGUE
<1>2. /\ Len(schema_entries) = 7
      /\ \A i \in 1..7 : /\ schema_entries[i][2] \in 1..5
                         /\ schema_entries[i][3] \in 1..3
      /\ \A key \in schema_keys : \E i \in 1..7 : schema_entries[i][1] = key
  BY DEF schema_entries, schema_keys
<1>3. Name(schema_entries, schema_keys) BY <1>2 DEF Name, CheckKeys
<1>4. QED BY <1>1, <1>3, RowsExplain

\* The rows of technical seo.
LEMMA TechnicalSeoRows == GoodRows("technical_seo") /\ technical_seo_keys \subseteq Explained("technical_seo")
<1>1. CATALOGUE["technical_seo"] = technical_seo_entries BY DEF CATALOGUE
<1>2. /\ Len(technical_seo_entries) = 13
      /\ \A i \in 1..13 : /\ technical_seo_entries[i][2] \in 1..5
                         /\ technical_seo_entries[i][3] \in 1..3
      /\ \A key \in technical_seo_keys : \E i \in 1..13 : technical_seo_entries[i][1] = key
  BY DEF technical_seo_entries, technical_seo_keys
<1>3. Name(technical_seo_entries, technical_seo_keys) BY <1>2 DEF Name, CheckKeys
<1>4. QED BY <1>1, <1>3, RowsExplain

(***************************************************************************)
(* The scores of the audits, of the site and of the owner's page           *)
(***************************************************************************)
\* What a result of an audit may hold: a check that is scored has 0..100 points.
Points100 == 0..100
CheckType ==
    [key : CheckKeys, score : Points100 \union {None},
     status : {"fail", "warn", "pass", "info"},
     severity : DOMAIN SEVERITY_RANK, detection : {OBS, INF, NEEDS}]

\* A mean, as the provers take it best.
OnScale(mean) == mean \in Int /\ 0 <= mean /\ mean <= 10000

\* The scale of the means.
LEMMA PointsScale ==
  /\ \A n : n \in 0..100 => OnScale(Points(n))
  /\ \A n : n \in 0..100 /\ Points(n) < 5000 => n < 50
  /\ Points(100) = 10000 /\ Points(50) = 5000 /\ Points(70) = 7000
BY DEF Points, Hundredths, OnScale

\* A mean of scores that are on the scale is on the scale.
LEMMA MeanOnScale ==
  ASSUME NEW scores, NEW weights, Weighable(scores, weights),
         \A i \in Present(scores) : OnScale(scores[i])
  PROVE  /\ WeightedMean(scores, weights) = None <=> Present(scores) = {}
         /\ WeightedMean(scores, weights) # None =>
              /\ OnScale(WeightedMean(scores, weights))
              /\ \E i \in Present(scores) : scores[i] <= WeightedMean(scores, weights)
              /\ \E i \in Present(scores) : WeightedMean(scores, weights) <= scores[i]
<1> DEFINE mean == WeightedMean(scores, weights)
<1>1. /\ mean = None <=> Present(scores) = {}
      /\ Present(scores) # {} =>
           /\ mean \in Int
           /\ \E i \in Present(scores) : scores[i] <= mean
           /\ \E i \in Present(scores) : mean <= scores[i]
  BY MeanLiesBetween
<1> HIDE DEF mean
<1>2. ASSUME mean # None PROVE OnScale(mean)
  <2>1. PICK i \in Present(scores) : scores[i] <= mean BY <1>1, <1>2
  <2>2. PICK j \in Present(scores) : mean <= scores[j] BY <1>1, <1>2
  <2>3. mean \in Int /\ OnScale(scores[i]) /\ OnScale(scores[j]) BY <1>1, <1>2
  <2>4. QED BY <2>1, <2>2, <2>3 DEF OnScale
<1>3. QED BY <1>1, <1>2 DEF mean

\* What a check is worth in its category.
LEMMA WorthType ==
  \A c \in CheckType : /\ Worth(c) \in Int \union {None}
                       /\ Worth(c) = None <=> ~Scored(c)
                       /\ Scored(c) => /\ Worth(c) = Points(c.score)
                                      /\ OnScale(Worth(c))
<1> SUFFICES ASSUME NEW c \in CheckType
             PROVE  /\ Worth(c) \in Int \union {None}
                    /\ Worth(c) = None <=> ~Scored(c)
                    /\ Scored(c) => /\ Worth(c) = Points(c.score)
                                   /\ OnScale(Worth(c))
  OBVIOUS
<1>1. c.score \in 0..100 \/ c.score = None BY DEF CheckType, Points100
<1>2. CASE Scored(c)
  <2>1. c.score \in 0..100 BY <1>1, <1>2 DEF Scored
  <2>2. OnScale(Points(c.score)) BY <2>1, PointsScale
  <2>3. Points(c.score) \in Int BY <2>2 DEF OnScale
  <2>4. Points(c.score) # None BY <2>3, ScoresAssumption
  <2>5. QED BY <1>2, <2>2, <2>3, <2>4 DEF Worth
<1>3. CASE ~Scored(c)
  BY <1>3 DEF Worth
<1>4. QED BY <1>2, <1>3

\* The score of a category lies between the scores of its scored checks.
LEMMA CategoryBetween ==
  ASSUME NEW checks \in Seq(CheckType)
  PROVE  /\ category_score(checks) = None
              <=> \A i \in 1..Len(checks) : ~Scored(checks[i])
         /\ category_score(checks) # None =>
              /\ OnScale(category_score(checks))
              /\ \E i \in 1..Len(checks) :
                   /\ Scored(checks[i])
                   /\ Points(checks[i].score) <= category_score(checks)
<1> DEFINE scores == [i \in DOMAIN checks |-> Worth(checks[i])]
           ones == [i \in DOMAIN checks |-> 1]
           mean == category_score(checks)
<1>1. /\ Len(checks) \in Nat /\ DOMAIN checks = 1..Len(checks)
      /\ \A i \in 1..Len(checks) : checks[i] \in CheckType
  OBVIOUS
<1>2. mean = WeightedMean(scores, ones) BY DEF category_score
<1>3. \A i \in 1..Len(checks) :
        /\ scores[i] \in Int \union {None}
        /\ scores[i] = None <=> ~Scored(checks[i])
        /\ Scored(checks[i]) => /\ scores[i] = Points(checks[i].score)
                               /\ OnScale(scores[i])
  BY <1>1, WorthType
<1>4. DOMAIN scores = 1..Len(checks) /\ scores \in [1..Len(checks) -> Int \union {None}]
  BY <1>1, <1>3
<1>5. /\ scores \in Seq(Int \union {None}) /\ Len(scores) = Len(checks)
      /\ ones \in Seq(Nat \ {0}) /\ Len(ones) = Len(checks)
  <2> HIDE DEF scores
  <2>1. QED BY <1>1, <1>4
<1> HIDE DEF scores, ones, mean
<1>6. Weighable(scores, ones) BY <1>5 DEF Weighable
<1>7. Present(scores) = {i \in 1..Len(checks) : Scored(checks[i])}
  BY <1>3, <1>5 DEF Present
<1>8. \A i \in Present(scores) : OnScale(scores[i]) BY <1>3, <1>7
<1>9. /\ mean = None <=> Present(scores) = {}
      /\ mean # None => /\ OnScale(mean)
                        /\ \E i \in Present(scores) : scores[i] <= mean
  BY <1>2, <1>6, <1>8, MeanOnScale
<1>10. ASSUME mean # None
       PROVE  \E i \in 1..Len(checks) : /\ Scored(checks[i])
                                        /\ Points(checks[i].score) <= mean
  <2>1. PICK i \in Present(scores) : scores[i] <= mean BY <1>9, <1>10
  <2>2. i \in 1..Len(checks) /\ Scored(checks[i]) /\ scores[i] = Points(checks[i].score)
    BY <1>3, <1>7
  <2>3. QED BY <2>1, <2>2
<1>11. QED BY <1>7, <1>9, <1>10 DEF mean

Scores == {x \in Int : OnScale(x)} \union {None}

\* The categories of the audits.
CategoryKeys ==
    {"accessibility", "ai_citation", "ai_crawler_access", "ai_tells",
     "answerability", "audience", "authoritativeness_trust",
     "authority", "behavioural_product", "clarity", "consistency",
     "content_performance", "content_quality_icp", "conversion",
     "conversion_campaign", "conversion_pathway", "cookies_consent",
     "core_web_vitals", "crawlability", "data_infra_governance",
     "delivery", "depth_substance", "entity", "expertise_experience",
     "extractability", "fingerprint", "forms", "freshness",
     "indexation", "international", "keyword_targeting",
     "lab_performance", "local_seo", "maintenance", "mobile",
     "on_page_elements", "page_weight", "presence", "privacy_legal",
     "publishing_cadence", "ranking_performance",
     "readability_structure", "rich_results", "security_posture",
     "semantic_content", "site_response", "trackers_transfers",
     "validity", "value_prop", "versions_vulns",
     "web_analytics_presence"}

\* What the audits build their categories to be.
CategoryType ==
    {c \in [key : CategoryKeys, weight : Nat \ {0}, applicable : BOOLEAN,
            checks : Seq(CheckType), score : Scores] :
       c.score = category_score(c.checks)}

\* Category builds what it should.
LEMMA CategoryTyped ==
  ASSUME NEW key \in CategoryKeys, NEW weight \in Nat \ {0}, NEW applicable \in BOOLEAN,
         NEW checks \in Seq(CheckType)
  PROVE  Category(key, weight, applicable, checks) \in CategoryType
<1>1. category_score(checks) \in Scores
  <2> DEFINE mean == category_score(checks)
  <2>1. mean # None => OnScale(mean) BY CategoryBetween
  <2> HIDE DEF mean
  <2>2. mean \in Scores BY <2>1 DEF Scores, OnScale
  <2>3. QED BY <2>2 DEF mean
<1>2. QED BY <1>1 DEF Category, CategoryType

\* A category has a number to count exactly when it counts, and it is on the scale.
LEMMA CountedType ==
  \A c \in CategoryType : /\ CountedScore(c) \in Int \union {None}
                          /\ CountedScore(c) = None <=> ~Counts(c)
                          /\ Counts(c) => /\ CountedScore(c) = c.score
                                         /\ OnScale(CountedScore(c))
<1> SUFFICES ASSUME NEW c \in CategoryType
             PROVE  /\ CountedScore(c) \in Int \union {None}
                    /\ CountedScore(c) = None <=> ~Counts(c)
                    /\ Counts(c) => /\ CountedScore(c) = c.score
                                   /\ OnScale(CountedScore(c))
  OBVIOUS
<1>1. c.score \in Scores BY DEF CategoryType
<1>2. CASE Counts(c)
  <2>1. c.score # None BY <1>2 DEF Counts
  <2>2. OnScale(c.score) /\ c.score \in Int BY <1>1, <2>1 DEF Scores
  <2>3. QED BY <1>2, <2>1, <2>2 DEF CountedScore
<1>3. CASE ~Counts(c)
  BY <1>3 DEF CountedScore
<1>4. QED BY <1>2, <1>3

\* The score of an audit lies between the scores of its categories that count.
LEMMA AuditBetween ==
  ASSUME NEW categories \in Seq(CategoryType)
  PROVE  audit_score(categories) # None =>
           /\ OnScale(audit_score(categories))
           /\ \E i \in 1..Len(categories) :
                /\ Counts(categories[i])
                /\ categories[i].score <= audit_score(categories)
           /\ \E i \in 1..Len(categories) :
                /\ Counts(categories[i])
                /\ audit_score(categories) <= categories[i].score
<1> DEFINE scores == CountedScores(categories)
           weights == WeightsOf(categories)
           mean == audit_score(categories)
<1>1. /\ Len(categories) \in Nat /\ DOMAIN categories = 1..Len(categories)
      /\ \A i \in 1..Len(categories) : categories[i] \in CategoryType
  OBVIOUS
<1>2. mean = WeightedMean(scores, weights) BY DEF audit_score
<1>3. \A i \in 1..Len(categories) :
        /\ scores[i] \in Int \union {None}
        /\ scores[i] = None <=> ~Counts(categories[i])
        /\ Counts(categories[i]) => /\ scores[i] = categories[i].score
                                   /\ OnScale(scores[i])
  BY <1>1, CountedType DEF CountedScores
<1>4. /\ DOMAIN scores = 1..Len(categories)
      /\ scores \in [1..Len(categories) -> Int \union {None}]
  BY <1>1, <1>3 DEF CountedScores
<1>5. \A c \in CategoryType : c.weight \in Nat \ {0} BY DEF CategoryType
<1>6. weights \in Seq(Nat \ {0}) /\ Len(weights) = Len(categories)
  BY <1>1, <1>5 DEF WeightsOf
<1> HIDE DEF scores, weights, mean
<1>7. scores \in Seq(Int \union {None}) /\ Len(scores) = Len(categories)
  BY <1>1, <1>4
<1>8. Weighable(scores, weights) BY <1>6, <1>7 DEF Weighable
<1>9. Present(scores) = {i \in 1..Len(categories) : Counts(categories[i])}
  BY <1>3, <1>7 DEF Present
<1>10. \A i \in Present(scores) : OnScale(scores[i]) BY <1>3, <1>9
<1>11. mean # None => /\ OnScale(mean)
                      /\ \E i \in Present(scores) : scores[i] <= mean
                      /\ \E i \in Present(scores) : mean <= scores[i]
  BY <1>2, <1>8, <1>10, MeanOnScale
<1>12. \A i \in Present(scores) : /\ i \in 1..Len(categories) /\ Counts(categories[i])
                                 /\ scores[i] = categories[i].score
  BY <1>3, <1>9
<1>13. QED BY <1>11, <1>12 DEF mean

\* Every audit, known to weighting.py or not, has a positive weight.
LEMMA WeightType ==
  \A audit : weight_for(audit) \in Nat \ {0}
BY DEF weight_for, AUDIT_WEIGHTS, Default_Weight

\* The score of a pillar lies between the scores of its members.
LEMMA PillarBetween ==
  ASSUME NEW members, NEW n \in Nat, Len(members) = n, DOMAIN members = 1..n,
         NEW scores, \A a \in DOMAIN scores : scores[a] \in Scores
  PROVE  pillar_score(members, scores) # None =>
           /\ OnScale(pillar_score(members, scores))
           /\ \E i \in 1..n :
                /\ members[i] \in DOMAIN scores /\ scores[members[i]] # None
                /\ scores[members[i]] <= pillar_score(members, scores)
<1> DEFINE of == MemberScores(members, scores)
           weights == MemberWeights(members)
           mean == pillar_score(members, scores)
<1>1. mean = WeightedMean(of, weights) BY DEF pillar_score
<1>2. \A i \in 1..n :
        /\ of[i] \in Scores
        /\ of[i] # None => /\ members[i] \in DOMAIN scores
                           /\ of[i] = scores[members[i]]
  BY DEF MemberScores, Scores
<1>3. DOMAIN of = 1..n /\ of \in [1..n -> Scores] BY <1>2 DEF MemberScores
<1>4. weights \in Seq(Nat \ {0}) /\ Len(weights) = n BY WeightType DEF MemberWeights
<1> HIDE DEF of, weights, mean
<1>5. of \in Seq(Scores) /\ Len(of) = n BY <1>3
<1>6. Scores \subseteq Int \union {None} BY DEF Scores
<1>7. of \in Seq(Int \union {None}) BY <1>5, <1>6, SeqMonotonic
<1>8. Weighable(of, weights) BY <1>4, <1>5, <1>7 DEF Weighable
<1>9. \A i \in Present(of) : /\ OnScale(of[i]) /\ i \in 1..n
                             /\ members[i] \in DOMAIN scores
                             /\ of[i] = scores[members[i]] /\ of[i] # None
  BY <1>2, <1>5 DEF Present, Scores
<1>10. mean # None => OnScale(mean) /\ \E i \in Present(of) : of[i] <= mean
  BY <1>1, <1>8, <1>9, MeanOnScale
<1>11. QED BY <1>9, <1>10 DEF mean

\* What the site score is made of.
ResultScore == [audit : DOMAIN CATALOGUE, categories : Seq(CategoryType), score : Scores,
                completeness : Points100]

\* The site score lies between the scores of the audits.
LEMMA SiteBetween ==
  ASSUME NEW results \in Seq(ResultScore)
  PROVE  SiteScore(results) # None =>
           /\ OnScale(SiteScore(results))
           /\ \E i \in 1..Len(results) :
                results[i].score # None /\ results[i].score <= SiteScore(results)
           /\ \E i \in 1..Len(results) :
                results[i].score # None /\ SiteScore(results) <= results[i].score
<1> DEFINE n == Len(results)
           scores == [i \in DOMAIN results |-> results[i].score]
           weights == [i \in DOMAIN results |-> weight_for(results[i].audit)]
           mean == SiteScore(results)
<1>1. n \in Nat /\ DOMAIN results = 1..n /\ \A i \in 1..n : results[i] \in ResultScore
  OBVIOUS
<1>2. mean = WeightedMean(scores, weights) BY DEF SiteScore, weighted_site_score
<1>3. \A r \in ResultScore : r.score \in Scores BY DEF ResultScore
<1>4. scores \in [1..n -> Scores] /\ \A i \in 1..n : scores[i] = results[i].score
  BY <1>1, <1>3
<1>5. weights \in Seq(Nat \ {0}) /\ Len(weights) = n BY <1>1, WeightType
<1> HIDE DEF scores, weights, mean, n
<1>6. scores \in Seq(Scores) /\ Len(scores) = n BY <1>1, <1>4
<1>7. Scores \subseteq Int \union {None} BY DEF Scores
<1>8. scores \in Seq(Int \union {None}) BY <1>6, <1>7, SeqMonotonic
<1>9. Weighable(scores, weights) BY <1>5, <1>6, <1>8 DEF Weighable
<1>10. \A i \in Present(scores) : /\ OnScale(scores[i]) /\ i \in 1..n
                                 /\ scores[i] = results[i].score /\ scores[i] # None
  BY <1>4, <1>6 DEF Present, Scores
<1>11. mean # None => /\ OnScale(mean) /\ \E i \in Present(scores) : scores[i] <= mean
                      /\ \E i \in Present(scores) : mean <= scores[i]
  BY <1>2, <1>9, <1>10, MeanOnScale
<1>12. QED BY <1>10, <1>11 DEF mean, n

\* A part of a whole, as a percentage that rounds down.
LEMMA PercentOf ==
  ASSUME NEW part \in Nat, NEW whole \in Nat \ {0}, part <= whole
  PROVE  /\ (100 * part) \div whole \in Int
         /\ 0 <= (100 * part) \div whole /\ (100 * part) \div whole <= 100
         /\ (100 * part) \div whole < 50 => 100 * part < 50 * whole
<1>1. /\ 100 * part \in Int /\ 100 * part <= 100 * whole /\ 0 * whole <= 100 * part
      /\ 50 \in Int /\ 100 \in Int
  OBVIOUS
<1>2. (100 * part) \div whole \in Int BY <1>1, Quotient
<1>3. 0 <= (100 * part) \div whole /\ (100 * part) \div whole <= 100
  BY <1>1, QuotientBounds
<1>4. 50 * whole <= 100 * part => 50 <= (100 * part) \div whole
  BY <1>1, QuotientBounds
<1>5. QED BY <1>1, <1>2, <1>3, <1>4

\* The values of a function on a finite set.
LEMMA FiniteImage ==
  ASSUME NEW S, IsFiniteSet(S), NEW f, S \subseteq DOMAIN f
  PROVE  /\ IsFiniteSet({f[x] : x \in S})
         /\ Cardinality({f[x] : x \in S}) <= Cardinality(S)
<1> DEFINE T == {f[x] : x \in S}
           g == [x \in S |-> f[x]]
<1>1. g \in Surjection(S, T)
  <2>1. g \in [S -> T] OBVIOUS
  <2>2. \A y \in T : \E x \in S : g[x] = y OBVIOUS
  <2> HIDE DEF g, T
  <2>3. QED BY <2>1, <2>2 DEF Surjection
<1> HIDE DEF g, T
<1>2. IsFiniteSet(T) /\ Cardinality(T) <= Cardinality(S) BY <1>1, FS_Surjection
<1>3. QED BY <1>2 DEF T

\* The completeness of an audit is a percentage.
LEMMA CompletenessType ==
  ASSUME NEW categories \in Seq(CategoryType)
  PROVE  completeness(categories) \in Points100
<1> DEFINE places(i) == {i} \X {j \in DOMAIN categories[i].checks :
                                  Scored(categories[i].checks[j])}
           counted == {k \in DOMAIN categories : Counts(categories[k])}
           scored == ScoredPlaces(categories)
           observed == {p \in scored : categories[p[1]].checks[p[2]].detection = OBS}
<1>1. IsFiniteSet(counted)
  <2>1. Len(categories) \in Nat /\ DOMAIN categories = 1..Len(categories) OBVIOUS
  <2>2. IsFiniteSet(1..Len(categories)) BY <2>1, FS_Interval
  <2>3. QED BY <2>1, <2>2, FS_Subset
<1>2. ASSUME NEW i \in counted PROVE IsFiniteSet(places(i))
  <2>1. categories[i] \in CategoryType OBVIOUS
  <2>2. categories[i].checks \in Seq(CheckType) BY <2>1 DEF CategoryType
  <2>3. /\ Len(categories[i].checks) \in Nat
        /\ DOMAIN categories[i].checks = 1..Len(categories[i].checks)
    BY <2>2
  <2> DEFINE scoredOf == {j \in DOMAIN categories[i].checks :
                            Scored(categories[i].checks[j])}
  <2>4. IsFiniteSet(scoredOf)
    <3>1. IsFiniteSet(DOMAIN categories[i].checks) BY <2>3, FS_Interval
    <3>2. scoredOf \subseteq DOMAIN categories[i].checks OBVIOUS
    <3> HIDE DEF scoredOf
    <3>3. QED BY <3>1, <3>2, FS_Subset
  <2>5. IsFiniteSet({i}) BY FS_Singleton
  <2> HIDE DEF scoredOf
  <2>6. IsFiniteSet({i} \X scoredOf) BY <2>4, <2>5, FS_Product
  <2>7. QED BY <2>6 DEF scoredOf
<1>3. scored = UNION {places(i) : i \in counted} BY DEF ScoredPlaces
<1>4. IsFiniteSet(scored)
  <2> DEFINE all == {places(i) : i \in counted}
             placed == [i \in counted |-> places(i)]
  <2>1. IsFiniteSet(all)
    <3>1. all = {placed[i] : i \in counted} /\ DOMAIN placed = counted OBVIOUS
    <3> HIDE DEF all, placed, counted
    <3>2. QED BY <1>1, <3>1, FiniteImage
  <2>2. \A P \in all : IsFiniteSet(P) BY <1>2
  <2> HIDE DEF all
  <2>3. IsFiniteSet(UNION all) BY <2>1, <2>2, FS_UNION
  <2>4. QED BY <1>3, <2>3 DEF all
<1> HIDE DEF scored
<1>5. /\ Cardinality(scored) \in Nat /\ Cardinality(observed) \in Nat
      /\ Cardinality(observed) <= Cardinality(scored)
      /\ scored # {} => Cardinality(scored) # 0
  <2>1. observed \subseteq scored OBVIOUS
  <2> HIDE DEF observed
  <2>2. QED BY <1>4, <2>1, FS_Subset, FS_CardinalityType, FS_EmptySet
<1>6. completeness(categories)
        = IF scored = {} THEN 0
          ELSE (100 * Cardinality(observed)) \div Cardinality(scored)
  BY DEF completeness, scored
<1> HIDE DEF observed
<1>7. CASE scored = {}
  BY <1>6, <1>7 DEF Points100
<1>8. CASE scored # {}
  <2> DEFINE part == Cardinality(observed)
             whole == Cardinality(scored)
  <2>1. part \in Nat /\ whole \in Nat \ {0} /\ part <= whole BY <1>5, <1>8
  <2> HIDE DEF part, whole
  <2>2. /\ (100 * part) \div whole \in Int
        /\ 0 <= (100 * part) \div whole /\ (100 * part) \div whole <= 100
    BY <2>1, PercentOf
  <2> DEFINE share == (100 * part) \div whole
  <2>3. share \in Int /\ 0 <= share /\ share <= 100 BY <2>2
  <2>4. completeness(categories) = share BY <1>6, <1>8 DEF part, whole
  <2> HIDE DEF share
  <2>5. share \in Points100 BY <2>3 DEF Points100
  <2>6. QED BY <2>4, <2>5
<1>9. QED BY <1>7, <1>8

(***************************************************************************)
(* The ranking                                                             *)
(***************************************************************************)
\* A strict total order of a finite set gives every member a place of its own.
LEMMA PlacesAreDistinct ==
  ASSUME NEW S, IsFiniteSet(S), NEW R,
         \A d \in S : <<d, d>> \notin R,
         \A c, d, e \in S : <<c, d>> \in R /\ <<d, e>> \in R => <<c, e>> \in R,
         \A d, e \in S : d # e => <<d, e>> \in R \/ <<e, d>> \in R,
         NEW place,
         place = [e \in S |-> Cardinality({d \in S : <<d, e>> \in R}) + 1]
  PROVE  /\ place \in Bijection(S, 1..Cardinality(S))
         /\ \A d, e \in S : <<d, e>> \in R <=> place[d] < place[e]
<1> DEFINE below(e) == {d \in S : <<d, e>> \in R}
           N == Cardinality(S)
<1>1. N \in Nat BY FS_CardinalityType
<1>2. ASSUME NEW e \in S
      PROVE  /\ IsFiniteSet(below(e)) /\ Cardinality(below(e)) \in Nat
             /\ place[e] = Cardinality(below(e)) + 1
  <2>1. below(e) \in SUBSET S OBVIOUS
  <2>2. place[e] = Cardinality(below(e)) + 1 OBVIOUS
  <2> HIDE DEF below
  <2>3. QED BY <2>1, <2>2, FS_Subset, FS_CardinalityType
<1>3. ASSUME NEW e \in S PROVE place[e] \in 1..N
  <2>1. below(e) \in SUBSET (S \ {e}) OBVIOUS
  <2>2. IsFiniteSet(S \ {e}) /\ Cardinality(S \ {e}) = N - 1 BY FS_RemoveElement
  <2> HIDE DEF below
  <2>3. Cardinality(below(e)) <= N - 1 BY <2>1, <2>2, FS_Subset
  <2>4. QED BY <1>1, <1>2, <2>3
<1>4. ASSUME NEW d \in S, NEW e \in S, <<d, e>> \in R PROVE place[d] < place[e]
  <2>1. below(d) \union {d} \in SUBSET below(e) /\ d \notin below(d) BY <1>4
  <2> HIDE DEF below
  <2>2. Cardinality(below(d) \union {d}) = Cardinality(below(d)) + 1
    BY <1>2, <2>1, FS_AddElement
  <2>3. Cardinality(below(d) \union {d}) <= Cardinality(below(e))
    BY <1>2, <2>1, FS_Subset
  <2>4. QED BY <1>2, <2>2, <2>3
<1>5. \A d, e \in S : <<d, e>> \in R <=> place[d] < place[e]
  <2>1. SUFFICES ASSUME NEW d \in S, NEW e \in S, place[d] < place[e]
                 PROVE  <<d, e>> \in R
    BY <1>4
  <2>2. place[d] \in Int /\ place[e] \in Int BY <1>3
  <2>3. d # e BY <2>1, <2>2
  <2>4. ASSUME <<e, d>> \in R PROVE FALSE
    <3>1. place[e] < place[d] BY <1>4, <2>4
    <3>2. QED BY <2>1, <2>2, <3>1
  <2>5. QED BY <2>3, <2>4
<1>6. place \in Injection(S, 1..N)
  <2>1. place \in [S -> 1..N] BY <1>3
  <2>2. \A d, e \in S : place[d] = place[e] => d = e
    <3>1. SUFFICES ASSUME NEW d \in S, NEW e \in S, place[d] = place[e], d # e
                   PROVE  FALSE
      OBVIOUS
    <3>2. place[d] \in Int /\ place[e] \in Int BY <1>3
    <3>3. place[d] < place[e] \/ place[e] < place[d] BY <1>4, <3>1
    <3>4. QED BY <3>1, <3>2, <3>3
  <2>3. QED BY <2>1, <2>2 DEF Injection, IsInjective
<1>7. IsFiniteSet(1..N) /\ Cardinality(1..N) = N BY <1>1, FS_Interval
<1>8. place \in Surjection(S, 1..N) BY <1>6, <1>7, FS_Injection
<1>9. QED BY <1>5, <1>6, <1>8 DEF Bijection

\* A key of n numbers, which can be compared with others of its kind.
IsSortKey(s, n) == DOMAIN s = 1..n /\ \A k \in 1..n : s[k] \in Int

\* Precedes orders keys strictly, and any two that differ somewhere.
LEMMA PrecedesOrders ==
  ASSUME NEW n \in Nat
  PROVE  /\ \A s : IsSortKey(s, n) => ~Precedes(s, s)
         /\ \A s, t, u : /\ IsSortKey(s, n) /\ IsSortKey(t, n) /\ IsSortKey(u, n)
                         /\ Precedes(s, t) /\ Precedes(t, u)
                         => Precedes(s, u)
         /\ \A s, t : /\ IsSortKey(s, n) /\ IsSortKey(t, n)
                      /\ \E k \in 1..n : s[k] # t[k]
                      => Precedes(s, t) \/ Precedes(t, s)
<1>1. ASSUME NEW s, IsSortKey(s, n) PROVE ~Precedes(s, s)
  BY <1>1 DEF IsSortKey, Precedes
<1>2. ASSUME NEW s, NEW t, NEW u, IsSortKey(s, n), IsSortKey(t, n), IsSortKey(u, n),
             Precedes(s, t), Precedes(t, u)
      PROVE  Precedes(s, u)
  <2>1. PICK k \in 1..n : s[k] < t[k] /\ \A j \in 1..(k - 1) : s[j] = t[j]
    BY <1>2 DEF IsSortKey, Precedes
  <2>2. PICK m \in 1..n : t[m] < u[m] /\ \A j \in 1..(m - 1) : t[j] = u[j]
    BY <1>2 DEF IsSortKey, Precedes
  <2>3. \A j \in 1..n : s[j] \in Int /\ t[j] \in Int /\ u[j] \in Int
    BY <1>2 DEF IsSortKey
  <2>4. k \in Int /\ m \in Int OBVIOUS
  <2>5. CASE k <= m
    <3>1. s[k] < u[k]
      <4>1. CASE k = m BY <2>1, <2>2, <2>3, <4>1
      <4>2. CASE k < m
        <5>1. k \in 1..(m - 1) BY <2>4, <4>2
        <5>2. QED BY <2>1, <2>2, <5>1
      <4>3. QED BY <2>4, <2>5, <4>1, <4>2
    <3>2. \A j \in 1..(k - 1) : s[j] = u[j]
      <4>1. \A j \in 1..(k - 1) : j \in 1..(m - 1) BY <2>4, <2>5
      <4>2. QED BY <2>1, <2>2, <4>1
    <3>3. QED BY <1>2, <3>1, <3>2 DEF IsSortKey, Precedes
  <2>6. CASE m < k
    <3>1. m \in 1..(k - 1) BY <2>4, <2>6
    <3>2. s[m] < u[m] BY <2>1, <2>2, <3>1
    <3>3. \A j \in 1..(m - 1) : s[j] = u[j]
      <4>1. \A j \in 1..(m - 1) : j \in 1..(k - 1) BY <2>4, <2>6
      <4>2. QED BY <2>1, <2>2, <4>1
    <3>4. QED BY <1>2, <3>2, <3>3 DEF IsSortKey, Precedes
  <2>7. QED BY <2>4, <2>5, <2>6
<1>3. ASSUME NEW s, NEW t, IsSortKey(s, n), IsSortKey(t, n),
             \E k \in 1..n : s[k] # t[k]
      PROVE  Precedes(s, t) \/ Precedes(t, s)
  <2> DEFINE apart == {k \in 1..n : s[k] # t[k]}
             first == Min(apart)
  <2>1. apart \in SUBSET Nat /\ apart # {} BY <1>3
  <2>2. first \in apart /\ \A j \in apart : first <= j BY <2>1, LeastElement
  <2>3. \A j \in 1..(first - 1) : s[j] = t[j]
    <3>1. \A j \in 1..(first - 1) : j \in 1..n /\ ~(first <= j)
      BY <2>2
    <3>2. QED BY <2>2, <3>1
  <2>4. first \in 1..n /\ s[first] # t[first] BY <2>2
  <2> HIDE DEF first, apart
  <2>5. s[first] < t[first] \/ t[first] < s[first] BY <1>3, <2>4 DEF IsSortKey
  <2>6. QED BY <1>3, <2>3, <2>4, <2>5 DEF IsSortKey, Precedes
<1>4. QED BY <1>1, <1>2, <1>3

\* The keys of the members of S are in a strict total order.
Ordered(S, entry) ==
    /\ \A d \in S : ~Precedes(entry[d].key, entry[d].key)
    /\ \A c, d, e \in S :
         /\ Precedes(entry[c].key, entry[d].key)
         /\ Precedes(entry[d].key, entry[e].key)
         => Precedes(entry[c].key, entry[e].key)
    /\ \A d, e \in S : d # e => \/ Precedes(entry[d].key, entry[e].key)
                                \/ Precedes(entry[e].key, entry[d].key)

\* Keys of n numbers that differ somewhere order their owners.
LEMMA KeysOrder ==
  ASSUME NEW n \in Nat, NEW S, NEW entry,
         \A d \in S : IsSortKey(entry[d].key, n),
         \A d, e \in S : d # e => \E k \in 1..n : entry[d].key[k] # entry[e].key[k]
  PROVE  Ordered(S, entry)
<1>1. \A d \in S : ~Precedes(entry[d].key, entry[d].key) BY PrecedesOrders
<1>2. ASSUME NEW c \in S, NEW d \in S, NEW e \in S,
             Precedes(entry[c].key, entry[d].key),
             Precedes(entry[d].key, entry[e].key)
      PROVE  Precedes(entry[c].key, entry[e].key)
  <2>1. /\ IsSortKey(entry[c].key, n) /\ IsSortKey(entry[d].key, n)
        /\ IsSortKey(entry[e].key, n)
    OBVIOUS
  <2>2. QED BY <1>2, <2>1, PrecedesOrders
<1>3. ASSUME NEW d \in S, NEW e \in S, d # e
      PROVE  \/ Precedes(entry[d].key, entry[e].key)
             \/ Precedes(entry[e].key, entry[d].key)
  <2>1. IsSortKey(entry[d].key, n) /\ IsSortKey(entry[e].key, n) OBVIOUS
  <2>2. \E k \in 1..n : entry[d].key[k] # entry[e].key[k] BY <1>3
  <2>3. QED BY <2>1, <2>2, PrecedesOrders
<1>4. QED BY <1>1, <1>2, <1>3 DEF Ordered

\* The list has the item of every member of S at one place of its own, `at`
\* says whose, and the places are in the order of the keys.
Placed(list, S, entry, at) ==
    LET count == Cardinality(S)
    IN  /\ IsFiniteSet(S) /\ count \in Nat
        /\ DOMAIN list = 1..count /\ Len(list) = count
        /\ at \in Bijection(1..count, S)
        /\ \A n \in 1..count : list[n] = entry[at[n]].item
        /\ \A m, n \in 1..count :
             m < n <=> Precedes(entry[at[m]].key, entry[at[n]].key)

\* InOrder sorts: it loses no entry, shows none twice and keeps their order.
LEMMA InOrderPlaces ==
  ASSUME NEW S, IsFiniteSet(S), NEW entry, Ordered(S, entry)
  PROVE  \E at : Placed(InOrder({entry[i] : i \in S}), S, entry, at)
<1> DEFINE entries == {entry[i] : i \in S}
           R == {p \in entries \X entries : Precedes(p[1].key, p[2].key)}
           count == Cardinality(S)
           list == InOrder(entries)
<1>1. count \in Nat BY FS_CardinalityType
<1>2. \A i, j \in S : entry[i] = entry[j] => i = j
  <2>1. SUFFICES ASSUME NEW i \in S, NEW j \in S, entry[i] = entry[j], i # j
                 PROVE  FALSE
    OBVIOUS
  <2>2. \/ Precedes(entry[i].key, entry[j].key)
        \/ Precedes(entry[j].key, entry[i].key)
    BY <2>1 DEF Ordered
  <2>3. ~Precedes(entry[i].key, entry[i].key) BY DEF Ordered
  <2>4. QED BY <2>1, <2>2, <2>3
<1>3. \A e \in entries : \E i \in S : e = entry[i] OBVIOUS
<1>4. IsFiniteSet(entries) /\ Cardinality(entries) = count
  <2> DEFINE f == [i \in S |-> entry[i]]
  <2>1. f \in [S -> entries] /\ \A i \in S : f[i] = entry[i] OBVIOUS
  <2> HIDE DEF f, entries
  <2>2. f \in Bijection(S, entries)
    <3>1. \A i, j \in S : f[i] = f[j] => i = j BY <1>2, <2>1
    <3>2. \A e \in entries : \E i \in S : f[i] = e BY <1>3, <2>1
    <3>3. QED BY <2>1, <3>1, <3>2 DEF Bijection, Injection, Surjection, IsInjective
  <2>3. ExistsBijection(S, entries) BY <2>2 DEF ExistsBijection
  <2>4. QED BY <2>3, FS_Bijection
<1>5. \A d, e \in entries : <<d, e>> \in R <=> Precedes(d.key, e.key) OBVIOUS
<1> DEFINE place == [e \in entries |->
                       Cardinality({d \in entries : <<d, e>> \in R}) + 1]
<1>6. /\ place \in Bijection(entries, 1..count)
      /\ \A d, e \in entries : <<d, e>> \in R <=> place[d] < place[e]
  <2>1. \A e \in entries : <<e, e>> \notin R
    <3>1. SUFFICES ASSUME NEW e \in entries PROVE <<e, e>> \notin R OBVIOUS
    <3>2. PICK i \in S : e = entry[i] BY <1>3
    <3> HIDE DEF R, entries
    <3>3. ~Precedes(e.key, e.key) BY <3>2 DEF Ordered
    <3>4. QED BY <1>5, <3>3
  <2>2. \A c, d, e \in entries : <<c, d>> \in R /\ <<d, e>> \in R => <<c, e>> \in R
    <3>1. SUFFICES ASSUME NEW c \in entries, NEW d \in entries, NEW e \in entries,
                          <<c, d>> \in R, <<d, e>> \in R
                   PROVE  <<c, e>> \in R
      OBVIOUS
    <3>2. PICK i \in S : c = entry[i] BY <1>3
    <3>3. PICK j \in S : d = entry[j] BY <1>3
    <3>4. PICK k \in S : e = entry[k] BY <1>3
    <3> HIDE DEF R, entries
    <3>5. Precedes(c.key, d.key) /\ Precedes(d.key, e.key) BY <1>5, <3>1
    <3>6. Precedes(c.key, e.key) BY <3>2, <3>3, <3>4, <3>5 DEF Ordered
    <3>7. QED BY <1>5, <3>6
  <2>3. \A d, e \in entries : d # e => <<d, e>> \in R \/ <<e, d>> \in R
    <3>1. SUFFICES ASSUME NEW d \in entries, NEW e \in entries, d # e
                   PROVE  <<d, e>> \in R \/ <<e, d>> \in R
      OBVIOUS
    <3>2. PICK i \in S : d = entry[i] BY <1>3
    <3>3. PICK j \in S : e = entry[j] BY <1>3
    <3> HIDE DEF R, entries
    <3>4. Precedes(d.key, e.key) \/ Precedes(e.key, d.key)
      BY <3>1, <3>2, <3>3 DEF Ordered
    <3>5. QED BY <1>5, <3>4
  <2> HIDE DEF entries, R, place
  <2>4. place = [e \in entries |-> Cardinality({d \in entries : <<d, e>> \in R}) + 1]
    BY DEF place
  <2>5. /\ place \in Bijection(entries, 1..Cardinality(entries))
        /\ \A d, e \in entries : <<d, e>> \in R <=> place[d] < place[e]
    BY <1>4, <2>1, <2>2, <2>3, <2>4, PlacesAreDistinct
  <2>6. QED BY <1>4, <2>5
<1>7. \A e \in entries : place[e] = Cardinality({d \in entries : Precedes(d.key, e.key)}) + 1
  <2>1. ASSUME NEW e \in entries
        PROVE  {d \in entries : <<d, e>> \in R} = {d \in entries : Precedes(d.key, e.key)}
    BY <1>5
  <2>2. QED BY <2>1
<1> DEFINE placed == {[item |-> e.item, place |-> place[e]] : e \in entries}
<1>8. list = [n \in 1..count |-> (CHOOSE p \in placed : p.place = n).item]
  <2> DEFINE rank(e) == Cardinality({d \in entries : Precedes(d.key, e.key)}) + 1
             ranks == {[item |-> e.item, place |-> rank(e)] : e \in entries}
  <2>1. list = [n \in 1..Cardinality(entries) |->
                  (CHOOSE p \in ranks : p.place = n).item]
    BY DEF InOrder
  <2> HIDE DEF entries, place
  <2>2. ranks = placed BY <1>7
  <2> HIDE DEF placed, ranks, list, count
  <2>3. QED BY <1>4, <2>1, <2>2
<1> DEFINE at == [n \in 1..count |-> CHOOSE i \in S : place[entry[i]] = n]
<1>9. ASSUME NEW n \in 1..count
      PROVE  at[n] \in S /\ place[entry[at[n]]] = n
  <2>1. \E e \in entries : place[e] = n BY <1>6 DEF Bijection, Surjection
  <2>2. \E i \in S : place[entry[i]] = n BY <2>1
  <2> HIDE DEF place
  <2>3. QED BY <2>2
<1>10. \A e \in entries : place[e] \in 1..count
  BY <1>6 DEF Bijection, Injection
<1>11. \A d, e \in entries : place[d] = place[e] => d = e
  BY <1>6 DEF Bijection, Injection, IsInjective
<1>12. \A i \in S : entry[i] \in entries OBVIOUS
<1> HIDE DEF entries, place, R
<1>13. ASSUME NEW n \in 1..count PROVE list[n] = entry[at[n]].item
  <2> DEFINE chosen == CHOOSE p \in placed : p.place = n
  <2>1. entry[at[n]] \in entries BY <1>9, <1>12
  <2> HIDE DEF at, count
  <2>2. \E p \in placed : p.place = n
    <3>1. [item |-> entry[at[n]].item, place |-> place[entry[at[n]]]] \in placed
      BY <2>1
    <3>2. QED BY <1>9, <3>1
  <2>3. chosen \in placed /\ chosen.place = n BY <2>2
  <2>4. PICK e \in entries : chosen = [item |-> e.item, place |-> place[e]] BY <2>3
  <2>5. place[e] = n /\ chosen.item = e.item
    <3> HIDE DEF chosen, placed
    <3>1. QED BY <2>3, <2>4
  <2>6. e = entry[at[n]] BY <1>9, <1>11, <2>1, <2>5
  <2>7. list[n] = chosen.item BY <1>8
  <2>8. QED BY <2>5, <2>6, <2>7
<1>14. at \in Bijection(1..count, S)
  <2>1. at \in [1..count -> S] BY <1>9
  <2>2. \A m, n \in 1..count : at[m] = at[n] => m = n BY <1>9
  <2>3. \A i \in S : \E n \in 1..count : at[n] = i
    <3>1. SUFFICES ASSUME NEW i \in S PROVE \E n \in 1..count : at[n] = i OBVIOUS
    <3>2. place[entry[i]] \in 1..count BY <1>10, <1>12
    <3> DEFINE n == place[entry[i]]
    <3>3. at[n] \in S /\ place[entry[at[n]]] = n BY <1>9, <3>2
    <3>4. entry[at[n]] = entry[i] BY <1>11, <1>12, <3>3
    <3>5. at[n] = i BY <1>2, <3>3, <3>4
    <3>6. QED BY <3>2, <3>5
  <2> HIDE DEF at
  <2>4. QED BY <2>1, <2>2, <2>3 DEF Bijection, Injection, Surjection, IsInjective
<1>15. ASSUME NEW m \in 1..count, NEW n \in 1..count
       PROVE  m < n <=> Precedes(entry[at[m]].key, entry[at[n]].key)
  <2>1. /\ at[m] \in S /\ place[entry[at[m]]] = m
        /\ at[n] \in S /\ place[entry[at[n]]] = n
    BY <1>9
  <2>2. m < n <=> <<entry[at[m]], entry[at[n]]>> \in R BY <1>6, <1>12, <2>1
  <2>3. <<entry[at[m]], entry[at[n]]>> \in R
          <=> Precedes(entry[at[m]].key, entry[at[n]].key)
    BY <1>5, <1>12, <2>1
  <2>4. QED BY <2>2, <2>3
<1>16. DOMAIN list = 1..count /\ Len(list) = count BY <1>1, <1>8
<1> HIDE DEF list, at, count
<1>17. Placed(list, S, entry, at)
  BY <1>1, <1>13, <1>14, <1>15, <1>16 DEF Placed, count
<1>18. QED BY <1>17 DEF list, entries

\* What the ranking needs of a finding, whichever audit made it.
Sortable(finding) ==
    /\ finding.audit \in DOMAIN CATALOGUE
    /\ finding.check.severity \in DOMAIN SEVERITY_RANK

\* The row of a listed finding rates its impact and its effort.
LEMMA ListedRow ==
  ASSUME NEW finding, Sortable(finding), Listed(finding)
  PROVE  /\ row_of(finding.audit, finding.check.key) \in Nat \ {0}
         /\ lookup(finding.audit, finding.check.key).impact \in 1..5
         /\ lookup(finding.audit, finding.check.key).effort \in 1..3
<1> DEFINE audit == finding.audit
           row == row_of(audit, finding.check.key)
           entry == lookup(audit, finding.check.key)
<1>1. audit \in DOMAIN CATALOGUE BY DEF Sortable
<1>2. GoodRows(audit)
  BY <1>1, AnalyticsRows, BuildSecurityRows, ComplianceRows, ContentQualityRows,
     ContentStrategyRows, GeoRows, MessagingRows, OnPageSeoRows, PerformanceRows,
     SchemaRows, TechnicalSeoRows DEF CATALOGUE
<1>3. row \in 0..Len(CATALOGUE[audit]) BY <1>2, RowPlace DEF GoodRows
<1>4. row # 0 BY DEF Listed, lookup
<1>5. row \in 1..Len(CATALOGUE[audit]) BY <1>2, <1>3, <1>4 DEF GoodRows
<1>6. entry = [impact |-> CATALOGUE[audit][row][2], effort |-> CATALOGUE[audit][row][3]]
  BY <1>4 DEF lookup
<1>7. CATALOGUE[audit][row][2] \in 1..5 /\ CATALOGUE[audit][row][3] \in 1..3
  BY <1>2, <1>5 DEF GoodRows
<1> HIDE DEF entry, row
<1>8. entry.impact \in 1..5 /\ entry.effort \in 1..3 BY <1>6, <1>7
<1>9. row \in Nat \ {0} BY <1>2, <1>5 DEF GoodRows
<1>10. QED BY <1>8, <1>9 DEF entry, row, audit

\* The keys of listed findings can be compared, and end with their places.
LEMMA SortKeyType ==
  ASSUME NEW findings, NEW i \in Nat, Sortable(findings[i]), Listed(findings[i])
  PROVE  IsSortKey(SortKey(findings, i), 7) /\ SortKey(findings, i)[7] = i
<1> DEFINE f == findings[i]
           entry == lookup(f.audit, f.check.key)
           a == 0 - entry.impact
           b == entry.effort
           c == SEVERITY_RANK[f.check.severity]
           audit == SelectInSeq(AuditsByName, LAMBDA x : x = f.audit)
           r == row_of(f.audit, f.check.key)
           own == SelectInSeq(ComponentsByName, LAMBDA x : x = f.check.key)
<1>1. SortKey(findings, i) = <<a, b, c, audit, r, own, i>> BY DEF SortKey
<1>2. audit \in Int
  <2> DEFINE named == {n \in 1..Len(AuditsByName) : AuditsByName[n] = f.audit}
  <2>1. Len(AuditsByName) \in Nat BY DEF AuditsByName
  <2>2. audit = FirstOf(named) BY DEF SelectInSeq, FirstOf
  <2>3. named \in SUBSET (1..Len(AuditsByName)) OBVIOUS
  <2> HIDE DEF named, audit
  <2>4. QED BY <2>1, <2>2, <2>3, FirstPlace
<1>3. own \in Int
  <2> DEFINE named == {n \in 1..Len(ComponentsByName) : ComponentsByName[n] = f.check.key}
  <2>1. Len(ComponentsByName) \in Nat BY DEF ComponentsByName
  <2>2. own = FirstOf(named) BY DEF SelectInSeq, FirstOf
  <2>3. named \in SUBSET (1..Len(ComponentsByName)) OBVIOUS
  <2> HIDE DEF named, own
  <2>4. QED BY <2>1, <2>2, <2>3, FirstPlace
<1>4. c \in Int BY DEF Sortable, SEVERITY_RANK
<1>5. r \in Int /\ entry.impact \in Int /\ entry.effort \in Int BY ListedRow
<1> HIDE DEF entry
<1>6. a \in Int /\ b \in Int BY <1>5
<1> HIDE DEF a, b, c, r, audit, own
<1>7. QED BY <1>1, <1>2, <1>3, <1>4, <1>5, <1>6 DEF IsSortKey

\* The places of the findings that the action list shows.
ListedPlaces(findings) == {i \in DOMAIN findings : Listed(findings[i])}

\* What the ranking sorts: the item and the key of every listed finding.
RankEntry(findings) ==
    [i \in ListedPlaces(findings) |-> [item |-> ActionItem(findings[i]),
                                       key |-> SortKey(findings, i)]]

\* An action list: the items of the listed findings, each at a place of its
\* own, in the order of their keys.
Ranked(list, findings, at) ==
    LET count == Cardinality(ListedPlaces(findings))
    IN  /\ IsFiniteSet(ListedPlaces(findings))
        /\ DOMAIN list = 1..count /\ Len(list) = count /\ count \in Nat
        /\ at \in Bijection(1..count, ListedPlaces(findings))
        /\ \A n \in 1..count : list[n] = ActionItem(findings[at[n]])
        /\ \A m, n \in 1..count :
             m < n <=> Precedes(SortKey(findings, at[m]), SortKey(findings, at[n]))

\* The action list shows every finding that fails or warns and that the
\* catalogue explains exactly once, in the order of the keys.
THEOREM Ranking ==
  ASSUME NEW findings, NEW length \in Nat, DOMAIN findings = 1..length,
         \A i \in 1..length : Sortable(findings[i])
  PROVE  \E at : Ranked(rank_findings(findings), findings, at)
<1> DEFINE S == ListedPlaces(findings)
           entry == RankEntry(findings)
           count == Cardinality(S)
           list == rank_findings(findings)
<1>1. IsFiniteSet(S)
  <2>1. S \in SUBSET (1..length) BY DEF ListedPlaces
  <2>2. IsFiniteSet(1..length) BY FS_Interval
  <2>3. QED BY <2>1, <2>2, FS_Subset
<1>2. \A i \in S : /\ entry[i].item = ActionItem(findings[i])
                   /\ entry[i].key = SortKey(findings, i)
  BY DEF RankEntry
<1>3. \A i \in S : /\ IsSortKey(entry[i].key, 7)
                   /\ entry[i].key[7] = i
  BY <1>2, SortKeyType DEF ListedPlaces
<1>4. list = InOrder({entry[i] : i \in S})
  <2> DEFINE made == {[item |-> ActionItem(findings[i]), key |-> SortKey(findings, i)] :
                        i \in {k \in DOMAIN findings : Listed(findings[k])}}
  <2>1. made = {entry[i] : i \in S} BY DEF ListedPlaces, RankEntry
  <2>2. list = InOrder(made) BY DEF rank_findings
  <2>3. QED BY <2>1, <2>2
<1> HIDE DEF entry, S, list
<1>5. Ordered(S, entry)
  <2>1. \A d, e \in S : d # e => \E k \in 1..7 : entry[d].key[k] # entry[e].key[k]
    <3>1. 7 \in 1..7 OBVIOUS
    <3>2. QED BY <1>3, <3>1
  <2>2. 7 \in Nat OBVIOUS
  <2>3. QED BY <1>3, <2>1, <2>2, KeysOrder
<1>6. PICK at : Placed(list, S, entry, at) BY <1>1, <1>4, <1>5, InOrderPlaces
<1>7. /\ count \in Nat /\ DOMAIN list = 1..count /\ Len(list) = count
      /\ at \in Bijection(1..count, S)
      /\ \A n \in 1..count : list[n] = entry[at[n]].item
      /\ \A m, n \in 1..count :
           m < n <=> Precedes(entry[at[m]].key, entry[at[n]].key)
  BY <1>6 DEF Placed
<1>8. \A n \in 1..count : at[n] \in S BY <1>7 DEF Bijection, Injection
<1> HIDE DEF count
<1>9. /\ \A n \in 1..count : list[n] = ActionItem(findings[at[n]])
      /\ \A m, n \in 1..count :
           m < n <=> Precedes(SortKey(findings, at[m]), SortKey(findings, at[n]))
  BY <1>2, <1>7, <1>8
<1>10. QED BY <1>1, <1>7, <1>9 DEF Ranked, S, count, list

(***************************************************************************)
(* What leads the owner's page                                             *)
(***************************************************************************)
\* The checks of the highest impact and the least effort.
Urgent ==
    {<<"analytics", "web_analytics">>, <<"build_security", "exposed_paths">>,
     <<"build_security", "tls_valid">>, <<"technical_seo", "homepage_indexable">>}

Secrets == {"exposed_paths", "tls_valid"}

\* A row that rates its check as urgent exactly when it should, secrets among
\* them.
Rated(audit, row) ==
    /\ row[2] = 5 /\ row[3] = 1 => <<audit, row[1]>> \in Urgent
    /\ row[1] \in Secrets => audit = "build_security" /\ row[2] = 5 /\ row[3] = 1

\* Every row of the catalogue does.
LEMMA RowsRated ==
  \A audit \in DOMAIN CATALOGUE : \A i \in 1..Len(CATALOGUE[audit]) :
    Rated(audit, CATALOGUE[audit][i])
<1>1. \A i \in 1..Len(analytics_entries) : Rated("analytics", analytics_entries[i])
  BY DEF analytics_entries, Rated, Urgent, Secrets
<1>2. \A i \in 1..Len(build_security_entries) :
        Rated("build_security", build_security_entries[i])
  BY SMTT(30) DEF build_security_entries, Rated, Urgent, Secrets
<1>3. \A i \in 1..Len(compliance_entries) : Rated("compliance", compliance_entries[i])
  BY DEF compliance_entries, Rated, Urgent, Secrets
<1>4. \A i \in 1..Len(content_quality_entries) :
        Rated("content_quality", content_quality_entries[i])
  BY DEF content_quality_entries, Rated, Urgent, Secrets
<1>5. \A i \in 1..Len(content_strategy_entries) :
        Rated("content_strategy", content_strategy_entries[i])
  BY DEF content_strategy_entries, Rated, Urgent, Secrets
<1>6. \A i \in 1..Len(geo_entries) : Rated("geo", geo_entries[i])
  BY DEF geo_entries, Rated, Urgent, Secrets
<1>7. \A i \in 1..Len(messaging_entries) : Rated("messaging", messaging_entries[i])
  BY DEF messaging_entries, Rated, Urgent, Secrets
<1>8. \A i \in 1..Len(on_page_seo_entries) : Rated("on_page_seo", on_page_seo_entries[i])
  BY DEF on_page_seo_entries, Rated, Urgent, Secrets
<1>9. \A i \in 1..Len(performance_entries) : Rated("performance", performance_entries[i])
  BY DEF performance_entries, Rated, Urgent, Secrets
<1>10. \A i \in 1..Len(schema_entries) : Rated("schema", schema_entries[i])
  BY DEF schema_entries, Rated, Urgent, Secrets
<1>11. \A i \in 1..Len(technical_seo_entries) :
         Rated("technical_seo", technical_seo_entries[i])
  BY DEF technical_seo_entries, Rated, Urgent, Secrets
<1>12. QED
  BY <1>1, <1>2, <1>3, <1>4, <1>5, <1>6, <1>7, <1>8, <1>9, <1>10, <1>11 DEF CATALOGUE

\* The row of an explained check names it or its family.
LEMMA RowNames ==
  ASSUME NEW audit, Len(CATALOGUE[audit]) \in Nat, NEW key, row_of(audit, key) # 0
  PROVE  LET row == CATALOGUE[audit][row_of(audit, key)]
         IN  /\ row_of(audit, key) \in 1..Len(CATALOGUE[audit])
             /\ \/ row[1] = key
                \/ row[1] \in DOMAIN FAMILIES /\ key \in FAMILIES[row[1]]
<1> DEFINE n == Len(CATALOGUE[audit])
           exact == {i \in 1..n : CATALOGUE[audit][i][1] = key}
           family == {i \in 1..n : /\ CATALOGUE[audit][i][1] \in DOMAIN FAMILIES
                                   /\ key \in FAMILIES[CATALOGUE[audit][i][1]]}
           place == row_of(audit, key)
<1>0. n \in Nat OBVIOUS
<1>1. place = IF FirstOf(exact) # 0 THEN FirstOf(exact) ELSE FirstOf(family)
  BY DEF row_of, SelectInSeq, FirstOf
<1>2. exact \in SUBSET (1..n) /\ family \in SUBSET (1..n) OBVIOUS
<1>3. place # 0 OBVIOUS
<1> HIDE DEF exact, family, place
<1>4. /\ exact # {} => FirstOf(exact) \in exact
      /\ exact = {} => FirstOf(exact) = 0
      /\ family # {} => FirstOf(family) \in family
      /\ family = {} => FirstOf(family) = 0
  BY <1>0, <1>2, FirstPlace
<1>5. place \in exact \/ place \in family BY <1>1, <1>3, <1>4
<1>6. place \in 1..n BY <1>2, <1>5
<1>7. \/ CATALOGUE[audit][place][1] = key
      \/ /\ CATALOGUE[audit][place][1] \in DOMAIN FAMILIES
         /\ key \in FAMILIES[CATALOGUE[audit][place][1]]
  BY <1>5 DEF exact, family
<1>8. QED BY <1>6, <1>7 DEF place

\* The urgent checks are the four, and the secrets are two of them.
LEMMA UrgentChecks ==
  ASSUME NEW audit \in DOMAIN CATALOGUE, NEW key \in Explained(audit)
  PROVE  LET entry == lookup(audit, key)
         IN  /\ entry.impact = 5 /\ entry.effort = 1 => <<audit, key>> \in Urgent
             /\ key \in Secrets => /\ audit = "build_security"
                                   /\ entry.impact = 5 /\ entry.effort = 1
<1> DEFINE place == row_of(audit, key)
           row == CATALOGUE[audit][place]
           entry == lookup(audit, key)
<1>1. Len(CATALOGUE[audit]) \in Nat
  BY AnalyticsRows, BuildSecurityRows, ComplianceRows, ContentQualityRows,
     ContentStrategyRows, GeoRows, MessagingRows, OnPageSeoRows, PerformanceRows,
     SchemaRows, TechnicalSeoRows DEF CATALOGUE, GoodRows
<1>2. place # 0 BY DEF Explained
<1>3. /\ place \in 1..Len(CATALOGUE[audit])
      /\ row[1] = key \/ (row[1] \in DOMAIN FAMILIES /\ key \in FAMILIES[row[1]])
  BY <1>1, <1>2, RowNames
<1>4. Rated(audit, row) BY <1>3, RowsRated
<1>5. entry.impact = row[2] /\ entry.effort = row[3] BY <1>2 DEF lookup
<1> HIDE DEF place, row, entry
<1>6. row[1] \in DOMAIN FAMILIES => row[1] = "component_" BY DEF FAMILIES
<1>7. key \in FAMILIES["component_"] => key \notin Secrets
  BY DEF FAMILIES, component_key, Secrets
<1>8. <<audit, "component_">> \notin Urgent BY DEF Urgent
<1>9. QED BY <1>3, <1>4, <1>5, <1>6, <1>7, <1>8 DEF Rated, entry

\* One element more.
LEMMA OneMore ==
  ASSUME NEW S, NEW n \in Nat, IsFiniteSet(S), Cardinality(S) <= n, NEW e
  PROVE  IsFiniteSet(S \union {e}) /\ Cardinality(S \union {e}) <= n + 1
<1>1. Cardinality(S) \in Nat BY FS_CardinalityType
<1>2. /\ IsFiniteSet(S \union {e})
      /\ \/ Cardinality(S \union {e}) = Cardinality(S)
         \/ Cardinality(S \union {e}) = Cardinality(S) + 1
  BY FS_AddElement
<1>3. QED BY <1>1, <1>2

\* There are four urgent checks at most.
LEMMA UrgentCount == IsFiniteSet(Urgent) /\ Cardinality(Urgent) <= 4
<1> DEFINE a == <<"analytics", "web_analytics">>
           b == <<"build_security", "exposed_paths">>
           c == <<"build_security", "tls_valid">>
           d == <<"technical_seo", "homepage_indexable">>
<1>1. Urgent = (({a} \union {b}) \union {c}) \union {d} BY DEF Urgent
<1> HIDE DEF a, b, c, d
<1>2. IsFiniteSet({a}) /\ Cardinality({a}) <= 1 BY FS_Singleton, SMTT(30)
<1>3. IsFiniteSet({a} \union {b}) /\ Cardinality({a} \union {b}) <= 2
  <2> DEFINE S == {a}
  <2>1. IsFiniteSet(S) /\ Cardinality(S) <= 1 BY <1>2
  <2> HIDE DEF S
  <2>2. IsFiniteSet(S \union {b}) /\ Cardinality(S \union {b}) <= 1 + 1
    BY <2>1, OneMore
  <2>3. QED BY <2>2 DEF S
<1>4. LET S == ({a} \union {b}) \union {c} IN IsFiniteSet(S) /\ Cardinality(S) <= 3
  <2> DEFINE S == {a} \union {b}
  <2>1. IsFiniteSet(S) /\ Cardinality(S) <= 2 BY <1>3
  <2> HIDE DEF S
  <2>2. IsFiniteSet(S \union {c}) /\ Cardinality(S \union {c}) <= 2 + 1
    BY <2>1, OneMore
  <2>3. QED BY <2>2 DEF S
<1>5. LET S == (({a} \union {b}) \union {c}) \union {d}
      IN  IsFiniteSet(S) /\ Cardinality(S) <= 4
  <2> DEFINE S == ({a} \union {b}) \union {c}
  <2>1. IsFiniteSet(S) /\ Cardinality(S) <= 3 BY <1>4
  <2> HIDE DEF S
  <2>2. IsFiniteSet(S \union {d}) /\ Cardinality(S \union {d}) <= 3 + 1
    BY <2>1, OneMore
  <2>3. QED BY <2>2 DEF S
<1>6. QED BY <1>1, <1>5

\* What a finding is a finding of.
NameOf(finding) == <<finding.audit, finding.check.key>>

\* When no urgent check is found twice, a secret that is listed is one of the
\* first four of the action list.
LEMMA SecretsLead ==
  ASSUME NEW findings, NEW list, NEW at, Ranked(list, findings, at),
         \A i \in DOMAIN findings :
           /\ Sortable(findings[i])
           /\ findings[i].check.key \in Explained(findings[i].audit),
         \A i, j \in DOMAIN findings :
           NameOf(findings[i]) \in Urgent /\ NameOf(findings[i]) = NameOf(findings[j])
             => i = j,
         NEW n \in 1..Cardinality(ListedPlaces(findings)),
         findings[at[n]].check.key \in Secrets
  PROVE  n <= 4
<1> DEFINE count == Cardinality(ListedPlaces(findings))
           entry(i) == lookup(findings[i].audit, findings[i].check.key)
           key(i) == SortKey(findings, i)
<1>1. /\ count \in Nat /\ at \in Bijection(1..count, ListedPlaces(findings))
      /\ \A p, q \in 1..count : p < q <=> Precedes(key(at[p]), key(at[q]))
  BY DEF Ranked
<1>2. \A m \in 1..count : at[m] \in ListedPlaces(findings)
  BY <1>1 DEF Bijection, Injection
<1>3. ASSUME NEW i \in ListedPlaces(findings)
      PROVE  /\ i \in DOMAIN findings
             /\ entry(i).impact \in 1..5 /\ entry(i).effort \in 1..3
             /\ entry(i).impact = 5 /\ entry(i).effort = 1 => NameOf(findings[i]) \in Urgent
             /\ findings[i].check.key \in Secrets =>
                  entry(i).impact = 5 /\ entry(i).effort = 1
             /\ DOMAIN key(i) = 1..7
             /\ key(i)[1] = 0 - entry(i).impact /\ key(i)[2] = entry(i).effort
  <2>1. i \in DOMAIN findings /\ Listed(findings[i]) BY DEF ListedPlaces
  <2>2. Sortable(findings[i]) /\ findings[i].check.key \in Explained(findings[i].audit)
    BY <2>1
  <2>3. findings[i].audit \in DOMAIN CATALOGUE BY <2>2 DEF Sortable
  <2>4. entry(i).impact \in 1..5 /\ entry(i).effort \in 1..3 BY <2>1, <2>2, ListedRow
  <2>5. /\ entry(i).impact = 5 /\ entry(i).effort = 1 => NameOf(findings[i]) \in Urgent
        /\ findings[i].check.key \in Secrets =>
             entry(i).impact = 5 /\ entry(i).effort = 1
    BY <2>2, <2>3, UrgentChecks DEF NameOf
  <2>6. /\ DOMAIN key(i) = 1..7
        /\ key(i)[1] = 0 - entry(i).impact /\ key(i)[2] = entry(i).effort
    BY DEF SortKey
  <2> HIDE DEF entry, key
  <2>7. QED BY <2>1, <2>4, <2>5, <2>6
<1> HIDE DEF entry, key
<1>4. n \in 1..count OBVIOUS
<1> HIDE DEF count
<1>5. entry(at[n]).impact = 5 /\ entry(at[n]).effort = 1 BY <1>2, <1>3, <1>4
<1>6. ASSUME NEW m \in 1..n PROVE m \in 1..count /\ NameOf(findings[at[m]]) \in Urgent
  <2>1. m \in 1..count BY <1>1, <1>4
  <2>2. CASE m = n BY <1>2, <1>3, <1>5, <2>1, <2>2
  <2>3. CASE m < n
    <3> DEFINE s == key(at[m])
               t == key(at[n])
    <3>1. Precedes(s, t) BY <1>1, <1>4, <2>1, <2>3
    <3>2. PICK k \in DOMAIN s : s[k] < t[k] /\ \A j \in 1..(k - 1) : s[j] = t[j]
      BY <3>1 DEF Precedes
    <3>3. /\ k \in 1..7 /\ t[1] = -5 /\ t[2] = 1
          /\ s[1] = 0 - entry(at[m]).impact /\ s[2] = entry(at[m]).effort
          /\ entry(at[m]).impact \in 1..5 /\ entry(at[m]).effort \in 1..3
      BY <1>2, <1>3, <1>4, <1>5, <2>1
    <3> HIDE DEF s, t
    <3>4. k # 1 BY <3>2, <3>3
    <3>5. entry(at[m]).impact = 5 BY <3>2, <3>3, <3>4
    <3>6. k # 2 BY <3>2, <3>3
    <3>7. entry(at[m]).effort = 1 BY <3>2, <3>3, <3>4, <3>6
    <3>8. QED BY <1>2, <1>3, <2>1, <3>5, <3>7
  <2>4. QED BY <2>2, <2>3
<1>7. n \in Nat /\ n \in 1..count BY <1>1, <1>4
<1> DEFINE h == [m \in 1..n |-> NameOf(findings[at[m]])]
<1>8. h \in [1..n -> Urgent] BY <1>6
<1>9. \A p, q \in 1..n : h[p] = h[q] => p = q
  <2> SUFFICES ASSUME NEW p \in 1..n, NEW q \in 1..n, h[p] = h[q] PROVE p = q OBVIOUS
  <2>1. NameOf(findings[at[p]]) = NameOf(findings[at[q]]) OBVIOUS
  <2>2. at[p] \in DOMAIN findings /\ at[q] \in DOMAIN findings BY <1>2, <1>3, <1>6
  <2>3. at[p] = at[q] BY <1>6, <2>1, <2>2
  <2>4. p \in 1..count /\ q \in 1..count BY <1>6
  <2>5. QED BY <1>1, <2>3, <2>4 DEF Bijection, Injection, IsInjective
<1> HIDE DEF h
<1>10. h \in Injection(1..n, Urgent) BY <1>8, <1>9 DEF Injection, IsInjective
<1>11. IsFiniteSet(1..n) /\ Cardinality(1..n) = n BY <1>7, FS_Interval
<1>12. Cardinality(1..n) <= Cardinality(Urgent) BY <1>10, <1>11, UrgentCount, FS_Injection
<1>13. Cardinality(Urgent) \in Nat BY UrgentCount, FS_CardinalityType
<1>14. QED BY <1>7, <1>11, <1>12, <1>13, UrgentCount

\* What the page sorts: the items of the action list, the demoted ones last.
PageEntry(items) ==
    [i \in DOMAIN items |->
        [item |-> items[i],
         key |-> <<IF demote_from_page_one(items[i]) THEN 1 ELSE 0, i>>]]

\* An item that the page does not demote moves no further down than it was.
LEMMA PageKeeps ==
  ASSUME NEW items, NEW n \in Nat, DOMAIN items = 1..n,
         NEW i \in 1..n, ~demote_from_page_one(items[i])
  PROVE  /\ DOMAIN page_fixes(items) = 1..n /\ Len(page_fixes(items)) = n
         /\ \E p \in 1..i : p \in 1..n /\ page_fixes(items)[p] = items[i]
<1> DEFINE S == DOMAIN items
           entry == PageEntry(items)
           page == page_fixes(items)
           count == Cardinality(S)
<1>1. IsFiniteSet(S) /\ count = n BY FS_Interval
<1>2. \A j \in S : /\ entry[j].item = items[j]
                   /\ entry[j].key = <<IF demote_from_page_one(items[j]) THEN 1 ELSE 0, j>>
  BY DEF PageEntry
<1>3. page = InOrder({entry[j] : j \in S}) BY DEF page_fixes, PageEntry
<1>4. \A j \in S : /\ IsSortKey(entry[j].key, 2) /\ entry[j].key[2] = j
                   /\ entry[j].key[1] \in {0, 1}
                   /\ entry[i].key[1] = 0
  BY <1>2 DEF IsSortKey
<1>5. i \in S OBVIOUS
<1>6. S = 1..n OBVIOUS
<1> HIDE DEF entry, S, page, count
<1>7. Ordered(S, entry)
  <2>1. \A d, e \in S : d # e => \E k \in 1..2 : entry[d].key[k] # entry[e].key[k]
    <3>1. 2 \in 1..2 OBVIOUS
    <3>2. QED BY <1>4, <3>1
  <2>2. 2 \in Nat OBVIOUS
  <2>3. QED BY <1>4, <2>1, <2>2, KeysOrder
<1>8. PICK at : Placed(page, S, entry, at) BY <1>1, <1>3, <1>7, InOrderPlaces
<1>9. /\ DOMAIN page = 1..n /\ Len(page) = n
      /\ at \in Bijection(1..n, S)
      /\ \A q \in 1..n : page[q] = entry[at[q]].item
      /\ \A p, q \in 1..n :
           p < q <=> Precedes(entry[at[p]].key, entry[at[q]].key)
  BY <1>1, <1>8 DEF Placed, count
<1>10. PICK p \in 1..n : at[p] = i BY <1>5, <1>9 DEF Bijection, Surjection
<1>11. page[p] = items[i] BY <1>2, <1>5, <1>9, <1>10
<1>12. \A q \in 1..n : at[q] \in S BY <1>9 DEF Bijection, Injection
<1>13. ASSUME NEW q \in 1..p PROVE at[q] \in 1..i
  <2>1. q \in 1..n /\ at[q] \in S /\ at[q] \in 1..n BY <1>6, <1>12
  <2>2. CASE q = p BY <1>10, <2>2
  <2>3. CASE q < p
    <3>1. Precedes(entry[at[q]].key, entry[i].key) BY <1>9, <1>10, <2>1, <2>3
    <3>2. PICK k \in DOMAIN entry[at[q]].key :
            /\ entry[at[q]].key[k] < entry[i].key[k]
            /\ \A j \in 1..(k - 1) : entry[at[q]].key[j] = entry[i].key[j]
      BY <3>1 DEF Precedes
    <3>3. k \in 1..2 BY <1>4, <2>1, <3>2 DEF IsSortKey
    <3>4. k # 1 BY <1>4, <2>1, <3>2
    <3>5. at[q] < i BY <1>4, <1>5, <2>1, <3>2, <3>3, <3>4
    <3>6. QED BY <2>1, <3>5
  <2>4. QED BY <2>2, <2>3
<1>14. p <= i
  <2> DEFINE f == [q \in 1..p |-> at[q]]
  <2>1. f \in [1..p -> 1..i] BY <1>13
  <2>2. \A a, b \in 1..n : at[a] = at[b] => a = b
    BY <1>9 DEF Bijection, Injection, IsInjective
  <2>3. \A a, b \in 1..p : f[a] = f[b] => a = b BY <2>2
  <2> HIDE DEF f
  <2>4. f \in Injection(1..p, 1..i) BY <2>1, <2>3 DEF Injection, IsInjective
  <2>5. /\ IsFiniteSet(1..p) /\ Cardinality(1..p) = p
        /\ IsFiniteSet(1..i) /\ Cardinality(1..i) = i
    BY FS_Interval
  <2>6. QED BY <2>4, <2>5, FS_Injection
<1>15. QED BY <1>9, <1>10, <1>11, <1>14 DEF page

=============================================================================
