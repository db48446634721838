-------------------------- MODULE SiteAuditProofs --------------------------
(***************************************************************************)
(* Theorems of a site's audit runs.  As every audit emits what it should   *)
(* from the facts it reads, the scores, the findings, the action list and  *)
(* the owner's page of a run are what they should be, and a source that    *)
(* fails changes the audits that read it and no others.                    *)
(***************************************************************************)
EXTENDS AuditProofs

(***************************************************************************)
(* The results of a run                                                    *)
(***************************************************************************)
\* A mean of the categories that count lies between two of them.
Amid(mean, categories) ==
    mean # None =>
      /\ \E i \in 1..Len(categories) : Counts(categories[i]) /\ categories[i].score <= mean
      /\ \E i \in 1..Len(categories) : Counts(categories[i]) /\ mean <= categories[i].score

\* What the result of an audit is.
Result(r) ==
    /\ r \in ResultScore
    /\ r.categories \in Seq(CategoryOf(r.audit))
    /\ Amid(r.score, r.categories)

\* A result as run() builds it.
LEMMA AuditResultGood ==
  ASSUME NEW audit \in DOMAIN CATALOGUE, NEW categories \in Seq(CategoryOf(audit))
  PROVE  /\ Result(AuditResult(audit, categories))
         /\ AuditResult(audit, categories).audit = audit
<1> DEFINE r == AuditResult(audit, categories)
<1>1. CategoryOf(audit) \subseteq CategoryType BY DEF CategoryOf
<1>2. categories \in Seq(CategoryType) BY <1>1, SeqMonotonic
<1>3. Amid(audit_score(categories), categories) BY <1>2, AuditBetween DEF Amid
<1>4. audit_score(categories) \in Scores BY <1>2, AuditBetween DEF Scores, OnScale
<1>5. completeness(categories) \in Points100 BY <1>2, CompletenessType
<1>6. /\ r \in ResultScore /\ r.audit = audit /\ r.categories = categories
      /\ r.score = audit_score(categories)
  BY <1>2, <1>4, <1>5 DEF AuditResult, ResultScore
<1> HIDE DEF r
<1>7. Result(r) BY <1>3, <1>6 DEF Result
<1>8. QED BY <1>6, <1>7 DEF r

\* The whole square root of a product lies between its factors.
LEMMA GeometricMeanBetween ==
  ASSUME NEW a \in Nat, NEW b \in Nat
  PROVE  GeometricMean(a, b) \in AtMost(a, b)..AtLeast(a, b)
<1> DEFINE low == AtMost(a, b)
           high == AtLeast(a, b)
           product == a * b
           U == {n \in Nat : product < (n + 1) * (n + 1)}
           m == Min(U)
<1>1. low \in Nat /\ high \in Nat /\ low <= high BY DEF AtMost, AtLeast
<1>2. product = low * high /\ product \in Nat
  <2>1. a * b = b * a OBVIOUS
  <2>2. QED BY <2>1 DEF AtMost, AtLeast
<1>3. /\ product = a * b
      /\ GeometricMean(a, b)
           = CHOOSE x \in low..high : x * x <= product /\ product < (x + 1) * (x + 1)
  BY DEF GeometricMean
<1> HIDE DEF low, high, product
<1>4. high \in U
  <2>1. low * high <= high * high BY <1>1, ScaledOrder
  <2>2. (high + 1) * (high + 1) = high * high + high + high + 1 BY <1>1
  <2>3. high * high \in Nat BY <1>1
  <2>4. QED BY <1>1, <1>2, <2>1, <2>2, <2>3
<1>5. U \in SUBSET Nat /\ U # {} BY <1>4
<1>6. m \in U /\ m <= high BY <1>4, <1>5, LeastElement
<1>7. \A j \in U : m <= j BY <1>5, LeastElement
<1> HIDE DEF m
<1>8. m * m <= product
  <2>1. CASE m = 0 BY <1>2, <2>1
  <2>2. CASE m # 0
    <3>1. m - 1 \in Nat /\ ~(m <= m - 1) BY <1>6, <2>2
    <3>2. m - 1 \notin U BY <1>7, <3>1
    <3>3. ~(product < ((m - 1) + 1) * ((m - 1) + 1)) BY <3>1, <3>2
    <3>4. (m - 1) + 1 = m BY <1>6
    <3>5. ~(product < m * m) /\ m * m \in Nat BY <1>6, <3>3, <3>4
    <3>6. QED BY <1>2, <3>5
  <2>3. QED BY <2>1, <2>2
<1>9. low <= m
  <2>1. SUFFICES ASSUME m + 1 <= low PROVE FALSE BY <1>1, <1>6
  <2> DEFINE k == m + 1
  <2>2. k \in Nat /\ k <= low BY <1>6, <2>1
  <2>3. product < k * k BY <1>6
  <2> HIDE DEF k
  <2>4. k * k <= low * k BY <2>2, <1>1, ScaledOrder
  <2>5. k <= high BY <1>1, <2>2
  <2>6. k * low <= high * low BY <1>1, <2>2, <2>5, ScaledOrder
  <2>7. k * low = low * k /\ high * low = low * high BY <1>1, <2>2
  <2>8. k * k \in Nat /\ low * k \in Nat /\ low * high \in Nat BY <1>1, <2>2
  <2>9. QED BY <1>2, <2>3, <2>4, <2>6, <2>7, <2>8
<1>10. m \in low..high BY <1>1, <1>6, <1>9
<1>11. product < (m + 1) * (m + 1) BY <1>6
<1>12. QED BY <1>3, <1>8, <1>10, <1>11 DEF low, high


\* The block of cadence and relevance lies between the two that are there.
LEMMA BlockBetween ==
  ASSUME NEW a \in Scores, NEW b \in Scores, NEW ab,
         ab = IF a # None /\ b # None THEN GeometricMean(a, b)
              ELSE IF a # None THEN a ELSE b
  PROVE  /\ ab \in Scores
         /\ ab # None => /\ (a # None /\ a <= ab) \/ (b # None /\ b <= ab)
                         /\ (a # None /\ ab <= a) \/ (b # None /\ ab <= b)
<1>1. CASE a # None /\ b # None
  <2>1. OnScale(a) /\ OnScale(b) BY <1>1 DEF Scores
  <2>2. a \in Nat /\ b \in Nat BY <2>1 DEF OnScale
  <2>3. ab \in AtMost(a, b)..AtLeast(a, b) BY <1>1, <2>2, GeometricMeanBetween
  <2>4. OnScale(ab) BY <2>1, <2>3 DEF OnScale, AtMost, AtLeast
  <2>5. ab \in Scores BY <2>4 DEF Scores, OnScale
  <2>6. (a <= ab \/ b <= ab) /\ (ab <= a \/ ab <= b)
    BY <2>2, <2>3 DEF AtMost, AtLeast
  <2>7. QED BY <1>1, <2>5, <2>6
<1>2. CASE ~(a # None /\ b # None)
  <2>1. a # None => a \in Int BY DEF Scores
  <2>2. b # None => b \in Int BY DEF Scores
  <2>3. a # None => a <= a BY <2>1
  <2>4. b # None => b <= b BY <2>2
  <2>5. QED BY <1>2, <2>3, <2>4
<1>3. QED BY <1>1, <1>2

\* The members of a sequence.
LEMMA SeqMembers ==
  \A S : \A q \in Seq(S) : \A i \in 1..Len(q) : q[i] \in S
OBVIOUS

\* The headline of the content strategy lies between its categories, whichever
\* of them could not be assessed.
LEMMA HeadlineBetween ==
  ASSUME NEW o, Measured(o)
  PROVE  /\ headline_score(ContentStrategy(o)) \in Scores
         /\ Amid(headline_score(ContentStrategy(o)), ContentStrategy(o))
<1> DEFINE cs == ContentStrategy(o)
           a == cs[1].score
           b == cs[2].score
           ab == IF a # None /\ b # None THEN GeometricMean(a, b)
                 ELSE IF a # None THEN a ELSE b
           scores == <<ab, cs[3].score, cs[4].score>>
           weights == <<60, 25, 15>>
           mean == headline_score(cs)
<1>1. cs \in Seq(CategoryOf("content_strategy")) BY ContentStrategyEmitted
<1>2. Len(cs) = 4 /\ DOMAIN cs = 1..4 BY DEF ContentStrategy
<1>3. cs[1].applicable /\ cs[2].applicable /\ cs[4].applicable
  BY DEF ContentStrategy, Category
<1>4. /\ cs[3].checks = <<Informational("content_performance", NEEDS)>>
      /\ cs[3].score = category_score(cs[3].checks)
  BY DEF ContentStrategy, Category
<1>5. mean = WeightedMean(scores, weights) BY DEF headline_score
<1> HIDE DEF cs
<1>6. \A i \in 1..4 : cs[i] \in CategoryType
  <2>1. \A i \in 1..4 : cs[i] \in CategoryOf("content_strategy")
    BY <1>1, <1>2, SeqMembers, Zenon
  <2>2. QED BY <2>1 DEF CategoryOf
<1>7. \A c \in CategoryType : c.score \in Scores /\ c.checks \in Seq(CheckType)
  BY DEF CategoryType
<1>8. cs[3].score = None
  <2>1. cs[3].checks \in Seq(CheckType) BY <1>6, <1>7
  <2>2. \A i \in 1..Len(cs[3].checks) : ~Scored(cs[3].checks[i])
    BY <1>4 DEF Informational, Check, Scored
  <2>3. QED BY <1>4, <2>1, <2>2, CategoryBetween
<1>9. a \in Scores /\ b \in Scores /\ cs[4].score \in Scores BY <1>6, <1>7
<1>10. /\ ab \in Scores
       /\ ab # None => /\ (a # None /\ a <= ab) \/ (b # None /\ b <= ab)
                       /\ (a # None /\ ab <= a) \/ (b # None /\ ab <= b)
  BY <1>9, BlockBetween
<1> HIDE DEF ab
<1>11. /\ Len(scores) = 3 /\ scores \in Seq(Scores)
       /\ scores[1] = ab /\ scores[2] = None /\ scores[3] = cs[4].score
  BY <1>8, <1>9, <1>10 DEF Scores
<1>12. Len(weights) = 3 /\ weights \in Seq(Nat \ {0}) OBVIOUS
<1> HIDE DEF scores, weights, mean
<1>13. Scores \subseteq Int \union {None} BY DEF Scores
<1>14. scores \in Seq(Int \union {None}) BY <1>11, <1>13, SeqMonotonic
<1>15. Weighable(scores, weights) BY <1>11, <1>12, <1>14 DEF Weighable
<1>16. Present(scores) = {i \in 1..3 : scores[i] # None} BY <1>11 DEF Present
<1>17. \A i \in Present(scores) : OnScale(scores[i])
  <2>1. \A i \in 1..3 : scores[i] \in Scores
    <3>1. scores \in Seq(Scores) /\ Len(scores) = 3 BY <1>11
    <3>2. QED BY <3>1
  <2>2. QED BY <1>16, <2>1 DEF Scores
<1>18. mean # None => /\ OnScale(mean)
                      /\ \E i \in Present(scores) : scores[i] <= mean
                      /\ \E i \in Present(scores) : mean <= scores[i]
  BY <1>5, <1>15, <1>17, MeanOnScale
<1>19. mean \in Scores BY <1>18 DEF Scores, OnScale
<1>20. \A i \in Present(scores) : \/ i = 1 /\ ab # None /\ scores[i] = ab
                                  \/ i = 3 /\ cs[4].score # None /\ scores[i] = cs[4].score
  BY <1>11, <1>16
<1>21. /\ a # None => Counts(cs[1])
       /\ b # None => Counts(cs[2])
       /\ cs[4].score # None => Counts(cs[4])
  BY <1>3 DEF Counts
<1>22. ASSUME mean # None
       PROVE  /\ \E i \in 1..4 : Counts(cs[i]) /\ cs[i].score <= mean
              /\ \E i \in 1..4 : Counts(cs[i]) /\ mean <= cs[i].score
  <2>0. mean \in Int BY <1>18, <1>22 DEF OnScale
  <2>1. PICK i \in Present(scores) : scores[i] <= mean BY <1>18, <1>22
  <2>2. PICK j \in Present(scores) : mean <= scores[j] BY <1>18, <1>22
  <2>3. /\ a # None => a \in Int
        /\ b # None => b \in Int
        /\ ab # None => ab \in Int
    BY <1>9, <1>10 DEF Scores
  <2>4. \E k \in 1..4 : Counts(cs[k]) /\ cs[k].score <= mean
    <3>1. CASE cs[4].score # None /\ scores[i] = cs[4].score BY <1>21, <2>1, <3>1
    <3>2. CASE ab # None /\ ab <= mean
      <4>1. CASE a # None /\ a <= ab
        <5>1. a <= mean BY <2>0, <2>3, <3>2, <4>1
        <5>2. QED BY <1>21, <4>1, <5>1
      <4>2. CASE b # None /\ b <= ab
        <5>1. b <= mean BY <2>0, <2>3, <3>2, <4>2
        <5>2. QED BY <1>21, <4>2, <5>1
      <4>3. QED BY <1>10, <3>2, <4>1, <4>2
    <3>3. QED BY <1>20, <2>1, <3>1, <3>2
  <2>5. \E k \in 1..4 : Counts(cs[k]) /\ mean <= cs[k].score
    <3>1. CASE cs[4].score # None /\ scores[j] = cs[4].score BY <1>21, <2>2, <3>1
    <3>2. CASE ab # None /\ mean <= ab
      <4>1. CASE a # None /\ ab <= a
        <5>1. mean <= a BY <2>0, <2>3, <3>2, <4>1
        <5>2. QED BY <1>21, <4>1, <5>1
      <4>2. CASE b # None /\ ab <= b
        <5>1. mean <= b BY <2>0, <2>3, <3>2, <4>2
        <5>2. QED BY <1>21, <4>2, <5>1
      <4>3. QED BY <1>10, <3>2, <4>1, <4>2
    <3>3. QED BY <1>20, <2>2, <3>1, <3>2
  <2>6. QED BY <2>4, <2>5
<1>23. QED BY <1>2, <1>19, <1>22 DEF Amid, mean, cs

\* The result of the content strategy audit.
LEMMA StrategyResultGood ==
  ASSUME NEW o, Measured(o)
  PROVE  /\ Result(StrategyResult(o))
         /\ StrategyResult(o).audit = "content_strategy"
<1> DEFINE cs == ContentStrategy(o)
           r == AuditResult("content_strategy", cs)
<1>1. "content_strategy" \in DOMAIN CATALOGUE BY DEF CATALOGUE
<1>2. cs \in Seq(CategoryOf("content_strategy")) BY ContentStrategyEmitted
<1>3. headline_score(cs) \in Scores /\ Amid(headline_score(cs), cs) BY HeadlineBetween
<1>4. StrategyResult(o) = [r EXCEPT !.score = headline_score(cs)] BY DEF StrategyResult
<1>5. Result(r) /\ r.audit = "content_strategy" BY <1>1, <1>2, AuditResultGood
<1>6. r.categories = cs BY DEF AuditResult
<1> HIDE DEF cs, r
<1>7. r \in ResultScore BY <1>5 DEF Result
<1>8. /\ StrategyResult(o) \in ResultScore
      /\ StrategyResult(o).audit = "content_strategy"
      /\ StrategyResult(o).categories = cs
      /\ StrategyResult(o).score = headline_score(cs)
  BY <1>3, <1>4, <1>5, <1>6, <1>7 DEF ResultScore
<1>9. QED BY <1>2, <1>3, <1>8 DEF Result

\* The audits of a run, in their order.
AUDIT_MODULES ==
    <<"build_security", "compliance", "technical_seo", "on_page_seo", "schema",
      "content_quality", "performance", "messaging", "geo", "content_strategy",
      "analytics">>

\* What every run has for results.
GoodResults(results) ==
    /\ results \in Seq(ResultScore) /\ Len(results) = 11 /\ DOMAIN results = 1..11
    /\ \A i \in 1..11 : Result(results[i]) /\ results[i].audit = AUDIT_MODULES[i]

\* Whatever the site is and whichever sources fail, a run has a result of
\* every audit and each is what it should be.
LEMMA ResultsGood ==
  ASSUME NEW s, Measured(s), NEW faults
  PROVE  GoodResults(Results(s, faults))
<1> DEFINE o == Observed(s, faults)
           own == AcquiredOnly(o, faults)
           rs == Results(s, faults)
<1>1. Measured(o) /\ Measured(own) BY ObservedMeasured
<1>2. rs = <<AuditResult("build_security", BuildSecurity(own)),
             AuditResult("compliance", Compliance(o)),
             AuditResult("technical_seo", TechnicalSeo(o)),
             AuditResult("on_page_seo", OnPageSeo(o)),
             AuditResult("schema", Schema(o)),
             AuditResult("content_quality", ContentQuality(o)),
             AuditResult("performance", Performance(o)),
             AuditResult("messaging", Messaging(o)),
             AuditResult("geo", Geo(o)),
             StrategyResult(o),
             AuditResult("analytics", Analytics(o))>>
  BY DEF Results
<1> HIDE DEF o, own, rs
<1>3. /\ "build_security" \in DOMAIN CATALOGUE /\ "compliance" \in DOMAIN CATALOGUE
      /\ "technical_seo" \in DOMAIN CATALOGUE /\ "on_page_seo" \in DOMAIN CATALOGUE
      /\ "schema" \in DOMAIN CATALOGUE /\ "content_quality" \in DOMAIN CATALOGUE
      /\ "performance" \in DOMAIN CATALOGUE /\ "messaging" \in DOMAIN CATALOGUE
      /\ "geo" \in DOMAIN CATALOGUE /\ "analytics" \in DOMAIN CATALOGUE
  BY DEF CATALOGUE
<1>4. DOMAIN rs = 1..11 /\ Len(rs) = 11 BY <1>2
<1>5. Result(rs[1]) /\ rs[1].audit = "build_security"
  <2>1. BuildSecurity(own) \in Seq(CategoryOf("build_security"))
    BY <1>1, BuildSecurityEmitted
  <2>2. rs[1] = AuditResult("build_security", BuildSecurity(own)) BY <1>2
  <2>3. QED BY <1>3, <2>1, <2>2, AuditResultGood
<1>6. Result(rs[2]) /\ rs[2].audit = "compliance"
  <2>1. Compliance(o) \in Seq(CategoryOf("compliance")) BY <1>1, ComplianceEmitted
  <2>2. rs[2] = AuditResult("compliance", Compliance(o)) BY <1>2
  <2>3. QED BY <1>3, <2>1, <2>2, AuditResultGood
<1>7. Result(rs[3]) /\ rs[3].audit = "technical_seo"
  <2>1. TechnicalSeo(o) \in Seq(CategoryOf("technical_seo")) BY <1>1, TechnicalSeoEmitted
  <2>2. rs[3] = AuditResult("technical_seo", TechnicalSeo(o)) BY <1>2
  <2>3. QED BY <1>3, <2>1, <2>2, AuditResultGood
<1>8. Result(rs[4]) /\ rs[4].audit = "on_page_seo"
  <2>1. OnPageSeo(o) \in Seq(CategoryOf("on_page_seo")) BY <1>1, OnPageSeoEmitted
  <2>2. rs[4] = AuditResult("on_page_seo", OnPageSeo(o)) BY <1>2
  <2>3. QED BY <1>3, <2>1, <2>2, AuditResultGood
<1>9. Result(rs[5]) /\ rs[5].audit = "schema"
  <2>1. Schema(o) \in Seq(CategoryOf("schema")) BY <1>1, SchemaEmitted
  <2>2. rs[5] = AuditResult("schema", Schema(o)) BY <1>2
  <2>3. QED BY <1>3, <2>1, <2>2, AuditResultGood
<1>10. Result(rs[6]) /\ rs[6].audit = "content_quality"
  <2>1. ContentQuality(o) \in Seq(CategoryOf("content_quality")) BY <1>1, ContentQualityEmitted
  <2>2. rs[6] = AuditResult("content_quality", ContentQuality(o)) BY <1>2
  <2>3. QED BY <1>3, <2>1, <2>2, AuditResultGood
<1>11. Result(rs[7]) /\ rs[7].audit = "performance"
  <2>1. Performance(o) \in Seq(CategoryOf("performance")) BY <1>1, PerformanceEmitted
  <2>2. rs[7] = AuditResult("performance", Performance(o)) BY <1>2
  <2>3. QED BY <1>3, <2>1, <2>2, AuditResultGood
<1>12. Result(rs[8]) /\ rs[8].audit = "messaging"
  <2>1. Messaging(o) \in Seq(CategoryOf("messaging")) BY <1>1, MessagingEmitted
  <2>2. rs[8] = AuditResult("messaging", Messaging(o)) BY <1>2
  <2>3. QED BY <1>3, <2>1, <2>2, AuditResultGood
<1>13. Result(rs[9]) /\ rs[9].audit = "geo"
  <2>1. Geo(o) \in Seq(CategoryOf("geo")) BY <1>1, GeoEmitted
  <2>2. rs[9] = AuditResult("geo", Geo(o)) BY <1>2
  <2>3. QED BY <1>3, <2>1, <2>2, AuditResultGood
<1>14. Result(rs[10]) /\ rs[10].audit = "content_strategy"
  <2>1. rs[10] = StrategyResult(o) BY <1>2
  <2>2. QED BY <1>1, <2>1, StrategyResultGood
<1>15. Result(rs[11]) /\ rs[11].audit = "analytics"
  <2>1. Analytics(o) \in Seq(CategoryOf("analytics")) BY AnalyticsEmitted
  <2>2. rs[11] = AuditResult("analytics", Analytics(o)) BY <1>2
  <2>3. QED BY <1>3, <2>1, <2>2, AuditResultGood
<1>16. /\ AUDIT_MODULES[1] = "build_security" /\ AUDIT_MODULES[2] = "compliance"
       /\ AUDIT_MODULES[3] = "technical_seo" /\ AUDIT_MODULES[4] = "on_page_seo"
       /\ AUDIT_MODULES[5] = "schema" /\ AUDIT_MODULES[6] = "content_quality"
       /\ AUDIT_MODULES[7] = "performance" /\ AUDIT_MODULES[8] = "messaging"
       /\ AUDIT_MODULES[9] = "geo" /\ AUDIT_MODULES[10] = "content_strategy"
       /\ AUDIT_MODULES[11] = "analytics"
  BY DEF AUDIT_MODULES
<1>17. \A i \in 1..11 : i = 1 \/ i = 2 \/ i = 3 \/ i = 4 \/ i = 5 \/ i = 6 \/ i = 7
                        \/ i = 8 \/ i = 9 \/ i = 10 \/ i = 11
  OBVIOUS
<1>18. \A i \in 1..11 : Result(rs[i]) /\ rs[i].audit = AUDIT_MODULES[i]
  BY <1>5, <1>6, <1>7, <1>8, <1>9, <1>10, <1>11, <1>12, <1>13, <1>14, <1>15, <1>16,
     <1>17, ZenonT(60)
<1>19. rs \in Seq(ResultScore)
  <2>1. \A i \in 1..11 : rs[i] \in ResultScore BY <1>18 DEF Result
  <2>2. rs = [i \in 1..11 |-> rs[i]] BY <1>2
  <2>3. QED BY <2>1, <2>2
<1>20. QED BY <1>4, <1>18, <1>19 DEF GoodResults, rs


(***************************************************************************)
(* The findings of a run                                                   *)
(***************************************************************************)
\* A member of a sequence.
Occurs(x, q) == \E n \in 1..Len(q) : q[n] = x

\* What occurs in a sequence occurs in its concatenations.
LEMMA OccursInConcat ==
  ASSUME NEW S, NEW p \in Seq(S), NEW q \in Seq(S)
  PROVE  \A x : Occurs(x, p) \/ Occurs(x, q) => Occurs(x, p \o q)
<1>1. /\ Len(p) \in Nat /\ Len(q) \in Nat /\ Len(p \o q) = Len(p) + Len(q)
      /\ \A n \in 1..Len(p) : (p \o q)[n] = p[n]
      /\ \A n \in 1..Len(q) : (p \o q)[Len(p) + n] = q[n]
  OBVIOUS
<1>2. ASSUME NEW n \in 1..Len(p) PROVE Occurs(p[n], p \o q)
  BY <1>1 DEF Occurs
<1>3. ASSUME NEW n \in 1..Len(q) PROVE Occurs(q[n], p \o q)
  <2>1. Len(p) + n \in 1..Len(p \o q) BY <1>1
  <2>2. QED BY <1>1, <2>1 DEF Occurs
<1>4. QED BY <1>2, <1>3 DEF Occurs

\* The sequences that FlattenSeq passes through.
Flattening(g, seqs, S) ==
    /\ \A i \in 0..Len(seqs) : g[i] \in Seq(S)
    /\ g[0] = <<>>
    /\ \A i \in 1..Len(seqs) : /\ i - 1 \in 0..Len(seqs)
                               /\ g[i] = g[i - 1] \o seqs[i]
    /\ FlattenSeq(seqs) = g[Len(seqs)]

\* The recursion of FlattenSeq defines them.
LEMMA FlattenSteps ==
  ASSUME NEW S, NEW seqs \in Seq(Seq(S))
  PROVE  \E g : Flattening(g, seqs, S)
<1> DEFINE n == Len(seqs)
           F(f) == [i \in 1..n |-> IF i = 1 THEN seqs[i] ELSE f[i - 1] \o seqs[i]]
           flat == CHOOSE f : f = F(f)
           step == [i \in 1..n |-> [q \in Seq(S) |-> q \o seqs[i]]]
<1>1. n \in Nat /\ \A i \in 1..n : seqs[i] \in Seq(S) OBVIOUS
<1>2. FlattenSeq(seqs) = IF n = 0 THEN seqs ELSE flat[n] BY DEF FlattenSeq
<1>3. n = 0 => seqs = <<>> OBVIOUS
<1> HIDE DEF n
<1>4. PICK g : Iterates(g, n, Seq(S), <<>>, step)
  <2>1. \A i \in 1..n : \A q \in Seq(S) : q \o seqs[i] \in Seq(S) BY <1>1
  <2>2. step \in [1..n -> [Seq(S) -> Seq(S)]] BY <2>1
  <2>3. <<>> \in Seq(S) OBVIOUS
  <2> HIDE DEF step
  <2>4. Iterable(n, Seq(S), <<>>, step) BY <1>1, <2>2, <2>3 DEF Iterable
  <2>5. QED BY <2>4, Iteration
<1>5. /\ \A i \in 0..n : g[i] \in Seq(S)
      /\ \A i \in 1..n : i - 1 \in 0..n /\ g[i] = g[i - 1] \o seqs[i]
      /\ g[0] = <<>>
  <2>1. /\ g \in [0..n -> Seq(S)] /\ g[0] = <<>>
        /\ \A i \in 1..n : g[i] = step[i][g[i - 1]]
    BY <1>4 DEF Iterates
  <2>2. \A i \in 1..n : i - 1 \in 0..n BY <1>1
  <2>3. QED BY <2>1, <2>2
<1> DEFINE kept == [i \in 1..n |-> g[i]]
<1>6. kept = F(kept)
  <2>1. ASSUME NEW i \in 1..n
        PROVE  g[i] = IF i = 1 THEN seqs[i] ELSE kept[i - 1] \o seqs[i]
    <3>1. CASE i = 1
      <4>1. g[i] = g[i - 1] \o seqs[i] BY <1>5, Zenon
      <4>2. i - 1 = 0 BY <3>1
      <4>3. g[1] = <<>> \o seqs[1] BY <1>5, <3>1, <4>1, <4>2, Zenon
      <4>4. <<>> \o seqs[1] = seqs[1] BY <1>1, <3>1, ConcatEmptySeq
      <4>5. QED BY <3>1, <4>3, <4>4
    <3>2. CASE i # 1
      <4>1. i - 1 \in 1..n BY <1>1, <3>2
      <4>2. QED BY <1>5, <3>2, <4>1
    <3>3. QED BY <3>1, <3>2
  <2>2. QED BY <2>1
<1>7. flat = F(flat) BY <1>6
<1>8. \A i \in 0..n : i # 0 => flat[i] = g[i]
  <2> DEFINE T == {i \in Nat : i # 0 => flat[i] = g[i]}
  <2>1. 0 \in T OBVIOUS
  <2>2. ASSUME NEW i \in 1..n, i - 1 \in T PROVE i \in T
    <3>1. flat[i] = IF i = 1 THEN seqs[i] ELSE flat[i - 1] \o seqs[i]
      <4> HIDE DEF flat
      <4> QED BY <1>7
    <3>2. g[i] = IF i = 1 THEN seqs[i] ELSE g[i - 1] \o seqs[i]
      <4>1. g[i] = IF i = 1 THEN seqs[i] ELSE kept[i - 1] \o seqs[i] BY <1>6
      <4>2. i # 1 => i - 1 \in 1..n BY <1>1
      <4>3. QED BY <4>1, <4>2
    <3> HIDE DEF flat
    <3>3. i # 1 => flat[i - 1] = g[i - 1] BY <1>1, <2>2
    <3>4. flat[i] = g[i] /\ i \in Nat BY <1>1, <3>1, <3>2, <3>3
    <3>5. QED BY <3>4
  <2> HIDE DEF T
  <2>3. \A i \in 0..n : i \in T BY <1>1, <2>1, <2>2, IntervalInduction
  <2>4. QED BY <2>3 DEF T
<1> HIDE DEF flat, kept, step
<1>9. FlattenSeq(seqs) = g[n]
  <2>1. n = 0 => FlattenSeq(seqs) = <<>> BY <1>2, <1>3
  <2>2. n \in 0..n BY <1>1
  <2>3. n # 0 => FlattenSeq(seqs) = g[n] BY <1>2, <1>8, <2>2
  <2>4. QED BY <1>5, <2>1, <2>3
<1>10. QED BY <1>5, <1>9 DEF Flattening, n

\* Flattening a sequence of sequences keeps every member of each of them.
LEMMA Flattened ==
  ASSUME NEW S, NEW seqs \in Seq(Seq(S))
  PROVE  /\ FlattenSeq(seqs) \in Seq(S)
         /\ \A i \in 1..Len(seqs) : \A x :
              Occurs(x, seqs[i]) => Occurs(x, FlattenSeq(seqs))
<1>1. PICK g : Flattening(g, seqs, S) BY FlattenSteps
<1> DEFINE n == Len(seqs)
<1>2. n \in Nat /\ n \in 0..n /\ \A i \in 1..n : seqs[i] \in Seq(S) OBVIOUS
<1>3. /\ \A i \in 0..n : g[i] \in Seq(S)
      /\ \A i \in 1..n : i - 1 \in 0..n /\ g[i] = g[i - 1] \o seqs[i]
      /\ FlattenSeq(seqs) = g[n]
  BY <1>1 DEF Flattening
<1> HIDE DEF n
<1> DEFINE T == {m \in Nat : \A i \in 1..m : \A x :
                               Occurs(x, seqs[i]) => Occurs(x, g[m])}
<1>4. 0 \in T OBVIOUS
<1>5. ASSUME NEW m \in 1..n, m - 1 \in T PROVE m \in T
  <2>1. /\ g[m - 1] \in Seq(S) /\ seqs[m] \in Seq(S) /\ g[m] = g[m - 1] \o seqs[m]
    BY <1>2, <1>3
  <2>2. \A x : Occurs(x, g[m - 1]) \/ Occurs(x, seqs[m]) => Occurs(x, g[m])
    BY <2>1, OccursInConcat
  <2>3. \A i \in 1..m : i = m \/ i \in 1..(m - 1) BY <1>2
  <2>4. m \in Nat BY <1>2
  <2>5. QED BY <1>5, <2>2, <2>3, <2>4
<1> HIDE DEF T
<1>6. \A m \in 0..n : m \in T BY <1>2, <1>4, <1>5, IntervalInduction
<1>7. \A i \in 1..n : \A x : Occurs(x, seqs[i]) => Occurs(x, g[n])
  BY <1>2, <1>6 DEF T
<1>8. QED BY <1>2, <1>3, <1>7 DEF n

\* No member of a sequence is in P, or at most one is.
Free(q, P) == \A n \in 1..Len(q) : q[n] \notin P
Single(q, P) == \A m, n \in 1..Len(q) : q[m] \in P /\ q[n] \in P => m = n

\* What a concatenation has of P is what its parts have of it.
LEMMA SingleInConcat ==
  ASSUME NEW S, NEW p \in Seq(S), NEW q \in Seq(S), NEW P
  PROVE  /\ Free(p, P) /\ Free(q, P) => Free(p \o q, P)
         /\ Free(p, P) /\ Single(q, P) => Single(p \o q, P)
         /\ Single(p, P) /\ Free(q, P) => Single(p \o q, P)
<1> DEFINE r == p \o q
<1>1. Len(p) \in Nat /\ Len(q) \in Nat /\ Len(r) = Len(p) + Len(q) OBVIOUS
<1>2. ASSUME NEW n \in 1..Len(r)
      PROVE  \/ n \in 1..Len(p) /\ r[n] = p[n]
             \/ n - Len(p) \in 1..Len(q) /\ r[n] = q[n - Len(p)]
  <2>1. CASE n <= Len(p) BY <1>1, <2>1
  <2>2. CASE ~(n <= Len(p))
    <3>1. n - Len(p) \in 1..Len(q) BY <1>1, <2>2
    <3>2. r[n] = q[n - Len(p)] BY <1>1, <2>2
    <3>3. QED BY <3>1, <3>2
  <2>3. QED BY <2>1, <2>2
<1> HIDE DEF r
<1>3. Free(p, P) /\ Free(q, P) => Free(r, P) BY <1>2 DEF Free
<1>4. ASSUME Free(p, P), Single(q, P), NEW m \in 1..Len(r), NEW n \in 1..Len(r),
             r[m] \in P, r[n] \in P
      PROVE  m = n
  <2>1. /\ m - Len(p) \in 1..Len(q) /\ r[m] = q[m - Len(p)]
        /\ n - Len(p) \in 1..Len(q) /\ r[n] = q[n - Len(p)]
    BY <1>2, <1>4 DEF Free
  <2>2. m - Len(p) = n - Len(p) BY <1>4, <2>1 DEF Single
  <2>3. QED BY <1>1, <2>2
<1>5. ASSUME Single(p, P), Free(q, P), NEW m \in 1..Len(r), NEW n \in 1..Len(r),
             r[m] \in P, r[n] \in P
      PROVE  m = n
  <2>1. /\ m \in 1..Len(p) /\ r[m] = p[m]
        /\ n \in 1..Len(p) /\ r[n] = p[n]
    BY <1>2, <1>5 DEF Free
  <2>2. QED BY <1>5, <2>1 DEF Single
<1>6. QED BY <1>3, <1>4, <1>5 DEF r, Single

\* One sequence has at most one member in P and the others have none: neither
\* has the flattened sequence more.
LEMMA FlattenedSingle ==
  ASSUME NEW S, NEW seqs \in Seq(Seq(S)), NEW P, NEW at \in 1..Len(seqs),
         Single(seqs[at], P),
         \A i \in 1..Len(seqs) : i # at => Free(seqs[i], P)
  PROVE  Single(FlattenSeq(seqs), P)
<1>1. PICK g : Flattening(g, seqs, S) BY FlattenSteps
<1> DEFINE n == Len(seqs)
<1>2. n \in Nat /\ n \in 0..n /\ \A i \in 1..n : seqs[i] \in Seq(S) OBVIOUS
<1>3. /\ \A i \in 0..n : g[i] \in Seq(S)
      /\ \A i \in 1..n : i - 1 \in 0..n /\ g[i] = g[i - 1] \o seqs[i]
      /\ g[0] = <<>> /\ FlattenSeq(seqs) = g[n]
  BY <1>1 DEF Flattening
<1>4. at \in 1..n /\ Single(seqs[at], P) /\ \A i \in 1..n : i # at => Free(seqs[i], P)
  OBVIOUS
<1> HIDE DEF n
<1> DEFINE T == {m \in Nat : Single(g[m], P) /\ (m < at => Free(g[m], P))}
<1>5. 0 \in T BY <1>3 DEF Single, Free
<1>6. ASSUME NEW m \in 1..n, m - 1 \in T PROVE m \in T
  <2>1. /\ g[m - 1] \in Seq(S) /\ seqs[m] \in Seq(S) /\ g[m] = g[m - 1] \o seqs[m]
    BY <1>2, <1>3
  <2>2. m \in Nat /\ at \in Nat BY <1>2, <1>4
  <2>3. Single(g[m - 1], P) /\ (m - 1 < at => Free(g[m - 1], P)) BY <1>6
  <2>4. /\ Free(g[m - 1], P) /\ Free(seqs[m], P) => Free(g[m], P)
        /\ Free(g[m - 1], P) /\ Single(seqs[m], P) => Single(g[m], P)
        /\ Single(g[m - 1], P) /\ Free(seqs[m], P) => Single(g[m], P)
    BY <2>1, SingleInConcat
  <2>5. CASE m = at BY <1>4, <2>2, <2>3, <2>4, <2>5
  <2>6. CASE m # at
    <3>1. Free(seqs[m], P) BY <1>4, <2>6
    <3>2. m < at => m - 1 < at BY <2>2
    <3>3. QED BY <2>2, <2>3, <2>4, <3>1, <3>2
  <2>7. QED BY <2>5, <2>6
<1> HIDE DEF T
<1>7. \A m \in 0..n : m \in T BY <1>2, <1>5, <1>6, IntervalInduction
<1>8. QED BY <1>2, <1>3, <1>7 DEF T

\* When none has a member in P, neither has the flattened sequence.
LEMMA FlattenedFree ==
  ASSUME NEW S, NEW seqs \in Seq(Seq(S)), NEW P,
         \A i \in 1..Len(seqs) : Free(seqs[i], P)
  PROVE  Free(FlattenSeq(seqs), P)
<1>1. PICK g : Flattening(g, seqs, S) BY FlattenSteps
<1> DEFINE n == Len(seqs)
<1>2. n \in Nat /\ n \in 0..n /\ \A i \in 1..n : seqs[i] \in Seq(S) /\ Free(seqs[i], P)
  OBVIOUS
<1>3. /\ \A i \in 0..n : g[i] \in Seq(S)
      /\ \A i \in 1..n : i - 1 \in 0..n /\ g[i] = g[i - 1] \o seqs[i]
      /\ g[0] = <<>> /\ FlattenSeq(seqs) = g[n]
  BY <1>1 DEF Flattening
<1> HIDE DEF n
<1> DEFINE T == {m \in Nat : Free(g[m], P)}
<1>4. 0 \in T BY <1>3 DEF Free
<1>5. ASSUME NEW m \in 1..n, m - 1 \in T PROVE m \in T
  <2>1. /\ g[m - 1] \in Seq(S) /\ seqs[m] \in Seq(S) /\ g[m] = g[m - 1] \o seqs[m]
    BY <1>2, <1>3
  <2>2. m \in Nat /\ Free(g[m - 1], P) /\ Free(seqs[m], P) BY <1>2, <1>5
  <2>3. Free(g[m], P) BY <2>1, <2>2, SingleInConcat
  <2>4. QED BY <2>2, <2>3
<1> HIDE DEF T
<1>6. \A m \in 0..n : m \in T BY <1>2, <1>4, <1>5, IntervalInduction
<1>7. QED BY <1>2, <1>3, <1>6 DEF T

\* The findings of a run: a check of an audit that its audit emits.
FindingSet ==
    {f \in [audit : DOMAIN CATALOGUE, category : CategoryKeys, check : CheckType] :
       f.check \in Emitted(f.audit)}

FoundAs(r, c, check) == [audit |-> r.audit, category |-> c.key, check |-> check]

\* The findings of a category, of an audit.
CategoryFindings(r, c) == [k \in DOMAIN c.checks |-> FoundAs(r, c, c.checks[k])]
AuditFindings(r) ==
    FlattenSeq([j \in DOMAIN r.categories |-> CategoryFindings(r, r.categories[j])])

\* Every check of an audit is found as a member of S.
AllFound(r, S) ==
    \A j \in 1..Len(r.categories) : \A k \in 1..Len(r.categories[j].checks) :
      FoundAs(r, r.categories[j], r.categories[j].checks[k]) \in S

\* The findings of a category are its checks.
LEMMA CategoryFound ==
  ASSUME NEW r, NEW S, Result(r), AllFound(r, S), NEW j \in 1..Len(r.categories)
  PROVE  LET c    == r.categories[j]
             list == CategoryFindings(r, c)
         IN  /\ list \in Seq(S) /\ Len(list) = Len(c.checks)
             /\ \A k \in 1..Len(c.checks) : list[k] = FoundAs(r, c, c.checks[k])
<1> DEFINE c == r.categories[j]
           m == Len(c.checks)
           list == CategoryFindings(r, c)
<1>1. r.categories \in Seq(CategoryOf(r.audit)) BY DEF Result
<1>2. c \in CategoryOf(r.audit) BY <1>1, SeqMembers
<1>3. \A k \in 1..m : FoundAs(r, c, c.checks[k]) \in S BY DEF AllFound
<1> HIDE DEF c
<1>4. c.checks \in Seq(Emitted(r.audit)) BY <1>2 DEF CategoryOf
<1>5. m \in Nat /\ DOMAIN c.checks = 1..m BY <1>4
<1>6. /\ list = [k \in 1..m |-> list[k]]
      /\ \A k \in 1..m : list[k] = FoundAs(r, c, c.checks[k])
  BY <1>5 DEF CategoryFindings
<1> HIDE DEF list, m
<1>7. list \in Seq(S) /\ Len(list) = m BY <1>3, <1>5, <1>6
<1>8. QED BY <1>6, <1>7 DEF list, c, m

\* The findings of an audit are the checks of its categories, all of them.
LEMMA AuditFound ==
  ASSUME NEW r, NEW S, Result(r), AllFound(r, S)
  PROVE  LET each == [j \in DOMAIN r.categories |-> CategoryFindings(r, r.categories[j])]
         IN  /\ each \in Seq(Seq(S)) /\ Len(each) = Len(r.categories)
             /\ AuditFindings(r) \in Seq(S)
             /\ \A j \in 1..Len(r.categories) :
                  \A k \in 1..Len(r.categories[j].checks) :
                    Occurs(FoundAs(r, r.categories[j], r.categories[j].checks[k]),
                           AuditFindings(r))
<1> DEFINE m == Len(r.categories)
           each == [j \in DOMAIN r.categories |-> CategoryFindings(r, r.categories[j])]
<1>1. r.categories \in Seq(CategoryOf(r.audit)) BY DEF Result
<1>2. m \in Nat /\ DOMAIN r.categories = 1..m BY <1>1
<1>3. \A j \in 1..m : CategoryFindings(r, r.categories[j]) \in Seq(S) BY CategoryFound
<1>4. each = [j \in 1..m |-> CategoryFindings(r, r.categories[j])] BY <1>2
<1>5. each \in Seq(Seq(S)) /\ Len(each) = m
      /\ \A j \in 1..m : each[j] = CategoryFindings(r, r.categories[j])
  <2> HIDE DEF m
  <2>1. QED BY <1>2, <1>3, <1>4
<1>6. AuditFindings(r) = FlattenSeq(each) BY DEF AuditFindings
<1> HIDE DEF each
<1>7. /\ AuditFindings(r) \in Seq(S)
      /\ \A j \in 1..m : \A x : Occurs(x, each[j]) => Occurs(x, AuditFindings(r))
  BY <1>5, <1>6, Flattened
<1>8. ASSUME NEW j \in 1..m, NEW k \in 1..Len(r.categories[j].checks)
      PROVE  Occurs(FoundAs(r, r.categories[j], r.categories[j].checks[k]),
                    AuditFindings(r))
  <2> DEFINE list == CategoryFindings(r, r.categories[j])
             x == FoundAs(r, r.categories[j], r.categories[j].checks[k])
  <2>1. Len(list) = Len(r.categories[j].checks) /\ list[k] = x BY CategoryFound
  <2> HIDE DEF list, x
  <2>2. Occurs(x, list) BY <2>1 DEF Occurs
  <2>3. each[j] = list BY <1>5 DEF list
  <2>4. QED BY <1>7, <2>2, <2>3 DEF x
<1>9. QED BY <1>5, <1>7, <1>8 DEF each

\* The findings of a run are the checks of its results, all of them.
LEMMA RunFound ==
  ASSUME NEW results, NEW S, GoodResults(results),
         \A i \in 1..11 : AllFound(results[i], S)
  PROVE  LET each == [i \in DOMAIN results |-> AuditFindings(results[i])]
         IN  /\ each \in Seq(Seq(S)) /\ Len(each) = 11
             /\ FindingsOf(results) = FlattenSeq(each)
             /\ FindingsOf(results) \in Seq(S)
             /\ \A i \in 1..11 : \A j \in 1..Len(results[i].categories) :
                  \A k \in 1..Len(results[i].categories[j].checks) :
                    Occurs(FoundAs(results[i], results[i].categories[j],
                                   results[i].categories[j].checks[k]),
                           FindingsOf(results))
<1> DEFINE each == [i \in DOMAIN results |-> AuditFindings(results[i])]
<1>1. FindingsOf(results) = FlattenSeq(each)
  BY DEF FindingsOf, AuditFindings, CategoryFindings, FoundAs
<1>2. /\ DOMAIN results = 1..11 /\ \A i \in 1..11 : Result(results[i])
  BY DEF GoodResults
<1>3. /\ each \in Seq(Seq(S)) /\ Len(each) = 11
      /\ \A i \in 1..11 : each[i] = AuditFindings(results[i])
  <2>1. \A i \in 1..11 : AuditFindings(results[i]) \in Seq(S) BY <1>2, AuditFound
  <2>2. QED BY <1>2, <2>1
<1> HIDE DEF each
<1>4. /\ FlattenSeq(each) \in Seq(S)
      /\ \A i \in 1..11 : \A x : Occurs(x, each[i]) => Occurs(x, FlattenSeq(each))
  BY <1>3, Flattened
<1>5. ASSUME NEW i \in 1..11, NEW j \in 1..Len(results[i].categories),
             NEW k \in 1..Len(results[i].categories[j].checks)
      PROVE  Occurs(FoundAs(results[i], results[i].categories[j],
                            results[i].categories[j].checks[k]), FlattenSeq(each))
  <2> DEFINE r == results[i]
             x == FoundAs(r, r.categories[j], r.categories[j].checks[k])
  <2>1. Result(r) /\ AllFound(r, S) BY <1>2
  <2>2. j \in 1..Len(r.categories) /\ k \in 1..Len(r.categories[j].checks) OBVIOUS
  <2>3. each[i] = AuditFindings(r) BY <1>3
  <2> HIDE DEF r
  <2>4. Occurs(x, AuditFindings(r)) BY <2>1, <2>2, AuditFound
  <2> HIDE DEF x
  <2>5. Occurs(x, FlattenSeq(each)) BY <1>4, <2>3, <2>4
  <2>6. QED BY <2>5 DEF x, r
<1>6. QED BY <1>1, <1>3, <1>4, <1>5 DEF each

\* Every check of a result is a finding of what its audit emits.
LEMMA ChecksFound ==
  ASSUME NEW r, Result(r)
  PROVE  AllFound(r, FindingSet)
<1> SUFFICES ASSUME NEW j \in 1..Len(r.categories),
                    NEW k \in 1..Len(r.categories[j].checks)
             PROVE  FoundAs(r, r.categories[j], r.categories[j].checks[k]) \in FindingSet
  BY DEF AllFound
<1> DEFINE c == r.categories[j]
<1>1. r.audit \in DOMAIN CATALOGUE /\ r.categories \in Seq(CategoryOf(r.audit))
  BY DEF Result, ResultScore
<1>2. c \in CategoryOf(r.audit) BY <1>1, SeqMembers
<1>3. k \in 1..Len(c.checks) OBVIOUS
<1> HIDE DEF c
<1>4. c.key \in CategoryKeys /\ c.checks \in Seq(Emitted(r.audit))
  BY <1>2 DEF CategoryOf, CategoryType
<1>5. c.checks[k] \in Emitted(r.audit) BY <1>3, <1>4, SeqMembers
<1>6. c.checks[k] \in CheckType BY <1>5 DEF Emitted
<1>7. FoundAs(r, c, c.checks[k]) \in FindingSet
  BY <1>1, <1>4, <1>5, <1>6 DEF FoundAs, FindingSet
<1>8. QED BY <1>7 DEF c

\* The findings of a run are what the audits emit, all of it.
LEMMA FindingsGood ==
  ASSUME NEW results, GoodResults(results)
  PROVE  /\ FindingsOf(results) \in Seq(FindingSet)
         /\ \A i \in 1..11 : \A j \in 1..Len(results[i].categories) :
              \A k \in 1..Len(results[i].categories[j].checks) :
                Occurs(FoundAs(results[i], results[i].categories[j],
                               results[i].categories[j].checks[k]),
                       FindingsOf(results))
<1>1. \A i \in 1..11 : AllFound(results[i], FindingSet)
  BY ChecksFound DEF GoodResults
<1>2. QED BY <1>1, RunFound

(***************************************************************************)
(* What is looked for once                                                 *)
(***************************************************************************)
\* The checks of a key, of a secret, and the failed ones of a secret that are
\* not severe.
Keyed(key) == {c \in CheckType : c.key = key}
Secretive == {c \in CheckType : c.key \in Secrets}
Mild ==
    {c \in Secretive : c.status = "fail" /\ c.severity \notin {"critical", "high"}}

\* One category at most has a check of the key, and it has one at most.
Once(categories, key) ==
    \E at \in 1..Len(categories) :
      /\ Single(categories[at].checks, Keyed(key))
      /\ \A j \in 1..Len(categories) : j # at => Free(categories[j].checks, Keyed(key))

\* The key of a check is the one it is built with.
LEMMA KeyOf ==
  \A key, score, status, severity, tag :
    /\ Check(key, score, status, severity, tag).key = key
    /\ Passed(key, severity, tag).key = key
    /\ Warned(key, score, severity, tag).key = key
    /\ Failed(key, score, severity, tag).key = key
    /\ Informational(key, tag).key = key
BY DEF Check, Passed, Warned, Failed, Informational

\* Tuples with at most one member in P.
LEMMA TuplesOf ==
  \A P, a, b, c, d :
    /\ Single(<<a>>, P)
    /\ a \notin P => Free(<<a>>, P)
    /\ a \notin P /\ b \notin P => Free(<<a, b>>, P)
    /\ a \notin P /\ b \notin P /\ c \notin P => Free(<<a, b, c>>, P)
    /\ a \notin P /\ b \notin P /\ c \notin P /\ d \notin P => Free(<<a, b, c, d>>, P)
    /\ a \notin P /\ c \notin P => Single(<<a, b, c>>, P)
    /\ b \notin P /\ c \notin P /\ d \notin P => Single(<<a, b, c, d>>, P)
    /\ a \notin P /\ c \notin P /\ d \notin P => Single(<<a, b, c, d>>, P)
BY DEF Single, Free

\* A sequence of checks that are not in P.
LEMMA FreeSeq ==
  ASSUME NEW S, NEW P, \A x \in S : x \notin P, NEW q \in Seq(S)
  PROVE  Free(q, P)
BY SeqMembers, Zenon DEF Free

\* A certificate and a readable path are looked for once in a site, and when
\* one fails its check is severe.
LEMMA PostureSecrets ==
  ASSUME NEW o, NEW key \in Secrets
  PROVE  Single(security_posture(o), Keyed(key)) /\ Free(security_posture(o), Mild)
<1> DEFINE E == Emitted("build_security")
           a == passfail("https_enforced", o.https, "high")
           b == passfail("tls_valid", o.tls, "high")
           c == tls_expiry(o.days)
           q == header_checks(o.headers)
           d == mixed_content(o)
           e == exposed_paths(o)
           f == cookie_flags(o)
           g == info_leakage(o)
<1>1. <<a, b, c>> \in Seq(E) /\ q \in Seq(E) /\ <<d, e, f, g>> \in Seq(E)
  BY SecurityPartsEmitted
<1>2. /\ a.key = "https_enforced" /\ b.key = "tls_valid" /\ c.key = "tls_expiry"
      /\ d.key = "mixed_content" /\ e.key = "exposed_paths"
      /\ f.key = "cookie_flags" /\ g.key = "info_leakage"
  BY KeyOf DEF passfail, tls_expiry, mixed_content, exposed_paths, cookie_flags,
               info_leakage
<1>3. /\ \A i \in 1..Len(q) : q[i].key \notin Secrets
      /\ b \notin Mild /\ e \notin Mild
  <2>1. \A i \in 1..Len(SECURITY_HEADERS) : SECURITY_HEADERS[i] \notin Secrets
    BY DEF SECURITY_HEADERS, Secrets
  <2>2. Len(SECURITY_HEADERS) \in Nat BY DEF SECURITY_HEADERS
  <2>3. \A i \in 1..Len(q) : q[i].key = SECURITY_HEADERS[i] /\ i \in 1..Len(SECURITY_HEADERS)
    BY <2>2, KeyOf DEF header_checks
  <2>4. b \notin Mild /\ e \notin Mild
    BY DEF Mild, passfail, exposed_paths, Passed, Warned, Failed, Check
  <2> HIDE DEF q
  <2>5. QED BY <2>1, <2>3, <2>4
<1>4. security_posture(o) = <<a, b, c>> \o q \o <<d, e, f, g>> BY DEF security_posture
<1>5. <<a, b, c>> \o q \in Seq(E) BY <1>1
<1> HIDE DEF a, b, c, d, e, f, g, q, E
<1>6. Free(q, Keyed(key)) /\ Free(q, Mild)
  BY <1>3 DEF Free, Keyed, Mild, Secretive
<1>7. /\ a \notin Keyed(key) /\ c \notin Keyed(key) /\ d \notin Keyed(key)
      /\ f \notin Keyed(key) /\ g \notin Keyed(key)
      /\ a \notin Mild /\ c \notin Mild /\ d \notin Mild /\ f \notin Mild /\ g \notin Mild
  BY <1>2 DEF Keyed, Mild, Secretive, Secrets
<1>8. Free(<<a, b, c>>, Mild) /\ Free(<<d, e, f, g>>, Mild) BY <1>3, <1>7, TuplesOf
<1>9. Free(<<a, b, c>> \o q \o <<d, e, f, g>>, Mild)
  BY <1>1, <1>5, <1>6, <1>8, SingleInConcat
<1>10. CASE key = "tls_valid"
  <2>1. d \notin Keyed(key) /\ e \notin Keyed(key) /\ f \notin Keyed(key)
        /\ g \notin Keyed(key)
    BY <1>2, <1>7, <1>10 DEF Keyed
  <2>2. Single(<<a, b, c>>, Keyed(key)) /\ Free(<<d, e, f, g>>, Keyed(key))
    BY <1>7, <2>1, TuplesOf
  <2>3. Single(<<a, b, c>> \o q \o <<d, e, f, g>>, Keyed(key))
    BY <1>1, <1>5, <1>6, <2>2, SingleInConcat
  <2>4. QED BY <1>4, <1>9, <2>3
<1>11. CASE key = "exposed_paths"
  <2>1. b \notin Keyed(key) BY <1>2, <1>11 DEF Keyed
  <2>2. Free(<<a, b, c>>, Keyed(key)) /\ Single(<<d, e, f, g>>, Keyed(key))
    BY <1>7, <2>1, TuplesOf
  <2>3. Single(<<a, b, c>> \o q \o <<d, e, f, g>>, Keyed(key))
    BY <1>1, <1>5, <1>6, <2>2, SingleInConcat
  <2>4. QED BY <1>4, <1>9, <2>3
<1>12. QED BY <1>10, <1>11 DEF Secrets

\* No disclosed component is a secret.
LEMMA ComponentsNoSecret ==
  ASSUME NEW o, Measured(o)
  PROVE  Free(versions_vulns(o), Secretive)
<1> DEFINE Part == [product : DOMAIN component_key, version : Nat \X Nat]
           each == [i \in DOMAIN o.components |-> component_check(o.components[i])]
           last == IF \E i \in DOMAIN o.components : php_eol(o.components[i])
                   THEN Failed("known_vulnerabilities", 0, "high", INF)
                   ELSE Passed("known_vulnerabilities", "medium", INF)
           Open == {component_check(c) : c \in Part} \union {last}
<1>1. versions_vulns(o) = IF o.components = <<>>
                          THEN <<Informational("version_disclosure", OBS)>>
                          ELSE Append(each, last)
  BY DEF versions_vulns
<1>2. o.components \in Seq(Part) BY MeasuredParts
<1>3. last.key = "known_vulnerabilities" BY KeyOf
<1>4. \A c \in Part : component_check(c).key \notin Secrets
  <2>1. \A p \in DOMAIN component_key : component_key[p] \notin Secrets
    BY DEF component_key, Secrets
  <2>2. \A c \in Part : c.product \in DOMAIN component_key OBVIOUS
  <2>3. \A c : component_check(c).key = component_key[c.product]
    BY KeyOf DEF component_check
  <2> HIDE DEF Part
  <2>4. QED BY <2>1, <2>2, <2>3
<1> HIDE DEF Part, last
<1>5. each \in Seq(Open)
  <2>1. \A i \in 1..Len(o.components) : o.components[i] \in Part BY <1>2, SeqMembers
  <2>2. \A i \in 1..Len(o.components) : component_check(o.components[i]) \in Open BY <2>1
  <2>3. Len(o.components) \in Nat /\ DOMAIN o.components = 1..Len(o.components) BY <1>2
  <2>4. each = [i \in 1..Len(o.components) |-> component_check(o.components[i])] BY <2>3
  <2> HIDE DEF each, Open
  <2>5. QED BY <2>2, <2>3, <2>4
<1>6. last \in Open OBVIOUS
<1>7. \A c \in Open : c \notin Secretive BY <1>3, <1>4 DEF Secretive, Secrets
<1> HIDE DEF Open, each
<1>8. Append(each, last) \in Seq(Open) BY <1>5, <1>6
<1>9. Free(Append(each, last), Secretive) BY <1>7, <1>8, FreeSeq
<1>10. Informational("version_disclosure", OBS) \notin Secretive
  BY KeyOf DEF Secretive, Secrets
<1>11. QED BY <1>1, <1>9, <1>10, TuplesOf

\* Build quality and security looks for a secret once, and severely.
LEMMA SecretsOnce ==
  ASSUME NEW o, Measured(o)
  PROVE  /\ \A key \in Secrets : Once(BuildSecurity(o), key)
         /\ \A j \in 1..Len(BuildSecurity(o)) : Free(BuildSecurity(o)[j].checks, Mild)
<1> DEFINE all == BuildSecurity(o)
<1>1. /\ Len(all) = 5
      /\ all[1].checks = security_posture(o) /\ all[2].checks = maintenance(o)
      /\ all[3].checks = <<Informational("stack_detected", OBS)>>
      /\ all[4].checks = versions_vulns(o) /\ all[5].checks = ai_tells(o)
  BY DEF BuildSecurity, Category
<1>2. Free(maintenance(o), Secretive)
  <2>1. copyright_year(o) \notin Secretive
        /\ Informational("crawl_signals", NEEDS) \notin Secretive
    BY KeyOf DEF copyright_year, Secretive, Secrets
  <2>2. QED BY <2>1, TuplesOf DEF maintenance
<1>3. Free(<<Informational("stack_detected", OBS)>>, Secretive)
  <2>1. Informational("stack_detected", OBS) \notin Secretive
    BY KeyOf DEF Secretive, Secrets
  <2>2. QED BY <2>1, TuplesOf
<1>4. Free(ai_tells(o), Secretive)
  <2>1. PICK c : ai_tells(o) = <<c>> /\ c.key = "ai_build_likelihood"
    BY KeyOf DEF ai_tells
  <2>2. c \notin Secretive BY <2>1 DEF Secretive, Secrets
  <2>3. QED BY <2>1, <2>2, TuplesOf
<1>5. Free(versions_vulns(o), Secretive) BY ComponentsNoSecret
<1> HIDE DEF all
<1>6. \A j \in 1..5 : j # 1 => Free(all[j].checks, Secretive)
  <2>1. \A j \in 1..5 : j = 1 \/ j = 2 \/ j = 3 \/ j = 4 \/ j = 5 OBVIOUS
  <2>2. QED BY <1>1, <1>2, <1>3, <1>4, <1>5, <2>1, Zenon
<1>7. /\ Mild \subseteq Secretive /\ \A key \in Secrets : Keyed(key) \subseteq Secretive
  BY DEF Mild, Keyed, Secretive
<1>8. ASSUME NEW key \in Secrets PROVE Once(all, key)
  <2>1. Single(all[1].checks, Keyed(key)) BY <1>1, PostureSecrets
  <2>2. \A j \in 1..5 : j # 1 => Free(all[j].checks, Keyed(key))
    BY <1>6, <1>7 DEF Free
  <2>3. QED BY <1>1, <2>1, <2>2 DEF Once
<1>9. \A j \in 1..5 : Free(all[j].checks, Mild)
  <2>1. Free(all[1].checks, Mild)
    <3>1. "tls_valid" \in Secrets BY DEF Secrets
    <3>2. QED BY <1>1, <3>1, PostureSecrets
  <2>2. \A j \in 1..5 : j # 1 => Free(all[j].checks, Mild) BY <1>6, <1>7 DEF Free
  <2>3. QED BY <2>1, <2>2
<1>10. QED BY <1>1, <1>8, <1>9 DEF all

\* Technical SEO looks once for whether the home page may be indexed.
LEMMA IndexableOnce ==
  ASSUME NEW o PROVE Once(TechnicalSeo(o), "homepage_indexable")
<1> DEFINE all == TechnicalSeo(o)
           P == Keyed("homepage_indexable")
<1>1. /\ Len(all) = 5
      /\ all[1].checks = indexation(o) /\ all[2].checks = crawlability(o)
      /\ all[3].checks = site_response(o) /\ all[4].checks = mobile(o)
      /\ all[5].checks = international(o)
  BY DEF TechnicalSeo, Category
<1>2. Single(indexation(o), P)
  <2> DEFINE a == Unless(o.noindex, "homepage_indexable", "low", OBS,
                         Failed("homepage_indexable", 0, "critical", OBS))
             b == Unless(~o.canonical, "canonical_tag", "medium", OBS,
                         Warned("canonical_tag", 50, "medium", OBS))
             c == Unless(o.https # "yes", "https_canonicalisation", "medium", OBS,
                         Failed("https_canonicalisation", 0, "medium", OBS))
             d == indexed_count(o)
  <2>1. b \notin P /\ c \notin P /\ d \notin P
    BY KeyOf DEF Unless, indexed_count, Keyed
  <2>2. indexation(o) = <<a, b, c, d>> BY DEF indexation
  <2> HIDE DEF a, b, c, d, P
  <2>3. QED BY <2>1, <2>2, TuplesOf
<1>3. Free(crawlability(o), P)
  <2> DEFINE a == robots_txt(o)
             b == Unless(o.locs = {}, "xml_sitemap", "medium", OBS,
                         Warned("xml_sitemap", 50, "medium", OBS))
             c == crawl_depth(o)
             d == js_dependency(o)
             q == sitemap_coverage(o)
             r == sitemap_health(o.sample)
             S == {a, b, c, d, q[1], r[1]}
  <2>1. a \notin P /\ b \notin P /\ c \notin P /\ d \notin P
    BY KeyOf DEF robots_txt, Unless, crawl_depth, js_dependency, Keyed
  <2>2. q = <<>> \/ (q = <<q[1]>> /\ q[1].key = "sitemap_coverage")
    <3> DEFINE crawled == {p.url : p \in Ok(o.pages)}
               n == Cardinality(crawled)
               covered == Cardinality(crawled \intersect o.locs)
               most == 10 * covered >= 9 * n
               many == 10 * covered >= 6 * n
               x == IF most THEN Passed("sitemap_coverage", "low", OBS)
                    ELSE IF many THEN Warned("sitemap_coverage", 70, "medium", OBS)
                    ELSE Warned("sitemap_coverage", 40, "medium", OBS)
    <3>1. q = IF o.locs = {} \/ crawled = {} THEN <<>> ELSE <<x>> BY DEF sitemap_coverage
    <3> HIDE DEF most, many, crawled
    <3>2. x.key = "sitemap_coverage" BY KeyOf
    <3> HIDE DEF x, q
    <3>3. QED BY <3>1, <3>2
  <2>3. r = <<>> \/ (r = <<r[1]>> /\ r[1].key = "sitemap_health")
    BY KeyOf DEF sitemap_health
  <2>4. crawlability(o) = <<a, b, c, d>> \o q \o r BY DEF crawlability
  <2> HIDE DEF a, b, c, d, q, r
  <2>5. <<a, b, c, d>> \in Seq(S) /\ q \in Seq(S) /\ r \in Seq(S)
    <3>1. <<a, b, c, d>> \in Seq(S) /\ <<>> \in Seq(S) OBVIOUS
    <3>2. <<q[1]>> \in Seq(S) /\ <<r[1]>> \in Seq(S) OBVIOUS
    <3> HIDE DEF S
    <3>3. QED BY <2>2, <2>3, <3>1, <3>2
  <2>6. <<a, b, c, d>> \o q \in Seq(S) BY <2>5
  <2>7. /\ q = <<>> \/ q[1] \notin P
        /\ r = <<>> \/ r[1] \notin P
    BY <2>2, <2>3 DEF Keyed
  <2>8. Free(<<>>, P) BY DEF Free
  <2> HIDE DEF S, P
  <2>9. Free(<<a, b, c, d>>, P) /\ Free(q, P) /\ Free(r, P)
    BY <2>1, <2>2, <2>3, <2>7, <2>8, TuplesOf
  <2>10. Free(<<a, b, c, d>> \o q, P) BY <2>5, <2>9, SingleInConcat
  <2>11. Free(<<a, b, c, d>> \o q \o r, P) BY <2>5, <2>6, <2>9, <2>10, SingleInConcat
  <2>12. QED BY <2>4, <2>11
<1>4. Free(site_response(o), P)
  <2>1. PICK c : site_response(o) = <<c>> /\ c.key = "status_health"
    <3> DEFINE answered == {p \in o.pages : p.status # None}
               ok == {p \in answered : p.status \in 200..299}
               errors == {p \in answered : p.status >= 400}
               score == (100 * Cardinality(ok)) \div Cardinality(answered)
               x == IF errors = {} THEN Check("status_health", score, "pass", "low", OBS)
                    ELSE Warned("status_health", score, "medium", OBS)
               none == Informational("status_health", OBS)
    <3>1. site_response(o) = IF answered = {} THEN <<none>> ELSE <<x>>
      BY DEF site_response
    <3> HIDE DEF score, answered, errors
    <3>2. x.key = "status_health" /\ none.key = "status_health" BY KeyOf
    <3> HIDE DEF x, none
    <3>3. QED BY <3>1, <3>2
  <2>2. c \notin P BY <2>1 DEF Keyed
  <2>3. QED BY <2>1, <2>2, TuplesOf
<1>5. Free(mobile(o), P)
  <2>1. PICK c : mobile(o) = <<c>> /\ c.key = "viewport_meta"
    BY KeyOf DEF mobile, Unless
  <2>2. c \notin P BY <2>1 DEF Keyed
  <2>3. QED BY <2>1, <2>2, TuplesOf
<1>6. Free(international(o), P)
  <2>1. PICK c : international(o) = <<c>> /\ c.key = "hreflang"
    BY KeyOf DEF international, Unless
  <2>2. c \notin P BY <2>1 DEF Keyed
  <2>3. QED BY <2>1, <2>2, TuplesOf
<1> HIDE DEF all, P
<1>7. \A j \in 1..5 : j # 1 => Free(all[j].checks, P)
  <2>1. \A j \in 1..5 : j = 1 \/ j = 2 \/ j = 3 \/ j = 4 \/ j = 5 OBVIOUS
  <2>2. QED BY <1>1, <1>3, <1>4, <1>5, <1>6, <2>1, Zenon
<1>8. Single(all[1].checks, P) BY <1>1, <1>2
<1>9. QED BY <1>1, <1>7, <1>8 DEF Once, all, P

\* Analytics looks once for a measurement of the visits.
LEMMA AnalyticsOnce ==
  ASSUME NEW o PROVE Once(Analytics(o), "web_analytics")
<1> DEFINE all == Analytics(o)
           P == Keyed("web_analytics")
           unseen == Informational("measurement_unobserved", NEEDS)
<1>1. \A j \in 1..4 : \E c : all[j].checks = <<c>> /\ (j # 1 => c \notin P)
  <2>1. unseen \notin P BY KeyOf DEF Keyed
  <2>2. \E c : web_analytics(o) = <<c>> BY DEF web_analytics, layer
  <2>3. \E c : conversion(o) = <<c>> /\ c.key = "conversion_tracking"
    BY KeyOf DEF conversion, layer
  <2>4. \E c : behavioural(o) = <<c>> /\ c.key = "behavioural_analytics"
    BY KeyOf DEF behavioural, layer
  <2>5. \E c : infra(o) = <<c>> /\ c.key = "data_infrastructure"
    BY KeyOf DEF infra, layer
  <2>6. \A c : c.key \in {"conversion_tracking", "behavioural_analytics",
                          "data_infrastructure"} => c \notin P
    BY DEF Keyed
  <2>7. \/ \A j \in 1..4 : all[j].checks = <<unseen>>
        \/ /\ all[1].checks = web_analytics(o) /\ all[2].checks = conversion(o)
           /\ all[3].checks = behavioural(o) /\ all[4].checks = infra(o)
    BY DEF Analytics, Category
  <2>8. \A j \in 1..4 : j = 1 \/ j = 2 \/ j = 3 \/ j = 4 OBVIOUS
  <2> HIDE DEF all, P, unseen
  <2>9. CASE \A j \in 1..4 : all[j].checks = <<unseen>> BY <2>1, <2>9
  <2>10. CASE /\ all[1].checks = web_analytics(o) /\ all[2].checks = conversion(o)
              /\ all[3].checks = behavioural(o) /\ all[4].checks = infra(o)
    BY <2>2, <2>3, <2>4, <2>5, <2>6, <2>8, <2>10
  <2>11. QED BY <2>7, <2>9, <2>10
<1>2. Len(all) = 4 BY DEF Analytics
<1> HIDE DEF all, P
<1>3. Single(all[1].checks, P)
  <2>1. 1 \in 1..4 OBVIOUS
  <2>2. PICK c : all[1].checks = <<c>> BY <1>1, <2>1
  <2>3. QED BY <2>2, TuplesOf
<1>4. \A j \in 1..4 : j # 1 => Free(all[j].checks, P) BY <1>1, TuplesOf
<1>5. QED BY <1>2, <1>3, <1>4 DEF Once, all, P

\* The findings of a check.
Found(audit, key) == {f \in FindingSet : f.audit = audit /\ f.check.key = key}

\* What an audit looks for once, it finds once at most.
LEMMA AuditSingle ==
  ASSUME NEW r, NEW key, Result(r), Once(r.categories, key)
  PROVE  Single(AuditFindings(r), Found(r.audit, key))
<1> DEFINE n == Len(r.categories)
           P == Found(r.audit, key)
           list(j) == CategoryFindings(r, r.categories[j])
           each == [j \in DOMAIN r.categories |-> list(j)]
<1>1. PICK at \in 1..n :
        /\ Single(r.categories[at].checks, Keyed(key))
        /\ \A j \in 1..n : j # at => Free(r.categories[j].checks, Keyed(key))
  BY DEF Once
<1>2. each \in Seq(Seq(FindingSet)) /\ Len(each) = n BY ChecksFound, AuditFound
<1>3. ASSUME NEW j \in 1..n
      PROVE  /\ each[j] = list(j) /\ Len(list(j)) = Len(r.categories[j].checks)
             /\ \A k \in 1..Len(list(j)) :
                  list(j)[k] \in P => r.categories[j].checks[k] \in Keyed(key)
  <2>1. DOMAIN r.categories = 1..n BY DEF Result
  <2>2. /\ list(j) \in Seq(FindingSet) /\ Len(list(j)) = Len(r.categories[j].checks)
        /\ \A k \in 1..Len(r.categories[j].checks) :
             list(j)[k] = FoundAs(r, r.categories[j], r.categories[j].checks[k])
    BY ChecksFound, CategoryFound
  <2>3. ASSUME NEW k \in 1..Len(list(j)), list(j)[k] \in P
        PROVE  r.categories[j].checks[k] \in Keyed(key)
    <3>1. list(j)[k] = FoundAs(r, r.categories[j], r.categories[j].checks[k])
      BY <2>2
    <3>2. list(j)[k].check = r.categories[j].checks[k] BY <3>1 DEF FoundAs
    <3> HIDE DEF list
    <3>3. list(j)[k].check \in CheckType /\ list(j)[k].check.key = key
      BY <2>3 DEF Found, FindingSet
    <3>4. QED BY <3>2, <3>3 DEF Keyed
  <2> HIDE DEF list, P
  <2>4. each[j] = list(j) BY <2>1
  <2>5. QED BY <2>2, <2>3, <2>4
<1>4. AuditFindings(r) = FlattenSeq(each) BY DEF AuditFindings
<1> HIDE DEF each, list, P
<1>5. Single(each[at], P)
  <2> SUFFICES ASSUME NEW k \in 1..Len(each[at]), NEW m \in 1..Len(each[at]),
                      each[at][k] \in P, each[at][m] \in P
               PROVE  k = m
    BY DEF Single
  <2>1. /\ r.categories[at].checks[k] \in Keyed(key) /\ k \in 1..Len(r.categories[at].checks)
        /\ r.categories[at].checks[m] \in Keyed(key) /\ m \in 1..Len(r.categories[at].checks)
    BY <1>3
  <2>2. QED BY <1>1, <2>1 DEF Single
<1>6. ASSUME NEW j \in 1..n, j # at PROVE Free(each[j], P)
  BY <1>1, <1>3, <1>6 DEF Free
<1>7. Single(FlattenSeq(each), P)
  <2> HIDE DEF n
  <2>1. at \in 1..Len(each) BY <1>2
  <2>2. \A j \in 1..Len(each) : j # at => Free(each[j], P) BY <1>2, <1>6
  <2>3. QED BY <1>2, <1>5, <2>1, <2>2, FlattenedSingle
<1>8. QED BY <1>4, <1>7 DEF P

\* The audits are different.
LEMMA ModulesDiffer == \A i, j \in 1..11 : AUDIT_MODULES[i] = AUDIT_MODULES[j] => i = j
BY DEF AUDIT_MODULES

\* What the i-th audit looks for once, a run finds once at most.
LEMMA RunSingle ==
  ASSUME NEW results, GoodResults(results), NEW at \in 1..11, NEW key,
         Once(results[at].categories, key)
  PROVE  Single(FindingsOf(results), Found(AUDIT_MODULES[at], key))
<1> DEFINE P == Found(AUDIT_MODULES[at], key)
           each == [i \in DOMAIN results |-> AuditFindings(results[i])]
<1>1. /\ DOMAIN results = 1..11
      /\ \A i \in 1..11 : Result(results[i]) /\ results[i].audit = AUDIT_MODULES[i]
  BY DEF GoodResults
<1>2. /\ each \in Seq(Seq(FindingSet)) /\ Len(each) = 11
      /\ FindingsOf(results) = FlattenSeq(each)
  <2>1. \A i \in 1..11 : AllFound(results[i], FindingSet) BY <1>1, ChecksFound
  <2>2. QED BY <2>1, RunFound
<1>3. \A i \in 1..11 : each[i] = AuditFindings(results[i]) BY <1>1
<1>4. Single(each[at], P)
  <2>1. Single(AuditFindings(results[at]), Found(results[at].audit, key))
    BY <1>1, AuditSingle
  <2>2. results[at].audit = AUDIT_MODULES[at] BY <1>1
  <2>3. each[at] = AuditFindings(results[at]) BY <1>3
  <2> HIDE DEF each
  <2>4. QED BY <2>1, <2>2, <2>3
<1> HIDE DEF each
<1>5. ASSUME NEW i \in 1..11, i # at PROVE Free(each[i], P)
  <2> DEFINE r == results[i]
             Own == {f \in FindingSet : f.audit = r.audit}
  <2>1. Result(r) /\ r.audit # AUDIT_MODULES[at] BY <1>1, <1>5, ModulesDiffer
  <2>2. AllFound(r, FindingSet) BY <2>1, ChecksFound
  <2>3. AllFound(r, Own) BY <2>2 DEF AllFound, FoundAs
  <2> HIDE DEF r
  <2>4. AuditFindings(r) \in Seq(Own)
    <3> HIDE DEF Own
    <3>1. QED BY <2>1, <2>3, AuditFound
  <2>5. \A f \in Own : f \notin P BY <2>1 DEF Found
  <2> HIDE DEF Own, P
  <2>6. Free(AuditFindings(r), P) BY <2>4, <2>5, FreeSeq
  <2>7. QED BY <1>3, <2>6 DEF r
<1>6. Single(FlattenSeq(each), P) BY <1>2, <1>4, <1>5, FlattenedSingle
<1>7. QED BY <1>2, <1>6 DEF P

\* A finding of a secret that fails is severe.
SevereSecret(f) ==
    f.check.key \in Secrets /\ f.check.status = "fail" => Severe(f.check)

\* What a run finds of the urgent checks and of the secrets.
LEMMA UrgentFindings ==
  ASSUME NEW s, Measured(s), NEW faults
  PROVE  LET findings == FindingsOf(Results(s, faults))
         IN  /\ \A name \in Urgent : Single(findings, Found(name[1], name[2]))
             /\ \A i \in 1..Len(findings) : SevereSecret(findings[i])
<1> DEFINE o == Observed(s, faults)
           own == AcquiredOnly(o, faults)
           rs == Results(s, faults)
           Good == {f \in FindingSet : SevereSecret(f)}
<1>1. Measured(own) BY ObservedMeasured
<1>2. GoodResults(rs) BY ResultsGood
<1>3. /\ rs[1].categories = BuildSecurity(own)
      /\ rs[3].categories = TechnicalSeo(o) /\ rs[11].categories = Analytics(o)
  BY DEF Results, AuditResult
<1>4. /\ AUDIT_MODULES[1] = "build_security" /\ AUDIT_MODULES[3] = "technical_seo"
      /\ AUDIT_MODULES[11] = "analytics"
  BY DEF AUDIT_MODULES
<1> HIDE DEF o, own, rs
<1>5. \A key \in Secrets : Single(FindingsOf(rs), Found("build_security", key))
  <2>1. 1 \in 1..11 OBVIOUS
  <2>2. \A key \in Secrets : Once(rs[1].categories, key) BY <1>1, <1>3, SecretsOnce
  <2>3. QED BY <1>2, <1>4, <2>1, <2>2, RunSingle
<1>6. Single(FindingsOf(rs), Found("technical_seo", "homepage_indexable"))
  <2>1. 3 \in 1..11 /\ Once(rs[3].categories, "homepage_indexable")
    BY <1>3, IndexableOnce
  <2>2. QED BY <1>2, <1>4, <2>1, RunSingle
<1>7. Single(FindingsOf(rs), Found("analytics", "web_analytics"))
  <2>1. 11 \in 1..11 /\ Once(rs[11].categories, "web_analytics")
    BY <1>3, AnalyticsOnce
  <2>2. QED BY <1>2, <1>4, <2>1, RunSingle
<1>8. \A name \in Urgent : Single(FindingsOf(rs), Found(name[1], name[2]))
  BY <1>5, <1>6, <1>7 DEF Urgent, Secrets
<1>9. ASSUME NEW i \in 1..11 PROVE AllFound(rs[i], Good)
  <2>1. Result(rs[i]) /\ rs[i].audit = AUDIT_MODULES[i] BY <1>2 DEF GoodResults
  <2>2. AllFound(rs[i], FindingSet) BY <2>1, ChecksFound
  <2> SUFFICES ASSUME NEW j \in 1..Len(rs[i].categories),
                      NEW k \in 1..Len(rs[i].categories[j].checks)
               PROVE  FoundAs(rs[i], rs[i].categories[j],
                              rs[i].categories[j].checks[k]) \in Good
    BY DEF AllFound
  <2> DEFINE check == rs[i].categories[j].checks[k]
             f == FoundAs(rs[i], rs[i].categories[j], check)
  <2>3. f \in FindingSet BY <2>2 DEF AllFound
  <2>4. f.check = check /\ f.audit = AUDIT_MODULES[i] BY <2>1 DEF FoundAs
  <2>5. f.check \in CheckType /\ f.audit \in DOMAIN CATALOGUE
        /\ f.check.key \in Explained(f.audit)
    <3> HIDE DEF f
    <3>1. QED BY <2>3 DEF FindingSet, Emitted
  <2>6. i = 1 => check \notin Mild
    <3>1. SUFFICES ASSUME i = 1 PROVE check \notin Mild OBVIOUS
    <3>2. Free(rs[1].categories[j].checks, Mild) BY <1>1, <1>3, <3>1, SecretsOnce
    <3>3. QED BY <3>1, <3>2 DEF Free
  <2> HIDE DEF f, check
  <2>7. SevereSecret(f)
    <3>1. SUFFICES ASSUME f.check.key \in Secrets, f.check.status = "fail"
                   PROVE  Severe(f.check)
      BY DEF SevereSecret
    <3>2. f.audit = "build_security" BY <2>5, <3>1, UrgentChecks
    <3>3. 1 \in 1..11 OBVIOUS
    <3>4. i = 1 BY <1>4, <2>4, <3>2, <3>3, ModulesDiffer
    <3>5. f.check \notin Mild BY <2>4, <2>6, <3>4
    <3>6. f.check.severity \in {"critical", "high"}
      BY <2>5, <3>1, <3>5 DEF Mild, Secretive
    <3>7. QED BY <3>6 DEF Severe
  <2>8. QED BY <2>3, <2>7 DEF f, check
<1>10. FindingsOf(rs) \in Seq(Good)
  <2> HIDE DEF Good
  <2>1. QED BY <1>2, <1>9, RunFound
<1>11. \A f \in Good : SevereSecret(f) OBVIOUS
<1> HIDE DEF Good
<1>12. \A i \in 1..Len(FindingsOf(rs)) : SevereSecret(FindingsOf(rs)[i])
  BY <1>10, <1>11, SeqMembers, Zenon
<1>13. QED BY <1>8, <1>12 DEF rs

(***************************************************************************)
(* What a source that fails changes                                        *)
(***************************************************************************)
\* Two sets of facts have some facts and agree on them; an overlay has none
\* of them.
Agree(a, b, names) ==
    names \subseteq DOMAIN a /\ names \subseteq DOMAIN b /\ Alike(a, b, names)
Away(overlay, names) == \A f \in names : f \notin DOMAIN overlay

\* The same overlay, or two that have none of the facts, keep the agreement.
LEMMA OverAgree ==
  ASSUME NEW a, NEW b, NEW names, Agree(a, b, names), NEW x, NEW y,
         x = y \/ (Away(x, names) /\ Away(y, names))
  PROVE  Agree(Over(x, a), Over(y, b), names)
BY DEF Agree, Alike, Away, Over

\* A source failed in both runs or in none, and a run had no page to render.
Same(f, F, G) == f \in F <=> f \in G
Unrendered(F) == F \intersect {"browser", "timeout"} # {}

\* What two runs reach of a site agrees on the facts that no source gives
\* which failed in one of them alone.
LEMMA ReachedAgree ==
  ASSUME NEW s, NEW names, names \subseteq DOMAIN s, NEW F, NEW G,
         Same("fetch", F, G) \/ Away(NoFetch, names),
         \/ Same("browser", F, G) /\ Same("timeout", F, G)
         \/ /\ "rendered_links" \notin names
            /\ \A requests : Away(NoRender(requests), names),
         \/ (Unrendered(F) /\ "fetch" \in F) <=> (Unrendered(G) /\ "fetch" \in G)
         \/ Away(NoPage, names),
         Same("pagespeed", F, G) \/ "pagespeed" \notin names,
         Same("ga4", F, G) \/ "ga4" \notin names,
         Same("search_console", F, G) \/ "gsc" \notin names,
         Same("llm", F, G) \/ ("coverage" \notin names /\ "verdict" \notin names)
  PROVE  Agree(Reached(s, F), Reached(s, G), names)
<1> DEFINE x1(H) == When("fetch" \in H, NoFetch)
           x2(H) == When(Unrendered(H), [rendered_links |-> s.raw_links])
           x3(H) == When(Unrendered(H), NoRender("timeout" \in H))
           x4(H) == When(Unrendered(H) /\ "fetch" \in H, NoPage)
           x5(H) == When("pagespeed" \in H, [pagespeed |-> FALSE])
           x6(H) == When("ga4" \in H, [ga4 |-> FALSE])
           x7(H) == When("search_console" \in H, [gsc |-> None])
           x8(H) == When("llm" \in H, [coverage |-> None, verdict |-> None])
           Kept(x, y) == x = y \/ (Away(x, names) /\ Away(y, names))
<1>1. Kept(x1(F), x1(G)) BY DEF When, Away, Same
<1>2. Kept(x2(F), x2(G)) BY DEF When, Away, Same, Unrendered
<1>3. Kept(x3(F), x3(G))
  <2>1. CASE Same("browser", F, G) /\ Same("timeout", F, G)
    <3>1. Unrendered(F) <=> Unrendered(G) BY <2>1 DEF Same, Unrendered
    <3>2. CASE "timeout" \in F
      <4>1. ("timeout" \in F) = TRUE /\ ("timeout" \in G) = TRUE
        BY <2>1, <3>2, Zenon DEF Same
      <4>2. x3(F) = When(Unrendered(F), NoRender(TRUE))
            /\ x3(G) = When(Unrendered(G), NoRender(TRUE))
        BY <4>1, Zenon
      <4>3. QED BY <3>1, <4>2 DEF When
    <3>3. CASE "timeout" \notin F
      <4>1. ("timeout" \in F) = FALSE /\ ("timeout" \in G) = FALSE
        <5>1. "timeout" \notin F /\ "timeout" \notin G BY <2>1, <3>3 DEF Same
        <5>2. QED BY <5>1
      <4>2. x3(F) = When(Unrendered(F), NoRender(FALSE))
            /\ x3(G) = When(Unrendered(G), NoRender(FALSE))
        BY <4>1, Zenon
      <4>3. QED BY <3>1, <4>2 DEF When
    <3>4. QED BY <3>2, <3>3
  <2>2. CASE \A requests : Away(NoRender(requests), names)
    <3>1. \A H : Away(NoRender("timeout" \in H), names) BY <2>2
    <3>2. QED BY <3>1 DEF When, Away
  <2>3. QED BY <2>1, <2>2
<1>4. Kept(x4(F), x4(G)) BY DEF When, Away
<1>5. Kept(x5(F), x5(G)) BY DEF When, Away, Same
<1>6. Kept(x6(F), x6(G)) BY DEF When, Away, Same
<1>7. Kept(x7(F), x7(G)) BY DEF When, Away, Same
<1>8. Kept(x8(F), x8(G)) BY DEF When, Away, Same
<1>9. \A H : Reached(s, H) = Over(x8(H), Over(x7(H), Over(x6(H), Over(x5(H),
               Over(x4(H), Over(x3(H), Over(x2(H), Over(x1(H), s))))))))
  BY DEF Reached, Unrendered
<1>10. Agree(s, s, names) BY DEF Agree, Alike
<1> HIDE DEF x1, x2, x3, x4, x5, x6, x7, x8
<1> DEFINE y1(H) == Over(x1(H), s)
           y2(H) == Over(x2(H), y1(H))
           y3(H) == Over(x3(H), y2(H))
           y4(H) == Over(x4(H), y3(H))
           y5(H) == Over(x5(H), y4(H))
           y6(H) == Over(x6(H), y5(H))
           y7(H) == Over(x7(H), y6(H))
           y8(H) == Over(x8(H), y7(H))
<1>11. Agree(y1(F), y1(G), names) BY <1>1, <1>10, OverAgree
<1> HIDE DEF y1
<1>12. Agree(y2(F), y2(G), names) BY <1>2, <1>11, OverAgree
<1> HIDE DEF y2
<1>13. Agree(y3(F), y3(G), names) BY <1>3, <1>12, OverAgree
<1> HIDE DEF y3
<1>14. Agree(y4(F), y4(G), names) BY <1>4, <1>13, OverAgree
<1> HIDE DEF y4
<1>15. Agree(y5(F), y5(G), names) BY <1>5, <1>14, OverAgree
<1> HIDE DEF y5
<1>16. Agree(y6(F), y6(G), names) BY <1>6, <1>15, OverAgree
<1> HIDE DEF y6
<1>17. Agree(y7(F), y7(G), names) BY <1>7, <1>16, OverAgree
<1> HIDE DEF y7
<1>18. Agree(y8(F), y8(G), names) BY <1>8, <1>17, OverAgree
<1> HIDE DEF y8
<1>19. Reached(s, F) = y8(F) /\ Reached(s, G) = y8(G)
  BY <1>9 DEF y1, y2, y3, y4, y5, y6, y7, y8
<1>20. QED BY <1>18, <1>19

\* What the observation derives from the facts, one by one.
Derived(pages, brand, title, h1s, headline, locs, sample, dates, posts, blocks,
        objects, systems, tel, tls, days) ==
    LET found  == IF blocks > 0 THEN objects ELSE <<>>
        types  == collect_types(found)
        titles == TitlesOf(pages)
    IN  [titles       |-> titles,
         branded      |-> IF ~brand \/ title = 0 THEN None
                          ELSE Len(SelectSeq(titles, LAMBDA t : t # "other")),
         sample       |-> IF locs # {} THEN sample ELSE NoFetch.sample,
         dates        |-> IF locs # {} THEN dates ELSE <<>>,
         content      |-> (IF locs # {} THEN posts ELSE 0) + Cardinality(PostsOf(pages)),
         headline     |-> headline /\ h1s > 0,
         objects      |-> found,
         faqpage      |-> "FAQPage" \in types,
         local_markup |-> "LocalBusiness" \in types,
         systems      |-> systems \union (IF tel THEN {"phone"} ELSE {}),
         contact      |-> tel \/ "email" \in systems,
         days         |-> IF tls = "yes" THEN days ELSE None]

DerivedNames ==
    {"titles", "branded", "sample", "dates", "content", "headline", "objects",
     "faqpage", "local_markup", "systems", "contact", "days"}
DerivedFrom ==
    {"pages", "brand", "title", "h1s", "headline", "locs", "sample", "dates",
     "posts", "blocks", "objects", "systems", "tel", "tls", "days"}

DerivedOf(r) ==
    Derived(r.pages, r.brand, r.title, r.h1s, r.headline, r.locs, r.sample,
            r.dates, r.posts, r.blocks, r.objects, r.systems, r.tel, r.tls, r.days)

\* An observation is what was reached under what is derived from it.
LEMMA ObservedOver ==
  ASSUME NEW s, NEW F
  PROVE  Observed(s, F) = Over(DerivedOf(Reached(s, F)), Reached(s, F))
BY DEF Observed, DerivedOf, Derived, tls_days

\* The names of what is derived, and two facts that build security reads.
LEMMA DerivedParts ==
  ASSUME NEW r
  PROVE  /\ DOMAIN DerivedOf(r) = DerivedNames
         /\ DerivedOf(r).days = IF r.tls = "yes" THEN r.days ELSE None
         /\ DerivedOf(r).contact = (r.tel \/ "email" \in r.systems)
<1> DEFINE found == IF r.blocks > 0 THEN r.objects ELSE <<>>
           types == collect_types(found)
           titles == TitlesOf(r.pages)
           branded == IF ~r.brand \/ r.title = 0 THEN None
                      ELSE Len(SelectSeq(titles, LAMBDA t : t # "other"))
           own == [titles |-> titles, branded |-> branded,
                   sample |-> IF r.locs # {} THEN r.sample ELSE NoFetch.sample,
                   dates |-> IF r.locs # {} THEN r.dates ELSE <<>>,
                   content |-> (IF r.locs # {} THEN r.posts ELSE 0)
                                 + Cardinality(PostsOf(r.pages)),
                   headline |-> r.headline /\ r.h1s > 0,
                   objects |-> found, faqpage |-> "FAQPage" \in types,
                   local_markup |-> "LocalBusiness" \in types,
                   systems |-> r.systems \union (IF r.tel THEN {"phone"} ELSE {}),
                   contact |-> r.tel \/ "email" \in r.systems,
                   days |-> IF r.tls = "yes" THEN r.days ELSE None]
<1>1. DerivedOf(r) = own BY DEF DerivedOf, Derived
<1> HIDE DEF found, types, titles, branded
<1>2. DOMAIN own = DerivedNames BY DEF DerivedNames
<1>3. /\ own.days = IF r.tls = "yes" THEN r.days ELSE None
      /\ own.contact = (r.tel \/ "email" \in r.systems)
  OBVIOUS
<1>4. QED BY <1>1, <1>2, <1>3

\* What two runs that fetch and render alike observe of a site agrees on the
\* facts that no other source gives which failed in one of them alone.
LEMMA ObservedAgree ==
  ASSUME NEW s, Measured(s), NEW names \in SUBSET FactNames, DerivedFrom \subseteq names,
         NEW F, NEW G,
         Same("fetch", F, G), Same("browser", F, G), Same("timeout", F, G),
         Same("pagespeed", F, G) \/ "pagespeed" \notin names,
         Same("ga4", F, G) \/ "ga4" \notin names,
         Same("search_console", F, G) \/ "gsc" \notin names,
         Same("llm", F, G) \/ ("coverage" \notin names /\ "verdict" \notin names)
  PROVE  Alike(Observed(s, F), Observed(s, G), names \union DerivedNames)
<1> DEFINE a == Reached(s, F)
           b == Reached(s, G)
<1>1. Agree(a, b, names)
  <2>1. names \subseteq DOMAIN s BY DEF Measured
  <2>2. Unrendered(F) <=> Unrendered(G) BY DEF Same, Unrendered
  <2>3. (Unrendered(F) /\ "fetch" \in F) <=> (Unrendered(G) /\ "fetch" \in G)
    BY <2>2 DEF Same
  <2>4. QED BY <2>1, <2>3, ReachedAgree
<1>2. DerivedOf(a) = DerivedOf(b)
  <2>1. \A f \in DerivedFrom : a[f] = b[f] BY <1>1 DEF Agree, Alike
  <2> HIDE DEF a, b
  <2>2. /\ a.pages = b.pages /\ a.brand = b.brand /\ a.title = b.title
        /\ a.h1s = b.h1s /\ a.headline = b.headline /\ a.locs = b.locs
        /\ a.sample = b.sample /\ a.dates = b.dates /\ a.posts = b.posts
        /\ a.blocks = b.blocks /\ a.objects = b.objects
        /\ a.systems = b.systems /\ a.tel = b.tel /\ a.tls = b.tls
        /\ a.days = b.days
    BY <2>1 DEF DerivedFrom
  <2>3. QED BY <2>2 DEF DerivedOf
<1>3. /\ Observed(s, F) = Over(DerivedOf(a), a)
      /\ Observed(s, G) = Over(DerivedOf(b), b)
  BY ObservedOver
<1>4. DOMAIN DerivedOf(a) = DerivedNames BY DerivedParts
<1> HIDE DEF a, b
<1>5. QED BY <1>1, <1>2, <1>3, <1>4 DEF Agree, Alike, Over

\* What analytics reads comes from the browser and from GA4 alone.
LEMMA AnalyticsAlike ==
  ASSUME NEW s, Measured(s), NEW F, NEW G,
         Same("browser", F, G), Same("timeout", F, G), Same("ga4", F, G)
  PROVE  Alike(Observed(s, F), Observed(s, G), Reads.analytics)
<1> DEFINE names == {"html", "requests", "tags", "ga4"}
           a == Reached(s, F)
           b == Reached(s, G)
<1>1. Reads.analytics = names BY DEF Reads
<1>2. names \subseteq DOMAIN s BY DEF Measured, FactNames
<1>3. Away(NoFetch, names) /\ Away(NoPage, names) BY DEF Away, NoFetch, NoPage
<1>4. /\ "pagespeed" \notin names /\ "gsc" \notin names /\ "coverage" \notin names
      /\ "verdict" \notin names /\ \A f \in names : f \notin DerivedNames
  BY DEF DerivedNames
<1> HIDE DEF names
<1>5. Agree(a, b, names) BY <1>2, <1>3, <1>4, ReachedAgree
<1>6. Away(DerivedOf(a), names) /\ Away(DerivedOf(b), names)
  BY <1>4, DerivedParts DEF Away
<1>7. /\ Observed(s, F) = Over(DerivedOf(a), a)
      /\ Observed(s, G) = Over(DerivedOf(b), b)
  BY ObservedOver
<1> HIDE DEF a, b
<1>8. Agree(Over(DerivedOf(a), a), Over(DerivedOf(b), b), names)
  BY <1>5, <1>6, OverAgree
<1>9. QED BY <1>1, <1>7, <1>8 DEF Agree

\* What build security reads comes from the fetch and from the handshake: it
\* does not read the rendered page in the place of one that was not fetched.
LEMMA BuildSecurityAlike ==
  ASSUME NEW s, Measured(s), NEW F, NEW G, Same("fetch", F, G)
  PROVE  Alike(AcquiredOnly(Observed(s, F), F), AcquiredOnly(Observed(s, G), G),
               Reads.build_security)
<1> DEFINE plain == {"https", "tls", "headers", "insecure_refs", "exposed",
                     "set_cookie", "leaks_version", "components", "builder",
                     "boilerplate"}
           names == plain \union {"days"}
           a == Reached(s, F)
           b == Reached(s, G)
           o == Observed(s, F)
           p == Observed(s, G)
<1>1. Reads.build_security = plain \union {"days", "contact", "year_age"}
  BY DEF Reads
<1>2. FactNames \subseteq DOMAIN s BY DEF Measured
<1>3. /\ o = Over(DerivedOf(a), a) /\ p = Over(DerivedOf(b), b)
      /\ DOMAIN DerivedOf(a) = DerivedNames /\ DOMAIN DerivedOf(b) = DerivedNames
      /\ DerivedOf(a).days = (IF a.tls = "yes" THEN a.days ELSE None)
      /\ DerivedOf(b).days = (IF b.tls = "yes" THEN b.days ELSE None)
      /\ DerivedOf(a).contact = (a.tel \/ "email" \in a.systems)
      /\ DerivedOf(b).contact = (b.tel \/ "email" \in b.systems)
  BY ObservedOver, DerivedParts
<1>4. \A f \in plain : f \notin DerivedNames BY DEF DerivedNames
<1>5. names \subseteq FactNames BY DEF FactNames, Measures
<1>6. \A requests : Away(NoRender(requests), names) BY DEF Away, NoRender
<1>7. Away(NoPage, names) BY DEF Away, NoPage
<1>8. /\ "rendered_links" \notin names /\ "pagespeed" \notin names /\ "ga4" \notin names
      /\ "gsc" \notin names /\ "coverage" \notin names /\ "verdict" \notin names
  OBVIOUS
<1>9. plain \subseteq names /\ "days" \in names /\ "tls" \in names OBVIOUS
<1>10. "days" \in DerivedNames /\ "contact" \in DerivedNames BY DEF DerivedNames
<1> HIDE DEF plain, names
<1>11. Agree(a, b, names) BY <1>2, <1>5, <1>6, <1>7, <1>8, ReachedAgree
<1> HIDE DEF a, b
<1>12. Alike(o, p, plain)
  BY <1>3, <1>4, <1>9, <1>11 DEF Agree, Alike, Over
<1>13. o.days = p.days
  <2>1. o.days = DerivedOf(a).days /\ p.days = DerivedOf(b).days
    BY <1>3, <1>10 DEF Over
  <2>2. a.days = b.days /\ a.tls = b.tls BY <1>9, <1>11 DEF Agree, Alike
  <2>3. QED BY <1>3, <2>1, <2>2
<1>14. CASE "fetch" \in F
  <2>1. /\ AcquiredOnly(o, F) = [o EXCEPT !.year_age = None, !.contact = FALSE]
        /\ AcquiredOnly(p, G) = [p EXCEPT !.year_age = None, !.contact = FALSE]
    BY <1>14 DEF AcquiredOnly, Same
  <2>2. Measured(o) /\ Measured(p) BY ObservedMeasured
  <2>3. "contact" \in DOMAIN o /\ "contact" \in DOMAIN p BY <1>3, <1>10 DEF Over
  <2>4. "year_age" \in DOMAIN o /\ "year_age" \in DOMAIN p
    BY <2>2 DEF Measured, FactNames
  <2>5. \A f \in plain : f # "year_age" /\ f # "contact" BY DEF plain
  <2>6. "days" # "year_age" /\ "days" # "contact" /\ "year_age" # "contact" OBVIOUS
  <2> HIDE DEF o, p, plain
  <2> DEFINE c == AcquiredOnly(o, F)
             d == AcquiredOnly(p, G)
  <2>7. /\ c.year_age = None /\ c.contact = FALSE
        /\ d.year_age = None /\ d.contact = FALSE
    BY <2>1, <2>3, <2>4
  <2>8. /\ "days" \in DOMAIN o /\ "days" \in DOMAIN p BY <1>3, <1>10 DEF Over, o, p
  <2>9. c.days = o.days /\ d.days = p.days BY <2>1, <2>6, <2>8
  <2>10. \A f \in plain : f \in DOMAIN o /\ f \in DOMAIN p
    <3>1. \A f \in plain : f \in DOMAIN a /\ f \in DOMAIN b
      BY <1>9, <1>11 DEF Agree
    <3>2. QED BY <1>3, <3>1 DEF Over, o, p
  <2>11. \A f \in plain : c[f] = o[f] /\ d[f] = p[f] BY <2>1, <2>5, <2>10
  <2> HIDE DEF c, d
  <2>12. Alike(c, d, Reads.build_security)
    BY <1>1, <1>12, <1>13, <2>7, <2>9, <2>11 DEF Alike
  <2>13. QED BY <2>12 DEF c, d, o, p
<1>15. CASE "fetch" \notin F
  <2> DEFINE more == {"tel", "systems", "year_age"}
  <2>1. AcquiredOnly(o, F) = o /\ AcquiredOnly(p, G) = p
    BY <1>15 DEF AcquiredOnly, Same
  <2>2. Agree(a, b, more)
    <3>1. more \subseteq DOMAIN s BY <1>2 DEF FactNames
    <3>2. \A requests : Away(NoRender(requests), more) BY DEF Away, NoRender
    <3>3. /\ "rendered_links" \notin more /\ "pagespeed" \notin more /\ "ga4" \notin more
          /\ "gsc" \notin more /\ "coverage" \notin more /\ "verdict" \notin more
      OBVIOUS
    <3>4. (Unrendered(F) /\ "fetch" \in F) <=> (Unrendered(G) /\ "fetch" \in G)
      BY <1>15 DEF Same
    <3> HIDE DEF more
    <3>5. QED BY <3>1, <3>2, <3>3, <3>4, ReachedAgree DEF a, b
  <2>3. a.tel = b.tel /\ a.systems = b.systems /\ a.year_age = b.year_age
        /\ "year_age" \in DOMAIN a /\ "year_age" \in DOMAIN b
    BY <2>2 DEF Agree, Alike
  <2>4. o.contact = p.contact
    <3>1. o.contact = DerivedOf(a).contact /\ p.contact = DerivedOf(b).contact
      BY <1>3, <1>10 DEF Over
    <3>2. QED BY <1>3, <2>3, <3>1
  <2>5. o.year_age = p.year_age
    <3>1. "year_age" \notin DerivedNames BY DEF DerivedNames
    <3>2. QED BY <1>3, <2>3, <3>1 DEF Over
  <2>6. QED BY <1>1, <1>12, <1>13, <2>1, <2>4, <2>5 DEF Alike
<1>16. QED BY <1>14, <1>15 DEF o, p

\* An audit reads no source that failed in one of two runs alone.
Unread(audit, F, G) ==
    audit \notin UNION {ReadersOf(f) : f \in (F \ G) \union (G \ F)}

\* A source that such an audit reads failed in both runs or in none.
LEMMA UnreadSame ==
  ASSUME NEW audit, NEW F, NEW G, Unread(audit, F, G),
         NEW f, audit \in ReadersOf(f)
  PROVE  Same(f, F, G)
<1> DEFINE R(x) == ReadersOf(x)
<1>1. \A x \in (F \ G) \union (G \ F) : audit \notin R(x)
  <2>1. audit \notin UNION {R(x) : x \in (F \ G) \union (G \ F)} BY DEF Unread
  <2> HIDE DEF R
  <2>2. QED BY <2>1
<1> HIDE DEF R
<1>2. audit \in R(f) BY DEF R
<1>3. QED BY <1>1, <1>2 DEF Same

\* The facts that one source gives and no other.
SourceFacts == {"pagespeed", "gsc", "ga4", "coverage", "verdict"}

\* The audits of the rendered page.
OfThePage ==
    {"compliance", "technical_seo", "on_page_seo", "schema", "content_quality",
     "performance", "messaging", "geo", "content_strategy"}

\* An audit of the rendered page reads facts of the site and what is derived
\* from them, and is among the readers of each source of those facts.
LEMMA Sources ==
  ASSUME NEW audit \in OfThePage
  PROVE  /\ audit \in ReadersOf("fetch") /\ audit \in ReadersOf("browser")
         /\ audit \in ReadersOf("timeout")
         /\ Reads[audit] \subseteq FactNames \union DerivedNames
         /\ "pagespeed" \in Reads[audit] => audit \in ReadersOf("pagespeed")
         /\ "gsc" \in Reads[audit] => audit \in ReadersOf("search_console")
         /\ "ga4" \in Reads[audit] => audit \in ReadersOf("ga4")
         /\ "coverage" \in Reads[audit] => audit \in ReadersOf("llm")
         /\ "verdict" \in Reads[audit] => audit \in ReadersOf("llm")
<1>1. audit \in Range(AuditsByName)
  <2>1. \A i \in 1..11 : AuditsByName[i] \in Range(AuditsByName)
    BY DEF AuditsByName, Range
  <2>2. /\ AuditsByName[3] = "compliance" /\ AuditsByName[4] = "content_quality"
        /\ AuditsByName[5] = "content_strategy" /\ AuditsByName[6] = "geo"
        /\ AuditsByName[7] = "messaging" /\ AuditsByName[8] = "on_page_seo"
        /\ AuditsByName[9] = "performance" /\ AuditsByName[10] = "schema"
        /\ AuditsByName[11] = "technical_seo"
    BY DEF AuditsByName
  <2>3. QED BY <2>1, <2>2 DEF OfThePage
<1>2. audit # "analytics" /\ audit # "build_security" BY DEF OfThePage
<1>3. /\ audit \in ReadersOf("fetch") /\ audit \in ReadersOf("browser")
      /\ audit \in ReadersOf("timeout")
  BY <1>1, <1>2 DEF ReadersOf
<1>4. Reads[audit] \subseteq FactNames \union DerivedNames
  <2>1. CASE audit \in {"compliance", "technical_seo", "on_page_seo"}
    BY <2>1 DEF Reads, FactNames, Measures, DerivedNames
  <2>2. CASE audit \in {"schema", "content_quality", "performance"}
    BY <2>2 DEF Reads, FactNames, Measures, DerivedNames
  <2>3. CASE audit \in {"messaging", "geo", "content_strategy"}
    BY <2>3 DEF Reads, FactNames, Measures, DerivedNames
  <2>4. QED BY <2>1, <2>2, <2>3 DEF OfThePage
<1>5. /\ "pagespeed" \in Reads[audit] => audit = "performance"
      /\ "gsc" \in Reads[audit] => audit \in {"technical_seo", "on_page_seo"}
      /\ "ga4" \notin Reads[audit]
      /\ "coverage" \in Reads[audit] => audit = "geo"
      /\ "verdict" \in Reads[audit] => audit = "content_strategy"
  <2>1. CASE audit \in {"compliance", "technical_seo", "on_page_seo"}
    BY <2>1 DEF Reads
  <2>2. CASE audit \in {"schema", "content_quality", "performance"}
    BY <2>2 DEF Reads
  <2>3. CASE audit \in {"messaging", "geo", "content_strategy"}
    BY <2>3 DEF Reads
  <2>4. QED BY <2>1, <2>2, <2>3 DEF OfThePage
<1>6. /\ "performance" \in ReadersOf("pagespeed")
      /\ {"technical_seo", "on_page_seo"} \subseteq ReadersOf("search_console")
      /\ {"geo", "content_strategy"} \subseteq ReadersOf("llm")
  BY DEF ReadersOf
<1>7. QED BY <1>3, <1>4, <1>5, <1>6

\* Two runs agree on what an audit of the rendered page reads, unless one of
\* its sources failed in one of them alone.
LEMMA PageAlike ==
  ASSUME NEW s, Measured(s), NEW F, NEW G,
         NEW audit \in OfThePage, Unread(audit, F, G)
  PROVE  Alike(Observed(s, F), Observed(s, G), Reads[audit])
<1> DEFINE names == FactNames \ (SourceFacts \ Reads[audit])
<1>1. \A f : audit \in ReadersOf(f) => Same(f, F, G) BY UnreadSame
<1>2. Same("fetch", F, G) /\ Same("browser", F, G) /\ Same("timeout", F, G)
  BY <1>1, Sources
<1>3. /\ Same("pagespeed", F, G) \/ "pagespeed" \notin names
      /\ Same("ga4", F, G) \/ "ga4" \notin names
      /\ Same("search_console", F, G) \/ "gsc" \notin names
      /\ Same("llm", F, G) \/ ("coverage" \notin names /\ "verdict" \notin names)
  BY <1>1, Sources DEF SourceFacts
<1>4. DerivedFrom \subseteq names
  <2>1. DerivedFrom \subseteq FactNames BY DEF DerivedFrom, FactNames, Measures
  <2>2. \A f \in DerivedFrom : f \notin SourceFacts BY DEF DerivedFrom, SourceFacts
  <2>3. QED BY <2>1, <2>2
<1>5. names \in SUBSET FactNames OBVIOUS
<1>6. Reads[audit] \subseteq names \union DerivedNames BY Sources
<1> HIDE DEF names
<1>7. Alike(Observed(s, F), Observed(s, G), names \union DerivedNames)
  BY <1>2, <1>3, <1>4, <1>5, ObservedAgree
<1>8. QED BY <1>6, <1>7 DEF Alike

\* An audit answers the same in two runs over a site unless it reads a source
\* that failed in one of them alone.
LEMMA Contained ==
  ASSUME NEW s, Measured(s), NEW F, NEW G,
         NEW i \in 1..11, Unread(AUDIT_MODULES[i], F, G)
  PROVE  Results(s, F)[i] = Results(s, G)[i]
<1> DEFINE o == Observed(s, F)
           p == Observed(s, G)
           c == AcquiredOnly(o, F)
           d == AcquiredOnly(p, G)
           R(x) == Unread(x, F, G)
           A(x) == Alike(o, p, Reads[x])
<1>1. \A x \in OfThePage : R(x) => A(x) BY PageAlike
<1>2. R("build_security") => Alike(c, d, Reads.build_security)
  <2>1. "build_security" \in ReadersOf("fetch")
    <3>1. AuditsByName[2] = "build_security" /\ 2 \in DOMAIN AuditsByName
      BY DEF AuditsByName
    <3>2. "build_security" \in Range(AuditsByName) BY <3>1 DEF Range
    <3>3. QED BY <3>2 DEF ReadersOf
  <2>2. QED BY <2>1, UnreadSame, BuildSecurityAlike
<1>3. R("analytics") => A("analytics")
  <2>1. /\ "analytics" \in ReadersOf("browser") /\ "analytics" \in ReadersOf("timeout")
        /\ "analytics" \in ReadersOf("ga4")
    <3>1. AuditsByName[1] = "analytics" /\ 1 \in DOMAIN AuditsByName
      BY DEF AuditsByName
    <3>2. "analytics" \in Range(AuditsByName) BY <3>1 DEF Range
    <3>3. QED BY <3>2 DEF ReadersOf
  <2>2. QED BY <2>1, UnreadSame, AnalyticsAlike
<1>4. /\ \A H : Results(s, H)[1] = AuditResult("build_security",
                  BuildSecurity(AcquiredOnly(Observed(s, H), H)))
      /\ \A H : Results(s, H)[2] = AuditResult("compliance", Compliance(Observed(s, H)))
      /\ \A H : Results(s, H)[3] = AuditResult("technical_seo", TechnicalSeo(Observed(s, H)))
      /\ \A H : Results(s, H)[4] = AuditResult("on_page_seo", OnPageSeo(Observed(s, H)))
      /\ \A H : Results(s, H)[5] = AuditResult("schema", Schema(Observed(s, H)))
      /\ \A H : Results(s, H)[6] = AuditResult("content_quality", ContentQuality(Observed(s, H)))
      /\ \A H : Results(s, H)[7] = AuditResult("performance", Performance(Observed(s, H)))
      /\ \A H : Results(s, H)[8] = AuditResult("messaging", Messaging(Observed(s, H)))
      /\ \A H : Results(s, H)[9] = AuditResult("geo", Geo(Observed(s, H)))
      /\ \A H : Results(s, H)[10] = StrategyResult(Observed(s, H))
      /\ \A H : Results(s, H)[11] = AuditResult("analytics", Analytics(Observed(s, H)))
  BY DEF Results
<1>5. /\ AUDIT_MODULES[1] = "build_security" /\ AUDIT_MODULES[2] = "compliance"
      /\ AUDIT_MODULES[3] = "technical_seo" /\ AUDIT_MODULES[4] = "on_page_seo"
      /\ AUDIT_MODULES[5] = "schema" /\ AUDIT_MODULES[6] = "content_quality"
      /\ AUDIT_MODULES[7] = "performance" /\ AUDIT_MODULES[8] = "messaging"
      /\ AUDIT_MODULES[9] = "geo" /\ AUDIT_MODULES[10] = "content_strategy"
      /\ AUDIT_MODULES[11] = "analytics"
  BY DEF AUDIT_MODULES
<1>6. R(AUDIT_MODULES[i]) OBVIOUS
<1> HIDE DEF o, p, c, d, R
<1>7. CASE i = 1
  <2>1. BuildSecurity(c) = BuildSecurity(d)
    BY <1>2, <1>5, <1>6, <1>7, BuildSecurityReads
  <2>2. QED BY <1>4, <1>7, <2>1 DEF o, p, c, d
<1>8. CASE i = 2
  <2>1. A("compliance") BY <1>1, <1>5, <1>6, <1>8 DEF OfThePage
  <2>2. Compliance(o) = Compliance(p) BY <2>1, ComplianceReads
  <2>3. QED BY <1>4, <1>8, <2>2 DEF o, p
<1>9. CASE i = 3
  <2>1. A("technical_seo") BY <1>1, <1>5, <1>6, <1>9 DEF OfThePage
  <2>2. TechnicalSeo(o) = TechnicalSeo(p) BY <2>1, TechnicalSeoReads
  <2>3. QED BY <1>4, <1>9, <2>2 DEF o, p
<1>10. CASE i = 4
  <2>1. A("on_page_seo") BY <1>1, <1>5, <1>6, <1>10 DEF OfThePage
  <2>2. OnPageSeo(o) = OnPageSeo(p) BY <2>1, OnPageSeoReads
  <2>3. QED BY <1>4, <1>10, <2>2 DEF o, p
<1>11. CASE i = 5
  <2>1. A("schema") BY <1>1, <1>5, <1>6, <1>11 DEF OfThePage
  <2>2. Schema(o) = Schema(p) BY <2>1, SchemaReads
  <2>3. QED BY <1>4, <1>11, <2>2 DEF o, p
<1>12. CASE i = 6
  <2>1. A("content_quality") BY <1>1, <1>5, <1>6, <1>12 DEF OfThePage
  <2>2. ContentQuality(o) = ContentQuality(p) BY <2>1, ContentQualityReads
  <2>3. QED BY <1>4, <1>12, <2>2 DEF o, p
<1>13. CASE i = 7
  <2>1. A("performance") BY <1>1, <1>5, <1>6, <1>13 DEF OfThePage
  <2>2. Performance(o) = Performance(p) BY <2>1, PerformanceReads
  <2>3. QED BY <1>4, <1>13, <2>2 DEF o, p
<1>14. CASE i = 8
  <2>1. A("messaging") BY <1>1, <1>5, <1>6, <1>14 DEF OfThePage
  <2>2. Messaging(o) = Messaging(p) BY <2>1, MessagingReads
  <2>3. QED BY <1>4, <1>14, <2>2 DEF o, p
<1>15. CASE i = 9
  <2>1. A("geo") BY <1>1, <1>5, <1>6, <1>15 DEF OfThePage
  <2>2. Geo(o) = Geo(p) BY <2>1, GeoReads
  <2>3. QED BY <1>4, <1>15, <2>2 DEF o, p
<1>16. CASE i = 10
  <2>1. A("content_strategy") BY <1>1, <1>5, <1>6, <1>16 DEF OfThePage
  <2>2. ContentStrategy(o) = ContentStrategy(p) BY <2>1, ContentStrategyReads
  <2>3. StrategyResult(o) = StrategyResult(p) BY <2>2 DEF StrategyResult
  <2>4. QED BY <1>4, <1>16, <2>3 DEF o, p
<1>17. CASE i = 11
  <2>1. A("analytics") BY <1>3, <1>5, <1>6, <1>17
  <2>2. Analytics(o) = Analytics(p) BY <2>1, AnalyticsReads
  <2>3. QED BY <1>4, <1>17, <2>2 DEF o, p
<1>18. i \in {1, 2, 3, 4, 5, 6, 7, 8, 9, 10, 11} OBVIOUS
<1>19. QED BY <1>7, <1>8, <1>9, <1>10, <1>11, <1>12, <1>13, <1>14, <1>15, <1>16,
              <1>17, <1>18

(***************************************************************************)
(* The invariant and its consequences                                      *)
(***************************************************************************)
\* What a run stores is computed from what was measured.
SiteInv ==
    /\ Measured(site)
    /\ site \in Profiles \/ edited # {}
    /\ run # None => /\ Measured(run.site)
                     /\ run.results = Results(run.site, run.faults)
                     /\ run.findings = FindingsOf(run.results)
                     /\ run.site_score = SiteScore(run.results)

\* The invariant holds at first, and every step keeps it.
LEMMA SiteInvHolds == Spec => []SiteInv
<1>1. Init => SiteInv BY SitesAssumption DEF Init, SiteInv
<1>2. SiteInv /\ [Next]_vars => SiteInv'
  <2> SUFFICES ASSUME SiteInv, [Next]_vars PROVE SiteInv'
    OBVIOUS
  <2>1. ASSUME NEW fact \in DOMAIN Facts, NEW value \in Facts[fact], Edit(fact, value)
        PROVE  SiteInv'
    <3>1. Possible(fact, value) BY SitesAssumption
    <3>2. Measured(site') BY <2>1, <3>1 DEF SiteInv, Edit, Measured
    <3>3. edited' # {} BY <2>1 DEF Edit
    <3>4. QED BY <2>1, <3>2, <3>3 DEF SiteInv, Edit
  <2>2. ASSUME NEW faults, Execute(faults) PROVE SiteInv'
    <3> DEFINE results == Results(site, faults)
    <3>1. run' = [site |-> site, faults |-> faults, results |-> results,
                  findings |-> FindingsOf(results), site_score |-> SiteScore(results)]
          /\ site' = site /\ edited' = edited
      BY <2>2 DEF Execute
    <3>2. /\ run'.site = site /\ run'.faults = faults /\ run'.results = results
          /\ run'.findings = FindingsOf(results) /\ run'.site_score = SiteScore(results)
      BY <3>1
    <3>3. QED BY <3>1, <3>2 DEF SiteInv
  <2>3. CASE UNCHANGED vars BY <2>3 DEF SiteInv, vars
  <2>4. QED BY <2>1, <2>2, <2>3 DEF Next
<1>3. QED BY <1>1, <1>2, PTL DEF Spec

\* The results and the findings of a run are what they should be.
LEMMA RunGood ==
  ASSUME SiteInv, run # None
  PROVE  /\ GoodResults(run.results)
         /\ run.findings \in Seq(FindingSet)
BY ResultsGood, FindingsGood DEF SiteInv

\* Every score a run stores is a number of points on its scale, or None,
\* whatever the site answers and whichever sources fail.
THEOREM TypeTheorem == Spec => []TypeOK
<1>1. SiteInv => TypeOK
  <2> SUFFICES ASSUME SiteInv PROVE TypeOK OBVIOUS
  <2>1. site \in Profiles \/ edited # {} BY DEF SiteInv
  <2>2. ASSUME run # None
        PROVE  /\ \A i \in DOMAIN run.results :
                    /\ run.results[i].score \in Mean \union {None}
                    /\ run.results[i].completeness \in Percent
               /\ \A f \in Range(run.findings) : FindingType(f)
    <3>1. GoodResults(run.results) /\ run.findings \in Seq(FindingSet) BY <2>2, RunGood
    <3>2. DOMAIN run.results = 1..11 /\ \A i \in 1..11 : run.results[i] \in ResultScore
      BY <3>1 DEF GoodResults, Result
    <3>3. Scores \subseteq Mean \union {None}
      <4>1. ASSUME NEW x \in Scores, x # None PROVE x \in Mean
        <5>1. x \in Int /\ 0 <= x /\ x <= 10000 BY <4>1 DEF Scores, OnScale
        <5>2. Points(100) = 10000 BY DEF Points, Hundredths
        <5>3. QED BY <5>1, <5>2 DEF Mean
      <4>2. QED BY <4>1
    <3>4. \A i \in DOMAIN run.results : /\ run.results[i].score \in Mean \union {None}
                                        /\ run.results[i].completeness \in Percent
      BY <3>2, <3>3 DEF ResultScore, Percent, Points100
    <3>5. ASSUME NEW f \in Range(run.findings) PROVE FindingType(f)
      <4>1. f \in FindingSet
        <5>1. PICK i \in DOMAIN run.findings : f = run.findings[i] BY DEF Range
        <5>2. i \in 1..Len(run.findings) BY <3>1, <5>1
        <5>3. QED BY <3>1, <5>1, <5>2, SeqMembers, Zenon
      <4>2. f.check \in CheckType BY <4>1 DEF FindingSet
      <4>3. QED BY <4>2 DEF FindingType, CheckType, Percent, Points100
    <3>6. QED BY <3>4, <3>5
  <2>3. QED BY <2>1, <2>2 DEF TypeOK
<1>2. QED BY <1>1, SiteInvHolds, PTL

\* The findings of a run, one by one.
LEMMA FindingGood ==
  ASSUME SiteInv, run # None
  PROVE  \A i \in DOMAIN run.findings : run.findings[i] \in FindingSet
<1>1. run.findings \in Seq(FindingSet) BY RunGood
<1>2. DOMAIN run.findings = 1..Len(run.findings) BY <1>1
<1>3. QED BY <1>1, <1>2, SeqMembers, Zenon

\* No check pulls a score down unseen: one that earns fewer than 50 points is
\* a warning or a failure, in every audit.
THEOREM LowScoreTheorem == Spec => []LowScoreIsActionable
<1>1. SiteInv => LowScoreIsActionable
  <2> SUFFICES ASSUME SiteInv, run # None, NEW f \in Range(run.findings),
                      Scored(f.check), f.check.score < 50
               PROVE  Actionable(f.check)
    BY DEF LowScoreIsActionable
  <2>1. f \in FindingSet BY FindingGood DEF Range
  <2>2. f.check \in Emitted(f.audit) BY <2>1 DEF FindingSet
  <2>3. QED BY <2>2 DEF Emitted
<1>2. QED BY <1>1, SiteInvHolds, PTL

\* A key that the catalogue explains has an entry.
LEMMA ExplainedEntry ==
  ASSUME NEW audit \in DOMAIN CATALOGUE, NEW key \in Explained(audit)
  PROVE  lookup(audit, key) # None
<1> DEFINE row == row_of(audit, key)
           entry == [impact |-> CATALOGUE[audit][row][2],
                     effort |-> CATALOGUE[audit][row][3]]
<1>1. GoodRows(audit)
  BY AnalyticsRows, BuildSecurityRows, ComplianceRows, ContentQualityRows,
     ContentStrategyRows, GeoRows, MessagingRows, OnPageSeoRows, PerformanceRows,
     SchemaRows, TechnicalSeoRows DEF CATALOGUE
<1>2. row \in 0..Len(CATALOGUE[audit]) BY <1>1, RowPlace DEF GoodRows
<1>3. row # 0 BY DEF Explained
<1>4. lookup(audit, key) = entry BY <1>3 DEF lookup
<1>5. row \in 1..Len(CATALOGUE[audit]) BY <1>1, <1>2, <1>3 DEF GoodRows
<1>6. CATALOGUE[audit][row][2] \in 1..5 /\ CATALOGUE[audit][row][3] \in 1..3
  BY <1>1, <1>5 DEF GoodRows
<1> HIDE DEF row
<1>7. entry \in RemediationEntry BY <1>6 DEF RemediationEntry
<1>8. QED BY <1>4, <1>7, RemediationAssumption

\* A finding is listed exactly when it can be acted on, and can be sorted.
LEMMA FindingListed ==
  ASSUME NEW f \in FindingSet
  PROVE  Sortable(f) /\ (Listed(f) <=> Actionable(f.check))
<1>1. /\ f.audit \in DOMAIN CATALOGUE /\ f.check \in CheckType
      /\ f.check \in Emitted(f.audit)
  BY DEF FindingSet
<1>2. f.check.severity \in DOMAIN SEVERITY_RANK BY <1>1 DEF CheckType
<1>3. f.check.key \in Explained(f.audit) BY <1>1 DEF Emitted
<1>4. lookup(f.audit, f.check.key) # None BY <1>1, <1>3, ExplainedEntry
<1>5. QED BY <1>1, <1>2, <1>4 DEF Sortable, Listed

\* The action list of a run, and the place in the run of each of its items.
LEMMA RunRanked ==
  ASSUME SiteInv, run # None
  PROVE  /\ \E at : Ranked(build_action_list(run.findings), run.findings, at)
         /\ ListedPlaces(run.findings)
              = {i \in DOMAIN run.findings : Actionable(run.findings[i].check)}
<1> DEFINE findings == run.findings
           n == Len(findings)
<1>1. findings \in Seq(FindingSet) BY RunGood
<1>2. n \in Nat /\ DOMAIN findings = 1..n BY <1>1
<1>3. \A i \in DOMAIN findings : findings[i] \in FindingSet BY FindingGood
<1> HIDE DEF findings, n
<1>4. \A i \in DOMAIN findings : /\ Sortable(findings[i])
                                 /\ Listed(findings[i]) <=> Actionable(findings[i].check)
  BY <1>3, FindingListed
<1>5. \E at : Ranked(rank_findings(findings), findings, at) BY <1>2, <1>4, Ranking
<1>6. ListedPlaces(findings) = {i \in DOMAIN findings : Actionable(findings[i].check)}
  BY <1>4 DEF ListedPlaces
<1>7. QED BY <1>5, <1>6 DEF build_action_list, findings

\* No problem is found and then dropped: the action list has every finding
\* that fails or warns, as the catalogue explains whatever the audits emit.
THEOREM ActionableTheorem == Spec => []ActionableIsListed
<1>1. SiteInv => ActionableIsListed
  <2> SUFFICES ASSUME SiteInv, run # None
               PROVE  Len(build_action_list(run.findings))
                        = Cardinality({i \in DOMAIN run.findings :
                                         Actionable(run.findings[i].check)})
    BY DEF ActionableIsListed
  <2>1. PICK at : Ranked(build_action_list(run.findings), run.findings, at)
    BY RunRanked
  <2>2. Len(build_action_list(run.findings)) = Cardinality(ListedPlaces(run.findings))
    BY <2>1 DEF Ranked
  <2>3. QED BY <2>2, RunRanked
<1>2. QED BY <1>1, SiteInvHolds, PTL

\* Rebalancing: the site score and the score of every audit lie between the
\* scores that they are means of, whichever parts could not be assessed.
THEOREM MeansTheorem == Spec => []MeansStayInside
<1>1. SiteInv => MeansStayInside
  <2> SUFFICES ASSUME SiteInv, run # None
               PROVE  /\ Between(run.site_score,
                                 {r.score : r \in Range(run.results)} \ {None})
                      /\ \A r \in Range(run.results) :
                           Between(r.score, {c.score : c \in {d \in Range(r.categories)
                                                               : Counts(d)}})
    BY DEF MeansStayInside
  <2>1. GoodResults(run.results) /\ run.site_score = SiteScore(run.results)
    BY RunGood DEF SiteInv
  <2>2. /\ run.results \in Seq(ResultScore) /\ Len(run.results) = 11
        /\ DOMAIN run.results = 1..11 /\ \A i \in 1..11 : Result(run.results[i])
    BY <2>1 DEF GoodResults
  <2>3. Between(run.site_score, {r.score : r \in Range(run.results)} \ {None})
    <3> DEFINE mean == run.site_score
               scores == {r.score : r \in Range(run.results)} \ {None}
    <3>1. \A i \in 1..11 : run.results[i].score # None => run.results[i].score \in scores
      BY <2>2 DEF Range
    <3>2. mean # None =>
            /\ \E i \in 1..11 : run.results[i].score # None /\ run.results[i].score <= mean
            /\ \E i \in 1..11 : run.results[i].score # None /\ mean <= run.results[i].score
      BY <2>1, <2>2, SiteBetween
    <3> HIDE DEF scores, mean
    <3>3. Between(mean, scores) BY <3>1, <3>2 DEF Between
    <3>4. QED BY <3>3 DEF mean, scores
  <2>4. ASSUME NEW r \in Range(run.results)
        PROVE  Between(r.score, {c.score : c \in {d \in Range(r.categories) : Counts(d)}})
    <3> DEFINE scores == {c.score : c \in {d \in Range(r.categories) : Counts(d)}}
    <3>1. Result(r) BY <2>2 DEF Range
    <3>2. DOMAIN r.categories = 1..Len(r.categories) BY <3>1 DEF Result
    <3>3. \A i \in 1..Len(r.categories) :
            Counts(r.categories[i]) => r.categories[i].score \in scores
      BY <3>2 DEF Range
    <3> HIDE DEF scores
    <3>4. Amid(r.score, r.categories) BY <3>1 DEF Result
    <3>5. Between(r.score, scores) BY <3>3, <3>4 DEF Between, Amid
    <3>6. QED BY <3>5 DEF scores
  <2>5. QED BY <2>3, <2>4
<1>2. QED BY <1>1, SiteInvHolds, PTL


\* A score that is at most a mean below 50 points is below 50.
LEMMA LowPoints ==
  \A x, low, mean : /\ x \in 0..100 /\ OnScale(low) /\ OnScale(mean)
                    /\ Points(x) <= low /\ low <= mean /\ mean < 5000
                    => x < 50
BY DEF OnScale, Points, Hundredths

\* A check that pulls a result of an audit down.
LowCheck(r, j, k) ==
    LET check == r.categories[j].checks[k]
    IN  Scored(check) /\ check.score < 50 /\ check \in Emitted(r.audit)

\* A result below 50 points has a check below 50 points.
LEMMA LowResult ==
  ASSUME NEW r, Result(r), r.score # None, r.score < 5000
  PROVE  \E j \in 1..Len(r.categories) : \E k \in 1..Len(r.categories[j].checks) :
           LowCheck(r, j, k)
<1>1. /\ r.categories \in Seq(CategoryOf(r.audit)) /\ Amid(r.score, r.categories)
      /\ r.score \in Scores
  BY DEF Result, ResultScore
<1>2. ASSUME NEW c, c \in CategoryOf(r.audit), Counts(c), c.score <= r.score
      PROVE  \E k \in 1..Len(c.checks) :
               /\ Scored(c.checks[k]) /\ c.checks[k].score < 50
               /\ c.checks[k] \in Emitted(r.audit)
  <2>1. /\ c.score = category_score(c.checks) /\ c.score \in Scores
        /\ c.checks \in Seq(CheckType) /\ c.checks \in Seq(Emitted(r.audit))
    BY <1>2 DEF CategoryOf, CategoryType
  <2>2. c.score # None BY <1>2 DEF Counts
  <2>3. OnScale(c.score) /\ OnScale(r.score) BY <1>1, <2>1, <2>2 DEF Scores
  <2>4. ASSUME NEW check \in CheckType, Scored(check), Points(check.score) <= c.score
        PROVE  check.score < 50
    <3>1. check.score \in 0..100 BY <2>4 DEF CheckType, Points100, Scored
    <3>2. QED BY <1>2, <2>3, <2>4, <3>1, LowPoints
  <2>5. \E k \in 1..Len(c.checks) :
          Scored(c.checks[k]) /\ Points(c.checks[k].score) <= c.score
    BY <2>1, <2>2, CategoryBetween
  <2>6. \A k \in 1..Len(c.checks) :
          c.checks[k] \in CheckType /\ c.checks[k] \in Emitted(r.audit)
    BY <2>1, SeqMembers
  <2>7. QED BY <2>4, <2>5, <2>6
<1>3. \E j \in 1..Len(r.categories) :
        Counts(r.categories[j]) /\ r.categories[j].score <= r.score
  BY <1>1 DEF Amid
<1>4. \A j \in 1..Len(r.categories) : r.categories[j] \in CategoryOf(r.audit)
  BY <1>1, SeqMembers
<1>5. \A j \in 1..Len(r.categories) :
        Counts(r.categories[j]) /\ r.categories[j].score <= r.score =>
          \E k \in 1..Len(r.categories[j].checks) : LowCheck(r, j, k)
  <2> SUFFICES ASSUME NEW j \in 1..Len(r.categories), Counts(r.categories[j]),
                      r.categories[j].score <= r.score
               PROVE  \E k \in 1..Len(r.categories[j].checks) : LowCheck(r, j, k)
    OBVIOUS
  <2> DEFINE c == r.categories[j]
  <2>1. c \in CategoryOf(r.audit) /\ Counts(c) /\ c.score <= r.score BY <1>4
  <2> HIDE DEF c
  <2>2. \E k \in 1..Len(c.checks) :
          /\ Scored(c.checks[k]) /\ c.checks[k].score < 50
          /\ c.checks[k] \in Emitted(r.audit)
    BY <1>2, <2>1
  <2>3. QED BY <2>2 DEF LowCheck, c
<1>6. QED BY <1>3, <1>5

\* The checks of a run are in its findings.
LEMMA RunFindings ==
  ASSUME SiteInv, run # None, NEW i \in 1..11
  PROVE  \A j \in 1..Len(run.results[i].categories) :
           \A k \in 1..Len(run.results[i].categories[j].checks) :
             Occurs(FoundAs(run.results[i], run.results[i].categories[j],
                            run.results[i].categories[j].checks[k]), run.findings)
<1>1. GoodResults(run.results) /\ run.findings = FindingsOf(run.results)
  BY RunGood DEF SiteInv
<1>2. QED BY <1>1, FindingsGood, Zenon

\* A score that a part of the owner's page is red for.
Low(score) == score # None /\ score < 5000

\* A result below 50 points has an item in the action list.
LEMMA LowResultHasWork ==
  ASSUME SiteInv, run # None, NEW i \in 1..11, Low(run.results[i].score)
  PROVE  \E item \in Range(build_action_list(run.findings)) :
           item.audit = run.results[i].audit
<1> DEFINE r == run.results[i]
           findings == run.findings
           list == build_action_list(findings)
<1>1. GoodResults(run.results) /\ findings = FindingsOf(run.results)
  BY RunGood DEF SiteInv
<1>2. Result(r) /\ r.score # None /\ r.score < 5000
  <2>1. Result(r) BY <1>1 DEF GoodResults
  <2>2. r.score # None /\ r.score < 5000 BY DEF Low
  <2>3. QED BY <2>1, <2>2
<1>3. \A j \in 1..Len(r.categories) : \A k \in 1..Len(r.categories[j].checks) :
        Occurs(FoundAs(r, r.categories[j], r.categories[j].checks[k]), findings)
  BY RunFindings, Zenon
<1> HIDE DEF r
<1>4. PICK j \in 1..Len(r.categories) :
        \E k \in 1..Len(r.categories[j].checks) : LowCheck(r, j, k)
  BY <1>2, LowResult
<1>5. PICK k \in 1..Len(r.categories[j].checks) : LowCheck(r, j, k)
  BY <1>4
<1> DEFINE check == r.categories[j].checks[k]
           found == FoundAs(r, r.categories[j], check)
<1>6. Actionable(check) /\ Occurs(found, findings)
  BY <1>3, <1>5 DEF LowCheck, Emitted
<1>7. found.audit = r.audit /\ found.check = check BY DEF FoundAs
<1> HIDE DEF found, check
<1>8. PICK n \in 1..Len(findings) : findings[n] = found BY <1>6 DEF Occurs
<1>9. n \in DOMAIN findings
  <2>1. findings \in Seq(FindingSet) BY RunGood
  <2>2. QED BY <1>8, <2>1
<1>10. n \in ListedPlaces(findings) BY <1>6, <1>7, <1>8, <1>9, RunRanked
<1>11. PICK at : Ranked(list, findings, at) BY RunRanked
<1> HIDE DEF findings, list
<1> DEFINE count == Cardinality(ListedPlaces(findings))
<1>12. /\ DOMAIN list = 1..count
       /\ at \in Bijection(1..count, ListedPlaces(findings))
       /\ \A m \in 1..count : list[m] = ActionItem(findings[at[m]])
  BY <1>11 DEF Ranked
<1> HIDE DEF count
<1>13. PICK m \in 1..count : at[m] = n
  BY <1>10, <1>12 DEF Bijection, Surjection
<1>14. list[m] = ActionItem(found) BY <1>8, <1>12, <1>13
<1>15. list[m] \in Range(list) BY <1>12 DEF Range
<1>16. list[m].audit = r.audit BY <1>7, <1>14 DEF ActionItem
<1>17. QED BY <1>15, <1>16 DEF r, findings, list

\* The parts of the owner's page.
LEMMA PageParts ==
  /\ DOMAIN PILLARS = {1, 2, 3}
  /\ Len(PILLARS[1].members) = 5 /\ DOMAIN PILLARS[1].members = 1..5
  /\ Len(PILLARS[2].members) = 2 /\ DOMAIN PILLARS[2].members = 1..2
  /\ Len(PILLARS[3].members) = 1 /\ DOMAIN PILLARS[3].members = 1..1
  /\ Len(MEASURE) = 1 /\ DOMAIN MEASURE = 1..1
  /\ Len(FOUNDATIONS) = 2 /\ DOMAIN FOUNDATIONS = 1..2
<1>1. DOMAIN PILLARS = 1..3 BY DEF PILLARS
<1>2. 1..3 = {1, 2, 3} OBVIOUS
<1>3. /\ PILLARS[1].members = <<"technical_seo", "on_page_seo", "schema", "geo",
                                "performance">>
      /\ PILLARS[2].members = <<"content_quality", "content_strategy">>
      /\ PILLARS[3].members = <<"messaging">>
  BY DEF PILLARS
<1>4. /\ Len(MEASURE) = 1 /\ DOMAIN MEASURE = 1..1
      /\ Len(FOUNDATIONS) = 2 /\ DOMAIN FOUNDATIONS = 1..2
  BY DEF MEASURE, FOUNDATIONS
<1>5. QED BY <1>1, <1>2, <1>3, <1>4

\* A part of the owner's page that is red has something to do in the action
\* list, although its score is a mean of means.
THEOREM RedPartsTheorem == Spec => []RedPartsHaveWork
<1>1. SiteInv => RedPartsHaveWork
  <2> DEFINE audits == {r.audit : r \in Range(run.results)}
             place(a) == SelectInSeq(run.results, LAMBDA r : r.audit = a)
             scores == [a \in audits |-> run.results[place(a)].score]
             work == {item.audit : item \in Range(build_action_list(run.findings))}
             parts == {PILLARS[i].members : i \in DOMAIN PILLARS}
                        \union {MEASURE, FOUNDATIONS}
  <2> SUFFICES ASSUME SiteInv, run # None, NEW members \in parts,
                      status_of(pillar_score(members, scores)) = "problem"
               PROVE  Range(members) \intersect work # {}
    BY DEF RedPartsHaveWork
  <2>1. PICK n \in Nat : Len(members) = n /\ DOMAIN members = 1..n
    <3>1. parts = {PILLARS[1].members, PILLARS[2].members, PILLARS[3].members,
                   MEASURE, FOUNDATIONS}
      BY PageParts
    <3>2. \A p \in {PILLARS[1].members, PILLARS[2].members, PILLARS[3].members,
                    MEASURE, FOUNDATIONS} :
             \E m \in {1, 2, 5} : Len(p) = m /\ DOMAIN p = 1..m
      BY PageParts, Zenon
    <3> HIDE DEF parts
    <3>3. \A p \in parts : \E m \in {1, 2, 5} : Len(p) = m /\ DOMAIN p = 1..m
      BY <3>1, <3>2
    <3>4. QED BY <3>3
  <2>2. /\ DOMAIN run.results = 1..11 /\ Len(run.results) = 11
        /\ \A i \in 1..11 : run.results[i] \in ResultScore
    BY RunGood DEF GoodResults, Result
  <2>3. \A a \in audits : /\ place(a) \in 1..11
                          /\ run.results[place(a)].audit = a
    <3> SUFFICES ASSUME NEW a \in audits
                 PROVE  place(a) \in 1..11 /\ run.results[place(a)].audit = a
      OBVIOUS
    <3> DEFINE I == {i \in 1..11 : run.results[i].audit = a}
    <3>1. I # {} BY <2>2 DEF Range
    <3>2. place(a) = FirstOf(I) BY <2>2 DEF SelectInSeq, FirstOf
    <3>3. FirstOf(I) \in I
      <4>1. I \in SUBSET (1..11) OBVIOUS
      <4> HIDE DEF I
      <4>2. QED BY <3>1, <4>1, FirstPlace
    <3> HIDE DEF place
    <3>4. QED BY <3>2, <3>3
  <2> DEFINE mean == pillar_score(members, scores)
  <2>4. \A a \in DOMAIN scores : scores[a] \in Scores
    <3>1. \A r \in ResultScore : r.score \in Scores BY DEF ResultScore
    <3> HIDE DEF place
    <3>2. QED BY <2>2, <2>3, <3>1
  <2>5. \A a \in audits : scores[a] = run.results[place(a)].score OBVIOUS
  <2>6. DOMAIN scores = audits OBVIOUS
  <2> HIDE DEF parts, audits, place, scores
  <2>8. mean # None =>
           /\ OnScale(mean)
           /\ \E i \in 1..n : /\ members[i] \in DOMAIN scores
                              /\ scores[members[i]] # None
                              /\ scores[members[i]] <= mean
    BY <2>1, <2>4, PillarBetween
  <2>9. mean # None /\ mean < 5000
    <3>1. mean # None BY DEF status_of
    <3>2. ~(mean >= Points(50)) BY <3>1 DEF status_of
    <3>3. mean \in Int BY <2>8, <3>1 DEF OnScale
    <3> HIDE DEF mean
    <3>4. QED BY <3>1, <3>2, <3>3, PointsScale
  <2> HIDE DEF mean
  <2>10. PICK i \in 1..n : /\ members[i] \in DOMAIN scores
                           /\ scores[members[i]] # None
                           /\ scores[members[i]] <= mean
    BY <2>8, <2>9
  <2> DEFINE a == members[i]
             p == place(a)
  <2>11. /\ a \in audits /\ p \in 1..11 /\ run.results[p].audit = a
         /\ run.results[p].score = scores[a]
    BY <2>3, <2>5, <2>6, <2>10
  <2> HIDE DEF p
  <2>12. run.results[p].score # None /\ run.results[p].score < 5000
    <3>1. scores[a] \in Int BY <2>4, <2>10 DEF Scores
    <3>2. mean \in Int BY <2>8, <2>9 DEF OnScale
    <3>3. scores[a] # None /\ scores[a] <= mean BY <2>10
    <3> HIDE DEF a
    <3>4. QED BY <2>9, <2>11, <3>1, <3>2, <3>3
  <2>13. Low(run.results[p].score) BY <2>12 DEF Low
  <2>14. \E item \in Range(build_action_list(run.findings)) : item.audit = a
    BY <2>11, <2>13, LowResultHasWork
  <2>15. a \in work BY <2>14
  <2>16. a \in Range(members) BY <2>1, <2>10 DEF Range
  <2>17. QED BY <2>15, <2>16
<1>2. QED BY <1>1, SiteInvHolds, PTL

\* A listed secret is on the page: its item is one of the first four of the
\* action list, the page does not demote it, and no other item overtakes it.
LEMMA SecretShown ==
  ASSUME SiteInv, run # None, NEW i \in DOMAIN run.findings,
         run.findings[i].check.key \in Secrets, run.findings[i].check.status = "fail"
  PROVE  \E item \in Range(build_page_one(run).top_fixes) :
           item.key = run.findings[i].check.key
<1> DEFINE findings == run.findings
           list == build_action_list(findings)
           count == Cardinality(ListedPlaces(findings))
           page == page_fixes(list)
           top == SubSeq(page, 1, AtMost(5, Len(page)))
<1>1. PICK at : Ranked(list, findings, at) BY RunRanked
<1>2. ListedPlaces(findings) = {k \in DOMAIN findings : Actionable(findings[k].check)}
  BY RunRanked
<1>3. /\ count \in Nat /\ DOMAIN list = 1..count
      /\ at \in Bijection(1..count, ListedPlaces(findings))
      /\ \A n \in 1..count : list[n] = ActionItem(findings[at[n]])
  BY <1>1 DEF Ranked
<1>4. \A k \in DOMAIN findings : findings[k] \in FindingSet BY FindingGood
<1>5. /\ \A name \in Urgent : Single(findings, Found(name[1], name[2]))
      /\ \A k \in 1..Len(findings) : SevereSecret(findings[k])
  BY UrgentFindings DEF SiteInv
<1>6. DOMAIN findings = 1..Len(findings)
  <2>1. findings \in Seq(FindingSet) BY RunGood
  <2>2. QED BY <2>1
<1>7. build_page_one(run).top_fixes = top BY DEF build_page_one, assemble_page_one
<1> HIDE DEF findings, list, count, page
<1>8. i \in ListedPlaces(findings) BY <1>2 DEF Actionable, findings
<1>9. PICK n \in 1..count : at[n] = i BY <1>3, <1>8 DEF Bijection, Surjection
<1>10. n <= 4
  <2>1. \A k \in DOMAIN findings :
          /\ Sortable(findings[k])
          /\ findings[k].check.key \in Explained(findings[k].audit)
    BY <1>4, FindingListed DEF FindingSet, Emitted
  <2>2. ASSUME NEW k \in DOMAIN findings, NEW m \in DOMAIN findings,
               NameOf(findings[k]) \in Urgent,
               NameOf(findings[k]) = NameOf(findings[m])
        PROVE  k = m
    <3> DEFINE name == NameOf(findings[k])
    <3>1. /\ findings[k] \in Found(name[1], name[2])
          /\ findings[m] \in Found(name[1], name[2])
      BY <1>4, <2>2 DEF Found, NameOf
    <3>2. Single(findings, Found(name[1], name[2])) BY <1>5, <2>2
    <3> HIDE DEF name
    <3>3. QED BY <1>6, <3>1, <3>2 DEF Single
  <2>3. findings[at[n]].check.key \in Secrets BY <1>9 DEF findings
  <2>4. n \in 1..Cardinality(ListedPlaces(findings)) BY DEF count
  <2>5. QED BY <1>1, <2>1, <2>2, <2>3, <2>4, SecretsLead
<1>11. list[n].key = run.findings[i].check.key BY <1>3, <1>9 DEF ActionItem, findings
<1>12. ~demote_from_page_one(list[n])
  <2>1. /\ list[n].audit = findings[i].audit
        /\ list[n].severity = findings[i].check.severity
    BY <1>3, <1>9 DEF ActionItem
  <2>2. /\ findings[i] \in FindingSet /\ findings[i].check.key \in Secrets
        /\ findings[i].check.status = "fail" /\ i \in DOMAIN findings
    BY <1>4 DEF findings
  <2>3. findings[i].audit = "build_security"
    BY <2>2, UrgentChecks DEF FindingSet, Emitted
  <2>4. Severe(findings[i].check) BY <1>5, <1>6, <2>2 DEF SevereSecret
  <2>5. QED BY <2>1, <2>3, <2>4 DEF demote_from_page_one, Severe
<1>13. /\ DOMAIN page = 1..count /\ Len(page) = count
       /\ \E p \in 1..n : p \in 1..count /\ page[p] = list[n]
  BY <1>3, <1>9, <1>12, PageKeeps DEF page
<1>14. PICK p \in 1..n : p \in 1..count /\ page[p] = list[n] BY <1>13
<1>15. /\ p \in 1..AtMost(5, Len(page))
       /\ top = [q \in 1..AtMost(5, Len(page)) |-> page[q]]
  <2>1. p <= 4 /\ p \in 1..count BY <1>3, <1>9, <1>10, <1>14
  <2>2. p \in 1..AtMost(5, Len(page)) BY <1>3, <1>13, <2>1 DEF AtMost
  <2>3. AtMost(5, Len(page)) \in Nat BY <1>3, <1>13 DEF AtMost
  <2>4. \A q \in 1..AtMost(5, Len(page)) : q + 1 - 1 = q /\ 1 + q - 1 = q BY <2>3
  <2>5. top = [q \in 1..AtMost(5, Len(page)) |-> page[q]] BY <2>3, <2>4
  <2>6. QED BY <2>2, <2>5
<1> HIDE DEF top
<1>16. top[p] = list[n] /\ p \in DOMAIN top BY <1>14, <1>15
<1>17. list[n] \in Range(top) BY <1>16 DEF Range
<1>18. QED BY <1>7, <1>11, <1>17

\* A readable secret or a broken certificate is on the owner's page, however
\* much else is wrong with the site.
THEOREM SecretsTheorem == Spec => []SecretsReachPageOne
<1>1. SiteInv => SecretsReachPageOne
  <2> SUFFICES ASSUME SiteInv, run # None, NEW f \in Range(run.findings),
                      f.check.key \in {"exposed_paths", "tls_valid"},
                      f.check.status = "fail"
               PROVE  \E item \in Range(build_page_one(run).top_fixes) :
                        item.key = f.check.key
    BY DEF SecretsReachPageOne
  <2>1. PICK i \in DOMAIN run.findings : f = run.findings[i] BY DEF Range
  <2>2. f.check.key \in Secrets BY DEF Secrets
  <2>3. QED BY <2>1, <2>2, SecretShown
<1>2. QED BY <1>1, SiteInvHolds, PTL
\* A step that runs the audits, or leaves the latest run as it is.
LEMMA RunStep ==
  ASSUME [Next]_vars
  PROVE  \/ run' = run
         \/ \E faults : run'.faults = faults /\ run'.site = site
                          /\ run'.results = Results(site, faults)
<1>1. ASSUME NEW fact \in DOMAIN Facts, NEW value \in Facts[fact], Edit(fact, value)
      PROVE  run' = run
  BY <1>1 DEF Edit
<1>2. ASSUME NEW faults, Execute(faults)
      PROVE  run'.faults = faults /\ run'.site = site
               /\ run'.results = Results(site, faults)
  <2> DEFINE results == Results(site, faults)
             found == FindingsOf(results)
             score == SiteScore(results)
  <2>1. run' = [site |-> site, faults |-> faults, results |-> results,
                findings |-> found, site_score |-> score]
    BY <1>2 DEF Execute
  <2> HIDE DEF results, found, score
  <2>2. run'.faults = faults /\ run'.site = site /\ run'.results = results
    BY <2>1
  <2>3. QED BY <2>2 DEF results
<1>3. CASE UNCHANGED vars BY <1>3 DEF vars
<1>4. QED BY <1>1, <1>2, <1>3 DEF Next

\* Two runs over an unchanged site differ only in the audits that read a
\* source which failed in one of them and not in the other: a failure of
\* PageSpeed, of a Google connection or of the language model, or a page that
\* cannot be fetched or rendered, reaches no other audit.
THEOREM ContainedTheorem == Spec => FailuresAreContained
<1>1. SiteInv /\ [Next]_vars =>
        [run # None /\ run'.site = run.site =>
           LET apart == (run.faults \ run'.faults) \union (run'.faults \ run.faults)
           IN  \A i \in DOMAIN run.results :
                 run'.results[i] # run.results[i] =>
                   run.results[i].audit \in UNION {ReadersOf(f) : f \in apart}]_run
  <2> SUFFICES ASSUME SiteInv, [Next]_vars, run' # run, run # None,
                      run'.site = run.site,
                      NEW i \in DOMAIN run.results,
                      Unread(run.results[i].audit, run.faults, run'.faults)
               PROVE  run'.results[i] = run.results[i]
    BY DEF Unread
  <2>1. PICK faults : run'.faults = faults /\ run'.site = site
                        /\ run'.results = Results(site, faults)
    BY RunStep
  <2>2. Measured(site) /\ run.results = Results(site, run.faults)
    BY <2>1 DEF SiteInv
  <2>3. i \in 1..11 /\ run.results[i].audit = AUDIT_MODULES[i]
    BY RunGood DEF GoodResults
  <2>4. Results(site, run.faults)[i] = Results(site, run'.faults)[i]
    BY <2>2, <2>3, Contained
  <2>5. QED BY <2>1, <2>2, <2>4
<1>2. QED BY <1>1, SiteInvHolds, PTL DEF Spec, FailuresAreContained
=============================================================================
