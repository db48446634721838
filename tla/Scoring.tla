------------------------------ MODULE Scoring ------------------------------
(***************************************************************************)
(* What every audit shares: the records of audits/base.py, the means of    *)
(* scoring.py and the commercial weights of weighting.py.                  *)
(*                                                                         *)
(* A check's score is a whole number of points, 0..100, or None.  A mean   *)
(* is a whole number of hundredths of a point and rounds down, where the   *)
(* program keeps a float.                                                  *)
(***************************************************************************)
EXTENDS Integers, Sequences, FiniteSets, SequencesExt

CONSTANT None               \* Python's None, a model value
ASSUME ScoresAssumption == None \notin Int

Hundredths == 100           \* a mean is counted in hundredths of a point

Points(n) == n * Hundredths

\* DetectionTag
OBS   == "observed"
INF   == "inferred"
NEEDS == "needs_connection"

\* CheckResult: its value and recommendation text are left out.
Check(key, score, status, severity, detection) ==
    [key |-> key, score |-> score, status |-> status,
     severity |-> severity, detection |-> detection]

Informational(key, detection) == Check(key, None, "info", "info", detection)
Passed(key, severity, detection) == Check(key, 100, "pass", severity, detection)
Warned(key, score, severity, detection) ==
    Check(key, score, "warn", severity, detection)
Failed(key, score, severity, detection) ==
    Check(key, score, "fail", severity, detection)

\* The common shape: passed with 100 points, or the given result.
Unless(bad, key, severity, detection, otherwise) ==
    IF bad THEN otherwise ELSE Passed(key, severity, detection)

\* The key of the check that is generated for a disclosed component.
component_key ==
    [php |-> "component_php", nginx |-> "component_nginx",
     wordpress |-> "component_wordpress"]

AtMost(a, b) == IF a < b THEN a ELSE b
AtLeast(a, b) == IF a > b THEN a ELSE b

Actionable(check) == check.status \in {"fail", "warn"}
Scored(check) == check.score # None
Worth(check) == IF Scored(check) THEN Points(check.score) ELSE None

\* The sum of the numbers of a sequence, in which a part may be None.
SumOf(seq) ==
    LET sum[n \in 0..Len(seq)] ==
          IF n = 0 THEN 0
          ELSE LET part == seq[n]
               IN  IF part = None THEN sum[n - 1] ELSE sum[n - 1] + part
    IN  sum[Len(seq)]

\* What the scores that are there contribute, and what their weights sum to.
Contributions(scores, weights) ==
    [i \in DOMAIN scores |->
        IF scores[i] = None THEN None ELSE scores[i] * weights[i]]
WeightOf(scores, weights) ==
    SumOf([i \in DOMAIN scores |->
              IF scores[i] = None THEN None ELSE weights[i]])

\* The weighted mean of the scores that are there, None when none is.
WeightedMean(scores, weights) ==
    LET total == WeightOf(scores, weights)
    IN  IF total = 0 THEN None
        ELSE SumOf(Contributions(scores, weights)) \div total

\* The equal-weighted mean of the scorable checks, None when there is none.
category_score(checks) ==
    WeightedMean([i \in DOMAIN checks |-> Worth(checks[i])],
                 [i \in DOMAIN checks |-> 1])

\* CategoryDef and CategoryResult in one: the weight is the definition's.
Category(key, weight, applicable, checks) ==
    [key |-> key, weight |-> weight, applicable |-> applicable,
     checks |-> checks, score |-> category_score(checks)]

Counts(category) == category.applicable /\ category.score # None

CountedScore(category) == IF Counts(category) THEN category.score ELSE None

CountedScores(categories) ==
    [i \in DOMAIN categories |-> CountedScore(categories[i])]
WeightsOf(categories) == [i \in DOMAIN categories |-> categories[i].weight]

\* Mutant: the weight of an unassessed category stays in the denominator.
NotRebalanced(categories) ==
    LET scores  == CountedScores(categories)
        weights == WeightsOf(categories)
    IN  IF WeightOf(scores, weights) = 0 THEN None
        ELSE SumOf(Contributions(scores, weights)) \div SumOf(weights)

\* The weighted mean of the categories that apply and have a score; the
\* weight of the others is rebalanced away.
audit_score(categories) ==
    WeightedMean(CountedScores(categories), WeightsOf(categories))

\* The scored checks of the categories that count, as pairs of places.
ScoredPlaces(categories) ==
    UNION {{i} \X {j \in DOMAIN categories[i].checks :
                      Scored(categories[i].checks[j])} :
              i \in {k \in DOMAIN categories : Counts(categories[k])}}

\* The percentage of the scored checks that were observed, rounded down.
completeness(categories) ==
    LET scored   == ScoredPlaces(categories)
        observed == {p \in scored :
                        categories[p[1]].checks[p[2]].detection = OBS}
    IN  IF scored = {} THEN 0
        ELSE (100 * Cardinality(observed)) \div Cardinality(scored)

\* AuditResult, as every module's run() builds it from its categories.
AuditResult(audit, categories) ==
    [audit |-> audit, categories |-> categories,
     score |-> audit_score(categories),
     completeness |-> completeness(categories)]

----------------------------------------------------------------------------
AUDIT_WEIGHTS ==
    [on_page_seo |-> 13, content_strategy |-> 13, messaging |-> 12,
     technical_seo |-> 12, performance |-> 9, geo |-> 9,
     content_quality |-> 8, analytics |-> 7, compliance |-> 7,
     schema |-> 5, build_security |-> 5]

Default_Weight == 8

weight_for(audit) ==
    IF audit \in DOMAIN AUDIT_WEIGHTS THEN AUDIT_WEIGHTS[audit]
    ELSE Default_Weight

\* The site score of a run and what each audit contributes to it, as the
\* numerators of its points over the weight of the audits that have a score.
weighted_site_score(results) ==
    LET scores  == [i \in DOMAIN results |-> results[i].score]
        weights == [i \in DOMAIN results |-> weight_for(results[i].audit)]
    IN  [score |-> WeightedMean(scores, weights),
         contributions |-> Contributions(scores, weights)]
=============================================================================
