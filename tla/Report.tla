------------------------------- MODULE Report -------------------------------
(***************************************************************************)
(* What the dashboard and the PDF say of a run: the page the owner reads   *)
(* first (reporting/presentation.py) and the action list                   *)
(* (reporting/view.py).  A run is the sequence of its audits' results.     *)
(* Scores are in hundredths of a point.                                    *)
(***************************************************************************)
EXTENDS Catalogue

\* The findings of a run, each with its audit and its category.
FindingsOf(results) ==
    LET of(r, c) == [i \in DOMAIN c.checks |->
                       [audit |-> r.audit, category |-> c.key,
                        check |-> c.checks[i]]]
        audit(r) == FlattenSeq([i \in DOMAIN r.categories |->
                                   of(r, r.categories[i])])
    IN  FlattenSeq([i \in DOMAIN results |-> audit(results[i])])

build_action_list(findings) == rank_findings(findings)

(***************************************************************************)
(* Page one                                                                *)
(***************************************************************************)
PILLARS ==
    <<[label |-> "Get found",
       members |-> <<"technical_seo", "on_page_seo", "schema", "geo",
                     "performance">>],
      [label |-> "Win trust",
       members |-> <<"content_quality", "content_strategy">>],
      [label |-> "Convert", members |-> <<"messaging">>]>>
MEASURE     == <<"analytics">>
FOUNDATIONS == <<"build_security", "compliance">>

Severe(item) == item.severity \in {"critical", "high"}

\* Mutant: all foundations work is demoted.
DemoteFoundations(item) == item.audit \in {"compliance", "build_security"}

\* Foundations work that shall not lead the owner's page.
demote_from_page_one(item) ==
    \/ item.audit = "compliance"
    \/ item.audit = "build_security" /\ ~Severe(item)

GRADE_BANDS == <<<<85, "A">>, <<70, "B">>, <<55, "C">>, <<40, "D">>, <<25, "E">>>>

grade(score) ==
    LET reached == SelectInSeq(GRADE_BANDS, LAMBDA b : score >= Points(b[1]))
    IN  IF score = None THEN "n/a"
        ELSE IF reached = 0 THEN "F"
        ELSE GRADE_BANDS[reached][2]

status_of(score) ==
    IF score = None THEN "none"
    ELSE IF score >= Points(70) THEN "good"
    ELSE IF score >= Points(50) THEN "watch"
    ELSE "problem"

MemberScores(members, scores) ==
    [i \in DOMAIN members |-> IF members[i] \in DOMAIN scores
                              THEN scores[members[i]] ELSE None]
MemberWeights(members) == [i \in DOMAIN members |-> weight_for(members[i])]

\* Mutant: a member without a score counts as zero.
UnscoredIsZero(members, scores) ==
    LET of == MemberScores(members, scores)
    IN  SumOf(Contributions(of, MemberWeights(members)))
          \div SumOf(MemberWeights(members))

\* The weighted mean of the members that have a score; `scores` is a
\* function of the audits of the run.
pillar_score(members, scores) ==
    WeightedMean(MemberScores(members, scores), MemberWeights(members))

PillarView(pillar, scores) ==
    LET score == pillar_score(pillar.members, scores)
    IN  [label |-> pillar.label, score |-> score, status |-> status_of(score)]

\* The default verdict, as what it says and the pillars it names.
verdict(score, pillars) ==
    LET scored    == SelectSeq(pillars, LAMBDA p : p.score # None)
        strongest == scored[SelectInSeq(scored, LAMBDA p :
                        \A i \in DOMAIN scored : scored[i].score <= p.score)]
        weakest   == scored[SelectInSeq(scored, LAMBDA p :
                        \A i \in DOMAIN scored : scored[i].score >= p.score)]
    IN  IF score = None \/ scored = <<>> THEN [says |-> "no data"]
        ELSE IF weakest.status = "problem"
        THEN [says |-> "weak link", praised |-> strongest.label,
              blamed |-> weakest.label]
        ELSE IF score >= Points(70)
        THEN [says |-> "strong site", praised |-> strongest.label]
        ELSE [says |-> "reasonable base", blamed |-> weakest.label]

\* The best three of the audits that are in good shape.
strengths(scores) ==
    LET strong == SelectSeq(AuditsByName, LAMBDA a :
                     a \in DOMAIN scores /\ status_of(scores[a]) = "good")
        sorted == SortSeq(strong, LAMBDA a, b : scores[a] > scores[b])
    IN  SubSeq(sorted, 1, AtMost(3, Len(sorted)))

\* Commercial fixes first: sorted by whether they are demoted, in the order of
\* the action list otherwise.
page_fixes(items) ==
    InOrder({[item |-> items[i],
              key |-> <<IF demote_from_page_one(items[i]) THEN 1 ELSE 0, i>>] :
               i \in DOMAIN items})

assemble_page_one(scores, site_score, items) ==
    LET fixes   == page_fixes(items)
        pillars == [i \in DOMAIN PILLARS |-> PillarView(PILLARS[i], scores)]
    IN  [score |-> site_score, grade |-> grade(site_score),
         verdict |-> verdict(site_score, pillars), pillars |-> pillars,
         measure |-> status_of(pillar_score(MEASURE, scores)),
         foundations |-> status_of(pillar_score(FOUNDATIONS, scores)),
         top_fixes |-> SubSeq(fixes, 1, AtMost(5, Len(fixes))),
         strengths |-> strengths(scores)]

SiteScore(results) == weighted_site_score(results).score

\* `run` holds what the database has of a run.
build_page_one(run) ==
    LET audits == {run.results[i].audit : i \in DOMAIN run.results}
        of(a)  == SelectInSeq(run.results, LAMBDA r : r.audit = a)
        scores == [a \in audits |-> run.results[of(a)].score]
    IN  assemble_page_one(scores, run.site_score, build_action_list(run.findings))
=============================================================================
