--------------------------- MODULE ContentAudits ---------------------------
(***************************************************************************)
(* Content quality, content strategy and messaging.  As in TrustAudits,    *)
(* `o` holds what a regular expression or a count finds in the page.       *)
(* `o.titles` is the sequence of the crawled pages' titles; a dated        *)
(* content page is its age in whole months.                                *)
(***************************************************************************)
EXTENDS Scoring, FiniteSets, FiniteSetsExt

\* What conversion.py's detect_conversion_systems and has_cta look for.
CONVERSION_SYSTEMS == {"form", "email", "phone", "booking", "live chat"}

(***************************************************************************)
(* Content quality (audits/content_quality.py)                             *)
(***************************************************************************)
duplicate_content(titles) ==
    IF Len(titles) < 2 THEN Informational("duplicate_content", OBS)
    ELSE Unless(~IsInjective(titles), "duplicate_content", "medium", OBS,
                Warned("duplicate_content", 50, "medium", OBS))

depth_substance(o) ==
    <<IF o.words >= 500 THEN Passed("substance", "medium", INF)
      ELSE IF o.words >= 200 THEN Warned("substance", 70, "medium", INF)
      ELSE Warned("substance", 40, "medium", INF),
      duplicate_content(o.titles), Informational("depth_analysis", NEEDS)>>

\* `trust` is how many of the about and the contact page are linked.
authoritativeness_trust(o) ==
    <<Unless(o.trust < 2, "trust_pages", "medium", OBS,
             Warned("trust_pages", IF o.trust = 1 THEN 60 ELSE 20,
                    "medium", OBS)),
      Unless(~o.presence, "physical_presence", "low", INF,
             Warned("physical_presence", 50, "low", INF)),
      Unless(~o.social, "social_proof", "low", INF,
             Warned("social_proof", 60, "low", INF))>>

expertise_experience(o) ==
    <<Unless(~o.author, "authorship", "low", INF,
             Warned("authorship", 50, "low", INF)),
      Informational("first_hand_experience", NEEDS)>>

\* Left out when the page shows no copyright year.
copyright_current(age) ==
    IF age = None THEN <<>>
    ELSE <<Unless(age > 1, "copyright_current", "low", OBS,
                  Warned("copyright_current", 50, "low", OBS))>>

freshness(o) ==
    <<Unless(~o.dated, "content_dates", "low", INF,
             Warned("content_dates", 50, "low", INF))>>
    \o copyright_current(o.year_age)

readability_structure(o) ==
    <<Unless(o.headings < 2 /\ o.list_items < 3, "scannability", "low", OBS,
             Warned("scannability", 50, "low", OBS)),
      Unless(o.ai_hits > 0, "generic_prose", "low", INF,
             Warned("generic_prose", AtLeast(50, 100 - 15 * o.ai_hits),
                    "low", INF))>>

ContentQuality(o) ==
    <<Category("depth_substance", 25, TRUE, depth_substance(o)),
      Category("authoritativeness_trust", 25, TRUE, authoritativeness_trust(o)),
      Category("expertise_experience", 20, TRUE, expertise_experience(o)),
      Category("freshness", 15, TRUE, freshness(o)),
      Category("readability_structure", 15, TRUE, readability_structure(o))>>

(***************************************************************************)
(* Content strategy (audits/content_strategy.py).  `o.content` counts the  *)
(* content pages of the sitemap and the crawl, `o.dates` is the sequence   *)
(* of their ages.                                                          *)
(***************************************************************************)
inventory(count) ==
    LET key == "content_inventory"
    IN  IF count = 0 THEN Failed(key, 0, "high", OBS)
        ELSE IF count < 5 THEN Warned(key, 45, "medium", OBS)
        ELSE IF count < 15 THEN Warned(key, 70, "low", OBS)
        ELSE IF count < 50 THEN Check(key, 90, "pass", "low", OBS)
        ELSE Passed(key, "low", OBS)

recency(months) ==
    LET key == "content_recency"
    IN  IF months <= 1 THEN Passed(key, "low", OBS)
        ELSE IF months <= 3 THEN Check(key, 85, "pass", "low", OBS)
        ELSE IF months <= 6 THEN Warned(key, 70, "low", OBS)
        ELSE IF months <= 12 THEN Warned(key, 55, "medium", OBS)
        ELSE IF months <= 24 THEN Warned(key, 35, "medium", OBS)
        ELSE Failed(key, 15, "high", OBS)

\* `n` pages dated over `span` months, counted as one month at least.
regularity(n, span) ==
    LET key    == "publishing_regularity"
        months == AtLeast(span, 1)
    IN  IF n >= 20 * months THEN Passed(key, "low", INF)
        ELSE IF n >= 4 * months THEN Check(key, 85, "pass", "low", INF)
        ELSE IF n >= months THEN Warned(key, 70, "low", INF)
        ELSE IF 100 * n >= 33 * months THEN Warned(key, 45, "low", INF)
        ELSE Warned(key, 25, "low", INF)

\* One date on every page is a bulk export, not a cadence.
cadence(o) ==
    LET ages == Range(o.dates)
    IN  <<inventory(o.content)>>
        \o (IF ages = {} THEN <<Informational("content_recency", NEEDS)>>
            ELSE IF Cardinality(ages) = 1
            THEN <<Informational("content_recency", INF)>>
            ELSE <<recency(Min(ages)),
                   regularity(Len(o.dates), Max(ages) - Min(ages))>>)

\* Mutant: the language model's number is cut off at 0 but not at 100.
UnclampedRelevance(o) ==
    LET score == AtLeast(0, o.verdict)
    IN  IF o.content = 0 \/ o.verdict = None
        THEN Informational("content_relevance", NEEDS)
        ELSE Check("content_relevance", score,
                   IF score >= 70 THEN "pass" ELSE "warn", "medium", INF)

\* `verdict` is the language model's relevance, None when it was not asked
\* (no key) or did not answer.
quality_icp(o) ==
    LET score == AtLeast(0, AtMost(100, o.verdict))
    IN  IF o.content = 0 \/ o.verdict = None
        THEN Informational("content_relevance", NEEDS)
        ELSE Check("content_relevance", score,
                   IF score >= 70 THEN "pass" ELSE "warn", "medium", INF)

conversion_pathway(o) ==
    LET key == "conversion_pathway"
    IN  IF o.systems = {} THEN Failed(key, 30, "medium", INF)
        ELSE Unless(~o.cta, key, "medium", INF, Warned(key, 70, "medium", INF))

ContentStrategy(o) ==
    <<Category("publishing_cadence", 30, TRUE, cadence(o)),
      Category("content_quality_icp", 30, TRUE, <<quality_icp(o)>>),
      Category("content_performance", 25, FALSE,
               <<Informational("content_performance", NEEDS)>>),
      Category("conversion_pathway", 15, TRUE, <<conversion_pathway(o)>>)>>

\* The whole part of the square root of a * b.
GeometricMean(a, b) ==
    CHOOSE m \in AtMost(a, b)..AtLeast(a, b) :
        m * m <= a * b /\ a * b < (m + 1) * (m + 1)

\* Cadence and relevance multiply: their geometric mean is one block of 60.
headline_score(categories) ==
    LET a  == categories[1].score
        b  == categories[2].score
        ab == IF a # None /\ b # None THEN GeometricMean(a, b)
              ELSE IF a # None THEN a ELSE b
    IN  WeightedMean(<<ab, categories[3].score, categories[4].score>>,
                     <<60, 25, 15>>)

(***************************************************************************)
(* Messaging (audits/messaging.py).  `o.branded` is how many of the        *)
(* crawled titles carry the brand, None when the page names no brand.      *)
(***************************************************************************)
clarity(o) ==
    <<Unless(~o.headline, "hero_headline", "medium", OBS,
             Failed("hero_headline", 40, "medium", OBS)),
      Unless(o.fillers > 0, "plain_language", "low", INF,
             Warned("plain_language", AtLeast(40, 100 - 15 * o.fillers),
                    "low", INF)),
      Informational("clarity_judgement", NEEDS)>>

value_prop(o) ==
    <<Unless(~o.benefit, "benefit_language", "medium", INF,
             Warned("benefit_language", 50, "medium", INF)),
      Unless(~o.proof, "proof", "low", INF, Warned("proof", 50, "low", INF))>>

conversion_path(o) ==
    <<Unless(~o.cta, "cta_present", "high", OBS,
             Failed("cta_present", 30, "high", OBS)),
      Unless(o.systems = {}, "conversion_systems", "medium", OBS,
             Warned("conversion_systems", 40, "medium", OBS))>>

audience(o) ==
    <<Unless(~o.audience, "audience_signal", "medium", INF,
             Warned("audience_signal", 50, "medium", INF)),
      Informational("icp_fit", NEEDS)>>

consistency(o) ==
    IF o.branded = None \/ Len(o.titles) < 3
    THEN <<Informational("brand_consistency", OBS)>>
    ELSE <<Unless(10 * o.branded < 6 * Len(o.titles), "brand_consistency",
                  "low", OBS, Warned("brand_consistency", 60, "low", OBS))>>

Messaging(o) ==
    <<Category("clarity", 25, TRUE, clarity(o)),
      Category("value_prop", 25, TRUE, value_prop(o)),
      Category("conversion", 20, TRUE, conversion_path(o)),
      Category("audience", 20, TRUE, audience(o)),
      Category("consistency", 10, TRUE, consistency(o))>>
=============================================================================
