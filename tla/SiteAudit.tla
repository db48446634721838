----------------------------- MODULE SiteAudit -----------------------------
(***************************************************************************)
(* One site through its audit runs: the acquisition observes the site, the *)
(* eleven audits read the same observation, the weights make the site      *)
(* score, and the report ranks what was found (runner.py).                 *)
(*                                                                         *)
(* `site` holds the facts of the site, its owner edits them one at a time. *)
(* A run observes them through sources that may fail: the homepage fetch,  *)
(* the browser (which crashes, or times out after requests were recorded), *)
(* PageSpeed, Search Console, GA4 and the language model.  A failure never *)
(* breaks the run, the audits read what is left.                           *)
(***************************************************************************)
EXTENDS Report, TrustAudits, SeoAudits, ContentAudits

CONSTANTS
    Profiles,      \* the facts a site may start from
    Facts,         \* the values an edit may give to a fact
    FaultSets(_, _),  \* the sources that may fail together in a run, after so
                   \* many edits and a run in which the given ones failed
    MaxEdits       \* bound on the facts edited from the profile

\* What the acquisition measures, and what a measurement can be: a part is at
\* most its whole.  httpx follows redirects, so a page's status is final; a
\* redirect that names no Location is left out of the model.
Measures ==
    {"components", "boilerplate", "fillers", "ai_hits", "blocks", "invalid",
     "policy", "axe", "lighthouse", "pages", "sample", "images", "coverage",
     "verdict"}

FinalStatus == 200..299 \union 400..599

Possible(fact, value) ==
    /\ fact = "components" =>
         value \in Seq([product : DOMAIN component_key, version : Nat \X Nat])
    /\ fact \in {"boilerplate", "fillers", "ai_hits", "blocks", "invalid"} =>
         value \in Nat
    /\ fact = "policy" => value \in 0..7 \union {None}
    /\ fact = "axe" => value \in (Nat \X Nat) \union {None}
    /\ fact = "lighthouse" => value \in 0..100 \union {None}
    /\ fact = "pages" =>
         IsFiniteSet(value) /\ \A p \in value : p.status \in FinalStatus \union {None}
    /\ fact = "sample" => value.size \in Nat /\ value.dead \in 0..value.size
    /\ fact = "images" => value.all \in Nat /\ value.with_alt \in 0..value.all
    /\ fact = "coverage" /\ value # None =>
         value[2] \in Nat \ {0} /\ value[1] \in 0..value[2]
    /\ fact = "verdict" => value \in Int \union {None}

\* The facts of a site that the acquisition reads.
FactNames ==
    Measures \union
    {"https", "tls", "days", "headers", "insecure_refs", "exposed",
     "set_cookie", "leaks_version", "builder", "year_age", "cmp", "trackers",
     "tracking_cookies", "us_processors", "privacy", "terms", "identity",
     "statement", "pii_forms", "insecure_action", "tags", "ga4", "html",
     "requests", "pagespeed", "field", "origin", "lab", "total_kb",
     "compressed", "locs", "gsc", "noindex", "canonical", "robots",
     "raw_links", "rendered_links", "viewport", "hreflang", "title", "meta",
     "h1s", "aligned", "words", "tel", "objects", "microdata",
     "question_heading", "list_items", "table", "faq_text", "llms_txt",
     "authority", "trust", "presence", "social", "author", "dated",
     "headings", "posts", "dates", "systems", "cta", "headline", "benefit",
     "proof", "audience", "brand"}

Measured(facts) ==
    /\ FactNames \subseteq DOMAIN facts
    /\ \A f \in Measures : Possible(f, facts[f])

ASSUME SitesAssumption ==
    /\ \A s \in Profiles : Measured(s)
    /\ \A f \in DOMAIN Facts : \A value \in Facts[f] : Possible(f, value)

VARIABLES
    site,          \* what is true of the site
    edited,        \* the facts edited so far
    run            \* the latest complete run, None before the first

vars == <<site, edited, run>>

(***************************************************************************)
(* The observation                                                         *)
(***************************************************************************)
\* The fetch failed: no headers, no page, no robots.txt, no sitemap.
NoFetch ==
    [headers |-> {}, insecure_refs |-> 0, exposed |-> FALSE,
     set_cookie |-> "none", leaks_version |-> FALSE, components |-> <<>>,
     builder |-> "none", boilerplate |-> 0, robots |-> None, locs |-> {},
     posts |-> 0, dates |-> <<>>, compressed |-> FALSE, raw_links |-> 0,
     sample |-> [size |-> 0, dead |-> 0, redirecting |-> 0]]

\* The browser failed: no page and no cookie.  The requests it made before a
\* timeout are known, and none of them matched a signature yet.
NoRender(requests) ==
    [html |-> FALSE, requests |-> requests, tags |-> {}, cmp |-> FALSE,
     trackers |-> FALSE, tracking_cookies |-> FALSE, us_processors |-> FALSE,
     privacy |-> FALSE, policy |-> None, terms |-> FALSE, identity |-> FALSE,
     axe |-> None, statement |-> FALSE, pii_forms |-> 0,
     insecure_action |-> FALSE, brand |-> FALSE]

\* Both failed: there is no document to read.
NoPage ==
    [noindex |-> FALSE, canonical |-> FALSE, viewport |-> FALSE,
     hreflang |-> "none", title |-> 0, meta |-> 0, h1s |-> 0,
     images |-> [all |-> 0, with_alt |-> 0], words |-> 0, tel |-> FALSE, objects |-> <<>>,
     blocks |-> 0, invalid |-> 0, microdata |-> FALSE, list_items |-> 0,
     question_heading |-> FALSE, table |-> FALSE, faq_text |-> FALSE,
     authority |-> FALSE, trust |-> 0, presence |-> FALSE, social |-> FALSE,
     author |-> FALSE, dated |-> FALSE, year_age |-> None, headings |-> 0,
     ai_hits |-> 0, systems |-> {}, cta |-> FALSE, headline |-> FALSE,
     fillers |-> 0, benefit |-> FALSE, proof |-> FALSE, audience |-> FALSE,
     coverage |-> None, rendered_links |-> 0]

\* The facts, with those of the overlay in their place.
Over(overlay, facts) ==
    [f \in DOMAIN overlay \union DOMAIN facts |->
        IF f \in DOMAIN overlay THEN overlay[f] ELSE facts[f]]

When(condition, overlay) == IF condition THEN overlay ELSE [f \in {} |-> None]

\* What the failed sources leave of the facts.
Reached(s, faults) ==
    LET unrendered == faults \intersect {"browser", "timeout"} # {}
        fetched    == Over(When("fetch" \in faults, NoFetch), s)
        rendered   == Over(When(unrendered, [rendered_links |-> s.raw_links]),
                           fetched)
        seen       == Over(When(unrendered, NoRender("timeout" \in faults)),
                           rendered)
        read       == Over(When(unrendered /\ "fetch" \in faults, NoPage), seen)
        measured   == Over(When("pagespeed" \in faults, [pagespeed |-> FALSE]),
                           read)
        connected  == Over(When("search_console" \in faults, [gsc |-> None]),
                           Over(When("ga4" \in faults, [ga4 |-> FALSE]), measured))
    IN  Over(When("llm" \in faults, [coverage |-> None, verdict |-> None]),
             connected)

\* The titles of the crawled pages that have one, in some order.
TitlesOf(pages) ==
    LET titled == SetToSeq({p \in pages : p.title # None})
    IN  [i \in DOMAIN titled |-> titled[i].title]

\* The crawled pages that are content by their path; `posts` counts those that
\* the sitemap alone lists.
PostsOf(pages) == {p \in pages : p.post}

\* The facts several audits read in a form of their own; a fact of what is not
\* there (a sitemap, a heading, a title, a script) does not count.
Observed(s, faults) ==
    LET r      == Reached(s, faults)
        listed == r.locs # {}
        found  == IF r.blocks > 0 THEN r.objects ELSE <<>>
        types  == collect_types(found)
        titles == TitlesOf(r.pages)
    IN  Over([titles       |-> titles,
              branded      |-> IF ~r.brand \/ r.title = 0 THEN None
                               ELSE Len(SelectSeq(titles, LAMBDA t : t # "other")),
              sample       |-> IF listed THEN r.sample ELSE NoFetch.sample,
              dates        |-> IF listed THEN r.dates ELSE <<>>,
              content      |-> (IF listed THEN r.posts ELSE 0) + Cardinality(PostsOf(r.pages)),
              headline     |-> r.headline /\ r.h1s > 0,
              objects      |-> found,
              faqpage      |-> "FAQPage" \in types,
              local_markup |-> "LocalBusiness" \in types,
              systems      |-> r.systems \union (IF r.tel THEN {"phone"} ELSE {}),
              contact      |-> r.tel \/ "email" \in r.systems,
              days         |-> tls_days(r)], r)

(***************************************************************************)
(* The run                                                                 *)
(***************************************************************************)
\* Mutant: build security reads the rendered page after a failed fetch.
RenderedPage(o, faults) == o

\* Build security reads the fetched page, the others the rendered one when
\* there is one.
AcquiredOnly(o, faults) ==
    IF "fetch" \in faults THEN [o EXCEPT !.year_age = None, !.contact = FALSE]
    ELSE o

StrategyResult(o) ==
    LET categories == ContentStrategy(o)
    IN  [AuditResult("content_strategy", categories)
            EXCEPT !.score = headline_score(categories)]

\* The results of AUDIT_MODULES, in their order.
Results(s, faults) ==
    LET o == Observed(s, faults)
    IN  <<AuditResult("build_security", BuildSecurity(AcquiredOnly(o, faults))),
          AuditResult("compliance", Compliance(o)),
          AuditResult("technical_seo", TechnicalSeo(o)),
          AuditResult("on_page_seo", OnPageSeo(o)),
          AuditResult("schema", Schema(o)),
          AuditResult("content_quality", ContentQuality(o)),
          AuditResult("performance", Performance(o)),
          AuditResult("messaging", Messaging(o)),
          AuditResult("geo", Geo(o)),
          StrategyResult(o),
          AuditResult("analytics", Analytics(o))>>

Init ==
    /\ site \in Profiles
    /\ edited = {}
    /\ run = None

\* The owner, or time, changes a fact of the site.  Bound: not after a run in
\* which a source failed.
Edit(fact, value) ==
    /\ run # None => run.faults = {}
    /\ fact \notin edited
    /\ Cardinality(edited) < MaxEdits
    /\ site[fact] # value
    /\ site' = [site EXCEPT ![fact] = value]
    /\ edited' = edited \union {fact}
    /\ UNCHANGED run

\* What failed in the latest run.
FailedBefore == IF run = None THEN {} ELSE run.faults

\* execute_run, as far as its snapshot: RunQueue has its locks and failures.
Execute(faults) ==
    /\ run' = LET results == Results(site, faults)
              IN  [site |-> site, faults |-> faults, results |-> results,
                   findings |-> FindingsOf(results),
                   site_score |-> SiteScore(results)]
    /\ UNCHANGED <<site, edited>>

Next ==
    \/ \E fact \in DOMAIN Facts : \E value \in Facts[fact] : Edit(fact, value)
    \/ \E faults \in FaultSets(Cardinality(edited), FailedBefore) : Execute(faults)

Spec == Init /\ [][Next]_vars

(***************************************************************************)
(* Properties                                                              *)
(***************************************************************************)
Percent == 0..100
Mean == 0..Points(100)

FindingType(f) ==
    /\ f.check.score \in Percent \union {None}
    /\ f.check.status \in {"fail", "warn", "pass", "info"}
    /\ f.check.severity \in DOMAIN SEVERITY_RANK
    /\ f.check.detection \in {OBS, INF, NEEDS}

\* Every score a run stores is a number of points, whatever the site answers:
\* no branch divides by an empty sample or leaves the scale.
TypeOK ==
    /\ site \in Profiles \/ edited # {}
    /\ run # None =>
         /\ \A i \in DOMAIN run.results :
              /\ run.results[i].score \in Mean \union {None}
              /\ run.results[i].completeness \in Percent
         /\ \A f \in Range(run.findings) : FindingType(f)

\* What the audits emit and what the catalogue explains agree: every finding
\* that fails or warns is in the action list, so no problem is found and then
\* dropped because its key has no entry (ranking.py skips those).
ActionableIsListed ==
    run # None =>
      Len(build_action_list(run.findings))
        = Cardinality({i \in DOMAIN run.findings :
                         Actionable(run.findings[i].check)})

\* No check pulls a score down unseen: one that earns fewer than 50 points is
\* a warning or a failure, which the action list shows.
LowScoreIsActionable ==
    run # None =>
      \A f \in Range(run.findings) :
        Scored(f.check) /\ f.check.score < 50 => Actionable(f.check)

Between(mean, scores) ==
    mean # None => /\ \E s \in scores : s <= mean
                   /\ \E s \in scores : mean <= s

\* Rebalancing: a mean lies between the scores it is a mean of, whichever
\* checks, categories or audits could not be assessed.  An unassessed part
\* counted as zero, or its weight kept, takes the mean out of that range.
MeansStayInside ==
    run # None =>
      /\ Between(run.site_score,
                 {r.score : r \in Range(run.results)} \ {None})
      /\ \A r \in Range(run.results) :
           Between(r.score, {c.score : c \in {d \in Range(r.categories) : Counts(d)}})

\* A readable secret or a broken certificate is on the owner's page, however
\* much else is wrong with the site: the demotion of foundations work spares it
\* and the ranking never crowds it out.
SecretsReachPageOne ==
    run # None =>
      LET fixes == Range(build_page_one(run).top_fixes)
      IN  \A f \in Range(run.findings) :
            /\ f.check.key \in {"exposed_paths", "tls_valid"}
            /\ f.check.status = "fail"
            => \E item \in fixes : item.key = f.check.key

\* A part of the page that the owner sees in red has something to do in the
\* action list, although its score may be a mean of means, or the weighted
\* headline of the content strategy, with unassessed parts rebalanced away.
RedPartsHaveWork ==
    run # None =>
      LET audits  == {r.audit : r \in Range(run.results)}
          of(a)   == SelectInSeq(run.results, LAMBDA r : r.audit = a)
          scores  == [a \in audits |-> run.results[of(a)].score]
          work    == {item.audit : item \in Range(build_action_list(run.findings))}
          parts   == {PILLARS[i].members : i \in DOMAIN PILLARS}
                       \union {MEASURE, FOUNDATIONS}
      IN  \A members \in parts :
            status_of(pillar_score(members, scores)) = "problem"
              => Range(members) \intersect work # {}

\* The audits that read a source that may be missing.
ReadersOf(fault) ==
    CASE fault = "pagespeed"      -> {"performance"}
      [] fault = "search_console" -> {"technical_seo", "on_page_seo"}
      [] fault = "ga4"            -> {"analytics"}
      [] fault = "llm"            -> {"geo", "content_strategy"}
      [] fault = "fetch"          -> Range(AuditsByName) \ {"analytics"}
      [] OTHER                    -> Range(AuditsByName) \ {"build_security"}

\* Two runs over an unchanged site differ only in the audits that read a
\* source which failed in one of them and not in the other.
FailuresAreContained ==
    [][run # None /\ run'.site = run.site =>
         LET apart == (run.faults \ run'.faults) \union (run'.faults \ run.faults)
         IN  \A i \in DOMAIN run.results :
               run'.results[i] # run.results[i] =>
                 run.results[i].audit \in UNION {ReadersOf(f) : f \in apart}]_run
=============================================================================
