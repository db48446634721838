----------------------------- MODULE SeoAudits -----------------------------
(***************************************************************************)
(* Technical SEO, on-page SEO, structured data and AI visibility (GEO).    *)
(* As in TrustAudits, `o` holds what the acquisition observed; `o.pages`   *)
(* is the set of crawled pages and `o.gsc` the Search Console summary, or  *)
(* None without a grant.  A URL stands for its normal form.                *)
(***************************************************************************)
EXTENDS Scoring, FiniteSets

(***************************************************************************)
(* robots.txt, a sequence of <<field, value>> lines, as the technical and  *)
(* the GEO audit each read it.                                             *)
(***************************************************************************)
_AI_BOTS == {"gptbot", "claudebot"}   \* two of the thirteen names

\* True when a group for every agent disallows the whole site.
blocks_everything(robots) ==
    LET step(acc, line) ==
          CASE line[1] = "user-agent" ->
                 [acc EXCEPT !.all = (line[2] = "*")]
            [] line = <<"disallow", "/">> /\ acc.all ->
                 [acc EXCEPT !.blocked = TRUE]
            [] OTHER -> acc
    IN  FoldLeft(step, [all |-> FALSE, blocked |-> FALSE], robots).blocked

\* The AI crawlers a robots.txt names and disallows site-wide.
ai_crawler_blocks(robots) ==
    LET start == [agents |-> {}, ruled |-> FALSE, blocked |-> {}]
        step(acc, line) ==
          CASE line[1] = "blank" ->
                 [acc EXCEPT !.agents = {}, !.ruled = FALSE]
            [] line[1] = "user-agent" ->
                 [acc EXCEPT !.agents =
                                 (IF acc.ruled THEN {} ELSE @) \union {line[2]},
                             !.ruled = FALSE]
            [] line[1] = "disallow" ->
                 [acc EXCEPT !.ruled = TRUE,
                             !.blocked = IF line[2] = "/"
                                         THEN @ \union (acc.agents \intersect _AI_BOTS)
                                         ELSE @]
            [] OTHER -> acc
    IN  FoldLeft(step, start, robots).blocked

(***************************************************************************)
(* Technical SEO (audits/technical_seo.py)                                 *)
(***************************************************************************)
Ok(pages) == {p \in pages : p.status = 200}

sitemap_coverage(o) ==
    LET crawled == {p.url : p \in Ok(o.pages)}
        n       == Cardinality(crawled)
        covered == Cardinality(crawled \intersect o.locs)
    IN  IF o.locs = {} \/ crawled = {} THEN <<>>
        ELSE <<IF 10 * covered >= 9 * n THEN Passed("sitemap_coverage", "low", OBS)
               ELSE IF 10 * covered >= 6 * n THEN
                      Warned("sitemap_coverage", 70, "medium", OBS)
               ELSE Warned("sitemap_coverage", 40, "medium", OBS)>>

\* `sample` counts the probed entries, the dead and the redirecting ones.
sitemap_health(sample) ==
    LET score == (100 * (sample.size - sample.dead)) \div sample.size
    IN  IF sample.size = 0 THEN <<>>
        ELSE <<IF sample.dead > 0 THEN
                      Check("sitemap_health", score,
                            IF score < 80 THEN "fail" ELSE "warn", "medium", OBS)
               ELSE IF sample.redirecting > 0 THEN
                      Warned("sitemap_health", score, "low", OBS)
               ELSE Check("sitemap_health", score, "pass", "low", OBS)>>

indexed_count(o) ==
    LET crawled == Cardinality(Ok(o.pages))
    IN  IF o.gsc = None THEN Informational("indexed_count", NEEDS)
        ELSE IF o.gsc.serving_pages = 0 THEN
               Informational("indexed_count", OBS)
        ELSE IF 10 * o.gsc.serving_pages < 8 * crawled THEN
               Warned("indexed_count", 70, "medium", OBS)
        ELSE Passed("indexed_count", "low", OBS)

indexation(o) ==
    <<Unless(o.noindex, "homepage_indexable", "low", OBS,
             Failed("homepage_indexable", 0, "critical", OBS)),
      Unless(~o.canonical, "canonical_tag", "medium", OBS,
             Warned("canonical_tag", 50, "medium", OBS)),
      Unless(o.https # "yes", "https_canonicalisation", "medium", OBS,
             Failed("https_canonicalisation", 0, "medium", OBS)),
      indexed_count(o)>>

robots_txt(o) ==
    IF o.robots = None THEN Warned("robots_txt", 50, "low", OBS)
    ELSE IF blocks_everything(o.robots) THEN
           Failed("robots_txt", 0, "critical", OBS)
    ELSE Passed("robots_txt", "low", OBS)

crawl_depth(o) ==
    LET deep == Cardinality({p \in o.pages : p.depth >= 4})
    IN  IF o.pages = {} THEN Informational("crawl_depth", OBS)
        ELSE IF deep = 0 THEN Passed("crawl_depth", "low", OBS)
        ELSE IF deep <= 3 THEN Warned("crawl_depth", 70, "low", OBS)
        ELSE Warned("crawl_depth", 40, "low", OBS)

js_dependency(o) ==
    Unless(2 * o.rendered_links > 3 * o.raw_links
           /\ o.rendered_links - o.raw_links > 10,
           "js_content_dependency", "medium", INF,
           Warned("js_content_dependency", 50, "medium", INF))

crawlability(o) ==
    <<robots_txt(o),
      Unless(o.locs = {}, "xml_sitemap", "medium", OBS,
             Warned("xml_sitemap", 50, "medium", OBS)),
      crawl_depth(o), js_dependency(o)>>
    \o sitemap_coverage(o) \o sitemap_health(o.sample)

site_response(o) ==
    LET answered == {p \in o.pages : p.status # None}
        ok       == {p \in answered : p.status \in 200..299}
        errors   == {p \in answered : p.status >= 400}
        score    == (100 * Cardinality(ok)) \div Cardinality(answered)
    IN  IF answered = {} THEN <<Informational("status_health", OBS)>>
        ELSE <<IF errors = {} THEN Check("status_health", score, "pass", "low", OBS)
               ELSE Warned("status_health", score, "medium", OBS)>>

mobile(o) ==
    <<Unless(~o.viewport, "viewport_meta", "high", OBS,
             Failed("viewport_meta", 0, "high", OBS))>>

\* `hreflang`: no tag, tags with an x-default, or tags without one.
international(o) ==
    IF o.hreflang = "none" THEN <<Informational("hreflang", OBS)>>
    ELSE <<Unless(o.hreflang = "no_default", "hreflang", "medium", OBS,
                  Warned("hreflang", 70, "medium", OBS))>>

TechnicalSeo(o) ==
    <<Category("indexation", 30, TRUE, indexation(o)),
      Category("crawlability", 25, TRUE, crawlability(o)),
      Category("site_response", 20, TRUE, site_response(o)),
      Category("mobile", 15, TRUE, mobile(o)),
      Category("international", 10, o.hreflang # "none", international(o))>>

(***************************************************************************)
(* On-page SEO (audits/on_page_seo.py).  Lengths are in characters, 0 for  *)
(* a tag that is missing; `position` is Search Console's mean position.    *)
(***************************************************************************)
score_length(key, value, low, high, severity) ==
    IF value \in low..high THEN Passed(key, severity, OBS)
    ELSE Warned(key, 60, severity, OBS)

\* A share of items as a check: it passes at `ok` percent.
Share(key, part, whole, ok, severity, detection) ==
    Check(key, (100 * part) \div whole,
          IF 100 * part >= ok * whole THEN "pass" ELSE "warn",
          severity, detection)

search_visibility(gsc) ==
    IF gsc.clicks > 0 THEN Passed("search_visibility", "low", OBS)
    ELSE IF gsc.impressions > 0 THEN Warned("search_visibility", 60, "medium", OBS)
    ELSE Failed("search_visibility", 25, "high", OBS)

average_position(gsc) ==
    IF gsc.position = None \/ gsc.impressions = 0 THEN <<>>
    ELSE <<IF gsc.position <= 5 THEN Passed("average_position", "low", OBS)
           ELSE IF gsc.position <= 10 THEN
                  Check("average_position", 80, "pass", "low", OBS)
           ELSE IF gsc.position <= 20 THEN Warned("average_position", 55, "medium", OBS)
           ELSE Failed("average_position", 30, "medium", OBS)>>

ranking_checks_from_gsc(gsc) ==
    <<search_visibility(gsc)>> \o average_position(gsc)
    \o (IF gsc.striking THEN <<Informational("striking_distance", OBS)>> ELSE <<>>)

title_tag(o) ==
    IF o.title = 0 THEN Failed("title_tag", 0, "high", OBS)
    ELSE score_length("title_tag", o.title, 30, 60, "medium")

meta_description(o) ==
    IF o.meta = 0 THEN Warned("meta_description", 50, "medium", OBS)
    ELSE score_length("meta_description", o.meta, 120, 160, "low")

image_alt(o) ==
    IF o.images.all = 0 THEN Informational("image_alt", OBS)
    ELSE Share("image_alt", o.images.with_alt, o.images.all, 90, "low", OBS)

title_uniqueness(o) ==
    LET titled == {p \in o.pages : p.title # None}
        unique == {p.title : p \in titled}
    IN  IF Cardinality(titled) < 2 THEN Informational("title_uniqueness", OBS)
        ELSE Share("title_uniqueness", Cardinality(unique), Cardinality(titled),
                   100, "medium", OBS)

on_page_elements(o) ==
    <<title_tag(o), meta_description(o),
      Unless(o.h1s # 1, "h1", "low", OBS, Warned("h1", 50, "medium", OBS)),
      image_alt(o), title_uniqueness(o)>>

keyword_targeting(o) ==
    <<IF o.title = 0 \/ o.h1s = 0
      THEN Warned("title_h1_alignment", 50, "medium", INF)
      ELSE Unless(~o.aligned, "title_h1_alignment", "low", INF,
                  Warned("title_h1_alignment", 60, "low", INF)),
      Informational("intent_analysis", NEEDS)>>

semantic_content(o) ==
    <<IF o.words >= 300 THEN Passed("content_depth", "medium", INF)
      ELSE IF o.words >= 120 THEN Warned("content_depth", 70, "medium", INF)
      ELSE Warned("content_depth", 40, "medium", INF),
      Informational("semantic_coverage", NEEDS)>>

ranking_performance(o) ==
    <<Informational("anticipated_phrases", INF)>>
    \o (IF o.gsc = None THEN <<Informational("rankings", NEEDS)>>
        ELSE ranking_checks_from_gsc(o.gsc))

local_seo(o) ==
    IF ~o.tel /\ ~o.local_markup THEN <<Informational("local_signals", OBS)>>
    ELSE <<Unless(~o.tel, "nap_presence", "low", INF,
                  Warned("nap_presence", 60, "low", INF))>>

OnPageSeo(o) ==
    <<Category("on_page_elements", 25, TRUE, on_page_elements(o)),
      Category("keyword_targeting", 20, TRUE, keyword_targeting(o)),
      Category("semantic_content", 20, TRUE, semantic_content(o)),
      Category("ranking_performance", 25, TRUE, ranking_performance(o)),
      Category("local_seo", 10, o.tel \/ o.local_markup, local_seo(o))>>

(***************************************************************************)
(* Structured data (audits/schema.py).  `objects` are the JSON-LD objects  *)
(* in the order the walk visits them, each with its types and properties;  *)
(* `blocks` and `invalid` count the scripts that parse and that do not.    *)
(***************************************************************************)
_ORG_TYPES == {"Organization", "LocalBusiness", "OnlineStore"}   \* of eleven
_RICH_TYPES == {"Product", "Article", "BlogPosting", "Event", "LocalBusiness",
                "Organization"}                                \* of sixteen
_DEPRECATED_RICH == {"FAQPage", "HowTo"}
REQUIRED ==
    [Organization |-> {"name"}, LocalBusiness |-> {"name", "address"},
     Article |-> {"headline"}, BlogPosting |-> {"headline"},
     Product |-> {"name"}, Event |-> {"name", "startDate"}]

collect_types(objects) == UNION {objects[i].types : i \in DOMAIN objects}
find_objects(objects, wanted) ==
    SelectSeq(objects, LAMBDA obj : obj.types \intersect wanted # {})

missing_required(objects) ==
    UNION {UNION {REQUIRED[t] \ objects[i].props :
                     t \in objects[i].types \intersect DOMAIN REQUIRED} :
              i \in DOMAIN objects}

presence(o) ==
    <<Unless(o.blocks = 0 /\ ~o.microdata, "structured_data_present",
             "medium", OBS, Failed("structured_data_present", 0, "medium", OBS)),
      Unless(collect_types(o.objects) \intersect (_ORG_TYPES \union {"WebSite"})
                = {}, "core_types", "low", INF,
             Warned("core_types", 50, "low", INF))>>

validity(o) ==
    IF o.blocks = 0 /\ o.invalid = 0
    THEN <<Informational("json_ld_valid", OBS)>>
    ELSE <<Unless(o.invalid > 0, "json_ld_valid", "medium", OBS,
                  Failed("json_ld_valid",
                         (100 * o.blocks) \div (o.blocks + o.invalid),
                         "medium", OBS)),
           Unless(missing_required(o.objects) # {}, "required_properties",
                  "low", INF, Warned("required_properties", 60, "low", INF))>>

rich_results(o) ==
    LET types == collect_types(o.objects)
    IN  <<Unless(types \intersect _RICH_TYPES = {}, "rich_eligible_types",
                 "low", INF, Warned("rich_eligible_types", 50, "low", INF))>>
        \o (IF types \intersect _DEPRECATED_RICH = {} THEN <<>>
            ELSE <<Informational("deprecated_rich", OBS)>>)

\* The first organisation met decides.
entity(o) ==
    LET orgs == find_objects(o.objects, _ORG_TYPES)
    IN  IF orgs = <<>> THEN <<Warned("organization_entity", 40, "medium", OBS)>>
        ELSE IF {"sameAs", "logo"} \subseteq orgs[1].props THEN
               <<Passed("organization_entity", "low", OBS)>>
        ELSE <<Warned("organization_entity", 70, "low", OBS)>>

Schema(o) ==
    <<Category("presence", 30, TRUE, presence(o)),
      Category("validity", 30, TRUE, validity(o)),
      Category("rich_results", 20, TRUE, rich_results(o)),
      Category("entity", 20, TRUE, entity(o))>>

(***************************************************************************)
(* AI search visibility (audits/geo.py).  `coverage` is the pair of buyer  *)
(* questions answered and asked by the language model's judgement, None    *)
(* when there is no key, no text, no answer or no question.                *)
(***************************************************************************)
extractability(o) ==
    <<Unless(~o.question_heading /\ ~o.faqpage, "qa_structure", "low", INF,
             Warned("qa_structure", 50, "low", INF)),
      Unless(o.list_items < 3 /\ ~o.table, "extractable_chunks", "low", OBS,
             Warned("extractable_chunks", 60, "low", OBS))>>

llm_answerability(coverage) ==
    LET score == (100 * coverage[1]) \div coverage[2]
    IN  IF score >= 80 THEN
               Check("icp_question_coverage", score, "pass", "low", INF)
        ELSE IF score >= 50 THEN Warned("icp_question_coverage", score, "medium", INF)
        ELSE Warned("icp_question_coverage", score, "high", INF)

answerability(o) ==
    <<Unless(~o.faq_text /\ ~o.faqpage, "faq_content", "low", INF,
             Warned("faq_content", 60, "low", INF))>>
    \o (IF o.coverage = None
        THEN <<Informational("icp_question_coverage", NEEDS)>>
        ELSE <<llm_answerability(o.coverage),
               Informational("icp_question_source", NEEDS)>>)

\* A missing llms.txt is informational and still scores 80.
ai_crawler_access(o) ==
    <<Unless(o.robots # None /\ ai_crawler_blocks(o.robots) # {},
             "ai_crawler_access", "low", OBS,
             Warned("ai_crawler_access", 50, "medium", OBS)),
      IF o.llms_txt THEN Passed("llms_txt", "info", OBS)
      ELSE Check("llms_txt", 80, "info", "info", OBS)>>

authority(o) ==
    <<Unless(~o.authority, "corroboration_signals", "low", INF,
             Warned("corroboration_signals", 60, "low", INF)),
      Informational("off_page_authority", NEEDS)>>

Geo(o) ==
    <<Category("ai_citation", 30, TRUE,
               <<Informational("ai_answer_citation", NEEDS)>>),
      Category("extractability", 25, TRUE, extractability(o)),
      Category("answerability", 20, TRUE, answerability(o)),
      Category("ai_crawler_access", 15, TRUE, ai_crawler_access(o)),
      Category("authority", 10, TRUE, authority(o))>>
=============================================================================
