---------------------------- MODULE TrustAudits ----------------------------
(***************************************************************************)
(* Build quality and security, compliance, analytics and performance: each *)
(* audit as an operator from what the acquisition observed to the          *)
(* categories its run() returns.  What a regular expression finds in the   *)
(* page is a field of the observation `o`; every branch of every check is  *)
(* here.  Booleans the code leaves undetermined are "yes", "no" or         *)
(* "unknown".                                                              *)
(***************************************************************************)
EXTENDS Scoring

(***************************************************************************)
(* Build quality and security (audits/build_security.py)                   *)
(***************************************************************************)
SECURITY_HEADERS ==
    <<"header_strict_transport_security", "header_content_security_policy",
      "header_x_frame_options", "header_x_content_type_options",
      "header_referrer_policy", "header_permissions_policy">>

passfail(key, value, severity) ==
    CASE value = "unknown" -> Warned(key, 0, severity, OBS)
      [] value = "yes"     -> Passed(key, severity, OBS)
      [] OTHER             -> Failed(key, 0, severity, OBS)

\* What the handshake tells of the expiry date: only a verified certificate
\* has one.
tls_days(o) == IF o.tls = "yes" THEN o.days ELSE None

tls_expiry(days) ==
    IF days = None THEN Warned("tls_expiry", 0, "high", OBS)
    ELSE IF days > 30 THEN Passed("tls_expiry", "high", OBS)
    ELSE IF days > 7 THEN Warned("tls_expiry", 50, "high", OBS)
    ELSE Failed("tls_expiry", 0, "high", OBS)

header_checks(present) ==
    [i \in 1..Len(SECURITY_HEADERS) |->
        IF SECURITY_HEADERS[i] \in present
        THEN Passed(SECURITY_HEADERS[i], "medium", OBS)
        ELSE Failed(SECURITY_HEADERS[i], 0, "medium", OBS)]

mixed_content(o) ==
    IF o.insecure_refs = 0 THEN Passed("mixed_content", "medium", OBS)
    ELSE Failed("mixed_content", 0, "medium", OBS)

exposed_paths(o) ==
    IF o.exposed THEN Failed("exposed_paths", 0, "critical", OBS)
    ELSE Passed("exposed_paths", "critical", OBS)

\* No cookie, every cookie flagged, or one that misses a flag.
cookie_flags(o) ==
    IF o.set_cookie = "unflagged"
    THEN Warned("cookie_flags", 50, "medium", OBS)
    ELSE Passed("cookie_flags", "low", OBS)

info_leakage(o) ==
    IF o.leaks_version THEN Warned("info_leakage", 50, "low", OBS)
    ELSE Passed("info_leakage", "low", OBS)

security_posture(o) ==
    <<passfail("https_enforced", o.https, "high"),
      passfail("tls_valid", o.tls, "high"), tls_expiry(o.days)>>
    \o header_checks(o.headers)
    \o <<mixed_content(o), exposed_paths(o), cookie_flags(o), info_leakage(o)>>

\* `year_age` is how many years the footer's year lies back.
copyright_year(o) ==
    IF o.year_age = None THEN Informational("copyright_year", INF)
    ELSE IF o.year_age > 1 THEN Warned("copyright_year", 50, "low", INF)
    ELSE Passed("copyright_year", "low", INF)

maintenance(o) ==
    <<copyright_year(o), Informational("crawl_signals", NEEDS)>>

\* A version is a pair <<major, minor>>; PHP below 8.1 is end of life.
php_eol(c) ==
    /\ c.product = "php"
    /\ \/ c.version[1] < 8
       \/ c.version[1] = 8 /\ c.version[2] < 1

component_check(c) ==
    IF php_eol(c) THEN Failed(component_key[c.product], 0, "high", OBS)
    ELSE Passed(component_key[c.product], "low", OBS)

versions_vulns(o) ==
    IF o.components = <<>> THEN <<Informational("version_disclosure", OBS)>>
    ELSE Append(
           [i \in DOMAIN o.components |-> component_check(o.components[i])],
           IF \E i \in DOMAIN o.components : php_eol(o.components[i])
           THEN Failed("known_vulnerabilities", 0, "high", INF)
           ELSE Passed("known_vulnerabilities", "medium", INF))

\* The likelihood, in percent, that the site was generated.
ai_confidence(o) ==
    AtMost(100, (CASE o.builder = "ai" -> 60 [] o.builder = "template" -> 20
                   [] OTHER -> 0)
                + AtMost(30, 10 * o.boilerplate)
                + (IF o.contact THEN 0 ELSE 10))

\* Mutant: the warning starts too late.
LenientAiTells(o) ==
    LET confidence == ai_confidence(o)
    IN  <<Check("ai_build_likelihood", 100 - confidence,
                IF confidence >= 70 THEN "warn" ELSE "pass", "low", INF)>>

ai_tells(o) ==
    LET confidence == ai_confidence(o)
    IN  IF confidence >= 50
        THEN <<Warned("ai_build_likelihood", 100 - confidence, "low", INF)>>
        ELSE <<Check("ai_build_likelihood", 100 - confidence,
                     "pass", "low", INF)>>

BuildSecurity(o) ==
    <<Category("security_posture", 35, TRUE, security_posture(o)),
      Category("maintenance", 25, TRUE, maintenance(o)),
      Category("fingerprint", 5, FALSE,
               <<Informational("stack_detected", OBS)>>),
      Category("versions_vulns", 25, TRUE, versions_vulns(o)),
      Category("ai_tells", 10, TRUE, ai_tells(o))>>

(***************************************************************************)
(* Compliance (audits/compliance.py): reads the render, so a failed render *)
(* is an empty page that made no request and set no cookie.                *)
(***************************************************************************)
cookies_consent(o) ==
    <<Unless(~o.cmp, "consent_mechanism", "medium", OBS,
             Warned("consent_mechanism", 50, "medium", OBS)),
      Unless(o.trackers \/ o.tracking_cookies, "trackers_before_consent",
             "low", OBS, Failed("trackers_before_consent", 0, "high", OBS))>>

trackers_transfers(o) ==
    <<Informational("third_party_inventory", OBS),
      Unless(o.us_processors, "us_processor_transfer", "low", OBS,
             Warned("us_processor_transfer", 60, "medium", OBS)),
      Unless(o.https # "yes", "secure_transport", "high", OBS,
             Failed("secure_transport", 0, "high", OBS))>>

\* `policy` is None when the linked page could not be read, else how many of
\* the seven expected areas it covers.
policy_completeness(o) ==
    IF o.policy = None
    THEN Informational("privacy_policy_completeness", NEEDS)
    ELSE Check("privacy_policy_completeness", (100 * o.policy) \div 7,
               IF 10 * o.policy >= 49 THEN "pass" ELSE "warn", "medium", INF)

privacy_legal(o) ==
    <<Unless(~o.privacy, "privacy_policy_present", "high", OBS,
             Failed("privacy_policy_present", 0, "high", OBS))>>
    \o (IF o.privacy THEN <<policy_completeness(o)>> ELSE <<>>)
    \o <<Unless(~o.terms, "terms_present", "low", OBS,
                Warned("terms_present", 50, "low", OBS)),
         Unless(~o.identity, "company_identity", "low", INF,
                Warned("company_identity", 50, "low", INF))>>

\* `axe` is None when the scan did not run, else the pair of its violation
\* types and of the serious ones among them.
wcag_automated(o) ==
    IF o.axe = None THEN Informational("wcag_automated", NEEDS)
    ELSE IF o.axe[1] = 0 THEN Passed("wcag_automated", "medium", OBS)
    ELSE IF o.axe[2] = 0 THEN Warned("wcag_automated", 70, "medium", OBS)
    ELSE Failed("wcag_automated",
                                   AtLeast(0, 70 - 10 * o.axe[2]), "medium", OBS)

accessibility(o) ==
    <<wcag_automated(o),
      Unless(~o.statement, "accessibility_statement", "low", OBS,
             Warned("accessibility_statement", 50, "low", OBS))>>

forms(o) ==
    IF o.pii_forms = 0 THEN <<Passed("pii_forms", "low", INF)>>
    ELSE <<Informational("pii_forms", INF),
           Unless(o.insecure_action, "form_secure_submission", "high", OBS,
                  Failed("form_secure_submission", 0, "high", OBS)),
           Unless(~o.privacy, "form_privacy_notice", "medium", INF,
                  Warned("form_privacy_notice", 50, "medium", INF))>>

Compliance(o) ==
    <<Category("cookies_consent", 30, TRUE, cookies_consent(o)),
      Category("trackers_transfers", 25, TRUE, trackers_transfers(o)),
      Category("privacy_legal", 20, TRUE, privacy_legal(o)),
      Category("accessibility", 15, TRUE, accessibility(o)),
      Category("forms", 10, TRUE, forms(o))>>

(***************************************************************************)
(* Analytics (audits/analytics.py) and the tag fingerprint it reads        *)
(* (fingerprint.py).                                                       *)
(***************************************************************************)
\* The platforms of the signature table, by layer.
PLATFORMS ==
    [analytics   |-> {"ga4", "adobe_analytics", "plausible", "fathom",
                      "matomo"},
     conversion  |-> {"meta_pixel", "linkedin_insight", "google_ads",
                      "tiktok_pixel", "twitter_pixel", "bing_uet",
                      "pinterest_tag"},
     behavioural |-> {"hotjar", "clarity", "fullstory", "logrocket",
                      "mixpanel", "amplitude", "heap"},
     infra       |-> {"gtm", "tealium", "segment", "rudderstack"}]

\* `tags` are the platforms whose signature the requests or the page match.
\* The inline Google Ads signature contains GA4's.
detect_platforms(tags) ==
    IF "google_ads" \in tags THEN tags \union {"ga4"} ELSE tags

detections_in(tags, layer) == detect_platforms(tags) \intersect PLATFORMS[layer]

\* One layer of the measurement stack.
layer(key, layer_name, o, missing) ==
    <<IF detections_in(o.tags, layer_name) # {}
      THEN Passed(key, "low", OBS) ELSE missing>>

\* Our own GA4 connector confirms analytics whatever the page shows.
web_analytics(o) ==
    IF o.ga4 THEN <<Passed("web_analytics", "low", OBS)>>
    ELSE layer("web_analytics", "analytics", o,
               Failed("web_analytics", 0, "high", OBS))
conversion(o) ==
    layer("conversion_tracking", "conversion", o,
          Warned("conversion_tracking", 50, "medium", OBS))
behavioural(o) ==
    layer("behavioural_analytics", "behavioural", o,
          Warned("behavioural_analytics", 60, "low", OBS))
infra(o) ==
    layer("data_infrastructure", "infra", o,
          Warned("data_infrastructure", 65, "low", OBS))

\* Without a page and without a request nothing can be observed.
Analytics(o) ==
    LET layers == <<<<"web_analytics_presence", 35, web_analytics(o)>>,
                    <<"conversion_campaign", 30, conversion(o)>>,
                    <<"behavioural_product", 20, behavioural(o)>>,
                    <<"data_infra_governance", 15, infra(o)>>>>
        blind  == ~o.html /\ ~o.requests
    IN  [i \in 1..4 |->
            Category(layers[i][1], layers[i][2], TRUE,
                     IF blind
                     THEN <<Informational("measurement_unobserved", NEEDS)>>
                     ELSE layers[i][3])]

(***************************************************************************)
(* Performance (audits/performance.py), over a PageSpeed result            *)
(* (acquisition/pagespeed.py).  CLS is counted in hundredths.              *)
(***************************************************************************)
\* CrUX figures come from the page, or from its origin when the page has none;
\* a figure without a percentile is left out.
field_metrics(page, origin) ==
    LET metrics == IF page = <<>> THEN origin ELSE page
    IN  [m \in {"lcp", "inp", "cls"} |->
            IF m \in DOMAIN metrics THEN metrics[m] ELSE None]

band(value, good, ok) ==
    IF value <= good THEN <<100, "pass">>
    ELSE IF value <= ok THEN <<60, "warn">>
    ELSE <<25, "fail">>

Banded(key, value, good, ok, severity, detection) ==
    LET b == band(value, good, ok)
    IN  Check(key, b[1], b[2], severity, detection)

\* A field metric is an observation, a lab metric an estimate.
cwv_metric(key, field, lab, good, ok) ==
    IF field # None THEN Banded(key, field, good, ok, "high", OBS)
    ELSE IF lab # None THEN Banded(key, lab, good, ok, "high", INF)
    ELSE Informational(key, NEEDS)

core_web_vitals(o) ==
    LET field == field_metrics(o.field, o.origin)
    IN  <<cwv_metric("cwv_lcp", field.lcp, o.lab.lcp, 2500, 4000),
          cwv_metric("cwv_inp", field.inp, o.lab.tbt, 200, 500),
          cwv_metric("cwv_cls", field.cls, o.lab.cls, 10, 25)>>

lab_performance(o) ==
    (IF o.lighthouse = None THEN <<>>
     ELSE <<Check("lighthouse_score", o.lighthouse,
                  IF o.lighthouse >= 90 THEN "pass"
                  ELSE IF o.lighthouse >= 50 THEN "warn" ELSE "fail",
                  "medium", OBS)>>)
    \o (IF o.lab.ttfb = None THEN <<>>
        ELSE <<Banded("ttfb", o.lab.ttfb, 800, 1800, "medium", OBS)>>)

\* `total_kb` is the weight of the page in KiB.
page_weight(o) ==
    IF o.total_kb = None THEN <<Informational("page_weight", OBS)>>
    ELSE IF o.total_kb <= 1536 THEN <<Passed("page_weight", "low", OBS)>>
    ELSE IF o.total_kb <= 3072 THEN <<Warned("page_weight", 60, "low", OBS)>>
    ELSE <<Failed("page_weight", 30, "low", OBS)>>

delivery(o) ==
    <<Unless(~o.compressed, "compression", "low", OBS,
             Warned("compression", 50, "low", OBS))>>

Performance(o) ==
    IF ~o.pagespeed
    THEN <<Category("core_web_vitals", 40, TRUE,
                    <<Informational("pagespeed_unavailable", NEEDS)>>)>>
    ELSE <<Category("core_web_vitals", 40, TRUE, core_web_vitals(o)),
           Category("lab_performance", 25, TRUE, lab_performance(o)),
           Category("page_weight", 20, TRUE, page_weight(o)),
           Category("delivery", 15, TRUE, delivery(o))>>
=============================================================================
