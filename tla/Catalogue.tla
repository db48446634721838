----------------------------- MODULE Catalogue -----------------------------
(***************************************************************************)
(* The remediation catalogue (remediation/catalogue.py) and the ranking it *)
(* drives (remediation/ranking.py).  A row is <<check, impact, effort>>;   *)
(* the rows of an audit are in the order of their names, the last key the  *)
(* ranking sorts on.  A row named for a family of checks ends with "_".    *)
(***************************************************************************)
EXTENDS Scoring

analytics_entries ==
    <<<<"behavioural_analytics", 2, 1>>, <<"conversion_tracking", 4, 2>>,
      <<"data_infrastructure", 2, 2>>, <<"measurement_unobserved", 1, 1>>,
      <<"web_analytics", 5, 1>>>>

build_security_entries ==
    <<<<"ai_build_likelihood", 1, 2>>, <<"component_", 4, 3>>,
      <<"cookie_flags", 2, 1>>, <<"copyright_year", 1, 1>>,
      <<"crawl_signals", 2, 2>>, <<"exposed_paths", 5, 1>>,
      <<"header_content_security_policy", 3, 2>>,
      <<"header_permissions_policy", 1, 1>>,
      <<"header_referrer_policy", 1, 1>>,
      <<"header_strict_transport_security", 3, 1>>,
      <<"header_x_content_type_options", 2, 1>>,
      <<"header_x_frame_options", 2, 1>>, <<"https_enforced", 4, 1>>,
      <<"info_leakage", 2, 1>>, <<"known_vulnerabilities", 4, 3>>,
      <<"mixed_content", 3, 2>>, <<"stack_detected", 1, 1>>,
      <<"tls_expiry", 4, 1>>, <<"tls_valid", 5, 1>>,
      <<"version_disclosure", 2, 1>>>>

compliance_entries ==
    <<<<"accessibility_statement", 1, 1>>, <<"company_identity", 2, 1>>,
      <<"consent_mechanism", 4, 2>>, <<"form_privacy_notice", 2, 1>>,
      <<"form_secure_submission", 4, 2>>, <<"pii_forms", 2, 1>>,
      <<"privacy_policy_completeness", 3, 2>>,
      <<"privacy_policy_present", 4, 2>>, <<"secure_transport", 4, 1>>,
      <<"terms_present", 1, 1>>, <<"third_party_inventory", 2, 2>>,
      <<"trackers_before_consent", 5, 2>>, <<"us_processor_transfer", 2, 2>>,
      <<"wcag_automated", 3, 2>>>>

content_quality_entries ==
    <<<<"authorship", 2, 2>>, <<"content_dates", 2, 1>>,
      <<"copyright_current", 1, 1>>, <<"depth_analysis", 3, 3>>,
      <<"duplicate_content", 3, 2>>, <<"first_hand_experience", 3, 3>>,
      <<"generic_prose", 2, 2>>, <<"physical_presence", 2, 1>>,
      <<"scannability", 2, 2>>, <<"social_proof", 3, 2>>,
      <<"substance", 3, 3>>, <<"trust_pages", 3, 1>>>>

content_strategy_entries ==
    <<<<"content_inventory", 4, 3>>, <<"content_performance", 2, 2>>,
      <<"content_recency", 3, 2>>, <<"content_relevance", 4, 3>>,
      <<"conversion_pathway", 4, 2>>, <<"publishing_regularity", 3, 3>>>>

geo_entries ==
    <<<<"ai_answer_citation", 4, 3>>, <<"ai_crawler_access", 4, 1>>,
      <<"corroboration_signals", 2, 2>>, <<"extractable_chunks", 3, 2>>,
      <<"faq_content", 2, 2>>, <<"icp_question_coverage", 4, 3>>,
      <<"icp_question_source", 2, 2>>, <<"llms_txt", 1, 1>>,
      <<"off_page_authority", 3, 3>>, <<"qa_structure", 2, 2>>>>

messaging_entries ==
    <<<<"audience_signal", 3, 2>>, <<"benefit_language", 3, 2>>,
      <<"brand_consistency", 2, 2>>, <<"clarity_judgement", 4, 2>>,
      <<"conversion_systems", 4, 2>>, <<"cta_present", 4, 1>>,
      <<"hero_headline", 4, 1>>, <<"icp_fit", 3, 3>>,
      <<"plain_language", 2, 2>>, <<"proof", 3, 2>>>>

on_page_seo_entries ==
    <<<<"anticipated_phrases", 2, 2>>, <<"average_position", 3, 3>>,
      <<"content_depth", 3, 3>>, <<"h1", 3, 1>>, <<"image_alt", 2, 1>>,
      <<"intent_analysis", 3, 3>>, <<"local_signals", 3, 2>>,
      <<"meta_description", 2, 1>>, <<"nap_presence", 2, 1>>,
      <<"rankings", 3, 3>>, <<"search_visibility", 4, 3>>,
      <<"semantic_coverage", 3, 3>>, <<"striking_distance", 5, 2>>,
      <<"title_h1_alignment", 2, 1>>, <<"title_tag", 4, 1>>,
      <<"title_uniqueness", 3, 2>>>>

performance_entries ==
    <<<<"compression", 2, 1>>, <<"cwv_cls", 3, 2>>, <<"cwv_inp", 3, 2>>,
      <<"cwv_lcp", 4, 2>>, <<"lighthouse_score", 3, 3>>,
      <<"page_weight", 3, 2>>, <<"pagespeed_unavailable", 1, 1>>,
      <<"ttfb", 3, 2>>>>

schema_entries ==
    <<<<"core_types", 3, 2>>, <<"deprecated_rich", 1, 1>>,
      <<"json_ld_valid", 3, 1>>, <<"organization_entity", 3, 2>>,
      <<"required_properties", 2, 1>>, <<"rich_eligible_types", 2, 2>>,
      <<"structured_data_present", 3, 2>>>>

technical_seo_entries ==
    <<<<"canonical_tag", 3, 1>>, <<"crawl_depth", 2, 2>>,
      <<"homepage_indexable", 5, 1>>, <<"hreflang", 2, 2>>,
      <<"https_canonicalisation", 3, 1>>, <<"indexed_count", 4, 3>>,
      <<"js_content_dependency", 3, 3>>, <<"robots_txt", 4, 1>>,
      <<"sitemap_coverage", 2, 1>>, <<"sitemap_health", 2, 1>>,
      <<"status_health", 3, 2>>, <<"viewport_meta", 3, 1>>,
      <<"xml_sitemap", 3, 1>>>>

CATALOGUE ==
    [analytics |-> analytics_entries, build_security |-> build_security_entries,
     compliance |-> compliance_entries,
     content_quality |-> content_quality_entries,
     content_strategy |-> content_strategy_entries, geo |-> geo_entries,
     messaging |-> messaging_entries, on_page_seo |-> on_page_seo_entries,
     performance |-> performance_entries, schema |-> schema_entries,
     technical_seo |-> technical_seo_entries]

AuditsByName ==
    <<"analytics", "build_security", "compliance", "content_quality",
      "content_strategy", "geo", "messaging", "on_page_seo", "performance",
      "schema", "technical_seo">>

\* The checks generated per item: one for each component the site discloses.
FAMILIES == [component_ |-> {component_key[p] : p \in DOMAIN component_key}]

ComponentsByName == <<"component_nginx", "component_php", "component_wordpress">>

\* Mutant: the families are forgotten.
ExactRowOnly(audit, key) ==
    SelectInSeq(CATALOGUE[audit], LAMBDA e : e[1] = key)

\* The place of a check's row: its own, else its family's, 0 for neither.
row_of(audit, key) ==
    LET rows   == CATALOGUE[audit]
        exact  == SelectInSeq(rows, LAMBDA e : e[1] = key)
        family == SelectInSeq(rows, LAMBDA e : /\ e[1] \in DOMAIN FAMILIES
                                               /\ key \in FAMILIES[e[1]])
    IN  IF exact # 0 THEN exact ELSE family

\* RemediationEntry: its impact and its effort, the texts are left out.
RemediationEntry == [impact : 1..5, effort : 1..3]
ASSUME RemediationAssumption == None \notin RemediationEntry

\* The remediation of a check, None when the catalogue has none.
lookup(audit, key) ==
    LET row == row_of(audit, key)
    IN  IF row = 0 THEN None
        ELSE [impact |-> CATALOGUE[audit][row][2],
              effort |-> CATALOGUE[audit][row][3]]

SEVERITY_RANK == [critical |-> 0, high |-> 1, medium |-> 2, low |-> 3,
                  info |-> 4]

\* What a finding sorts on: highest impact, least effort, worst severity, the
\* name of the audit and of the check (its row, and its own name within a
\* family), then its place, as the sort is stable.
SortKey(findings, i) ==
    LET f     == findings[i]
        entry == lookup(f.audit, f.check.key)
    IN  <<0 - entry.impact, entry.effort, SEVERITY_RANK[f.check.severity],
          SelectInSeq(AuditsByName, LAMBDA a : a = f.audit),
          row_of(f.audit, f.check.key),
          SelectInSeq(ComponentsByName, LAMBDA k : k = f.check.key), i>>

Precedes(s, t) ==
    \E k \in DOMAIN s : /\ s[k] < t[k]
                        /\ \A j \in 1..(k - 1) : s[j] = t[j]

\* The items of a set of entries, in the order of their keys.
InOrder(entries) ==
    LET place(e) == Cardinality({d \in entries : Precedes(d.key, e.key)}) + 1
        placed   == {[item |-> e.item, place |-> place(e)] : e \in entries}
    IN  [n \in 1..Cardinality(entries) |->
            (CHOOSE p \in placed : p.place = n).item]

\* An entry of the action list.
ActionItem(finding) ==
    LET entry == lookup(finding.audit, finding.check.key)
    IN  [audit |-> finding.audit, category |-> finding.category,
         key |-> finding.check.key, severity |-> finding.check.severity,
         status |-> finding.check.status, impact |-> entry.impact,
         effort |-> entry.effort]

Listed(finding) ==
    /\ Actionable(finding.check)
    /\ lookup(finding.audit, finding.check.key) # None

\* The findings that fail or warn and that the catalogue explains, in order.
rank_findings(findings) ==
    InOrder({[item |-> ActionItem(findings[i]), key |-> SortKey(findings, i)] :
               i \in {k \in DOMAIN findings : Listed(findings[k])}})
=============================================================================
