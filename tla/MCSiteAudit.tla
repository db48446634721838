---------------------------- MODULE MCSiteAudit ----------------------------
EXTENDS SiteAudit

OrgTypes(t, props) == [types |-> {t}, props |-> props]
\* The pages /b and /d lie in the blog.
PageAt(url, status, depth, title) ==
    [url |-> url, status |-> status, depth |-> depth, title |-> title,
     post |-> url \in {"/b", "/d"}]

\* A site where every check passes.
Healthy ==
    [https |-> "yes", tls |-> "yes", days |-> 90,
     headers |-> Range(SECURITY_HEADERS), insecure_refs |-> 0,
     exposed |-> FALSE, set_cookie |-> "flagged", leaks_version |-> FALSE,
     components |-> <<>>, builder |-> "none", boilerplate |-> 0,
     year_age |-> 0, cmp |-> TRUE, trackers |-> FALSE,
     tracking_cookies |-> FALSE, us_processors |-> FALSE, privacy |-> TRUE,
     policy |-> 7, terms |-> TRUE, identity |-> TRUE, axe |-> <<0, 0>>,
     statement |-> TRUE, pii_forms |-> 1, insecure_action |-> FALSE,
     tags |-> {"ga4", "google_ads", "hotjar", "gtm"}, ga4 |-> TRUE,
     html |-> TRUE, requests |-> TRUE, pagespeed |-> TRUE,
     field |-> [lcp |-> 2000, inp |-> 100, cls |-> 5], origin |-> <<>>,
     lab |-> [lcp |-> 2100, tbt |-> 90, cls |-> 6, ttfb |-> 300],
     lighthouse |-> 95, total_kb |-> 900, compressed |-> TRUE,
     pages |-> {PageAt("/", 200, 0, "home"), PageAt("/a", 200, 1, "about"),
                PageAt("/b", 200, 1, "blog")},
     locs |-> {"/", "/a", "/b"},
     sample |-> [size |-> 3, dead |-> 0, redirecting |-> 0],
     gsc |-> [serving_pages |-> 3, clicks |-> 40, impressions |-> 900,
              position |-> 4, striking |-> FALSE],
     noindex |-> FALSE, canonical |-> TRUE,
     robots |-> <<<<"user-agent", "*">>, <<"disallow", "">>>>,
     raw_links |-> 20, rendered_links |-> 24, viewport |-> TRUE,
     hreflang |-> "with_default", title |-> 45, meta |-> 140, h1s |-> 1,
     aligned |-> TRUE, images |-> [all |-> 4, with_alt |-> 4], words |-> 600,
     tel |-> TRUE, objects |-> <<OrgTypes("LocalBusiness",
                                 {"name", "address", "sameAs", "logo"})>>,
     blocks |-> 1, invalid |-> 0, microdata |-> FALSE,
     question_heading |-> TRUE, list_items |-> 5, table |-> FALSE,
     faq_text |-> TRUE, coverage |-> <<4, 5>>, llms_txt |-> TRUE,
     authority |-> TRUE, trust |-> 2, presence |-> TRUE, social |-> TRUE,
     author |-> TRUE, dated |-> TRUE, headings |-> 4, ai_hits |-> 0,
     posts |-> 60, dates |-> [i \in 1..60 |-> i % 3], verdict |-> 90,
     systems |-> {"form", "email"}, cta |-> TRUE, headline |-> TRUE,
     fillers |-> 0, benefit |-> TRUE, proof |-> TRUE, audience |-> TRUE,
     brand |-> TRUE]

\* A site where nearly every check fails, on a server that gives itself away.
Poor ==
    [https |-> "no", tls |-> "no", days |-> None, headers |-> {},
     insecure_refs |-> 2, exposed |-> TRUE, set_cookie |-> "unflagged",
     leaks_version |-> TRUE,
     components |-> <<[product |-> "nginx", version |-> <<1, 24>>],
                      [product |-> "php", version |-> <<7, 4>>]>>,
     builder |-> "ai", boilerplate |-> 4, year_age |-> 3, cmp |-> FALSE,
     trackers |-> TRUE, tracking_cookies |-> TRUE, us_processors |-> TRUE,
     privacy |-> FALSE, policy |-> None, terms |-> FALSE, identity |-> FALSE,
     axe |-> <<9, 8>>, statement |-> FALSE, pii_forms |-> 1,
     insecure_action |-> TRUE, tags |-> {}, ga4 |-> FALSE, html |-> TRUE,
     requests |-> TRUE, pagespeed |-> TRUE,
     field |-> <<>>, origin |-> <<>>,
     lab |-> [lcp |-> 9000, tbt |-> 900, cls |-> 40, ttfb |-> 3000],
     lighthouse |-> 12, total_kb |-> 9000, compressed |-> FALSE,
     pages |-> {PageAt("/", 200, 0, "other"), PageAt("/a", 404, 1, "other"),
                PageAt("/e", None, 1, None), PageAt("/c", 200, 2, "other")},
     locs |-> {"/old"},
     sample |-> [size |-> 1, dead |-> 1, redirecting |-> 0],
     gsc |-> [serving_pages |-> 1, clicks |-> 0, impressions |-> 0,
              position |-> None, striking |-> FALSE],
     noindex |-> TRUE, canonical |-> FALSE,
     robots |-> <<<<"user-agent", "*">>, <<"disallow", "/">>, <<"blank", "">>,
                  <<"user-agent", "gptbot">>, <<"disallow", "/">>>>,
     raw_links |-> 2, rendered_links |-> 30, viewport |-> FALSE,
     hreflang |-> "no_default", title |-> 0, meta |-> 0, h1s |-> 0,
     aligned |-> FALSE, images |-> [all |-> 4, with_alt |-> 0], words |-> 40,
     tel |-> FALSE, objects |-> <<OrgTypes("LocalBusiness", {}),
                                  OrgTypes("HowTo", {})>>,
     blocks |-> 1, invalid |-> 1, microdata |-> FALSE,
     question_heading |-> FALSE, list_items |-> 0, table |-> FALSE,
     faq_text |-> FALSE, coverage |-> <<0, 5>>, llms_txt |-> FALSE,
     authority |-> FALSE, trust |-> 0, presence |-> FALSE, social |-> FALSE,
     author |-> FALSE, dated |-> FALSE, headings |-> 0, ai_hits |-> 5,
     posts |-> 2, dates |-> <<30, 60>>, verdict |-> -5, systems |-> {},
     cta |-> FALSE, headline |-> FALSE, fillers |-> 6, benefit |-> FALSE,
     proof |-> FALSE, audience |-> FALSE, brand |-> TRUE]

MCProfiles == {Healthy, Poor}

\* Both profiles' values are edits, and the values in between.
Middle ==
    [https |-> {"unknown"}, days |-> {None, 5, 20},
     headers |-> {{"header_referrer_policy"}},
     components |-> {<<[product |-> "php", version |-> <<8, 1>>]>>,
                     <<[product |-> "wordpress", version |-> <<6, 5>>]>>},
     builder |-> {"template"}, boilerplate |-> {2}, year_age |-> {None, 1},
     policy |-> {4, 5}, axe |-> {None, <<3, 0>>, <<3, 2>>}, pii_forms |-> {0},
     field |-> {[lcp |-> 4100]}, origin |-> {[lcp |-> 2600, cls |-> 20]},
     lab |-> {[lcp |-> None, tbt |-> None, cls |-> None, ttfb |-> None]},
     lighthouse |-> {None, 70}, total_kb |-> {None, 2000},
     pages |-> {{PageAt("/", None, 0, None)},
                {PageAt("/", 200, 0, "home"), PageAt("/b", 500, 1, "other"),
                 PageAt("/c", 200, 3, "home"), PageAt("/d", 200, 3, "shop")}},
     locs |-> {{}, {"/", "/a"}},
     sample |-> {[size |-> 10, dead |-> 1, redirecting |-> 2],
                 [size |-> 10, dead |-> 0, redirecting |-> 2]},
     gsc |-> {None, [serving_pages |-> 0, clicks |-> 0, impressions |-> 9,
                     position |-> 15, striking |-> TRUE],
              [serving_pages |-> 9, clicks |-> 2, impressions |-> 9,
               position |-> 8, striking |-> TRUE]},
     robots |-> {None, <<<<"user-agent", "gptbot">>, <<"disallow", "/">>>>},
     hreflang |-> {"none"}, title |-> {80}, meta |-> {60}, h1s |-> {3},
     images |-> {[all |-> 0, with_alt |-> 0], [all |-> 4, with_alt |-> 3]},
     words |-> {150, 300},
     objects |-> {<<>>, <<OrgTypes("WebSite", {}), OrgTypes("FAQPage", {}),
                          OrgTypes("Product", {"name"})>>,
                  <<OrgTypes("Organization", {"name"})>>},
     blocks |-> {0}, coverage |-> {None, <<3, 5>>}, trust |-> {1},
     ai_hits |-> {1}, posts |-> {0, 10, 30},
     dates |-> {<<>>, <<4, 4>>, <<4, 9>>, <<10, 11, 12>>, <<20, 21>>},
     verdict |-> {None, 40, 120}, fillers |-> {1},
     systems |-> {{"form"}}]

MCFacts ==
    [f \in DOMAIN Healthy |->
        {Healthy[f], Poor[f]} \union
        (IF f \in DOMAIN Middle THEN Middle[f] ELSE {})]

\* Every source fails in some run over a profile; over an edited site the fetch
\* and the browser fail apart and together, the other sources together.  A
\* failed run is followed by runs in which more fails.
Others == {"pagespeed", "search_console", "ga4", "llm"}

MCFaultSets(edits, last) ==
    {faults \in {{}, {"fetch"}, {"browser"}, {"fetch", "browser"}, Others}
                 \union (IF edits > 0 THEN {}
                         ELSE {{"timeout"}} \union {{o} : o \in Others}) :
       last \subseteq faults /\ (last = faults => last = {})}
=============================================================================
