---------------------------- MODULE AuditProofs ----------------------------
(***************************************************************************)
(* Lemmas of the eleven audits.  Whatever the site answers and whichever   *)
(* sources fail, every audit emits checks that are on the scale, that are  *)
(* actionable when they score low, and that the catalogue explains; and it *)
(* reads the facts that are named for it and no others.                    *)
(***************************************************************************)
EXTENDS SiteAudit, ScoringProofs

(***************************************************************************)
(* What is measured                                                        *)
(***************************************************************************)
\* What an overlay puts in the place of a measured fact is possible.
Harmless(overlay) ==
    \A f \in Measures : f \in DOMAIN overlay => Possible(f, overlay[f])

\* Facts under such an overlay stay measured.
LEMMA OverMeasured ==
  ASSUME NEW facts, Measured(facts), NEW overlay, Harmless(overlay)
  PROVE  Measured(Over(overlay, facts))
<1>1. \A f \in Measures : f \in DOMAIN facts /\ Possible(f, facts[f])
  BY DEF Measured, FactNames
<1>2. FactNames \subseteq DOMAIN Over(overlay, facts) BY DEF Measured, Over
<1>3. \A f \in Measures : Possible(f, Over(overlay, facts)[f])
  BY <1>1 DEF Over, Harmless
<1>4. QED BY <1>2, <1>3 DEF Measured

\* What the parts of a measured fact are.
LEMMA MeasuredParts ==
  ASSUME NEW o, Measured(o)
  PROVE  /\ o.components \in Seq([product : DOMAIN component_key, version : Nat \X Nat])
         /\ o.boilerplate \in Nat /\ o.fillers \in Nat /\ o.ai_hits \in Nat
         /\ o.blocks \in Nat /\ o.invalid \in Nat
         /\ o.policy # None => o.policy \in 0..7
         /\ o.axe # None => o.axe \in Nat \X Nat
         /\ o.lighthouse # None => o.lighthouse \in 0..100
         /\ IsFiniteSet(o.pages)
         /\ \A p \in o.pages : p.status # None => p.status \in FinalStatus
         /\ o.sample.size \in Nat /\ o.sample.dead \in 0..o.sample.size
         /\ o.images.all \in Nat /\ o.images.with_alt \in 0..o.images.all
         /\ o.coverage # None => /\ o.coverage[2] \in Nat \ {0}
                                 /\ o.coverage[1] \in 0..o.coverage[2]
         /\ o.verdict # None => o.verdict \in Int
<1>1. \A f \in Measures : Possible(f, o[f]) BY DEF Measured
<1>2. /\ Possible("components", o.components) /\ Possible("boilerplate", o.boilerplate)
      /\ Possible("fillers", o.fillers) /\ Possible("ai_hits", o.ai_hits)
      /\ Possible("blocks", o.blocks) /\ Possible("invalid", o.invalid)
      /\ Possible("policy", o.policy) /\ Possible("axe", o.axe)
      /\ Possible("lighthouse", o.lighthouse) /\ Possible("pages", o.pages)
      /\ Possible("sample", o.sample) /\ Possible("images", o.images)
      /\ Possible("coverage", o.coverage) /\ Possible("verdict", o.verdict)
  BY <1>1 DEF Measures
<1>3. QED BY <1>2, SMTT(30) DEF Possible

\* What the failed sources leave of measured facts is measured.
LEMMA ReachedMeasured ==
  ASSUME NEW s, Measured(s), NEW faults
  PROVE  Measured(Reached(s, faults))
<1> DEFINE unrendered == faults \intersect {"browser", "timeout"} # {}
           fetched    == Over(When("fetch" \in faults, NoFetch), s)
           rendered   == Over(When(unrendered, [rendered_links |-> s.raw_links]),
                              fetched)
           seen       == Over(When(unrendered, NoRender("timeout" \in faults)),
                              rendered)
           read       == Over(When(unrendered /\ "fetch" \in faults, NoPage), seen)
           measured   == Over(When("pagespeed" \in faults, [pagespeed |-> FALSE]),
                              read)
           given      == Over(When("ga4" \in faults, [ga4 |-> FALSE]), measured)
           connected  == Over(When("search_console" \in faults, [gsc |-> None]), given)
           kept       == Over(When("llm" \in faults,
                                   [coverage |-> None, verdict |-> None]), connected)
<1>1. Harmless(NoFetch)
  <2>1. \A f \in Measures : f \in DOMAIN NoFetch
                             => f \in {"components", "boilerplate", "sample"}
    BY DEF Measures, NoFetch
  <2>2. /\ Possible("components", NoFetch.components)
        /\ Possible("boilerplate", NoFetch.boilerplate)
        /\ Possible("sample", NoFetch.sample)
    BY DEF Possible, NoFetch
  <2>3. QED BY <2>1, <2>2 DEF Harmless
<1>2. Harmless(NoPage)
  <2>1. \A f \in Measures : f \in DOMAIN NoPage
          => f \in {"images", "blocks", "invalid", "ai_hits", "fillers", "coverage"}
    BY DEF Measures, NoPage
  <2>2. /\ Possible("images", NoPage.images) /\ Possible("blocks", NoPage.blocks)
        /\ Possible("invalid", NoPage.invalid) /\ Possible("ai_hits", NoPage.ai_hits)
        /\ Possible("fillers", NoPage.fillers)
        /\ Possible("coverage", NoPage.coverage)
    <3>1. /\ NoPage.images = [all |-> 0, with_alt |-> 0] /\ NoPage.coverage = None
          /\ NoPage.blocks = 0 /\ NoPage.invalid = 0
          /\ NoPage.ai_hits = 0 /\ NoPage.fillers = 0
      BY DEF NoPage
    <3>2. QED BY <3>1 DEF Possible
  <2>3. QED BY <2>1, <2>2 DEF Harmless
<1>3. ASSUME NEW requests PROVE Harmless(NoRender(requests))
  <2>1. \A f \in Measures : f \in DOMAIN NoRender(requests) => f \in {"policy", "axe"}
    BY DEF Measures, NoRender
  <2>2. /\ Possible("policy", NoRender(requests).policy)
        /\ Possible("axe", NoRender(requests).axe)
    BY DEF Possible, NoRender
  <2>3. QED BY <2>1, <2>2 DEF Harmless
<1>4. Harmless([coverage |-> None, verdict |-> None])
  BY DEF Measures, Possible, Harmless
<1>5. /\ Harmless([rendered_links |-> s.raw_links]) /\ Harmless([pagespeed |-> FALSE])
      /\ Harmless([ga4 |-> FALSE]) /\ Harmless([gsc |-> None])
  BY DEF Measures, Harmless
<1>6. Measured(fetched)
  <2>1. Harmless(When("fetch" \in faults, NoFetch)) BY <1>1 DEF When, Harmless
  <2>2. QED BY <2>1, OverMeasured
<1> HIDE DEF fetched
<1>7. Measured(rendered)
  <2>1. Harmless(When(unrendered, [rendered_links |-> s.raw_links])) BY <1>5 DEF When, Harmless
  <2>2. QED BY <1>6, <2>1, OverMeasured
<1> HIDE DEF rendered
<1>8. Measured(seen)
  <2>1. Harmless(When(unrendered, NoRender("timeout" \in faults))) BY <1>3 DEF When, Harmless
  <2>2. QED BY <1>7, <2>1, OverMeasured
<1> HIDE DEF seen
<1>9. Measured(read)
  <2>1. Harmless(When(unrendered /\ "fetch" \in faults, NoPage)) BY <1>2 DEF When, Harmless
  <2>2. QED BY <1>8, <2>1, OverMeasured
<1> HIDE DEF read
<1>10. Measured(measured)
  <2>1. Harmless(When("pagespeed" \in faults, [pagespeed |-> FALSE])) BY <1>5 DEF When, Harmless
  <2>2. QED BY <1>9, <2>1, OverMeasured
<1> HIDE DEF measured
<1>11. Measured(given)
  <2>1. Harmless(When("ga4" \in faults, [ga4 |-> FALSE])) BY <1>5 DEF When, Harmless
  <2>2. QED BY <1>10, <2>1, OverMeasured
<1> HIDE DEF given
<1>12. Measured(connected)
  <2>1. Harmless(When("search_console" \in faults, [gsc |-> None])) BY <1>5 DEF When, Harmless
  <2>2. QED BY <1>11, <2>1, OverMeasured
<1> HIDE DEF connected
<1>13. Measured(kept)
  <2>1. Harmless(When("llm" \in faults, [coverage |-> None, verdict |-> None])) BY <1>4 DEF When, Harmless
  <2>2. QED BY <1>12, <2>1, OverMeasured
<1> HIDE DEF kept
<1>14. Reached(s, faults) = kept
  BY DEF Reached, kept, connected, given, measured, read, seen, rendered, fetched
<1>15. QED BY <1>13, <1>14

\* What the audits read of measured facts is measured.
LEMMA ObservedMeasured ==
  ASSUME NEW s, Measured(s), NEW faults
  PROVE  /\ Measured(Observed(s, faults))
         /\ Measured(AcquiredOnly(Observed(s, faults), faults))
<1> DEFINE r      == Reached(s, faults)
           listed == r.locs # {}
           found  == IF r.blocks > 0 THEN r.objects ELSE <<>>
           types  == collect_types(found)
           titles == TitlesOf(r.pages)
           o      == Observed(s, faults)
           own ==
             [titles       |-> titles,
              branded      |-> IF ~r.brand \/ r.title = 0 THEN None
                               ELSE Len(SelectSeq(titles, LAMBDA t : t # "other")),
              sample       |-> IF listed THEN r.sample ELSE NoFetch.sample,
              dates        |-> IF listed THEN r.dates ELSE <<>>,
              content      |-> (IF listed THEN r.posts ELSE 0) + Cardinality(PostsOf(r.pages)),
              headline     |-> r.headline /\ r.h1s > 0,
              objects      |-> found,
              faqpage      |-> "FAQPage" \in types,
              local_markup |-> "LocalBusiness" \in types,
              systems      |-> r.systems \union (IF r.tel THEN {"phone"} ELSE {}),
              contact      |-> r.tel \/ "email" \in r.systems,
              days         |-> tls_days(r)]
<1>1. Measured(r) BY ReachedMeasured
<1>2. Possible("sample", r.sample) BY <1>1 DEF Measured, Measures
<1>3. Possible("sample", NoFetch.sample) BY DEF Possible, NoFetch
<1>4. Harmless(own)
  <2>1. \A f \in Measures : f \in DOMAIN own => f = "sample" BY DEF Measures
  <2>2. Possible("sample", own.sample) BY <1>2, <1>3
  <2> HIDE DEF own
  <2>3. QED BY <2>1, <2>2 DEF Harmless
<1>5. o = Over(own, r) BY DEF Observed
<1> HIDE DEF own, r, o
<1>6. Measured(o) BY <1>1, <1>4, <1>5, OverMeasured
<1>7. Measured([o EXCEPT !.year_age = None, !.contact = FALSE])
  BY <1>6 DEF Measured, Measures
<1>8. QED BY <1>6, <1>7 DEF AcquiredOnly, o

(***************************************************************************)
(* The checks                                                              *)
(***************************************************************************)
\* The checks an audit may emit: on the scale, explained by the catalogue,
\* and actionable when they earn fewer than 50 points.
Emitted(audit) ==
    {c \in CheckType : /\ c.key \in Explained(audit)
                       /\ Scored(c) /\ c.score < 50 => Actionable(c)}

Severities == DOMAIN SEVERITY_RANK
Tags == {OBS, INF, NEEDS}

\* The severities and the tags by name.
LEMMA Names ==
  /\ "critical" \in Severities /\ "high" \in Severities /\ "medium" \in Severities
  /\ "low" \in Severities /\ "info" \in Severities
  /\ OBS \in Tags /\ INF \in Tags /\ NEEDS \in Tags
BY DEF Severities, SEVERITY_RANK, Tags

\* A check that an audit builds, by the status it gives it.
LEMMA CheckEmitted ==
  ASSUME NEW audit, NEW key \in Explained(audit), NEW severity \in Severities,
         NEW tag \in Tags
  PROVE  /\ Informational(key, tag) \in Emitted(audit)
         /\ Passed(key, severity, tag) \in Emitted(audit)
         /\ \A score \in 0..100 : /\ Warned(key, score, severity, tag) \in Emitted(audit)
                                  /\ Failed(key, score, severity, tag) \in Emitted(audit)
         /\ \A score \in 50..100 :
              /\ Check(key, score, "pass", severity, tag) \in Emitted(audit)
              /\ Check(key, score, "info", severity, tag) \in Emitted(audit)
<1>1. key \in CheckKeys BY DEF Explained
<1>2. "info" \in DOMAIN SEVERITY_RANK /\ severity \in DOMAIN SEVERITY_RANK
  BY Names DEF Severities
<1>3. ASSUME NEW score \in Points100 \union {None},
             NEW status \in {"fail", "warn", "pass", "info"},
             NEW rated \in Severities,
             score # None /\ score < 50 => status \in {"fail", "warn"}
      PROVE  Check(key, score, status, rated, tag) \in Emitted(audit)
  <2> DEFINE c == Check(key, score, status, rated, tag)
  <2>1. c \in CheckType BY <1>1 DEF Check, CheckType, Severities, Tags
  <2>2. c.key = key /\ c.score = score /\ c.status = status BY DEF Check
  <2> HIDE DEF c
  <2>3. c \in Emitted(audit)
    BY <1>3, <2>1, <2>2 DEF Emitted, Scored, Actionable
  <2>4. QED BY <2>3 DEF c
<1>4. Informational(key, tag) \in Emitted(audit)
  BY <1>3, Names DEF Informational
<1>5. Passed(key, severity, tag) \in Emitted(audit)
  BY <1>3 DEF Passed, Points100
<1>6. ASSUME NEW score \in 0..100
      PROVE  /\ Warned(key, score, severity, tag) \in Emitted(audit)
             /\ Failed(key, score, severity, tag) \in Emitted(audit)
  BY <1>3 DEF Warned, Failed, Points100
<1>7. ASSUME NEW score \in 50..100
      PROVE  /\ Check(key, score, "pass", severity, tag) \in Emitted(audit)
             /\ Check(key, score, "info", severity, tag) \in Emitted(audit)
  BY <1>3 DEF Points100
<1>8. QED BY <1>4, <1>5, <1>6, <1>7

\* A category whose checks an audit may emit.
CategoryOf(audit) == {c \in CategoryType : c.checks \in Seq(Emitted(audit))}

\* Category builds one.
LEMMA CategoryEmitted ==
  ASSUME NEW audit, NEW key \in CategoryKeys, NEW weight \in Nat \ {0},
         NEW applicable \in BOOLEAN, NEW checks \in Seq(Emitted(audit))
  PROVE  Category(key, weight, applicable, checks) \in CategoryOf(audit)
<1>1. Emitted(audit) \subseteq CheckType BY DEF Emitted
<1>2. checks \in Seq(CheckType) BY <1>1, SeqMonotonic
<1>3. Category(key, weight, applicable, checks) \in CategoryType BY <1>2, CategoryTyped
<1>4. Category(key, weight, applicable, checks).checks = checks BY DEF Category
<1>5. QED BY <1>3, <1>4 DEF CategoryOf

\* A sequence of up to five members of a set.
LEMMA TupleSeq ==
  \A S, a, b, c, d, e :
    /\ a \in S => <<a>> \in Seq(S)
    /\ a \in S /\ b \in S /\ c \in S /\ d \in S => <<a, b, c, d>> \in Seq(S)
    /\ a \in S /\ b \in S /\ c \in S /\ d \in S /\ e \in S =>
         <<a, b, c, d, e>> \in Seq(S)
OBVIOUS

\* The weights of the categories.
LEMMA Weights == \A w \in {5, 10, 15, 20, 25, 30, 35, 40} : w \in Nat \ {0} OBVIOUS

(***************************************************************************)
(* Build quality and security                                              *)
(***************************************************************************)
\* The checks of the security posture, part by part.
LEMMA SecurityPartsEmitted ==
  ASSUME NEW o
  PROVE  LET E == Emitted("build_security")
         IN  /\ <<passfail("https_enforced", o.https, "high"),
                  passfail("tls_valid", o.tls, "high"), tls_expiry(o.days)>> \in Seq(E)
             /\ header_checks(o.headers) \in Seq(E)
             /\ <<mixed_content(o), exposed_paths(o), cookie_flags(o),
                  info_leakage(o)>> \in Seq(E)
<1> DEFINE E == Emitted("build_security")
<1>1. \A key \in build_security_keys : key \in Explained("build_security")
  BY BuildSecurityRows
<1>2. passfail("https_enforced", o.https, "high") \in E
  BY <1>1, CheckEmitted, Names DEF passfail, build_security_keys
<1>3. passfail("tls_valid", o.tls, "high") \in E
  BY <1>1, CheckEmitted, Names DEF passfail, build_security_keys
<1>4. tls_expiry(o.days) \in E
  BY <1>1, CheckEmitted, Names DEF tls_expiry, build_security_keys
<1>5. header_checks(o.headers) \in Seq(E)
  <2>1. \A i \in 1..Len(SECURITY_HEADERS) : SECURITY_HEADERS[i] \in build_security_keys
    BY DEF SECURITY_HEADERS, build_security_keys
  <2>2. Len(SECURITY_HEADERS) \in Nat BY DEF SECURITY_HEADERS
  <2>3. QED BY <1>1, <2>1, <2>2, CheckEmitted, Names DEF header_checks
<1>6. /\ mixed_content(o) \in E /\ exposed_paths(o) \in E
      /\ cookie_flags(o) \in E /\ info_leakage(o) \in E
  BY <1>1, CheckEmitted, Names
     DEF mixed_content, exposed_paths, cookie_flags, info_leakage, build_security_keys
<1> HIDE DEF E
<1>7. QED BY <1>2, <1>3, <1>4, <1>5, <1>6 DEF E

\* The checks of the security posture.
LEMMA SecurityPostureEmitted ==
  ASSUME NEW o PROVE security_posture(o) \in Seq(Emitted("build_security"))
BY SecurityPartsEmitted DEF security_posture

\* The checks of the maintenance, of the components and of the AI tells.
LEMMA BuildChecksEmitted ==
  ASSUME NEW o, Measured(o)
  PROVE  /\ maintenance(o) \in Seq(Emitted("build_security"))
         /\ versions_vulns(o) \in Seq(Emitted("build_security"))
         /\ ai_tells(o) \in Seq(Emitted("build_security"))
         /\ <<Informational("stack_detected", OBS)>> \in Seq(Emitted("build_security"))
<1> DEFINE E == Emitted("build_security")
<1>1. /\ \A key \in build_security_keys : key \in Explained("build_security")
      /\ \A key \in FAMILIES.component_ : key \in Explained("build_security")
  BY BuildSecurityRows
<1>2. copyright_year(o) \in E /\ Informational("crawl_signals", NEEDS) \in E
  BY <1>1, CheckEmitted, Names DEF copyright_year, build_security_keys
<1>3. versions_vulns(o) \in Seq(E)
  <2>1. \A c : c.product \in DOMAIN component_key => component_check(c) \in E
    <3>1. \A p \in DOMAIN component_key : component_key[p] \in FAMILIES.component_
      BY DEF FAMILIES
    <3>2. QED BY <1>1, <3>1, CheckEmitted, Names DEF component_check
  <2> DEFINE each == [i \in DOMAIN o.components |-> component_check(o.components[i])]
  <2>2. o.components \in Seq([product : DOMAIN component_key, version : Nat \X Nat])
    BY MeasuredParts
  <2>3. each \in Seq(E)
    <3> DEFINE n == Len(o.components)
               Part == [product : DOMAIN component_key, version : Nat \X Nat]
    <3>1. \A c : c \in Part => component_check(c) \in E
      <4>1. \A c : c \in Part => c.product \in DOMAIN component_key OBVIOUS
      <4> HIDE DEF E, Part
      <4>2. QED BY <2>1, <4>1
    <3> HIDE DEF E, Part
    <3>2. DOMAIN o.components = 1..n /\ n \in Nat
          /\ \A i \in 1..n : o.components[i] \in Part
      <4>1. o.components \in Seq(Part) BY <2>2 DEF Part
      <4>2. QED BY <4>1
    <3> HIDE DEF n
    <3>3. DOMAIN each = 1..n /\ \A i \in 1..n : each[i] \in E BY <3>1, <3>2
    <3>4. each = [i \in 1..n |-> each[i]] BY <3>2
    <3> HIDE DEF each
    <3>5. QED BY <3>2, <3>3, <3>4
  <2>4. /\ Informational("version_disclosure", OBS) \in E
        /\ Failed("known_vulnerabilities", 0, "high", INF) \in E
        /\ Passed("known_vulnerabilities", "medium", INF) \in E
    BY <1>1, CheckEmitted, Names DEF build_security_keys
  <2>5. CASE o.components = <<>> BY <2>4, <2>5 DEF versions_vulns
  <2>6. CASE o.components # <<>>
    <3>1. versions_vulns(o) = Append(each,
             IF \E i \in DOMAIN o.components : php_eol(o.components[i])
             THEN Failed("known_vulnerabilities", 0, "high", INF)
             ELSE Passed("known_vulnerabilities", "medium", INF))
      BY <2>6 DEF versions_vulns
    <3> HIDE DEF each, E
    <3>2. QED BY <2>3, <2>4, <3>1
  <2>7. QED BY <2>5, <2>6
<1>4. ai_tells(o) \in Seq(E)
  <2> DEFINE confidence == ai_confidence(o)
  <2>1. o.boilerplate \in Nat BY MeasuredParts
  <2>2. confidence \in Int /\ 0 <= confidence /\ confidence <= 100
    BY <2>1 DEF ai_confidence, AtMost
  <2> HIDE DEF confidence
  <2>3. 100 - confidence \in 0..100 /\ (~(confidence >= 50) => 100 - confidence \in 50..100)
    BY <2>2
  <2>4. "ai_build_likelihood" \in Explained("build_security")
    BY <1>1 DEF build_security_keys
  <2>5. CASE confidence >= 50
    <3>1. Warned("ai_build_likelihood", 100 - confidence, "low", INF) \in E
      BY <2>3, <2>4, CheckEmitted, Names
    <3>2. QED BY <2>5, <3>1 DEF ai_tells, confidence
  <2>6. CASE ~(confidence >= 50)
    <3>1. Check("ai_build_likelihood", 100 - confidence, "pass", "low", INF) \in E
      BY <2>3, <2>4, <2>6, CheckEmitted, Names
    <3>2. QED BY <2>6, <3>1 DEF ai_tells, confidence
  <2>7. QED BY <2>5, <2>6
<1>5. Informational("stack_detected", OBS) \in E
  BY <1>1, CheckEmitted, Names DEF build_security_keys
<1> HIDE DEF E
<1>6. QED BY <1>2, <1>3, <1>4, <1>5 DEF maintenance, E

\* The categories of build security.
LEMMA BuildSecurityEmitted ==
  ASSUME NEW o, Measured(o)
  PROVE  BuildSecurity(o) \in Seq(CategoryOf("build_security"))
<1>1. \A key \in {"security_posture", "maintenance", "fingerprint",
                  "versions_vulns", "ai_tells"}
        : key \in CategoryKeys
  BY DEF CategoryKeys
<1>2. /\ Category("security_posture", 35, TRUE, security_posture(o))
           \in CategoryOf("build_security")
      /\ Category("maintenance", 25, TRUE, maintenance(o))
           \in CategoryOf("build_security")
      /\ Category("fingerprint", 5, FALSE, <<Informational("stack_detected", OBS)>>)
           \in CategoryOf("build_security")
      /\ Category("versions_vulns", 25, TRUE, versions_vulns(o))
           \in CategoryOf("build_security")
      /\ Category("ai_tells", 10, TRUE, ai_tells(o))
           \in CategoryOf("build_security")
  BY SecurityPostureEmitted, BuildChecksEmitted, <1>1, CategoryEmitted, Weights, Zenon
<1>3. QED BY <1>2, TupleSeq, Zenon DEF BuildSecurity

(***************************************************************************)
(* Compliance                                                              *)
(***************************************************************************)
\* The categories of the compliance audit.
LEMMA ComplianceEmitted ==
  ASSUME NEW o, Measured(o)
  PROVE  Compliance(o) \in Seq(CategoryOf("compliance"))
<1> DEFINE E == Emitted("compliance")
<1>1. \A key \in compliance_keys : key \in Explained("compliance") BY ComplianceRows
<1>2. cookies_consent(o) \in Seq(E)
  <2>1. cookies_consent(o)[1] \in E /\ cookies_consent(o)[2] \in E
    BY <1>1, CheckEmitted, Names DEF cookies_consent, Unless, compliance_keys
  <2> HIDE DEF E
  <2>2. QED BY <2>1 DEF cookies_consent
<1>3. trackers_transfers(o) \in Seq(E)
  <2>1. /\ trackers_transfers(o)[1] \in E /\ trackers_transfers(o)[2] \in E
        /\ trackers_transfers(o)[3] \in E
    BY <1>1, CheckEmitted, Names DEF trackers_transfers, Unless, compliance_keys
  <2> HIDE DEF E
  <2>2. QED BY <2>1 DEF trackers_transfers
<1>4. privacy_legal(o) \in Seq(E)
  <2>1. policy_completeness(o) \in E
    <3>1. "privacy_policy_completeness" \in Explained("compliance")
      BY <1>1 DEF compliance_keys
    <3>2. CASE o.policy = None
      BY <3>1, <3>2, CheckEmitted, Names DEF policy_completeness
    <3>3. CASE o.policy # None
      <4> DEFINE share == (100 * o.policy) \div 7
                 key == "privacy_policy_completeness"
      <4>1. o.policy \in 0..7 BY <3>3, MeasuredParts
      <4>2. /\ share \in 0..100
            /\ 10 * o.policy >= 49 => share \in 50..100
        BY <4>1
      <4> HIDE DEF share
      <4>3. Warned(key, share, "medium", INF) \in E
        BY <3>1, <4>2, CheckEmitted, Names
      <4>4. 10 * o.policy >= 49 => Check(key, share, "pass", "medium", INF) \in E
        BY <3>1, <4>2, CheckEmitted, Names
      <4>5. QED BY <3>3, <4>3, <4>4 DEF policy_completeness, Warned, share
    <3>4. QED BY <3>2, <3>3
  <2> DEFINE first == Unless(~o.privacy, "privacy_policy_present", "high", OBS,
                             Failed("privacy_policy_present", 0, "high", OBS))
             terms == Unless(~o.terms, "terms_present", "low", OBS,
                             Warned("terms_present", 50, "low", OBS))
             identity == Unless(~o.identity, "company_identity", "low", INF,
                                Warned("company_identity", 50, "low", INF))
  <2>2. first \in E /\ terms \in E /\ identity \in E
    BY <1>1, CheckEmitted, Names DEF Unless, compliance_keys
  <2>3. privacy_legal(o) = <<first>>
          \o (IF o.privacy THEN <<policy_completeness(o)>> ELSE <<>>)
          \o <<terms, identity>>
    BY DEF privacy_legal
  <2> HIDE DEF E, first, terms, identity
  <2>4. QED BY <2>1, <2>2, <2>3
<1>5. accessibility(o) \in Seq(E)
  <2>1. wcag_automated(o) \in E
    <3>1. "wcag_automated" \in Explained("compliance") BY <1>1 DEF compliance_keys
    <3>2. CASE o.axe = None
      BY <3>1, <3>2, CheckEmitted, Names DEF wcag_automated
    <3>3. CASE o.axe # None
      <4> DEFINE left == AtLeast(0, 70 - 10 * o.axe[2])
      <4>1. o.axe[2] \in Nat BY <3>3, MeasuredParts
      <4>2. left \in 0..100 BY <4>1 DEF AtLeast
      <4> HIDE DEF left
      <4>3. Failed("wcag_automated", left, "medium", OBS) \in E
        BY <3>1, <4>2, CheckEmitted, Names
      <4>4. /\ Passed("wcag_automated", "medium", OBS) \in E
            /\ Warned("wcag_automated", 70, "medium", OBS) \in E
        BY <3>1, CheckEmitted, Names
      <4>5. QED BY <3>3, <4>3, <4>4 DEF wcag_automated, left
    <3>4. QED BY <3>2, <3>3
  <2>2. accessibility(o)[2] \in E
    BY <1>1, CheckEmitted, Names DEF accessibility, Unless, compliance_keys
  <2> HIDE DEF E
  <2>3. QED BY <2>1, <2>2 DEF accessibility
<1>6. forms(o) \in Seq(E)
  <2> DEFINE secure == Unless(o.insecure_action, "form_secure_submission", "high", OBS,
                              Failed("form_secure_submission", 0, "high", OBS))
             notice == Unless(~o.privacy, "form_privacy_notice", "medium", INF,
                              Warned("form_privacy_notice", 50, "medium", INF))
  <2>1. /\ Passed("pii_forms", "low", INF) \in E /\ Informational("pii_forms", INF) \in E
        /\ secure \in E /\ notice \in E
    BY <1>1, CheckEmitted, Names DEF Unless, compliance_keys
  <2>2. forms(o) = IF o.pii_forms = 0 THEN <<Passed("pii_forms", "low", INF)>>
                   ELSE <<Informational("pii_forms", INF), secure, notice>>
    BY DEF forms
  <2> HIDE DEF E, secure, notice
  <2>3. QED BY <2>1, <2>2
<1> HIDE DEF E
<1>7. /\ cookies_consent(o) \in Seq(Emitted("compliance"))
      /\ trackers_transfers(o) \in Seq(Emitted("compliance"))
      /\ privacy_legal(o) \in Seq(Emitted("compliance"))
      /\ accessibility(o) \in Seq(Emitted("compliance"))
      /\ forms(o) \in Seq(Emitted("compliance"))
  BY <1>2, <1>3, <1>4, <1>5, <1>6 DEF E
<1>8. \A key \in {"cookies_consent", "trackers_transfers", "privacy_legal",
                  "accessibility", "forms"}
        : key \in CategoryKeys
  BY DEF CategoryKeys
<1>9. /\ Category("cookies_consent", 30, TRUE, cookies_consent(o))
           \in CategoryOf("compliance")
      /\ Category("trackers_transfers", 25, TRUE, trackers_transfers(o))
           \in CategoryOf("compliance")
      /\ Category("privacy_legal", 20, TRUE, privacy_legal(o))
           \in CategoryOf("compliance")
      /\ Category("accessibility", 15, TRUE, accessibility(o))
           \in CategoryOf("compliance")
      /\ Category("forms", 10, TRUE, forms(o)) \in CategoryOf("compliance")
  BY <1>7, <1>8, CategoryEmitted, Weights, Zenon
<1>10. QED BY <1>9, TupleSeq, Zenon DEF Compliance

(***************************************************************************)
(* Technical SEO                                                           *)
(***************************************************************************)
\* A part of a whole, as a percentage, is on the scale; above the half of it
\* when the part is above the half.
LEMMA ShareOnScale ==
  ASSUME NEW part \in Nat, NEW whole \in Nat \ {0}, part <= whole
  PROVE  /\ (100 * part) \div whole \in 0..100
         /\ 50 * whole <= 100 * part => (100 * part) \div whole \in 50..100
<1> DEFINE share == (100 * part) \div whole
<1>1. share \in Int /\ 0 <= share /\ share <= 100
      /\ (share < 50 => 100 * part < 50 * whole)
  BY PercentOf
<1> HIDE DEF share
<1> DEFINE a == 100 * part
           b == 50 * whole
<1>2. a \in Int /\ b \in Int /\ (share < 50 => a < b) BY <1>1
<1> HIDE DEF a, b
<1>3. share \in 0..100 /\ (b <= a => share \in 50..100) BY <1>1, <1>2
<1>4. QED BY <1>3 DEF share, a, b

\* The checks on what answers, of the crawl and of a sample of the sitemap.
LEMMA AnswersEmitted ==
  ASSUME NEW o, Measured(o)
  PROVE  /\ sitemap_health(o.sample) \in Seq(Emitted("technical_seo"))
         /\ site_response(o) \in Seq(Emitted("technical_seo"))
<1> DEFINE E == Emitted("technical_seo")
<1>1. \A key \in technical_seo_keys : key \in Explained("technical_seo")
  BY TechnicalSeoRows
<1>2. /\ "sitemap_health" \in Explained("technical_seo")
      /\ "status_health" \in Explained("technical_seo")
  BY <1>1 DEF technical_seo_keys
<1>3. sitemap_health(o.sample) \in Seq(E)
  <2> DEFINE size == o.sample.size
             alive == o.sample.size - o.sample.dead
             score == (100 * alive) \div size
             key == "sitemap_health"
  <2>1. size \in Nat /\ alive \in Nat /\ alive <= size
        /\ (~(o.sample.dead > 0) => alive = size)
    BY MeasuredParts
  <2>2. CASE size = 0 BY <2>2 DEF sitemap_health
  <2>3. CASE size # 0
    <3> HIDE DEF size, alive
    <3>1. /\ score \in 0..100
          /\ 50 * size <= 100 * alive => score \in 50..100
      BY <2>1, <2>3, ShareOnScale
    <3>2. ~(o.sample.dead > 0) => score \in 50..100 BY <2>1, <3>1
    <3> HIDE DEF score
    <3>3. /\ Warned(key, score, "medium", OBS) \in E
          /\ Failed(key, score, "medium", OBS) \in E
          /\ Warned(key, score, "low", OBS) \in E
          /\ ~(o.sample.dead > 0) => Check(key, score, "pass", "low", OBS) \in E
      BY <1>2, <3>1, <3>2, CheckEmitted, Names
    <3> DEFINE dead == Check(key, score, IF score < 80 THEN "fail" ELSE "warn",
                             "medium", OBS)
    <3>4. dead \in E
      <4>1. dead = Failed(key, score, "medium", OBS)
              \/ dead = Warned(key, score, "medium", OBS)
        BY DEF Failed, Warned
      <4> HIDE DEF dead
      <4>2. QED BY <3>3, <4>1
    <3>5. sitemap_health(o.sample) =
            <<IF o.sample.dead > 0 THEN dead
              ELSE IF o.sample.redirecting > 0 THEN Warned(key, score, "low", OBS)
              ELSE Check(key, score, "pass", "low", OBS)>>
      BY <2>3 DEF sitemap_health, score, alive, size
    <3> HIDE DEF E, dead
    <3>6. QED BY <3>3, <3>4, <3>5
  <2>4. QED BY <2>2, <2>3
<1>4. site_response(o) \in Seq(E)
  <2> DEFINE answered == {p \in o.pages : p.status # None}
             ok == {p \in answered : p.status \in 200..299}
             errors == {p \in answered : p.status >= 400}
             part == Cardinality(ok)
             whole == Cardinality(answered)
             score == (100 * part) \div whole
             key == "status_health"
  <2>1. Informational(key, OBS) \in E BY <1>2, CheckEmitted, Names
  <2>2. CASE answered = {} BY <2>1, <2>2 DEF site_response
  <2>3. CASE answered # {}
    <3>1. /\ part \in Nat /\ whole \in Nat \ {0} /\ part <= whole
          /\ errors = {} => part = whole
      <4>1. IsFiniteSet(answered)
        <5>1. IsFiniteSet(o.pages) /\ answered \in SUBSET o.pages BY MeasuredParts
        <5>2. QED BY <5>1, FS_Subset
      <4>2. ok \in SUBSET answered OBVIOUS
      <4>3. errors = {} => ok = answered
        <5>1. \A p \in answered : p.status \in FinalStatus BY MeasuredParts
        <5>2. \A p \in answered : p.status \in 200..299 \/ p.status >= 400
          BY <5>1 DEF FinalStatus
        <5>3. QED BY <5>2
      <4> HIDE DEF answered, ok, errors
      <4>4. QED BY <2>3, <4>1, <4>2, <4>3, FS_Subset, FS_CardinalityType, FS_EmptySet
    <3> HIDE DEF part, whole
    <3>2. /\ score \in 0..100
          /\ 50 * whole <= 100 * part => score \in 50..100
      BY <3>1, ShareOnScale
    <3>3. errors = {} => score \in 50..100 BY <3>1, <3>2
    <3> HIDE DEF score
    <3>4. /\ Warned(key, score, "medium", OBS) \in E
          /\ errors = {} => Check(key, score, "pass", "low", OBS) \in E
      BY <1>2, <3>2, <3>3, CheckEmitted, Names
    <3>5. site_response(o) = <<IF errors = {} THEN Check(key, score, "pass", "low", OBS)
                               ELSE Warned(key, score, "medium", OBS)>>
      BY <2>3 DEF site_response, score, part, whole
    <3> HIDE DEF E, errors
    <3>6. QED BY <3>4, <3>5
  <2>4. QED BY <2>2, <2>3
<1> HIDE DEF E
<1>5. QED BY <1>3, <1>4 DEF E

\* The categories of technical SEO.
LEMMA TechnicalSeoEmitted ==
  ASSUME NEW o, Measured(o)
  PROVE  TechnicalSeo(o) \in Seq(CategoryOf("technical_seo"))
<1> DEFINE E == Emitted("technical_seo")
<1>1. \A key \in technical_seo_keys : key \in Explained("technical_seo")
  BY TechnicalSeoRows
<1>2. indexation(o) \in Seq(E)
  <2>1. /\ indexation(o)[1] \in E /\ indexation(o)[2] \in E /\ indexation(o)[3] \in E
    BY <1>1, CheckEmitted, Names DEF indexation, Unless, technical_seo_keys
  <2>2. indexed_count(o) \in E
    BY <1>1, CheckEmitted, Names DEF indexed_count, technical_seo_keys
  <2> HIDE DEF E
  <2>3. QED BY <2>1, <2>2 DEF indexation
<1>3. crawlability(o) \in Seq(E)
  <2> DEFINE listed == Unless(o.locs = {}, "xml_sitemap", "medium", OBS,
                              Warned("xml_sitemap", 50, "medium", OBS))
  <2>1. robots_txt(o) \in E
    BY <1>1, CheckEmitted, Names DEF robots_txt, technical_seo_keys
  <2>2. listed \in E /\ js_dependency(o) \in E
    BY <1>1, CheckEmitted, Names DEF Unless, js_dependency, technical_seo_keys
  <2>3. crawl_depth(o) \in E
    BY <1>1, CheckEmitted, Names DEF crawl_depth, technical_seo_keys
  <2>4. sitemap_coverage(o) \in Seq(E)
    <3>1. /\ Passed("sitemap_coverage", "low", OBS) \in E
          /\ Warned("sitemap_coverage", 70, "medium", OBS) \in E
          /\ Warned("sitemap_coverage", 40, "medium", OBS) \in E
      BY <1>1, CheckEmitted, Names DEF technical_seo_keys
    <3> HIDE DEF E
    <3>2. QED BY <3>1 DEF sitemap_coverage
  <2>5. sitemap_health(o.sample) \in Seq(E) BY AnswersEmitted
  <2>6. crawlability(o) = <<robots_txt(o), listed, crawl_depth(o), js_dependency(o)>>
                           \o sitemap_coverage(o) \o sitemap_health(o.sample)
    BY DEF crawlability
  <2> HIDE DEF E, listed
  <2>7. QED BY <2>1, <2>2, <2>3, <2>4, <2>5, <2>6
<1>4. mobile(o) \in Seq(E)
  <2>1. mobile(o)[1] \in E
    BY <1>1, CheckEmitted, Names DEF mobile, Unless, technical_seo_keys
  <2> HIDE DEF E
  <2>2. QED BY <2>1 DEF mobile
<1>5. international(o) \in Seq(E)
  <2>1. /\ Informational("hreflang", OBS) \in E /\ Passed("hreflang", "medium", OBS) \in E
        /\ Warned("hreflang", 70, "medium", OBS) \in E
    BY <1>1, CheckEmitted, Names DEF technical_seo_keys
  <2> HIDE DEF E
  <2>2. QED BY <2>1 DEF international, Unless
<1> HIDE DEF E
<1>6. /\ indexation(o) \in Seq(Emitted("technical_seo"))
      /\ crawlability(o) \in Seq(Emitted("technical_seo"))
      /\ site_response(o) \in Seq(Emitted("technical_seo"))
      /\ mobile(o) \in Seq(Emitted("technical_seo"))
      /\ international(o) \in Seq(Emitted("technical_seo"))
  BY <1>2, <1>3, <1>4, <1>5, AnswersEmitted DEF E
<1>7. \A key \in {"indexation", "crawlability", "site_response", "mobile",
                  "international"}
        : key \in CategoryKeys
  BY DEF CategoryKeys
<1>8. /\ Category("indexation", 30, TRUE, indexation(o))
           \in CategoryOf("technical_seo")
      /\ Category("crawlability", 25, TRUE, crawlability(o))
           \in CategoryOf("technical_seo")
      /\ Category("site_response", 20, TRUE, site_response(o))
           \in CategoryOf("technical_seo")
      /\ Category("mobile", 15, TRUE, mobile(o)) \in CategoryOf("technical_seo")
      /\ Category("international", 10, o.hreflang # "none", international(o))
           \in CategoryOf("technical_seo")
  BY <1>6, <1>7, CategoryEmitted, Weights, Zenon
<1>9. QED BY <1>8, TupleSeq, Zenon DEF TechnicalSeo

(***************************************************************************)
(* On-page SEO                                                             *)
(***************************************************************************)
\* A share of items that passes at half of them or more.
LEMMA ShareEmitted ==
  ASSUME NEW audit, NEW key \in Explained(audit), NEW severity \in Severities,
         NEW tag \in Tags, NEW part \in Nat, NEW whole \in Nat \ {0}, part <= whole,
         NEW ok \in 50..100
  PROVE  Share(key, part, whole, ok, severity, tag) \in Emitted(audit)
<1> DEFINE score == (100 * part) \div whole
           passes == 100 * part >= ok * whole
<1>1. /\ score \in 0..100
      /\ 50 * whole <= 100 * part => score \in 50..100
  BY ShareOnScale
<1>2. passes => 50 * whole <= 100 * part
  <2>1. 50 * whole <= ok * whole BY ScaledOrder
  <2> DEFINE a == 50 * whole
             b == ok * whole
             c == 100 * part
  <2>2. a \in Int /\ b \in Int /\ c \in Int OBVIOUS
  <2>3. a <= b BY <2>1
  <2> HIDE DEF a, b, c
  <2>4. b <= c => a <= c BY <2>2, <2>3
  <2>5. QED BY <2>2, <2>4 DEF a, b, c
<1>3. passes => score \in 50..100 BY <1>1, <1>2
<1> HIDE DEF score, passes
<1>4. /\ Warned(key, score, severity, tag) \in Emitted(audit)
      /\ passes => Check(key, score, "pass", severity, tag) \in Emitted(audit)
  BY <1>1, <1>3, CheckEmitted
<1>5. /\ passes => Share(key, part, whole, ok, severity, tag)
                     = Check(key, score, "pass", severity, tag)
      /\ ~passes => Share(key, part, whole, ok, severity, tag)
                      = Warned(key, score, severity, tag)
  BY DEF Share, Warned, score, passes
<1>6. QED BY <1>4, <1>5

\* The checks on the elements of the page.
LEMMA ElementsEmitted ==
  ASSUME NEW o, Measured(o)
  PROVE  on_page_elements(o) \in Seq(Emitted("on_page_seo"))
<1> DEFINE E == Emitted("on_page_seo")
           h1 == Unless(o.h1s # 1, "h1", "low", OBS, Warned("h1", 50, "medium", OBS))
<1>1. \A key \in on_page_seo_keys : key \in Explained("on_page_seo") BY OnPageSeoRows
<1>2. title_tag(o) \in E /\ meta_description(o) \in E /\ h1 \in E
  BY <1>1, CheckEmitted, Names
     DEF title_tag, meta_description, score_length, Unless, on_page_seo_keys
<1>3. image_alt(o) \in E
  <2>1. "image_alt" \in Explained("on_page_seo") BY <1>1 DEF on_page_seo_keys
  <2>2. CASE o.images.all = 0 BY <2>1, <2>2, CheckEmitted, Names DEF image_alt
  <2>3. CASE o.images.all # 0
    <3> DEFINE all == o.images.all
               part == o.images.with_alt
    <3>1. all \in Nat \ {0} /\ part \in Nat /\ part <= all BY <2>3, MeasuredParts
    <3> HIDE DEF all, part
    <3>2. Share("image_alt", part, all, 90, "low", OBS) \in E
      BY <2>1, <3>1, ShareEmitted, Names
    <3>3. QED BY <2>3, <3>2 DEF image_alt, all, part
  <2>4. QED BY <2>2, <2>3
<1>4. title_uniqueness(o) \in E
  <2> DEFINE titled == {p \in o.pages : p.title # None}
             unique == {p.title : p \in titled}
             part == Cardinality(unique)
             whole == Cardinality(titled)
             titleOf == [p \in titled |-> p.title]
  <2>1. "title_uniqueness" \in Explained("on_page_seo") BY <1>1 DEF on_page_seo_keys
  <2>2. IsFiniteSet(titled)
    <3>1. IsFiniteSet(o.pages) /\ titled \in SUBSET o.pages BY MeasuredParts
    <3>2. QED BY <3>1, FS_Subset
  <2>3. part \in Nat /\ whole \in Nat /\ part <= whole
    <3>1. unique = {titleOf[p] : p \in titled} OBVIOUS
    <3>2. titled \subseteq DOMAIN titleOf OBVIOUS
    <3> HIDE DEF titled, unique, titleOf
    <3>3. IsFiniteSet(unique) /\ part <= whole BY <2>2, <3>1, <3>2, FiniteImage
    <3>4. QED BY <2>2, <3>3, FS_CardinalityType
  <2>4. title_uniqueness(o) =
          IF whole < 2 THEN Informational("title_uniqueness", OBS)
          ELSE Share("title_uniqueness", part, whole, 100, "medium", OBS)
    BY DEF title_uniqueness
  <2> HIDE DEF part, whole
  <2>5. CASE whole < 2 BY <2>1, <2>4, <2>5, CheckEmitted, Names
  <2>6. CASE ~(whole < 2)
    <3>1. whole \in Nat \ {0} BY <2>3, <2>6
    <3>2. Share("title_uniqueness", part, whole, 100, "medium", OBS) \in E
      BY <2>1, <2>3, <3>1, ShareEmitted, Names
    <3>3. QED BY <2>4, <2>6, <3>2
  <2>7. QED BY <2>5, <2>6
<1>5. on_page_elements(o) = <<title_tag(o), meta_description(o), h1, image_alt(o),
                              title_uniqueness(o)>>
  BY DEF on_page_elements
<1> HIDE DEF E, h1
<1>6. on_page_elements(o) \in Seq(E) BY <1>2, <1>3, <1>4, <1>5, TupleSeq
<1>7. QED BY <1>6 DEF E

\* The categories of on-page SEO.
LEMMA OnPageSeoEmitted ==
  ASSUME NEW o, Measured(o)
  PROVE  OnPageSeo(o) \in Seq(CategoryOf("on_page_seo"))
<1> DEFINE E == Emitted("on_page_seo")
<1>1. \A key \in on_page_seo_keys : key \in Explained("on_page_seo") BY OnPageSeoRows
<1>2. keyword_targeting(o) \in Seq(E)
  <2>1. keyword_targeting(o)[1] \in E /\ keyword_targeting(o)[2] \in E
    BY <1>1, CheckEmitted, Names DEF keyword_targeting, Unless, on_page_seo_keys
  <2> HIDE DEF E
  <2>2. QED BY <2>1 DEF keyword_targeting
<1>3. semantic_content(o) \in Seq(E)
  <2>1. semantic_content(o)[1] \in E /\ semantic_content(o)[2] \in E
    BY <1>1, CheckEmitted, Names DEF semantic_content, on_page_seo_keys
  <2> HIDE DEF E
  <2>2. QED BY <2>1 DEF semantic_content
<1>4. ranking_performance(o) \in Seq(E)
  <2>1. /\ Informational("anticipated_phrases", INF) \in E
        /\ Informational("rankings", NEEDS) \in E
        /\ Informational("striking_distance", OBS) \in E
        /\ search_visibility(o.gsc) \in E
    BY <1>1, CheckEmitted, Names DEF search_visibility, on_page_seo_keys
  <2>2. average_position(o.gsc) \in Seq(E)
    <3>1. /\ Passed("average_position", "low", OBS) \in E
          /\ Check("average_position", 80, "pass", "low", OBS) \in E
          /\ Warned("average_position", 55, "medium", OBS) \in E
          /\ Failed("average_position", 30, "medium", OBS) \in E
      BY <1>1, CheckEmitted, Names DEF on_page_seo_keys
    <3> HIDE DEF E
    <3>2. QED BY <3>1 DEF average_position
  <2> HIDE DEF E
  <2>3. ranking_checks_from_gsc(o.gsc) \in Seq(E)
    BY <2>1, <2>2 DEF ranking_checks_from_gsc
  <2>4. QED BY <2>1, <2>3 DEF ranking_performance
<1>5. local_seo(o) \in Seq(E)
  <2>1. /\ Informational("local_signals", OBS) \in E
        /\ Passed("nap_presence", "low", INF) \in E
        /\ Warned("nap_presence", 60, "low", INF) \in E
    BY <1>1, CheckEmitted, Names DEF on_page_seo_keys
  <2> HIDE DEF E
  <2>2. QED BY <2>1 DEF local_seo, Unless
<1> HIDE DEF E
<1>6. /\ keyword_targeting(o) \in Seq(Emitted("on_page_seo"))
      /\ semantic_content(o) \in Seq(Emitted("on_page_seo"))
      /\ ranking_performance(o) \in Seq(Emitted("on_page_seo"))
      /\ local_seo(o) \in Seq(Emitted("on_page_seo"))
  BY <1>2, <1>3, <1>4, <1>5 DEF E
<1>7. \A key \in {"on_page_elements", "keyword_targeting",
                  "semantic_content", "ranking_performance", "local_seo"}
        : key \in CategoryKeys
  BY DEF CategoryKeys
<1>8. /\ Category("on_page_elements", 25, TRUE, on_page_elements(o))
           \in CategoryOf("on_page_seo")
      /\ Category("keyword_targeting", 20, TRUE, keyword_targeting(o))
           \in CategoryOf("on_page_seo")
      /\ Category("semantic_content", 20, TRUE, semantic_content(o))
           \in CategoryOf("on_page_seo")
      /\ Category("ranking_performance", 25, TRUE, ranking_performance(o))
           \in CategoryOf("on_page_seo")
      /\ Category("local_seo", 10, o.tel \/ o.local_markup, local_seo(o))
           \in CategoryOf("on_page_seo")
  BY <1>6, ElementsEmitted, <1>7, CategoryEmitted, Weights, Zenon
<1>9. QED BY <1>8, TupleSeq, Zenon DEF OnPageSeo

(***************************************************************************)
(* Structured data                                                         *)
(***************************************************************************)
\* The categories of the structured data audit.
LEMMA SchemaEmitted ==
  ASSUME NEW o, Measured(o)
  PROVE  Schema(o) \in Seq(CategoryOf("schema"))
<1> DEFINE E == Emitted("schema")
<1>1. \A key \in schema_keys : key \in Explained("schema") BY SchemaRows
<1>2. presence(o) \in Seq(E)
  <2>1. presence(o)[1] \in E /\ presence(o)[2] \in E
    BY <1>1, CheckEmitted, Names DEF presence, Unless, schema_keys
  <2> HIDE DEF E
  <2>2. QED BY <2>1 DEF presence
<1>3. validity(o) \in Seq(E)
  <2> DEFINE score == (100 * o.blocks) \div (o.blocks + o.invalid)
             failed == Failed("json_ld_valid", score, "medium", OBS)
             valid == Unless(o.invalid > 0, "json_ld_valid", "medium", OBS, failed)
             required == Unless(missing_required(o.objects) # {},
                                "required_properties", "low", INF,
                                Warned("required_properties", 60, "low", INF))
  <2>1. Informational("json_ld_valid", OBS) \in E /\ required \in E
    BY <1>1, CheckEmitted, Names DEF Unless, schema_keys
  <2>2. CASE o.blocks = 0 /\ o.invalid = 0 BY <2>1, <2>2 DEF validity
  <2>3. CASE ~(o.blocks = 0 /\ o.invalid = 0)
    <3> DEFINE whole == o.blocks + o.invalid
    <3>1. o.blocks \in Nat /\ whole \in Nat \ {0} /\ o.blocks <= whole
      BY <2>3, MeasuredParts
    <3> HIDE DEF whole
    <3>2. (100 * o.blocks) \div whole \in 0..100 BY <3>1, ShareOnScale
    <3>3. score \in 0..100 BY <3>2 DEF whole
    <3> HIDE DEF score
    <3>4. failed \in E /\ Passed("json_ld_valid", "medium", OBS) \in E
      BY <1>1, <3>3, CheckEmitted, Names DEF schema_keys
    <3>5. valid \in E BY <3>4 DEF Unless
    <3>6. validity(o) = <<valid, required>> BY <2>3 DEF validity, score
    <3> HIDE DEF E, valid, required
    <3>7. QED BY <2>1, <3>5, <3>6
  <2>4. QED BY <2>2, <2>3
<1>4. rich_results(o) \in Seq(E)
  <2>1. /\ Informational("deprecated_rich", OBS) \in E
        /\ Passed("rich_eligible_types", "low", INF) \in E
        /\ Warned("rich_eligible_types", 50, "low", INF) \in E
    BY <1>1, CheckEmitted, Names DEF schema_keys
  <2> HIDE DEF E
  <2>2. QED BY <2>1 DEF rich_results, Unless
<1>5. entity(o) \in Seq(E)
  <2>1. /\ Warned("organization_entity", 40, "medium", OBS) \in E
        /\ Passed("organization_entity", "low", OBS) \in E
        /\ Warned("organization_entity", 70, "low", OBS) \in E
    BY <1>1, CheckEmitted, Names DEF schema_keys
  <2> HIDE DEF E
  <2>2. QED BY <2>1 DEF entity
<1> HIDE DEF E
<1>6. /\ presence(o) \in Seq(Emitted("schema")) /\ validity(o) \in Seq(Emitted("schema"))
      /\ rich_results(o) \in Seq(Emitted("schema")) /\ entity(o) \in Seq(Emitted("schema"))
  BY <1>2, <1>3, <1>4, <1>5 DEF E
<1>7. \A key \in {"presence", "validity", "rich_results", "entity"}
        : key \in CategoryKeys
  BY DEF CategoryKeys
<1>8. /\ Category("presence", 30, TRUE, presence(o)) \in CategoryOf("schema")
      /\ Category("validity", 30, TRUE, validity(o)) \in CategoryOf("schema")
      /\ Category("rich_results", 20, TRUE, rich_results(o))
           \in CategoryOf("schema")
      /\ Category("entity", 20, TRUE, entity(o)) \in CategoryOf("schema")
  BY <1>6, <1>7, CategoryEmitted, Weights, Zenon
<1>9. QED BY <1>8, TupleSeq, Zenon DEF Schema

(***************************************************************************)
(* AI search visibility                                                    *)
(***************************************************************************)
\* The categories of the AI search visibility audit.
LEMMA GeoEmitted ==
  ASSUME NEW o, Measured(o)
  PROVE  Geo(o) \in Seq(CategoryOf("geo"))
<1> DEFINE E == Emitted("geo")
<1>1. \A key \in geo_keys : key \in Explained("geo") BY GeoRows
<1>2. <<Informational("ai_answer_citation", NEEDS)>> \in Seq(E)
  <2>1. Informational("ai_answer_citation", NEEDS) \in E
    BY <1>1, CheckEmitted, Names DEF geo_keys
  <2> HIDE DEF E
  <2>2. QED BY <2>1
<1>3. extractability(o) \in Seq(E)
  <2>1. extractability(o)[1] \in E /\ extractability(o)[2] \in E
    BY <1>1, CheckEmitted, Names DEF extractability, Unless, geo_keys
  <2> HIDE DEF E
  <2>2. QED BY <2>1 DEF extractability
<1>4. answerability(o) \in Seq(E)
  <2> DEFINE key == "icp_question_coverage"
             faq == Unless(~o.faq_text /\ ~o.faqpage, "faq_content", "low", INF,
                           Warned("faq_content", 60, "low", INF))
  <2>1. /\ faq \in E /\ Informational(key, NEEDS) \in E
        /\ Informational("icp_question_source", NEEDS) \in E
    BY <1>1, CheckEmitted, Names DEF Unless, geo_keys
  <2>2. o.coverage # None => llm_answerability(o.coverage) \in E
    <3> SUFFICES ASSUME o.coverage # None PROVE llm_answerability(o.coverage) \in E
      OBVIOUS
    <3> DEFINE part == o.coverage[1]
               whole == o.coverage[2]
               score == (100 * part) \div whole
    <3>1. whole \in Nat \ {0} /\ part \in Nat /\ part <= whole BY MeasuredParts
    <3> HIDE DEF part, whole
    <3>2. score \in 0..100 BY <3>1, ShareOnScale
    <3> HIDE DEF score
    <3>3. key \in Explained("geo") BY <1>1 DEF geo_keys
    <3>4. /\ Warned(key, score, "medium", INF) \in E
          /\ Warned(key, score, "high", INF) \in E
          /\ score >= 80 => Check(key, score, "pass", "low", INF) \in E
      BY <3>2, <3>3, CheckEmitted, Names
    <3>5. QED BY <3>4 DEF llm_answerability, score, part, whole
  <2>3. answerability(o) = <<faq>> \o
           (IF o.coverage = None THEN <<Informational(key, NEEDS)>>
            ELSE <<llm_answerability(o.coverage),
                   Informational("icp_question_source", NEEDS)>>)
    BY DEF answerability
  <2> HIDE DEF E, faq
  <2>4. QED BY <2>1, <2>2, <2>3
<1>5. ai_crawler_access(o) \in Seq(E)
  <2>1. ai_crawler_access(o)[1] \in E /\ ai_crawler_access(o)[2] \in E
    BY <1>1, CheckEmitted, Names DEF ai_crawler_access, Unless, geo_keys
  <2> HIDE DEF E
  <2>2. QED BY <2>1 DEF ai_crawler_access
<1>6. authority(o) \in Seq(E)
  <2>1. authority(o)[1] \in E /\ authority(o)[2] \in E
    BY <1>1, CheckEmitted, Names DEF authority, Unless, geo_keys
  <2> HIDE DEF E
  <2>2. QED BY <2>1 DEF authority
<1> HIDE DEF E
<1>7. /\ <<Informational("ai_answer_citation", NEEDS)>> \in Seq(Emitted("geo"))
      /\ extractability(o) \in Seq(Emitted("geo"))
      /\ answerability(o) \in Seq(Emitted("geo"))
      /\ ai_crawler_access(o) \in Seq(Emitted("geo"))
      /\ authority(o) \in Seq(Emitted("geo"))
  BY <1>2, <1>3, <1>4, <1>5, <1>6 DEF E
<1>8. \A key \in {"ai_citation", "extractability", "answerability",
                  "ai_crawler_access", "authority"}
        : key \in CategoryKeys
  BY DEF CategoryKeys
<1>9. /\ Category("ai_citation", 30, TRUE, <<Informational("ai_answer_citation", NEEDS)>>)
           \in CategoryOf("geo")
      /\ Category("extractability", 25, TRUE, extractability(o))
           \in CategoryOf("geo")
      /\ Category("answerability", 20, TRUE, answerability(o))
           \in CategoryOf("geo")
      /\ Category("ai_crawler_access", 15, TRUE, ai_crawler_access(o))
           \in CategoryOf("geo")
      /\ Category("authority", 10, TRUE, authority(o)) \in CategoryOf("geo")
  BY <1>7, <1>8, CategoryEmitted, Weights, Zenon
<1>10. QED BY <1>9, TupleSeq, Zenon DEF Geo

(***************************************************************************)
(* Content quality                                                         *)
(***************************************************************************)
\* The categories of the content quality audit.
LEMMA ContentQualityEmitted ==
  ASSUME NEW o, Measured(o)
  PROVE  ContentQuality(o) \in Seq(CategoryOf("content_quality"))
<1> DEFINE E == Emitted("content_quality")
<1>1. \A key \in content_quality_keys : key \in Explained("content_quality")
  BY ContentQualityRows
<1>2. depth_substance(o) \in Seq(E)
  <2>1. /\ depth_substance(o)[1] \in E /\ depth_substance(o)[3] \in E
        /\ Informational("duplicate_content", OBS) \in E
        /\ Passed("duplicate_content", "medium", OBS) \in E
        /\ Warned("duplicate_content", 50, "medium", OBS) \in E
    BY <1>1, CheckEmitted, Names DEF depth_substance, content_quality_keys
  <2> HIDE DEF E
  <2>2. duplicate_content(o.titles) \in E BY <2>1, Zenon DEF duplicate_content, Unless
  <2>3. QED BY <2>1, <2>2 DEF depth_substance
<1>3. authoritativeness_trust(o) \in Seq(E)
  <2>1. /\ authoritativeness_trust(o)[1] \in E
        /\ authoritativeness_trust(o)[2] \in E
        /\ authoritativeness_trust(o)[3] \in E
    BY <1>1, CheckEmitted, Names DEF authoritativeness_trust, Unless, content_quality_keys
  <2> HIDE DEF E
  <2>2. QED BY <2>1 DEF authoritativeness_trust
<1>4. expertise_experience(o) \in Seq(E)
  <2>1. expertise_experience(o)[1] \in E /\ expertise_experience(o)[2] \in E
    BY <1>1, CheckEmitted, Names DEF expertise_experience, Unless, content_quality_keys
  <2> HIDE DEF E
  <2>2. QED BY <2>1 DEF expertise_experience
<1>5. freshness(o) \in Seq(E)
  <2> DEFINE dates == Unless(~o.dated, "content_dates", "low", INF,
                             Warned("content_dates", 50, "low", INF))
  <2>1. /\ dates \in E /\ Passed("copyright_current", "low", OBS) \in E
        /\ Warned("copyright_current", 50, "low", OBS) \in E
    BY <1>1, CheckEmitted, Names DEF Unless, content_quality_keys
  <2>2. freshness(o) = <<dates>> \o copyright_current(o.year_age) BY DEF freshness
  <2> HIDE DEF E, dates
  <2>3. copyright_current(o.year_age) \in Seq(E) BY <2>1 DEF copyright_current, Unless
  <2>4. QED BY <2>1, <2>2, <2>3
<1>6. readability_structure(o) \in Seq(E)
  <2> DEFINE left == AtLeast(50, 100 - 15 * o.ai_hits)
             scan == Unless(o.headings < 2 /\ o.list_items < 3, "scannability",
                            "low", OBS, Warned("scannability", 50, "low", OBS))
             warned == Warned("generic_prose", left, "low", INF)
             prose == Unless(o.ai_hits > 0, "generic_prose", "low", INF, warned)
  <2>1. scan \in E BY <1>1, CheckEmitted, Names DEF Unless, content_quality_keys
  <2>2. left \in 0..100
    <3>1. o.ai_hits \in Nat BY MeasuredParts
    <3>2. QED BY <3>1 DEF AtLeast
  <2> HIDE DEF left
  <2>3. warned \in E /\ Passed("generic_prose", "low", INF) \in E
    BY <1>1, <2>2, CheckEmitted, Names DEF content_quality_keys
  <2>4. prose \in E BY <2>3 DEF Unless
  <2>5. readability_structure(o) = <<scan, prose>> BY DEF readability_structure, left
  <2> HIDE DEF E, scan, prose
  <2>6. QED BY <2>1, <2>4, <2>5
<1> HIDE DEF E
<1>7. /\ depth_substance(o) \in Seq(Emitted("content_quality"))
      /\ authoritativeness_trust(o) \in Seq(Emitted("content_quality"))
      /\ expertise_experience(o) \in Seq(Emitted("content_quality"))
      /\ freshness(o) \in Seq(Emitted("content_quality"))
      /\ readability_structure(o) \in Seq(Emitted("content_quality"))
  BY <1>2, <1>3, <1>4, <1>5, <1>6 DEF E
<1>8. \A key \in {"depth_substance", "authoritativeness_trust",
                  "expertise_experience", "freshness",
                  "readability_structure"}
        : key \in CategoryKeys
  BY DEF CategoryKeys
<1>9. /\ Category("depth_substance", 25, TRUE, depth_substance(o))
           \in CategoryOf("content_quality")
      /\ Category("authoritativeness_trust", 25, TRUE, authoritativeness_trust(o))
           \in CategoryOf("content_quality")
      /\ Category("expertise_experience", 20, TRUE, expertise_experience(o))
           \in CategoryOf("content_quality")
      /\ Category("freshness", 15, TRUE, freshness(o))
           \in CategoryOf("content_quality")
      /\ Category("readability_structure", 15, TRUE, readability_structure(o))
           \in CategoryOf("content_quality")
  BY <1>7, <1>8, CategoryEmitted, Weights, Zenon
<1>10. QED BY <1>9, TupleSeq, Zenon DEF ContentQuality

(***************************************************************************)
(* Content strategy                                                        *)
(***************************************************************************)
\* The categories of the content strategy audit.
LEMMA ContentStrategyEmitted ==
  ASSUME NEW o, Measured(o)
  PROVE  ContentStrategy(o) \in Seq(CategoryOf("content_strategy"))
<1> DEFINE E == Emitted("content_strategy")
<1>1. \A key \in content_strategy_keys : key \in Explained("content_strategy")
  BY ContentStrategyRows
<1>2. cadence(o) \in Seq(E)
  <2> DEFINE ages == Range(o.dates)
             newest == recency(Min(ages))
             rate == regularity(Len(o.dates), Max(ages) - Min(ages))
             stock == inventory(o.content)
  <2>1. stock \in E
    BY <1>1, CheckEmitted, Names DEF inventory, content_strategy_keys
  <2>2. newest \in E
    <3> DEFINE key == "content_recency"
    <3>1. /\ Passed(key, "low", OBS) \in E /\ Check(key, 85, "pass", "low", OBS) \in E
          /\ Warned(key, 70, "low", OBS) \in E /\ Warned(key, 55, "medium", OBS) \in E
          /\ Warned(key, 35, "medium", OBS) \in E /\ Failed(key, 15, "high", OBS) \in E
      BY <1>1, CheckEmitted, Names DEF content_strategy_keys
    <3> HIDE DEF E
    <3>2. QED BY <3>1, Zenon DEF recency
  <2>3. rate \in E
    <3> DEFINE key == "publishing_regularity"
    <3>1. /\ Passed(key, "low", INF) \in E /\ Check(key, 85, "pass", "low", INF) \in E
          /\ Warned(key, 70, "low", INF) \in E /\ Warned(key, 45, "low", INF) \in E
          /\ Warned(key, 25, "low", INF) \in E
      BY <1>1, CheckEmitted, Names DEF content_strategy_keys
    <3> HIDE DEF E
    <3>2. QED BY <3>1, Zenon DEF regularity
  <2>4. /\ Informational("content_recency", NEEDS) \in E
        /\ Informational("content_recency", INF) \in E
    BY <1>1, CheckEmitted, Names DEF content_strategy_keys
  <2>5. cadence(o) = <<stock>> \o
           (IF ages = {} THEN <<Informational("content_recency", NEEDS)>>
            ELSE IF Cardinality(ages) = 1 THEN <<Informational("content_recency", INF)>>
            ELSE <<newest, rate>>)
    BY DEF cadence
  <2> HIDE DEF E, stock, newest, rate, ages
  <2>6. QED BY <2>1, <2>2, <2>3, <2>4, <2>5
<1>3. <<quality_icp(o)>> \in Seq(E)
  <2> DEFINE score == AtLeast(0, AtMost(100, o.verdict))
             key == "content_relevance"
  <2>1. key \in Explained("content_strategy") BY <1>1 DEF content_strategy_keys
  <2>2. Informational(key, NEEDS) \in E BY <2>1, CheckEmitted, Names
  <2>3. o.verdict # None => quality_icp(o) \in E
    <3> SUFFICES ASSUME o.verdict # None PROVE quality_icp(o) \in E OBVIOUS
    <3>1. o.verdict \in Int BY MeasuredParts
    <3>2. score \in 0..100 BY <3>1 DEF AtLeast, AtMost
    <3> HIDE DEF score
    <3>3. /\ Warned(key, score, "medium", INF) \in E
          /\ score >= 70 => Check(key, score, "pass", "medium", INF) \in E
      BY <2>1, <3>2, CheckEmitted, Names
    <3>4. QED BY <2>2, <3>3 DEF quality_icp, Warned, score
  <2>4. o.verdict = None => quality_icp(o) \in E BY <2>2 DEF quality_icp
  <2> HIDE DEF E
  <2>5. QED BY <2>3, <2>4
<1>4. /\ <<Informational("content_performance", NEEDS)>> \in Seq(E)
      /\ <<conversion_pathway(o)>> \in Seq(E)
  <2>1. Informational("content_performance", NEEDS) \in E /\ conversion_pathway(o) \in E
    BY <1>1, CheckEmitted, Names DEF conversion_pathway, Unless, content_strategy_keys
  <2> HIDE DEF E
  <2>2. QED BY <2>1
<1> HIDE DEF E
<1>5. /\ cadence(o) \in Seq(Emitted("content_strategy"))
      /\ <<quality_icp(o)>> \in Seq(Emitted("content_strategy"))
      /\ <<Informational("content_performance", NEEDS)>>
           \in Seq(Emitted("content_strategy"))
      /\ <<conversion_pathway(o)>> \in Seq(Emitted("content_strategy"))
  BY <1>2, <1>3, <1>4 DEF E
<1>6. \A key \in {"publishing_cadence", "content_quality_icp",
                  "content_performance", "conversion_pathway"}
        : key \in CategoryKeys
  BY DEF CategoryKeys
<1>7. /\ Category("publishing_cadence", 30, TRUE, cadence(o))
           \in CategoryOf("content_strategy")
      /\ Category("content_quality_icp", 30, TRUE, <<quality_icp(o)>>)
           \in CategoryOf("content_strategy")
      /\ Category("content_performance", 25, FALSE, <<Informational("content_performance", NEEDS)>>)
           \in CategoryOf("content_strategy")
      /\ Category("conversion_pathway", 15, TRUE, <<conversion_pathway(o)>>)
           \in CategoryOf("content_strategy")
  BY <1>5, <1>6, CategoryEmitted, Weights, Zenon
<1>8. QED BY <1>7, TupleSeq, Zenon DEF ContentStrategy

(***************************************************************************)
(* Messaging                                                               *)
(***************************************************************************)
\* The categories of the messaging audit.
LEMMA MessagingEmitted ==
  ASSUME NEW o, Measured(o)
  PROVE  Messaging(o) \in Seq(CategoryOf("messaging"))
<1> DEFINE E == Emitted("messaging")
<1>1. \A key \in messaging_keys : key \in Explained("messaging") BY MessagingRows
<1>2. value_prop(o) \in Seq(E)
  <2>1. value_prop(o)[1] \in E /\ value_prop(o)[2] \in E
    BY <1>1, CheckEmitted, Names DEF value_prop, Unless, messaging_keys
  <2> HIDE DEF E
  <2>2. QED BY <2>1 DEF value_prop
<1>3. conversion_path(o) \in Seq(E)
  <2>1. conversion_path(o)[1] \in E /\ conversion_path(o)[2] \in E
    BY <1>1, CheckEmitted, Names DEF conversion_path, Unless, messaging_keys
  <2> HIDE DEF E
  <2>2. QED BY <2>1 DEF conversion_path
<1>4. audience(o) \in Seq(E)
  <2>1. audience(o)[1] \in E /\ audience(o)[2] \in E
    BY <1>1, CheckEmitted, Names DEF audience, Unless, messaging_keys
  <2> HIDE DEF E
  <2>2. QED BY <2>1 DEF audience
<1>5. clarity(o) \in Seq(E)
  <2> DEFINE left == AtLeast(40, 100 - 15 * o.fillers)
             headline == Unless(~o.headline, "hero_headline", "medium", OBS,
                                Failed("hero_headline", 40, "medium", OBS))
             warned == Warned("plain_language", left, "low", INF)
             plain == Unless(o.fillers > 0, "plain_language", "low", INF, warned)
             judged == Informational("clarity_judgement", NEEDS)
  <2>1. headline \in E /\ judged \in E
    BY <1>1, CheckEmitted, Names DEF Unless, messaging_keys
  <2>2. left \in 0..100
    <3>1. o.fillers \in Nat BY MeasuredParts
    <3>2. QED BY <3>1 DEF AtLeast
  <2> HIDE DEF left
  <2>3. warned \in E /\ Passed("plain_language", "low", INF) \in E
    BY <1>1, <2>2, CheckEmitted, Names DEF messaging_keys
  <2>4. plain \in E BY <2>3 DEF Unless
  <2>5. clarity(o) = <<headline, plain, judged>> BY DEF clarity, left
  <2> HIDE DEF E, headline, plain, judged
  <2>6. QED BY <2>1, <2>4, <2>5
<1>6. consistency(o) \in Seq(E)
  <2>1. /\ Informational("brand_consistency", OBS) \in E
        /\ Passed("brand_consistency", "low", OBS) \in E
        /\ Warned("brand_consistency", 60, "low", OBS) \in E
    BY <1>1, CheckEmitted, Names DEF messaging_keys
  <2> HIDE DEF E
  <2>2. QED BY <2>1 DEF consistency, Unless
<1> HIDE DEF E
<1>7. /\ clarity(o) \in Seq(Emitted("messaging"))
      /\ value_prop(o) \in Seq(Emitted("messaging"))
      /\ conversion_path(o) \in Seq(Emitted("messaging"))
      /\ audience(o) \in Seq(Emitted("messaging"))
      /\ consistency(o) \in Seq(Emitted("messaging"))
  BY <1>2, <1>3, <1>4, <1>5, <1>6 DEF E
<1>8. \A key \in {"clarity", "value_prop", "conversion", "audience",
                  "consistency"}
        : key \in CategoryKeys
  BY DEF CategoryKeys
<1>9. /\ Category("clarity", 25, TRUE, clarity(o)) \in CategoryOf("messaging")
      /\ Category("value_prop", 25, TRUE, value_prop(o))
           \in CategoryOf("messaging")
      /\ Category("conversion", 20, TRUE, conversion_path(o))
           \in CategoryOf("messaging")
      /\ Category("audience", 20, TRUE, audience(o)) \in CategoryOf("messaging")
      /\ Category("consistency", 10, TRUE, consistency(o))
           \in CategoryOf("messaging")
  BY <1>7, <1>8, CategoryEmitted, Weights, Zenon
<1>10. QED BY <1>9, TupleSeq, Zenon DEF Messaging

(***************************************************************************)
(* Analytics and performance                                               *)
(***************************************************************************)
\* The categories of the analytics audit.
LEMMA AnalyticsEmitted ==
  ASSUME NEW o
  PROVE  Analytics(o) \in Seq(CategoryOf("analytics"))
<1> DEFINE E == Emitted("analytics")
           unseen == <<Informational("measurement_unobserved", NEEDS)>>
           layers == <<<<"web_analytics_presence", 35, web_analytics(o)>>,
                       <<"conversion_campaign", 30, conversion(o)>>,
                       <<"behavioural_product", 20, behavioural(o)>>,
                       <<"data_infra_governance", 15, infra(o)>>>>
           checks(i) == IF ~o.html /\ ~o.requests THEN unseen ELSE layers[i][3]
           made(i) == Category(layers[i][1], layers[i][2], TRUE, checks(i))
<1>1. \A key \in analytics_keys : key \in Explained("analytics") BY AnalyticsRows
<1>2. /\ Informational("measurement_unobserved", NEEDS) \in E
      /\ web_analytics(o)[1] \in E /\ conversion(o)[1] \in E
      /\ behavioural(o)[1] \in E /\ infra(o)[1] \in E
  BY <1>1, CheckEmitted, Names
     DEF web_analytics, conversion, behavioural, infra, layer, analytics_keys
<1> HIDE DEF E
<1>3. /\ unseen \in Seq(E) /\ web_analytics(o) \in Seq(E) /\ conversion(o) \in Seq(E)
      /\ behavioural(o) \in Seq(E) /\ infra(o) \in Seq(E)
  BY <1>2 DEF web_analytics, conversion, behavioural, infra, layer
<1>4. \A key \in {"web_analytics_presence", "conversion_campaign",
                  "behavioural_product", "data_infra_governance"}
        : key \in CategoryKeys
  BY DEF CategoryKeys
<1>5. \A i \in 1..4 : /\ layers[i][1] \in CategoryKeys
                      /\ layers[i][2] \in Nat \ {0}
                      /\ layers[i][3] \in Seq(E)
  <2>1. /\ layers[1] = <<"web_analytics_presence", 35, web_analytics(o)>>
        /\ layers[2] = <<"conversion_campaign", 30, conversion(o)>>
        /\ layers[3] = <<"behavioural_product", 20, behavioural(o)>>
        /\ layers[4] = <<"data_infra_governance", 15, infra(o)>>
    OBVIOUS
  <2> HIDE DEF layers
  <2>2. QED BY <1>3, <1>4, <2>1
<1>6. Analytics(o) = [i \in 1..4 |-> made(i)] BY DEF Analytics
<1> HIDE DEF layers, unseen
<1>7. \A i \in 1..4 : checks(i) \in Seq(Emitted("analytics")) BY <1>3, <1>5 DEF E
<1> HIDE DEF checks
<1>8. ASSUME NEW i \in 1..4 PROVE made(i) \in CategoryOf("analytics")
  BY <1>5, <1>7, CategoryEmitted, Zenon
<1> HIDE DEF made
<1>9. QED BY <1>6, <1>8

\* A measured figure as a check: 100, 60 or 25 points.
LEMMA BandEmitted ==
  ASSUME NEW audit, NEW key \in Explained(audit), NEW severity \in Severities,
         NEW tag \in Tags, NEW value, NEW good, NEW ok
  PROVE  Banded(key, value, good, ok, severity, tag) \in Emitted(audit)
<1>1. /\ Check(key, 100, "pass", severity, tag) \in Emitted(audit)
      /\ Warned(key, 60, severity, tag) \in Emitted(audit)
      /\ Failed(key, 25, severity, tag) \in Emitted(audit)
  BY CheckEmitted
<1>2. QED BY <1>1 DEF Banded, band, Warned, Failed

\* The categories of the performance audit.
LEMMA PerformanceEmitted ==
  ASSUME NEW o, Measured(o)
  PROVE  Performance(o) \in Seq(CategoryOf("performance"))
<1> DEFINE E == Emitted("performance")
<1>1. \A key \in performance_keys : key \in Explained("performance")
  BY PerformanceRows
<1>2. <<Informational("pagespeed_unavailable", NEEDS)>> \in Seq(E)
  <2>1. Informational("pagespeed_unavailable", NEEDS) \in E
    BY <1>1, CheckEmitted, Names DEF performance_keys
  <2> HIDE DEF E
  <2>2. QED BY <2>1
<1>3. core_web_vitals(o) \in Seq(E)
  <2>1. ASSUME NEW key \in {"cwv_lcp", "cwv_inp", "cwv_cls"}, NEW field, NEW lab,
               NEW good, NEW ok
        PROVE  cwv_metric(key, field, lab, good, ok) \in E
    <3>1. key \in Explained("performance") BY <1>1 DEF performance_keys
    <3>2. QED BY <3>1, BandEmitted, CheckEmitted, Names DEF cwv_metric
  <2>2. /\ core_web_vitals(o)[1] \in E /\ core_web_vitals(o)[2] \in E
        /\ core_web_vitals(o)[3] \in E
    BY <2>1 DEF core_web_vitals
  <2> HIDE DEF E
  <2>3. QED BY <2>2 DEF core_web_vitals
<1>4. lab_performance(o) \in Seq(E)
  <2> DEFINE score == o.lighthouse
             key == "lighthouse_score"
             lab == Check(key, score, IF score >= 90 THEN "pass"
                                      ELSE IF score >= 50 THEN "warn" ELSE "fail",
                          "medium", OBS)
             ttfb == Banded("ttfb", o.lab.ttfb, 800, 1800, "medium", OBS)
  <2>1. key \in Explained("performance") /\ "ttfb" \in Explained("performance")
    BY <1>1 DEF performance_keys
  <2>2. ttfb \in E BY <2>1, BandEmitted, Names
  <2>3. score # None => lab \in E
    <3> SUFFICES ASSUME score # None PROVE lab \in E OBVIOUS
    <3>1. score \in 0..100 BY MeasuredParts
    <3> HIDE DEF score
    <3>2. /\ Warned(key, score, "medium", OBS) \in E
          /\ Failed(key, score, "medium", OBS) \in E
          /\ score >= 90 => Check(key, score, "pass", "medium", OBS) \in E
      BY <2>1, <3>1, CheckEmitted, Names
    <3>3. QED BY <3>2 DEF Warned, Failed
  <2>4. lab_performance(o) = (IF score = None THEN <<>> ELSE <<lab>>)
                               \o (IF o.lab.ttfb = None THEN <<>> ELSE <<ttfb>>)
    BY DEF lab_performance
  <2> HIDE DEF E, lab, ttfb, score
  <2>5. QED BY <2>2, <2>3, <2>4
<1>5. page_weight(o) \in Seq(E)
  <2>1. /\ Informational("page_weight", OBS) \in E /\ Passed("page_weight", "low", OBS) \in E
        /\ Warned("page_weight", 60, "low", OBS) \in E
        /\ Failed("page_weight", 30, "low", OBS) \in E
    BY <1>1, CheckEmitted, Names DEF performance_keys
  <2> HIDE DEF E
  <2>2. QED BY <2>1 DEF page_weight
<1>6. delivery(o) \in Seq(E)
  <2>1. delivery(o)[1] \in E
    BY <1>1, CheckEmitted, Names DEF delivery, Unless, performance_keys
  <2> HIDE DEF E
  <2>2. QED BY <2>1 DEF delivery
<1> HIDE DEF E
<1>7. /\ <<Informational("pagespeed_unavailable", NEEDS)>> \in Seq(Emitted("performance"))
      /\ core_web_vitals(o) \in Seq(Emitted("performance"))
      /\ lab_performance(o) \in Seq(Emitted("performance"))
      /\ page_weight(o) \in Seq(Emitted("performance"))
      /\ delivery(o) \in Seq(Emitted("performance"))
  BY <1>2, <1>3, <1>4, <1>5, <1>6 DEF E
<1>8. \A key \in {"core_web_vitals", "lab_performance", "page_weight", "delivery"}
        : key \in CategoryKeys
  BY DEF CategoryKeys
<1>9. /\ Category("core_web_vitals", 40, TRUE,
                  <<Informational("pagespeed_unavailable", NEEDS)>>)
           \in CategoryOf("performance")
      /\ Category("core_web_vitals", 40, TRUE, core_web_vitals(o))
           \in CategoryOf("performance")
      /\ Category("lab_performance", 25, TRUE, lab_performance(o))
           \in CategoryOf("performance")
      /\ Category("page_weight", 20, TRUE, page_weight(o)) \in CategoryOf("performance")
      /\ Category("delivery", 15, TRUE, delivery(o)) \in CategoryOf("performance")
  BY <1>7, <1>8, CategoryEmitted, Weights, Zenon
<1>10. CASE ~o.pagespeed BY <1>9, <1>10, TupleSeq, Zenon DEF Performance
<1>11. CASE o.pagespeed BY <1>9, <1>11, TupleSeq, Zenon DEF Performance
<1>12. QED BY <1>10, <1>11

(***************************************************************************)
(* What each audit reads                                                   *)
(***************************************************************************)
\* The facts of the observation that an audit reads.
Reads ==
    [build_security |->
       {"https", "tls", "days", "headers", "insecure_refs", "exposed",
        "set_cookie", "leaks_version", "components", "builder", "boilerplate",
        "contact", "year_age"},
     compliance |->
       {"cmp", "trackers", "tracking_cookies", "us_processors", "https", "policy",
        "privacy", "terms", "identity", "axe", "statement", "pii_forms",
        "insecure_action"},
     technical_seo |->
       {"pages", "locs", "sample", "gsc", "noindex", "canonical", "https",
        "robots", "rendered_links", "raw_links", "viewport", "hreflang"},
     on_page_seo |->
       {"title", "meta", "h1s", "images", "pages", "aligned", "words", "gsc",
        "tel", "local_markup"},
     schema |-> {"blocks", "invalid", "microdata", "objects"},
     content_quality |->
       {"words", "titles", "trust", "presence", "social", "author", "dated",
        "year_age", "headings", "list_items", "ai_hits"},
     performance |->
       {"pagespeed", "field", "origin", "lab", "lighthouse", "total_kb",
        "compressed"},
     messaging |->
       {"headline", "fillers", "benefit", "proof", "cta", "systems", "audience",
        "branded", "titles"},
     geo |->
       {"question_heading", "faqpage", "list_items", "table", "faq_text",
        "coverage", "robots", "llms_txt", "authority"},
     content_strategy |-> {"dates", "content", "verdict", "systems", "cta"},
     analytics |-> {"html", "requests", "tags", "ga4"}]

\* Two observations agree on some facts.
Alike(o, p, names) == \A f \in names : o[f] = p[f]

\* Build quality and security reads these facts and no others.
LEMMA BuildSecurityReads ==
  ASSUME NEW o, NEW p, Alike(o, p, Reads.build_security)
  PROVE  BuildSecurity(o) = BuildSecurity(p)
<1>1. /\ o.https = p.https /\ o.tls = p.tls /\ o.days = p.days
      /\ o.headers = p.headers /\ o.insecure_refs = p.insecure_refs
      /\ o.exposed = p.exposed /\ o.set_cookie = p.set_cookie
      /\ o.leaks_version = p.leaks_version /\ o.components = p.components
      /\ o.builder = p.builder /\ o.boilerplate = p.boilerplate
      /\ o.contact = p.contact /\ o.year_age = p.year_age
  BY DEF Alike, Reads
<1>2. security_posture(o) = security_posture(p)
  <2>1. mixed_content(o) = mixed_content(p) /\ exposed_paths(o) = exposed_paths(p)
    BY <1>1 DEF mixed_content, exposed_paths
  <2>2. cookie_flags(o) = cookie_flags(p) /\ info_leakage(o) = info_leakage(p)
    BY <1>1 DEF cookie_flags, info_leakage
  <2>3. QED BY <1>1, <2>1, <2>2 DEF security_posture
<1>3. maintenance(o) = maintenance(p) BY <1>1 DEF maintenance, copyright_year
<1>4. versions_vulns(o) = versions_vulns(p)
  <2> DEFINE V(components) ==
               IF components = <<>> THEN <<Informational("version_disclosure", OBS)>>
               ELSE Append(
                      [i \in DOMAIN components |-> component_check(components[i])],
                      IF \E i \in DOMAIN components : php_eol(components[i])
                      THEN Failed("known_vulnerabilities", 0, "high", INF)
                      ELSE Passed("known_vulnerabilities", "medium", INF))
  <2>1. versions_vulns(o) = V(o.components) /\ versions_vulns(p) = V(p.components)
    BY DEF versions_vulns
  <2> HIDE DEF V
  <2>2. QED BY <1>1, <2>1
<1>5. ai_tells(o) = ai_tells(p)
  <2>1. ai_confidence(o) = ai_confidence(p) BY <1>1 DEF ai_confidence
  <2>2. QED BY <2>1 DEF ai_tells
<1>6. QED BY <1>2, <1>3, <1>4, <1>5 DEF BuildSecurity

\* Compliance reads these facts and no others.
LEMMA ComplianceReads ==
  ASSUME NEW o, NEW p, Alike(o, p, Reads.compliance)
  PROVE  Compliance(o) = Compliance(p)
<1>1. /\ o.cmp = p.cmp /\ o.trackers = p.trackers
      /\ o.tracking_cookies = p.tracking_cookies
      /\ o.us_processors = p.us_processors /\ o.https = p.https
      /\ o.policy = p.policy /\ o.privacy = p.privacy /\ o.terms = p.terms
      /\ o.identity = p.identity /\ o.axe = p.axe /\ o.statement = p.statement
      /\ o.pii_forms = p.pii_forms /\ o.insecure_action = p.insecure_action
  BY DEF Alike, Reads
<1>2. cookies_consent(o) = cookies_consent(p) BY <1>1 DEF cookies_consent, Unless
<1>3. trackers_transfers(o) = trackers_transfers(p)
  BY <1>1 DEF trackers_transfers, Unless
<1>4. privacy_legal(o) = privacy_legal(p)
  <2>1. policy_completeness(o) = policy_completeness(p) BY <1>1 DEF policy_completeness
  <2>2. QED BY <1>1, <2>1 DEF privacy_legal, Unless
<1>5. accessibility(o) = accessibility(p)
  <2>1. wcag_automated(o) = wcag_automated(p) BY <1>1 DEF wcag_automated
  <2>2. QED BY <1>1, <2>1 DEF accessibility, Unless
<1>6. forms(o) = forms(p) BY <1>1 DEF forms, Unless
<1>7. QED BY <1>2, <1>3, <1>4, <1>5, <1>6 DEF Compliance

\* Technical SEO reads these facts and no others.
LEMMA TechnicalSeoReads ==
  ASSUME NEW o, NEW p, Alike(o, p, Reads.technical_seo)
  PROVE  TechnicalSeo(o) = TechnicalSeo(p)
<1>1. /\ o.pages = p.pages /\ o.locs = p.locs /\ o.sample = p.sample
      /\ o.gsc = p.gsc /\ o.noindex = p.noindex /\ o.canonical = p.canonical
      /\ o.https = p.https /\ o.robots = p.robots
      /\ o.rendered_links = p.rendered_links /\ o.raw_links = p.raw_links
      /\ o.viewport = p.viewport /\ o.hreflang = p.hreflang
  BY DEF Alike, Reads
<1>2. indexation(o) = indexation(p)
  <2>1. indexed_count(o) = indexed_count(p) BY <1>1 DEF indexed_count
  <2>2. QED BY <1>1, <2>1 DEF indexation, Unless
<1>3. crawlability(o) = crawlability(p)
  <2>1. robots_txt(o) = robots_txt(p) BY <1>1 DEF robots_txt
  <2>2. crawl_depth(o) = crawl_depth(p)
    <3> DEFINE deep(pages) == Cardinality({x \in pages : x.depth >= 4})
    <3>1. deep(o.pages) = deep(p.pages) BY <1>1
    <3>2. /\ deep(o.pages) = Cardinality({x \in o.pages : x.depth >= 4})
          /\ deep(p.pages) = Cardinality({x \in p.pages : x.depth >= 4})
      OBVIOUS
    <3>3. QED BY <1>1, <3>1, <3>2 DEF crawl_depth
  <2>3. js_dependency(o) = js_dependency(p) BY <1>1 DEF js_dependency, Unless
  <2>4. sitemap_coverage(o) = sitemap_coverage(p)
    <3> DEFINE C(pages, locs) ==
                 LET crawled == {x.url : x \in Ok(pages)}
                     n       == Cardinality(crawled)
                     covered == Cardinality(crawled \intersect locs)
                 IN  IF locs = {} \/ crawled = {} THEN <<>>
                     ELSE <<IF 10 * covered >= 9 * n
                            THEN Passed("sitemap_coverage", "low", OBS)
                            ELSE IF 10 * covered >= 6 * n
                            THEN Warned("sitemap_coverage", 70, "medium", OBS)
                            ELSE Warned("sitemap_coverage", 40, "medium", OBS)>>
    <3>1. /\ sitemap_coverage(o) = C(o.pages, o.locs)
          /\ sitemap_coverage(p) = C(p.pages, p.locs)
      BY DEF sitemap_coverage
    <3> HIDE DEF C
    <3>2. QED BY <1>1, <3>1
  <2>5. QED BY <1>1, <2>1, <2>2, <2>3, <2>4 DEF crawlability, Unless
<1>4. site_response(o) = site_response(p)
  <2> DEFINE R(pages) ==
               LET answered == {x \in pages : x.status # None}
                   ok       == {x \in answered : x.status \in 200..299}
                   errors   == {x \in answered : x.status >= 400}
                   score    == (100 * Cardinality(ok)) \div Cardinality(answered)
               IN  IF answered = {} THEN <<Informational("status_health", OBS)>>
                   ELSE <<IF errors = {}
                          THEN Check("status_health", score, "pass", "low", OBS)
                          ELSE Warned("status_health", score, "medium", OBS)>>
  <2>1. site_response(o) = R(o.pages) /\ site_response(p) = R(p.pages)
    BY DEF site_response
  <2> HIDE DEF R
  <2>2. QED BY <1>1, <2>1
<1>5. mobile(o) = mobile(p) BY <1>1 DEF mobile, Unless
<1>6. international(o) = international(p) BY <1>1 DEF international, Unless
<1>7. Category("international", 10, o.hreflang # "none", international(o))
        = Category("international", 10, p.hreflang # "none", international(p))
  BY <1>1, <1>6 DEF Category
<1>8. QED BY <1>2, <1>3, <1>4, <1>5, <1>7 DEF TechnicalSeo

\* On-page SEO reads these facts and no others.
LEMMA OnPageSeoReads ==
  ASSUME NEW o, NEW p, Alike(o, p, Reads.on_page_seo)
  PROVE  OnPageSeo(o) = OnPageSeo(p)
<1>1. /\ o.title = p.title /\ o.meta = p.meta /\ o.h1s = p.h1s
      /\ o.images = p.images /\ o.pages = p.pages /\ o.aligned = p.aligned
      /\ o.words = p.words /\ o.gsc = p.gsc /\ o.tel = p.tel
      /\ o.local_markup = p.local_markup
  BY DEF Alike, Reads
<1>2. on_page_elements(o) = on_page_elements(p)
  <2>1. title_tag(o) = title_tag(p) BY <1>1 DEF title_tag
  <2>2. meta_description(o) = meta_description(p) BY <1>1 DEF meta_description
  <2>3. image_alt(o) = image_alt(p) BY <1>1 DEF image_alt
  <2>4. title_uniqueness(o) = title_uniqueness(p)
    <3> DEFINE U(pages) ==
                 LET titled == {x \in pages : x.title # None}
                     unique == {x.title : x \in titled}
                 IN  IF Cardinality(titled) < 2
                     THEN Informational("title_uniqueness", OBS)
                     ELSE Share("title_uniqueness", Cardinality(unique),
                                Cardinality(titled), 100, "medium", OBS)
    <3>1. title_uniqueness(o) = U(o.pages) /\ title_uniqueness(p) = U(p.pages)
      BY DEF title_uniqueness
    <3> HIDE DEF U
    <3>2. QED BY <1>1, <3>1
  <2>5. QED BY <1>1, <2>1, <2>2, <2>3, <2>4 DEF on_page_elements, Unless
<1>3. keyword_targeting(o) = keyword_targeting(p)
  BY <1>1 DEF keyword_targeting, Unless
<1>4. semantic_content(o) = semantic_content(p) BY <1>1 DEF semantic_content
<1>5. ranking_performance(o) = ranking_performance(p)
  BY <1>1 DEF ranking_performance
<1>6. local_seo(o) = local_seo(p) BY <1>1 DEF local_seo, Unless
<1>7. Category("local_seo", 10, o.tel \/ o.local_markup, local_seo(o))
        = Category("local_seo", 10, p.tel \/ p.local_markup, local_seo(p))
  BY <1>1, <1>6 DEF Category
<1>8. QED BY <1>2, <1>3, <1>4, <1>5, <1>7 DEF OnPageSeo

\* Structured data reads these facts and no others.
LEMMA SchemaReads ==
  ASSUME NEW o, NEW p, Alike(o, p, Reads.schema)
  PROVE  Schema(o) = Schema(p)
<1>1. /\ o.blocks = p.blocks /\ o.invalid = p.invalid
      /\ o.microdata = p.microdata /\ o.objects = p.objects
  BY DEF Alike, Reads
<1>2. presence(o) = presence(p) BY <1>1 DEF presence, Unless
<1>3. validity(o) = validity(p) BY <1>1 DEF validity, Unless
<1>4. rich_results(o) = rich_results(p) BY <1>1 DEF rich_results, Unless
<1>5. entity(o) = entity(p) BY <1>1 DEF entity
<1>6. QED BY <1>2, <1>3, <1>4, <1>5 DEF Schema

\* Content quality reads these facts and no others.
LEMMA ContentQualityReads ==
  ASSUME NEW o, NEW p, Alike(o, p, Reads.content_quality)
  PROVE  ContentQuality(o) = ContentQuality(p)
<1>1. /\ o.words = p.words /\ o.titles = p.titles /\ o.trust = p.trust
      /\ o.presence = p.presence /\ o.social = p.social /\ o.author = p.author
      /\ o.dated = p.dated /\ o.year_age = p.year_age
      /\ o.headings = p.headings /\ o.list_items = p.list_items
      /\ o.ai_hits = p.ai_hits
  BY DEF Alike, Reads
<1>2. depth_substance(o) = depth_substance(p) BY <1>1 DEF depth_substance
<1>3. authoritativeness_trust(o) = authoritativeness_trust(p)
  BY <1>1 DEF authoritativeness_trust, Unless
<1>4. expertise_experience(o) = expertise_experience(p)
  BY <1>1 DEF expertise_experience, Unless
<1>5. freshness(o) = freshness(p) BY <1>1 DEF freshness, Unless
<1>6. readability_structure(o) = readability_structure(p)
  BY <1>1 DEF readability_structure, Unless
<1>7. QED BY <1>2, <1>3, <1>4, <1>5, <1>6 DEF ContentQuality

\* Performance reads these facts and no others.
LEMMA PerformanceReads ==
  ASSUME NEW o, NEW p, Alike(o, p, Reads.performance)
  PROVE  Performance(o) = Performance(p)
<1>1. /\ o.pagespeed = p.pagespeed /\ o.field = p.field /\ o.origin = p.origin
      /\ o.lab = p.lab /\ o.lighthouse = p.lighthouse
      /\ o.total_kb = p.total_kb /\ o.compressed = p.compressed
  BY DEF Alike, Reads
<1>2. core_web_vitals(o) = core_web_vitals(p) BY <1>1 DEF core_web_vitals
<1>3. lab_performance(o) = lab_performance(p) BY <1>1 DEF lab_performance
<1>4. page_weight(o) = page_weight(p) BY <1>1 DEF page_weight
<1>5. delivery(o) = delivery(p) BY <1>1 DEF delivery, Unless
<1>6. QED BY <1>1, <1>2, <1>3, <1>4, <1>5 DEF Performance

\* Messaging reads these facts and no others.
LEMMA MessagingReads ==
  ASSUME NEW o, NEW p, Alike(o, p, Reads.messaging)
  PROVE  Messaging(o) = Messaging(p)
<1>1. /\ o.headline = p.headline /\ o.fillers = p.fillers
      /\ o.benefit = p.benefit /\ o.proof = p.proof /\ o.cta = p.cta
      /\ o.systems = p.systems /\ o.audience = p.audience
      /\ o.branded = p.branded /\ o.titles = p.titles
  BY DEF Alike, Reads
<1>2. clarity(o) = clarity(p) BY <1>1 DEF clarity, Unless
<1>3. value_prop(o) = value_prop(p) BY <1>1 DEF value_prop, Unless
<1>4. conversion_path(o) = conversion_path(p) BY <1>1 DEF conversion_path, Unless
<1>5. audience(o) = audience(p) BY <1>1 DEF audience, Unless
<1>6. consistency(o) = consistency(p) BY <1>1 DEF consistency, Unless
<1>7. QED BY <1>2, <1>3, <1>4, <1>5, <1>6 DEF Messaging

\* AI search visibility reads these facts and no others.
LEMMA GeoReads ==
  ASSUME NEW o, NEW p, Alike(o, p, Reads.geo)
  PROVE  Geo(o) = Geo(p)
<1>1. /\ o.question_heading = p.question_heading /\ o.faqpage = p.faqpage
      /\ o.list_items = p.list_items /\ o.table = p.table
      /\ o.faq_text = p.faq_text /\ o.coverage = p.coverage
      /\ o.robots = p.robots /\ o.llms_txt = p.llms_txt
      /\ o.authority = p.authority
  BY DEF Alike, Reads
<1>2. extractability(o) = extractability(p) BY <1>1 DEF extractability, Unless
<1>3. answerability(o) = answerability(p) BY <1>1 DEF answerability, Unless
<1>4. ai_crawler_access(o) = ai_crawler_access(p)
  BY <1>1 DEF ai_crawler_access, Unless
<1>5. authority(o) = authority(p) BY <1>1 DEF authority, Unless
<1>6. QED BY <1>2, <1>3, <1>4, <1>5 DEF Geo

\* Content strategy reads these facts and no others.
LEMMA ContentStrategyReads ==
  ASSUME NEW o, NEW p, Alike(o, p, Reads.content_strategy)
  PROVE  ContentStrategy(o) = ContentStrategy(p)
<1>1. /\ o.dates = p.dates /\ o.content = p.content /\ o.verdict = p.verdict
      /\ o.systems = p.systems /\ o.cta = p.cta
  BY DEF Alike, Reads
<1>2. cadence(o) = cadence(p) BY <1>1 DEF cadence
<1>3. quality_icp(o) = quality_icp(p) BY <1>1 DEF quality_icp
<1>4. conversion_pathway(o) = conversion_pathway(p)
  BY <1>1 DEF conversion_pathway, Unless
<1>5. QED BY <1>2, <1>3, <1>4 DEF ContentStrategy

\* Analytics reads these facts and no others.
LEMMA AnalyticsReads ==
  ASSUME NEW o, NEW p, Alike(o, p, Reads.analytics)
  PROVE  Analytics(o) = Analytics(p)
<1>1. /\ o.html = p.html /\ o.requests = p.requests /\ o.tags = p.tags
      /\ o.ga4 = p.ga4
  BY DEF Alike, Reads
<1>2. web_analytics(o) = web_analytics(p) BY <1>1 DEF web_analytics, layer
<1>3. conversion(o) = conversion(p) BY <1>1 DEF conversion, layer
<1>4. behavioural(o) = behavioural(p) BY <1>1 DEF behavioural, layer
<1>5. infra(o) = infra(p) BY <1>1 DEF infra, layer
<1>6. QED BY <1>1, <1>2, <1>3, <1>4, <1>5 DEF Analytics
=============================================================================
