---------------------------- MODULE Acquisition ----------------------------
(***************************************************************************)
(* The first half of execute_run (runner.py): fetch, then crawl.  Both     *)
(* turn the failures of a request into data; an exception that leaves      *)
(* either one fails the run (RunQueue has what becomes of it then).        *)
(***************************************************************************)
EXTENDS Fetch, Crawl

vars == <<fetchVars, crawlVars>>

Init == FetchInit /\ CrawlInit

Fetching == FetchNext /\ UNCHANGED crawlVars
Crawling == stage = "done" /\ CrawlNext /\ UNCHANGED fetchVars

Next == Fetching \/ Crawling

\* The executor's thread runs the acquisition to its end: every request has a
\* timeout.
Spec == Init /\ [][Next]_vars
FairSpec == Spec /\ WF_vars(Next)

(***************************************************************************)
(* Properties                                                              *)
(***************************************************************************)
TypeOK == FetchTypeOK /\ CrawlTypeOK

\* What a run may ask of the site: the home page, robots.txt, a sitemap and
\* its children, two requests for each sampled entry, the sensitive paths, the
\* HTTP check, and the crawl.
FetchLimit == 4 + MaxSitemapChildren + 2 * SitemapSample + SensitivePaths

\* The load a run puts on the site has a limit that does not depend on the
\* site: neither a page known already nor a redirection counts as a page, but
\* the URLs noticed are limited too, and no URL is asked for twice.
LoadIsBounded ==
    sent + Len(asked) <= FetchLimit + MaxSeen

\* The acquisition ends, with the data or with an exception.
AcquisitionEnds ==
    <>(stage = "raised" \/ crawler \in {"done", "raised"})
=============================================================================
