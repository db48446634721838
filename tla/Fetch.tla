------------------------------- MODULE Fetch -------------------------------
(***************************************************************************)
(* The outside-in acquisition (acquisition/fetcher.py): home page, robots, *)
(* sitemap or sitemap index with its children, a probe of sampled sitemap  *)
(* entries, the sensitive paths, and the two checks of the connection.     *)
(*                                                                         *)
(* A page listed by a sitemap is its position in the list, so a list is a  *)
(* count.  The server's answers are chosen as they are needed; a request   *)
(* may fail with an HTTPError, or be refused with InvalidURL.              *)
(***************************************************************************)
EXTENDS Integers, Sequences

CONSTANTS
    Sizes,                 \* how many pages a sitemap may list
    IndexSizes,            \* how many children an index may list
    MaxSitemapChildren,    \* 50
    MaxSitemapLocs,        \* 2000
    SitemapSample,         \* 25
    SensitivePaths         \* how many paths are tried

ASSUME FetchAssumption ==
    /\ Sizes \subseteq Nat
    /\ IndexSizes \subseteq Nat
    /\ MaxSitemapChildren \in Nat
    /\ MaxSitemapLocs \in Nat
    /\ SitemapSample \in Nat /\ SitemapSample >= 2
    /\ SensitivePaths \in Nat

VARIABLES
    stage,      \* what is requested next, "done" or "raised"
    named,      \* robots.txt names a sitemap
    children,   \* the children of the index still to fetch
    locs,       \* the pages listed
    probes,     \* the positions probed, in their order
    paths,      \* the sensitive paths still to try
    sent        \* the requests sent (redirections followed are not counted)

fetchVars == <<stage, named, children, locs, probes, paths, sent>>

FetchInit ==
    /\ stage = "home"
    /\ named = FALSE
    /\ children = 0
    /\ locs = 0
    /\ probes = <<>>
    /\ paths = SensitivePaths
    /\ sent = 0

AtMostLocs(n) == IF n < MaxSitemapLocs THEN n ELSE MaxSitemapLocs

\* Mutant: the head of the list is sampled.
HeadOnly(n) == 1

\* locs[::step][:sample], positions counted from 0.
Step(n) == IF n \div SitemapSample > 1 THEN n \div SitemapSample ELSE 1
Chosen(n) == {p \in 0..(n - 1) : /\ p % Step(n) = 0
                                 /\ p \div Step(n) < SitemapSample}

\* A failed first request skips everything but the checks of the connection.
HomeFails ==
    /\ stage = "home"
    /\ stage' = "checks"
    /\ sent' = sent + 1
    /\ UNCHANGED <<named, children, locs, probes, paths>>

HomeAnswers ==
    /\ stage = "home"
    /\ stage' = "robots"
    /\ sent' = sent + 1
    /\ UNCHANGED <<named, children, locs, probes, paths>>

Robots ==
    /\ stage = "robots"
    /\ named' \in BOOLEAN
    /\ stage' = "sitemap"
    /\ sent' = sent + 1
    /\ UNCHANGED <<children, locs, probes, paths>>

\* No answer, not a 200, or not a sitemap.
NoSitemap ==
    /\ stage = "sitemap"
    /\ stage' = "paths"
    /\ sent' = sent + 1
    /\ UNCHANGED <<named, children, locs, probes, paths>>

Sitemap(n) ==
    /\ stage = "sitemap"
    /\ locs' = AtMostLocs(n)
    /\ stage' = "probe"
    /\ sent' = sent + 1
    /\ UNCHANGED <<named, children, probes, paths>>

\* Mutant: every child of the index is followed.
EveryChild(m) ==
    /\ stage = "sitemap"
    /\ children' = m
    /\ stage' = "children"
    /\ sent' = sent + 1
    /\ UNCHANGED <<named, locs, probes, paths>>

\* The index is followed one level, up to a number of children.
SitemapIndex(m) ==
    /\ stage = "sitemap"
    /\ children' = IF m < MaxSitemapChildren THEN m ELSE MaxSitemapChildren
    /\ stage' = "children"
    /\ sent' = sent + 1
    /\ UNCHANGED <<named, locs, probes, paths>>

\* A child that answers 200 adds its pages, any other adds none.
Child(n) ==
    /\ stage = "children"
    /\ children > 0
    /\ locs < MaxSitemapLocs
    /\ locs' = locs + n
    /\ children' = children - 1
    /\ sent' = sent + 1
    /\ UNCHANGED <<stage, named, probes, paths>>

\* The loop is over, or broken off by the limit; the list is cut to it.
ChildrenDone ==
    /\ stage = "children"
    /\ children = 0 \/ locs >= MaxSitemapLocs
    /\ locs' = AtMostLocs(locs)
    /\ stage' = "probe"
    /\ UNCHANGED <<named, children, probes, paths, sent>>

NextPosition == Len(probes) * Step(locs)

\* A HEAD request, and a GET where the server refuses HEAD.
Probe(requests) ==
    /\ stage = "probe"
    /\ NextPosition \in Chosen(locs)
    /\ probes' = Append(probes, NextPosition)
    /\ sent' = sent + requests
    /\ UNCHANGED <<stage, named, children, locs, paths>>

Probed ==
    /\ stage = "probe"
    /\ NextPosition \notin Chosen(locs)
    /\ stage' = "paths"
    /\ UNCHANGED <<named, children, locs, probes, paths, sent>>

Expose ==
    /\ stage = "paths"
    /\ paths > 0
    /\ paths' = paths - 1
    /\ sent' = sent + 1
    /\ UNCHANGED <<stage, named, children, locs, probes>>

PathsDone ==
    /\ stage = "paths"
    /\ paths = 0
    /\ stage' = "checks"
    /\ UNCHANGED <<named, children, locs, probes, paths, sent>>

\* _https_enforced and _tls_info answer None or False when they fail.
Checks ==
    /\ stage = "checks"
    /\ stage' = "done"
    /\ sent' = sent + 1
    /\ UNCHANGED <<named, children, locs, probes, paths>>

\* The host as the user typed it, a sitemap of robots.txt, a child or an entry
\* that httpx refuses: InvalidURL is no HTTPError, and leaves fetch.
Refuse ==
    /\ \/ stage = "home"
       \/ stage = "sitemap" /\ named
       \/ stage = "children" /\ children > 0 /\ locs < MaxSitemapLocs
       \/ stage = "probe" /\ NextPosition \in Chosen(locs)
    /\ stage' = "raised"
    /\ UNCHANGED <<named, children, locs, probes, paths, sent>>

FetchNext ==
    \/ HomeFails \/ HomeAnswers \/ Robots \/ NoSitemap \/ Refuse
    \/ \E n \in Sizes : Sitemap(n)
    \/ \E m \in IndexSizes : SitemapIndex(m)
    \/ \E n \in Sizes \union {0} : Child(n)
    \/ ChildrenDone \/ Probed \/ Expose \/ PathsDone \/ Checks
    \/ \E requests \in {1, 2} : Probe(requests)

FetchSpec == FetchInit /\ [][FetchNext]_fetchVars

(***************************************************************************)
(* Properties                                                              *)
(***************************************************************************)
FetchStages == {"home", "robots", "sitemap", "children", "probe", "paths",
                "checks", "done", "raised"}

FetchTypeOK ==
    /\ stage \in FetchStages
    /\ named \in BOOLEAN
    /\ children \in 0..MaxSitemapChildren
    /\ locs \in Nat
    /\ probes \in Seq(Nat)
    /\ paths \in 0..SensitivePaths
    /\ sent \in Nat

\* The probe is spread over the sitemap: it is not the head of a long list
\* that is checked, at least the first half is.
SampleCoversHalf ==
    stage \in {"paths", "checks", "done"} /\ locs > 0 =>
      /\ Len(probes) <= SitemapSample
      /\ 2 * probes[Len(probes)] >= locs - 1
=============================================================================
