------------------------------- MODULE Crawl -------------------------------
(***************************************************************************)
(* The bounded crawl (acquisition/crawler.py): breadth first from the home *)
(* page, one request at a time, capped by pages recorded, by click depth   *)
(* and by URLs noticed.                                                    *)
(*                                                                         *)
(* A URL stands for its text without the fragment.  `web` is the site as   *)
(* it answers during the crawl: where a URL redirects to, and the document *)
(* found there.  Any request may fail.                                     *)
(***************************************************************************)
EXTENDS Integers, Sequences, FiniteSets

CONSTANTS
    None,
    Urls,          \* the URLs that the pages link to
    Start,         \* the home page, https://host/
    OnSite,        \* http(s) URLs under the site's registrable domain
    Unparsable,    \* hrefs that urlsplit refuses with a ValueError
    Invalid,       \* URLs that httpx refuses with InvalidURL, no HTTPError
    Webs,          \* the sites to crawl
    MaxPages,      \* max_pages
    MaxDepth,      \* max_depth
    MaxSeen,       \* URLs noticed: max_pages * 4
    MaxFailures    \* bound on the requests that fail

Documents == [html : BOOLEAN, links : Seq(Urls)]

ASSUME UrlsAssumption ==
    /\ None # "answered"
    /\ Start \in Urls
    /\ OnSite \subseteq Urls
    /\ Webs \subseteq [redirect : [Urls -> Urls], body : [Urls -> Documents]]
ASSUME LimitsAssumption ==
    /\ MaxPages \in Nat \ {0}
    /\ MaxDepth \in Nat
    /\ MaxSeen \in Nat \ {0}
    /\ MaxFailures \in Nat

VARIABLES
    web,           \* the site
    queue,         \* URLs to visit, each with its depth
    seen,          \* URLs ever queued
    done,          \* final URLs recorded
    pages,         \* CrawledPage records
    links,         \* the links of the current page still to look at
    here,          \* the depth of the current page
    asked,         \* the requests sent, in their order
    failures,      \* how many of them failed
    crawler        \* "take" | "links" | "done" | "raised"

crawlVars == <<web, queue, seen, done, pages, links, here, asked, failures,
               crawler>>

CrawlInit ==
    /\ web \in Webs
    /\ queue = <<[url |-> Start, depth |-> 0]>>
    /\ seen = {Start}
    /\ done = {}
    /\ pages = <<>>
    /\ links = <<>>
    /\ here = 0
    /\ asked = <<>>
    /\ failures = 0
    /\ crawler = "take"

Entry == Head(queue)       \* the URL to visit, and its depth
Final == web.redirect[Entry.url]
Document == web.body[Final]

\* The loop condition, popleft and the request.
Request ==
    /\ crawler = "take"
    /\ queue # <<>>
    /\ Len(pages) < MaxPages
    /\ queue' = Tail(queue)
    /\ asked' = Append(asked, Entry.url)

\* The site does not answer: the page is recorded, without a status.
Unreachable ==
    /\ Request
    /\ failures < MaxFailures
    /\ Entry.url \notin Invalid
    /\ failures' = failures + 1
    /\ pages' = Append(pages, [url |-> Entry.url, depth |-> Entry.depth,
                               status |-> None])
    /\ UNCHANGED <<web, seen, done, links, here, crawler>>

\* A page met before, under another URL.
Known ==
    /\ Request
    /\ Entry.url \notin Invalid
    /\ Final \in done
    /\ UNCHANGED <<web, seen, done, pages, links, here, failures, crawler>>

\* Mutant: the links of the last level but one are not followed.
RecordShallow ==
    /\ Request
    /\ Entry.url \notin Invalid
    /\ Final \notin done
    /\ done' = done \union {Final}
    /\ pages' = Append(pages, [url |-> Final, depth |-> Entry.depth,
                               status |-> "answered"])
    /\ here' = Entry.depth
    /\ IF Entry.depth + 1 >= MaxDepth \/ ~Document.html
       THEN UNCHANGED <<links, crawler>>
       ELSE links' = Document.links /\ crawler' = "links"
    /\ UNCHANGED <<web, seen, failures>>

Record ==
    /\ Request
    /\ Entry.url \notin Invalid
    /\ Final \notin done
    /\ done' = done \union {Final}
    /\ pages' = Append(pages, [url |-> Final, depth |-> Entry.depth,
                               status |-> "answered"])
    /\ here' = Entry.depth
    /\ IF Entry.depth >= MaxDepth \/ ~Document.html
       THEN UNCHANGED <<links, crawler>>
       ELSE links' = Document.links /\ crawler' = "links"
    /\ UNCHANGED <<web, seen, failures>>

\* Only httpx.HTTPError is caught: an invalid URL ends the crawl, and the run
\* with it.
RefuseRequest ==
    /\ Request
    /\ Entry.url \in Invalid
    /\ crawler' = "raised"
    /\ UNCHANGED <<web, seen, done, pages, links, here, failures>>

\* Mutant: only the pages are limited.
WantedWithoutLimit(link) == link \in OnSite /\ link \notin seen

\* Mutant: a link is new until its page is recorded.
WantedUntilRecorded(link) ==
    /\ link \in OnSite
    /\ link \notin done
    /\ Cardinality(seen) < MaxSeen

\* A link that is on the site and new, while there is room for it.
Wanted(link) ==
    /\ link \in OnSite
    /\ link \notin seen
    /\ Cardinality(seen) < MaxSeen

\* Mutant: the newest link is visited first.
FollowDepthFirst ==
    /\ crawler = "links"
    /\ links # <<>>
    /\ Head(links) \notin Unparsable
    /\ links' = Tail(links)
    /\ IF Wanted(Head(links))
       THEN /\ seen' = seen \union {Head(links)}
            /\ queue' = <<[url |-> Head(links), depth |-> here + 1]>> \o queue
       ELSE UNCHANGED <<seen, queue>>
    /\ UNCHANGED <<web, done, pages, here, asked, failures, crawler>>

Follow ==
    /\ crawler = "links"
    /\ links # <<>>
    /\ Head(links) \notin Unparsable
    /\ links' = Tail(links)
    /\ IF Wanted(Head(links))
       THEN /\ seen' = seen \union {Head(links)}
            /\ queue' = Append(queue, [url |-> Head(links), depth |-> here + 1])
       ELSE UNCHANGED <<seen, queue>>
    /\ UNCHANGED <<web, done, pages, here, asked, failures, crawler>>

RefuseLink ==
    /\ crawler = "links"
    /\ links # <<>>
    /\ Head(links) \in Unparsable
    /\ crawler' = "raised"
    /\ UNCHANGED <<web, queue, seen, done, pages, links, here, asked, failures>>

\* The links of the page are exhausted: the loop goes on.
NextPage ==
    /\ crawler = "links"
    /\ links = <<>>
    /\ crawler' = "take"
    /\ UNCHANGED <<web, queue, seen, done, pages, links, here, asked, failures>>

\* Mutant: reaching the page limit does not end the crawl.
ReturnWhenEmpty ==
    /\ crawler = "take"
    /\ queue = <<>>
    /\ crawler' = "done"
    /\ UNCHANGED <<web, queue, seen, done, pages, links, here, asked, failures>>

Return ==
    /\ crawler = "take"
    /\ queue = <<>> \/ Len(pages) >= MaxPages
    /\ crawler' = "done"
    /\ UNCHANGED <<web, queue, seen, done, pages, links, here, asked, failures>>

CrawlNext ==
    \/ Unreachable \/ Known \/ Record \/ RefuseRequest
    \/ Follow \/ RefuseLink \/ NextPage \/ Return

CrawlSpec == CrawlInit /\ [][CrawlNext]_crawlVars

(***************************************************************************)
(* Properties                                                              *)
(***************************************************************************)
Pages == [url : Urls, depth : Nat, status : {None, "answered"}]

CrawlTypeOK ==
    /\ web \in Webs
    /\ queue \in Seq([url : Urls, depth : Nat])
    /\ seen \subseteq Urls
    /\ done \subseteq Urls
    /\ pages \in Seq(Pages)
    /\ links \in Seq(Urls)
    /\ here \in Nat
    /\ asked \in Seq(Urls)
    /\ failures \in 0..MaxFailures
    /\ crawler \in {"take", "links", "done", "raised"}

\* The site is asked for no URL twice, however its pages link to each other.
AskedOnce == \A i, j \in DOMAIN asked : i # j => asked[i] # asked[j]

Answered == {i \in DOMAIN pages : pages[i].status = "answered"}
Failed(url) ==
    \E i \in DOMAIN pages : pages[i].url = url /\ pages[i].status = None
LinksOf(url) ==
    LET document == web.body[url]
    IN  IF document.html
        THEN {document.links[k] : k \in DOMAIN document.links} \intersect OnSite
        ELSE {}

\* The recorded depth is the click distance among the recorded pages: a page
\* links to it from one click nearer to the home page, and no page that links
\* to it, by a URL that was not lost, is nearer than that.
DepthIsClickDistance ==
    \A j \in Answered :
      /\ \/ pages[j].depth = 0 /\ pages[j].url = web.redirect[Start]
         \/ \E i \in Answered, url \in Urls :
              /\ pages[i].depth + 1 = pages[j].depth
              /\ url \in LinksOf(pages[i].url)
              /\ web.redirect[url] = pages[j].url
      /\ \A i \in Answered : \A url \in LinksOf(pages[i].url) :
           /\ pages[i].depth < MaxDepth
           /\ web.redirect[url] = pages[j].url
           /\ ~Failed(url)
           => pages[j].depth <= pages[i].depth + 1

\* Where the links of some pages lead.
LedTo(urls) == {web.redirect[url] : url \in UNION {LinksOf(u) : u \in urls}}

\* The pages within d clicks of the home page, by the definition of a click.
WithinClicks[d \in 0..MaxDepth] ==
    IF d = 0 THEN {web.redirect[Start]}
    ELSE WithinClicks[d - 1] \union LedTo(WithinClicks[d - 1])

Reachable == WithinClicks[MaxDepth]

\* A crawl that hit no limit and lost no request found every page there is
\* within reach, and nothing else.
CompleteBelowLimits ==
    /\ crawler = "done"
    /\ Len(pages) < MaxPages
    /\ Cardinality(seen) < MaxSeen
    /\ failures = 0
    => {pages[i].url : i \in DOMAIN pages} = Reachable
=============================================================================
