------------------------- MODULE AcquisitionProofs -------------------------
(***************************************************************************)
(* Theorems of Crawl, Fetch and Acquisition, for every site and every      *)
(* value of their constants: how much a run asks, how the sitemap is       *)
(* sampled, that the depth the crawl records is the distance in clicks,    *)
(* and that it finds every page there is when nothing stops it.            *)
(***************************************************************************)
EXTENDS Acquisition, FiniteSetTheorems, Induction

(***************************************************************************)
(* The crawl: what holds of it at every step                               *)
(***************************************************************************)
\* Every URL noticed was asked for or waits in the queue, and none twice.
Accounted ==
    /\ IsFiniteSet(seen)
    /\ Cardinality(seen) = Len(asked) + Len(queue)
    /\ Cardinality(seen) <= MaxSeen
    /\ \A i \in DOMAIN asked : asked[i] \in seen
    /\ \A k \in DOMAIN queue : queue[k].url \in seen
    /\ \A u \in seen : \/ \E i \in DOMAIN asked : asked[i] = u
                       \/ \E k \in DOMAIN queue : queue[k].url = u
    /\ \A k, l \in DOMAIN queue : k # l => queue[k].url # queue[l].url
    /\ \A i \in DOMAIN asked, k \in DOMAIN queue : asked[i] # queue[k].url
    /\ AskedOnce

\* The queue holds one depth and then the next, from that of the last page on.
Levels ==
    /\ \A k \in DOMAIN queue : queue[k].depth <= MaxDepth
                               /\ queue[k].depth <= here + 1
    /\ \A k, l \in DOMAIN queue : k < l => queue[k].depth <= queue[l].depth
    /\ \A i \in DOMAIN pages, k \in DOMAIN queue : pages[i].depth <= queue[k].depth
    /\ \A i, j \in DOMAIN pages : i < j => pages[i].depth <= pages[j].depth
    /\ \A k \in DOMAIN queue : here <= queue[k].depth
    /\ \A i \in DOMAIN pages : pages[i].depth <= MaxDepth

\* The page whose links are looked at is the last one.
Current ==
    crawler = "links" =>
      /\ Len(pages) \in Answered
      /\ pages[Len(pages)].depth = here
      /\ here < MaxDepth
      /\ web.body[pages[Len(pages)].url].html
      /\ \A k \in DOMAIN links :
           \E m \in DOMAIN web.body[pages[Len(pages)].url].links :
             web.body[pages[Len(pages)].url].links[m] = links[k]

\* The final URLs are those of the pages that answered, and each is there once.
Recorded ==
    /\ \A i \in Answered : pages[i].url \in done
    /\ \A u \in done : \E i \in Answered : pages[i].url = u
    /\ \A i, j \in Answered : pages[i].url = pages[j].url => i = j

\* A URL asked for failed, or its page is recorded; unless it was refused.
Settled(u) == Failed(u) \/ web.redirect[u] \in done
AskedSettled ==
    crawler # "raised" => \A i \in DOMAIN asked : Settled(asked[i])

\* Whoever brought a URL there: the home page, or a link one click nearer.
LinkedFrom(url, depth) ==
    \/ depth = 0 /\ url = Start
    \/ \E i \in Answered : /\ pages[i].depth + 1 = depth
                           /\ url \in LinksOf(pages[i].url)
Parented ==
    /\ \A k \in DOMAIN queue : LinkedFrom(queue[k].url, queue[k].depth)
    /\ \A j \in Answered : \E url \in Urls :
         web.redirect[url] = pages[j].url /\ LinkedFrom(url, pages[j].depth)

\* What became of a link of a page: queued in time, asked for in time, dropped
\* because there was no room, still to look at, or the crawl was broken off.
Within(n) ==
    /\ \A j \in DOMAIN pages : pages[j].depth <= n
    /\ \A k \in DOMAIN queue : queue[k].depth <= n
Outcome(i, url) ==
    \/ \E k \in DOMAIN queue : /\ queue[k].url = url
                               /\ queue[k].depth <= pages[i].depth + 1
    \/ Failed(url)
    \/ \E j \in Answered : /\ pages[j].url = web.redirect[url]
                           /\ pages[j].depth <= pages[i].depth + 1
    \/ Cardinality(seen) >= MaxSeen /\ Within(pages[i].depth + 1)
    \/ /\ crawler = "links" /\ i = Len(pages)
       /\ \E k \in DOMAIN links : links[k] = url
    \/ crawler = "raised" /\ \A j \in DOMAIN pages : pages[j].depth <= pages[i].depth + 1
LinksFollowed ==
    \A i \in Answered : \A url \in LinksOf(pages[i].url) :
      pages[i].depth < MaxDepth => Outcome(i, url)

\* What became of the home page: it is the first to be asked for.
HomeFirst ==
    \/ \E k \in DOMAIN queue : queue[k].url = Start /\ queue[k].depth = 0
    \/ Failed(Start)
    \/ \E j \in Answered : pages[j].url = web.redirect[Start] /\ pages[j].depth = 0
    \/ crawler = "raised"

\* A crawl ends with an empty queue, or with its limit of pages; every page
\* that did not answer is a failure that was counted.
Drained == crawler = "done" => queue = <<>> \/ Len(pages) >= MaxPages
Counted == failures = 0 => Answered = DOMAIN pages

CrawlInv ==
    /\ CrawlTypeOK
    /\ Accounted
    /\ Levels
    /\ Current
    /\ Recorded
    /\ AskedSettled
    /\ Parented
    /\ LinksFollowed
    /\ HomeFirst
    /\ Drained
    /\ Counted

(***************************************************************************)
(* Sequences                                                               *)
(***************************************************************************)
\* What is left of a sequence without its head.
LEMMA TailFacts ==
  ASSUME NEW S, NEW q \in Seq(S), q # <<>>
  PROVE  /\ 1 \in DOMAIN q /\ Head(q) = q[1] /\ Head(q) \in S
         /\ Tail(q) \in Seq(S) /\ Len(Tail(q)) = Len(q) - 1
         /\ \A k \in DOMAIN Tail(q) : k + 1 \in DOMAIN q /\ Tail(q)[k] = q[k + 1]
         /\ \A k \in DOMAIN q :
              k # 1 => k - 1 \in DOMAIN Tail(q) /\ Tail(q)[k - 1] = q[k]
  OBVIOUS

\* The elements of a sequence, and their positions.
LEMMA ElementFacts ==
  ASSUME NEW S, NEW q \in Seq(S)
  PROVE  \A k \in DOMAIN q : q[k] \in S /\ k \in Nat /\ 1 <= k /\ k <= Len(q)
  OBVIOUS

\* A sequence with one element more.
LEMMA AppendFacts ==
  ASSUME NEW S, NEW q \in Seq(S), NEW e \in S
  PROVE  /\ Append(q, e) \in Seq(S) /\ Len(Append(q, e)) = Len(q) + 1
         /\ DOMAIN Append(q, e) = 1..(Len(q) + 1) /\ DOMAIN q = 1..Len(q)
         /\ Len(q) \in Nat
         /\ \A k \in DOMAIN q : k \in DOMAIN Append(q, e)
                                /\ Append(q, e)[k] = q[k]
         /\ Append(q, e)[Len(q) + 1] = e
         /\ \A k \in DOMAIN Append(q, e) : k \in DOMAIN q \/ k = Len(q) + 1
  OBVIOUS

(***************************************************************************)
(* Types                                                                   *)
(***************************************************************************)
\* The URL to visit is a URL, and so is where it leads; the document there has
\* links.
LEMMA EntryType ==
  ASSUME CrawlTypeOK, queue # <<>>
  PROVE  /\ Entry = queue[1] /\ Entry \in [url : Urls, depth : Nat]
         /\ Entry.url \in Urls /\ Entry.depth \in Nat
         /\ Final = web.redirect[Entry.url] /\ Final \in Urls
         /\ Document.html \in BOOLEAN /\ Document.links \in Seq(Urls)
<1>1. Entry = queue[1] /\ Entry \in [url : Urls, depth : Nat]
  BY TailFacts DEF CrawlTypeOK, Entry
<1>2. web \in [redirect : [Urls -> Urls], body : [Urls -> Documents]]
  BY UrlsAssumption DEF CrawlTypeOK
<1>3. Final \in Urls BY <1>1, <1>2 DEF Final
<1>4. Document \in Documents BY <1>2, <1>3 DEF Document
<1>5. QED BY <1>1, <1>3, <1>4 DEF Final, Documents

\* The crawl starts well typed, and every step keeps the types.
LEMMA CrawlInitType == CrawlInit => CrawlTypeOK
<1> SUFFICES ASSUME CrawlInit PROVE CrawlTypeOK
  OBVIOUS
<1>1. queue \in Seq([url : Urls, depth : Nat])
  BY UrlsAssumption DEF CrawlInit
<1>2. pages \in Seq(Pages) /\ links \in Seq(Urls) /\ asked \in Seq(Urls)
  BY DEF CrawlInit
<1>3. QED
  BY <1>1, <1>2, UrlsAssumption, LimitsAssumption DEF CrawlInit, CrawlTypeOK

\* A request takes the head of the queue.
LEMMA RequestType ==
  ASSUME CrawlTypeOK, Request
  PROVE  queue' \in Seq([url : Urls, depth : Nat]) /\ asked' \in Seq(Urls)
<1>1. queue # <<>> BY DEF Request
<1>2. Entry.url \in Urls BY <1>1, EntryType
<1>3. asked' \in Seq(Urls) BY <1>2, AppendFacts DEF CrawlTypeOK, Request
<1>4. queue' \in Seq([url : Urls, depth : Nat])
  BY <1>1, TailFacts DEF CrawlTypeOK, Request
<1>5. QED BY <1>3, <1>4

\* Every step keeps the types.
LEMMA CrawlNextType == ASSUME CrawlTypeOK, CrawlNext PROVE CrawlTypeOK'
<1>1. CASE Unreachable
  <2>1. queue # <<>> BY <1>1 DEF Unreachable, Request
  <2>2. [url |-> Entry.url, depth |-> Entry.depth, status |-> None] \in Pages
    BY <2>1, EntryType DEF Pages
  <2>3. pages' \in Seq(Pages)
    BY <1>1, <2>2, AppendFacts DEF CrawlTypeOK, Unreachable
  <2>4. failures' \in 0..MaxFailures
    BY <1>1, LimitsAssumption DEF CrawlTypeOK, Unreachable
  <2>5. QED
    BY <1>1, <2>3, <2>4, RequestType DEF CrawlTypeOK, Unreachable
<1>2. CASE Known BY <1>2, RequestType DEF CrawlTypeOK, Known
<1>3. CASE Record
  <2>1. queue # <<>> BY <1>3 DEF Record, Request
  <2>2. [url |-> Final, depth |-> Entry.depth, status |-> "answered"] \in Pages
    BY <2>1, EntryType DEF Pages
  <2>3. pages' \in Seq(Pages) BY <1>3, <2>2, AppendFacts DEF CrawlTypeOK, Record
  <2>4. here' \in Nat /\ done' \subseteq Urls
    BY <1>3, <2>1, EntryType DEF CrawlTypeOK, Record
  <2>5. links' \in Seq(Urls) /\ crawler' \in {"take", "links", "done", "raised"}
    BY <1>3, <2>1, EntryType DEF CrawlTypeOK, Record
  <2>6. QED
    BY <1>3, <2>3, <2>4, <2>5, RequestType DEF CrawlTypeOK, Record
<1>4. CASE RefuseRequest BY <1>4, RequestType DEF CrawlTypeOK, RefuseRequest
<1>5. CASE Follow
  <2>1. Head(links) \in Urls /\ links' \in Seq(Urls)
    BY <1>5, TailFacts DEF CrawlTypeOK, Follow
  <2>2. [url |-> Head(links), depth |-> here + 1] \in [url : Urls, depth : Nat]
    BY <2>1 DEF CrawlTypeOK
  <2>3. queue' \in Seq([url : Urls, depth : Nat]) /\ seen' \subseteq Urls
    <3>1. CASE Wanted(Head(links))
      <4>1. queue' = Append(queue, [url |-> Head(links), depth |-> here + 1])
            /\ seen' = seen \union {Head(links)}
        BY <1>5, <3>1 DEF Follow
      <4>2. queue \in Seq([url : Urls, depth : Nat]) BY DEF CrawlTypeOK
      <4>3. queue' \in Seq([url : Urls, depth : Nat])
        BY <2>2, <4>1, <4>2, AppendFacts
      <4>4. QED BY <2>1, <4>1, <4>3 DEF CrawlTypeOK
    <3>2. CASE ~Wanted(Head(links)) BY <1>5, <3>2 DEF CrawlTypeOK, Follow
    <3>3. QED BY <3>1, <3>2
  <2>4. QED BY <1>5, <2>1, <2>3 DEF CrawlTypeOK, Follow
<1>6. CASE RefuseLink \/ NextPage \/ Return
  BY <1>6 DEF CrawlTypeOK, RefuseLink, NextPage, Return
<1>7. QED BY <1>1, <1>2, <1>3, <1>4, <1>5, <1>6 DEF CrawlNext

(***************************************************************************)
(* Every URL noticed is asked for once                                     *)
(***************************************************************************)
\* The home page is noticed and waits in the queue.
LEMMA InitAccounted == CrawlInit => Accounted
<1> SUFFICES ASSUME CrawlInit PROVE Accounted
  OBVIOUS
<1>1. IsFiniteSet(seen) /\ Cardinality(seen) = 1
  BY FS_Singleton DEF CrawlInit
<1>2. Len(asked) = 0 /\ Len(queue) = 1 /\ DOMAIN asked = {} /\ DOMAIN queue = {1}
      /\ queue[1].url = Start /\ seen = {Start}
  BY DEF CrawlInit
<1>3. QED BY <1>1, <1>2, LimitsAssumption DEF Accounted, AskedOnce

\* A request moves a URL from the queue to those asked for.
LEMMA RequestAccounted ==
  ASSUME CrawlTypeOK, Accounted, Request, seen' = seen PROVE Accounted'
<1> DEFINE Q == [url : Urls, depth : Nat]
<1>1. queue # <<>> /\ queue \in Seq(Q) /\ asked \in Seq(Urls)
      /\ queue' = Tail(queue) /\ asked' = Append(asked, queue[1].url)
      /\ queue[1].url \in Urls
  BY EntryType DEF Request, CrawlTypeOK
<1>2. /\ 1 \in DOMAIN queue /\ Len(queue') = Len(queue) - 1
      /\ \A k \in DOMAIN queue' : k + 1 \in DOMAIN queue /\ queue'[k] = queue[k + 1]
                                  /\ k \in Nat /\ k # 0
      /\ \A k \in DOMAIN queue :
           k # 1 => k - 1 \in DOMAIN queue' /\ queue'[k - 1] = queue[k]
  BY <1>1, TailFacts
<1>3. /\ Len(asked') = Len(asked) + 1 /\ Len(asked) + 1 \in DOMAIN asked'
      /\ \A i \in DOMAIN asked : i \in DOMAIN asked' /\ asked'[i] = asked[i]
      /\ asked'[Len(asked) + 1] = queue[1].url
      /\ \A i \in DOMAIN asked' : i \in DOMAIN asked \/ i = Len(asked) + 1
  BY <1>1, AppendFacts
<1>4. Cardinality(seen') = Len(asked') + Len(queue')
  <2>1. Len(asked) \in Nat /\ Len(queue) \in Nat BY <1>1
  <2>2. QED BY <1>2, <1>3, <2>1 DEF Accounted
<1>5. \A i \in DOMAIN asked' : asked'[i] \in seen'
  BY <1>2, <1>3 DEF Accounted
<1>6. \A k \in DOMAIN queue' : queue'[k].url \in seen'
  BY <1>2 DEF Accounted
<1>7. \A u \in seen' : \/ \E i \in DOMAIN asked' : asked'[i] = u
                       \/ \E k \in DOMAIN queue' : queue'[k].url = u
  <2> SUFFICES ASSUME NEW u \in seen, ~\E i \in DOMAIN asked' : asked'[i] = u
               PROVE  \E k \in DOMAIN queue' : queue'[k].url = u
    OBVIOUS
  <2>1. PICK k \in DOMAIN queue : queue[k].url = u BY <1>3 DEF Accounted
  <2>2. k # 1 BY <1>3, <2>1
  <2>3. QED BY <1>2, <2>1, <2>2
<1>8. \A k, l \in DOMAIN queue' : k # l => queue'[k].url # queue'[l].url
  <2> SUFFICES ASSUME NEW k \in DOMAIN queue', NEW l \in DOMAIN queue', k # l
               PROVE  queue'[k].url # queue'[l].url
    OBVIOUS
  <2>1. k + 1 # l + 1 BY <1>2
  <2>2. QED BY <1>2, <2>1 DEF Accounted
<1>9. \A i \in DOMAIN asked', k \in DOMAIN queue' : asked'[i] # queue'[k].url
  <2> SUFFICES ASSUME NEW i \in DOMAIN asked', NEW k \in DOMAIN queue'
               PROVE  asked'[i] # queue'[k].url
    OBVIOUS
  <2>1. k + 1 # 1 BY <1>2
  <2>2. CASE i \in DOMAIN asked BY <1>2, <1>3, <2>2 DEF Accounted
  <2>3. CASE i = Len(asked) + 1 BY <1>2, <1>3, <2>1, <2>3 DEF Accounted
  <2>4. QED BY <1>3, <2>2, <2>3
<1>10. AskedOnce'
  <2> SUFFICES ASSUME NEW i \in DOMAIN asked', NEW j \in DOMAIN asked', i # j
               PROVE  asked'[i] # asked'[j]
    BY DEF AskedOnce
  <2>1. \A n \in DOMAIN asked : asked[n] # queue[1].url BY <1>2 DEF Accounted
  <2>2. QED BY <1>3, <2>1 DEF Accounted, AskedOnce
<1>11. QED
  BY <1>4, <1>5, <1>6, <1>7, <1>8, <1>9, <1>10 DEF Accounted

\* A link is followed: it is noticed and queued, or nothing happens.
LEMMA FollowAccounted ==
  ASSUME CrawlTypeOK, Accounted, Follow PROVE Accounted'
<1>1. CASE ~Wanted(Head(links))
  BY <1>1 DEF Accounted, AskedOnce, Follow
<1>2. CASE Wanted(Head(links))
  <2> DEFINE Q == [url : Urls, depth : Nat]
  <2> DEFINE u == Head(links)
  <2> DEFINE e == [url |-> u, depth |-> here + 1]
  <2>1. /\ u \in Urls /\ u \notin seen /\ Cardinality(seen) < MaxSeen
        /\ queue \in Seq(Q) /\ e \in Q /\ e.url = u
        /\ seen' = seen \union {u} /\ queue' = Append(queue, e) /\ asked' = asked
        /\ asked \in Seq(Urls)
    BY <1>2, TailFacts DEF CrawlTypeOK, Follow, Wanted
  <2> HIDE DEF u, e
  <2>2. /\ Len(queue') = Len(queue) + 1 /\ Len(queue) + 1 \in DOMAIN queue'
        /\ \A k \in DOMAIN queue : k \in DOMAIN queue' /\ queue'[k] = queue[k]
        /\ queue'[Len(queue) + 1] = e
        /\ \A k \in DOMAIN queue' : k \in DOMAIN queue \/ k = Len(queue) + 1
    BY <2>1, AppendFacts
  <2>3. /\ IsFiniteSet(seen') /\ Cardinality(seen') = Cardinality(seen) + 1
        /\ Cardinality(seen) \in Nat
    BY <2>1, FS_AddElement, FS_CardinalityType DEF Accounted
  <2>4. Cardinality(seen') = Len(asked') + Len(queue') /\ Cardinality(seen') <= MaxSeen
    <3>1. Len(asked) \in Nat /\ Len(queue) \in Nat BY <2>1
    <3>2. QED BY <2>1, <2>2, <2>3, <3>1, LimitsAssumption DEF Accounted
  <2>5. \A k \in DOMAIN queue' : queue'[k].url \in seen'
    BY <2>1, <2>2 DEF Accounted
  <2>6. \A v \in seen' : \/ \E i \in DOMAIN asked' : asked'[i] = v
                         \/ \E k \in DOMAIN queue' : queue'[k].url = v
    <3> SUFFICES ASSUME NEW v \in seen'
                 PROVE  \/ \E i \in DOMAIN asked' : asked'[i] = v
                        \/ \E k \in DOMAIN queue' : queue'[k].url = v
      OBVIOUS
    <3>1. CASE v = u BY <2>1, <2>2, <3>1
    <3>2. CASE v \in seen BY <2>1, <2>2, <3>2, SMTT(30) DEF Accounted
    <3>3. QED BY <2>1, <3>1, <3>2
  <2>7. \A k, l \in DOMAIN queue' : k # l => queue'[k].url # queue'[l].url
    <3>1. \A k \in DOMAIN queue : queue[k].url # u BY <2>1 DEF Accounted
    <3>2. QED BY <2>1, <2>2, <3>1, SMTT(30) DEF Accounted
  <2>8. \A i \in DOMAIN asked', k \in DOMAIN queue' : asked'[i] # queue'[k].url
    <3>1. \A i \in DOMAIN asked : asked[i] # u BY <2>1 DEF Accounted
    <3>2. QED BY <2>1, <2>2, <3>1 DEF Accounted
  <2>9. AskedOnce' BY <2>1 DEF Accounted, AskedOnce
  <2>10. \A i \in DOMAIN asked' : asked'[i] \in seen' BY <2>1 DEF Accounted
  <2>11. QED
    BY <2>3, <2>4, <2>5, <2>6, <2>7, <2>8, <2>9, <2>10 DEF Accounted
<1>3. QED BY <1>1, <1>2

\* Every step keeps the account.
LEMMA NextAccounted ==
  ASSUME CrawlTypeOK, Accounted, CrawlNext PROVE Accounted'
<1>1. CASE Unreachable \/ Known \/ Record \/ RefuseRequest
  BY <1>1, RequestAccounted DEF Unreachable, Known, Record, RefuseRequest
<1>2. CASE Follow BY <1>2, FollowAccounted
<1>3. CASE RefuseLink \/ NextPage \/ Return
  BY <1>3 DEF Accounted, AskedOnce, RefuseLink, NextPage, Return
<1>4. QED BY <1>1, <1>2, <1>3 DEF CrawlNext

(***************************************************************************)
(* The steps, as the rest of the invariant sees them                       *)
(***************************************************************************)
\* A request takes the first URL of the queue away.
LEMMA RequestFacts ==
  ASSUME CrawlTypeOK, Request
  PROVE  /\ 1 \in DOMAIN queue /\ Entry = queue[1]
         /\ Entry.url \in Urls /\ Entry.depth \in Nat
         /\ Final = web.redirect[Entry.url] /\ Final \in Urls
         /\ \A k \in DOMAIN queue' : /\ k + 1 \in DOMAIN queue /\ 1 < k + 1
                                     /\ queue'[k] = queue[k + 1] /\ k \in Nat
         /\ \A k \in DOMAIN queue :
              k # 1 => k - 1 \in DOMAIN queue' /\ queue'[k - 1] = queue[k]
         /\ \A i \in DOMAIN asked' :
              \/ i \in DOMAIN asked /\ asked'[i] = asked[i]
              \/ asked'[i] = Entry.url
<1>1. /\ queue # <<>> /\ queue \in Seq([url : Urls, depth : Nat])
      /\ asked \in Seq(Urls) /\ queue' = Tail(queue)
      /\ asked' = Append(asked, Entry.url)
  BY DEF Request, CrawlTypeOK
<1>2. /\ Entry = queue[1] /\ Entry.url \in Urls /\ Entry.depth \in Nat
      /\ Final = web.redirect[Entry.url] /\ Final \in Urls
  BY <1>1, EntryType
<1>3. /\ \A k \in DOMAIN queue' : k + 1 \in DOMAIN queue /\ queue'[k] = queue[k + 1]
      /\ \A k \in DOMAIN queue :
           k # 1 => k - 1 \in DOMAIN queue' /\ queue'[k - 1] = queue[k]
      /\ 1 \in DOMAIN queue
  BY <1>1, TailFacts
<1>4. queue' \in Seq([url : Urls, depth : Nat]) BY <1>1, TailFacts
<1>5. \A k \in DOMAIN queue' : 1 < k + 1 /\ k \in Nat BY <1>4
<1>6. \A i \in DOMAIN asked' : \/ i \in DOMAIN asked /\ asked'[i] = asked[i]
                               \/ asked'[i] = Entry.url
  BY <1>1, <1>2, AppendFacts
<1>7. QED BY <1>2, <1>3, <1>5, <1>6

\* A page is added behind the others.
LEMMA PageFacts ==
  ASSUME CrawlTypeOK, NEW page \in Pages, pages' = Append(pages, page)
  PROVE  /\ Len(pages) \in Nat /\ Len(pages') = Len(pages) + 1
         /\ Len(pages') \in DOMAIN pages' /\ pages'[Len(pages')] = page
         /\ Len(pages') \notin DOMAIN pages
         /\ \A i \in DOMAIN pages : /\ i \in DOMAIN pages' /\ pages'[i] = pages[i]
                                    /\ i \in Nat /\ i < Len(pages')
         /\ \A i \in DOMAIN pages' : i \in DOMAIN pages \/ i = Len(pages')
<1>1. pages \in Seq(Pages) BY DEF CrawlTypeOK
<1>2. QED BY <1>1, AppendFacts

\* The pages that the two actions add.
LEMMA NewPage ==
  ASSUME CrawlTypeOK, Unreachable \/ Record
  PROVE  \E page \in Pages :
           /\ pages' = Append(pages, page) /\ page.depth = Entry.depth
           /\ Unreachable => page.url = Entry.url /\ page.status = None
           /\ Record => page.url = Final /\ page.status = "answered"
<1>1. Entry.url \in Urls /\ Entry.depth \in Nat /\ Final \in Urls
  BY RequestFacts DEF Unreachable, Record
<1>2. CASE Unreachable
  <2> DEFINE page == [url |-> Entry.url, depth |-> Entry.depth, status |-> None]
  <2>1. page \in Pages BY <1>1 DEF Pages
  <2>2. ~Record BY <1>2 DEF Unreachable, Record
  <2>3. QED BY <1>2, <2>1, <2>2 DEF Unreachable
<1>3. CASE Record
  <2> DEFINE page == [url |-> Final, depth |-> Entry.depth, status |-> "answered"]
  <2>1. page \in Pages BY <1>1 DEF Pages
  <2>2. ~Unreachable BY <1>3 DEF Unreachable, Record
  <2>3. QED BY <1>3, <2>1, <2>2 DEF Record
<1>4. QED BY <1>2, <1>3

\* A wanted link is noticed and queued, one click further than the page.
LEMMA FollowFacts ==
  ASSUME CrawlTypeOK, Follow, Wanted(Head(links))
  PROVE  \E e \in [url : Urls, depth : Nat] :
           /\ e.url = Head(links) /\ e.depth = here + 1
           /\ Len(queue') = Len(queue) + 1 /\ Len(queue) \in Nat
           /\ Len(queue') \in DOMAIN queue' /\ queue'[Len(queue')] = e
           /\ \A k \in DOMAIN queue :
                /\ k \in DOMAIN queue' /\ queue'[k] = queue[k]
                /\ k \in Nat /\ k < Len(queue')
           /\ \A k \in DOMAIN queue' : k \in DOMAIN queue \/ k = Len(queue')
<1> DEFINE e == [url |-> Head(links), depth |-> here + 1]
<1>1. Head(links) \in Urls BY TailFacts DEF CrawlTypeOK, Follow
<1>2. e \in [url : Urls, depth : Nat] /\ e.url = Head(links) /\ e.depth = here + 1
  BY <1>1 DEF CrawlTypeOK
<1>3. queue' = Append(queue, e) BY DEF Follow
<1>4. queue \in Seq([url : Urls, depth : Nat]) BY DEF CrawlTypeOK
<1> HIDE DEF e
<1>5. QED BY <1>2, <1>3, <1>4, AppendFacts

(***************************************************************************)
(* The levels of the search                                                *)
(***************************************************************************)
\* Depths are numbers.
LEMMA DepthTypes ==
  ASSUME CrawlTypeOK
  PROVE  /\ here \in Nat /\ MaxDepth \in Nat
         /\ \A k \in DOMAIN queue : queue[k].depth \in Nat /\ k \in Nat
         /\ \A i \in DOMAIN pages : pages[i].depth \in Nat /\ i \in Nat
<1>1. queue \in Seq([url : Urls, depth : Nat]) /\ pages \in Seq(Pages)
  BY DEF CrawlTypeOK
<1>2. \A k \in DOMAIN queue : queue[k] \in [url : Urls, depth : Nat] /\ k \in Nat
  BY <1>1, ElementFacts
<1>3. \A i \in DOMAIN pages : pages[i] \in Pages /\ i \in Nat BY <1>1, ElementFacts
<1>4. QED BY <1>2, <1>3, LimitsAssumption DEF CrawlTypeOK, Pages

\* Every step keeps the levels.
LEMMA NextLevels ==
  ASSUME CrawlTypeOK, Levels, Current, CrawlNext PROVE Levels'
<1>1. CASE Known \/ RefuseRequest
  <2>1. Request /\ UNCHANGED <<here, pages>> BY <1>1 DEF Known, RefuseRequest
  <2>2. QED BY <2>1, RequestFacts, DepthTypes DEF Levels
<1>2. CASE Unreachable \/ Record
  <2>1. PICK page \in Pages :
          pages' = Append(pages, page) /\ page.depth = Entry.depth
    BY <1>2, NewPage
  <2>2. Request /\ here' \in {here, Entry.depth} BY <1>2 DEF Unreachable, Record
  <2>3. \A k \in DOMAIN queue' :
          /\ queue'[k].depth \in Nat /\ queue'[k].depth <= MaxDepth
          /\ queue'[k].depth <= here + 1 /\ here <= Entry.depth
          /\ Entry.depth <= queue'[k].depth
    BY <2>2, RequestFacts, DepthTypes DEF Levels
  <2>4. \A k, l \in DOMAIN queue' : k < l => queue'[k].depth <= queue'[l].depth
    BY <2>2, RequestFacts, DepthTypes DEF Levels
  <2>5. \A i \in DOMAIN pages : pages[i].depth <= Entry.depth
    BY <2>2, RequestFacts, DepthTypes DEF Levels
  <2>6. Entry.depth <= MaxDepth /\ Entry.depth \in Nat
    BY <2>2, RequestFacts, DepthTypes DEF Levels
  <2>7. \A i \in DOMAIN pages' :
          /\ pages'[i].depth <= Entry.depth /\ pages'[i].depth \in Nat
          /\ pages'[i].depth <= MaxDepth
    BY <2>1, <2>5, <2>6, PageFacts, DepthTypes DEF Levels
  <2>8. \A i, j \in DOMAIN pages' : i < j => pages'[i].depth <= pages'[j].depth
    <3> SUFFICES ASSUME NEW i \in DOMAIN pages', NEW j \in DOMAIN pages', i < j
                 PROVE  pages'[i].depth <= pages'[j].depth
      OBVIOUS
    <3>1. CASE j \in DOMAIN pages
      <4>1. i \in DOMAIN pages BY <2>1, <3>1, PageFacts
      <4>2. QED BY <2>1, <3>1, <4>1, PageFacts DEF Levels
    <3>2. CASE j = Len(pages') BY <2>1, <2>7, <3>2, PageFacts
    <3>3. QED BY <2>1, <3>1, <3>2, PageFacts
  <2>9. \A k \in DOMAIN queue' :
          here' <= queue'[k].depth /\ queue'[k].depth <= here' + 1
    BY <2>2, <2>3, <2>6, DepthTypes
  <2>10. \A i \in DOMAIN pages', k \in DOMAIN queue' :
           pages'[i].depth <= queue'[k].depth
    BY <2>3, <2>6, <2>7
  <2>11. QED BY <2>3, <2>4, <2>7, <2>8, <2>9, <2>10 DEF Levels
<1>3. CASE Follow /\ Wanted(Head(links))
  <2>1. PICK e \in [url : Urls, depth : Nat] :
          /\ e.depth = here + 1
          /\ Len(queue') \in DOMAIN queue' /\ queue'[Len(queue')] = e
          /\ \A k \in DOMAIN queue :
               /\ k \in DOMAIN queue' /\ queue'[k] = queue[k]
               /\ k \in Nat /\ k < Len(queue')
          /\ \A k \in DOMAIN queue' : k \in DOMAIN queue \/ k = Len(queue')
          /\ Len(queue') \in Nat
    BY <1>3, FollowFacts
  <2>2. UNCHANGED <<here, pages>> /\ crawler = "links" BY <1>3 DEF Follow
  <2>3. here + 1 <= MaxDepth /\ here \in Nat BY <2>2, DepthTypes DEF Current
  <2>4. \A i \in DOMAIN pages : pages[i].depth <= here
    <3> SUFFICES ASSUME NEW i \in DOMAIN pages PROVE pages[i].depth <= here
      OBVIOUS
    <3>1. /\ Len(pages) \in DOMAIN pages /\ pages[Len(pages)].depth = here
          /\ i = Len(pages) \/ i < Len(pages)
      BY <2>2 DEF Current, Answered, CrawlTypeOK
    <3>2. QED BY <3>1, DepthTypes DEF Levels
  <2>5. \A k \in DOMAIN queue' :
          /\ queue'[k].depth <= MaxDepth /\ queue'[k].depth <= here + 1
          /\ here <= queue'[k].depth
    BY <2>1, <2>3, DepthTypes DEF Levels
  <2>6. \A k, l \in DOMAIN queue' : k < l => queue'[k].depth <= queue'[l].depth
    <3> SUFFICES ASSUME NEW k \in DOMAIN queue', NEW l \in DOMAIN queue', k < l
                 PROVE  queue'[k].depth <= queue'[l].depth
      OBVIOUS
    <3>1. CASE l \in DOMAIN queue
      <4>1. k \in DOMAIN queue BY <2>1, <3>1
      <4>2. QED BY <2>1, <3>1, <4>1 DEF Levels
    <3>2. CASE l = Len(queue') BY <2>1, <2>5, <3>2
    <3>3. QED BY <2>1, <3>1, <3>2
  <2>7. \A i \in DOMAIN pages, k \in DOMAIN queue' :
          pages[i].depth <= queue'[k].depth
    BY <2>1, <2>3, <2>4, DepthTypes DEF Levels
  <2>8. QED BY <2>2, <2>5, <2>6, <2>7 DEF Levels
<1>4. CASE Follow /\ ~Wanted(Head(links)) BY <1>4 DEF Follow, Levels
<1>5. CASE RefuseLink \/ NextPage \/ Return
  BY <1>5 DEF Levels, RefuseLink, NextPage, Return
<1>6. QED BY <1>1, <1>2, <1>3, <1>4, <1>5 DEF CrawlNext

(***************************************************************************)
(* The pages and the URLs asked for                                        *)
(***************************************************************************)
\* The site does not change, and pages are only added: what was answered, what
\* failed and where a URL is linked stays so.
LEMMA PagesGrow ==
  ASSUME CrawlTypeOK, CrawlNext
  PROVE  /\ web' = web
         /\ \A i \in DOMAIN pages : i \in DOMAIN pages' /\ pages'[i] = pages[i]
         /\ \A i \in Answered : i \in Answered' /\ pages'[i] = pages[i]
         /\ \A i \in Answered' :
              \/ i \in Answered /\ pages'[i] = pages[i]
              \/ Record /\ i = Len(pages')
         /\ \A u : Failed(u) => Failed(u)'
         /\ \A u : LinksOf(u)' = LinksOf(u)
         /\ \A u, d : LinkedFrom(u, d) => LinkedFrom(u, d)'
<1>1. web' = web
  BY DEF CrawlNext, Unreachable, Known, Record, RefuseRequest, Follow, RefuseLink,
         NextPage, Return
<1>2. /\ \A i \in DOMAIN pages : i \in DOMAIN pages' /\ pages'[i] = pages[i]
      /\ \A i \in Answered' : \/ i \in Answered /\ pages'[i] = pages[i]
                              \/ Record /\ i = Len(pages')
  <2>1. CASE Unreachable \/ Record
    <3>1. PICK page \in Pages :
            /\ pages' = Append(pages, page)
            /\ Unreachable => page.status = None
      BY <2>1, NewPage
    <3>2. \A i \in DOMAIN pages : i \in DOMAIN pages' /\ pages'[i] = pages[i]
      BY <3>1, PageFacts
    <3>3. pages'[Len(pages')] = page BY <3>1, PageFacts
    <3>4. \A i \in DOMAIN pages' : i \in DOMAIN pages \/ i = Len(pages')
      BY <3>1, PageFacts
    <3>5. QED BY <2>1, <3>1, <3>2, <3>3, <3>4, UrlsAssumption DEF Answered
  <2>2. CASE ~(Unreachable \/ Record)
    <3>1. pages' = pages
      BY <2>2 DEF CrawlNext, Known, RefuseRequest, Follow, RefuseLink, NextPage, Return
    <3>2. QED BY <3>1 DEF Answered
  <2>3. QED BY <2>1, <2>2
<1>3. \A i \in Answered : i \in Answered' /\ pages'[i] = pages[i]
  BY <1>2 DEF Answered
<1>4. \A u : Failed(u) => Failed(u)' BY <1>2 DEF Failed
<1>5. \A u : LinksOf(u)' = LinksOf(u) BY <1>1 DEF LinksOf
<1>6. \A u, d : LinkedFrom(u, d) => LinkedFrom(u, d)'
  BY <1>3, <1>5 DEF LinkedFrom
<1>7. QED BY <1>1, <1>2, <1>3, <1>4, <1>5, <1>6

\* The links that are looked at are those of the last page.
LEMMA NextCurrent ==
  ASSUME CrawlTypeOK, Current, CrawlNext PROVE Current'
<1>1. CASE Record /\ crawler' = "links"
  <2>1. PICK page \in Pages :
          /\ pages' = Append(pages, page) /\ page.depth = Entry.depth
          /\ page.url = Final /\ page.status = "answered"
    BY <1>1, NewPage
  <2>2. /\ crawler = "take" /\ here' = Entry.depth /\ Entry.depth < MaxDepth
        /\ Document.html /\ links' = Document.links /\ web' = web
    <3>1. Entry.depth \in Nat /\ MaxDepth \in Nat
      BY <1>1, RequestFacts, LimitsAssumption DEF Record
    <3>2. crawler = "take" BY <1>1 DEF Record, Request
    <3>3. ~(Entry.depth >= MaxDepth \/ ~Document.html)
      BY <1>1, <3>2 DEF Record
    <3>4. QED BY <1>1, <3>1, <3>2, <3>3 DEF Record
  <2>3. Len(pages') \in DOMAIN pages' /\ pages'[Len(pages')] = page
    BY <2>1, PageFacts
  <2>4. Len(pages') \in Answered' BY <2>1, <2>3 DEF Answered
  <2>5. Document = web.body[page.url] BY <2>1 DEF Document
  <2>6. QED BY <2>1, <2>2, <2>3, <2>4, <2>5 DEF Current
<1>2. CASE Follow
  <2>1. links' = Tail(links) /\ links \in Seq(Urls) /\ links # <<>>
        /\ UNCHANGED <<web, pages, here, crawler>>
    BY <1>2 DEF Follow, CrawlTypeOK
  <2>2. \A k \in DOMAIN links' : k + 1 \in DOMAIN links /\ links'[k] = links[k + 1]
    BY <2>1, TailFacts
  <2>3. QED BY <2>1, <2>2 DEF Current, Answered
<1>3. CASE CrawlNext /\ ~Follow /\ ~(Record /\ crawler' = "links")
  <2>1. crawler' # "links"
    BY <1>3 DEF CrawlNext, Request, Unreachable, Known, Record, RefuseRequest,
                RefuseLink, NextPage, Return
  <2>2. QED BY <2>1 DEF Current
<1>4. QED BY <1>1, <1>2, <1>3

\* A final URL is recorded with its page, and once.
LEMMA NextRecorded ==
  ASSUME CrawlTypeOK, Recorded, CrawlNext PROVE Recorded'
<1>1. CASE Record
  <2>1. PICK page \in Pages :
          /\ pages' = Append(pages, page)
          /\ page.url = Final /\ page.status = "answered"
    BY <1>1, NewPage
  <2>2. Final \notin done /\ done' = done \union {Final} BY <1>1 DEF Record
  <2>3. Len(pages') \in Answered' /\ pages'[Len(pages')].url = Final
    BY <2>1, PageFacts DEF Answered
  <2>4. QED BY <2>2, <2>3, PagesGrow DEF Recorded
<1>2. CASE ~Record
  <2>1. done' = done
    BY <1>2 DEF CrawlNext, Unreachable, Known, RefuseRequest, Follow, RefuseLink,
                NextPage, Return
  <2>2. QED BY <1>2, <2>1, PagesGrow DEF Recorded
<1>3. QED BY <1>1, <1>2

\* A URL asked for fails, is known or is recorded, or ends the crawl.
LEMMA NextAskedSettled ==
  ASSUME CrawlTypeOK, AskedSettled, CrawlNext PROVE AskedSettled'
<1>1. done \subseteq done'
  BY DEF CrawlNext, Unreachable, Known, Record, RefuseRequest, Follow, RefuseLink,
         NextPage, Return
<1>2. \A u : Settled(u) => Settled(u)' BY <1>1, PagesGrow DEF Settled
<1>3. CASE Unreachable \/ Known \/ Record
  <2>1. Request /\ crawler = "take"
    BY <1>3 DEF Unreachable, Known, Record, Request
  <2>2. PICK u : u = Entry.url OBVIOUS
  <2>3. CASE Unreachable
    <3>1. PICK page \in Pages : /\ pages' = Append(pages, page)
                                /\ page.url = u /\ page.status = None
      BY <2>2, <2>3, NewPage
    <3>2. Len(pages') \in DOMAIN pages' /\ pages'[Len(pages')] = page
      BY <3>1, PageFacts
    <3>3. Failed(u)' BY <3>1, <3>2 DEF Failed
    <3>4. QED BY <1>2, <2>1, <2>2, <3>3, RequestFacts DEF AskedSettled, Settled
  <2>4. CASE Known \/ Record
    <3>1. (web.redirect[u])' \in done'
      BY <2>1, <2>2, <2>4, RequestFacts DEF Known, Record
    <3>2. Settled(u)' BY <3>1 DEF Settled
    <3>3. QED BY <1>2, <2>1, <2>2, <3>2, RequestFacts DEF AskedSettled
  <2>5. QED BY <1>3, <2>3, <2>4
<1>4. CASE RefuseRequest \/ RefuseLink
  BY <1>4 DEF AskedSettled, RefuseRequest, RefuseLink
<1>5. CASE Follow \/ NextPage \/ Return
  <2>1. asked' = asked /\ crawler # "raised" BY <1>5 DEF Follow, NextPage, Return
  <2>2. QED BY <1>2, <2>1 DEF AskedSettled
<1>6. QED BY <1>3, <1>4, <1>5 DEF CrawlNext

(***************************************************************************)
(* The depth is the distance in clicks                                     *)
(***************************************************************************)
\* Whatever is queued or recorded was linked from a page one click nearer.
LEMMA NextParented ==
  ASSUME CrawlTypeOK, Parented, Current, CrawlNext PROVE Parented'
<1>1. (\A k \in DOMAIN queue : LinkedFrom(queue[k].url, queue[k].depth))'
  <2>1. CASE Follow /\ Wanted(Head(links))
    <3>1. PICK e \in [url : Urls, depth : Nat] :
            /\ e.url = Head(links) /\ e.depth = here + 1
            /\ queue'[Len(queue')] = e
            /\ \A k \in DOMAIN queue : queue'[k] = queue[k]
            /\ \A k \in DOMAIN queue' : k \in DOMAIN queue \/ k = Len(queue')
      BY <2>1, FollowFacts
    <3>2. /\ crawler = "links" /\ links \in Seq(Urls) /\ links # <<>>
          /\ e.url \in OnSite
      BY <2>1, <3>1 DEF Follow, Wanted, CrawlTypeOK
    <3>3. 1 \in DOMAIN links /\ e.url = links[1] BY <3>1, <3>2, TailFacts
    <3>4. e.url \in LinksOf(pages[Len(pages)].url)
      BY <3>2, <3>3 DEF Current, LinksOf
    <3>5. LinkedFrom(e.url, e.depth) BY <3>1, <3>2, <3>4 DEF Current, LinkedFrom
    <3>6. \A k \in DOMAIN queue' : LinkedFrom(queue'[k].url, queue'[k].depth)
      BY <3>1, <3>5 DEF Parented
    <3>7. QED BY <3>6, PagesGrow
  <2>2. CASE Unreachable \/ Known \/ Record \/ RefuseRequest
    <3>1. Request BY <2>2 DEF Unreachable, Known, Record, RefuseRequest
    <3>2. \A k \in DOMAIN queue' : LinkedFrom(queue'[k].url, queue'[k].depth)
      BY <3>1, RequestFacts DEF Parented
    <3>3. QED BY <3>2, PagesGrow
  <2>3. CASE queue' = queue BY <2>3, PagesGrow DEF Parented
  <2>4. QED
    BY <2>1, <2>2, <2>3 DEF CrawlNext, Follow, RefuseLink, NextPage, Return
<1>2. (\A j \in Answered : \E url \in Urls :
         web.redirect[url] = pages[j].url /\ LinkedFrom(url, pages[j].depth))'
  <2> SUFFICES ASSUME NEW j \in Answered'
               PROVE  (\E url \in Urls : /\ web.redirect[url] = pages[j].url
                                         /\ LinkedFrom(url, pages[j].depth))'
    OBVIOUS
  <2>1. CASE j \in Answered /\ pages'[j] = pages[j]
    <3>1. PICK url \in Urls :
            web.redirect[url] = pages[j].url /\ LinkedFrom(url, pages[j].depth)
      BY <2>1 DEF Parented
    <3>2. QED BY <2>1, <3>1, PagesGrow
  <2>2. CASE Record /\ j = Len(pages')
    <3>1. PICK page \in Pages : /\ pages' = Append(pages, page)
                                /\ page.depth = Entry.depth /\ page.url = Final
      BY <2>2, NewPage
    <3>2. pages'[j] = page BY <2>2, <3>1, PageFacts
    <3>3. /\ Entry.url \in Urls /\ Entry = queue[1] /\ 1 \in DOMAIN queue
          /\ Final = web.redirect[Entry.url]
      BY <2>2, RequestFacts DEF Record
    <3>4. LinkedFrom(Entry.url, page.depth) BY <3>1, <3>3 DEF Parented
    <3>5. QED BY <3>1, <3>2, <3>3, <3>4, PagesGrow
  <2>3. QED BY <2>1, <2>2, PagesGrow
<1>3. QED BY <1>1, <1>2 DEF Parented

\* While the links of a page are looked at, no page is deeper.
LEMMA CurrentDeepest ==
  ASSUME CrawlTypeOK, Levels, Current, crawler = "links"
  PROVE  /\ Len(pages) \in DOMAIN pages /\ pages[Len(pages)].depth = here
         /\ \A j \in DOMAIN pages : pages[j].depth <= here
<1>1. Len(pages) \in DOMAIN pages /\ pages[Len(pages)].depth = here
  BY DEF Current, Answered
<1>2. ASSUME NEW j \in DOMAIN pages PROVE pages[j].depth <= here
  <2>1. j = Len(pages) \/ j < Len(pages)
    BY ElementFacts DEF CrawlTypeOK
  <2>2. QED BY <1>1, <2>1, DepthTypes DEF Levels
<1>3. QED BY <1>1, <1>2

\* The links of a new page are still to look at.
LEMMA NewPageOutcome ==
  ASSUME CrawlTypeOK, CrawlNext, Record, NEW url,
         NEW i, i = Len(pages'), (url \in LinksOf(pages[i].url))',
         (pages[i].depth < MaxDepth)'
  PROVE  Outcome(i, url)'
<1>1. PICK page \in Pages : /\ pages' = Append(pages, page)
                            /\ page.depth = Entry.depth /\ page.url = Final
  BY NewPage
<1>2. pages'[i] = page BY <1>1, PageFacts
<1>3. url \in LinksOf(Final) BY <1>1, <1>2, PagesGrow
<1>4. Document.html /\ \E m \in DOMAIN Document.links : Document.links[m] = url
  BY <1>3 DEF LinksOf, Document
<1>5. Entry.depth < MaxDepth /\ Entry.depth \in Nat /\ MaxDepth \in Nat
  BY <1>1, <1>2, RequestFacts, LimitsAssumption DEF Record
<1>6. ~(Entry.depth >= MaxDepth \/ ~Document.html) BY <1>4, <1>5
<1>7. links' = Document.links /\ crawler' = "links" BY <1>6 DEF Record
<1>8. QED BY <1>4, <1>7 DEF Outcome

\* What a request makes of a queued link.
LEMMA RequestOutcome ==
  ASSUME CrawlTypeOK, CrawlNext, Levels, Recorded, NEW i \in Answered, NEW url,
         Unreachable \/ Known \/ Record \/ RefuseRequest,
         \E k \in DOMAIN queue : /\ queue[k].url = url
                                 /\ queue[k].depth <= pages[i].depth + 1
  PROVE  Outcome(i, url)'
<1>1. Request BY DEF Unreachable, Known, Record, RefuseRequest
<1>2. pages'[i] = pages[i] /\ i \in DOMAIN pages BY PagesGrow DEF Answered
<1>3. PICK k \in DOMAIN queue :
        queue[k].url = url /\ queue[k].depth <= pages[i].depth + 1
  OBVIOUS
<1>4. CASE k # 1
  <2>1. k - 1 \in DOMAIN queue' /\ queue'[k - 1] = queue[k]
    BY <1>1, <1>4, RequestFacts
  <2>2. QED BY <1>2, <1>3, <2>1 DEF Outcome
<1>5. CASE k = 1
  <2>1. /\ Entry = queue[1] /\ Entry.url = url /\ Entry.depth <= pages[i].depth + 1
        /\ Final = web.redirect[url]
    BY <1>1, <1>3, <1>5, RequestFacts
  <2>2. \A j \in DOMAIN pages : pages[j].depth <= pages[i].depth + 1
    BY <1>2, <1>3, <1>5, DepthTypes DEF Levels
  <2>3. CASE Unreachable
    <3>1. PICK page \in Pages : /\ pages' = Append(pages, page)
                                /\ page.url = url /\ page.status = None
      BY <2>1, <2>3, NewPage
    <3>2. Failed(url)' BY <3>1, PageFacts DEF Failed
    <3>3. QED BY <3>2 DEF Outcome
  <2>4. CASE Known
    <3>1. PICK j \in Answered : pages[j].url = web.redirect[url]
      BY <2>1, <2>4 DEF Known, Recorded
    <3>2. pages[j].depth <= pages[i].depth + 1 BY <2>2 DEF Answered
    <3>3. QED BY <1>2, <3>1, <3>2, PagesGrow DEF Outcome
  <2>5. CASE Record
    <3>1. PICK page \in Pages :
            /\ pages' = Append(pages, page) /\ page.depth = Entry.depth
            /\ page.url = Final /\ page.status = "answered"
      BY <2>5, NewPage
    <3>2. Len(pages') \in Answered' /\ pages'[Len(pages')] = page
      BY <3>1, PageFacts DEF Answered
    <3>3. QED BY <1>2, <2>1, <3>1, <3>2, PagesGrow DEF Outcome
  <2>6. CASE RefuseRequest
    <3>1. crawler' = "raised" /\ pages' = pages BY <2>6 DEF RefuseRequest
    <3>2. QED BY <2>2, <3>1 DEF Outcome
  <2>7. QED BY <2>3, <2>4, <2>5, <2>6
<1>6. QED BY <1>4, <1>5

\* Where there was no room for a link, nothing deeper comes afterwards.
LEMMA FullOutcome ==
  ASSUME CrawlTypeOK, CrawlNext, Accounted, NEW i \in Answered, NEW url,
         Cardinality(seen) >= MaxSeen, Within(pages[i].depth + 1)
  PROVE  Outcome(i, url)'
<1>1. pages'[i] = pages[i] /\ i \in DOMAIN pages BY PagesGrow DEF Answered
<1>2. PICK n : n = pages[i].depth + 1 OBVIOUS
<1>3. Cardinality(seen) \in Nat /\ MaxSeen \in Nat
  BY FS_CardinalityType, LimitsAssumption DEF Accounted
<1>4. seen' = seen /\ Within(n)'
  <2>1. CASE Unreachable \/ Record
    <3>1. PICK page \in Pages :
            pages' = Append(pages, page) /\ page.depth = Entry.depth
      BY <2>1, NewPage
    <3>2. Request /\ seen' = seen BY <2>1 DEF Unreachable, Record
    <3>3. Entry.depth <= n BY <1>2, <3>2, RequestFacts DEF Within
    <3>4. \A j \in DOMAIN pages' : pages'[j].depth <= n
      BY <1>2, <3>1, <3>3, PageFacts DEF Within
    <3>5. \A k \in DOMAIN queue' : queue'[k].depth <= n
      BY <1>2, <3>2, RequestFacts DEF Within
    <3>6. QED BY <3>2, <3>4, <3>5 DEF Within
  <2>2. CASE Known \/ RefuseRequest
    <3>1. Request /\ seen' = seen /\ pages' = pages
      BY <2>2 DEF Known, RefuseRequest
    <3>2. \A k \in DOMAIN queue' : queue'[k].depth <= n
      BY <1>2, <3>1, RequestFacts DEF Within
    <3>3. QED BY <1>2, <3>1, <3>2 DEF Within
  <2>3. CASE Follow \/ RefuseLink \/ NextPage \/ Return
    <3>1. ~Wanted(Head(links)) BY <1>3 DEF Wanted
    <3>2. seen' = seen /\ queue' = queue /\ pages' = pages
      BY <2>3, <3>1 DEF Follow, RefuseLink, NextPage, Return
    <3>3. QED BY <1>2, <3>2 DEF Within
  <2>4. QED BY <2>1, <2>2, <2>3 DEF CrawlNext
<1>5. QED BY <1>1, <1>2, <1>4 DEF Outcome

\* What becomes of a link when it is looked at.
LEMMA LinkOutcome ==
  ASSUME CrawlTypeOK, CrawlNext, Accounted, Levels, Current, Recorded, AskedSettled,
         NEW i \in Answered, NEW url \in OnSite,
         crawler = "links", i = Len(pages), \E k \in DOMAIN links : links[k] = url
  PROVE  Outcome(i, url)'
<1>1. /\ pages[i].depth = here /\ here \in Nat
      /\ \A j \in DOMAIN pages : pages[j].depth <= here
  BY CurrentDeepest, DepthTypes
<1>2. PICK k \in DOMAIN links : links[k] = url OBVIOUS
<1>3. CASE Follow
  <2>1. /\ pages' = pages /\ web' = web /\ crawler' = crawler
        /\ links' = Tail(links) /\ links \in Seq(Urls) /\ links # <<>>
    BY <1>3 DEF Follow, CrawlTypeOK
  <2>2. CASE k # 1
    <3>1. k - 1 \in DOMAIN links' /\ links'[k - 1] = url
      BY <1>2, <2>1, <2>2, TailFacts
    <3>2. QED BY <2>1, <3>1 DEF Outcome
  <2>3. CASE k = 1 /\ Wanted(Head(links))
    <3>1. Head(links) = url BY <1>2, <2>1, <2>3, TailFacts
    <3>2. PICK e \in [url : Urls, depth : Nat] :
            /\ e.url = url /\ e.depth = here + 1
            /\ Len(queue') \in DOMAIN queue' /\ queue'[Len(queue')] = e
      BY <1>3, <2>3, <3>1, FollowFacts
    <3>3. QED BY <1>1, <2>1, <3>2 DEF Outcome
  <2>4. CASE k = 1 /\ ~Wanted(Head(links))
    <3>1. Head(links) = url BY <1>2, <2>1, <2>4, TailFacts
    <3>2. queue' = queue /\ seen' = seen BY <1>3, <2>4 DEF Follow
    <3>3. url \in seen \/ ~(Cardinality(seen) < MaxSeen)
      BY <2>4, <3>1 DEF Wanted
    <3>4. CASE ~(Cardinality(seen) < MaxSeen)
      <4>1. Cardinality(seen) \in Nat /\ MaxSeen \in Nat
        BY FS_CardinalityType, LimitsAssumption DEF Accounted
      <4>2. Within(pages[i].depth + 1) BY <1>1, DepthTypes DEF Within, Levels
      <4>3. QED BY <3>4, <4>1, <4>2, FullOutcome
    <3>5. CASE \E l \in DOMAIN queue : queue[l].url = url
      BY <1>1, <2>1, <3>2, <3>5 DEF Levels, Outcome
    <3>6. CASE \E n \in DOMAIN asked : asked[n] = url
      <4>1. Settled(url) BY <3>6 DEF AskedSettled
      <4>2. CASE Failed(url) BY <4>2, PagesGrow DEF Outcome
      <4>3. CASE web.redirect[url] \in done
        <5>1. PICK j \in Answered : pages[j].url = web.redirect[url]
          BY <4>3 DEF Recorded
        <5>2. pages[j].depth <= pages[i].depth + 1
          BY <1>1, DepthTypes DEF Answered
        <5>3. QED BY <2>1, <5>1, <5>2 DEF Outcome, Answered
      <4>4. QED BY <4>1, <4>2, <4>3 DEF Settled
    <3>7. QED BY <3>3, <3>4, <3>5, <3>6 DEF Accounted
  <2>5. QED BY <2>2, <2>3, <2>4
<1>4. CASE RefuseLink
  <2>1. crawler' = "raised" /\ pages' = pages BY <1>4 DEF RefuseLink
  <2>2. \A j \in DOMAIN pages : pages[j].depth <= pages[i].depth + 1
    BY <1>1, DepthTypes
  <2>3. QED BY <2>1, <2>2 DEF Outcome
<1>5. CASE NextPage
  <2>1. links = <<>> BY <1>5 DEF NextPage
  <2>2. QED BY <1>2, <2>1
<1>6. QED
  BY <1>3, <1>4, <1>5
  DEF CrawlNext, Request, Unreachable, Known, Record, RefuseRequest, Return

\* Every step keeps what becomes of the links.
LEMMA NextLinksFollowed ==
  ASSUME CrawlInv, CrawlNext PROVE LinksFollowed'
<1> USE DEF CrawlInv
<1> SUFFICES ASSUME NEW i \in Answered', NEW url,
                    (url \in LinksOf(pages[i].url))', (pages[i].depth < MaxDepth)'
             PROVE  Outcome(i, url)'
  BY DEF LinksFollowed
<1>1. CASE Record /\ i = Len(pages') BY <1>1, NewPageOutcome
<1>2. CASE i \in Answered /\ pages'[i] = pages[i]
  <2>1. url \in LinksOf(pages[i].url) /\ url \in OnSite
    BY <1>2, PagesGrow DEF LinksOf
  <2>2. Outcome(i, url) BY <1>2, <2>1 DEF LinksFollowed
  <2>3. CASE \E k \in DOMAIN queue : /\ queue[k].url = url
                                     /\ queue[k].depth <= pages[i].depth + 1
    <3>1. CASE Unreachable \/ Known \/ Record \/ RefuseRequest
      BY <1>2, <2>3, <3>1, RequestOutcome
    <3>2. CASE Follow /\ Wanted(Head(links))
      <4>1. \A k \in DOMAIN queue : k \in DOMAIN queue' /\ queue'[k] = queue[k]
        BY <3>2, FollowFacts
      <4>2. QED BY <1>2, <2>3, <4>1 DEF Outcome
    <3>3. CASE queue' = queue BY <1>2, <2>3, <3>3 DEF Outcome
    <3>4. QED
      BY <3>1, <3>2, <3>3 DEF CrawlNext, Follow, RefuseLink, NextPage, Return
  <2>4. CASE Failed(url) BY <2>4, PagesGrow DEF Outcome
  <2>5. CASE \E j \in Answered : /\ pages[j].url = web.redirect[url]
                                 /\ pages[j].depth <= pages[i].depth + 1
    BY <1>2, <2>5, PagesGrow DEF Outcome
  <2>6. CASE Cardinality(seen) >= MaxSeen /\ Within(pages[i].depth + 1)
    BY <1>2, <2>6, FullOutcome
  <2>7. CASE /\ crawler = "links" /\ i = Len(pages)
             /\ \E k \in DOMAIN links : links[k] = url
    BY <1>2, <2>1, <2>7, LinkOutcome
  <2>8. CASE crawler = "raised"
    BY <2>8 DEF CrawlNext, Request, Unreachable, Known, Record, RefuseRequest,
                Follow, RefuseLink, NextPage, Return
  <2>9. QED BY <2>2, <2>3, <2>4, <2>5, <2>6, <2>7, <2>8 DEF Outcome
<1>3. QED BY <1>1, <1>2, PagesGrow

(***************************************************************************)
(* The home page, the end of the crawl and the failures                    *)
(***************************************************************************)
\* The home page is asked for, or its page is recorded, at depth 0.
LEMMA NextHomeFirst ==
  ASSUME CrawlTypeOK, Levels, Recorded, HomeFirst, CrawlNext PROVE HomeFirst'
<1>1. CASE Failed(Start) BY <1>1, PagesGrow DEF HomeFirst
<1>2. CASE \E j \in Answered : pages[j].url = web.redirect[Start] /\ pages[j].depth = 0
  BY <1>2, PagesGrow DEF HomeFirst
<1>3. CASE crawler = "raised"
  BY <1>3
  DEF CrawlNext, Unreachable, Known, Record, RefuseRequest, Request, Follow,
      RefuseLink, NextPage, Return
<1>4. ASSUME NEW k \in DOMAIN queue, queue[k].url = Start, queue[k].depth = 0
      PROVE  HomeFirst'
  <2>1. CASE RefuseLink \/ NextPage \/ Return
    BY <1>4, <2>1 DEF RefuseLink, NextPage, Return, HomeFirst
  <2>2. CASE Follow
    <3>1. CASE ~Wanted(Head(links)) BY <1>4, <2>2, <3>1 DEF Follow, HomeFirst
    <3>2. CASE Wanted(Head(links))
      <4>1. k \in DOMAIN queue' /\ queue'[k] = queue[k] BY <2>2, <3>2, FollowFacts
      <4>2. QED BY <1>4, <4>1 DEF HomeFirst
    <3>3. QED BY <3>1, <3>2
  <2>3. CASE Request /\ k # 1
    <3>1. k - 1 \in DOMAIN queue' /\ queue'[k - 1] = queue[k]
      BY <2>3, RequestFacts
    <3>2. QED BY <1>4, <3>1 DEF HomeFirst
  <2>4. CASE k = 1 /\ (Unreachable \/ Known \/ Record \/ RefuseRequest)
    <3>1. Request BY <2>4 DEF Unreachable, Known, Record, RefuseRequest
    <3>2. /\ Entry = queue[1] /\ Entry.url = Start /\ Entry.depth = 0
          /\ Final = web.redirect[Start]
      BY <1>4, <2>4, <3>1, RequestFacts
    <3>3. CASE Unreachable
      <4>1. PICK page \in Pages : /\ pages' = Append(pages, page)
                                  /\ page.url = Start /\ page.status = None
        BY <3>2, <3>3, NewPage
      <4>2. Failed(Start)' BY <4>1, PageFacts DEF Failed
      <4>3. QED BY <4>2 DEF HomeFirst
    <3>4. CASE Known
      <4>1. PICK j \in Answered : pages[j].url = web.redirect[Start]
        BY <3>2, <3>4 DEF Known, Recorded
      <4>2. pages[j].depth <= queue[1].depth /\ pages[j].depth \in Nat
        BY <2>4, DepthTypes DEF Levels, Answered
      <4>3. pages[j].depth = 0 BY <3>2, <4>2
      <4>4. QED BY <4>1, <4>3, PagesGrow DEF HomeFirst
    <3>5. CASE Record
      <4>1. PICK page \in Pages :
              /\ pages' = Append(pages, page) /\ page.depth = Entry.depth
              /\ page.url = Final /\ page.status = "answered"
        BY <3>5, NewPage
      <4>2. Len(pages') \in Answered' /\ pages'[Len(pages')] = page
        BY <4>1, PageFacts DEF Answered
      <4>3. QED BY <3>2, <4>1, <4>2, PagesGrow DEF HomeFirst
    <3>6. CASE RefuseRequest BY <3>6 DEF RefuseRequest, HomeFirst
    <3>7. QED BY <2>4, <3>3, <3>4, <3>5, <3>6
  <2>5. QED BY <2>1, <2>2, <2>3, <2>4
            DEF CrawlNext, Unreachable, Known, Record, RefuseRequest
<1>5. QED BY <1>1, <1>2, <1>3, <1>4 DEF HomeFirst

\* Only Return ends the crawl, and nothing follows it.
LEMMA NextDrained == ASSUME Drained, CrawlNext PROVE Drained'
  BY DEF Drained, CrawlNext, Unreachable, Known, Record, RefuseRequest, Request,
         Follow, RefuseLink, NextPage, Return

\* A page without an answer comes with a failure.
LEMMA NextCounted == ASSUME CrawlTypeOK, Counted, CrawlNext PROVE Counted'
<1>1. CASE Unreachable
  BY <1>1 DEF CrawlTypeOK, Unreachable, Counted
<1>2. CASE Record
  <2>1. PICK page \in Pages : pages' = Append(pages, page) /\ page.status = "answered"
    BY <1>2, NewPage
  <2>2. DOMAIN pages' = DOMAIN pages \union {Len(pages')}
    BY <2>1, AppendFacts DEF CrawlTypeOK
  <2>3. Answered' = Answered \union {Len(pages')}
    BY <2>1, <2>2, PageFacts DEF Answered
  <2>4. QED BY <1>2, <2>2, <2>3 DEF Record, Counted
<1>3. CASE pages' = pages /\ failures' = failures
  BY <1>3 DEF Counted, Answered
<1>4. QED
  BY <1>1, <1>2, <1>3
  DEF CrawlNext, Known, RefuseRequest, Follow, RefuseLink, NextPage, Return

(***************************************************************************)
(* The inductive invariant                                                 *)
(***************************************************************************)
\* A crawl that has not begun.
LEMMA CrawlInitInv == CrawlInit => CrawlInv
<1> SUFFICES ASSUME CrawlInit PROVE CrawlInv
  OBVIOUS
<1>1. /\ pages = <<>> /\ asked = <<>> /\ done = {} /\ crawler = "take" /\ here = 0
      /\ DOMAIN pages = {} /\ DOMAIN asked = {} /\ DOMAIN queue = {1}
      /\ queue[1].url = Start /\ queue[1].depth = 0
  BY DEF CrawlInit
<1>2. Answered = {} BY <1>1 DEF Answered
<1>3. CrawlTypeOK /\ Accounted BY CrawlInitType, InitAccounted
<1>4. Levels BY <1>1, LimitsAssumption DEF Levels
<1>5. Current /\ Recorded /\ AskedSettled /\ LinksFollowed
  BY <1>1, <1>2 DEF Current, Recorded, AskedSettled, LinksFollowed
<1>6. Parented BY <1>1, <1>2 DEF Parented, LinkedFrom
<1>7. HomeFirst /\ Drained /\ Counted
  BY <1>1, <1>2 DEF HomeFirst, Drained, Counted
<1>8. QED BY <1>3, <1>4, <1>5, <1>6, <1>7 DEF CrawlInv

\* Every step of the crawl keeps the invariant.
LEMMA CrawlNextInv == ASSUME CrawlInv, CrawlNext PROVE CrawlInv'
<1>1. LinksFollowed' BY NextLinksFollowed
<1>2. QED
  BY <1>1, CrawlNextType, NextAccounted, NextLevels, NextCurrent, NextRecorded,
     NextAskedSettled, NextParented, NextHomeFirst, NextDrained, NextCounted
  DEF CrawlInv

\* A step that changes nothing of the crawl.
LEMMA CrawlStutterInv == ASSUME CrawlInv, UNCHANGED crawlVars PROVE CrawlInv'
<1>1. /\ web' = web /\ queue' = queue /\ seen' = seen /\ done' = done
      /\ pages' = pages /\ links' = links /\ here' = here /\ asked' = asked
      /\ failures' = failures /\ crawler' = crawler
  BY DEF crawlVars
<1>2. CrawlTypeOK' /\ Accounted' /\ Levels'
  BY <1>1 DEF CrawlInv, CrawlTypeOK, Accounted, AskedOnce, Levels
<1>3. /\ Answered' = Answered
      /\ \A u : Failed(u)' = Failed(u) /\ LinksOf(u)' = LinksOf(u)
  BY <1>1 DEF Answered, Failed, LinksOf
<1>4. Current' /\ Recorded' /\ AskedSettled'
  BY <1>1, <1>3 DEF CrawlInv, Current, Recorded, AskedSettled, Settled
<1>5. Parented' BY <1>1, <1>3 DEF CrawlInv, Parented, LinkedFrom
<1>6. LinksFollowed'
  BY <1>1, <1>3 DEF CrawlInv, LinksFollowed, Outcome, Within
<1>7. HomeFirst' /\ Drained' /\ Counted'
  BY <1>1, <1>3 DEF CrawlInv, HomeFirst, Drained, Counted
<1>8. QED BY <1>2, <1>4, <1>5, <1>6, <1>7 DEF CrawlInv

\* The recorded depth is the click distance: by the outcome of each link.
LEMMA InvDepth == CrawlInv => DepthIsClickDistance
<1> USE DEF CrawlInv
<1> SUFFICES ASSUME CrawlInv, NEW j \in Answered
             PROVE  /\ \/ pages[j].depth = 0 /\ pages[j].url = web.redirect[Start]
                       \/ \E i \in Answered, url \in Urls :
                            /\ pages[i].depth + 1 = pages[j].depth
                            /\ url \in LinksOf(pages[i].url)
                            /\ web.redirect[url] = pages[j].url
                    /\ \A i \in Answered : \A url \in LinksOf(pages[i].url) :
                         /\ pages[i].depth < MaxDepth
                         /\ web.redirect[url] = pages[j].url
                         /\ ~Failed(url)
                         => pages[j].depth <= pages[i].depth + 1
  BY DEF DepthIsClickDistance
<1>1. \/ pages[j].depth = 0 /\ pages[j].url = web.redirect[Start]
      \/ \E i \in Answered, url \in Urls :
           /\ pages[i].depth + 1 = pages[j].depth
           /\ url \in LinksOf(pages[i].url)
           /\ web.redirect[url] = pages[j].url
  BY DEF Parented, LinkedFrom
<1>2. ASSUME NEW i \in Answered, NEW url \in LinksOf(pages[i].url),
             pages[i].depth < MaxDepth, web.redirect[url] = pages[j].url,
             ~Failed(url)
      PROVE  pages[j].depth <= pages[i].depth + 1
  <2>1. Outcome(i, url) BY <1>2 DEF LinksFollowed
  <2>2. i \in DOMAIN pages /\ j \in DOMAIN pages BY DEF Answered
  <2>3. CASE \E k \in DOMAIN queue : queue[k].depth <= pages[i].depth + 1
    BY <2>2, <2>3, DepthTypes DEF Levels
  <2>4. CASE \E l \in Answered : /\ pages[l].url = web.redirect[url]
                                 /\ pages[l].depth <= pages[i].depth + 1
    BY <1>2, <2>4 DEF Recorded
  <2>5. CASE Within(pages[i].depth + 1) BY <2>2, <2>5 DEF Within
  <2>6. CASE crawler = "links" /\ i = Len(pages)
    BY <2>2, <2>6, CurrentDeepest, DepthTypes
  <2>7. CASE \A l \in DOMAIN pages : pages[l].depth <= pages[i].depth + 1
    BY <2>2, <2>7
  <2>8. QED BY <1>2, <2>1, <2>3, <2>4, <2>5, <2>6, <2>7 DEF Outcome
<1>3. QED BY <1>1, <1>2

(***************************************************************************)
(* What a crawl finds that nothing stops                                   *)
(***************************************************************************)
\* Links lead to URLs.
LEMMA LedToUrls ==
  ASSUME CrawlTypeOK
  PROVE  /\ web.redirect \in [Urls -> Urls]
         /\ \A u : LinksOf(u) \subseteq Urls
         /\ \A T : LedTo(T) \in SUBSET Urls
<1>1. web.redirect \in [Urls -> Urls] BY UrlsAssumption DEF CrawlTypeOK
<1>2. \A u : LinksOf(u) \subseteq Urls BY UrlsAssumption DEF LinksOf
<1>3. QED BY <1>1, <1>2 DEF LedTo

\* The clicks are what their recursive definition says.
LEMMA ClicksEquation ==
  ASSUME CrawlTypeOK
  PROVE  /\ WithinClicks[0] = {web.redirect[Start]}
         /\ \A d \in 1..MaxDepth :
              WithinClicks[d] = WithinClicks[d - 1] \union LedTo(WithinClicks[d - 1])
<1> DEFINE Home == {web.redirect[Start]}
           step == [n \in 1..MaxDepth |-> [T \in SUBSET Urls |-> T \union LedTo(T)]]
           Clicks(f) == f = [d \in 0..MaxDepth |->
                               IF d = 0 THEN {web.redirect[Start]}
                               ELSE f[d - 1] \union LedTo(f[d - 1])]
<1>1. MaxDepth \in Nat BY LimitsAssumption
<1>2. Home \in SUBSET Urls BY LedToUrls, UrlsAssumption
<1>3. step \in [1..MaxDepth -> [SUBSET Urls -> SUBSET Urls]] BY LedToUrls
<1>4. PICK f \in [0..MaxDepth -> SUBSET Urls] :
        f[0] = Home /\ \A n \in 1..MaxDepth : f[n] = step[n][f[n - 1]]
  <2>1. Iterable(MaxDepth, SUBSET Urls, Home, step)
    BY <1>1, <1>2, <1>3 DEF Iterable
  <2> HIDE DEF Home, step
  <2>2. PICK f : Iterates(f, MaxDepth, SUBSET Urls, Home, step) BY <2>1, Iteration
  <2>3. QED BY <2>2 DEF Iterates
<1>5. ASSUME NEW n \in 1..MaxDepth PROVE f[n] = f[n - 1] \union LedTo(f[n - 1])
  <2>1. n - 1 \in 0..MaxDepth BY <1>1
  <2>2. f[n - 1] \in SUBSET Urls BY <2>1
  <2>3. f[n] = step[n][f[n - 1]] BY <1>4
  <2>4. step[n][f[n - 1]] = f[n - 1] \union LedTo(f[n - 1]) BY <2>2
  <2>5. QED BY <2>3, <2>4
<1>6. Clicks(f)
  <2>1. \A d \in 0..MaxDepth :
          f[d] = IF d = 0 THEN {web.redirect[Start]}
                 ELSE f[d - 1] \union LedTo(f[d - 1])
    BY <1>1, <1>4, <1>5
  <2>2. QED BY <2>1
<1>7. WithinClicks = CHOOSE g : Clicks(g) BY DEF WithinClicks
<1>8. Clicks(WithinClicks)
  <2> HIDE DEF Clicks
  <2>1. QED BY <1>6, <1>7
<1>9. WithinClicks = [d \in 0..MaxDepth |->
                        IF d = 0 THEN {web.redirect[Start]}
                        ELSE WithinClicks[d - 1] \union LedTo(WithinClicks[d - 1])]
  BY <1>8
<1>10. 0 \in 0..MaxDepth /\ \A d \in 1..MaxDepth : d \in 0..MaxDepth /\ d # 0
  BY <1>1
<1>11. QED BY <1>9, <1>10

\* More clicks lose nothing.
LEMMA ClicksGrow ==
  ASSUME CrawlTypeOK, NEW m \in 0..MaxDepth
  PROVE  WithinClicks[m] \subseteq Reachable
<1> DEFINE T == {n \in Nat : m + n <= MaxDepth => WithinClicks[m] \subseteq WithinClicks[m + n]}
<1>1. MaxDepth \in Nat /\ m \in Nat /\ m <= MaxDepth BY LimitsAssumption
<1>2. 0 \in T BY <1>1
<1>3. ASSUME NEW n \in T PROVE n + 1 \in T
  <2> SUFFICES ASSUME m + (n + 1) <= MaxDepth
               PROVE  WithinClicks[m] \subseteq WithinClicks[m + (n + 1)]
    OBVIOUS
  <2>1. n \in Nat /\ m + n <= MaxDepth BY <1>1
  <2>2. WithinClicks[m] \subseteq WithinClicks[m + n] BY <2>1
  <2>3. m + (n + 1) \in 1..MaxDepth /\ (m + (n + 1)) - 1 = m + n BY <1>1, <2>1
  <2>4. WithinClicks[m + n] \subseteq WithinClicks[m + (n + 1)]
    BY <2>3, ClicksEquation
  <2>5. QED BY <2>2, <2>4
<1>4. Nat = T
  <2>1. T \in SUBSET Nat OBVIOUS
  <2> HIDE DEF T
  <2>2. QED BY <1>2, <1>3, <2>1, SetInduction
<1>5. MaxDepth - m \in Nat /\ m + (MaxDepth - m) = MaxDepth BY <1>1
<1>6. QED BY <1>1, <1>4, <1>5 DEF Reachable

\* A page that answered is as many clicks away as its depth says.
LEMMA AnsweredWithin ==
  ASSUME CrawlInv, NEW j \in Answered PROVE pages[j].url \in Reachable
<1> USE DEF CrawlInv
<1> DEFINE T == {n \in Nat : \A i \in Answered :
                   pages[i].depth = n => pages[i].url \in WithinClicks[n]}
<1>1. \A i \in Answered : pages[i].depth \in 0..MaxDepth
  BY DepthTypes DEF Answered, Levels
<1>2. 0 \in T
  <2> SUFFICES ASSUME NEW i \in Answered, pages[i].depth = 0
               PROVE  pages[i].url \in WithinClicks[0]
    OBVIOUS
  <2>1. PICK url \in Urls : /\ web.redirect[url] = pages[i].url
                            /\ LinkedFrom(url, pages[i].depth)
    BY DEF Parented
  <2>2. \A k \in Answered : pages[k].depth + 1 # 0 BY <1>1
  <2>3. url = Start BY <2>1, <2>2 DEF LinkedFrom
  <2>4. QED BY <2>1, <2>3, ClicksEquation
<1>3. ASSUME NEW n \in T PROVE n + 1 \in T
  <2> SUFFICES ASSUME NEW i \in Answered, pages[i].depth = n + 1
               PROVE  pages[i].url \in WithinClicks[n + 1]
    OBVIOUS
  <2>1. PICK url \in Urls : /\ web.redirect[url] = pages[i].url
                            /\ LinkedFrom(url, n + 1)
    BY DEF Parented
  <2>2. PICK k \in Answered : pages[k].depth + 1 = n + 1 /\ url \in LinksOf(pages[k].url)
    BY <2>1 DEF LinkedFrom
  <2>3. n \in Nat /\ pages[k].depth = n BY <1>1, <2>2
  <2>4. pages[k].url \in WithinClicks[n] BY <2>3
  <2>5. pages[i].url \in LedTo(WithinClicks[n]) BY <2>1, <2>2, <2>4 DEF LedTo
  <2>6. n + 1 \in 1..MaxDepth /\ (n + 1) - 1 = n BY <1>1, <2>3
  <2>7. WithinClicks[n + 1] = WithinClicks[n] \union LedTo(WithinClicks[n])
    BY <2>6, ClicksEquation
  <2>8. QED BY <2>5, <2>7
<1>4. Nat = T
  <2>1. T \in SUBSET Nat OBVIOUS
  <2> HIDE DEF T
  <2>2. QED BY <1>2, <1>3, <2>1, SetInduction
<1>5. pages[j].depth \in Nat BY <1>1
<1>6. pages[j].url \in WithinClicks[pages[j].depth] BY <1>4, <1>5
<1>7. QED BY <1>1, <1>6, ClicksGrow

\* A crawl that is over and hit no limit.
Unstopped ==
    /\ crawler = "done"
    /\ Len(pages) < MaxPages
    /\ Cardinality(seen) < MaxSeen
    /\ failures = 0

\* It recorded what its links led to, no further away than they were.
LEMMA UnstoppedFollows ==
  ASSUME CrawlInv, Unstopped
  PROVE  /\ queue = <<>> /\ \A u : ~Failed(u)
         /\ \E j \in Answered : pages[j].url = web.redirect[Start] /\ pages[j].depth = 0
         /\ \A i \in Answered : \A url \in LinksOf(pages[i].url) :
              pages[i].depth < MaxDepth =>
                \E j \in Answered : /\ pages[j].url = web.redirect[url]
                                    /\ pages[j].depth <= pages[i].depth + 1
<1> USE DEF CrawlInv
<1>1. /\ crawler = "done" /\ failures = 0 /\ Len(pages) \in Nat
      /\ ~(Len(pages) >= MaxPages) /\ ~(Cardinality(seen) >= MaxSeen)
  <2>1. Len(pages) \in Nat /\ Cardinality(seen) \in Nat
    BY FS_CardinalityType DEF CrawlTypeOK, Accounted
  <2>2. QED BY <2>1, LimitsAssumption DEF Unstopped
<1>2. queue = <<>> BY <1>1 DEF Drained
<1>3. DOMAIN queue = {} BY <1>2
<1>4. \A u : ~Failed(u)
  <2>1. Answered = DOMAIN pages BY <1>1 DEF Counted
  <2>2. "answered" # None BY UrlsAssumption
  <2>3. QED BY <2>1, <2>2 DEF Failed, Answered
<1>5. \E j \in Answered : pages[j].url = web.redirect[Start] /\ pages[j].depth = 0
  BY <1>1, <1>3, <1>4 DEF HomeFirst
<1>6. ASSUME NEW i \in Answered, NEW url \in LinksOf(pages[i].url),
             pages[i].depth < MaxDepth
      PROVE  \E j \in Answered : /\ pages[j].url = web.redirect[url]
                                 /\ pages[j].depth <= pages[i].depth + 1
  <2>1. Outcome(i, url) BY <1>6 DEF LinksFollowed
  <2>2. QED BY <1>1, <1>3, <1>4, <2>1 DEF Outcome
<1>7. QED BY <1>2, <1>4, <1>5, <1>6

\* It found every page within reach.
LEMMA WithinAnswered ==
  ASSUME CrawlInv, Unstopped, NEW u \in Reachable
  PROVE  \E i \in Answered : pages[i].url = u
<1> DEFINE Near(v, n) == \E i \in Answered : pages[i].url = v /\ pages[i].depth <= n
           T == {n \in Nat : n <= MaxDepth => \A v \in WithinClicks[n] : Near(v, n)}
<1>1. MaxDepth \in Nat BY LimitsAssumption
<1>2. CrawlTypeOK /\ \A i \in Answered : pages[i].depth \in Nat
  BY DepthTypes DEF CrawlInv, Answered
<1>3. 0 \in T BY <1>2, UnstoppedFollows, ClicksEquation
<1>4. ASSUME NEW n \in T PROVE n + 1 \in T
  <2> SUFFICES ASSUME n + 1 <= MaxDepth, NEW v \in WithinClicks[n + 1]
               PROVE  Near(v, n + 1)
    OBVIOUS
  <2>1. n \in Nat /\ n <= MaxDepth /\ n < MaxDepth BY <1>1
  <2>2. \A w \in WithinClicks[n] : Near(w, n) BY <2>1
  <2>3. n + 1 \in 1..MaxDepth /\ (n + 1) - 1 = n BY <1>1, <2>1
  <2>4. WithinClicks[n + 1] = WithinClicks[n] \union LedTo(WithinClicks[n])
    BY <1>2, <2>3, ClicksEquation
  <2>5. CASE v \in WithinClicks[n]
    <3>1. PICK i \in Answered : pages[i].url = v /\ pages[i].depth <= n
      BY <2>2, <2>5
    <3>2. pages[i].depth <= n + 1 BY <1>2, <2>1, <3>1
    <3>3. QED BY <3>1, <3>2
  <2>6. CASE v \in LedTo(WithinClicks[n])
    <3>1. PICK w \in WithinClicks[n] : \E l \in LinksOf(w) : v = web.redirect[l]
      BY <2>6 DEF LedTo
    <3>7. PICK url \in LinksOf(w) : v = web.redirect[url] BY <3>1
    <3>2. PICK i \in Answered : pages[i].url = w /\ pages[i].depth <= n
      BY <2>2, <3>1
    <3>3. pages[i].depth < MaxDepth BY <1>1, <1>2, <2>1, <3>2
    <3>4. PICK j \in Answered : /\ pages[j].url = web.redirect[url]
                                /\ pages[j].depth <= pages[i].depth + 1
      BY <3>2, <3>3, <3>7, UnstoppedFollows
    <3>5. pages[j].depth <= n + 1 BY <1>2, <2>1, <3>2, <3>4
    <3>6. QED BY <3>4, <3>5, <3>7
  <2>7. QED BY <2>4, <2>5, <2>6
<1>5. Nat = T
  <2>1. T \in SUBSET Nat OBVIOUS
  <2> HIDE DEF T
  <2>2. QED BY <1>3, <1>4, <2>1, SetInduction
<1>6. Near(u, MaxDepth) BY <1>1, <1>5 DEF Reachable
<1>7. QED BY <1>6

\* What the crawl recorded is then exactly what is within reach.
LEMMA InvComplete == CrawlInv => CompleteBelowLimits
<1> SUFFICES ASSUME CrawlInv, Unstopped
             PROVE  {pages[i].url : i \in DOMAIN pages} = Reachable
  BY DEF CompleteBelowLimits, Unstopped
<1>1. Answered = DOMAIN pages BY DEF CrawlInv, Counted, Unstopped
<1>2. \A i \in Answered : pages[i].url \in Reachable BY AnsweredWithin
<1>3. \A u \in Reachable : \E i \in Answered : pages[i].url = u BY WithinAnswered
<1>4. QED BY <1>1, <1>2, <1>3

(***************************************************************************)
(* The fetch: what holds of it at every step                               *)
(***************************************************************************)
\* The sampled positions are spaced evenly, from the head of the list.
Spaced ==
    /\ stage \in {"home", "robots", "sitemap", "children"} => probes = <<>>
    /\ stage \in {"home", "robots", "sitemap"} => locs = 0
    /\ Len(probes) <= SitemapSample
    /\ \A i \in 1..Len(probes) : probes[i] = (i - 1) * Step(locs)

\* What may have been sent by the time of a stage.
Probing == 3 + MaxSitemapChildren + 2 * SitemapSample
SentBy ==
    /\ stage = "home" => sent = 0
    /\ stage = "robots" => sent <= 1
    /\ stage = "sitemap" => sent <= 2
    /\ stage \in {"home", "robots", "sitemap", "children", "probe"}
         => paths = SensitivePaths
    /\ stage = "children" => sent + children <= 3 + MaxSitemapChildren
    /\ stage = "probe" => sent <= 3 + MaxSitemapChildren + 2 * Len(probes)
    /\ stage = "paths" => sent + paths <= Probing + SensitivePaths
    /\ stage = "checks" => sent <= Probing + SensitivePaths
    /\ sent <= Probing + SensitivePaths + 1

FetchInv == FetchTypeOK /\ Spaced /\ SentBy /\ SampleCoversHalf

(***************************************************************************)
(* Arithmetic of the sample                                                *)
(***************************************************************************)
\* A quotient and its divisor bound the dividend.
LEMMA Quotient ==
  ASSUME NEW n \in Nat, NEW k \in Nat \ {0}
  PROVE  n \div k \in Nat /\ k * (n \div k) <= n /\ n < k * (n \div k) + k
  BY Z3

\* A multiple divides evenly.
LEMMA Multiple ==
  ASSUME NEW a \in Nat, NEW k \in Nat \ {0}
  PROVE  (a * k) \div k = a /\ (a * k) % k = 0 /\ a * k \in Nat
<1>1. (a * k) \div k = a BY Z3
<1>2. (a * k) % k = 0 BY Z3
<1>3. QED BY <1>1, <1>2, Z3

\* The step is a positive number.
LEMMA StepType == ASSUME NEW n \in Nat PROVE Step(n) \in Nat /\ Step(n) >= 1
<1>1. SitemapSample \in Nat \ {0} BY FetchAssumption
<1>2. n \div SitemapSample \in Nat BY <1>1, Quotient
<1>3. QED BY <1>2 DEF Step

\* The multiples of the step that the slice takes: as many as the sample, as
\* far as the list goes.
LEMMA ChosenMultiple ==
  ASSUME NEW n \in Nat, NEW a \in Nat
  PROVE  (a * Step(n) \in Chosen(n)) <=> (a * Step(n) < n /\ a < SitemapSample)
<1>1. Step(n) \in Nat \ {0} BY StepType
<1>2. (a * Step(n)) \div Step(n) = a /\ (a * Step(n)) % Step(n) = 0
      /\ a * Step(n) \in Nat
  BY <1>1, Multiple
<1>3. QED BY <1>2 DEF Chosen

\* Where a slice with m elements ends, its last element is in the second half.
LEMMA LastOfSlice ==
  ASSUME NEW n \in Nat \ {0}, NEW m \in Nat, m <= SitemapSample,
         m * Step(n) \notin Chosen(n)
  PROVE  m >= 1 /\ 2 * ((m - 1) * Step(n)) >= n - 1
<1> DEFINE s == Step(n)
<1> DEFINE k == SitemapSample
<1> DEFINE q == n \div k
<1> SUFFICES m >= 1 /\ 2 * ((m - 1) * s) >= n - 1
  OBVIOUS
<1>1. k \in Nat /\ k >= 2 BY FetchAssumption
<1>2. s \in Nat /\ s >= 1 BY StepType
<1>3. q \in Nat /\ k * q <= n /\ n < k * q + k
  <2>1. k \in Nat \ {0} BY <1>1
  <2>2. QED BY <2>1, Quotient
<1>4. s = IF q > 1 THEN q ELSE 1 BY DEF Step
<1>5. m * s >= n \/ m = k
  <2>1. m * s >= n \/ m >= k BY ChosenMultiple, <1>1, <1>2, Z3
  <2>2. QED BY <2>1, <1>1
<1>6. m >= 1
  <2>1. SUFFICES ASSUME m = 0 PROVE FALSE BY <1>1
  <2>2. 0 * s = 0 BY <1>2
  <2>3. QED BY <2>1, <2>2, <1>1, <1>5
<1> HIDE DEF s, k, q
<1>7. CASE m * s >= n
  <2>1. CASE s = 1
    <3>1. m * 1 = m /\ (m - 1) * 1 = m - 1 BY <1>6
    <3>2. QED BY <1>6, <1>7, <2>1, <3>1
  <2>2. CASE s > 1
    <3>1. s = q BY <1>3, <1>4, <2>2
    <3>2. 2 * s <= n BY <1>1, <1>2, <1>3, <3>1, Z3
    <3>3. (m - 1) * s = m * s - s BY <1>2, Z3
    <3>4. m * s \in Nat BY <1>2, Z3
    <3>5. QED BY <1>2, <1>6, <1>7, <3>2, <3>3, <3>4
  <2>3. QED BY <1>2, <2>1, <2>2
<1>8. CASE m = k
  <2>1. n <= k * s + k - 1
    <3>1. CASE q > 1 BY <3>1, <1>1, <1>3, <1>4, Z3
    <3>2. CASE q <= 1
      <4>1. s = 1 BY <3>2, <1>3, <1>4
      <4>2. k * q <= k BY <3>2, <1>1, <1>3, Z3
      <4>3. k * s = k BY <4>1, <1>1
      <4>4. k * q \in Nat BY <1>1, <1>3, Z3
      <4>5. QED BY <4>2, <4>3, <4>4, <1>1, <1>3
    <3>3. QED BY <3>1, <3>2, <1>3
  <2>2. (k - 2) * s >= k - 2 BY <1>1, <1>2, Z3
  <2>3. (k - 2) * s = k * s - 2 * s /\ 2 * ((k - 1) * s) = 2 * (k * s) - 2 * s
    BY <1>1, <1>2, Z3
  <2>4. k * s \in Nat BY <1>1, <1>2, Z3
  <2>5. QED BY <1>1, <1>2, <1>6, <1>8, <2>1, <2>2, <2>3, <2>4
<1>9. QED BY <1>5, <1>7, <1>8

(***************************************************************************)
(* The invariant of the fetch                                              *)
(***************************************************************************)
\* Nothing is sent or probed at the beginning.
LEMMA FetchInitInv == FetchInit => FetchInv
<1> SUFFICES ASSUME FetchInit PROVE FetchInv
  OBVIOUS
<1> USE FetchAssumption DEF FetchInit
<1>1. FetchTypeOK
  <2>1. named \in BOOLEAN /\ stage \in FetchStages BY DEF FetchStages
  <2>2. probes \in Seq(Nat) OBVIOUS
  <2>3. children \in 0..MaxSitemapChildren /\ paths \in 0..SensitivePaths
        /\ locs \in Nat /\ sent \in Nat
    OBVIOUS
  <2>4. QED BY <2>1, <2>2, <2>3 DEF FetchTypeOK
<1>2. Spaced BY DEF Spaced
<1>3. SentBy BY DEF SentBy, Probing
<1>4. SampleCoversHalf BY DEF SampleCoversHalf
<1>5. QED BY <1>1, <1>2, <1>3, <1>4 DEF FetchInv

\* A list cut to the limit is no longer than before.
LEMMA AtMostLocsType == ASSUME NEW n \in Nat PROVE AtMostLocs(n) \in Nat
  BY FetchAssumption DEF AtMostLocs

\* The steps before the probe: nothing is probed yet.
LEMMA BeforeProbeInv ==
  ASSUME FetchInv,
         \/ HomeFails \/ HomeAnswers \/ Robots \/ NoSitemap \/ ChildrenDone
         \/ \E n \in Sizes : Sitemap(n)
         \/ \E m \in IndexSizes : SitemapIndex(m)
         \/ \E n \in Sizes \union {0} : Child(n)
  PROVE  FetchInv'
<1> USE FetchAssumption
<1>1. /\ stage \in {"home", "robots", "sitemap", "children"}
      /\ probes = <<>> /\ probes' = <<>> /\ paths' = paths
  BY DEF FetchInv, Spaced, HomeFails, HomeAnswers, Robots, NoSitemap,
         Sitemap, SitemapIndex, Child, ChildrenDone
<1>2. locs' \in Nat
  <2>1. locs \in Nat BY DEF FetchInv, FetchTypeOK
  <2>2. CASE \E n \in Sizes : Sitemap(n) BY <2>2, AtMostLocsType DEF Sitemap
  <2>3. CASE \E n \in Sizes \union {0} : Child(n) BY <2>1, <2>3 DEF Child
  <2>4. CASE ChildrenDone BY <2>1, <2>4, AtMostLocsType DEF ChildrenDone
  <2>5. QED
    BY <2>1, <2>2, <2>3, <2>4
    DEF HomeFails, HomeAnswers, Robots, NoSitemap, SitemapIndex
<1>3. \/ stage' \in {"robots", "sitemap", "children", "probe"}
      \/ stage' \in {"paths", "checks"} /\ locs' = 0
  BY DEF FetchInv, Spaced, HomeFails, HomeAnswers, Robots, NoSitemap, Sitemap,
         SitemapIndex, Child, ChildrenDone
<1>4. stage' \in {"robots", "sitemap"} => locs' = 0
  BY DEF FetchInv, Spaced, HomeFails, HomeAnswers, Robots, NoSitemap, Sitemap,
         SitemapIndex, Child, ChildrenDone
<1>5. FetchTypeOK'
  <2>1. named' \in BOOLEAN /\ children' \in 0..MaxSitemapChildren /\ sent' \in Nat
    BY DEF FetchInv, FetchTypeOK, HomeFails, HomeAnswers, Robots, NoSitemap,
           Sitemap, SitemapIndex, Child, ChildrenDone
  <2>2. QED BY <1>1, <1>2, <1>3, <2>1 DEF FetchInv, FetchTypeOK, FetchStages
<1>6. Spaced' /\ SampleCoversHalf'
  BY <1>1, <1>3, <1>4 DEF Spaced, SampleCoversHalf
<1>7. SentBy'
  BY <1>1 DEF FetchInv, FetchTypeOK, SentBy, Probing, HomeFails, HomeAnswers,
              Robots, NoSitemap, Sitemap, SitemapIndex, Child, ChildrenDone
<1>8. QED BY <1>5, <1>6, <1>7 DEF FetchInv

\* A probe is at the next multiple of the step.
LEMMA ProbeInv ==
  ASSUME FetchInv, NEW requests \in {1, 2}, Probe(requests) PROVE FetchInv'
<1> USE FetchAssumption
<1>1. /\ stage = "probe" /\ stage' = "probe" /\ locs \in Nat /\ locs' = locs
      /\ probes \in Seq(Nat)
  BY DEF FetchInv, FetchTypeOK, Probe
<1>2. Len(probes) < SitemapSample
  BY <1>1, ChosenMultiple DEF Probe, NextPosition
<1>3. Step(locs) \in Nat /\ Len(probes) \in Nat BY <1>1, StepType
<1>4. NextPosition \in Nat BY <1>3, Z3 DEF NextPosition
<1>5. FetchTypeOK' BY <1>4 DEF FetchInv, FetchTypeOK, Probe
<1>6. Spaced'
  <2>1. Len(probes') = Len(probes) + 1 BY <1>1, <1>4 DEF Probe
  <2>2. ASSUME NEW i \in 1..Len(probes')
        PROVE  probes'[i] = (i - 1) * Step(locs')
    <3>1. CASE i \in 1..Len(probes)
      BY <1>1, <1>4, <3>1 DEF FetchInv, Spaced, Probe
    <3>2. CASE i = Len(probes) + 1
      BY <1>1, <1>3, <1>4, <3>2 DEF Probe, NextPosition
    <3>3. QED BY <1>3, <2>1, <3>1, <3>2
  <2>3. QED BY <1>1, <1>2, <1>3, <2>1, <2>2 DEF Spaced
<1>7. SentBy'
  <2>1. Len(probes') = Len(probes) + 1 BY <1>1, <1>4 DEF Probe
  <2>2. QED
    BY <1>1, <1>2, <1>3, <2>1 DEF FetchInv, FetchTypeOK, SentBy, Probing, Probe
<1>8. SampleCoversHalf' BY <1>1 DEF SampleCoversHalf
<1>9. QED BY <1>5, <1>6, <1>7, <1>8 DEF FetchInv

\* The probe ends where the slice ends.
LEMMA ProbedInv == ASSUME FetchInv, Probed PROVE FetchInv'
<1> USE FetchAssumption
<1>1. /\ stage = "probe" /\ stage' = "paths" /\ locs \in Nat
      /\ UNCHANGED <<named, children, locs, probes, paths, sent>>
      /\ probes \in Seq(Nat) /\ Len(probes) \in Nat
      /\ Len(probes) <= SitemapSample
  BY DEF FetchInv, FetchTypeOK, Spaced, Probed
<1>2. FetchTypeOK' BY <1>1 DEF FetchInv, FetchTypeOK, FetchStages
<1>3. Spaced' BY <1>1 DEF FetchInv, Spaced
<1>4. SentBy' BY <1>1 DEF FetchInv, FetchTypeOK, SentBy, Probing
<1>5. locs > 0 => 2 * probes[Len(probes)] >= locs - 1
  <2>1. SUFFICES ASSUME locs > 0 PROVE 2 * probes[Len(probes)] >= locs - 1
    OBVIOUS
  <2>2. /\ Len(probes) >= 1
        /\ 2 * ((Len(probes) - 1) * Step(locs)) >= locs - 1
    BY <1>1, <2>1, LastOfSlice DEF Probed, NextPosition
  <2>3. probes[Len(probes)] = (Len(probes) - 1) * Step(locs)
    BY <1>1, <2>2 DEF FetchInv, Spaced
  <2>4. QED BY <2>2, <2>3
<1>6. SampleCoversHalf' BY <1>1, <1>5 DEF SampleCoversHalf
<1>7. QED BY <1>2, <1>3, <1>4, <1>6 DEF FetchInv

\* What comes after the probe, and a refused request, leave the sample alone.
LEMMA AfterProbeInv ==
  ASSUME FetchInv, Expose \/ PathsDone \/ Checks \/ Refuse PROVE FetchInv'
<1> USE FetchAssumption
<1>1. FetchTypeOK'
  BY DEF FetchInv, FetchTypeOK, FetchStages, Expose, PathsDone, Checks, Refuse
<1>2. Spaced' BY DEF FetchInv, Spaced, Expose, PathsDone, Checks, Refuse
<1>3. SentBy'
  BY DEF FetchInv, FetchTypeOK, SentBy, Probing, Expose, PathsDone, Checks, Refuse
<1>4. SampleCoversHalf'
  BY DEF FetchInv, SampleCoversHalf, Expose, PathsDone, Checks, Refuse
<1>5. QED BY <1>1, <1>2, <1>3, <1>4 DEF FetchInv

\* Every step of the fetch keeps the invariant.
LEMMA FetchNextInv == ASSUME FetchInv, FetchNext PROVE FetchInv'
<1>1. CASE \E requests \in {1, 2} : Probe(requests) BY <1>1, ProbeInv
<1>2. CASE Probed BY <1>2, ProbedInv
<1>3. CASE Expose \/ PathsDone \/ Checks \/ Refuse BY <1>3, AfterProbeInv
<1>4. QED BY <1>1, <1>2, <1>3, BeforeProbeInv DEF FetchNext

\* A step that changes nothing of the fetch.
LEMMA FetchStutterInv == ASSUME FetchInv, UNCHANGED fetchVars PROVE FetchInv'
  BY DEF FetchInv, FetchTypeOK, Spaced, SentBy, SampleCoversHalf, fetchVars

\* The fetch never sends more than its limits allow together.
LEMMA SentBounded ==
  FetchInv => sent <= 4 + MaxSitemapChildren + 2 * SitemapSample + SensitivePaths
  BY FetchAssumption DEF FetchInv, FetchTypeOK, SentBy, Probing
(***************************************************************************)
(* The acquisition                                                         *)
(***************************************************************************)
AcquisitionInv == FetchInv /\ CrawlInv

\* The fetch and the crawl take turns, and each leaves the other's variables
\* alone.
LEMMA AcquisitionStep ==
  ASSUME AcquisitionInv, [Next]_vars PROVE AcquisitionInv'
<1>1. CASE Fetching
  <2>1. FetchInv' BY <1>1, FetchNextInv DEF AcquisitionInv, Fetching
  <2>2. CrawlInv' BY <1>1, CrawlStutterInv DEF AcquisitionInv, Fetching
  <2>3. QED BY <2>1, <2>2 DEF AcquisitionInv
<1>2. CASE Crawling
  <2>1. FetchInv' BY <1>2, FetchStutterInv DEF AcquisitionInv, Crawling
  <2>2. CrawlInv' BY <1>2, CrawlNextInv DEF AcquisitionInv, Crawling
  <2>3. QED BY <2>1, <2>2 DEF AcquisitionInv
<1>3. CASE UNCHANGED vars
  BY <1>3, FetchStutterInv, CrawlStutterInv DEF AcquisitionInv, vars
<1>4. QED BY <1>1, <1>2, <1>3 DEF Next

\* The invariant holds of the acquisition as it runs.
THEOREM AcquisitionInvariant == Spec => []AcquisitionInv
<1>1. Init => AcquisitionInv
  BY FetchInitInv, CrawlInitInv DEF Init, AcquisitionInv
<1>2. AcquisitionInv /\ [Next]_vars => AcquisitionInv' BY AcquisitionStep
<1>3. QED BY <1>1, <1>2, PTL DEF Spec

\* What is requested, recorded and counted has its type.
THEOREM AcquisitionTypes == Spec => []TypeOK
<1>1. AcquisitionInv => TypeOK
  BY DEF AcquisitionInv, FetchInv, CrawlInv, TypeOK
<1>2. QED BY <1>1, AcquisitionInvariant, PTL

\* The load on the site has a limit that does not depend on the site.
THEOREM AcquisitionLoad == Spec => []LoadIsBounded
<1>1. AcquisitionInv => LoadIsBounded
  <2> SUFFICES ASSUME AcquisitionInv PROVE LoadIsBounded
    OBVIOUS
  <2>1. sent <= FetchLimit BY SentBounded DEF AcquisitionInv, FetchLimit
  <2>2. Len(asked) <= MaxSeen
    <3>1. asked \in Seq(Urls) /\ queue \in Seq([url : Urls, depth : Nat])
      BY DEF AcquisitionInv, CrawlInv, CrawlTypeOK
    <3>2. Len(asked) \in Nat /\ Len(queue) \in Nat BY <3>1
    <3>3. QED
      BY <3>2, LimitsAssumption DEF AcquisitionInv, CrawlInv, Accounted
  <2>3. sent \in Nat /\ Len(asked) \in Nat /\ FetchLimit \in Nat
    BY FetchAssumption
    DEF AcquisitionInv, FetchInv, FetchTypeOK, CrawlInv, CrawlTypeOK, FetchLimit
  <2>4. QED BY <2>1, <2>2, <2>3, LimitsAssumption DEF LoadIsBounded
<1>2. QED BY <1>1, AcquisitionInvariant, PTL

\* At least the first half of a sitemap is spanned by the probe.
THEOREM AcquisitionSample == Spec => []SampleCoversHalf
<1>1. AcquisitionInv => SampleCoversHalf BY DEF AcquisitionInv, FetchInv
<1>2. QED BY <1>1, AcquisitionInvariant, PTL

\* No URL is asked for twice.
THEOREM AcquisitionOnce == Spec => []AskedOnce
<1>1. AcquisitionInv => AskedOnce BY DEF AcquisitionInv, CrawlInv, Accounted
<1>2. QED BY <1>1, AcquisitionInvariant, PTL

\* The depth of a page is its distance in clicks.
THEOREM AcquisitionDepth == Spec => []DepthIsClickDistance
<1>1. AcquisitionInv => DepthIsClickDistance BY InvDepth DEF AcquisitionInv
<1>2. QED BY <1>1, AcquisitionInvariant, PTL

\* A crawl that nothing stopped found the pages within reach, and no others.
THEOREM AcquisitionComplete == Spec => []CompleteBelowLimits
<1>1. AcquisitionInv => CompleteBelowLimits BY InvComplete DEF AcquisitionInv
<1>2. QED BY <1>1, AcquisitionInvariant, PTL
=============================================================================
