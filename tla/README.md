# Web Auditor in TLA+

Web Auditor is a FastAPI application that audits web sites. A request, the
scheduler or the command line puts an audit run into a PostgreSQL table; one
worker process, started on demand by the web application, claims runs from that
table, fetches and crawls the site, runs eleven audits, stores a snapshot and may
mail a report. The database is the queue, a lock file and a heartbeat file are
what keeps one worker alive, and nothing else coordinates the processes.

This directory specifies that core and what it serves: the acquisition of a site, the
audits with their scores and the report, and the dashboard's accounts, sessions, sites
and Google connections. TLC checks it, and TLAPS proves every safety invariant that TLC
finds true, for every number of processes, requests, pages and accounts and for every site.
Paths below are relative to the repository root.

## 1. Inventory

| Component | State | Operations | Interacts with |
|---|---|---|---|
| Run queue and executor (`app/runner.py`, `app/models/run.py`) | rows of `sites`, `audit_runs`, `pages`, `sub_audit_results` | `create_pending_run`, `reap_stuck_runs`, `execute_run`, `run_audit` | every other part through the database |
| Worker loop (`app/worker.py`) | the `_stop` event, the heartbeat thread, the time it was last active | `run_forever`, `process_once`, `_next_pending`, signal handlers | queue (claims), worker control (lock, heartbeat), mail |
| Worker control (`app/worker_control.py`) | `.worker.lock`, `.worker_state.json` | `acquire/release_single_instance`, `write/clear_heartbeat`, `worker_status`, `ensure_worker` | web application (spawns), operating system (locks, pids) |
| Scheduler, CLI (`app/scheduler.py`, `app/cli.py`) | none | `enqueue_all`; `run_audit` in process | queue; the CLI executes beside the worker |
| Dashboard (`app/web/routes.py`) | none of its own | run, delete and create sites, start the worker, users, settings | queue, worker control, tenancy |
| Tenancy and plans (`app/tenancy.py`, `app/plans.py`) | accounts, sites per account | default account, `owned_site`, plan limits | dashboard, scheduler |
| Visitors and users (`app/onboarding.py`, `app/auth.py`, `app/magic.py`) | session cookie, users, one-time links | visitor audits, e-mail capture, set-password, roles | dashboard, mailer |
| Google connections (`app/connectors/*`, `app/web/connections.py`) | `connections` rows, OAuth state in the session | connect, callback, bind, disconnect, fetch during a run | executor |
| Acquisition (`app/acquisition/*`) | the frontier of one crawl, the list of one sitemap | `fetch`, `crawl`, `render`, PageSpeed, screenshot | executor |
| Audits, scoring, weighting (`app/audits/*`, `app/scoring.py`, `app/weighting.py`) | none | checks to scores, completeness, site score | executor, reporting |
| Reporting and remediation (`app/reporting/*`, `app/remediation/*`) | none | views of runs, grades, ranked fixes, the mailed report | dashboard, worker |

Hard behaviours, all listed with their lines under `hazards` in `PROJECT.json`:

* requests that check, insert and re-read in separate statements, with a partial
  unique index as the only arbiter;
* a worker that dies in an audit, and a successor that must fail what it left;
* the CLI, which executes outside the lock;
* a site deleted, its runs with it, while requests and executions hold it;
* a heartbeat file written, read and unlinked by several processes without a lock,
  naming processes that may be dead, zombies or losers of the lock;
* a worker that leaves for idleness while a run is queued;
* a session that lives in a cookie, which every response replaces by the copy its
  request came with, seconds or a minute earlier;
* sites that are counted, looked for and inserted in separate statements, by three routes;
* a consent that takes three requests through Google in a browser that may change its
  user, a bind without a unique constraint, and a run that writes a connection's status
  long after it read it;
* a crawl over whatever graph of links and redirections the site has, under three limits;
* means of means of checks, with parts that could not be assessed at each level, and
  eleven modules whose check keys must agree with a catalogue of their own.

What makes each part correct: single-flight per site; each run claimed once, and ended
once as long as workers come; a request refused only for a race it lost; a complete run
is one whole snapshot; a report mailed once at most; one worker with the lock; a wrong
heartbeat put right; a queued run claimed while somebody asks for a worker. A crawl asks
each URL once, stays within a load that does not depend on the site, and misses nothing
unless it hit a limit. A mean stays between what it is a
mean of; a check that pulls a score down, and a part of the page shown in red, has work
in the action list; a source that fails changes only what reads it. Visitors
are asked for an email, and plans limit the sites, as far as the code's checks reach when
requests overlap; a session names somebody who exists; a connection belongs to a site of
the account that consented, and stays disconnected.

## 2. Modules

| Module | Models |
|---|---|
| `RunLifecycle` | Abstract: what a user is promised of a run. Pending, running, complete or failed, one active run per domain, gone with its site; and, as `Progress`, every queued run is claimed and ends. |
| `RunQueue` | `runner.py`, the claim and loop of `worker.py`, `delete_site`, the CLI and `email_report`, one action per committed transaction or per statement between which others run. |
| `MCRunQueue` | `RunQueue` for TLC (symmetry of workers, used by the safety run only). |
| `RunQueueProofs` | Type correctness, single-flight, claimed-once, complete snapshots and mailed-once, for all constants; what holds while only workers execute, why requests are refused, and the refinement of `RunLifecycle`. |
| `WorkerControl` | `worker_control.py`, process life, heartbeat thread and exit path of `worker.py`. |
| `MCWorkerControl` | `WorkerControl` for TLC. |
| `WorkerControlProofs` | Type correctness and one worker with the lock at a time, of `WorkerControl` and, through a refinement, of `Dispatch`. |
| `Dispatch` | Extends `WorkerControl` by the queue (counted), the poll loop, idle shutdown and the requests that queue and then call `ensure_worker`. |
| `MCDispatch` | `Dispatch` for TLC. |
| `Fetch` | `acquisition/fetcher.py`, request by request: home page, robots, sitemap or index with its children, the probe of sampled entries, sensitive paths, connection checks. |
| `Crawl` | `acquisition/crawler.py`: the frontier, its limits, redirections, requests that fail and exceptions nobody catches. |
| `Acquisition`, `MCAcquisition` | Both in the order of `execute_run`, with fairness; the sites TLC crawls. |
| `Induction` | Induction on naturals, over all of them and up to a bound, and the iteration of a function: for the proofs about clicks, sums and folds. |
| `AcquisitionProofs` | Load, sample, asked once, click distance and completeness below the limits, for every site. |
| `Scoring` | `scoring.py`, `weighting.py`, the records of `audits/base.py`. |
| `TrustAudits`, `SeoAudits`, `ContentAudits` | The eleven audits, each an operator from an observation to its categories. |
| `Catalogue` | The remediation catalogue's rows, its lookup and the ranking. |
| `Report` | Page one and the action list. |
| `SiteAudit`, `MCSiteAudit` | A site's facts, edited by its owner; runs that observe them through sources that may fail. |
| `ScoringProofs` | Sums, weighted and geometric means, the rows of the catalogue, the action list and page one. |
| `AuditProofs` | What each of the eleven audits emits, and which facts it reads. |
| `SiteAuditProofs` | The results and findings of a run, what a failing source changes, and the theorems about `SiteAudit`. |
| `Accounts` | Accounts, users, sessions, visitors, plans and sites: the routes of `web/routes.py` with `auth.py`, `tenancy.py`, `plans.py`, `onboarding.py`, `magic.py`. |
| `Connections` | Consent, bind, disconnect and the fetch in a run; extends `Accounts`. |
| `Dashboard`, `MCDashboard` | Their composition (deleting a site is a step of both) and properties; the databases TLC starts from. |
| `DashboardProofs` | Audits without an email, limits, types, connections, disconnections, for all constants. |

How they compose: `RunQueue` implements `RunLifecycle` and leaves a run's contents out;
`Acquisition` and `SiteAudit` are what happens in its steps `gather` and `audit`. `Dispatch`
extends `WorkerControl`, which it also implements, and counts the runs. `Dashboard`
composes `Accounts` and `Connections`; a request that queues a run ends there where
`RunQueue`'s request begins.

### RunQueue and the code

`pc[r]` is the statement request `r` has reached in `create_pending_run`: `Lookup`
is the query for the site, `NewSite` the branch without one, `CheckActive` the call
of `_active_run_id`, `Insert` the commit, `Reread` the `IntegrityError` branch.
Requests are numbered in the order in which their transactions begin, which is the
order of `created_at` (PostgreSQL's `now()`), and request `r` inserts run `r`. The
session neither autoflushes nor expires on commit (`db.py:12`), so a request goes on
with the site row it loaded: `seen[r]` is that row's identity, and a deleted site
shows as another identity.

`at[e]` is the statement of an executor: a worker (`select`, `reap` in
`reap_stuck_runs`; `poll`, `claim` in `_next_pending`; `start` to `results` in
`execute_run`; `email`) or a CLI process, named by its request. `stuck[w]` is what a
reaper selected, since select and update are two statements. `RowLocked` are the rows
selected `FOR UPDATE`, which other claims skip, other updates wait for and a deletion
waits for; flushed rows hold their run by the foreign key (`InUse`). `pages` and
`results` count committed sets: pages are committed with the connectors
(`runner.py:189`), results with the final status (`runner.py:241`), so a run that
fails in between keeps its pages.

The acquisition, the audits and the score are steps without content. Every statement
of the `try` block may raise (`Fail`); with `RecordMayFail` the database may also
refuse to record a status (`FailUnrecorded`). With `LockFaults` the lock file may fail
to open, which lets a worker in (`worker_control.py:129-132`).

### WorkerControl and the code

`life`, `at`, `beating`, `stop` describe a worker process: dead, alive or a zombie its
web process has not waited for; the statement of `run_forever`; whether the daemon
thread runs; the `_stop` event. `lock` is the file lock's holder, `handle[p]` is
`_lock_handle` in process `p`: a worker that can not open the lock file (`EnterUnlocked`,
`worker_control.py:129-132`) runs without one, beside whoever has the lock, beats over the
heartbeat and releases nothing. `MaxCrashes` bounds this with the other faults. `write_heartbeat` is two steps because `write_text`
truncates and then writes (`hb` is "torn" in between, and `writing` remembers whether
the file was unlinked meanwhile). `clear_heartbeat` is two steps, its test and its
unlink, and runs twice: in the `finally` clause and, after the lock is released, at
exit. `ensure_worker` is `Check`, `Spawn` (in which CPython first waits for dead
children), `ClaimOpen` and `ClaimWrite`. `Expire` is the passing of
`STALE_AFTER_SECONDS`; it needs that no heartbeat thread runs, since a thread beats
three times in that time. `Leave` ends the loop at any time; `Dispatch` says when.

### Dispatch and the code

`Submit` is `run_site` or `start_audit`: the run is committed, then `ensure_worker`
runs. `ProcessOne` and `ProcessNone` are `process_once`; after an empty look the worker
either waits (`Wait`) or leaves (`IdleLeave`), and does not look again in between.

### Fetch and Crawl and the code

`Fetch` keeps a sitemap as the number of pages it lists, and a page as its position, which
is all that `locs[::step][:sample]` reads. `stage` is the next statement of `fetch`; each
step sends the requests that statement sends, counted in `sent`. `Refuse` is
`httpx.InvalidURL`, which is no `HTTPError` and so leaves `fetch`.

`Crawl` has the variables of `crawl`: `queue`, `seen`, `done`, `pages`; `links` and
`here` are the position in the inner loop. `web` is the site, chosen at the start from
`Webs`: where each URL redirects and which links the document there has. An iteration is
one of `Unreachable`, `Known`, `Record` and `RefuseRequest`, then one `Follow` (or
`RefuseLink`, a `ValueError` of `urlsplit`) per link. `asked` records the requests for the
properties. `Acquisition` runs one after the other.

### SiteAudit and the code

`site` is a record of facts: what a request, a regular expression, a count or Google finds.
`Observed` is what a run gets to read when the sources in `faults` fail: which facts the
code then leaves at their defaults (a failed fetch loses the sitemap's posts, for instance,
and not those among the crawled pages, `PostsOf`). `Results` are the modules of `AUDIT_MODULES` in their order,
on that observation. In an audit, every check is there with its conditions, its scores,
status, severity and detection tag, and every category with its weight and whether it
applies; texts are not. Scores are whole points, means whole hundredths that round down.
`Measured` is what the theorems assume of a site: it has the facts in `FactNames`, its
counts are counts, and a part is at most its whole (`sample`, `images`, `coverage`).
`Edit` changes one fact, `Execute` is a run; the report is a function of the run, as in
the program.

### Dashboard and the code

`cookies[c]` is the session of browser `c`: its user and the visitor's record `ob`. A request
that takes several transactions holds a slot of `requests`, with the copy of the cookie it
came with; `Answer` writes that copy back. `StartAudit`, `CreateSite` and `RunSite` are the
handlers up to what they look up; `FindSite` is `create_pending_run`'s look for the site,
`InsertSite` and `RefuseSite` the insert with its unique constraint. The other handlers are
one transaction and one step.

Two variables are not in the program, they record for the properties what visitors got:
`unmailed[c]` counts the audits that were queued (`Queue`) for browser `c` by requests that
came without a captured email, while nobody was signed in there, since the last sign-in
or sign-out; `opened[a]` counts the sites that audits inserted in account `a`, which
`start_audit` does without a look at the plan.

A row of `rows` is a connection. `consents` and `grants` are the encrypted values that
browsers carry, which no one can make up but anyone may replay; who consented and who
bound is recorded in them for the properties only. `BindLookup` and `BindCommit` are the
two ends of `google_bind`. `LoadRows`, `FetchRow` and `LoadEnds` are
`load_google_connectors`; SQLAlchemy writes a status only when it differs from the one
read, which `FetchRow` has. `Cascade` is what the foreign keys do at `DeleteSite`.

## 3. Runs

| Run | Shows | Bounds |
|---|---|---|
| `queue` | `TypeOK`, `ExecutedIsRunning`, `NoOrphanWhileServing`, `OneSnapshot`; `RefusedWasOvertaken` (a request ends with an error only when another made the site it found absent, or when the run that stood in its way ended or the site was deleted between its two looks); `LifecycleRefined` (the queue implements `RunLifecycle!Safety`, and `Progress` as long as workers keep coming); `AcceptedEnds` (a request that got a run id sees the run end, under the same assumption) | one domain, three scheduled requests, two workers, two crashes or signals, one deletion |
| `queue_faults` | `SingleFlight`, `ClaimedOnce`, `CompleteHasSnapshot`, `MailedOnce`: what the database must guarantee when the lock does not | one domain, two requests, each scheduled or CLI, two workers at once, one deletion, failures to record; no crash |
| `queue_cli` (violated) | `RunMovesForward`, README.md:95 | one CLI call, one worker |
| `queue_email` (violated) | `ScheduledRunMails`, scheduler.py:5-6 | two requests |
| `worker` | `OneWorker` (of the workers past `acquire_single_instance` one at most has the lock), `HeartbeatHeals`, `DeadIsNoticed`, `SignalledGoes` | two processes at a time (a slot is used again), one request at a time, one crash, exception or lock file that can not be opened, one signal |
| `worker_wipe` (violated) | `WipesOnlyItsOwn`, worker_control.py:87-91 | the same |
| `worker_zombie` (violated) | `KilledIsNotReported`, worker_control.py:107-109 | the same |
| `dispatch` | `AskersAreServed`, and `KeepsControl`: `Dispatch` implements `WorkerControl` | two processes, one run, one fault of any kind, idle shutdown |
| `dispatch_lost` (violated) | `QueuedIsServed`, routes.py:481 | the same, no fault |
| `acquisition` | `LoadIsBounded`, `AskedOnce`, `SampleCoversHalf`, `DepthIsClickDistance`, `CompleteBelowLimits`, `AcquisitionEnds` | 9 URLs, 4 pages, 2 clicks, 5 URLs noticed, one lost request; sitemaps of 0, 3 and 7 pages, indices of 1 and 3 children of which 2 are followed, 8 pages kept, 2 sampled |
| `dashboard` | `EmailComesFirst` (no more audits without an email than parallel requests), `LimitOvershootBounded` (all sites of an account but those that audits opened are fewer than the limit plus the parallel requests), `GrantStaysWithItsAccount`, `DuplicatesBounded`, `DisconnectHolds` | one browser, two requests, three users, four domains, a plan of two sites, one source, three connection rows, one change of a role |
| `site_audit` | `ActionableIsListed`, `LowScoreIsActionable`, `MeansStayInside`, `SecretsReachPageOne`, `RedPartsHaveWork`, `FailuresAreContained` | two sites, one edit from each to 2 to 5 values of each of its facts, ten sets of sources that fail together over a profile, five over an edited site, none failing among them |

`queue`, `worker`, `acquisition`, `dashboard` and `site_audit` also check the type invariant of
their module.

Why the bounds are enough. Domains interact only through the worker's order of claims
and through reaping, so one domain has all the contention there is. Three requests are
a winner, a loser of the race and one that comes after the winner's run has ended;
two crashes are a crash in an audit and one in the recovery from it. Two processes are
a worker and the one that is spawned beside it or succeeds it; a third would lose the
lock as the second does. A larger number of each is covered by the proofs for the
safety properties.

What these bounds leave out: `queue_faults` has no crash, which with two workers past the
lock multiplies its states beyond what is useful; a crash between the commit of a run and its
mail is in `queue`, and with all other faults in the proof of `MailedOnce`. `worker` and
`dispatch` have one request at a time in `ensure_worker`; two calls that both see no worker
are covered for `OneWorker` by its proof, which has any number of them, while for the
liveness properties two processes with a claim in between are what a second call leaves
behind.

The sites of `acquisition` have cycles, two links to one page, a link that redirects to a
sibling, to a page met before and to another host, an image, a link that can not be parsed
and one that can not be requested. Its limits are small enough that each is hit in some of
them and none is in others; two children of an index pass the limit of pages by one.
`SampleCoversHalf`, `DepthIsClickDistance` and `CompleteBelowLimits` are proved for all of them.

In `dashboard`, the sites that audits opened are few (the databases have room for one
site or none where visitors come); `OvershootTheorem` has any number of them. One browser is enough, because it may sign in as any user, and overlapping
requests of one browser are where the cookie is contended. It starts from four databases:
an empty one, where visitors come; two with a customer at the plan's limit; one with
Google configured and two sites. Two constraints keep the parts apart that share nothing
but the user: connections and roles are explored while no site request is under way and
not together, and Goyande's own unlimited account has sites only while no other has any.
The proofs have none of these bounds.

In `site_audit` the healthy site passes every check and the poor one fails almost all, so
each edit shows a check in both company; two facts edited together would show nothing of
a check that reads one, and the few checks that read several have their combinations
among the values of the facts. `FaultSets` says which sources may fail next: a run in which
some failed is followed by runs in which more fail, which is every comparison that
`FailuresAreContained` needs, since what it says of two runs it says of them in the other
order. The theorems have no such bounds: any profiles, any edits and any sources that fail.

The deadlock check is off in every run because the system may
stop: once the bounded requests are answered and the worker has left, nothing needs
to happen.

The five violations are disagreements between the code and its own documentation, met
while modelling and described under `findings` in `PROJECT.json`:

1. the CLI takes a run that a worker has ended back to running (`queue_cli`);
2. a scheduled audit that collapses into a dashboard run is not mailed (`queue_email`);
3. an exiting worker can unlink its successor's heartbeat (`worker_wipe`);
4. a dead worker is a zombie of the web process and reported running (`worker_zombie`);
5. a run queued while the worker leaves for idleness has no worker (`dispatch_lost`).

Other disagreements, seen while modelling and not run: `fetch` says "Never raises" and
`load.py` "must never break an audit run", but `httpx.InvalidURL`, a `ValueError` of
`urlsplit` and a site deleted during the fetch do leave them and fail the run;
`_probe_sitemap_urls` samples the head alone of a list of 26 to 49; a disconnection is undone by
a run that read the connection before; `presentation.py:47-49` lets severe foundations
findings surface, yet they may be crowded out of the five fixes when they rank low;
`onboarding.py:3-6` allows a visitor so many audits, but overlapping requests count as one,
and a response may put back an older count; `plans.py:3-5` limits the sites of an account,
but `start_audit` and `create_pending_run` insert sites without that check;
`worker_control.py:9` has one worker at a time, but not when the lock file can not be
opened; a response that began before a logout signs the browser in again; a failed fetch reports that no sensitive path is exposed; a failed render reports a missing
privacy policy; `analytics.py:60` says that without a usable render nothing is assessed, but
its guard wants both the page and the requests missing; the branch for a depth of four clicks can not be
reached with `MAX_DEPTH` at three; a page whose last answer is a redirect without a
`Location`, which the model leaves out, lowers the status score and is no error; a sitemap whose sample only redirects warns with a full
score; the verdict may praise a pillar that is itself a problem; an owner who is promoted
can be demoted.

`DeadIsNoticed`, `HeartbeatHeals` and `AskersAreServed` are what holds instead of 3 to 5:
the wrong report does not last, and the next request that asks is served.

## 4. Fairness

`RunQueue!Fairness`: a worker that is alive takes its next step (`at[w] # "off"`), and each
executor finishes the run in its hands: fetching, rendering and mailing have timeouts in
the code. Requests, stops, crashes, deletions and idle shutdown are never forced, and
neither is the start of a worker: the scheduler never calls `ensure_worker`, and
`dispatch_lost` shows a run that waits with nobody coming. That workers keep coming
(`WorkersKeepComing`, weak fairness of `Acquire` by some worker) is therefore an assumption
written in the properties that need it: `AcceptedEnds` as a whole, and `Progress` in
`LifecycleRefined`, whose safety part has none. `AskersAreServed` says when the program
meets it: somebody keeps asking.

`WorkerControl!ControlFairness`: each thread of a live worker takes its next statement,
which in the loop, once `_stop` is set, is leaving it (the event ends the wait, and an audit
ends), requests in `ensure_worker` finish, and time passes. Adopting orphans is not
fair: the web process may live for ever, and the properties do not lean on it.

`Dispatch!Fairness` is the same with the loop over the queue in place of leaving.
`AskersAreServed` has its assumption, that somebody keeps asking, in the formula.

`Acquisition!FairSpec`: the executor's thread takes its next step. Every request has a
timeout, and parsing ends. No fairness is assumed of the dashboard or of edits and runs:
nothing there is claimed to happen.

## 5. Proofs

All theorems hold for every number of domains, workers, requests, processes and faults,
for every site crawled or audited and every limit, and for every number of browsers and
accounts. Every invariant and every action property that a passing run checks is among
them; what only TLC checks is at the end of this section.

### The queue

`RunQueueProofs`, without conditions (CLI, lock faults, failures to record included).
`SingleFlight` is not inductive. The partial unique index guards `Insert` and `Start`,
but two other actions make a run active or insert one unguarded: `ClaimCommit`, harmless
only because the selected row is locked and still pending (`ClaimStillPending`), and
`NewSite`, harmless only because a domain without a site has no active runs
(`NoSiteNoRuns`) and the run inserted was not there before (`NotYetInserted`). A reaper
must not touch a run that has yet to start (`StuckStarted`). `IInv` is the conjunction,
and one lemma or step per action shows that it is kept. `ClaimedOnce` needs
`WorkedOnStarted`: a claimed run never becomes pending again. `CompleteHasSnapshot` and
`MailedOnce` rest on `OutcomeInv`: an executor past the pages has committed them, also
when somebody else has failed the run meanwhile (`PagesDurable`), and only the one worker
that holds a run, after its results, is in a place to mail it (`MailedByExecutor`).

Its second half is under the named assumption `WorkersOnly` (no CLI, a lock that works,
statuses that are recorded). The strengthening `CInv` adds that the lock's holder is the
one live executor (`LockHeld`, `CliOff`), that a reaper has selected exactly what runs
(`ReapExact`), and that pages follow the executor's phase (`FreshIsEmpty`,
`PagesFollowPhase`). From it: `OneSnapshot`, `NoOrphanWhileServing`, `ExecutedIsRunning`,
the refinement `Spec => Lifecycle!Safety` and `RunMovesForward`, which the run
`queue_cli` shows to fail once the CLI takes part. `RefusedWasOvertaken` needs
`RefusalInv` beside it: a site that is there since a request inserted it names that request,
which had found none and has returned (`SiteMade`, `FoundAbsent`), so the loser of that race
finds the winner; no site that was deleted comes back (`SeenMade`); and what made the
database refuse an insert, a deletion or another's run, stays the case or has come to its
end when the request looks again (`ConflictHasCause`, with `ForwardStep`).

### Workers

`WorkerControlProofs`: a process that has the handle of the lock file is the lock's holder
and past taking it (`Holder`); with the type invariant it is inductive, and gives
`OneWorker` whatever the heartbeat says and whoever entered without the lock.
`DispatchKeepsControl` is the safety part of the refinement that the run `dispatch` checks: each step of `Dispatch`, of the loop over the queue, of idle shutdown
and of the requests, is a step of `WorkerControl` or none of its variables, so
`OneWorker` carries over; `DispatchInv` adds that only a worker that serves has
looked at an empty queue, and that what is pending was queued.

### Acquisition

`AcquisitionProofs`: `CrawlInv`. Every URL noticed was asked for or waits, and none twice
(`Accounted`), which bounds the requests by the URLs and gives `AskedOnce`. The queue holds
one depth and then the next, and no page is deeper than what waits (`Levels`): that is why
a breadth-first crawl records distances. Each link of a recorded page waits, failed, is
recorded near enough, or met the limit on URLs, and when it met that limit all that is
left is no deeper (`LinksFollowed`). `DepthIsClickDistance` follows. `CompleteBelowLimits`
compares the recorded pages with `WithinClicks`, a recursive function: it is first shown to
be one (`ClicksEquation`, by `Iteration`), then both inclusions go by induction over
clicks. For a recorded page the induction follows the parents that brought its URL there
(`AnsweredWithin`), for a reachable one it follows the links, each of which a crawl below
its limits has recorded (`UnstoppedFollows`, `WithinAnswered`). The second part bounds the
requests of each stage of the fetch, and shows with division of naturals that the last
position sampled is past the middle.

### Dashboard

`DashboardProofs`: `SitesInv`. Cookies and the copies in requests obey the same rules
(`Sound`), and an audit under way was allowed by its copy (`Admitted`), so writing any copy
back keeps them. For `EmailComesFirst`, a cookie that counts no audit proves that every
audit queued without an email is still unanswered: those queued and those to be queued fit
among the requests under way, and once an answer has written its count no further one is
let in (`FirstAudits` with `Early` and `Unqueued`; only who is signed in creates or runs a
site, `EarlyInv`, and whose answers write the user back). For the plan's limit, the domains an account has or
will have from requests past their look (`Held`, `Placing`) are fewer than the limit plus
the parallel requests and the sites audits opened (`Overshoot`): a creation that passed the
count has its own place among the requests, and a run's domain was there when the run
began, so inserting a site again after a deletion adds none. Site ids are not reused
(`SiteKeys`). `ConnectionsInv`: whoever consented or binds did so for
the account of the site, which an id that is not reused keeps naming (`Granted`); rows plus
binds about to insert fit in the slots (`Placed`). `DisconnectHolds` is an action property:
a run loads only rows that are not disconnected (`LoadedConnected`), so the one step that
reconnects a row without a bind is that of a run that loaded it before the disconnection.

### Audits, scores and the report

The state of `SiteAudit` is small and its invariant `SiteInv` says that a run stores what
was computed from what was measured; the proofs are about that computation.

* `ScoringProofs`. A fold over a sequence is a sum, and its partial sums stay on the side of
  a bound that the parts are on (`SumsAboveBound`, `SumsBelowBound`, by induction up to the
  length). Hence a weighted mean lies between its parts, whichever of them are unassessed;
  rounding down keeps it there, since the parts are whole hundredths. `Ranking`: the action list is a
  permutation of the findings that can be acted on and have an entry, in the order of their
  keys, with equal keys in the order of the run. Every row of the catalogue has an impact and
  an effort on their scales, and a page-one fix that the demotion does not name is never
  moved back (`PageKeeps`).
* `AuditProofs`. For each of the eleven audits and every observation a run may have: the
  checks it emits have their types, keys that its catalogue explains when they can fail or
  warn, and a score below 50 only as a warning or a failure (`Emitted`); categories have
  their keys and weights. And what it reads: two observations that agree on the facts in
  `Reads` of an audit give the same categories.
* `SiteAuditProofs`. Results and findings of a run are put together from these:
  `TypeOK`, `LowScoreIsActionable`, `ActionableIsListed` and `MeansStayInside` follow, the
  last one with the geometric mean of the content strategy (`GeometricMeanBetween`).
  `RedPartsHaveWork`: a red pillar is a mean below 50, so one of its audits is, so one of its
  categories is, so one of its checks is; that check is a warning or a failure, and has a row.
  (For the content strategy the headline is a mean as well.)
  `SecretsReachPageOne`: only four checks have the highest impact with the lowest effort
  (`UrgentChecks`); each audit emits them in one place (`AuditSingle`), so each is found
  once; therefore an exposed secret, which is severe when it fails, is among the first four
  of the action list (`SecretsLead`), and the demotion and the cut to five fixes leave it
  there. `FailuresAreContained`: what an observation shows of a fact depends on the sources
  that give it alone (`ReachedAgree`, `ObservedAgree`); an audit that reads no source which
  failed in one of two runs alone sees the same in both (`PageAlike`), and build security,
  which reads the fetched page, and analytics, which reads the rendered one, have a lemma
  each.

### Assumptions

Those of the modules: `ConstantsAssumption`, `ControlAssumption`, `DispatchAssumption`,
`UrlsAssumption`, `LimitsAssumption`, `FetchAssumption`, `AccountsAssumption`,
`ConnectionsAssumption`, `ScoresAssumption` and `RemediationAssumption` (`None` is no
score and no entry), `SitesAssumption` (profiles and edits are such as can be measured), and
`DatabasesAssumption`, what a database is like that the program itself has filled. TLC
evaluates each of them in some run.

### Only model-checked

`AcceptedEnds`, `HeartbeatHeals`, `DeadIsNoticed`, `SignalledGoes`, `AskersAreServed`,
`AcquisitionEnds`, `Progress` in `LifecycleRefined` and the fairness part of `KeepsControl` are
liveness, which needs ENABLED and is out of the prover's reach. The five properties that
a run shows violated are not theorems, of course; `RunMovesForward` is one where the CLI
takes no part.

`SelectSeq` and the choice of an order in `SetToSeq` (the titles of the crawled pages) can
not be expanded by the prover: the proofs use only that equal arguments give equal results.

## 6. Not modelled

* The CLI's own `--email` (`cli.py:51-54`), so `MailedOnce` is about workers' mail; an
  exception of the database in `_next_pending`, which ends the worker as a crash in
  `poll` does.
* Windows' locks and pids; a heartbeat file that can not be written or removed
  (`write_heartbeat` and `clear_heartbeat` ignore the `OSError`: for as long as it lasts the
  file stays as it was, and `HeartbeatHeals` has nothing to say); reuse of a pid that the
  heartbeat still names; the restart of the web process from its own page.
* Which sites the scheduler walks over: it passes a domain alone, see `hazards`.
* `mailer.py` and `config.py`: one call without state, and settings read once.
  `set_password.py`: a command that edits one row.
* Edits of a site's profile, which change flags no other handler compares; pages that
  only read; the creation of the default account; the normalisation of domains.
* Texts of findings, also where another source decides them: whether GA4 is connected
  chooses the wording of one check of the content strategy (`content_strategy.py:293`) and
  neither its score nor its status, so `ReadersOf` has that audit read GA4 not at all.
* What finds a fact in a page (regular expressions, HTML parsing, fingerprints' patterns),
  rendering, PageSpeed, screenshots, prompts and the language model's answers: they are
  the values and the failures of facts.
* The comparison of a run with the previous one (`view.py`), templates, wording and the
  PDF; the texts of the catalogue; the JSON of evidence.
* Migrations, which are generated.

`components` in `PROJECT.json` has the status of each part.

## 7. Plan

Done: the run queue and its refinement, worker control and dispatch, acquisition, scoring,
audits and report, dashboard and connections, with the proofs of section 5.

What could follow, in this order:

1. The comparison of runs (`view.py:102-140`), over `SiteAudit`'s successive runs.
2. The scheduler's walk by domain over accounts, joining `Accounts` and `RunQueue`.
3. More of what one page promises, proved from `Ranking`: that the fixes after the first
   four are in order, and that a demoted finding is shown when nothing else fills the page.
4. The order of a run's statements in `Acquisition` and `RunQueue` joined in one refinement.
