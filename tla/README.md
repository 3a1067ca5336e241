# TLA+ models of the ContextQMD registry

The registry (a Rails application on PostgreSQL with Solid Queue, its pages in
React over Inertia) crawls the documentation of software libraries, stores it as
libraries, versions and pages, packs it into bundles, serves it over an API,
watches the upstream sites for new versions, and counts the visits to its pages.
Two parts are hard to get right and hard to test. On the server, web processes,
job workers, administrators and crashes meet on the same rows. In the browser,
pages hold copies of what the server said, and clicks, timers, pushed messages
and answers that overtake one another change them in any order. Both are
modelled here.

Conventions. A comment above an action or a property names the code it stands
for; the file and lines of every definition are in `PROJECT.json` ("map").
An action is one transaction, or one statement outside a transaction: between
two actions anything else may happen. A record that the code keeps in memory
(`crawl_request` in a job, `@crawl_request` in a controller) is a variable of
its own (`mem`), because the guards of the models test that copy and not the
row. In the browser JavaScript runs one callback at a time, so
there an action is one callback up to its end or its first await, and what a
page keeps (the URL, React state, refs, props, requests under way) are the
variables. Definitions called *variant* in a comment are wrong on purpose: they
are what the mutants of `PROJECT.json` put in the place of the real definition,
to show that the property notices.

## 1. Inventory

| # | Component | State | Operations | What makes it hard | Status |
|---|---|---|---|---|---|
| 1 | Crawl request and standard pipeline (`CrawlRequest`, `StandardCrawl`, `ProcessCrawlRequestJob`, cancellation controller) | row `crawl_requests` (status, error, library), jobs in a second database | `enqueue_processing`, `begin_processing!`, fetch, import, `mark_completed/failed/cancelled`, retry | guards test copies in memory; creation and enqueue are two commits; jobs may run twice | modelled, proved |
| 2 | Website crawl (`WebsiteCrawl`, `ProcessWebsiteCrawlJob`, `CleanupWebsiteCrawlStateJob`) | rows of the crawl, its URLs and pages, two counters, the continuation of the job | `start!`, `prepare!`, `fetch_pending!`, `publish!`, `cleanup!`, `fail!`, resume, retry | a job interrupted at checkpoints and resumed; two rows (crawl, request) kept in step by hand; half-written URLs | modelled, proved |
| 3 | Version checks (`LibrarySource`, `CheckDueLibrarySourcesJob`, `CheckLibrarySourceJob`) | schedule, claim, signature, active refresh requests | `enqueue_version_check!`, `check_for_new_version!`, the `record_*` methods | the probe runs outside the lock; claims expire; retries; duplicates | modelled, proved |
| 4 | Analytics rollup refresh (`Analytics::RollupRefresh*`) | request and processed version, enqueue marker, advisory lock, rollup rows | `enqueue`, `perform`, cleanup | coalescing: a request must not be lost between a job's last look and its end | modelled, proved |
| 5 | Documentation import (`CrawlRequest::Importable`, `CrawlImport`) | libraries, sources, versions, pages | `import!`, `sync_pages`, `find_or_create_record` | two imports of one library; unique violations inside a transaction | one transaction in 1 and 2; own module planned |
| 6 | Bundles (`Bundle`, `DocsBundle`, `BuildBundleJob`, API download) | bundle status, archive on disk, attachment | `refresh!`, `publish_bundle`, download | builders share a path and an attachment; manifest and pages are two reads; the blob's row precedes its object | modelled but for downloads, proved |
| 7 | Proxy pool (`ProxyPool`, `CrawlProxyLease`, `CrawlProxyConfig`) | leases with expiry, failures, cooldown | `checkout`, `touch_lease!`, `release!`, `record_*` | a lease that expires under its holder is touched again | planned |
| 8 | Profile resolution (`AnalyticsProfile`) | profiles, strong keys, merge pointers | resolve, `merge_profile!` | concurrent merges on stale copies | planned |
| 9 | Google Search Console sync | syncs with a running timeout, connection | `claim_for`, sync, rotate | a sync that outlives its timeout | planned |
| 10 | Live state, visit summaries | broadcasts, summaries | `broadcast_later`, refresh | a debounce only | what they push is an input of 17 and 15 |
| 11 | Accounts, identities, tokens | cancellation, incineration date | cancel, reactivate, incinerate | reactivation against incineration | as the pages see them (21) |
| 12 | Library catalogue (`Library`, `Version`, the admin's and the reader's pages) | default version, rows of versions, search and page of the reader | import, rename, delete, edit, set default, read | the default is a name that may dangle; forms hold old props | modelled but for the API, proved |
| 13 | Analytics tracker (`entrypoints/analytics.ts`) | last page counted, engagement clock, queue of events, timer | `trackPageview`, `triggerEngagement`, `sendEvent`, flush, drain | History API, popstate, fragments, back-forward cache, hidden and unloading documents | modelled, proved |
| 14 | Dashboard URL, query and top bar | the URL, its history, open calendar, form, suggestions | `updateQuery`, codec, canonical form, period menu, filters | all state lives in a URL that is written and read by different code | modelled, proved |
| 15 | Dashboard cards: list panels, behaviors, graph | mode, shown answer, request number, abort, timers | effects, tabs, clicks, pages | answers of old questions; two effects on one flag; three sources of the live count | modelled, proved |
| 16 | Details dialog, visitor journey sheet | rows, page, sort, search, sessions, events | open, close, search, sort, more | dialogs stay mounted; paging races a new question | modelled, proved |
| 17 | Live view (`live/show.tsx`) | sessions, feed, selection, flights, hint, suggestions | push, select, close, search | a flight, a frame, a debounce and a blur timer end later | modelled but for the globe, proved |
| 18 | Analytics settings page (`settings.tsx`) | props, forms, saves and reloads under way | goals, rules, funnels, Search Console | whole lists are saved from props that may be old | modelled, proved |
| 19 | Administration lists (`index-table.tsx`, four lists) | filters, ticks, visit, timer | search, sort, page, act on one or many | visits interrupt one another; ticks outlive rows | modelled, proved |
| 20 | Administration record pages | record, dialog, disabled buttons | every button | an interrupted visit may have reached the server | modelled, proved |
| 21 | Shell prefetching, sessions, account pages | Inertia's cache with tags, session, forms | prefetch, visit, sign in and out, write | cached pages outlive what they show | modelled, proved |
| 22 | Fetchers, component library, charts, maps, static pages | none of their own | read, parse, render | I/O and presentation | not modelled |

How they interact. A user, an administrator or a version check (3) creates a
crawl request (1). After the commit `ProcessCrawlRequestJob` is enqueued in the
queue's database; it runs `StandardCrawl#process` or, for a website, starts a
website crawl (2) with a job of its own. Both pipelines end in an import (5)
that, in one transaction, writes the library and completes the request; bundles
(6) are built from the result. A finished refresh is what a later version check
compares the site with. Administrators cancel requests at any time, and retry
failed jobs from the Mission Control page. The website crawl borrows proxies
(7). Analytics (4, 8, 9, 10) lives in a database of its own and meets the rest
only through jobs; its rows come from the tracker (13) and are read by the dashboard
(14 to 17). In the browser the URL is what the parts of the dashboard share: the
top bar writes it, and every card asks the server again when what it reads of it
changes. The pages outside the dashboard (12, 18 to 21) navigate by visits of
Inertia, of which there is one at a time.

The hazards found while reading, with their lines, are in `PROJECT.json`
("hazards"), with the properties that watch them or the reason why none does.

## 2. Modules

| Module | Models | Role |
|---|---|---|
| `RequestLifecycle` | what a crawl request promises whoever reads its row | abstract specification of 1 and 2 |
| `StandardCrawl` | 1 | detailed specification, refines `RequestLifecycle` |
| `StandardCrawlProofs` | | proofs for every number of workers, jobs, administrators, faults |
| `WebsiteCrawl` | 2 (with 1 as far as it is a website's) | detailed specification, refines `RequestLifecycle` |
| `MCWebsiteCrawl` | | a site of four pages |
| `WebsiteCrawlProofs` | | proofs for every site, limit, runner, number of attempts, administrators and faults |
| `VersionCheck`, `MCVersionCheck` | 3 (the crawls it starts abstracted to their status) | specification; versions of a library and signatures of a website |
| `VersionCheckProofs` | | proofs that a change has one active refresh, and that checks do not pile up |
| `RollupRefresh` | 4 (one bucket of one rollup) | specification |
| `RollupRefreshProofs` | | proofs that what is processed was counted, and that no wake-up is lost |
| `Bundles` | 6 (the full bundle of one version) | specification |
| `BundlesProofs` | | proofs about the archives in the store and the row of the bundle |
| `DashboardUrl` | 14: codec, canonical form, periods, dialogs, modes | operators without state, used by `TopBar` and `Panels` |
| `TopBar`, `Panels`, `Behaviors`, `VisitorGraph`, `Details`, `Journey` | 14, 15, 16 | specifications, composed by `Dashboard` |
| `Dashboard`, `MCDashboard` | | the dashboard for any constants; the values for TLC |
| `DashboardProofs`, `PanelsProofs` | | proofs about the top bar, the graph, the dialog and the sheet; about the list panels and the behaviors panel |
| `Live`, `Tracker`, `AnalyticsSettings`, `AdminIndex`, `AdminRecords`, `ShellCache`, `Catalogue` | 17, 13, 18, 19, 20, 21, 12 (and the part of 5 that sets the default) | specifications, composed by `Pages` |
| `Pages`, `MCPages` | | the pages outside the dashboard for any constants; the values for TLC |
| `PagesProofs` | | proofs about each of these pages |

### RequestLifecycle

Two variables: the row's `status` and the pipeline's `outcome`. Processing
starts at most once and from `pending`; the pipeline decides at most once
(import or failure); the import and `completed` are one transaction. It also
says openly what the code does *not* promise: `Cancel` may overwrite any status,
and a decision may overwrite `cancelled`, because `CrawlRequest` checks
`terminal?` on the copy in memory.

### StandardCrawl

`status`, `error`, `imports` are the row; `lock` is the row lock that the
import's transaction holds from its first `update_progress` to the commit;
`created` says that the enqueue after the commit is still to come; `jobs` are
the rows of Solid Queue with their attempts and owner; `pc`, `job`, `mem` are a
worker's position, job and copy of the record; `apc` is an administrator's
cancellation. One worker goes `begin`, `fetch`, `check` (the reload),
`import`, `locked`, or `rescue`, `rescued`, or `retry`. What a fetch returns is
one of `FetchOutcomes`. Faults (bounded by `MaxFaults`): the web process dies
before the enqueue, a worker is killed or releases its job, a worker is pruned
as dead and runs on, a failed job is retried by hand. All of them are behaviours of
Solid Queue and Mission Control as the application configures them; they are
marked external in the map.

### WebsiteCrawl

One crawl and its request. `crawl`, `runner`, `found` (the URLs in insertion
order), `state` (of each URL), `pages`, `discovered`, `processed` are the rows;
`queue` is the job with its attempts, completed steps and continuation;
`advanced` is what Continuable looks at to requeue a failed execution for free;
`pc` walks through `perform`, each statement of `process_snapshot!` on its own,
so that an execution can die between two of them. The site (`Links`), the limit
(`website_max_pages`; 0 for none) and the runner asked for are constants; what
one visit returns (`page`, `links` without content, `nothing`, a script
`shell`, a transient or a permanent error) is an input. The queue
`crawl_website` has one thread in one process (`config/queue.yml`), so there is
one execution at a time.

### VersionCheck

One active primary source. Times are countdowns that `Tick` decrements: `claim`
to the expiry of the claim, `next` to `next_version_check_at`, `sinceChange` up
to the end of the hot window. Callers are everything that calls
`enqueue_version_check!`; jobs are `CheckLibrarySourceJob`s from enqueue to end.
`Probe` reads `upstream` outside the lock, `LockAndDecide` takes the row lock
and decides on what is stored *now*, `Record` writes and commits. The refresh
requests run through the statuses components 1 and 2 give them; a completed one
stores its version. The site publishes something else, or something unreadable,
at any time (`Publish`). `Kinds` are the kinds of source to start from, and `kind` is
the one at hand: whether the source is a website, whose changes are signatures and whose
intervals are the cold ones, and whether its checks are prompt, that is, time does not
pass a claim's expiry or the next due date while a check is under way.
A job that failed for good is not retried by hand here.

### RollupRefresh

One bucket of one rollup of one site; the five rollups differ only in what they
count. `request`, `processed`, `marker` are the row of
`analytics_rollup_refresh_states` (no row is request version 0); `rollup` is the
set of events its rows count. Each event is a request that walks through
`refresh_later`: stored, `mark_requested!`, `try_enqueue!`. `queued` jobs try the
advisory lock; the one that gets it (`pc`, `version`) works in a single
transaction, so its writes stay in `tx` until `Commit` and lock the row from the
first one on, and what it reads is the committed row unless it wrote it itself
(`SeenProcessed`, `SeenMarker`). `owed` counts claims that are committed and whose
job is still to be enqueued: the queue is another database. Faults: a process
dies between the statements of a request or before an owed enqueue, the
refresher raises or the worker is killed (everything in `tx` is lost, the ensure
clause's writes too), a claim grows older than `claim_ttl`. The clean-up deletes
a finished row at any time.

### Bundles

`row` is the row of `bundles`, `attached` the key of its attachment, `blobs` what
is stored under each key (`Reserved`: the blob's row exists, its object does not
yet), `file` the archive at the path all builds of the bundle share. An archive is
named by the two imports that its manifest and its pages come from; the bytes are
a function of those, so the name also stands for the checksum, and with it for
the blob's key. An import is a load of the row (`importer`) and a commit that
replaces the content and resets the row; the job follows the commit (`owed`),
for jobs are enqueued after it (`active_job_tenant.rb:10`). Imports of a version
do not overlap, because `sync_pages` comes after a `save!` of the version's row.
`build` is what each thread has in memory: the job's bundle (`copy`), the bundle
`refresh!` finds for itself (`seen`), the archive, its checksum, the opened file.
The queue has three threads in each of two processes, so builds do overlap.
Records save only what differs from what they loaded (`Written`), so a build that
writes "ready" over an import's "pending" is possible and modelled. Faults: a worker
dies before it enqueues, an upload fails, a builder is killed or releases its
job, a failed job is retried by hand. `overlapped` and `killed` only record what
happened.

### The modules of the browser

`Dashboard` and `Pages` each hold several modules. Of these pages one is open at a
time and they share no state but the URL, so a composition by product would only
multiply states: each page is an `INSTANCE ... WITH` over the same variables `s1`,
`s2`, ..., a selector (`part`, `open`) says which page they belong to, and the
properties speak of the page that is open. The assumption on each module's constants
is an operator (`TopBarAssumption`, ...) that the composition asserts. `Dashboard`
and `Pages` leave the constants open, so that their theorems hold for all of them;
`MCDashboard` and `MCPages` give them values.

*External behaviour.* Modelled from how the code uses it and marked external in
the map. Fetches are answered, fail, or are aborted, in any order; the rejection
of an aborted fetch follows at once, unless its answer was already there. Inertia
runs one visit at a time: a visit interrupts the one under way, which may have
reached the server all the same; `onFinish` is called in every case, `onSuccess`
only after a page; `post`, `put`, `patch` and `delete` keep the page's state unless
`preserveState: false`; partial reloads run beside visits and overtake one
another. Props that are deep-equal to the ones before keep their reference (Inertia 3),
so an effect or a reset that depends on one does not run for them; this is assumed, for
the library's source is not part of the repository. A prefetch is answered by the server
and comes, or not, at any time later; whether the library drops one that is under way when
its tags are dropped is left open: it may come, and is marked (`astray`).

- `DashboardUrl` is pure: parameters are a record of words, days, filters and
  labels, since the order of keys and the encoding make no difference; what a
  value becomes by being written and read (`BuildQueryParams`,
  `ParseQueryParams`, `MergeReportQueryParams`, `Canonicalize`) is kept. A filter is
  written as operator, key and value joined by commas, and read up to its first two: a
  token is given by the parts it is read as (`Token`, `Parted`), so a key with a comma
  comes back as another key and another value.
- `TopBar`: `url` and `past` are the location and its history, `wanted` and `asked`
  what the administrator last asked for here and at each entry (they record only),
  `calendar`, `form`, `suggest`, `fetches` what the controls hold. The clock moves
  (`Midnight`), because "Yesterday" is computed twice.
- `Panels`: one of the four list panels is looked at. `preferred` is the tab last
  chosen, `restore` the mode to return to; `shown`, `lastKey`, `ids`, `fetches` are
  the state, refs and requests of `use-panel-data`, for the list and for the two
  takeovers of the sources panel. `dialog` is what the panel's details dialog keeps: the
  modes whose rows it holds (only its button and backdrop empty it), the first page and
  the further pages it has asked for, and `fresh`, whether the rows are all of its mode.
- `Behaviors`: `armed`, `lastKey`, `dataId` belong to the effect of goals, properties
  and funnels; `timer`, `profilesId` to that of the visitors; `loading` to both.
- `VisitorGraph`: `metric` and `interval` as picked, `stored` as remembered, `asked`
  and `statsAsked` the two requests; `count` and `pushed` the live visitors, as
  shown and as the server has them, and the resynchronisation after a return.
- `Details`: stays mounted when closed; `first` and `more` are requests for a first
  and a further page, `debounced` lags behind `search` by a timer.
- `Journey`: a visitor, a day, the page's query, the sessions page by page (`current` is
  the abort controller's request), expanded sessions and their events. The two effects of
  the sheet have different dependencies, as in the code: a change of the query runs the
  journey's, which empties the sessions, and not the sessions' (`Render`).
- `Live`: `flights` are the globe's flights to a session, `frame` the animation frame of
  the hint, `searches` the geocoder's requests, `blurring` the timer of a blur.
- `Tracker`: the fields of the tracker are one record `t`, and each method an operator
  on it, so that a callback is the composition the code has. `stay` records how long
  each page was shown, for the property only.
- `AnalyticsSettings`: `server` is what is stored (others change it too), `props` what
  the page was last given, `saves`, `asked`, `answers` the requests. `ui` holds the
  dialogs of the open tab, `builder` the funnel form. `Synced` and `Image` are what the
  server makes of goals and paths (`Goal.sync_from_definitions!`, `TrackingRules`); a
  reload resets the exclusions on the screen only when the settings among the props differ
  (`Resets`), be it for another part of them.
- `AdminIndex`: the four lists and the pages of a version differ in what `kind` says of
  them (tabs, table, actions). The search's effect runs again after an answer only if the
  filters, the page number not among them, are others (`SearchAgain`).
- `AdminRecords`: the buttons of four kinds of record are data (`Plain` and its kin: act,
  attribute, dialog, flag); visit, interruption and finish are the actions.
- `ShellCache`: `cache` holds pages by path with who was signed in and when, `coming` those
  under way; `acked` is the moment of the last write that was answered, `sure` whether the
  session is still the one for which the public pages were last dropped, `astray` whether
  the page shown was kept for a path that redirected or was under way when its tags were
  dropped. The server's side (`Lands`, `Served`, `Page`) is that of the controllers: which
  paths need an account, where a signed-in identity comes to, what the shared props hold.
- `Catalogue`: versions with a channel, a name and screens of pages; imports that promote
  the default and merge metadata; the admin's page and form with the props they were
  loaded with; the reader's page with its search box and its page numbers.

## 3. What the runs check

Bounds are the constants in each cfg. `CHECK_DEADLOCK FALSE` stands where the
system may stop: all requests settled, all administrators gone.

**standard** (2 workers, 2 administrators, 2 job rows, all fetch outcomes, 3
faults). Two workers are what a duplicated execution needs; the second job row
is the retry; three faults allow "pruned, retried by hand, released" in one
behaviour.
- `OneProcessor`: however often the queue delivers the request, one worker at a
  time is past `begin_processing!`.
- `StrandedOnlyByRetryOrFault`: a request is left `processing` with nobody to
  finish it only through a retry or a fault. (Through a retry it is: see
  *standard_retry*.)
- `CancellationSticks`: a cancellation written before the worker's last look at
  the row is final.
- `LifecycleSpec`: the row implements `RequestLifecycle`.
- `Settles`: unless a transient failure is retried or a fault occurs, the
  request reaches a terminal status for good.

**standard_retry** and **standard_terminal** refute two statements of the code.
`process_crawl_request_job.rb:8` says transient errors "get retried": the retried
job finds the request `processing` and returns, and the request stays so.
`crawl_request.rb:28` raises "Cannot cancel from ..." a terminal status: the
test is on a stale copy, and `completed` becomes `cancelled`.

**website** (`MCWebsiteCrawl`: four pages that link to each other and to themselves,
a limit of three, an automatic runner with promotion, 2 faults, 1 administrator, 3
attempts). Four pages and a limit of three are enough for a URL to be found twice, for a
resumption in the middle, for a page to be left unvisited, and for a limit to cut off
links or to be left with room. What holds of a crawl without a limit is proved.
- `PublishedWhenThrough`: an import happens only after every URL found was
  visited, unless the limit was reached, and without a limit every link of a
  visited page was found. Interrupts, resumptions and retries must not skip the
  rest of a step.
- `CrawlAndRequestAgree`: `completed` exactly when imported; and, unless something
  died, both rows are terminal when the job is over.
- `CountersHold`: without a fault the two counters equal the rows, so no URL is
  counted or visited twice; after any crash a counter is never ahead of the rows
  and never above the limit.
- `CancellationSticks`, `LifecycleSpec`, `Settles` as above.

**website_cleanup** refutes `process_website_crawl_job_test.rb:74-76` (a completed
crawl has no staged rows): an interrupt at the checkpoint before `:cleanup`.

**checks** (`MCVersionCheck`: a library with versions or a website, prompt or not; 2
changes, 1 caller, 2 jobs, 2 requests, 2 faults; a claim of 2, intervals of 1 and 2 and
a jitter of 1, so that probes outlive claims and schedules, or do not; two attempts
rather than the code's three, so that two faults exhaust them).
- `OneActiveRefresh`: a detected version has at most one active crawl of the
  source, though checks overlap.
- `OneOutstandingCheck`: while checks are prompt, one of a source is on its way at a time.
- `CatchesUp`: after the last fault the library holds what the site publishes, or
  the recorded signature is the site's.

**rollup** (3 requests, 2 faults). Three requests are what it takes for one to be
refreshed, one to arrive during the refresh and one after the last look; two
faults allow a claim to expire and the second job to fail.
- `ProcessedIsCounted`: when nothing is pending, the rollup counts every event
  whose refresh was requested, whatever failed.
- `NoLostWakeup`: without faults a pending request always has a job that will see
  it. (That there is one job at a time, and that a row which is deleted and created
  again starts clean, is proved: section 4.)
- `CatchesUp`: without faults the rollup catches up with the events.

What holds only without faults is instructive. After a refresher's error the
claim stands for fifteen minutes and no job is left: only a later event of the
same hour brings the next. And after a claim has expired under a slow job, a
request in that job's last moments may find the claim of the second job, which
is then dropped at the lock.

**bundles** (2 threads, 2 imports, 2 faults). Two imports are what mixes a manifest
with other pages and replaces an attachment; two faults are a failure and its
retry.
- `BlobsHoldTheirKeys`: while builds do not overlap, what is stored under a key is the
  archive the key names, whatever fails.
- `ReadyIsPublished`: without overlaps and faults, a ready row, the attachment, its object
  and the local file are one archive, unless an import has just cleared the checksum and
  another build is to come.
- `NoAbandonedBundle`: unless a worker is killed, a bundle is "not ready" only
  while a build is to come or at work, whatever overlaps, raises or is retried.
- `CatchesUp`: without overlaps and faults the bundle becomes the archive of the
  last import, though single builds may mix two.

The conditions matter. With overlapping builds TLC finds a build of old pages that
publishes last, and blobs whose content is the other build's; no document of the
repository denies it, so no run refutes it.

**bundles_checksum** (1 thread, 3 imports) refutes `bundle.rb:28`, a ready bundle has a
checksum: when an import clears the column during a build that makes the archive the last
build made, the build finds its checksum unchanged and saves "ready" alone.

**bundles_download** (1 thread, 1 import, 2 faults) refutes `README.md:76`, a bundle is a
"downloadable tar.gz archive": after a failed upload the blob's row stays, and the
retried build takes it for the archive.

**dashboard** (`MCDashboard`; the dashboard opened at its own URL, at a bookmark of
an older version with a custom range on a dialog, at a linked drill-down, or on the dialog of
the countries; two days at a month's end and beginning, two values, a property key with a
comma and one without, two segments, two funnels and
properties; two queries with different metrics and intervals; three pages of a report;
two visitors with two pages of sessions; 3 clicks on the top bar and on a panel, 2 on the
graph, 4 or 5 elsewhere, with any number of answers between them).
- `UrlIsWhatWasAsked`: what the URL says is what was last asked for, at each entry
  of the history, through every control and both directions of the codec; ranges
  picked on a calendar are ordered. The filters of a query of which one is by a key with a
  comma are left out, for the codec loses them (section 5).
- `TopBarSteps`: the menu marks the period that was chosen, and suggestions that
  arrive are for what the input holds.
- `ShownIsAsked`, `FirstPageIsAsked`, `GraphIsAsked`, `FirstPageShown`, `SessionsAreOfDay`:
  once nothing loads, what a list panel, the visitors of the behaviors panel, the graph,
  the details dialog and the journey sheet show answers the question of now, whatever was
  asked in between and answered late.
  For the sessions this leaves out, until a first page comes, a list whose first page
  failed or which a change of the query emptied.
- `ClickMatchesRow`: a row filters by what the row is, on a card whose fetch did not fail
  and in a details dialog whose rows are all of its mode (`fresh`). The countries' dialog among
  the start URLs is what lets the rows of one mode meet another within three moves.
- `AnswersSettle`: an answer that selects a funnel or a property asks nothing again.
- `LoadingEnds`: skeletons and spinners go.

**pages** (`Pages` with the values of `MCPages`; three configurations and four locations of the tracker with
batches of two; three sessions on the globe of which two share a cell and one has none; two
goals and two suggestions, kept in the order of their names (`GoalOrder`), one path
written with one slash and with two (`NormalPath`), two funnel steps; three rows on two pages; an owner and
a member, two pages kept or on their way (`MaxCached`); three version names, libraries of one and of nine screens; 3 to 8 moves).
- `TrackerCounts`: no engaged time is invented, the page shown is counted, the queue is
  served. `NothingLeftBehind`: a hidden document hands over everything at once.
- `LiveSettles`: a closed selection stays closed, the hint of new events is for who
  does not see them, suggestions are for what is typed.
- `SettingsAgree`: untouched forms save what they were filled from; exclusions settle to
  what the page was last told, up to repeated slashes, unless the change was refused, got
  no answer or was overwritten before the page was told of it; the edited step is the
  clicked one, buttons come back.
- `ListsSettle`: a list with the shared table shows its search, unless the search's visit
  failed or was overtaken by another; nothing that is gone stays ticked.
- `RecordsSettle`: no button stays disabled; a failed request is retried once.
- `ShellIsFresh` says two things. After an answered sign-in, sign-up or log-out no *public*
  page kept before it is shown; after an answered form of the application no page *of the
  application* shows what the form wrote as it was before. It does not say that the pages of
  the application or of the administration go with a log-out, nor that a public page has the
  new name: the code does not do this (section 5).
- `LibraryServes`, `DefaultHealed`: a reader is served a version with pages, finds all of
  them, and an import repairs a dangling default.

Two or three moves are what a race takes (a question, another one, a late
answer); more moves are allowed where a dialog must be opened and filled first. Where a
property has a condition (`missed`, `upset`, `sure`, `unheard`, `lost`, `fresh`), it
excludes a case after which the code does nothing: a request that failed or was
interrupted, a list that was emptied and is not asked for again, an exclusion that was
refused, rows that a dialog kept (`astray`: a prefetch that was redirected or overtaken); the
observations of section 5 say what each leaves then. The name of a property that is typed
before its value counts with it as one move.

Fairness. `Bundles` assumes that an import under way ends, that owed jobs are
enqueued and that the queue's threads run them. `StandardCrawl` and `WebsiteCrawl` assume that an enabled step of the
dispatcher and of each worker is taken in the end: Solid Queue's pollers and
threads run for ever. Nothing is fair about an administrator, a fault or an
interrupt. `VersionCheck` assumes the passing of time, the hourly
`CheckDueLibrarySourcesJob` (`config/recurring.yml`), workers that run every
job, and crawls that end. The last assumption is not free: *standard_retry* shows a
crawl that never ends, and a request left `processing` blocks the refresh of its
version (`active_version_refresh_exists?`). In the browser, `Fairness` says that every
fetch is answered or fails and every timer fires; nothing is fair about the person
at the page, and `Pages` has no liveness.

## 4. What is proved

TLAPS checks these for all values of the constants, under the assumptions of the
modules. They say that bounds and times are natural numbers (a claim's time, the hot
interval and the attempts positive, a standard crawl's attempts more than one), that None
and Reserved are none of the values they stand beside, and how constants fit one another:
`Newer` is asymmetric; a crawl's seed is a URL, and the links of a page are URLs, each
once; a query has at least one metric and its default interval is one of its intervals;
the empty search is among the searches. `TopBarAssumption`: the days are dates, the URLs to
start from are such as the code reads (`OfUrl`: known operators, ordered ranges), and no
custom property is named like a goal's filter. `GoalShape`: a goal has a name and is of an
event, without page and scroll, or of a page, as `goal.rb` validates it. Rows, goals and
suggestions are finite sets, pages of lists and batches of events are not empty.

`StandardCrawlProofs`. The inductive invariant `Inv` is `TypeOK` and:
`BusyHasJob` (a worker that is not idle has a job), `PendingUntouched` (while
the row is `pending` nothing was decided and nobody processes it),
`OneProcessor`, `ProcessorUndecided` (while a worker processes, no import or failure
was written, the row is `processing` or `cancelled`, and it is its job's first
attempt) and
`StrandedOnlyByRetryOrFault`. `OneProcessor` alone is not inductive: that a second
worker may not pass `begin_processing!` rests on the row not being `pending`
while somebody processes it, which `PendingUntouched` says.
- `Safety`: `Spec => []Inv`; `OneProcessorTheorem`, `StrandedTheorem`: the checked parts of
  it. That every way out of a fault-free processing leaves the row terminal, or a failed
  attempt behind, is what `ProcessorUndecided` gives: the final write is not refused.
- `CancellationTheorem`: `Spec => CancellationSticks`, from `Inv` and a lemma
  over the actions: a worker not past its reload cannot write a decision over
  `cancelled`.
- `LifecycleTheorem`: `Spec => LifecycleSpec`: every step is a step of
  `RequestLifecycle` or a stutter; the outcome is still "none" when a
  processor decides, by `ProcessorUndecided`.

`VersionCheckProofs`. `Inv` is `TypeOK`, `LockHeld` (a decided job holds the row
lock), `RefreshIsNew` (a decision to refresh was right and stays right: no
active request has that change), `ActiveHasChange` and `OneActiveRefresh`.
`RefreshIsNew` carries the proof: requests become active only under the lock
that the decided job holds. `OneActiveRefreshTheorem`: `Spec => [](TypeOK /\
OneActiveRefresh)`. `OneOutstandingCheckTheorem` adds `InTime`: if checks are prompt, at
most one caller or job is under way, and while one is, the source is claimed or not due.
The count of the property is a cardinality; `AtMostOne` says it with quantifiers, and the
second half is what keeps the next caller away.

`WebsiteCrawlProofs`, for every site, limit, runner, and number of attempts, administrators
and faults. `Inv` is `TypeOK` and: `StepsDone` and `QueueAgrees` (where an
execution is, and how many steps it and the queue's row hold for completed), `RowsAgree`
(the rows of the crawl and of the request), `FaultFree` (what a job finds when it starts),
`Counted` and `WithinLimit` (the counters, with what was just inserted or marked and is not
counted yet), `LinksFound` and `FetchedWhenThrough`. Neither `CrawlAndRequestAgree` nor
`CountersHold` is inductive: an execution that resumes in the middle relies on the steps
recorded in the queue, and a counter that is one behind is right at one place only.
- `Safety`, and from it `CrawlAndRequestAgreeTheorem`, `CountersHoldTheorem`;
  `PublishedWhenThroughTheorem` and `CancellationSticksTheorem` (action properties, by a
  lemma over the actions); `LifecycleTheorem`: the request's row implements
  `RequestLifecycle`, as in the standard pipeline.

`BundlesProofs`, for every number of build threads, imports and faults. `Inv` is `TypeOK`,
the checked invariants, and: `Knows` (what a build has in memory at each step),
`OneBuild` (`overlapped` tells the truth), `SumsAreTrue` (a build that is alone
knows the checksum of the file it uploads), `BuildsInOrder` and `StoreInOrder` (while
nothing overlaps or fails: where a build is, what the row, the attachment and the store say).
`ReadyIsPublished` needs the last two, because each of the steps from the blob's row to
`update!` leaves the store half written.
- `Safety`; `BlobsHoldTheirKeysTheorem`, `ReadyIsPublishedTheorem`,
  `NoAbandonedBundleTheorem`.

`RollupRefreshProofs` has two invariants. `Inv`, for every number of faults: what the
transaction sees as processed was requested (`TxWithinRequested`); a version in
work is ahead of what is processed and not ahead of what is requested
(`VersionInWork`), and counted before it is recorded (`CountedBeforeMark`); so what is
processed is counted, for the job (`CountedInTx`) and for everybody.
`VersionInWork` is what makes it inductive: it keeps the clean-up away from a
bucket in work. `ClaimInv`, while there are no faults: the claim is set exactly
as long as one job exists for it (`ClaimHasJob`), and the job's uncommitted
writes keep to that (`ClaimInTx`).
- `ProcessedIsCountedTheorem`: `Spec => [](TypeOK /\ ProcessedIsCounted /\
  ProcessedWithinRequested)`.
- `CoalescedTheorem`: `Spec => [](Coalesced /\ NoLostWakeup)`.

`DashboardProofs`, for all URLs, days, filters, queries, metrics, intervals, preferences,
reports, visitors, bounds and answers. Each module carries its own inductive invariant (`Inductive`); a step of
another part changes nothing the invariant reads. `DashboardInductive` is their conjunction.
- `UrlTheorem`: `Spec => []UrlIsWhatWasAsked`, and `BarStepsTheorem`: `Spec => TopBarSteps`.
  `History` says of every entry of the history what `UrlIsWhatWasAsked` says of the present
  URL (`Says`): Back makes any entry the present one. Every control asks for a query of
  the right shape, and such a query survives the round trip: what
  `BuildQueryParams` writes, through `Canonicalize`, is what `ParseQueryParams` reads: its
  times for every key, its filters when no key has a comma (`PlainKeys`; a token is then
  read as the parts it was made of). The
  codec is made of folds; a fact about all prefixes of a sequence is proved by taking the
  least length at which it fails (`NatLessThanWellFounded`), since an induction theorem with an
  operator for parameter cannot be instantiated. `Suggests`: what is under way was
  asked for what the input holds, every other request was told to be ignored.
- `GraphTheorem`: `Spec => []GraphIsAsked`. `Drawn`: the graph under way is the one the page
  names, at every moment, because every change that makes it another one asks again; that an
  interval fits its period rests on the assumption about the constants.
- `DetailsTheorem`: `Spec => []FirstPageShown`. `Listens`: every request that is still
  listened to asks for the first page of what the open dialog shows; the late ones were
  told to be ignored.
- `JourneyTheorem`: `Spec => []SessionsAreOfDay`. `GoesOn`: the request that is listened to
  asks for the first page or for the one after the last that is listed; `Numbered`: request
  numbers are not given twice, so the abort controller aborts the last one and no other. A
  further page that was under way when the query changed is listened to and goes on where
  nothing is (`missed`), until a first page comes.

`PanelsProofs`, for all rows, start pages, funnels, properties and searches.
- `PanelTheorem`: `Spec => []ShownIsAsked`. `FetchFits`: a fetch that was not aborted asks
  what its slot asks now; one that was aborted and that no other has followed belonged to a
  takeover that ended, whose slot was emptied. Without the second half an aborted last fetch
  could end the loading over the wrong rows.
- `ClickTheorem`: `Spec => ClickMatchesRow`, from the same invariant: rows of a card are
  offered only when they are those of the mode. For the dialog `DialogFits` says that the
  first page under way is of the mode the dialog is in, and that rows and further pages of a
  fresh dialog are of it too: the rows of other modes are there, and not fresh.
- `VisitorsTheorem`: `Spec => []FirstPageIsAsked`, and `AnswersTheorem`:
  `Spec => AnswersSettle`. `DataFits`: numbers of data requests do not pass the counter, the
  one with the last number is armed and asks by the present key. `VisitorsFit`: the visitors'
  effect has one request under way, for the present query and search. The key that is
  rewritten after an answer is the key the next render computes, which `AnswersSettle` says.

`PagesProofs`, for all rules, sessions, goals, rows, records, identities, versions and
bounds. `PagesInductive`: the page that is open keeps its module's `Inductive`.
- `RecordsTheorem`: `Spec => []RecordsSettle`. The buttons disabled are exactly those of the
  visit under way, and that visit is of the record shown; `Chain`: until something goes wrong each request
  but the first was made from the one before it, and the page shows the last. So no two are retries of one.
- `ListsTheorem`: `Spec => []ListsSettle`. `SearchedOrSearching`: what is typed was
  searched, or a timer or a visit stands for it, or a search that got no answer. That nothing gone is ticked
  needs the rows shown as well, for they are what may be ticked, and an action closes both.
- `ShellTheorem`: `Spec => []ShellIsFresh`. The two conditions are about what is shown; the
  invariant is about the whole cache, since any of it may be shown next
  (`PublicOfSession`, `WrittenShown`), and a password reset starts from an empty cache.
- `LibraryTheorem`: `Spec => []LibraryServes`, and `HealedTheorem`: `Spec => DefaultHealed`.
  `best_version` falls back to a version with pages wherever the default points; the
  numbers under the pages lead to every page for every length of the document; a visit that
  turns the pages carries the search it turned.
- `LiveTheorem`: `Spec => []LiveSettles`. `Closed`: flights that began before the selection
  was closed are of an earlier request. `Away`: a frame is asked for by who will be away
  when it runs. `Sought`: a search that was not aborted is for what is typed.
- `TrackerTheorem`: `Spec => []TrackerCounts`, and `LeftTheorem`:
  `Spec => NothingLeftBehind`. `Sound` is kept by each method of the tracker by itself: what is
  reported and what the clock holds for a page is no more than its stay, and what waits is
  served by a timer or a drain. One lemma per method carries it through every callback.
- `SettingsTheorem`: `Spec => []SettingsAgree`. The form's key is the key of what is being
  edited, and an untouched form is what `GoalForm` makes of the goal that it was filled from;
  `goalFormToPayload` makes that goal of it again, which rests on `GoalShape`.
  `Settling`: rules shown before the page was told of them are in a save, in the server and
  a reload that was asked for, or in an answer under way, unless they are `lost`; since
  server, props and answers are normalized (`Normalized`), the reload that brings them
  differs from the props, and so resets the form.

The attempts found errors of the models and of what was claimed. `DashboardUrl` had
folds whose order is not specified, and so did not say which of two filters of one dimension
counts; they are folds from the left now, as `parseQueryParams` reads. Tokens that are
repeated are dropped by `buildQueryParams`, so what is asked for and what is read are compared as sets.
`ShellIsFresh` was false at bounds larger than the run's: a prefetch that the server
redirects is cached under the path that was asked for, with the tags of that path and the
content of another (`astray`; section 5). And several claims about the browser held only of
models that were kinder than the code, as a second reading of it showed: a codec that kept every
filter, a dialog that forgot its rows, effects that ran after every answer or whose
dependencies lacked the query. Model, property and proof were done again for each.

Only model-checked: all liveness (`Settles`, `CatchesUp`, `LoadingEnds`), since fairness and
ENABLED are out of the prover's reach. Every invariant and every action property that a run
checks is proved. The type invariants of the proved modules are proved and not
checked again by a run.

## 5. What is not modelled

The proxy pool, profile resolution, the Search Console sync and the incineration of
accounts are planned (section 6). The content of pages, the fetchers' parsing and
network code, the API's pagination and caching, analytics queries, and what only
draws (component library, charts, maps, the globe, tables, formats, static pages,
the thin wrappers of `api.ts`) keep no protocol state. Within the modelled parts:
progress messages are left out except where they lock a row; a batch of due
sources is one source; the admin retry of a request makes a new, independent
request; requests of the
browser carry no payload beyond what the properties tell apart.

Observations. These are behaviours of the code that the models have and no run
refutes, because no document denies them, or because the property beside them
excludes the case by its condition.
- `docs/version-refresh-strategy.md:278` suggests that a check "re-check due-ness
  inside the lock", which `check_for_new_version!` does not; a probe that outlives
  its claim is recorded after another check has moved the schedule on.
- `entrypoints/analytics.ts:242`: after Back the location has changed before
  `popstate` reports the engagement of the page that was left.
- `settings.tsx:1491`: dropping a step elsewhere moves it under the position that is
  being edited. `settings.tsx:1828`: a funnel save whose fetch throws leaves the
  buttons disabled.
- `period-utils.ts:205`: "Last month" on the 31st of March is March.
- `sources-panel.ts:72`: with a Google source in the dialog's path two dialogs
  want to be open.
- `use-behaviors-panel-controller.ts:351`: Goals, Visitors, Goals within 200 ms
  leaves the skeleton.
- `dashboard-context.tsx:70`: a late answer of the resynchronisation replaces a newer
  pushed count. `live/show.tsx:301`: the choice of a cell does not outdate the flight
  to a session.
- `remote-details-dialog.tsx:227`: a further page of an old search is appended to
  the new one. `profile-journey-sheet.tsx:306`: the sheet of a visitor shows the
  journey of the one before until, or unless, the answer comes.
- `libraries/index.tsx:149`: the visits of a bulk deletion interrupt one another.
  "Select all N" ticks the rows of the page.
- `proxy-configs/show.tsx:189`: the button "Reset Health" sends what
  `proxy_configs_controller.rb:114` refuses. `crawl-requests/show.tsx:161`: after a
  retry the dialog stays over the new record.
- `query-codec.ts:25`: a filter by a property whose name has a comma becomes a filter by
  another property: `prop:plan,b` = `plan` comes back as `prop:plan` = `b,plan`. Without the
  condition `PlainKeys` TLC refutes `UrlIsWhatWasAsked` by it. (`docs/analytics.md:1095` says
  that all query state is serialized to the URL; `analytics_query_params.test.mjs:60` tries
  commas in values only.)
- `profile-journey-sheet.tsx:228`: Back, or the key of a period, while the sheet is open and
  no day is chosen empties the list of sessions, and nobody asks for it again: "no sessions".
  A further page that was under way is then listed alone.
- `locations-panel.tsx:235`, `remote-details-dialog.tsx:272`: a details dialog that was closed by
  a row, Escape or Back keeps its rows. Reopened in another mode it shows them, clickable, until
  its first page comes, and for good if that fails; a further page that comes late is appended
  to the rows of another mode. A country is then filtered as a region.
- `libraries/index.tsx:67`: type, let the timer fire, click Next before the answer. The search is
  interrupted, the answer brings equal filters, and the effect does not run again: the
  text stays in the box over a list that was not searched for it.
- `settings.tsx:521`: an exclusion that was refused, or whose save got no answer, stays on the
  screen, as the reload brings props equal to the ones before; so does a second spelling of a
  path that the server reduces to one it has (`tracking_rules.rb:94`).
- `app/nav-user.tsx:115`: log-out drops the public pages from the cache and no others. The pages of
  the application, and of the administration, that were prefetched before it (opening the menu to log out
  prefetches some, `:44`) are shown for up to a minute to whoever signs in next. `site-header.tsx:133`: a name
  that was saved stays the old one on public pages that were cached. Nothing at all is dropped when
  an account is left.
- `shell-prefetch.ts:33`: a link that is prefetched while the server redirects it (a page of
  the account after the account was left) is kept under its own path and tags, with the
  props of the page it led to; what drops the cached copies of that page leaves this one.
- `crawl-requests/new.tsx:144`: the public queue is not dropped from the cache by a
  submission.
- `libraries/show.tsx:229`: another version keeps the text in the search box but not the
  search. `libraries/edit.tsx:173`: the edit form sends the default version it was loaded
  with, which undoes a promotion by a crawl. `importable.rb:136`: a crawl merges
  aliases and fills a blank homepage of a locked library (`edit.tsx:237` says it "will
  stay stable").

## 6. Plan

Done, the request's row first because it is what users see: the request and the
standard pipeline with its abstract specification and proofs; the website crawl
on the same abstract specification; the version checks; the rollup refresh; the
bundles; then the browser's side, from the tracker and the dashboard to the
administration and the catalogue, each with its proofs.

Left to do, the server's parts that are not modelled yet first:
1. `RollupRefresh` against `refresh_range!`, which rebuilds a bucket outside the
   advisory lock.
2. `ProxyPool`: active leases against `max_concurrency`; one unreleased lease per
   session; the capacity of checkouts proved.
3. `Import`: two imports of one library, with unique violations inside the
   transaction; the pages of a version come from one crawl.
4. Profile merges, Search Console claims, account incineration.
5. An abstract specification of a fetch (asked, aborted, answered, shown) that the panels, the
   graph, the dialog and the sheet implement: their invariants say the same of
   different variables.
