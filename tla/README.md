# Open News: models, checks and proofs

TLA+ modules of the parts of Open News where things happen at the same time,
fail half way or come in the wrong order, the TLC configurations that check
them on small instances, and TLAPS proofs of the safety properties for every
instance. All paths are relative to `src/`.

    tlc -config MCFeedCollection.cfg MCFeedCollection     # one run
    tlapm FeedCollection_proofs.tla                       # the proofs of a module

`PROJECT.json` lists the runs, the source lines of every definition, the
hazards of the code with the properties that watch them, and for every property
a plausible bug (a `variant` operator of the module) that the property catches.

## 1. The system

One Python process (FastAPI, asyncio, APScheduler) and one SQLite database in
WAL mode. Jobs started at intervals collect articles, group them into stories
and enrich them; the web pages read the result and start a few of the same jobs
on demand. A stand-alone script, the seed, fills an empty database.

| Component | State it keeps | Operations | Interacts with |
|---|---|---|---|
| Feed collection `core/ingest/pipeline.py`, `rss.py` | `feed_states`: ETag/Last-Modified, failures, last fetch, address found by autodiscovery | `ingest_all_feeds`: snapshot, parallel downloads, one transaction per feed | sites, rate limiter, article store; started by the scheduler, "Aggiorna ora" and the seed |
| GDELT collection `gdelt.py`, `pipeline.py` | the results of a round, the circuit breaker, the failed groups | requests in groups, retries after 429, a second pass | GDELT, limiter, article store |
| Social collection `social.py` | none but the articles | two API clients | article store |
| Article store and deduplication `rss.py`, `extract/` | `articles`, canonical URLs | insert, recognise a duplicate (URL, canonical URL, similarity), correct a title | clustering, translations |
| Rate limiter `ratelimit.py` | a lock and the last permission per host, per job | `wait(host)` | every request of the jobs |
| Robots cache `robots.py`, `fulltext.py` | robots.txt per host, with its expiry | load, `allowed` | full texts, summaries |
| Clustering `core/cluster/` | `stories`: span, counts, centroid, lampo; `articles.story_id`; `coverage` | `cluster_job`: batch, attach or open, commit; coverage | article store, translations, pages |
| Title translations `translate.py` | `title_translations` of articles and stories | periodic job, tasks on demand | retitling, neutral titles |
| Summaries `summarize.py`, `pages.py` | `stories.summaries`, the set of summaries in progress | guard, download of missing texts, streaming, save | local model server, sites, browsers |
| OSINT profiles `core/osint/` | the profile of a source, evidence | periodic and on-demand profiling | sites, archives |
| Blind spots, signals, entities `core/bias/`, `entities.py` | flags of stories, signals per source, QIDs | three judging jobs, the linking of entities | coverage, database lock, Wikidata |
| Annotation `annotation.py`, `annotate.py` | answers, labels of outlets | offer, answer, weekly job, publication thresholds | pages |
| Catalogue and ownership `catalog.py`, `structure.py` | outlets, owners, shares, facts | upsert of the files, facts from Wikidata | all, pages |
| Front page `pages.py`, `ranking.py` | none | choice of the stories and versions shown | clustering, translations |
| Scheduler, progress, manual refresh `apps/worker`, `refresh_state.py`, `pages.py` | active jobs by kind, progress, phases of the manual round | intervals, `max_instances=1`, `tracking`, "Aggiorna ora" | all the jobs |
| Settings and administration `runtime_settings.py`, `settings_panel.py`, `annotate.py` | overrides in the database and in each process, who administers | registration, save, load by every page and every five minutes | all |
| Database `core/db.py` | the file, its write lock, the sessions | WAL, `busy_timeout` 15 s | all |
| Text analysis, network egress, provenance, other pages, launcher | none that other parts wait for | functions of text, upsert of a file, reading, rendering | |

### What is hard

* *Looking before locking.* Collectors, judging jobs and saves look at the
  database, then wait for its lock, then write what they had concluded.
* *Guards in memory.* Sets of what is being worked at are tested, entered and left
  by different coroutines, and each process has its own: with two uvicorn workers (`docker-compose.yml`)
  a story may be summarised once in each.
* *Two callers of one job.* The scheduler never runs a job twice at once, but
  "Aggiorna ora" (`pages.py`) and the seed call the same functions without a
  guard the scheduler knows of.
* *Reading before waiting.* A round reads rows, then waits for the network for
  minutes, then writes what it computed from them (`FeedState`, `Story`, titles,
  summaries, profiles).
* *Failing half way.* One transaction per feed, one per clustering round, then
  more for its coverage; each may be refused ("database is locked" after 15 s)
  and the process may be closed at any point: it is a desktop application.
* *Order.* Articles are clustered newest first and arrive from three sources in
  any order; conditional requests carry the validators of an earlier answer.
* *Never again.* A feed in backoff, an article that always raises, a host's lock
  whose holder was cancelled: each must come back, or not stop the others.

### What makes each component correct

* Feed collection: what is "not modified" has been stored; a feed that works is
  read again in the end; a feed that fails repeatedly is left alone for a while.
* Rate limiter: requests to one site are spaced, everybody gets a turn.
* Clustering: an article gets a story and keeps it; the story's figures are those
  of its articles; its members belong together; "lampo" is never taken back.
* Article store: no article twice, whoever finds it first; none lost because
  another was refused.
* Translations: a translation shown is that of the title shown.
* GDELT: a dead service is left alone, a recovered one gives what it has.
* Manual refresh: progress never goes back, the round ends, a second one cannot
  start meanwhile.
* Summaries: a summary saved is not lost; the guard is always released; who asks
  gets one; what is shown in pieces is what the whole text would have given.
* Robots cache, full texts: no permission older than an hour, no lock held while a
  site is waited for, a text for every article that has one.
* Profiles: a useful one is kept for its time, every outlet is renewed.
* Settings: what was told is stored, and each process goes by it in the end; an
  instance with profiles has an administrator.
* Annotation: agreement is computed as defined; a label follows its annotations.
* Blind spots: flags and signals follow the coverage; a silent country is spared.
* Front page: of today as long as anything is; what it shows is prepared for.

## 2. The modules

    FeedMirror <- FeedCollection <- MCFeedCollection  FeedCollection_proofs
    RateLimiter             <- MCRateLimiter        FeedCollection_proofs
    Grouping <- Clustering  <- MCClustering         Clustering_proofs
    Titles, FrontPage       <- MCTitles             Titles_proofs
    ManualRefresh           <- MCManualRefresh      ManualRefresh_proofs
    Archive <- ArticleStore <- MCArticleStore       ArticleStore_proofs
    RobotsCache <- FullTexts <- MCFullTexts         FeedCollection_proofs
    Summaries, SummaryText  <- MCSummaries          Requests_proofs, Titles_proofs
    Administration          <- MCAdministration     Requests_proofs
    Profiles, Registry      <- MCProfiles           Jobs_proofs
    Analysis                <- MCAnalysis           Jobs_proofs
    Annotations             <- MCAnnotations        Annotations_proofs

`ArticleStore` implements `Archive`, `FeedCollection` implements `FeedMirror` and,
while rounds do not overlap, `Clustering` implements `Grouping`; `FullTexts`
composes `RobotsCache` with the coroutines that use it. `FrontPage`,
`SummaryText` and `Registry` have no behaviours: they are functions of the code,
compared by their ASSUMEs with what they are for, over all small inputs; TLC
evaluates them in the run of the module they stand beside. What they compute is
proved too, for inputs of any size, but for which summary a page shows.

The specification comes first in each module, then its properties under
"Safety" and "Liveness", then what the documentation states and the code does
not do. `A variant of ...` before an operator marks one of the plausible bugs;
the specification does not use it. An `MC` module gives the constants small
values; a `.cfg` chooses among them.

### FeedCollection: a round of ingest_all_feeds

| In the module | In the code |
|---|---|
| `row[f]` | the `FeedState` of a feed; a row that is missing reads like a new one |
| `task[r][f]` | one job of the round: `run(source, url, state)` in `pipeline.py`, with the address and the validators read at the start, then its `FeedFetch` |
| `ingested[f]` | the contents whose entries were committed |
| `StartRound` | the snapshot of sources and states, backoff, and the jobs |
| `Fetch` | `fetch_feed_content`: conditional request, repetition with a browser's headers after 403/202 or a page without entries, `_try_autodiscovery` |
| `FetchRaises` | the exceptions caught around the result of a job |
| `Store` | `store_feed` and its commit |
| `StoreFails` | the rollback of "scrittura rimandata" |
| `EndRound`, `Abandon` | the end of the loop; its cancellation (the seed's budget) or the end of the process, which runs or replaces the `finally` clause |
| `SiteChanges`, `Publish`, `BackoffExpires` | the publisher's site, its feed, and the clock |

Abstractions. Time is what `in_backoff` compares: whether the last fetch is
`recent`. Failures are counted up to the threshold, beyond which nothing
distinguishes them. A content is the address it was read at and a version; a
validator names the content it was issued with. A site answers its own current
validator with 304 and another one with 200; a validator issued elsewhere is
compared by date, so either answer is possible. All sites issue validators: one
that does not can only be downloaded more often. The semaphore that limits
parallel downloads only delays `Fetch`. A site does not change during one
download. The single articles of `store_feed` are `ArticleStore`'s:
`ingested` is the fact that the loop over the entries was committed.

`overlapped` is a history variable: two rounds have been in progress at once.
Three properties are stated until then, because with overlapping rounds the code
does not keep them: round A, started first, may store the validator of the
catalogue's address after round B has stored the address found by
autodiscovery, and from then on the alternative address is asked with a
validator that is not its own. `ValidatorIngested` holds even so.

`FeedMirror` is what the rest may count on: `mirror[f]` are the contents stored of a
feed, `known[f]` what its site is told of it. A content stored was published, at an
address of that feed; it is never lost; `known` changes only together with it, to it;
and until rounds overlap (`crowded`) no version older than one stored of the same
address is stored. The mapping takes `row[f].validator` for `known[f]`.

### Clustering: cluster_job over SQLite

| In the module | In the code |
|---|---|
| `db` | what is committed: articles, `story_id`, the rows of `stories`, the coverage |
| `work`, `writer` | the open transaction of the session that holds the write lock |
| `todo[r]`, `index[r]` | the batch of a round and `StoryIndex`, the rows it loaded |
| `touched[r]` | `touched_story_ids`, then those not covered yet |
| `Begin` | the query of the pending articles, newest first, limited; the index |
| `Assign` = `Attach` or `Open` | `assign_story`: the candidates of the window, `_refresh_counts`, the span, `_maybe_flash`; the flush that takes the lock |
| `Skip` | an article whose embedding raises |
| `CommitStories` | the end of the batch or the deadline, and the commit |
| `Cover`, `CommitCoverage` | `compute_coverage` of the touched stories, committed every 25 and at the end |
| `RoundFails` | a write refused after `busy_timeout`, an exception, the end of the process |
| `Arrive` | a transaction of the collection |

Abstractions. Similarity is data: `Resembles` says which pairs of articles reach
the member threshold; which candidate has the nearest centroid, and whether it
reaches the centroid's threshold, is a free choice, so every outcome of the
arithmetic is among those checked. Whether an article can be embedded is a
property of the article (`Indigestible`). A session keeps the rows it loaded and
an UPDATE carries the columns whose value changed (`Updated`): what SQLAlchemy
does, and the reason why overlapping rounds mix two histories in one row. The
deadline of 480 seconds is assumed to leave time for one article. Coverage may be
committed after any number of stories. Every article has a time. Neutral titles
are `Titles`', entities and blind spots `Analysis`'.

`overlapped` as above; `interrupted` records that a round ended between the
commit of its stories and that of their coverage. Without the first condition
`CountsMatchMembers`, `SpanMatchesMembers`, `MembersResemble` and
`GroupedOnce` are violated: the second of two overlapping rounds moves
articles the first has committed, leaving stories with counts and no members.
`FlashForGood` holds without it.

### Titles: titles and their translations

| In the module | In the code |
|---|---|
| `shown[i]` | `Article.title` (with or without a snippet), `Story.title_neutral` |
| `translated[i]` | the column `title_translations`; a translation is the title it was made from |
| `round` | the titles a clustering session loaded |
| `job[s]` | the stories `translate_titles_job` loaded and has still to come to |
| `task[v]`, `busy` | a task of `kick_translations` or `kick_article_translations`; the two sets of titles in progress |
| `Arrive`, `Retitle` | `store_gdelt_articles` or a feed; `_retitle_from_feed`, which corrects the story's title and empties its translations if it was that article's |
| `BeginClustering`, `EndClustering`, `ClusteringFails` | what a round of `Clustering` does to titles: `refresh_title_neutral` for every story touched, from the rows loaded at the start |
| `StartJob`, `JobTranslates`, `JobStops` | `stories_to_translate`, `translate_story_title` with its commit, deadline and errors |
| `Kick`, `Read`, `Save` or `GiveUp`, `EndTask` | a page; the row read when its turn comes; the end of the thread; the `finally` clause |
| `Restart` | the end of the process and its start |

Abstractions. A title is an article and its wording: GDELT's, without a snippet,
or the feed's. Which member of a story has the nearest centroid is a free choice
among those refresh_title_neutral prefers. A translation equal to its title (the
empty string) is one like any other: it keeps the language from being tried
again. Which pairs of languages are at hand is a free choice at every
translation. The order of the job and its limit of 200 stories, the window of the
pages, provenance and statistics are left out. A correction reads and writes in
one feed's transaction and is one step; one clustering round runs at a time (two
of them are the matter of `Clustering`), and the story an article will join is
given.

Two history variables limit what is claimed to what the code does. `raced` holds the
stories whose title was corrected while a translator had them in hand, or changed
by the clustering: their translations may be of another title. `crossed` holds
those with a correction during a clustering round, which may write back the title
it had loaded.

### ManualRefresh: cycles of collection, the bar, and the rounds of GDELT

| In the module | In the code |
|---|---|
| `active`, `progress`, `manualDone` | `_active`, `_progress`, `_manual_done` of `refresh_state.py` |
| `updating` | `_aggiornamento["in_corso"]` |
| `round[c]` | where the task created by a request to /aggiorna is |
| `job[c][k]` | the job of kind k run by c, with what it has found and done; for GDELT the local variables of `ingest_gdelt_all` and `run_groups` |
| `SchedulerStarts`, `SchedulerEnds` | `tracking`, entered and left by a scheduled job |
| `ClickRefresh`, `BeginRound`, `PhaseEnds`, `RoundEnds` | `aggiorna_ora` and `_giro_di_aggiornamento`, cut where it awaits; `tracking` of its phases included |
| `FindWork`, `Proceed` | the `set_progress` calls of feeds and clustering |
| `FindGroups`, `TryGroup` | the groups; one turn of the loop of `run_groups`, with its breaker, `attempt` and the retries of `_get_artlist` (`Exchange`) |
| `Percents` | `overall`, for each phase at work it may name |

Abstractions. Percentages are integers: weights 55, 35, 10. What a job finds is a
number within a bound (`Sizes`, `GroupsFor`); the number of groups may differ
between two rounds because the catalogue changes. Waiting times are left out.
`LAST_RUNS`, which is only shown, is too. `unanswered` counts the requests in a row
that found no connection, within a pass.

`shared` records that the scheduler ran a phase during the manual round: its job
shares `_progress` with the round's, and its end marks the phase as done. Without
that condition `BarMovesForward` is violated.

### RateLimiter: DomainRateLimiter.wait

| In the module | In the code |
|---|---|
| `holder`, `waiters` | the `asyncio.Lock` of a host, first come first served |
| `elapsed[l][h]` | the time since `_last[host]`, up to the interval |
| `left[t]` | what remains of the `asyncio.sleep` |
| `Call`, `Acquire`, `Wake` | the entry, the lock with the computation of `remaining`, the end of the sleep |
| `Cancel` | the cancellation of a coroutine that waits or sleeps |
| `Tick` | one unit of time for everybody; a sleep may last longer, never less |

The coroutines of one job share a limiter; each job makes its own. Requests the
limiter does not see (robots.txt, redirects) are not part of the module.

### ArticleStore: three collectors and one table

| In the module | In the code |
|---|---|
| `store[u]` | the row of `articles` with address u: outlet, words, whether it was corrected; `via`, `knew` and `id` are history: who inserted it, what it had seen, in which order |
| `session[c]`, `lock` | what a collector has still to store, what it looked up and what it has flushed; SQLite's write lock |
| `edition`, `download` | what a feed says now, and the one a round has fetched |
| `BeginFeed`, `BeginGdelt`, `BeginSocial` | the look-ups of `store_feed` (under the lock, which the feed's state has taken), `store_gdelt_articles`, `store_social_items` (before it) |
| `Item` = known, inserted, skipped or corrected | one turn of their loops: by address, by page (`canonicalize`), by likeness (`is_near_duplicate`), `_retitle_from_feed` |
| `Commit`, `Rejected`, `Fail` | the commit; the unique constraint or a provenance without id; anything else, with the rollback |
| `StartTour`, `NextOutlet` | `ingest_social_job` |

Abstractions. Which titles are alike is data (`Alike`), and so is which addresses are
of one page (`PageOf`). The 300 latest simhashes become `RecentLimit`. `knew`
lets `NoTwinPages` and `NoNearDuplicates` say exactly which doubles the code
allows: those its look-up could not see. `Archive` is what the rest of the program
may count on; `Archived` is the refinement.

### Summaries and SummaryText

| In the module | In the code |
|---|---|
| `row[s]` | `Story.summaries` (languages) and `summary_neutral` (the language it is in) |
| `missing[s]` | the articles `select_input_articles` chooses for a story that have no text |
| `request[r]` | `genera_riassunto` of a reader: `texts` while it downloads, then, in the guard, `connecting`, `retrying` (without think), `streaming`; `copy` is the row read at the start, `lacks` the texts still to fetch, `stored` those flushed and not committed |
| `busy` | `_riassunti_in_corso` |
| `trial` | `riassunti_prova`: the stories left and those flushed and not committed |
| `Ask`, `StoreText`, `TextsDone`, `TextsFail`, `Connect`, `Fail`, `Save` | the request, cut where it awaits; `Save` writes the whole column, unless refused because somebody holds the lock |
| `Locked` | SQLite's write lock: held by a request from its first text to the commit after its downloads, and by the trial from its first summary to its end |

The two transactions that stay open while they wait for others are those of `Locked`.
`fetch_fulltext` flushes, and `genera_riassunto` commits once, after at most 45 s of
downloads, where `busy_timeout` is 15 s: a reader's request may therefore refuse
another reader's texts (`TextsFail`: the exception of the flush is caught, the commit
of a session in that state is not), another's finished summary (`Fail`), and a trial's
first summary (`FailTrial`), and the trial the readers'. A flush of its own holder is
not refused. Whoever finds the lock taken waits, or is refused.
`ArticlesChange` is the collection, the clustering and the job of full texts, which change
what is missing at any point.

`crossed` holds the stories two generations had in hand at once, by the window
between the guard's test and its setting or by the trial, which tests none.
`SummaryText` has a text as a sequence of characters (for TLC, the parts `ThinkFilter`
tells apart), and compares what is shown of any text, cut anywhere, with the text without
its reasoning; the input chosen with what is told of it; and the text shown with those
there are. The order of the articles in the prompt is left out.

### Profiles and Registry

| In the module | In the code |
|---|---|
| `profile[s]`, `before[s]` | `Source.osint` (useful or not, and its age: fresh, over six hours, over fourteen days), the outlets that `last_checked_at`, or none and the id, puts before it |
| `visited`, `kicked`, `task` | a page that found no useful profile, `_KICK_IN_CORSO`, the task of `kick_profilo` |
| `job` | `osint_job`: the outlets it loaded, the one it is at |
| `Step` | `profila_fonte`: ads.txt, home page, rendering browser, archive; each may find something or nothing |

`Registry` is `sync_catalog`, `load_ownership_seed` and `enrich_owners_job` as functions
of tables and files: read twice they change nothing, profiles survive, shares and funding
refer to what is there, facts are those of the QID their owner has. Columns that change
together are one field; `SyncStats` and `SeedStats` are the counters the code returns.

### Administration

| In the module | In the code |
|---|---|
| `account[p]` | a registration: what it counted, what it became |
| `db`, `setting[w]` | the rows of `app_settings`; the `Settings` of a process |
| `save[p]` | `salva_impostazioni`: the form, the rows read, then applied to the process and not yet committed |
| `load[l]` | `load_overrides` of a page (`refresh_runtime_settings`, which every page and `genera_riassunto` call, `pages.py:97-116`) or of a scheduler (`refresh_settings_job`): the rows read and not yet applied |
| `Restart(w)` | the start of a process: one that serves pages reads the rows (`lifespan`, `main.py`), and goes on with the environment's values if it cannot; a worker goes by those until its first job |

A save inserts or updates each row by what it had read, and writes only what differs from it
(`RowsWritten`, `Conflicts`). `told` is what the panel last said is saved. `shared` holds the
keys two saves had in hand when one was committed. `behind[w]` holds the keys on which a
process may differ from the rows: those another process has saved, those of a save of its own that
failed or crossed another, those a page or the job has set back to rows that had changed
since it read them, and all of them after a start without the rows; a load of rows that are
still those stored takes their keys out. `ServedAgrees` says that a process differs on no other key, but while a
save there is applied and not committed; `EveryProcessFollows` that with the loads that follow
every process comes to the rows there are. A value that was applied by a save that failed,
for a key that has no row, stays in that process until it is started again or the key is
saved: no load undoes it.

### Annotations

`answer[a][i]` is the row of an annotator and an article on one axis, `form[a]` the
articles before him, `label[s]` what the latest signal says of an outlet, `job` what the
weekly job has found and not committed. `Alpha` is `krippendorff_alpha_ordinal` as a ratio of
integers: the coincidences multiplied by a common multiple of the denominators (`Scale`), the distances
doubled before they are squared. One of the two axes, which are alike, is modelled.

### Analysis

| In the module | In the code |
|---|---|
| `cover`, `age` | who has an article of a story; under six hours, over, out of the window |
| `flags[st]`, `signal[s]` | `Coverage.blindspot_for`, the signal `blindspots` of an outlet |
| `at[j]`, `seen[j]`, `holder` | a judging job (`cluster_job`, `blindspot_job`, the weekly one): what it read before it waited for the lock |
| `Draws`, `PNull`, `Verdict` | `compute_blindspots`: the big stories, the propensities, how likely it is that each outlet of a country missed a story by chance, the groups marked |
| `GoThrough`, `todo`, `pending` | coverage and entities of the touched stories, committed in batches |
| `StartLink`, `Search`, `EndLink` | `link_entities_wikidata` |

The propensity of an outlet is the share of the big stories it covers: the chance that it
covers one drawn at random. The product of the chances not to, over the outlets of a
country, is therefore a share of the ways to draw a big story for each (`PNull` of
`Draws`), and a comparison of probabilities one of cardinalities. Alpha and the threshold
are ratios, so every comparison is exact. `Rank` stands for the order in which the rows
bring up the countries: of two equally improbable ones the first goes first.

### RobotsCache and FullTexts

| In the module | In the code |
|---|---|
| `entry[c][h]`, `asking[t]` | `RobotsCache._cache`; a coroutine in `_load`, since when and what it has heard |
| `rule[h]` | what the site would answer: a file that allows, one that forbids, a redirection out of the allowlist |
| `lenient[h]` | history: when the site last allowed, or a load last failed, which counts as permission |
| `visit[t]` | at rest, asking, fetching the page, text flushed and not committed |
| `text`, `dirty`, `todo` | articles with a text, committed or not; the articles `fetch_fulltext_job` has left |

Time is in ticks; a load lasts at most `Timeout`. The job reads one article after the
other; the other coroutines share a cache and look for feeds (`_try_autodiscovery`).

### FrontPage

The limits of the code are constants (`PageCandidates`, `PageSize`, `LastMinuteSize`,
`TrueCoverage`, `JobLimit`, `JobCandidates`). Modelled are `index` without and with a
country, `copertura_recente`, `peso_attualita` (ages in half-lives, so that weights are
integers), `stories_to_translate` and `diverse_articles`. The page is full and of today as
long as anything is; a country the filter offers has a page; the translating job prepares
what the page shows by its weight, as long as no more stories are current than
`JobLimit - PageSize + PageCandidates` (with the code's limits: 364); the versions shown are
at least half as far from each other as any choice of as many. The distance modelled is that
of outlets without positions, doubled. With positions for all of them it is a distance
between points, of which the last claim is true as well; with positions for some only, the
code mixes the two scales, the triangle inequality fails, and the claim with it.

## 3. The runs

One run per module. Every run checks the properties of its module's cfg, fires
every action of its specification, and evaluates the ASSUMEs of the modules it
extends.

| Run | Instance | What it shows |
|---|---|---|
| `feeds` | one feed, one alternative address; the periodic round and the seed; backoff after 2 failures; 2 versions. The catalogue's site has the feed, a page or nothing; the other a feed behind a filter or nothing | the collection implements `FeedMirror`; a 304 hides nothing; backoff is honoured; a feed that stays readable is read |
| `stories` | five articles of two outlets, times out of order, one that always raises; batch 2; up to five stories | span, members and coverage of stories are those of their articles, the clustering implements `Grouping`, the backlog clears |
| `politeness` | three coroutines, one limiter, two hosts with intervals 2 and 3 | spacing, and a turn for everybody |
| `titles` | a French article that GDELT has and the feed corrects, an English one; one story; readers in Italian and English; job and two tasks. `FrontPage` over archives of five stories | translations follow corrections; no title is translated twice at once; every story gets its translations; the page is of today and prepared for |
| `refresh` | two requests, the scheduler; no work or one item; three groups of domains, one for the scheduler | the bar moves forward, one manual round at a time, which ends; a GDELT that does not connect is left alone |
| `articles` | an outlet with a feed of two editions, in GDELT and with an account, and one with an account only; four addresses, two of one page; six titles, two alike; the 2 latest rows compared | what is stored twice and what is not; the store implements `Archive`; headlines become the feed's; nothing found is lost |
| `summaries` | two readers, two stories, two languages, an article of one whose text may be missing, the administrator's trial. `SummaryText` over texts of up to four characters, or up to five after an opened reasoning | the guard is released on every path; a summary saved stays; who asks gets one |
| `profiles` | two outlets, pages of one, two a round. `Registry` over small files and tables | a useful profile is kept for its time; every outlet is renewed |
| `administration` | two persons, one web process with a page at a time, a worker; a switch and a number; two forms | who administers; what was told is stored; what processes go by, and come to |
| `annotations` | three annotators of two orientations, an outlet with two articles and one with one; one open form each | alpha is alpha; labels follow annotations |
| `analysis` | two stories, three outlets of one country and four of others; three judging jobs, two windows | who cannot be reproached is not; flags and signals follow the coverage |
| `fulltexts` | the job and two coroutines that look for feeds, one site that changes its mind, four articles, one without a text, one that redirects away; two articles a round | permissions do not outlive an entry; the job holds no lock across the network; every article gets its text |

Why these bounds are enough. *Feeds* do not share state, so one shows what a feed
can go through; two addresses are the least for which a validator may be
foreign, two versions the least for which it may be stale, two failures the
least for which a count is not a flag, two rounds the least that overlap.
*Stories*: four articles without the one that raises are the least for which one
resembles only one of two others, times come out of order within and across
batches, a later batch continues a story of an earlier one, and an article is at
the newest end of every batch and never gets in. The window (2 h) and the lampo
window (1 h) are scaled so that some pairs are inside and some outside.
*Limiter*: three coroutines are the least for which one sleeps, one waits and one
is cancelled at the same time; intervals of 2 and 3 ticks distinguish "some time
left" from "none". *Titles*: a story with one title that can be corrected and one
that cannot is the least for which a correction reaches the story's title or does
not; two locales, one of them the language of an article, for a column with an
entry lost or left; three translators for one that overwrites another. *Refresh*:
two requests are the least that compete, three groups the least for which the
breaker trips before the last and for which it does not. *Articles*: one
collector of each kind is what the scheduler runs; two addresses of a page, one
alike at another page and a headline GDELT mangles are each the least for which
one way of recognising an article says known and another says new; two rows looked
at are fewer than an outlet may have. *Summaries*: two languages of one story are
the least that overwrite each other, a second story is what the trial goes on to
with the first unsaved; one text is enough to take the lock and hold it, and one
reader may hold it while the other downloads, streams or saves (two articles, tried
once, take four minutes and add nothing). *Profiles*: two outlets, of which one is read, are the
least for which one waits for the other. *Administration*: two persons are the
least that race, two settings the least for which a save changes one and not the
other; a page and a job that loads for another process are the least for
which rows are applied late beside a save and to a process that did not serve it (one
process that does both with two pages, and two web processes with a worker, were
tried as well). *Annotations*: three annotators are the least for which a unit has two
values and a third who leaves; two articles the least for which expected
disagreement is not the observed. *Analysis*: a story is big with four outlets of
two countries and a group can be reproached with three, which is the least
for which one arrival changes each verdict; two stories are the least for which a
propensity is neither nothing nor all. *Full texts*: three articles there at once
and one to come, of which the limit takes two, are the least for which an article
waits for the next round; a life of one tick and a load of one tick let an entry
expire while it is being renewed. For the safety
of every run, the proofs remove the bounds.

Deadlock is checked everywhere except in the clustering: its articles are
finite in number, and once they all have a story there is nothing left to do.

### Fairness

* `FeedCollection`: weak on the periodic `StartRound` (the interval trigger), on
  `EndRound` and on `BackoffExpires` (the clock); strong on `Fetch` and `Store`:
  every request has a timeout and the event loop runs what can run; strong,
  because the competing actions (exception, refused write, end of the process)
  may happen any number of times but not in every round for ever.
* `Clustering`: weak on the scheduled `Begin` and on `CommitCoverage`; strong on
  the other steps of a round, for the same reason: the lock becomes free again
  and again, and the application lives long enough for a commit now and then.
* `Titles`: weak on `StartJob` (the interval), on the end of a translation and of a
  task; strong, per story, on the job's translation of all that is missing: the
  deadline and errors do not hit the same story in every round for ever, and the
  pairs of languages it needs are installed in the end.
* `ManualRefresh`: weak on the task of the manual round and on the work of its jobs:
  the event loop runs it and every request has a timeout. None on the scheduler.
* `RateLimiter`: weak on the clock, on the lock and on the end of a sleep.
* The seven others have a variable `calm` (`quiet` in `Administration`, `settled` in
  `Profiles`): failures that come from outside (a
  database locked too long, a generator that breaks off, the end of the process)
  happen at any point until `CalmDown` (`QuietenDown`, `SettleDown`), and no more after it. Their liveness is
  therefore what becomes of the state *any* sequence of failures leaves behind;
  failures the code brings upon itself (a conflict, a rejected insert, an
  exception in what it was given) go on. With it, weak fairness on the steps of
  jobs and requests (timeouts, intervals) is enough, but where several wait for
  one thing: strong on taking SQLite's lock (`Lock` of `ArticleStore` and
  `Analysis`, which is free again and again), on a round of each outlet
  (`Fetch`, `BeginGdelt`), on the batch of coverages each story is in
  (`GoThrough`) and on a reader who goes on asking (`Ask` of `Summaries`, refused
  while the story is being summarised for somebody else). In `Summaries` being `calm`
  includes that no article without a text comes to a story any more. Articles are
  chosen one for each outlet, those with a text before the others, and no text is ever
  removed, so that requests have texts to store only a number of times. In
  `Administration` the scheduler's job is fair and pages are not: nobody need
  ask for one, and `EveryProcessFollows` says of a process that only serves pages what
  holds if somebody asks again and again; a page that has read the rows applies them.

## 4. The proofs

Assumptions: those named `...Assumption` in the modules (the catalogue's feeds are
addresses, thresholds are positive, alpha is at most one, sets of articles and outlets
are finite, ids differ, there is one social collector, the page shows no more than it and
the job choose from, the "no value" constants are no values). TLC evaluates them in
every run. Two of them are facts of arithmetic and of sequences, true whatever the
constants, that the provers miss an induction for: `SelectionAssumption` of `ArticleStore`
(what SelectSeq picks of a sequence is a sequence of the same kind) and `PowerAssumption`
of `FrontPage` (the powers of two that make up a weight are numbers). The ASSUMEs that
compare a function with what it is for are cited by no proof.

Where a proof here needs an induction over data, it is made without the library's induction
theorems, on a set that exists: the set of the subsets (or of the numbers up to a bound)
for which the claim holds or fails, its least element, and a contradiction.

*FeedCollection_proofs.* `TypeCorrect`, `ValidatorsIngested`,
`ValidatorsOfCurrentAddress`, `NotModifiedIsSound`, `BackoffIsHonoured`: type
correctness and safety, for any catalogue, candidates, behaviour of the sites,
number of rounds and threshold. None of the properties about validators is
inductive: they speak of rows, and rows are overwritten with what a download found,
which depends on what the round read when it started. The inductive invariant
`IInv` adds what connects the two: rounds that never overlapped run one at a time
(`Alone`), only rounds in progress have downloads (`TasksOfRunning`), a download was
made from the row as it still is (`TasksFresh`), and its outcome is consistent with
what was asked (`TasksConsistent`: a 304 comes from the address asked, to a validator
sent, which is current if it is that address's own). One lemma per action, one
step per conjunct the action can disturb.
`MirrorImplemented` is the refinement of `FeedMirror`. A commit must be a `Copy`, so
`MirrorInv` says of a download in progress what only the moment it was made knew: what a
round holds is of an address of its feed (`TasksOfFeed`, with `ResolvedOfFeed` for the
address autodiscovery left), at a version that site has published, and, while no rounds
overlap, not older than anything stored of that address (`NothingOlder`, with
`StoredWasPublished` for the moment of the download).

*Clustering_proofs.* `FlashStays` for any rounds, overlapping or not; `CountsOfMembers`,
`SpanOfMembers`, `MembersAreAlike` and `CoverageOfMembers` while they do not overlap.
The invariant is in two parts. `Kept` holds always: the stories a round has loaded
are stored (`IndexStored`), and what is uncommitted takes no story and no lampo away
(`SessionsAdd`), because an update carries only the columns that changed (`Updated`).
`OneAtATime`
holds until rounds overlap: the committed database is `Sound` (every story has
members, its figures are theirs, each resembles another); the round at work is
alone, its index is what its database says, which is sound, and its articles have no
story yet (`AloneWith`), which is what makes `Attach` and `Open`, which compute from the index,
right; what is not covered is what the round has touched (`Covered`). That the span
is the members' rests on a lemma on least and greatest elements when one is added
(`MinMaxAdded`), which needs the existence of both in a finite set
(`MinMaxOfFinite`, by the well-foundedness of strict inclusion).
`GroupingImplemented` is the refinement of `Grouping` in the behaviours without overlap:
what the session that writes has not committed only adds to what is (`SessionsGroup`: a
story to articles that are stored and had none, lampo to the stories they go to), so that a
commit is one step of `Grouping` (`AddsGroups`), and all the rest but an arrival is none.

*Titles_proofs.* `TypeCorrect`, `TitlesTranslatedOnce`, `TranslationsFollowTheTitle`,
`NeutralTitlesAreArticles`: the safety properties of `Titles`, for any articles,
stories, languages, locales and number of tasks. That translations are of the title
shown is not inductive: a translator writes what it made of the title it read. The
invariant `IInv` says that, unless raced, what a translator holds is of the title
the story still has (`CopiesCurrent`). Likewise a clustering round writes what it
loaded: `RoundKept` (articles and stories it loaded are still there) and
`RoundCurrent` (without a correction meanwhile, with the same titles) make its
choice the title of an article. `TasksHaveTitles` keeps items without a title out of
the tasks.
About `FrontPage`, for archives and limits of any size: `FrontPageIsFull`,
`CountryPageIsFull`, `ShownIsPrepared`. All rest on `FirstCount`: the first n of a finite
set in a strict total order are n, or all. (Counting who is before numbers the elements
differently, and a one-to-one map of a finite set into as many numbers reaches all of
them.) What is granted a place was taken from the current stories and is no more
than the page has places (`GrantedAre`), so the heaviest left and the granted fill it
exactly. The job chooses from at least the stories the page chooses from; whoever is
heavier than a story of the page and is not among the candidates of the page is current and
beyond the `PageCandidates` newest, of which there are at most `JobLimit - PageSize`; with
the fewer than `PageSize` candidates that are heavier, fewer than `JobLimit` are before it.
`VersionsFarApart`, for any number of outlets and versions and any distance
(`IsDistance`: symmetric, with the triangle inequality): at every step the farthest outlet
is taken, so those left out are no farther from the chosen than the chosen are from each
other (`Near`). Any k others have two that are nearest to the same chosen one or are it,
and are at most twice as far apart as that. The code's distance is one
(`CountriesAndLanguages`), hence `VersionsOfOutlets`. The recursion of `Diverse` is shown
to have a solution (`StepsExist`) before anything is said of it.
About `SummaryText`, for any characters, texts and marks of the reasoning:
`FilterShowsTheAnswer`. What the filter is after some pieces is a function of the text
they make up (`FilterOf`), whatever the cuts, because each thing it may decide is decided for
good: a text that begins with the mark, or cannot any more, stays so (`Decided`), the first end of the
reasoning stays the first (`ClosedStays`), and what is stripped depends on later pieces only
while there is nothing to keep (`StripConcat`). The recursion of `Shown` has the filters of
the texts so far for its solution. `InputIsDeclared`, for any articles: the choice of a
prompt is the first of its outlets in a strict order (`PrecedesIsOrder`), and those with a
text come before all others, so the chosen among them are the first of them (`FirstCount`
again, twice).

*ManualRefresh_proofs.* `TypeCorrect`, `ActiveIsCounted`, `ProgressIsOfAJob`,
`OneRoundAtATime`, `SilenceIsBounded`: type correctness and four invariants; and
`BarOnlyMovesForward`, an action property. All for any number of requests, kinds of jobs, items and groups, and without assuming that
the requests are finite in number. The invariant adds that a manual round runs
exactly the job of the phase it is in (`JobsOfRounds`), which with `OneRound` gives at
most two jobs of a kind, and for GDELT what holds between two groups
(`GroupsInOrder`: the requests unanswered are at most twice the groups in a row
without a connection). Two lemmas carry most of it: `GoesOnKeeps` for every step of
a job and `TrackingKeeps` for everything that enters or leaves `tracking`.
`EndsBounded` is about the retries of one request: at most two in a row at its end
find no connection. The bar needs a second invariant, `BarInv`: a job has never done more
than it has found (`JobsWithin`), while nobody else shared the phases no job of the
scheduler is in one (`NobodyElse`), and the phases done are those before the one at work
(`PhasesInTurn`). Then `overall` has one phase it can name, so that what it shows is the
weights of the phases behind it and a part of the next weight (`ShownByARound`); a part is
between nothing and the whole and grows with what is done (`PartWithin`,
`WorkAddsToThePart`, on `\div`), and the end of a phase gives the whole
(`RoundMovesForward`).

*RateLimiter, in FeedCollection_proofs.* `RequestsSpaced`: permissions of one limiter are spaced, for
any number of coroutines, limiters and hosts and any intervals. The invariant: a
sleeping coroutine holds the lock of its host (`SleepersHoldLocks`), so nobody
else is let through while it sleeps, and what is left of its sleep and what has
elapsed since the last permission make up the interval (`SleepsSuffice`). The
type of the queues is not needed and not proved.

*FullTexts, in FeedCollection_proofs.* `TextTypeCorrect`, `PermissionsAgeAlways`,
`TransactionsShort`, for any coroutines, caches, hosts, articles and times. That a permission is no older than an
entry's life needs `HeardInTime` (an answer heard was true when it was heard, after
its load began, even if another overtakes it) and `KeptInTime` (what is kept was true
at its stamp, which is the beginning of its load).

*ArticleStore_proofs.* `TypeCorrect`, `PagesStoredOnce`, `WordsStoredOnce` and
`ArchiveImplemented`, the refinement, for any outlets, addresses, titles and
editions, any number of collectors of feeds and of GDELT, and any `RecentLimit`.
What a collector must not store twice it has looked up before it waited for the
lock, so none of it is inductive. `Looked` says that what a session looked up still
covers the table it sees: whom it knows is there, and whose title is not among
its recent ones has at least `RecentLimit` later rows (`Covers`); it survives because
tables only grow (`Extends`: rows keep id and outlet, a title changes only without
a snippet and leaves the row marked `corrected`), which is the refinement too. `DraftGood`
says that what the holder of the lock has written could be committed. Two lemmas about
tables alone (`InsertedGood`, `CorrectedGood`) carry the rest.

*Requests_proofs.* About `Administration`, for any people, processes and keys:
`AdministrationTyped`, `FirstRegisteredAdministers`, `ToldIsTrue`, `ServedAgreesWithRows`.
That there is an administrator as soon as there is a profile needs what a registration
concluded when it counted (`SomebodyAdministers`: who counted somebody was right, for
accounts are never taken away), and that there is one needs `FirstIsOne`: two who found
nobody are a race. For the settings, `PanelInv` says that where no save crossed another
(`shared`) what a save has read of the rows is still there when it writes
(`ReadIsStored`), and that a process goes by a save applied to it
(`AppliedServes`), which is before its commit, unless a page or the job has set it back
since (`behind`). What a load has read need not be still there: what it applies that is not the
row any more goes into `behind`. The process of a commit keeps `ServedAgrees` by the two
parts; the others do because what was saved is behind them.
About `Summaries`, for any readers, stories and languages: `SummariesTyped`,
`GuardIsOfARequest`, `GuardIsHeld`, `NeutralWithTheFirst`, `SummariesStay`. A save
writes the whole column from a copy, so that a summary stays only if the copy is the row:
where no two generations crossed, a request, which may be downloading texts, is alone
with its story and its copy is the row
(`RequestsAlone`, and `TrialAlone` for the administrator's trial). Where they did cross, no
copy knows of a neutral summary the row does not have (`CopiesBehind`), so the neutral
one cannot be lost even then.

*Jobs_proofs.* About `Profiles`, for any outlets, pages and budget: `ProfilesTyped`,
`KickedAreAtWork`, `UsefulIsKept`. Neither the job nor a task looks again, before it
replaces a profile, at what made it start. The invariant says why it need not: an outlet
that was in nobody else's hands is as empty (`EmptyAtHand`) or as due (`DueInJob`) as when
the work began. That a round never has an outlet twice is in its type.
About `Analysis`, for any outlets, stories, windows and thresholds: `AnalysisTyped`,
`SilenceMeansSomething`, `TimeIsGiven`. A job may write what it concluded from an old
look; that a verdict keeps its grounds is `SeenBefore` (coverage and age only grow) with
`FlagsAreVerdicts` (flags come from a verdict on what its job saw and from nothing else).
That a verdict has grounds is arithmetic: if no outlet of a country covers a big story,
every draw is a silent one (`SilentAlways`), and a share that is the whole is not below
alpha, which is at most one (`ImprobableSpeaks`; the number of draws is finite by
`FunctionsFinite`).
About `Registry`, for any tables and files, and whatever Wikidata answers:
`CatalogueIsIdempotent`, `SeedIsIdempotent`, `FactsAreOfTheQID`. An upsert done twice is
done once (`UpsertAgain`) if what may be referred to has not changed; the owners of the seed
come first and shares and funding refer to the owners there are by then, so on a second
reading the same lines are skipped (`OwnersAgain`). That all owners with a QID are asked about when
a round can take them is a bound on how many come before one of them in the table (`FewBefore`).

*Annotations_proofs.* `AnnotationTypes`, `SamplingIsStratified`, `AgreementIsPairwise`, for
any annotators, outlets and articles.
`AgreementIsPairwise` equates the code's alpha, made of coincidences by pair of values,
with its definition, made of judgements by pair of annotators. The two are sums over
sets of different shapes; both are taken to one sum over pairs of judgements, which is
summed by its fibres. The laws of sums this needs (of a union, of a product, over the images
of a function, of zeros, of multiples) are lemmas proved once for sums over finite sets.
`SamplingIsStratified` (`Balanced`: an annotator has judged at most `Forms` articles more
of one outlet than of another he could still be given one of) is not inductive, because a form may
be open while another is sent: `BalancedWithForms` counts the articles in the open forms
as judged, and `FewForms` bounds how many those are.

A few definitions are proved and checked by no run, because a run says nothing a
reader could not see, or because the theorem says more than a small instance: the type
invariants, `ValidatorIngested`, `ValidatorOfCurrentAddress`, `FlashForGood`,
`CountsMatchMembers`, `ActiveCounts`, `ProgressOfAJob`, `KickedIsAtWork`, `TimeToCover`,
`Balanced`, and `GeneratedIsGuarded` and `NeutralOfASummary` of `Summaries`. To check one
with TLC, add it to the cfg.

Only model-checked:

* the liveness properties, one or two a run (fairness and ENABLED are out of the prover's
  reach): `FreshContentIngested`, `BacklogClears`, `EveryoneServed`, `EventuallyTranslated`,
  `RefreshEnds`, `WordsOfTheFeed`, `FoundIsStored`, `SummaryInTheEnd`, `Renewed`,
  `EveryProcessFollows`, `LabelsFollow`, `FlagsFollow`, `TextInTheEnd`;
* which summary a page shows (`ShownSummaries`, `OtherSummaries` of `SummaryText`),
  compared over all the cases there are of three languages.

## 5. Where documentation and code disagree

None has a run of its own: each is a single trace, described here and with its
line in `PROJECT.json`. Where a definition is named it is in the module and says what
the documentation does; put into the cfg (as an ASSUME, where it is about a
function), TLC shows the trace.

1. **Repeated failures without backoff** (`RepeatedFailuresBackOff`). `store_feed` resets
   the count before it looks at the content: a URL that answers 200 with something that
   is no feed stays at one failure and is downloaded at every round.
   `docs/DECISIONS.md` (ADR-0018) promises backoff after three failures in a row.
2. **An unchanged feed behind a filter fails** (`ReadableFeedDoesNotFail`). The repetition
   with a browser's headers keeps the conditional headers and is accepted only if answered
   200; its 304 counts as a failure, and three of them put a working feed in backoff.
3. **Lampo without haste** (`FlashReachedInTime`). `_maybe_flash` compares `first_seen` with
   the time of the article just attached, and `first_seen` has just been set to it if
   the article is the oldest. `docs/METHODOLOGY.md` defines lampo by the time within
   which the outlets covered the story.
4. **A translation of another title** (`TranslationShownIsOfTheTitle`). A correction empties
   the translations "so that they are made again" (`rss.py`); a translation in progress
   then stores its own, of the old title, and the language is not tried again. The
   clustering changes neutral titles without emptying anything, and the
   translations of an article's own title survive its correction.
5. **The bar goes back** (`BarNeverGoesBack`). ADR-0021 promises it never does; the second
   pass of GDELT sets the progress of its phase to zero.
6. **One limiter per job.** `docs/LEGAL.md` promises one request every two seconds per
   site; two jobs running at once, each with a limiter of its own, do not know of each
   other.
7. **Translations overwritten.** Each translator writes the whole column, from the row it
   read. What is lost is made again (`EventuallyTranslated`).
8. **A breaker that trips too late.** It is tested before a group, so two failures at the
   end of the first pass let the second begin. `SilenceBounded` is stated per pass.
9. **A feed that carries a page twice is never stored** (`FeedIsStored`). With another title
   the second time, the row just added is corrected before it has an id, its
   provenance is refused, and the whole transaction with it, at every round.
10. **The tour of the accounts ends with a conflict** although "a channel that fails does
    not stop the others": only the downloads are guarded, not the storing.
11. **Two summaries at once** (`OneGeneration`). The guard is tested, then texts are
    downloaded, then it is entered.
12. **A hostile robots.txt stops the profiles** (`HostileStopsNobody`, with an outlet in
    `Hostile`). The round's log line reads a row the rollback expired; the outlet is
    first again in the next round.
13. **A rendering browser after a 403.** ADR-0027 says a refusal is respected; the page is
    opened again.
14. **Two administrators.** Registrations that count no profile before either commits both
    become one; `FirstAdministers` allows exactly that.
15. **Agreement of one orientation** (`AgreementOfOrientations`). Alpha is over all articles;
    that annotators of two orientations judged one in common is not asked.
16. **No QID is ever stored** (`EntitiesLinked`). The dictionaries of the loaded list are changed
    in place, so the new list compares equal and is not written.
17. **A page that redirects away ends the job of full texts** (`EveryText`, with
    `MCMoved == {3}`): the refusal of `net.py` is no `HTTPError`, and the article is first
    again in the next round.
18. **The catalogue removes nothing** (`CatalogueIsTheTable`).
19. **Facts outlive their QID** (`FactsAreConfirmed`).
20. **A covered story of the last minute pushes another out** (`CoveredHaveAPlace`): the last
    places are given away whoever has them.

## 6. What is left of the plan

* Composition: `Clustering` and `Titles` over one database, where today each has the
  other's steps as a summary of its own.

## 7. Not modelled

Of the parts with a module, what is left out is said with it. Not modelled:

* text analysis (`core/nlp/embed.py`, `tone.py`, `topics.py`, `lexicon.py`, `actors.py`,
  `core/extract/language.py`) and the statistics of agenda, co-coverage and framing in
  `core/bias`: functions over floating-point numbers and word lists, whose results the
  models take as data;
* parsing of feeds, pages, API answers and dates, and the wording of prompts;
* pages, charts and exports: they read and render, but for what `FrontPage` says;
* provenance and logs: append-only records, but where a record refused refuses a
  transaction (`HasNoId` of `ArticleStore`);
* windows and start-up of the launcher, migrations, the engine's settings, tokens of
  sessions;
* `prova_generatore`, which asks the generator one question and stores nothing.
