# ccrawl-cli in TLA+

A model of the parts of ccrawl whose mistakes would be found late: what is
resumed after a kill, what a checkpoint promises, when a crawl or a publisher
may stop, what reaches a dataset repository, and whether an answer is whole. The
modules are translated from the Go sources; `PROJECT.json` maps every definition
to the lines it stands for and lists the hazards of this code, each at its line,
with the properties that look for it.

## Inventory

Paths are below `src/ccrawl/` unless they start with another directory.

| component | state | operations | talks to |
|---|---|---|---|
| **recrawl engine** `recrawl.go`, `recrawl_flight.go`, `recrawl_spread.go`, `recrawl_writer.go`, `recrawl_extract.go` | reorder buffer by host, flight set, channel to the pool, writer queues, page counter, error channel | `Run`: feed, checkpoint, `process` in N workers, writers, `finishFlight` | work list, sink, robots, fetcher |
| **work list** `worklist.go` | part and row, decoded rows; the checkpoint file | `Next`, `Position`, `Save`, `LoadCheckpoint` | engine, publisher (reads the file) |
| **capture sink** `capture.go`, `capture_fanout.go`, `warcwrite.go` | open shard or archive per part, counters; `.tmp` and sealed files | `Write`, `Sync`, `Full`, `Close`, rotation | engine, crawler, publisher (reads the directory) |
| **recrawl publisher** `publish_recrawl.go`, `publish_common.go`, `recrawl_ledger.go` | ledger row, batch, totals; one card for three machines | `pass`, `add`, `flush`, `sidecar`, watch loop | directory, checkpoint file, hub, the other machines through the hub |
| **hub client** `hf.go`, `hf_upload.go`, `hf_extra.go` | one commit's plan, pieces in flight | measure, preupload, batch, put, complete, verify, post; `CommitWithRetry` | publishers, object storage |
| **supervision** `deploy/systemd/` | | restart on failure (crawl), always (publisher) | both processes |
| **URL frontier** `frontier.go`, `seencache.go` | SQLite tables; admissions, ready list, completions and host clocks in memory | `Add`, `Pop`, `Done`, `Fail`, `Retry`, `Defer`, `Sync`, open and close | crawler |
| **crawler** `crawlrun.go`, `hostclock.go` | workers, in-flight count, page count | `Seed`, `Run`, `process`, `expand` | frontier, robots, fetcher |
| **robots.txt** `robots.go` | cache bounded in entries and bytes, single flights; the parsed groups | allow or refuse, crawl delay | crawler, engine |
| **markdown export and refetch** `markdown*.go`, `refetch*.go`, `warc_cache.go` | shards on disk, ledger of what is committed, pool, committer | pack, push, mark, skip, report | hub, batch fetch |
| **batch fetch** `batchfetch.go`, `keyledger.go` | groups, tokens, reorder buffer, key ledger | coalesce, fetch, emit, mark | Common Crawl, `cli/fetch.go` |
| **URL, news and domain publishing** `publish_urls.go`, `publish_news.go`, `publish_domains.go`, `publish_verify*.go`, `publish_recount.go`, `ledger.go` | work queue, committer, tallies, stall clock, `stats.csv` | project, commit, resume from the hub, recount, verify, repair | Common Crawl, hub |
| **index search** `cli/ops.go`, `cli/cdx_pages.go`, `cdx.go`, `cdxspill.go` | page losses, log of emitted URLs, picker, digest set, each with a budget and files | `search` with `--latest-only`, `--dedup`, `--at` | index server |
| **columnar scan** `columnar.go`, `columnar_native.go` | predicates, workers, sink, counts | prune, mask, emit, count, break down | Parquet files |
| **polite HTTP client** `client.go`, `ratelimit.go` | file of request slots shared by processes, delay of a process | throttle, retry, backoff | everything that reads |
| **host resolver** `resolver.go`, `webpool.go` | cache of names, bound on lookups | look up, race, dial | engine |
| **dataset library** `download.go`, `manifest.go`, `cli/library.go`, `cli/download.go` | tree of archives, manifest, lock | download, scan, gc | |
| **file access** `httpreaderat.go`, `cache.go`, `s3.go`, `crawls.go` | caches | range reads, listing | everything that reads |
| **formats** `pkg/warc`, `pkg/wat`, `pkg/wet` | | parse and write records | |
| **command line** `cli/`, `metrics.go`, `journal.go`, `recrawl_timing.go` | flags, counters, event log | | |

What is hard, and what makes each part correct:

* *Engine.* One feeder, many workers, one writer per sink part, and a checkpoint
  taken while all of them run. Rows are handed out of list order and finish in
  any order. A process can be killed at any point, and every write can fail.
  Correct means that a resume skips nothing, that done means done, that a page
  fetched in a run that stopped cleanly is in a finished shard, that the page
  limit is exact, and that every run ends.
* *Handoff.* Two processes share a directory and a file and never speak. Shards
  are listed, hashed, committed and deleted in separate steps, while names are
  reused; commits can land without an answer. Correct means that no row behind
  the checkpoint is without a copy, that nothing is published twice, that the
  ledger counts what is there, and that everything is published in the end.
* *Frontier and crawler.* Admissions, completions and host clocks are buffered
  against a kill; the crawl ends by comparing two counters that several workers
  move. Correct means that no URL is in two hands, that the links of a page that
  counts as done are queued, that a page is fetched twice only when a kill took
  its completion, and that hosts are left alone as long as promised.
* *Robots.* Shared fetches, expiry, eviction in two budgets over a hand-made
  list, and a matcher with wildcards.
* *Publishing.* Workers ahead of one committer, two ledgers that can disagree,
  a hub without compare and set, commits of unknown outcome, a stall clock that
  cancels, a disk that fills. Correct means that the ledger says what the hub
  has, that complete means whole, and that the exit code tells a supervisor
  whether starting again is worth it.
* *Export and fetch.* A pool, one committer or writer, append only ledgers that
  a kill can tear. Correct means that what is skipped was done, that a shard
  holds every page once, and that the end of a run accounts for all of it.
* *Search and scan.* Answers that are put together from pages and files of which
  some fail, with memory that is bounded and spills. Correct means that a row
  that should be in the answer is there, or the command says why it may not be.

## Modules

| module | what it is |
|---|---|
| `LowWaterMark` | abstract: rows are settled in any order, a mark only moves forward and never past an unsettled row, done only when no row is left |
| `Recrawl` | the engine with its work list, sink and checkpoint, restarts included |
| `RecrawlInvariant`, `RecrawlProofs` | its inductive invariants and its theorems, about rows and about pages |
| `RecrawlPublish` | crawl directory, publisher process and hub of one machine |
| `HandoffInvariant`, `HandoffProofs` | its inductive invariants and its theorems, about rows and about the ledger |
| `Frontier` | the URL frontier: disk, buffers, seen cache, host clocks |
| `Crawler` | the crawl on top of it (EXTENDS `Frontier`) |
| `RobotsCache` | the cache of robots.txt verdicts as the linked list it is |
| `LruCache` | abstract: entries in order of use and as many as fit; `RobotsCache` implements it |
| `RobotsRules` | what a robots.txt says about a path |
| `PackRun` | a markdown export or a refetch: shards, pool, committer, ledger, runs |
| `ShardPack` | inside one shard: reader, converters, writer |
| `BatchFetch` | batched ranged fetches and their key ledger |
| `WARCFiles` | writers of WARC files in one directory |
| `UnitPublish` | one unit of the URL, news or domain dataset, with recount and repair |
| `HubUpload` | one commit through object storage |
| `FleetLedger` | three machines, their ledgers and the card |
| `NewsStream` | one news file over connections that break |
| `CdxQuery` | a search over several crawls |
| `NativeScan` | a scan of the columnar index |
| `HttpAccess` | requests, slots, retries |
| `HostResolver` | names of hosts under the connections |
| `Library` | archives, manifest and their commands |
| `CrawlProofs` | theorems about `Crawler` with `Frontier` |
| `FetchingProofs` | theorems about `PackRun` and `ShardPack` |
| `PublishingProofs` | theorems about `HubUpload`, `FleetLedger` and `NewsStream` |
| `UnitProofs` | theorems about `UnitPublish` |
| `ReadingProofs` | theorems about `HttpAccess`, `HostResolver` and `Library` |
| `SumProofs` | lemmas about sums over finite sets and counts in sequences |
| `MCRecrawl`, `MCRecrawlPublish`, `MCCrawler`, `MCPackRun` | constants for TLC |
| `MCReading`, `MCPublishing`, `MCFetching` | constants for TLC, and several components side by side |

How they compose. `Recrawl` and `RecrawlPublish` both implement `LowWaterMark`:
the first with a row settled when it is in a sealed shard (or was passed over on
purpose), the second with a row settled when it is in a shard in the directory
or on the hub. `RecrawlPublish` uses of `Recrawl` only what it promises: shards
with rows before the checkpoint are sealed first. `Crawler` runs the operations
of `Frontier`, each of which holds the frontier's mutex for its whole body and
is therefore one step. `PackRun` takes of `ShardPack` that a shard is packed
whole, fails, or was cut short; `UnitPublish` and `FleetLedger` take of
`HubUpload` that a commit lands whole or not at all, with or without an answer;
`UnitPublish` takes of `NewsStream` that a file is projected whole or fails.
`Crawler` takes of `RobotsRules` and `RobotsCache` a verdict for each host.

Components that share no state are checked side by side: in `MCReading`,
`MCPublishing` and `MCFetching` a variable `subject`, chosen by the initial
state, says which component the behaviour is about; the others keep the
quiescent state they start in. The states of such a run are the union of the
states of its components and not their product, and each property speaks of its
own component.

Most modules hold a few operators marked *Mutant*: plausible mistakes in the
definition that follows them. They are not part of the specification, and show
that each property notices something.

### Recrawl

| state | code |
|---|---|
| `ck` | the JSON file behind `Checkpoint`, written with rename |
| `wl` | `WorkList.part`, `row`, `done` |
| `held`, `order`, `cur`, `walked` | `hostSpread`: its rows, hosts in order, turn, `done` |
| `live`, `past`, `seq` | `flight` |
| `work`, `at`, `job` | the channel `work` and the workers of `Run` and `process` |
| `wq`, `wr`, `wjob`, `open`, `sealed` | `startWriter`'s queues and goroutines, the fan-out sink's open shards, its finished files |
| `full`, `cancelled`, `errs`, `feedErr`, `pages` | the page limit's stop, the context, the error channel, the feeder's result, `claimPage`'s counter |
| `pc`, `hand`, `mark` | the goroutine of `Run`: `feed`, `checkpoint`, `finishFlight` |
| `passed`, `dropped`, `fetched`, `runs` | history, read by properties and bounds only |

`Feed` are the steps of that goroutine, `Work(w)` those of a worker, `Write(p)`
those of the writer of part p. `Crash` may happen between any two of them, and
`Start` is a new process on the same files. Each step is what the code does
between two points where another goroutine can get in: a lock, a channel
operation, a file operation, an answer from outside.

* A position (part, row) is one number; the end of a part and the start of the
  next are the same position. `Refills` are the rows at which the code goes to
  the network for more, where a part or a decoded buffer starts. A failing read
  can stop there, at the end of the list, and at the first row a process reads.
* `FeedRead` is one step: nothing else touches the reader.
* Waiting for robots.txt and for the host's clock is the place "ask". A refusal
  and an unusable URL both pass the row over (`Refuse`, then `Retire`).
* `Receive` looks at the page limit and the context in one step; both only ever
  become true.
* A fetch that fails makes a row too, so `Fetched` is both outcomes.
* The sink is the Parquet one. A failed write adds nothing to the open
  shard. A failed seal is taken to lose every row of that part's open shard for
  good: the file stays a `.tmp`.
* Sizes are counted in rows: `ShardRows` makes a shard full.

### RecrawlPublish

| state | code |
|---|---|
| `ck` | the checkpoint file, read by `crawlDone` and `sidecar` |
| `files` | sealed shards by name: prefix and number |
| `cpc`, `run`, `next`, `open`, `shardNo` | the crawl, with `CaptureWriter.seq` |
| `hub`, `ledger` | the repository's shards by path and this server's ledger file |
| `ppc`, `staged`, `exists`, `batch`, `moved`, `stat` | `recrawlPublisher.pass` and the committer |

A shard's bytes are its rows and the run that fetched them, since pages fetched
twice differ, and its path is a hash of these bytes. The crawl writes its rows
in order here, and a checkpoint may name any row up to the next one once
everything before that is sealed, which allows more than the engine does. `Landed` reads the
files again by name, as the upload does, and skips those that are gone. The
committer's totals and the ledger row are one variable: they only differ after
an error, and an error ends the process. A process killed and one that gave up
after its attempts are the same step. Listing the directory and hashing its
files is one snapshot.

### Frontier and Crawler

| state | code |
|---|---|
| `row`, `nextAt`, `tries`, `stage`, `hostRow` | the SQLite tables: a URL's state, `next_at` and `retries`, the staging table, the hosts |
| `seen` | the two generations of `seenCache` |
| `pending`, `ready`, `deferred`, `finished` | the frontier's buffers between its calls and its transactions |
| `lru`, `hot`, `dirty`, `slot` | the cached host clocks and whose reservation stands |
| `queued`, `idle` | the counter behind `Len`, and the empty refill remembered |
| `phase`, `seeding`, `at`, `cur`, `todo`, `inflight`, `done`, `cancelled`, `pages` | `Crawl.Run` and its workers |
| `archive` | what reached the sink |

`add`, `Pop` and the other operations of `Frontier` are what the methods of the same names do
under the mutex, flushes and merges they trigger included. A worker's steps are those
between two such calls, so that a robots request, a wait and a fetch let others in. Times
count down to zero: `next_at` and the host clocks are ticks to go, and `Tick` takes one
off each. `kills`, `faults`, `lost`, `refused`, `silent` and `dropped` are history.
Bodies, extraction and scope are the constant `Links`; what robots.txt says of a host
is the constant `Robots`. The priority of a URL is a rank, and the SQL is what it
selects and writes; which rows of one priority a refill gets first is left open (`Orders`), as
the query leaves it.

### Robots

`RobotsCache` has the map, the nodes with their links, the bytes and the single
flights of `RobotsCache` in the code; each section under its lock is one step, and
the request in between is not. `KeepsRecent` is the refinement to `LruCache`,
which knows nothing of links. `RobotsRules` reads a file line by line
(`parser` is the loop's groups and whether agents may still be added), merges the
groups for this crawler (`entry`), and decides paths. Its properties
state the reference: the RFC's matching by trying every place a star can end, and the
groups of a file by what stands between two lines. Percent escapes are left out.

### Markdown export, refetch, batch fetch, WARC files

`PackRun` is `RunMarkdown` and `RunRefetch`: `export` holds feeder, channel of
results and committer, `packer` the pool, `kept` what is on this disk and `stored` what
the hub has. `ShardPack` is one shard: `shard` the reader with both queues,
`converter` the pool, `parquet` the rows written. A page is its body, a small number that
stands for its digest. Waiting for disk is left out. `BatchFetch` is `RunBatchFetch`: the sorted groups, tokens,
workers and the reorder buffer (`fetch`, `slot`, `fetcher`) and `KeyLedger`
(`marks`). `WARCFiles` is the writer of `warcwrite.go`, several of which
share a directory, killed and cut off from power; a capture is its size.

### Publishing

`UnitPublish` is one unit: a crawl's URL shards, a month of news or a release of
domains, chosen by `kind`, with `publish`, `recount` or `repair` as the mode of a process. `job` is the
process, `place` and `part` its workers, `local` the staging directory and `hub` the
repository. A shard has one row, so that rows and shards differ only
where the code counts them apart. A recount reads the footers with a pool of its own
(`sumPublishedTotals`: `HandOver`, `ReadFooter`, and a feeder that watches the end of the context
as long as it has paths), then writes its row and commits it like a batch without shards. A repair
projects what it found bad, or could not read, one shard after the other (`repairURLShards`); each
full batch is committed at once, without the ledger and under no stall clock, and the first
shard that cannot be had ends it. `DiskStaysFlat` speaks of the staging directory in each mode: a run that
publishes brings only what there is room for, or nothing as long as an earlier run left more
than that (`left`); a repair looks at no floor and adds a batch to what it found there, which is
why it must flush as it goes; a recount adds nothing. `HubUpload` is `createCommitGo` and what it calls, with
`CommitWithRetry` around it: `up` is the conversation, `object` and
`piece` the uploads in parallel, `store` and `commits` the external hub.
`FleetLedger` has one step for each look at the hub and one for the commit, so
that other servers commit in between. `NewsStream` is `streamNewsFile` with its
reconnects: records are positions, a block's rows reach the shard together.

### Search, scan, access, names, library

`CdxQuery` is `search` over several crawls: `reading` and `losses` are the stream,
a page that fails, comes back short, or breaks off at a line the scanner refuses when part of it has gone
out; `urlLog`, `picker` and `digests` the three structures of `cdxspill.go` with what
they keep on the heap and in files, `answer` what came out. A capture is a record of URL,
digest and time. `NativeScan` prunes row groups by page bounds, masks
columns and emits through one sink; strings are sequences of numbers in the order of their
bytes, and `Meant` is the reference that knows no pages. `HttpAccess` is
`HTTPClient.Do` over the file of slots: `slotFile` and its lock, `client` a process, `call`
a request with its attempts. `HostResolver` has the
dialers' steps around the lookup slots and the race. `Library` has one tree, one
manifest, and the steps of downloads, a scan and a collection between their file
operations and the lock.

## Runs

The `.cfg` files hold the constants of each run.

| run | asks |
|---|---|
| `recrawl_resume` | cancelled, killed or stopped by the page limit anywhere, does a second run miss a row, say done early, move the checkpoint back, overrun the limit, or stop cleanly without its pages? Is `PageInv` invariant? |
| `recrawl_faults` | with every write, seal, save, read and callback able to fail, is the engine still a low water mark, and is `Inv` invariant? And beside it: `RobotsRules`, `CdxQuery`, `HttpAccess`, `HostResolver`, `Library`, `NativeScan` |
| `recrawl_live` | does every run end, and is the list finished? |
| `publish_handoff` | with both processes killed anywhere and answers lost, is a page lost, counted twice or deleted early, is everything published in the end, and is `HandoffInv` invariant? |
| `crawl` | over two starts, with a kill, a cancel or a failure anywhere: is a URL lost, in two hands, done without a reason or fetched twice without one, is a host asked too soon? |
| `crawl_live` | does a crawl that nothing disturbs end, with and without a page limit? |
| `publishing` | `UnitPublish`, `HubUpload`, `FleetLedger`, `NewsStream`: are the ledger, the exit code, the commit, the card and the shard what they say, and does it all end? |
| `fetching` | `RobotsCache`, `PackRun`, `ShardPack`, `BatchFetch`, `WARCFiles`: is the cache the abstract one, is a shard passed over, a page missing, a record out of order, a capture overwritten, and does it all end? |

Most properties are conjunctions: of the type invariant of the component and of
parts that are stated one by one above them. `UrlsKept` is six facts about one
set of URLs, `UnitIsHonest` what a unit says of itself, and so on. Each part has
a mutant of its own.

Bounds.

* *Engine and handoff.* Three or four rows, with two hosts of unequal length, are enough for a
  row to overtake an older one in the buffer, in the pool and in the writers at
  the same time, and for a checkpoint between them; two workers and two writers
  give every pair of actors. One row per batch puts a checkpoint after every
  item, two rows a batch that spans a boundary. Two runs show everything a
  restart can find, since a process has no memory but the files. The last of
  `MaxRuns` runs is undisturbed, which is how `recrawl_live`
  can end. Names with two prefixes show restarts whose shards do not collide, and
  `MaxTroubles` bounds kills of the publisher and lost answers together.
* *Crawl.* Three URLs of two hosts, where a seed links to the other two, two
  workers, and buffers of one or two entries, so that each of them is full, half full and
  empty at every point; one slow host and one that refuses; two starts and one
  fault, since a fault is remembered only in the file.
* *Fetching.* Three hosts in a cache of two entries and three units of weight;
  three shards, the ledger empty or with the third of them from a run over another
  range, a pool of two, batches of two, two runs with one fault; queues of
  one; lists of three to five locations that overlap, repeat and leave holes of
  every kind around the gap and the span; two writers of files of size four.
* *Publishing.* Four parts committed by two, so that there is a commit before the
  last, a disk with room for two, two runs with two faults (one for news and
  domains); two files, one of two pieces, with two slots and two faults; two
  servers with four ledgers (a shard on two servers, and a slice under two totals)
  and three commits; files of three and five records read in blocks of two over
  three connections.
* *Reading.* Robots files of four lines and every pattern of four characters over
  two letters, star and dollar: a fifth line adds no new neighbourhood of lines.
  Seven sequences of three crawls in which URLs share keys and content across
  pages and crawls, with buffers of one and three entries; two requests of one or two
  processes; three connections to two names; two archives; two files of two and
  one row groups around a host, its subdomains, a sibling that only begins alike, and
  nulls.

Symmetry in the workers is used in safety runs only. Deadlock is checked in the runs of
the engine and the handoff, `recrawl_faults` included, where the other components
may stutter. The crawl, the exports, the uploads and the units are processes that
end, and are not started again when the bound on runs is reached: there
`CHECK_DEADLOCK FALSE` is said, and the liveness properties say which waits may not
last.

### Runs that end in a violation

Each of these shows one disagreement between the code and what its comments or
documentation say of it; `PROJECT.json` "findings" quotes the lines.

* `recrawl_skip`: a stop that reaches a read of the work list half way drops the
  rows already read, and the final checkpoint is past them. `NoRowSkipped` holds
  when reads fail only at a row with nothing before it in its batch
  (`recrawl_resume`); what holds always is `OnlyDroppedRowsSkipped`.
* `publish_overwrite`: a restarted crawl reuses shard names and renames over
  shards that are not published yet. With a prefix per run, `publish_handoff`
  shows that nothing is lost.
* `crawl_ends`: between a pop and its count, and between the two reads of another
  worker, a crawl with URLs left can be taken for a finished one. A later start
  finds them.
* `pack_hang`: a commit that fails for good ends the committer, and the workers
  wait for ever for someone to take their results.

## Fairness

`FairSpec` of `Recrawl` is weak fairness of the feeder, of each worker, of each
writer and of `Start`: Go's scheduler runs a goroutine that can move, channel
operations and locks are not starved by others here (each queue has one
consumer, and the lock is held for one call), fetches and robots requests end because they have
deadlines, and the unit is restarted on failure. `Crash`, `Cancel` and the
faults have no fairness: the fault of an action is one of its outcomes, and
`MaxRuns` leaves the last run alone. `FairSpec` of `RecrawlPublish` is weak
fairness of the crawl as a whole and of the publisher as a whole, each of which
is one sequential process under a supervisor. The units' start limits (ten in
ten minutes) are not modelled: they stop a machine that fails all the time.

`FairSpec` of `Crawler` is weak fairness of the main goroutine's steps, of each
worker and of the clock, and none of `Open`: nobody promises to start a crawl again.
`PackFair`, `ShardFair`, `UnitFair` and `UpFair` are weak fairness of each
goroutine's ordinary steps (`PackSure`, `UnitSure`, `UpSure` and so on), of the stall clock's tick, and of no
fault, kill, cancel or start. A download that hangs is a place a worker is not
sure to leave; it is the stall clock that ends such a run, and `UnitEnds` says so. No clock runs
for a recount or a repair. Their requests have deadlines, so a footer or a projection ends or
fails; but a recount all of whose readers have failed leaves its feeder with nobody to take
the next path (`FeederAlone`), and waits until its user cancels it. `UnitEnds` names this wait
as the one exception.

## Proofs

`RecrawlProofs` proves with TLAPS, for every list, host assignment, shard of the
fleet, pool, batch, buffer, number of writers, page limit and set of faults:

* `TypeCorrect`: `Spec => []TypeOK`, with the bounds of both channels
* `Inductive`: `Spec => []Inv`
* `NeverSkips`: `Spec => []OnlyDroppedRowsSkipped`
* `DoneMeansDone`: `Spec => []DoneIsFinal`
* `CheckpointOnlyAdvances`: `Spec => CheckpointNeverRetreats`
* `Refinement`: `Spec => ImplementsLowWaterMark`

from `RecrawlAssumption` and `NoneAssumption`, which say that the constants have
their types and that the model value for no item is not an item.

`OnlyDroppedRowsSkipped` is not inductive: it says nothing of rows that are in
memory. `Inv` adds, in this order, that every owned row behind the reader is in
the buffer, in flight, in an open shard or settled (`ReadRowsAccounted`); that a
row its writer is about to retire is in a shard (`WrittenBeforeRetired`), so it
never drops out of those places; that from the moment a position is noted
until it is saved every row before it is in a shard, and after the sync in
a sealed one (`MarkCovered`); and that the checkpoint and the noted position are
no later than anything unfinished (`PositionsOrdered`), which makes the next
one no earlier. The last needs that an item is in the flight set until something is
retired for the first time (`NothingRetiredYet`), because an empty flight set
answers differently before and after. After a failed seal the accounting is off,
and `Sound` is the condition under which it holds: such a run has an error,
and an error never reaches a further checkpoint (`ErrorEndsRun`).

`HandoffProofs` proves, for every number of rows, runs and shards in a commit,
and whether shards are kept or not, under the condition `DistinctPrefixes`:

* `HandoffHolds`: `Spec => []HandoffInv`
* `PagesAreKept`: `Spec => []NoPageLost`
* `PathsHoldTheirShards`: `Spec => []PathsNameTheirContent`
* `OnlyPublishedShardsLeave`: `Spec => NothingLeavesUnpublished`
* `HandoffRefinement`: `Spec => ImplementsLowWaterMark`
* `LedgerCounts`: `Spec => []LedgerCountsHub`

`publish_overwrite` shows that the condition is needed and that the fleet's
units do not meet it. With it, a name is given to a shard once (`NamesFresh`), so
a shard in a publisher's hands is what it was when it was hashed, or gone
(`ShardsStand`); what a lookup or a commit put on the hub is there when the
local file is removed (`HubHasThem`); and every row the crawl is past is in its
open shard, in a file or on the hub (`RowsKept`), which is `NoPageLost` for the
rows behind the checkpoint.

`LedgerCounts` needs more. The ledger counts shards, and the hub stores them by their
hash, so a shard that were committed under the content of another would be counted
twice: no two files of the directory have the same content (`ContentsApart`), nor two shards of a pass
(`PassApart`), and what is about to be committed is not on the hub yet (`NewToHub`). The row in memory
is the ledger on the hub, except from the moment it is written to the answer of the commit, when it is
ahead by the batch, of which the hub has all or nothing (`RowsAgree`). `LedgerInv` is the conjunction of
these, on top of `HandoffInv`.

Of the engine's pages `RecrawlProofs` proves, from the same assumptions:

* `PagesInductive`: `Spec => []PageInv`
* `CleanStopsKeepPages`: `Spec => []CleanStopKeepsPages`
* `PageLimitHolds`: `Spec => []PageLimitIsExact`
* `NothingSkippedByOnes`: with a checkpoint after every item (`Batch = 1`), `Spec => []NoRowSkipped`

`PageInv` says where a page can be. As long as no error was reported, every page
fetched is in a shard, in a queue to a writer, or in a worker's or writer's hands
(`FetchedIsKept`); once the pool and the writers are waited for, nothing is left in
those places (`PoolIsGone`, `SinkIsQuiet`), so all of it is in a shard that was closed.
The page limit needs that a row is in one place before its fetch (`RowsApart`): only
then is every slot a different page, and the slots given out are the pages fetched and
those being fetched (`SlotsAreCounted`), but for what a cancel cuts off. The condition
`Batch = 1` is the reason why a read that is stopped half way cannot have read anything;
`recrawl_skip` shows what happens with a larger batch.

`ReadingProofs` proves of `HttpAccess`, for every number of processes, callers and retries, every rate, and
kills and cancelled waits anywhere:

* `HttpInductive`: `HttpSpec => []HttpInv`
* `RequestsStayPolite`: `HttpSpec => []RequestsArePolite`

A slot is written to the file between two steps of the process that holds the lock, so
the file is only as old as its last stamp (`LockIsHeld`, `SlotsBehind`). Every slot given
out, whether its request has gone or still waits, is an interval from every other and
before the one in the file; a process paces its own calls in the same way
(`SendsArePaced`). What an answer asks for is taken by the next wait, and the wait after
that does not see it (`AdviceIsTaken`).

It proves of `HostResolver`, for every set of names, dialers and resolvers, any bound on lookups, and answers in
any order:

* `LookupsSound`: `ResolverSpec => LookupsAreSound`

A race that has heard nothing but that the name is gone has heard it from every resolver it no
longer asks, and whoever is in a race has a slot; so a name is written off only when all said so, and
there are never more lookups than slots. What the resolvers know does not change while the
process runs: that is an assumption about the world, and the last resolver to say no would be
wrong without it. The assumption on the constants says that `KnownBy` names resolvers.

And of `Library`, for every set of archives and of downloads, and kills and
cancels anywhere:

* `LibraryInductive`: `LibrarySpec => []LibraryInv`
* `ManifestStaysTrue`: `LibrarySpec => []ManifestIsTrue`

Whoever updates the manifest works on a copy. `LibraryInv` says that it holds the lock
(`LockGuards`), so that its copy lacks no record but those it collects and adds none
for an archive that is not there (`CopiesAreTrue`); and that a record without a
file is among those a collection removes, until it saves (`CollectionClears`).

`PublishingProofs` proves of `HubUpload`, for every set of files and pieces, every number of slots and
retries, and refusals, lost answers and swept objects anywhere:

* `UploadInductive`: `UpSpec => []UpInv`
* `CommitsAreWhole`: `UpSpec => []CommitIsWhole`

An object under way has in the store what its pieces say (`ObjectsAreWhole`), each phase
of the conversation finds stored what the next one will name (`UploadsArrive`), and a file
that is not in the commit was gone when it began (`NobodyIsForgotten`).

It proves of `FleetLedger`, for every finite set of servers and of ledgers:

* `LedgersAlwaysHold`: `FleetInit /\ [][FleetNext]_fleetVars => LedgersHold`

A publisher reads the others' ledgers one by one while they move. `FleetInv` says that a ledger is written
by its own server alone and each of the others is looked at once (`LooksOnce`), so that the
row of a server is what it has on the hub, with the batch counted once, and every other row a publisher
has seen is behind at most (`CountsRight`). The card adds rows up: that rows of different
ledgers, each no more than what is there, come to no more than what is there is a lemma
about sums (`RowsUndercount`).

And of `NewsStream`, for every file, block size and number of attempts:

* `NewsIsWhole`: `NewsInit /\ [][NewsNext]_newsVars => []BreaksDoNotShow`

The rows written are those of the file up to the place where the next stream would start, and the
buffered ones those from there to where this stream has come (`NewsInv`). A break throws the
buffer away and goes back to that place; a flush moves the buffer over, and the place with it.

`FetchingProofs` proves of `PackRun`, for every set of shards, every pool, batch and number of runs, with a
ledger of this range or another, and failures, cancels and kills anywhere:

* `PackInductive`: `PackSpec => []PackInv`
* `NoShardIsPassedOver`: `PackSpec => []NoShardPassedOver`

A run compares numbers at its end: what it was asked for, skipped, packed and failed. To
say that these numbers account for the shards, `PackInv` follows each shard: it is in one
place only, the feed, a worker's hands, the channel, the batch or done (`HandedOnce`,
`BatchInOrder`), and until a cancel the numbers say how many are where (`AllAccountedFor`).
The pool leaves when the feed is empty, or when the run was cancelled (`PoolLeavesLast`);
what counts as packed is in a file or on the hub, and before a cancel none of it was
cut short (`PackedIsThere`).

And of `ShardPack`, for every source, every number of converters and room in the queues, with and without
duplicates, a language and a limit:

* `ShardsAreWhole`: `ShardInit /\ [][ShardNext]_shardVars => []ShardIsWhole`

Converters finish pages in any order, and the digest set and the language filter drop some of them on
the way; so nothing can be said page by page. `ShardInv` counts: for each body, what is in the
two queues, in the converters' hands and in the file is at least what was read and is
wanted (`KeptSoFar`); every page of a refetch is in one of those places or was dropped and
counted (`PagesAddUp`); and where duplicates are dropped a body is in one place only, and only once it was
seen (`OnceOnly`). The queues are closed in order (`ClosedInOrder`), so that at the
end all of it is in the file.

`UnitProofs` proves, for each of the three datasets, every number of parts, workers and
attempts, every batch and disk, and kills, cancels, lost answers and new machines anywhere:

* `UnitInductive`: `UnitSpec => []UnitInv`
* `UnitStaysHonest`: `UnitSpec => []UnitIsHonest`
* `ExitStaysHonest`: `UnitSpec => ExitIsHonest`

A part is handed out, with a worker, in the batch or on the hub, and in one of these only;
a batch may be on the hub and in the committer's hands at once, when its answer was lost
(`PartsApart`). So the ledger file counts the hub and the batch that it was written ahead
for, and the committer's totals the hub without that batch (`LedgersAgree`); the two
agree again when the batch settles, and the history `exact` is lost only where a run ends
between. Nobody compares a release with the hub at its end: its totals are right because
the hub has the release from its beginning and the stream has passed what the hub has
(`StreamInOrder`). The exit code compares numbers; `RunAccounts` says that these
account for the parts, until a cancel lets workers leave with what they hold. A worker that was let
past the disk floor has room for what it brings, and of what a repair has on the disk all but the
batch was there before it (`DiskHolds`); the batch is shorter than `CommitEvery` whenever a shard is added
(`PhasesFit`), which is what bounds a mode that takes no floor. Until a reader fails or the context ends
each footer of a recount is to be read, being read or counted (`FootersCount`), so a sum that is
written for a run that was not cancelled is the total. The assumptions are that the unit has a
part, the pool a worker and both are finite, and that the disk has room for a batch.

`CrawlProofs` proves of the crawler on its frontier, for every finite set of URLs and of workers, every
hosts, links, seeds, ranks and robots rules, every size of the buffers and caches, and processes that end, are cancelled or
are killed anywhere:

* `UrlsAreKept`: `Spec => []UrlsKept`
* `HostsDoRest`: `Spec => HostsRest`

`CrawlInv` is the invariant. A claimed row that some buffer or worker has is in the claim buffer, put back for
later, finished and not yet written, or in one worker's hands, and in one of these only (`QueuesApart`): without that a
second worker could be given a URL that the first still works on. The counter behind `Len` counts the pending rows, the
claim buffer and what is put back (`Counted`), and a process that is down has left nothing in its buffers. A worker
holds a URL exactly at the places between `Pop` and its end (`HandsHold`). `UrlsKept` speaks of the links of a page
that counts as done; before that the page is archived and its links are admitted one by one, so `PagesKnown`
says that each link of an archived page is known or still in the list of the worker at it, and that
what the seen cache has is known, since a link found there is not admitted again. A page that is archived and not lost
is settled or in the hands of the worker that archived it, which is why nobody archives it twice.

`HostsRest` is about steps, and `ClocksInv` is what it needs. The clock of a host is one number wherever it is, in the
cache, among the writes not yet made, or on disk (`ClocksTyped`), so that a host whose clock fell out of the cache is not asked earlier;
and this number and the time since the last hand-out make up the delay, it and the time since the last longer hold the
Crawl-delay. An entry is claimed from the disk before its host's clock is looked at, and is handed out only by that
look, so the age of the claim does not matter. The assumptions are those of the two modules: types, positive
bounds, and that URLs and workers are finite.

What the frontier does to sequences are recursive functions: picking some of a sequence (`Only`), walking
over entries while their hosts come to the front of the cache (`Touched`), and the pause that doubles (`Backoff`). A
property of every place in a sequence follows from a least place where it fails (`RangeInduction`), and that such a
definition has the value its step says is proved once (`RangeRecursion`).

`SumProofs` holds what the proofs about totals have in common. A sum is a fold over a set, which is a recursive
function, and the library's induction theorems take the statement to be proved as a
parameter, which no backend can instantiate. A least counterexample does the same work: a set of naturals has a
least element (`LeastNumber`, from the library's theorem about well-founded
relations), so among the sets for which a statement fails there is a smallest one
(`SmallestSet`), and taking one element off it leads to a contradiction. In this way it is
proved that a sum can be taken apart at any of its elements (`SumTakes`), that renaming does not change it
(`SumImage`), that it is monotone, and what appending to a sequence or taking its head does to a count of its items.

The invariants of the engine and of the handoff are also checked by TLC, in the runs that
name them.

Model-checked only: `NoRowSkipped` for batches of more than one item (where it needs
that no read fails half way) and the type invariant of `RecrawlPublish`; `LookupsShare` and
`KeepsRecent` of `RobotsCache`, which are about every path through a linked list;
`BatchIsWhole`, `ArchiveIsKept`, `ScanIsWhole` and `AnswerIsAsked`, which are within reach of the same
method and not done; `RulesAreFollowed`, where a matcher is compared with a reference on
bounded inputs; and all liveness, which is out of the prover's reach.

## Known behaviour that no run shows

Met while modelling, and outside of what the properties promise.

* *Engine.* An `emit` callback that fails for several workers fills the error channel, which
  is read only at the end; the run then never returns (`recrawl.go:375`), so
  `recrawl_live` leaves that fault out.
* *Handoff.* The publisher may stop with a shard in the directory
  (`publish_recrawl.go:173`; its unit starts it again), and a crawl whose end comes
  after the last commit is never entered in the ledger as done (335).
* *Frontier.* A robots request cut off by a cancel makes its URL done without a
  fetch. A kill between the flush of completions and that of admissions loses the
  links of pages that count as done. The page limit can be passed by the workers that had
  looked at it. A promotion in the seen cache ignores its limit, and `len` counts
  promoted entries twice. `Hold` has no caller.
* *Export.* A cancelled refetch that does not push records a half fetched shard
  (`refetch.go:230`). After a cancel the feeder may send on a closed channel
  (`markdown_run.go:343`). A kill between a commit and its mark commits the shard twice,
  though `markdown.md:162` says otherwise.
* *Batch fetch.* A worker can hold a group that the writer waits for and wait for
  a token that later groups hold (`batchfetch.go:303-330`): no run claims that a batch always
  ends. Structured output is flushed at the end of `fetch --batch` only, while the
  ledger is written for each group: a kill loses output the ledger says is there.
* *WARC.* A file is closed at rotation without being flushed to disk
  (`warcwrite.go:254-262`), so a power cut can take captures `Sync` had vouched for.
* *Units.* Totals are written to the staging directory before the commit that carries
  them: a run that dies in between counts its batch again (`ledger.go:174` says otherwise),
  and the domains' `complete` can be set there for a hub that never learns. Staged files of
  a killed run, or of a repair that failed half way, can hold the disk under its floor for ever, and
  a hold is not a stall: `UnitEnds` speaks of publishing runs that find the directory empty.
  `sumPublishedTotals` blocks its feeder when all workers have failed (`publish_recount.go:249-257`), until
  its user cancels the command. A recount that is cancelled as the last of its footers is handed out
  takes the sum of those it read for the total (a reader leaves without a word, 225; the feeder no longer
  looks, 249; the sum is returned, 263), though the comment at 197 speaks of an "exact row count". The
  commit then fails on the cancelled context, but the row stays in the ledger file for the next run to
  continue from: `RowIsWritten` has this, and `LedgerMatchesHub` leaves such a ledger out. A repair that fills a gap commits shards without the ledger, which
  then counts too few until a recount. A news file of unknown length is taken to end
  where the connection ends.
* *Fleet.* An old ledger of the same server and shard hides behind a newer one, and the card
  undercounts for good.
* *Search.* The help of `--latest-only` promises to "keep only the newest capture per URL"
  (`cli/ops.go:56`). The code answers with the first one it reads, as its comment at `cli/ops.go:288`
  says, and that is what `LatestIsFirst` states: it does **not** say that the newest is kept, and in the
  crawls of `MCReading` it is not. The index of a crawl has the captures of a URL oldest first, so that a
  crawl which holds a URL twice is answered with the older one (URL 11 of `CrawlA`: time 4, then 6);
  between crawls the newest comes first only while `--sort oldest` is not given. `--latest-only` with `--dedup` notes a URL before its content is judged, so
  that none of its captures may come out.
* *HTTP.* A clock that was set back leaves a slot far in the future, for which
  requests wait without bound. A lock or write that fails is tried at every request, though
  the comment at `ratelimit.go:48` says it is not.
* *Library.* A scan takes a `.tmp` of a running download for an artifact. A collection deletes before it
  saves, and saves nothing when cut short.
* *Scan.* An interrupt from outside ends files without an error, and the count of
  the part that was read is printed as if it were whole (`columnar_native.go:542`). A block
  read accepts a 200 for a 206 (`httpreaderat.go:123`).
* *Journal.* The counter and the event are two steps, so that `done` can go backwards in the file.

## Plan

1. `Recrawl`, `LowWaterMark`, `RecrawlPublish` and their proofs: done.
2. The frontier and crawler, robots, the export and refetch, the unit publishers, the upload,
   the fleet's ledgers, search, scan, access, resolver and library: done, model-checked.
3. Proofs: the engine's pages, the handoff's ledger, the access, the resolver, the library, the upload, the fleet, the
   news, the exports, their shards, the units of a dataset and the crawler with its frontier: done. To come, in this
   order: that what the key ledger holds was emitted (`BatchFetch`), that no writer of archives
   writes over another (`WARCFiles`), and that lookups are shared (`RobotsCache`).
4. Smaller parts without a model: the event journal and `diff` of two domain releases.

## Not modelled

Bytes and formats (WARC, WAT, WET, Parquet, HTML and text extraction), the wire formats
of DNS, HTTP and the hub, terminal output, statistics, timing lines, and the
generation of cards and reports: none of it decides what is resumed, published or
answered. `file access`, `record formats` and `command line` are sequential code whose results
the models take as data: the range reader and its block cache, the response cache, S3
signing, the list of crawls. The SQL handed to duckdb is not modelled, since the engine
behind it is external. Of `search`, filters other than those named above,
`--pages`, `--estimate` and the row limit are left out. In the handoff, dry runs, a publisher that makes one
pass, and two publishers on one directory are left out.
