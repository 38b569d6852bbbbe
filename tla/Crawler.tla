-------------------------------- MODULE Crawler --------------------------------
(***************************************************************************)
(* The crawl loop (ccrawl/crawlrun.go, ccrawl/hostclock.go) over the       *)
(* frontier: workers pop a URL, ask robots.txt, wait for the host, fetch,  *)
(* archive the page, admit its links and report the URL back.  A run ends  *)
(* by itself, at its page limit, by an error or by a cancelled context,    *)
(* and the process may be killed at any point and started again on the     *)
(* same file with the same seeds.                                          *)
(***************************************************************************)
EXTENDS Frontier

CONSTANTS
  Workers,
  Links,       \* the links of each page that are in the crawl's scope
  Seeds,       \* the seed file
  Robots,      \* what each host's robots.txt says: "open", "slow", "refuse"
  SlowDelay,   \* the Crawl-delay of a slow host
  PageLimits,  \* what MaxPages may be, 0 for no limit
  Retries, RetryDelay,
  MaxRuns,     \* bound of the model: how often the crawl is started
  MaxFaults    \* bound of the model: kills, cancels, failures of hosts and disks

ASSUME CrawlerAssumption ==
  /\ IsFiniteSet(Workers) /\ Links \in [Urls -> SUBSET Urls] /\ Seeds \in Seq(Urls)
  /\ Robots \in [Hosts -> {"open", "slow", "refuse"}]
  /\ {Retries, MaxRuns, MaxFaults, RetryDelay} \subseteq Nat /\ PageLimits \subseteq Nat
  /\ SlowDelay \in Nat /\ SlowDelay > Delay

VARIABLES
  MaxPages,  \* the page limit of the crawl
  phase,     \* "down", "seeding", "running", "closing"
  seeding,   \* seeds still to be admitted
  at,        \* where each worker is
  cur,       \* the URL it holds
  todo,      \* links it has still to admit
  inflight,  \* workers between a pop and its end, as they count themselves
  done,      \* the stop signal
  cancelled, \* the context
  pages,     \* fetches begun, counted when there is a limit
  since,     \* ticks since each host was last asked, as far as they matter
  archive,   \* how many times each URL is in the archive
  refused,   \* history: URLs a robots.txt that was read kept out
  silent,    \* history: URLs given up because their host could not be asked
  dropped,   \* history: URLs given up because the context ended while they asked
  lost,      \* history: URLs a kill or a failed page took out of a worker's hands
  handedAge, \* history: ticks since each host was last handed out
  slotAge,   \* history: ticks since a worker was last given a slow host
  runs, kills, faults, \* history: how many there were
  why        \* history: what ended the run

run == <<MaxPages, phase, seeding, inflight, done, cancelled, pages, why>>
ages == <<since, handedAge, slotAge>>
world == <<ages, archive, refused, silent, dropped, lost>>
workers == <<at, cur, todo>>
counts == <<runs, kills, faults>>
crawlVars == <<run, world, workers, counts>>
vars == <<frontierVars, crawlVars>>

HostDelay(u) == IF Robots[HostOf[u]] = "slow" THEN SlowDelay ELSE Delay

TypeOK ==
  /\ row \in [Urls -> {"absent", "pending", "claimed", "done", "failed"}]
  /\ {nextAt, tries, stage, pending} \subseteq [Urls -> Nat] /\ hostRow \in [Hosts -> Nat]
  /\ seen \in [hot : SUBSET Urls, cold : SUBSET Urls]
  /\ ready \in Seq(Urls) /\ DOMAIN deferred \subseteq Urls /\ DOMAIN finished \subseteq Urls
  /\ Len(lru) <= HotHosts /\ DOMAIN hot = ToSet(lru)
  /\ dirty \in [Hosts -> Nat \union {None}] /\ slot \in [Hosts -> Urls \union {None}]
  /\ queued \in Nat /\ idle \in BOOLEAN
  /\ phase \in {"down", "seeding", "running", "closing"}
  /\ at \in [Workers -> {"top", "pop", "empty", "free", "popped", "robots", "wait", "request",
                         "sent", "links", "gone"}]
  /\ cur \in [Workers -> Urls \union {None}] /\ todo \in [Workers -> SUBSET Urls]
  /\ inflight \in 0 .. Cardinality(Workers)

Init ==
  /\ FrontierInit /\ MaxPages \in PageLimits
  /\ phase = "down" /\ seeding = <<>> /\ inflight = 0 /\ pages = 0 /\ why = "none"
  /\ done = FALSE /\ cancelled = FALSE
  /\ at = [w \in Workers |-> "gone"] /\ cur = [w \in Workers |-> None]
  /\ todo = [w \in Workers |-> {}]
  /\ since = [h \in Hosts |-> SlowDelay] /\ slotAge = since /\ handedAge = since
  /\ archive = NoRows /\ refused = {} /\ silent = {} /\ dropped = {} /\ lost = {}
  /\ runs = 0 /\ kills = 0 /\ faults = 0

Fault == faults < MaxFaults /\ faults' = faults + 1
\* What a cancelled context does by itself, and anything else only as a fault.
FaultOr(free) == IF free THEN UNCHANGED faults ELSE Fault

Goto(w, place) == at' = [at EXCEPT ![w] = place]

(***************************************************************************)
(* A run: open and seed, work, sync and close.                             *)
(***************************************************************************)

Open ==
  /\ phase = "down" /\ runs < MaxRuns
  /\ OpenFrontier
  /\ phase' = "seeding" /\ seeding' = Seeds /\ runs' = runs + 1
  /\ pages' = 0 /\ done' = FALSE /\ cancelled' = FALSE /\ why' = "none"
  /\ since' = [h \in Hosts |-> SlowDelay] /\ slotAge' = since' /\ handedAge' = since'
  /\ UNCHANGED <<MaxPages, workers, inflight, archive, refused, silent, dropped, lost,
                 kills, faults>>

Seed ==
  /\ phase = "seeding" /\ seeding # <<>>
  /\ Add(Head(seeding)) /\ seeding' = Tail(seeding)
  /\ UNCHANGED <<MaxPages, phase, inflight, done, cancelled, pages, why, world, workers,
                 counts>>

Run ==
  /\ phase = "seeding" /\ seeding = <<>>
  /\ Flush
  /\ phase' = "running" /\ at' = [w \in Workers |-> "top"]
  /\ UNCHANGED <<MaxPages, seeding, inflight, done, cancelled, pages, why, world, cur,
                 todo, counts>>

Ended ==
  /\ phase = "running" /\ \A w \in Workers : at[w] = "gone"
  /\ Sync /\ phase' = "closing"
  /\ UNCHANGED <<MaxPages, seeding, inflight, done, cancelled, pages, why, world,
                 workers, counts>>

CloseCrawl ==
  /\ phase = "closing"
  /\ Close /\ phase' = "down"
  /\ inflight' = 0 /\ cur' = [w \in Workers |-> None] /\ todo' = [w \in Workers |-> {}]
  /\ UNCHANGED <<MaxPages, seeding, done, cancelled, pages, why, world, at, counts>>

KillCrawl ==
  /\ phase # "down" /\ Fault
  /\ Kill /\ phase' = "down" /\ why' = "killed" /\ kills' = kills + 1
  /\ seeding' = <<>> /\ inflight' = 0
  /\ at' = [w \in Workers |-> "gone"] /\ cur' = [w \in Workers |-> None]
  /\ todo' = [w \in Workers |-> {}]
  /\ lost' = lost \union DOMAIN finished \union {cur[w] : w \in Workers}
  /\ UNCHANGED <<MaxPages, done, cancelled, pages, ages, archive, refused, silent,
                 dropped, runs>>

Cancel ==
  /\ Fault /\ phase = "running" /\ ~cancelled
  /\ cancelled' = TRUE
  /\ UNCHANGED <<frontierVars, MaxPages, phase, seeding, inflight, done, pages, why,
                 world, workers, runs, kills>>

Older(age) == [h \in Hosts |-> Min({SlowDelay, age[h] + 1})]

Tick ==
  /\ phase = "running"
  /\ FrontierTick
  /\ since' = Older(since) /\ slotAge' = Older(slotAge) /\ handedAge' = Older(handedAge)
  /\ UNCHANGED <<run, workers, archive, refused, silent, dropped, lost, counts>>

(***************************************************************************)
(* The loop of a worker.                                                   *)
(***************************************************************************)

Stop(w, reason) ==
  /\ done' = TRUE /\ why' = IF done THEN why ELSE reason
  /\ Goto(w, "gone")

Top(w) ==
  /\ at[w] = "top"
  /\ CASE cancelled \/ done -> Goto(w, "gone") /\ UNCHANGED <<done, why>>
       [] ~(cancelled \/ done) /\ MaxPages > 0 /\ pages >= MaxPages -> Stop(w, "pages")
       [] OTHER -> Goto(w, "pop") /\ UNCHANGED <<done, why>>
  /\ UNCHANGED <<frontierVars, MaxPages, phase, seeding, inflight, cancelled, pages,
                 world, cur, todo, counts>>

Popped(w) ==
  /\ at[w] = "pop"
  /\ \/ \E u \in Urls :
          /\ Pop(u) /\ cur' = [cur EXCEPT ![w] = u] /\ Goto(w, "popped")
          /\ handedAge' = [handedAge EXCEPT ![HostOf[u]] = 0]
     \/ PopNothing /\ Goto(w, "empty") /\ UNCHANGED <<cur, handedAge>>
  /\ UNCHANGED <<run, since, slotAge, archive, refused, silent, dropped, lost, todo,
                 counts>>

PopFails(w) ==
  /\ Fault /\ at[w] = "pop" /\ Stop(w, "error")
  /\ UNCHANGED <<frontierVars, MaxPages, phase, seeding, inflight, cancelled, pages,
                 world, cur, todo, runs, kills>>

\* The two halves of "the frontier is empty and nobody holds anything".
AskLen(w) ==
  /\ at[w] = "empty"
  /\ Goto(w, IF FrontierLen = 0 THEN "free" ELSE "top")
  /\ UNCHANGED <<frontierVars, run, world, cur, todo, counts>>

AskInflight(w) ==
  /\ at[w] = "free"
  /\ IF inflight = 0 THEN Stop(w, "empty") ELSE Goto(w, "top") /\ UNCHANGED <<done, why>>
  /\ UNCHANGED <<frontierVars, MaxPages, phase, seeding, inflight, cancelled, pages,
                 world, cur, todo, counts>>

Enter(w) ==
  /\ at[w] = "popped"
  /\ inflight' = inflight + 1 /\ Goto(w, "robots")
  /\ UNCHANGED <<frontierVars, MaxPages, phase, seeding, done, cancelled, pages, why,
                 world, cur, todo, counts>>

\* Mutant: the worker never counts itself out.
LeaveCounted(w) ==
  /\ inflight' = inflight /\ Goto(w, "top")
  /\ cur' = [cur EXCEPT ![w] = None]
  /\ UNCHANGED <<MaxPages, phase, seeding, done, cancelled, pages, why, todo, runs,
                 kills>>

\* process returns: the worker counts itself out and comes round again.
Leave(w) ==
  /\ inflight' = inflight - 1 /\ Goto(w, "top")
  /\ cur' = [cur EXCEPT ![w] = None]
  /\ UNCHANGED <<MaxPages, phase, seeding, done, cancelled, pages, why, todo, runs,
                 kills>>

Refused(w) ==
  /\ at[w] = "robots" /\ Robots[HostOf[cur[w]]] = "refuse"
  /\ refused' = refused \union {cur[w]}
  /\ finish(cur[w], "done") /\ Leave(w)
  /\ UNCHANGED <<ages, archive, silent, dropped, lost, faults>>

\* The host could not be asked, or the context ended while it was: a disallow.
Unreachable(w) ==
  /\ at[w] = "robots" /\ FaultOr(cancelled)
  /\ IF cancelled THEN dropped' = dropped \union {cur[w]} /\ UNCHANGED silent
                  ELSE silent' = silent \union {cur[w]} /\ UNCHANGED dropped
  /\ finish(cur[w], "done") /\ Leave(w)
  /\ UNCHANGED <<ages, archive, refused, lost>>

Allowed(w) ==
  /\ at[w] = "robots" /\ Robots[HostOf[cur[w]]] = "open"
  /\ Goto(w, "wait")
  /\ UNCHANGED <<frontierVars, run, world, cur, todo, counts>>

AllowedSlowly(w) ==
  /\ at[w] = "robots" /\ Robots[HostOf[cur[w]]] = "slow"
  /\ HoldClaim(cur[w], SlowDelay)
  /\ Goto(w, "wait") /\ slotAge' = [slotAge EXCEPT ![HostOf[cur[w]]] = 0]
  /\ UNCHANGED <<run, since, handedAge, archive, refused, silent, dropped, lost, cur,
                 todo, counts>>

Overtaken(w) ==
  /\ at[w] = "robots" /\ Robots[HostOf[cur[w]]] = "slow" /\ ~HoldsClaim(cur[w])
  /\ Defer(cur[w], SlowDelay) /\ Leave(w)
  /\ UNCHANGED <<world, faults>>

\* hostClock.wait: the last gate before the request.
Request(w) ==
  /\ at[w] = "wait" /\ since[HostOf[cur[w]]] >= HostDelay(cur[w])
  /\ since' = [since EXCEPT ![HostOf[cur[w]]] = 0]
  /\ pages' = (IF MaxPages > 0 THEN pages + 1 ELSE 0) /\ Goto(w, "request")
  /\ UNCHANGED <<frontierVars, MaxPages, phase, seeding, inflight, done, cancelled, why,
                 handedAge, slotAge, archive, refused, silent, dropped, lost, cur, todo,
                 counts>>

\* The request is on the wire, and the clock runs from there.
RequestWritten(w) ==
  /\ at[w] = "request" /\ Goto(w, "sent")
  /\ since' = [since EXCEPT ![HostOf[cur[w]]] = 0]
  /\ UNCHANGED <<frontierVars, run, handedAge, slotAge, archive, refused, silent,
                 dropped, lost, cur, todo, counts>>

\* Mutant: a URL the context took away counts as done.
CancelledWaitingDone(w) ==
  /\ at[w] = "wait" /\ cancelled
  /\ finish(cur[w], "done") /\ Leave(w)
  /\ UNCHANGED <<world, faults>>

CancelledWaiting(w) ==
  /\ at[w] = "wait" /\ cancelled
  /\ Retry(cur[w], 0) /\ Leave(w)
  /\ UNCHANGED <<world, faults>>

\* It doubles with every attempt.
Backoff[n \in 0 .. Retries] == IF n = 0 THEN RetryDelay ELSE 2 * Backoff[n - 1]

FetchFails(w) ==
  /\ at[w] \in {"request", "sent"} /\ FaultOr(cancelled)
  /\ LET u == cur[w]
     IN IF cancelled THEN Retry(u, 0)
        ELSE IF tries[u] < Retries THEN Retry(u, Backoff[tries[u]])
        ELSE finish(u, "failed")
  /\ Leave(w)
  /\ UNCHANGED world

Fetched(w) ==
  /\ at[w] = "sent"
  /\ archive' = [archive EXCEPT ![cur[w]] = @ + 1]
  /\ todo' = [todo EXCEPT ![w] = Links[cur[w]]] /\ Goto(w, "links")
  /\ UNCHANGED <<frontierVars, run, ages, refused, silent, dropped, lost, cur, counts>>

\* The archive or the emit callback fails: the URL stays claimed.
PageFails(w) ==
  /\ Fault /\ at[w] \in {"sent", "links"} /\ todo[w] = {}
  /\ inflight' = inflight - 1 /\ cur' = [cur EXCEPT ![w] = None]
  /\ Stop(w, "error") /\ lost' = lost \union {cur[w]}
  /\ UNCHANGED <<frontierVars, MaxPages, phase, seeding, cancelled, pages, ages, archive,
                 refused, silent, dropped, todo, runs, kills>>

expand(w) ==
  /\ at[w] = "links"
  /\ \E u \in todo[w] : Add(u) /\ todo' = [todo EXCEPT ![w] = @ \ {u}]
  /\ UNCHANGED <<run, world, at, cur, counts>>

PageDone(w) ==
  /\ at[w] = "links" /\ todo[w] = {}
  /\ finish(cur[w], "done") /\ Leave(w)
  /\ UNCHANGED <<world, faults>>

Step(w) ==
  \/ Top(w) \/ Popped(w) \/ PopFails(w) \/ AskLen(w) \/ AskInflight(w) \/ Enter(w)
  \/ Refused(w) \/ Unreachable(w) \/ Allowed(w) \/ AllowedSlowly(w) \/ Overtaken(w)
  \/ Request(w) \/ RequestWritten(w) \/ CancelledWaiting(w) \/ FetchFails(w) \/ Fetched(w) \/ PageFails(w)
  \/ expand(w) \/ PageDone(w)

Next ==
  \/ Open \/ Seed \/ Run \/ Ended \/ CloseCrawl \/ KillCrawl \/ Cancel \/ Tick
  \/ \E w \in Workers : Step(w)

Spec == Init /\ [][Next]_vars

FairSpec ==
  /\ Spec
  /\ WF_vars(Seed) /\ WF_vars(Run) /\ WF_vars(Ended) /\ WF_vars(CloseCrawl) /\ WF_vars(Tick)
  /\ \A w \in Workers : WF_vars(Step(w))

(***************************************************************************)
(* Properties.                                                             *)
(***************************************************************************)

Working == phase \in {"seeding", "running", "closing"}
Held == {cur[w] : w \in Workers} \ {None}
Known(u) == row[u] # "absent" \/ stage[u] > 0 \/ pending[u] > 0

\* The counter behind Len, which decides whether a crawl is over, is the pending
\* rows and the claimed ones nobody was handed, through merges, write backs,
\* retries and restarts (frontier.go:467-483, "maintained rather than queried").
QueuedIsExact ==
  Working => queued = Cardinality({u \in Urls : row[u] = "pending"}) + Len(ready)
                      + Cardinality(DOMAIN deferred)

\* A URL is in one pair of hands: two workers never hold the same one, and one
\* that is held is claimed on disk and in no buffer (frontier.go:569-572).
HandedToOne ==
  /\ \A v, w \in Workers : cur[v] # None /\ cur[v] = cur[w] => v = w
  /\ \A u \in Held : row[u] = "claimed"
                    /\ u \notin ToSet(ready) \union DOMAIN deferred \union DOMAIN finished

\* The links of a page that counts as done are in the queue, however often the
\* seen cache forgot them, as long as no kill took the admission buffer.
LinksKept ==
  kills = 0 =>
    \A u \in Urls :
      /\ archive[u] > 0
      /\ row[u] = "done" \/ (u \in DOMAIN finished /\ finished[u] = "done")
      => \A l \in Links[u] : Known(l)

\* What the disk says is done has a reason: the archive holds the page, or the
\* host's robots.txt, or its silence, or a cancelled context, kept it out.
DoneHasReason ==
  \A u \in Urls : row[u] = "done" =>
    archive[u] > 0 \/ u \in refused \union silent \union dropped

\* A page is archived twice only when a kill or a failed page took the URL from a
\* worker or from the completions not yet written, and those are few.
RefetchOnlyLost ==
  /\ \A u \in Urls : archive[u] > 1 => u \in lost
  /\ Cardinality(DOMAIN finished) < SyncEvery

\* No URL is lost between the disk, the buffers and the workers, or is in two of them;
\* none is given up, and none fetched again, but for what happened to it.
UrlsKept ==
  TypeOK /\ QueuedIsExact /\ HandedToOne /\ LinksKept /\ DoneHasReason /\ RefetchOnlyLost

\* A run that ends by itself leaves an empty queue (crawlrun.go:266-269).
EndsEmpty == phase = "closing" /\ why = "empty" => FrontierLen = 0

\* What is settled on disk stays settled: no merge, release, retry or restart
\* takes a finished row back (frontier.go:164-168).
SettledStays ==
  \A u \in Urls : row[u] \in {"done", "failed"} => row'[u] = row[u]

\* Two hand-outs of one host in a run are the delay apart, whatever part of the
\* host clocks is cached, buffered or written.
HandoutsSpaced ==
  \A w \in Workers : at[w] = "pop" /\ at'[w] = "popped"
    => handedAge[HostOf[cur'[w]]] >= Delay

\* A host that asks for a Crawl-delay is given to one worker per Crawl-delay, also
\* when several held its URLs before anyone had read its robots.txt.
SlowHostsRest ==
  \A w \in Workers :
    at[w] = "robots" /\ at'[w] = "wait" /\ Robots[HostOf[cur[w]]] = "slow"
    => slotAge[HostOf[cur[w]]] >= SlowDelay

\* Hosts are left alone for as long as they may expect, and finished URLs for good.
HostsRest == [][HandoutsSpaced /\ SlowHostsRest /\ SettledStays]_vars

\* Every run comes to an end.
RunEnds == phase = "running" ~> phase = "down"
=============================================================================
