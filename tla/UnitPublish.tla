----------------------------- MODULE UnitPublish -----------------------------
(***************************************************************************)
(* Publishing one unit of a dataset (ccrawl/publish_urls.go,               *)
(* publish_news.go, publish_domains.go over publish_common.go, ledger.go): *)
(* the shards of a crawl or of a month, projected by a pool of workers, or *)
(* cut one after the other from the single stream of a release, are        *)
(* committed in batches together with the unit's row of the ledger.  A run *)
(* takes what is missing from the hub itself; the totals it continues from *)
(* the ledger file in its staging directory.  Recount and repair           *)
(* (publish_recount.go, publish_verify*.go) mend what that gets wrong.     *)
(*                                                                         *)
(* A shard has one row, so that shards and rows can be told apart only     *)
(* where the code counts them apart; bytes go the way of rows.             *)
(***************************************************************************)
EXTENDS Integers, Sequences, FiniteSets, FiniteSetsExt, SequencesExt

CONSTANTS
  Kinds,        \* which datasets: a subset of {"urls", "news", "domains"}
  Parts,        \* 1 .. n, in the order of the source
  Projectors,   \* the worker pool
  CommitEvery,
  Attempts,     \* of one commit
  Capacity,     \* staged shards the disk holds before it is under the floor
  MaxStall,     \* ticks without progress before the watcher cancels
  UnitRuns,     \* bound of the model: processes started
  UnitFaults    \* bound of the model: kind -> failures, kills, cancels

ASSUME UnitAssumption ==
  /\ Kinds \subseteq {"urls", "news", "domains"}
  /\ IsFiniteSet(Parts) /\ Parts = 1 .. Cardinality(Parts) /\ Parts # {}
  /\ IsFiniteSet(Projectors) /\ Projectors # {}
  /\ {CommitEvery, Attempts, MaxStall, UnitRuns} \subseteq Nat \ {0}
  /\ UnitFaults \in [Kinds -> Nat]
  \* Less room than a batch needs, and everyone waits for the disk for good.
  /\ Capacity \in Nat /\ Capacity >= CommitEvery

VARIABLES
  kind,     \* which pipeline
  hub,      \* [parts, bad, ledger, langs]: the repository
  local,    \* [ledger, langs, staged]: the staging directory
  job,      \* the process, see NewJob
  place,    \* where each worker is
  part,     \* the part it holds
  spell     \* history: [runs, faults, exact, exit]

unitVars == <<kind, hub, local, job, place, part, spell>>

Total == Cardinality(Parts)
NoLedger == [shards |-> 0, rows |-> 0, complete |-> FALSE, known |-> FALSE]

\* One process: what it does, the parts it has still to hand out, how many it set
\* out to do, the committer's batch and totals, a reader's failure, the stall clock, and
\* of its history what earlier ones had left on the disk and what it brought to the hub.
NewJob(mode, phase) ==
  [mode |-> mode, phase |-> phase, feed |-> {}, todo |-> 0, skipped |-> 0,
   batch |-> <<>>, committed |-> 0, rows |-> 0, langs |-> 0, flushes |-> 0,
   last |-> FALSE, tries |-> 0, landed |-> FALSE, fresh |-> 0,
   failed |-> FALSE, left |-> 0,
   quiet |-> 0, stalled |-> FALSE, cancelled |-> FALSE]

Idle == NewJob("none", "down")

UnitTypeOK ==
  /\ kind \in Kinds
  /\ hub.parts \subseteq Parts /\ hub.bad \subseteq hub.parts /\ local.staged \subseteq Parts
  /\ \A l \in {hub.ledger, local.ledger} : l.shards \in Nat /\ l.rows \in Nat
  /\ job.mode \in {"none", "publish", "recount", "repair"}
  /\ job.phase \in {"down", "plan", "work", "repair", "footers", "ledger", "langs", "commit",
                   "stuck", "settle", "final", "exit"}
  /\ job.feed \union ToSet(job.batch) \subseteq Parts
  /\ Len(job.batch) <= CommitEvery
  /\ place \in [Projectors -> {"gone", "take", "read", "disk", "project", "hung", "send"}]
  /\ part \in [Projectors -> Parts \union {0}]
  /\ job.quiet \in 0 .. MaxStall

UnitInit ==
  /\ kind \in Kinds
  /\ hub = [parts |-> {}, bad |-> {}, ledger |-> NoLedger, langs |-> 0]
  /\ local = [ledger |-> NoLedger, langs |-> 0, staged |-> {}]
  /\ job = Idle
  /\ place = [w \in Projectors |-> "gone"] /\ part = [w \in Projectors |-> 0]
  /\ spell = [runs |-> 0, faults |-> 0, exact |-> TRUE, exit |-> "none"]

UnitFault == spell.faults < UnitFaults[kind] /\ spell' = [spell EXCEPT !.faults = @ + 1]

Running == job.phase # "down"
To(phase) == job' = [job EXCEPT !.phase = phase]

\* Its ledger file counts a batch that is not known to be on the hub.
AheadOfHub == job.mode = "publish" /\ job.batch # <<>> /\ job.phase \in {"langs", "commit", "stuck"}

\* The process is over.  What it wrote to its ledger for a batch that did not
\* land stays there.
Over(exit, faults) ==
  /\ job' = Idle
  /\ place' = [w \in Projectors |-> "gone"] /\ part' = [w \in Projectors |-> 0]
  /\ spell' = [spell EXCEPT !.exit = exit, !.faults = faults,
                            !.exact = @ /\ (AheadOfHub => job.landed)]

Fails(faults) == Over(IF job.stalled THEN "stall" ELSE "error", faults)

(***************************************************************************)
(* A run: seed the ledger, ask the hub, work, finish.                      *)
(***************************************************************************)

\* A staging directory without a ledger takes the hub's; failing that is a warning.
Start(mode) ==
  /\ ~Running /\ spell.runs < UnitRuns
  /\ (mode = "recount" => kind # "news") /\ (mode = "repair" => kind = "urls")
  /\ job' = [NewJob(mode, "plan") EXCEPT !.left = Cardinality(local.staged)]
  /\ \E seeded \in {TRUE, FALSE} :
       /\ seeded \/ (~local.ledger.known /\ spell.faults < UnitFaults[kind])
       /\ local' = IF local.ledger.known \/ ~seeded THEN local
                   ELSE [local EXCEPT !.ledger = hub.ledger, !.langs = hub.langs]
       /\ spell' = [spell EXCEPT !.runs = @ + 1, !.exit = "none",
                                 !.faults = IF seeded THEN @ ELSE @ + 1,
                                 !.exact = @ /\ (seeded \/ ~hub.ledger.known)]
  /\ UNCHANGED <<kind, hub, place, part>>

\* Mutant: the totals start from zero.
ContinuedAnew(done) ==
  [job EXCEPT !.phase = "work", !.todo = Total - Cardinality(done), !.feed = Parts \ done,
              !.committed = Cardinality(done)]

\* What the hub has is not projected again; the totals go on from the ledger file, and from
\* the larger of its count and the hub's.
Continued(done) ==
  [job EXCEPT !.phase = "work", !.todo = Total - Cardinality(done), !.feed = Parts \ done,
              !.committed = Max({Cardinality(done), local.ledger.shards}), !.rows = local.ledger.rows]

\* The hub is asked, not the ledger.
PathsExist == hub.parts

AllTake == place' = [w \in Projectors |-> "take"]
Plans(mode) == job.phase = "plan" /\ job.mode = mode /\ ~job.cancelled
Planning(k) == Plans("publish") /\ kind = k

publishURLCrawl ==
  /\ Planning("urls") /\ job' = Continued(PathsExist) /\ AllTake
  /\ UNCHANGED <<kind, hub, local, part, spell>>

\* The counts by language go on from their own file.
publishNewsMonth ==
  /\ Planning("news") /\ job' = [Continued(PathsExist) EXCEPT !.langs = local.langs] /\ AllTake
  /\ UNCHANGED <<kind, hub, local, part, spell>>

\* A release whose ledger says complete is left alone if its last shard is there.
LeftAlone == local.ledger.complete /\ local.ledger.shards \in hub.parts

\* The stream begins anew, and finds out on the way what is there.
PublishDomains ==
  /\ Planning("domains")
  /\ IF LeftAlone THEN Over("ok", spell.faults)
     ELSE /\ job' = [Continued({}) EXCEPT !.committed = 0, !.todo = Cardinality(Parts \ hub.parts)]
          /\ UNCHANGED <<place, part, spell>>
  /\ UNCHANGED <<kind, hub, local>>

PlanFails ==
  /\ job.phase = "plan"
  /\ IF job.cancelled THEN Fails(spell.faults)
                      ELSE spell.faults < UnitFaults[kind] /\ Fails(spell.faults + 1)
  /\ UNCHANGED <<kind, hub, local>>

(***************************************************************************)
(* The pool of the crawls and the months.                                  *)
(***************************************************************************)

\* The parts are handed out in the order of the source.
First(p) == p \in job.feed /\ \A q \in job.feed : p <= q

Goes(w, where) == place' = [place EXCEPT ![w] = where]

Take(w) ==
  /\ place[w] = "take" /\ job.mode = "publish"
  /\ IF job.cancelled \/ job.feed = {}
     THEN Goes(w, "gone") /\ UNCHANGED <<job, part>>
     ELSE \E p \in Parts :
            /\ First(p)
            /\ Goes(w, "disk")
            /\ part' = [part EXCEPT ![w] = p]
            /\ job' = [job EXCEPT !.feed = @ \ {p}]
  /\ UNCHANGED <<kind, hub, local, spell>>

\* A deliberate hold is not a stall.
FloorMarks == job' = [job EXCEPT !.quiet = 0]

\* Mutant: nobody looks at the disk.
AlwaysRoom == TRUE
Room == Cardinality(local.staged) < Capacity

waitForDiskFloor(w) ==
  /\ place[w] = "disk"
  /\ IF Room
     THEN Goes(w, "project") /\ UNCHANGED job
     ELSE IF job.cancelled THEN Goes(w, "gone") /\ UNCHANGED job
     ELSE FloorMarks /\ UNCHANGED place
  /\ UNCHANGED <<kind, hub, local, part, spell>>

Project(w) ==
  /\ place[w] = "project" /\ ~job.cancelled
  /\ local' = [local EXCEPT !.staged = @ \union {part[w]}]
  /\ Goes(w, "send")
  /\ UNCHANGED <<kind, hub, job, part, spell>>

\* A bad part, or one the end of the context took: counted, left to a later run.
Skip(w) ==
  /\ place[w] \in {"project", "hung"}
  /\ IF job.cancelled THEN UNCHANGED spell ELSE place[w] = "project" /\ UnitFault
  /\ job' = [job EXCEPT !.skipped = @ + 1]
  /\ Goes(w, "take") /\ part' = [part EXCEPT ![w] = 0]
  /\ UNCHANGED <<kind, hub, local>>

\* A download that never ends.
Hangs(w) ==
  /\ place[w] = "project" /\ UnitFault /\ Goes(w, "hung")
  /\ UNCHANGED <<kind, hub, local, job, part>>

\* Mutant: off by one at the batch size.
AddedLate(p) ==
  LET batch == Append(job.batch, p)
  IN [job EXCEPT !.batch = batch, !.phase = IF Len(batch) > CommitEvery THEN "ledger" ELSE @]

Added(p) ==
  LET batch == Append(job.batch, p)
  IN [job EXCEPT !.batch = batch, !.phase = IF Len(batch) >= CommitEvery THEN "ledger" ELSE @]

Send(w) ==
  /\ place[w] = "send" /\ job.phase = "work"
  /\ job' = Added(part[w])
  /\ Goes(w, "take") /\ part' = [part EXCEPT ![w] = 0]
  /\ UNCHANGED <<kind, hub, local, spell>>

SendDropped(w) ==
  /\ place[w] = "send" /\ job.cancelled
  /\ Goes(w, "gone") /\ part' = [part EXCEPT ![w] = 0]
  /\ UNCHANGED <<kind, hub, local, job, spell>>

\* The channel of shards is closed: the rest of the batch, then the end.
Drained ==
  /\ job.phase = "work" /\ kind # "domains" /\ \A w \in Projectors : place[w] = "gone"
  /\ job' = [job EXCEPT !.last = TRUE, !.phase = IF job.batch = <<>> THEN "final" ELSE "ledger"]
  /\ UNCHANGED <<kind, hub, local, place, part, spell>>

(***************************************************************************)
(* The single stream of a release.                                         *)
(***************************************************************************)

Streaming == job.phase = "work" /\ kind = "domains" /\ ~job.last

StreamShard ==
  /\ Streaming /\ ~job.cancelled
  /\ \E p \in Parts :
       /\ First(p)
       /\ IF p \in hub.parts
          THEN job' = [job EXCEPT !.feed = @ \ {p}, !.committed = @ + 1] /\ UNCHANGED local
          ELSE /\ Room
               /\ job' = [Added(p) EXCEPT !.feed = @ \ {p}]
               /\ local' = [local EXCEPT !.staged = @ \union {p}]
  /\ UNCHANGED <<kind, hub, place, part, spell>>

StreamWaits ==
  /\ Streaming /\ ~job.cancelled
  /\ \E p \in Parts : First(p) /\ p \notin hub.parts
  /\ ~Room
  /\ FloorMarks
  /\ UNCHANGED <<kind, hub, local, place, part, spell>>

StreamFails ==
  /\ Streaming
  /\ IF job.cancelled THEN Fails(spell.faults)
                      ELSE spell.faults < UnitFaults[kind] /\ Fails(spell.faults + 1)
  /\ UNCHANGED <<kind, hub, local>>

StreamEnds ==
  /\ Streaming /\ job.feed = {}
  /\ job' = [job EXCEPT !.last = TRUE, !.phase = IF job.batch = <<>> THEN "final" ELSE "ledger"]
  /\ UNCHANGED <<kind, hub, local, place, part, spell>>

(***************************************************************************)
(* The committer: ledger file, commit with retries, settle.                *)
(***************************************************************************)

ShardsThen == job.committed + Len(job.batch)
refreshURLCard ==
  [shards |-> ShardsThen, known |-> TRUE, rows |-> job.rows + Len(job.batch), complete |-> ShardsThen >= Total]
refreshNewsCard == refreshURLCard

\* Mutant: the batch that holds the last shard is taken for the end.
RefreshedEarly == [refreshURLCard EXCEPT !.complete = job.feed = {}]
\* In the middle of a stream nobody knows how near its end is.
refreshDomainCard == [refreshURLCard EXCEPT !.complete = FALSE]
\* At its end the rows are those of the stream, and the release is whole.
finalizeDomainGraph == [refreshDomainCard EXCEPT !.complete = TRUE, !.rows = Total]

LedgerRow ==
  CASE kind = "urls" -> refreshURLCard
    [] kind = "news" -> refreshNewsCard
    [] kind = "domains" /\ job.phase = "ledger" -> refreshDomainCard
    [] kind = "domains" /\ job.phase = "final" -> finalizeDomainGraph

\* The sidecar, before the commit: the ledger file, then that of the languages.
WriteLedger ==
  /\ \/ job.phase = "ledger"
     \/ job.phase = "final" /\ (job.flushes = 0 \/ kind = "domains")
  /\ local' = [local EXCEPT !.ledger = LedgerRow]
  /\ job' = [job EXCEPT !.phase = IF kind = "news" THEN "langs" ELSE "commit",
                        !.langs = @ + Len(job.batch), !.tries = 0, !.landed = FALSE,
                        !.last = job.phase = "final" \/ @]
  /\ UNCHANGED <<kind, hub, place, part, spell>>

WriteLangs ==
  /\ job.phase = "langs"
  /\ local' = [local EXCEPT !.langs = job.langs] /\ To("commit")
  /\ UNCHANGED <<kind, hub, place, part, spell>>

Landing ==
  [hub EXCEPT !.parts = @ \union ToSet(job.batch), !.bad = @ \ ToSet(job.batch),
              !.ledger = IF job.mode = "repair" THEN @ ELSE local.ledger,
              !.langs = IF kind = "news" THEN local.langs ELSE @]

LandedJob == [job EXCEPT !.landed = TRUE,
                         !.fresh = @ + Cardinality(ToSet(job.batch) \ hub.parts)]

\* A repair that adds a shard leaves the totals where they were: its committer has no
\* card to refresh.
StillExact == spell.exact /\ (job.mode = "repair" => ToSet(job.batch) \subseteq hub.parts)

Commit ==
  /\ job.phase = "commit" /\ ~job.cancelled /\ job.tries < Attempts
  /\ hub' = Landing
  /\ job' = [LandedJob EXCEPT !.phase = "settle"]
  /\ spell' = [spell EXCEPT !.exact = StillExact]
  /\ UNCHANGED <<kind, local, place, part>>

\* The commit landed and its answer did not: it is sent again.
CommitUnanswered ==
  /\ job.phase = "commit" /\ ~job.cancelled /\ job.tries < Attempts
  /\ spell.faults < UnitFaults[kind]
  /\ spell' = [spell EXCEPT !.faults = @ + 1, !.exact = StillExact]
  /\ hub' = Landing
  /\ job' = [LandedJob EXCEPT !.tries = @ + 1]
  /\ UNCHANGED <<kind, local, place, part>>

CommitRefused ==
  /\ job.phase = "commit" /\ job.tries < Attempts /\ UnitFault
  /\ job' = [job EXCEPT !.tries = @ + 1]
  /\ UNCHANGED <<kind, hub, local, place, part>>

\* A commit gives up on a dead socket by itself.
CommitHangs ==
  /\ job.phase = "commit" /\ job.tries < Attempts /\ UnitFault /\ job' = [job EXCEPT !.phase = "stuck"]
  /\ UNCHANGED <<kind, hub, local, place, part>>

CommitTimesOut ==
  /\ job.phase = "stuck" /\ job' = [job EXCEPT !.phase = "commit", !.tries = @ + 1]
  /\ UNCHANGED <<kind, hub, local, place, part, spell>>

CommitFails ==
  /\ \/ job.phase = "commit" /\ (job.tries >= Attempts \/ job.cancelled)
     \/ job.phase = "stuck" /\ job.cancelled
  /\ Fails(spell.faults)
  /\ UNCHANGED <<kind, hub, local>>

Settle ==
  /\ job.phase = "settle"
  /\ local' = [local EXCEPT !.staged = @ \ ToSet(job.batch)]
  /\ job' = [job EXCEPT !.committed = @ + Len(job.batch), !.rows = @ + Len(job.batch),
       !.batch = <<>>, !.flushes = @ + 1, !.quiet = 0,
       !.phase = IF ~job.last THEN (IF job.mode = "repair" THEN "repair" ELSE "work")
                 ELSE IF job.mode = "publish" /\ job.batch # <<>> THEN "final" ELSE "exit"]
  /\ spell' = [spell EXCEPT !.exact = @ \/ job.mode = "recount"]
  /\ UNCHANGED <<kind, hub, place, part>>

\* Every batch brought its card along: nothing to refresh.
NothingToRefresh ==
  /\ job.phase = "final" /\ job.flushes > 0 /\ kind # "domains" /\ To("exit")
  /\ UNCHANGED <<kind, hub, local, place, part, spell>>

\* Mutant: skipped parts are forgotten.
IncompleteNever == FALSE
\* Mutant: a run that achieved nothing asks for another.
IncompleteAlways == job.skipped > 0

incompleteAction == job.skipped > 0 /\ job.todo - job.skipped > 0

Exit ==
  /\ job.phase = "exit"
  /\ Over(IF job.stalled THEN "stall" ELSE IF incompleteAction THEN "incomplete" ELSE "ok",
          spell.faults)
  /\ UNCHANGED <<kind, hub, local>>

(***************************************************************************)
(* Mending, the stall clock, kills.                                        *)
(***************************************************************************)

\* Recount: what the hub has is found again, and its footers are read by a pool.
Recount(k) ==
  /\ Plans("recount") /\ kind = k
  /\ IF PathsExist = {} THEN To("exit") /\ UNCHANGED place
     ELSE job' = [job EXCEPT !.phase = "footers", !.feed = PathsExist] /\ AllTake
  /\ UNCHANGED <<kind, hub, local, part, spell>>

Footers == job.phase = "footers"

\* The feeder waits for a reader or for the end of the context, whichever it sees first.
HandOver(w) ==
  /\ Footers /\ place[w] = "take"
  /\ \E p \in Parts : First(p) /\ job' = [job EXCEPT !.feed = @ \ {p}]
  /\ Goes(w, "read")
  /\ UNCHANGED <<kind, hub, local, part, spell>>

ReadFooter(w) ==
  /\ place[w] = "read" /\ ~job.cancelled
  /\ job' = [job EXCEPT !.rows = @ + 1]
  /\ Goes(w, "take")
  /\ UNCHANGED <<kind, hub, local, part, spell>>

\* The first failure of a reader is its last read.
FooterFails(w) ==
  /\ place[w] = "read"
  /\ IF job.cancelled THEN UNCHANGED spell ELSE UnitFault
  /\ job' = [job EXCEPT !.failed = TRUE]
  /\ Goes(w, "gone")
  /\ UNCHANGED <<kind, hub, local, part>>

\* A reader that finds the context at its end as it is handed a path says nothing of it;
\* one that finds the channel closed is done.
FooterLeft(w) ==
  /\ Footers
  /\ (place[w] = "read" /\ job.cancelled) \/ (place[w] = "take" /\ job.feed = {})
  /\ Goes(w, "gone")
  /\ UNCHANGED <<kind, hub, local, job, part, spell>>

NobodyReads == \A w \in Projectors : place[w] = "gone"

\* The feeder watches the context only as long as it has paths.
FeederStops ==
  /\ Footers /\ job.cancelled /\ job.feed # {} /\ Fails(spell.faults)
  /\ UNCHANGED <<kind, hub, local>>

\* The row of the ledger that the footers make, and the commit that carries it.
Recounted(complete) ==
  [shards |-> Cardinality(hub.parts), rows |-> job.rows, known |-> TRUE, complete |-> complete]

\* The sum is taken for whole, and it is unless the context ended on the way.
RowIsWritten(complete) ==
  /\ local' = [local EXCEPT !.ledger = Recounted(complete)]
  /\ job' = [job EXCEPT !.phase = "commit", !.last = TRUE]
  /\ spell' = [spell EXCEPT !.exact = @ /\ (job.cancelled => job.rows = Cardinality(hub.parts))]
  /\ UNCHANGED <<place, part>>

\* Mutant: the footers that were read have to do.
SummedAnyway(complete) == RowIsWritten(complete)

Summed(complete) ==
  IF job.failed THEN Fails(spell.faults) /\ UNCHANGED local ELSE RowIsWritten(complete)

\* A release keeps its flag.
sumPublishedTotals ==
  /\ Footers /\ job.feed = {} /\ NobodyReads
  /\ Summed(IF kind = "domains" THEN local.ledger.complete ELSE hub.parts = Parts)
  /\ UNCHANGED <<kind, hub>>

recountURLCrawl == Recount("urls")
RecountDomainGraph == Recount("domains")

\* Verify: a shard that is not there, or whose size, footer, schema or rows are wrong.
Missing == Parts \ hub.parts
verifyShard(p) == p \in hub.bad
VerifyShards == Missing \union {p \in hub.parts : verifyShard(p)}

\* A shard that could not be read for another reason is taken for a bad one.
VerifyURLCrawl ==
  /\ Plans("repair")
  /\ \E doubted \in SUBSET hub.parts :
       /\ IF doubted = {} THEN UNCHANGED spell ELSE UnitFault
       /\ job' = IF VerifyShards \union doubted = {} THEN [job EXCEPT !.phase = "exit"]
                 ELSE [job EXCEPT !.phase = "repair", !.feed = VerifyShards \union doubted]
  /\ UNCHANGED <<kind, hub, local, place, part>>

\* Mutant: one flush, at the end.
RepairedAtEnd(p) ==
  [job EXCEPT !.batch = Append(@, p), !.feed = @ \ {p}, !.tries = 0, !.landed = FALSE]

\* A full batch is committed at once, and without the ledger.
Repaired(p) ==
  [Added(p) EXCEPT !.phase = IF @ = "ledger" THEN "commit" ELSE @, !.feed = job.feed \ {p},
                   !.tries = 0, !.landed = FALSE]

\* Repair projects what failed once more, one shard after the other, and nobody looks at
\* the disk.
repairURLShards ==
  /\ job.phase = "repair" /\ ~job.cancelled
  /\ \E p \in Parts :
       /\ First(p)
       /\ job' = Repaired(p)
       /\ local' = [local EXCEPT !.staged = @ \union {p}]
  /\ UNCHANGED <<kind, hub, place, part, spell>>

\* The first part that cannot be had is the end; what waits for a commit stays on the disk.
RepairFails ==
  /\ job.phase = "repair" /\ job.feed # {}
  /\ IF job.cancelled THEN Fails(spell.faults)
                      ELSE spell.faults < UnitFaults[kind] /\ Fails(spell.faults + 1)
  /\ UNCHANGED <<kind, hub, local>>

RepairEnds ==
  /\ job.phase = "repair" /\ job.feed = {}
  /\ job' = [job EXCEPT !.last = TRUE, !.phase = IF job.batch = <<>> THEN "exit" ELSE "commit"]
  /\ UNCHANGED <<kind, hub, local, place, part, spell>>

\* An upload cut short that the hub took for whole.
Damage ==
  /\ ~Running /\ UnitFault
  /\ \E p \in hub.parts \ hub.bad : hub' = [hub EXCEPT !.bad = @ \union {p}]
  /\ UNCHANGED <<kind, local, job, place, part>>

\* Mutant: the watcher fires and cancels nothing.
UnitTickOnly ==
  /\ Running /\ job.mode = "publish" /\ job.phase # "plan" /\ ~job.stalled
  /\ job' = IF job.quiet >= MaxStall THEN [job EXCEPT !.stalled = TRUE]
            ELSE [job EXCEPT !.quiet = @ + 1]
  /\ UNCHANGED <<kind, hub, local, place, part, spell>>

UnitTick ==
  /\ Running /\ job.mode = "publish" /\ job.phase # "plan" /\ ~job.stalled
  /\ job' = IF job.quiet >= MaxStall
            THEN [job EXCEPT !.stalled = TRUE, !.cancelled = TRUE]
            ELSE [job EXCEPT !.quiet = @ + 1]
  /\ UNCHANGED <<kind, hub, local, place, part, spell>>

CancelUnit ==
  /\ Running /\ ~job.cancelled /\ UnitFault
  /\ job' = [job EXCEPT !.cancelled = TRUE]
  /\ UNCHANGED <<kind, hub, local, place, part>>

KillUnit ==
  /\ Running /\ spell.faults < UnitFaults[kind] /\ Over("killed", spell.faults + 1)
  /\ UNCHANGED <<kind, hub, local>>

\* Another machine takes over, with an empty staging directory.
NewMachine ==
  /\ ~Running /\ UnitFault
  /\ local' = [ledger |-> NoLedger, langs |-> 0, staged |-> {}]
  /\ UNCHANGED <<kind, hub, job, place, part>>

UnitWorker(w) ==
  \/ Take(w) \/ waitForDiskFloor(w) \/ Project(w) \/ Skip(w) \/ Hangs(w)
  \/ Send(w) \/ SendDropped(w)
  \/ HandOver(w) \/ ReadFooter(w) \/ FooterFails(w) \/ FooterLeft(w)

\* What a worker does when nothing goes wrong.
UnitSure(w) ==
  \/ Take(w) \/ waitForDiskFloor(w) \/ Project(w) \/ (job.cancelled /\ Skip(w))
  \/ Send(w) \/ SendDropped(w) \/ HandOver(w) \/ ReadFooter(w) \/ FooterLeft(w)

UnitMain ==
  \/ publishURLCrawl \/ publishNewsMonth \/ PublishDomains \/ PlanFails \/ Drained \/ StreamShard \/ StreamWaits \/ StreamFails \/ StreamEnds
  \/ WriteLedger \/ WriteLangs \/ Commit \/ CommitUnanswered \/ CommitRefused \/ CommitHangs
  \/ CommitTimesOut \/ CommitFails
  \/ Settle \/ NothingToRefresh \/ Exit \/ recountURLCrawl \/ RecountDomainGraph
  \/ FeederStops \/ sumPublishedTotals \/ VerifyURLCrawl \/ repairURLShards \/ RepairFails \/ RepairEnds

UnitNext ==
  \/ \E mode \in {"publish", "recount", "repair"} : Start(mode)
  \/ UnitMain \/ (\E w \in Projectors : UnitWorker(w))
  \/ UnitTick \/ CancelUnit \/ KillUnit \/ NewMachine \/ Damage

UnitSpec == UnitInit /\ [][UnitNext]_unitVars

UnitFair ==
  /\ WF_unitVars(UnitMain) /\ WF_unitVars(UnitTick)
  /\ \A w \in Projectors : WF_unitVars(UnitSure(w))

(***************************************************************************)
(* Properties.                                                             *)
(***************************************************************************)

\* "a reader always sees a coherent snapshot" (publish_common.go:162): unless a run
\* died between writing its ledger and the commit that carries it, or could not seed
\* it, or a repair filled a gap, or a recount was cancelled in the middle, the hub's
\* totals are those of its shards.
LedgerMatchesHub ==
  spell.exact =>
    /\ hub.ledger.shards = Cardinality(hub.parts) /\ hub.ledger.rows = hub.ledger.shards
    /\ kind = "news" => hub.langs = hub.ledger.rows

\* A release says complete, in the staging directory or on the hub, only when all its
\* shards are there: a later run leaves it alone on the word of that flag.
CompleteMeansWhole ==
  kind = "domains" /\ (local.ledger.complete \/ hub.ledger.complete) => hub.parts = Parts

\* A run that succeeds by itself leaves the unit whole, or committed nothing and gave
\* the rest up (publish_urls.go:125-143).
SuccessMeansWhole ==
  Running /\ job.mode = "publish" /\ job'.phase = "down" /\ spell'.exit = "ok"
    => hub.parts = Parts \/ (job.fresh = 0 /\ job.skipped > 0) \/ job.cancelled

\* The supervisor is asked for another run only by one that made progress.
RetryMeansProgress ==
  Running /\ job'.phase = "down" /\ spell'.exit = "incomplete" => job.fresh > 0

\* The exit code tells the supervisor the truth, in both directions.
ExitIsHonest == [][SuccessMeansWhole /\ RetryMeansProgress]_unitVars

\* The disk holds what waits for a commit and what is being made, no more.  A publishing
\* run that finds more there adds nothing until it is gone; a repair, which takes no
\* floor, adds a batch to it and no more, however many shards it mends.
DiskStaysFlat ==
  LET held == Cardinality(local.staged)
  IN /\ job.mode = "publish" => held < Capacity + Cardinality(Projectors) \/ held <= job.left
     /\ job.mode = "repair" => held <= job.left + CommitEvery
     /\ job.mode = "recount" => held <= job.left

\* What a unit says of itself is so, and it fits the disk while it becomes so.
UnitIsHonest == UnitTypeOK /\ LedgerMatchesHub /\ CompleteMeansWhole /\ DiskStaysFlat

\* All readers failed and paths are left: the feeder waits for a reader for good, and no
\* stall clock runs for a recount.
FeederAlone == Footers /\ NobodyReads /\ job.feed # {} /\ ~job.cancelled

\* Downloads that hang, a hub that does not answer: a publishing run that finds its staging
\* directory empty ends, by the stall clock if by nothing else; a repair ends, whatever
\* it finds there; a recount ends or comes to the one wait that only its user can end.
UnitEnds ==
  (Running /\ job.phase = "plan" /\ (job.mode = "publish" => local.staged = {}))
    ~> (~Running \/ FeederAlone)

(***************************************************************************)
(* The inductive invariant.                                                *)
(***************************************************************************)

LedgerRows == [shards : Nat, rows : Nat, complete : BOOLEAN, known : BOOLEAN]
Jobs ==
  [mode : {"none", "publish", "recount", "repair"},
   phase : {"down", "plan", "work", "repair", "footers", "ledger", "langs", "commit", "stuck",
            "settle", "final", "exit"},
   feed : SUBSET Parts, todo : Int, skipped : Nat, batch : Seq(Parts), committed : Nat, rows : Nat,
   langs : Nat, flushes : Nat, last : BOOLEAN, tries : Nat, landed : BOOLEAN, fresh : Nat,
   failed : BOOLEAN, left : Nat, quiet : 0 .. MaxStall, stalled : BOOLEAN, cancelled : BOOLEAN]

UnitTyped ==
  /\ kind \in Kinds
  /\ hub \in [parts : SUBSET Parts, bad : SUBSET Parts, ledger : LedgerRows, langs : Nat]
  /\ hub.bad \subseteq hub.parts
  /\ local \in [ledger : LedgerRows, langs : Nat, staged : SUBSET Parts]
  /\ job \in Jobs
  /\ place \in [Projectors -> {"gone", "take", "read", "disk", "project", "hung", "send"}]
  /\ part \in [Projectors -> Parts \union {0}]
  /\ spell \in [runs : Nat, faults : Nat, exact : BOOLEAN,
               exit : {"none", "ok", "error", "stall", "incomplete", "killed"}]

Batched == ToSet(job.batch)
Busy == {w \in Projectors : place[w] \in {"disk", "project", "hung", "send"}}
InHand == {part[w] : w \in Busy}
LetThrough == {w \in Projectors : place[w] \in {"project", "hung"}}
Readers == {w \in Projectors : place[w] = "read"}
UnderWay == job.mode = "publish" /\ job.phase # "plan"
\* The batch is on the hub and still in the committer's hands.
Arrived == job.landed /\ job.phase \in {"commit", "stuck", "settle"}
\* The batch is in the ledger file already.
Pending == IF job.mode = "publish" /\ job.phase \in {"langs", "commit", "stuck", "settle"}
           THEN Batched ELSE {}

\* Which modes have which phases, and when nothing is held.
PhasesFit ==
  /\ job.phase = "down" <=> job.mode = "none"
  /\ job.phase \in {"work", "ledger", "langs", "final"} => job.mode = "publish"
  /\ job.phase = "langs" => kind = "news" /\ ~job.landed
  /\ job.mode = "recount" => kind # "news" /\ job.batch = <<>>
  /\ job.mode = "repair" => kind = "urls"
  /\ job.phase \in {"down", "plan", "final", "exit"} => job.batch = <<>>
  /\ job.phase = "plan" => ~job.last /\ job.fresh = 0 /\ job.flushes = 0 /\ job.rows = 0
  /\ job.phase = "repair" => job.mode = "repair" /\ ~job.last
  /\ Footers => job.mode = "recount" /\ ~job.last /\ Busy = {}
  /\ ~Footers => Readers = {}
  /\ job.phase = "ledger" => job.batch # <<>>
  /\ job.phase \in {"langs", "commit", "stuck", "settle"} =>
       job.last \/ (job.mode \in {"publish", "repair"} /\ job.batch # <<>>)
  /\ job.phase \in {"work", "repair"} => Len(job.batch) < CommitEvery
  /\ Len(job.batch) <= CommitEvery
  /\ job.phase = "settle" => job.landed
  /\ job.mode = "publish" /\ job.phase \in {"final", "exit"} => job.last
  /\ (~UnderWay /\ ~Footers) \/ (UnderWay /\ kind = "domains") \/ job.last => \A w \in Projectors : place[w] = "gone"
  /\ \A w \in Busy : part[w] \in Parts
  /\ ~UnderWay \/ kind = "domains" => job.skipped = 0

\* A part is in one place: to be handed out, with a worker, in the batch or on the hub.
PartsApart ==
  UnderWay =>
    /\ Cardinality(Batched) = Len(job.batch) /\ Batched \intersect job.feed = {}
    /\ IF Arrived THEN Batched \subseteq hub.parts ELSE Batched \intersect hub.parts = {}
    /\ kind # "domains" =>
         /\ job.feed \intersect (hub.parts \union InHand) = {}
         /\ InHand \intersect (hub.parts \union Batched) = {}
         /\ \A v, w \in Busy : v # w => part[v] # part[w]

\* The hub has the beginning of a release, and the stream has passed what it has.
StreamInOrder ==
  kind = "domains" =>
    /\ \A p \in hub.parts, q \in Parts : q < p => q \in hub.parts
    /\ UnderWay =>
         /\ \A p \in job.feed, q \in Parts : p < q => q \in job.feed
         /\ Parts \ job.feed \subseteq hub.parts \union Batched
         /\ job.batch # <<>> => hub.parts \intersect job.feed = {}
         /\ job.last => job.feed = {}
         /\ job.committed = Cardinality((Parts \ job.feed) \ Batched)

\* What the ledgers and the committer have counted, as long as it can be exact.
Counts(ledger, n) == ledger.shards = n /\ ledger.rows = n
HubCounts == Counts(hub.ledger, Cardinality(hub.parts)) /\ (kind = "news" => hub.langs = hub.ledger.rows)
AtRestCounts ==
  /\ kind = "news" => local.langs = local.ledger.rows
  /\ local.ledger.known => Counts(local.ledger, Cardinality(hub.parts))
FileCounts ==
  /\ Counts(local.ledger, Cardinality(hub.parts \union Pending))
  /\ kind = "news" => local.langs = IF job.phase = "langs" THEN Cardinality(hub.parts \ Batched)
                                                        ELSE local.ledger.rows
CommitterCounts ==
  /\ job.rows = Cardinality(hub.parts \ Batched)
  /\ kind # "domains" => job.committed = job.rows
  /\ kind = "news" => job.langs = local.ledger.rows

LedgersAgree ==
  /\ \A ledger \in {hub.ledger, local.ledger} : ledger.known \/ ledger = NoLedger
  /\ spell.exact =>
       /\ HubCounts /\ (IF Running THEN FileCounts ELSE AtRestCounts)
       /\ UnderWay => CommitterCounts
  /\ job.mode = "recount" /\ job.phase \in {"commit", "stuck", "settle"} =>
       Counts(local.ledger, Cardinality(hub.parts)) \/ (job.cancelled /\ job.phase # "settle")
  /\ job.mode = "recount" /\ job.phase = "settle" => hub.ledger = local.ledger

\* What a run set out to do, what it has skipped, and what it achieved.
Handled == hub.parts \union Batched \union job.feed \union InHand
RunAccounts ==
  UnderWay /\ kind # "domains" =>
    /\ job.fresh = Cardinality(hub.parts) - (Total - job.todo)
    /\ ~job.cancelled => job.skipped + Cardinality(Handled) = Total
    /\ ~job.cancelled /\ (\E w \in Projectors : place[w] = "gone") => job.feed = {}
    /\ Arrived /\ job.batch # <<>> => job.fresh > 0
    /\ job.flushes > 0 /\ job.phase # "exit" => job.fresh > 0
    /\ job.phase \in {"settle", "exit"} /\ job.last /\ job.fresh = 0 =>
         job.skipped + Cardinality(hub.parts) = Total

\* Each footer is to be read, being read or counted.
FootersCount ==
  Footers /\ ~job.failed /\ ~job.cancelled =>
    job.rows + Cardinality(Readers) + Cardinality(job.feed) = Cardinality(hub.parts)

\* Workers that were let through have room for what they bring, and what a repair has
\* not committed is on the disk with what it found there.
DiskHolds ==
  LET coming == Cardinality(local.staged) + Cardinality(LetThrough)
  IN /\ job.mode = "publish" => coming < Capacity + Cardinality(Projectors) \/ coming <= job.left
     /\ job.mode \in {"repair", "recount"} => Cardinality(local.staged \ Batched) <= job.left

UnitInv ==
  /\ UnitTyped /\ PhasesFit /\ PartsApart /\ StreamInOrder /\ LedgersAgree /\ RunAccounts
  /\ FootersCount /\ DiskHolds /\ CompleteMeansWhole
=============================================================================
