------------------------------- MODULE Recrawl -------------------------------
(***************************************************************************)
(* The recrawl engine of ccrawl (ccrawl/recrawl*.go): one run walks a work *)
(* list in order, a reorder buffer spreads the rows over hosts, a pool of  *)
(* workers fetches them, writer goroutines put the captures into Parquet   *)
(* shards, and a checkpoint names the row a restarted run resumes at.      *)
(*                                                                         *)
(* A position of the work list is one number, the pairs (part, row) of the *)
(* code in their lexicographic order.  The files on disk are `ck' and      *)
(* `sealed'; everything else but the history variables dies with the       *)
(* process.                                                                *)
(***************************************************************************)
EXTENDS Integers, Sequences, FiniteSets, FiniteSetsExt, SequencesExt

CONSTANTS
  N,          \* the work list has the rows 0 .. N-1
  Owned,      \* the rows this machine's shard of the fleet owns
  Host,       \* the host each row is fetched from
  Refills,    \* rows that start a part or a decoded buffer of one
  Workers,    \* the pool
  Batch,      \* rows per read of the work list and per checkpoint
  CapBatches, \* the reorder buffer stops reading at this many batches (16)
  Writers,    \* parts of the sink, each with a goroutine and a file of its own
  ShardRows,  \* rows that make the open shard of a part full
  MaxPages,   \* the page limit, 0 for none
  Faults,     \* what may go wrong: a subset of AllFaults
  MaxRuns,    \* bound of the model: how often the process is started; the
              \* last of these runs is left alone
  None        \* no item

\* A stop from outside and a kill, and failures of the work list, the shard
\* files, the checkpoint file and the callback that prints a page.
AllFaults == {"cancel", "crash", "read", "write", "seal", "save", "emit"}

ASSUME RecrawlAssumption ==
  /\ N \in Nat
  /\ Owned \subseteq 0 .. N - 1
  /\ DOMAIN Host = 0 .. N - 1
  /\ Refills \subseteq 0 .. N
  /\ IsFiniteSet(Workers) /\ Workers # {}
  /\ Batch \in Nat \ {0} /\ CapBatches \in Nat \ {0}
  /\ Writers \in Nat \ {0}
  /\ ShardRows \in Nat \ {0}
  /\ MaxPages \in Nat /\ MaxRuns \in Nat
  /\ Faults \subseteq AllFaults

Rows  == 0 .. N - 1
Parts == 0 .. Writers - 1

\* A row handed out, with the sequence number it was handed out under.
Items == [row : Owned, seq : Nat]

ASSUME NoneAssumption == None \notin Items

VARIABLES
  ck,         \* the checkpoint file
  sealed,     \* rows of shards that got their footer and their final name
  passed,     \* history: rows retired without a capture (robots, bad URL)
  dropped,    \* history: rows a failing read consumed and did not return
  fetched,    \* history: rows fetched in this run
  runs,       \* history: how often the process was started
  pc,         \* where the goroutine that feeds the pool and ends the run is
  hand,       \* the item it is handing to the pool
  mark,       \* the position it is about to write down
  wl,         \* the work list's own position
  held,       \* rows in the reorder buffer
  order, cur, \* its hosts in the order they were seen, and whose turn it is
  walked,     \* the buffer has seen the end of the work list
  live,       \* the flight set: items handed out and not retired
  past,       \* one past the highest row retired in this run, 0 for none
  seq,        \* items handed out in this run
  work,       \* the channel to the pool
  at, job,    \* where each worker is, and with which item
  wq,         \* the writers' queues
  wr, wjob,   \* where each writer is, and with which item
  open,       \* rows in each part's open shard
  full,       \* the page limit has been reached
  cancelled,  \* the run's context is done
  errs,       \* errors waiting in the buffered channel
  feedErr,    \* the feeder returned an error
  pages       \* page slots asked for

durable  == <<ck, sealed>>
history  == <<passed, dropped, fetched, runs>>
reader   == <<wl, held, order, cur, walked>>
flight   == <<live, past, seq>>
pool     == <<work, at, job>>
sink     == <<wq, wr, wjob, open>>
flags    == <<full, cancelled, errs, feedErr, pages>>
feeder   == <<pc, hand, mark>>

vars == <<durable, history, reader, flight, pool, sink, flags, feeder>>
Possible(fault) == fault \in Faults /\ runs < MaxRuns
-----------------------------------------------------------------------------
(* Positions *)

LiveRows == {it.row : it \in live}
OpenRows == UNION {open[p] : p \in Parts}

\* Where the reader is: the oldest row still in the buffer, for those have
\* been read and not handed out, or the work list's own position.
ReaderPosition == IF held = {} THEN wl.row ELSE Min(held)

\* Mutant: oldest by sequence number, as before the reorder buffer went in.
FlightPositionsBySeq ==
  IF live # {}
  THEN {it.row : it \in {i \in live : \A j \in live : i.seq <= j.seq}}
  ELSE {p \in {past} : p > 0}

\* The flight set's answer: its oldest item, or one past the last retired.
FlightPositions ==
  IF live # {} THEN LiveRows ELSE {p \in {past} : p > 0}

\* Mutant: the flight set alone, which has never heard of the buffer's rows.
SafePositionOfFlight ==
  IF FlightPositions # {} THEN Min(FlightPositions) ELSE wl.row

\* The earliest row the run cannot prove is finished.
SafePosition == Min({ReaderPosition} \cup FlightPositions)

\* Reading from row i fills the batch at row ReadEnd(i), or ends the list.
ReadEnd(i) ==
  Min({N} \cup {e \in i .. N : Cardinality(Owned \cap (i .. e - 1)) = Batch})

\* The hosts of a batch that the buffer does not hold, as they come by.
NewHosts(batch) ==
  LET first == {r \in batch : /\ \A h \in held : Host[h] # Host[r]
                              /\ \A q \in batch : Host[q] = Host[r] => r <= q}
      rows  == SetToSortSeq(first, <)
  IN  [i \in DOMAIN rows |-> Host[rows[i]]]
-----------------------------------------------------------------------------
(* The life of the process *)

Init ==
  /\ ck = [row |-> 0, done |-> FALSE]
  /\ sealed = {} /\ passed = {} /\ dropped = {} /\ runs = 0
  /\ pc = "down"
  /\ wl = [row |-> 0, done |-> FALSE]
  /\ held = {} /\ order = <<>> /\ cur = 1 /\ walked = FALSE
  /\ live = {} /\ past = 0 /\ seq = 0
  /\ work = <<>>
  /\ at = [w \in Workers |-> "idle"] /\ job = [w \in Workers |-> None]
  /\ wq = [p \in Parts |-> <<>>]
  /\ wr = [p \in Parts |-> "take"] /\ wjob = [p \in Parts |-> None]
  /\ open = [p \in Parts |-> {}]
  /\ full = FALSE /\ cancelled = FALSE /\ errs = 0 /\ feedErr = FALSE
  /\ pages = 0 /\ fetched = {}
  /\ hand = None /\ mark = [row |-> 0, done |-> FALSE]

\* An empty memory at the checkpoint: what a start finds, and a crash or an
\* exit leaves behind.
Fresh ==
  /\ wl' = [row |-> ck.row, done |-> FALSE]
  /\ held' = {} /\ order' = <<>> /\ cur' = 1 /\ walked' = FALSE
  /\ live' = {} /\ past' = 0 /\ seq' = 0
  /\ work' = <<>>
  /\ at' = [w \in Workers |-> "idle"] /\ job' = [w \in Workers |-> None]
  /\ wq' = [p \in Parts |-> <<>>]
  /\ wr' = [p \in Parts |-> "take"] /\ wjob' = [p \in Parts |-> None]
  /\ open' = [p \in Parts |-> {}]
  /\ full' = FALSE /\ cancelled' = FALSE /\ errs' = 0 /\ feedErr' = FALSE
  /\ pages' = 0 /\ fetched' = {}
  /\ hand' = None /\ mark' = [row |-> ck.row, done |-> FALSE]

\* A process starts at the checkpoint, unless that says the list is finished.
Start ==
  /\ pc = "down" /\ ~ck.done /\ runs < MaxRuns
  /\ runs' = runs + 1
  /\ pc' = "top"
  /\ UNCHANGED <<durable, passed, dropped>>
  /\ Fresh

\* A kill that nobody can catch.
Crash ==
  /\ Possible("crash") /\ pc # "down"
  /\ pc' = "down"
  /\ UNCHANGED <<durable, passed, dropped, runs>>
  /\ Fresh

\* SIGTERM or an interrupt: the context is cancelled, goroutines notice.
Cancel ==
  /\ Possible("cancel") /\ pc # "down" /\ ~cancelled
  /\ cancelled' = TRUE
  /\ UNCHANGED <<durable, history, reader, flight, pool, sink, feeder,
                 full, errs, feedErr, pages>>
-----------------------------------------------------------------------------
(* The feeder *)

\* Once round the loop: a stop is noticed here, before the next item.
FeedTop ==
  /\ pc = "top"
  /\ pc' = IF cancelled \/ full THEN "closed" ELSE "fill"
  /\ UNCHANGED <<durable, history, reader, flight, pool, sink, flags,
                 hand, mark>>

WantsRows ==
  /\ ~walked
  /\ Len(order) < Cardinality(Workers)
  /\ Cardinality(held) < CapBatches * Batch

\* Mutant: an empty read is not taken for the end of the list.
FeedReadEndless ==
  LET end   == ReadEnd(wl.row)
      batch == Owned \cap (wl.row .. end - 1)
  IN  /\ pc = "fill" /\ WantsRows
      /\ wl' = [row  |-> end, done |-> Cardinality(batch) < Batch]
      /\ held' = held \cup batch
      /\ order' = order \o NewHosts(batch)
      /\ UNCHANGED <<durable, history, flight, pool, sink, flags, feeder, cur,
                     walked>>

\* One read of the work list, filed in the buffer under its hosts.
FeedRead ==
  LET end   == ReadEnd(wl.row)
      batch == Owned \cap (wl.row .. end - 1)
  IN  /\ pc = "fill" /\ WantsRows
      /\ wl' = [row  |-> end, done |-> Cardinality(batch) < Batch]
      /\ held' = held \cup batch
      /\ order' = order \o NewHosts(batch)
      /\ walked' = (batch = {})
      /\ UNCHANGED <<durable, history, flight, pool, sink, flags, feeder, cur>>

\* Reading on from here goes to the network and looks at the context: where a
\* part or a decoded buffer starts, at the end, and for a process's first read.
Boundaries == Refills \cup {N} \cup {r \in {wl.row} : held = {} /\ seq = 0}

\* The read fails on its way: what it had picked up so far is not returned,
\* and the work list's position stays where the failure found it.
FeedReadFails ==
  \E e \in Boundaries :
    /\ pc = "fill" /\ WantsRows /\ ~wl.done
    /\ cancelled \/ Possible("read")
    /\ e >= wl.row
    /\ Cardinality(Owned \cap (wl.row .. e - 1)) < Batch
    /\ dropped' = dropped \cup (Owned \cap (wl.row .. e - 1))
    /\ wl' = [wl EXCEPT !.row = e]
    /\ feedErr' = ~cancelled
    /\ pc' = "closed"
    /\ UNCHANGED <<durable, passed, fetched, runs, held, order, cur, walked,
                   flight, pool, sink, full, cancelled, errs, pages, hand, mark>>

\* The next host in the rotation gives its oldest row; a host that has none
\* left leaves the rotation.
FeedHandOut ==
  /\ pc = "fill" /\ ~WantsRows
  /\ LET turn == IF cur > Len(order) THEN 1 ELSE cur
     IN  \E r \in held :
           /\ Host[r] = order[turn]
           /\ \A q \in held : Host[q] = Host[r] => r <= q
           /\ held' = held \ {r}
           /\ IF \E q \in held' : Host[q] = Host[r]
              THEN order' = order /\ cur' = turn + 1
              ELSE order' = RemoveAt(order, turn) /\ cur' = turn
           /\ hand' = [row |-> r, seq |-> seq]
  /\ live' = live \cup {hand'}
  /\ seq' = seq + 1
  /\ pc' = "send"
  /\ UNCHANGED <<durable, history, wl, walked, past, pool, sink, flags, mark>>

\* The list is walked out.
FeedEnd ==
  /\ pc = "fill" /\ ~WantsRows /\ held = {}
  /\ pc' = "closed"
  /\ UNCHANGED <<durable, history, reader, flight, pool, sink, flags,
                 hand, mark>>

\* Mutant: a channel as deep as a batch on top of an item per worker.
FeedSendDeep ==
  /\ pc = "send" /\ Len(work) < Cardinality(Workers) + Batch
  /\ work' = Append(work, hand)
  /\ hand' = None
  /\ pc' = IF seq % Batch = 0 THEN "mark" ELSE "top"
  /\ UNCHANGED <<durable, history, reader, flight, sink, flags, at, job, mark>>

FeedSend ==
  /\ pc = "send" /\ Len(work) < Cardinality(Workers)
  /\ work' = Append(work, hand)
  /\ hand' = None
  /\ pc' = IF seq % Batch = 0 THEN "mark" ELSE "top"
  /\ UNCHANGED <<durable, history, reader, flight, sink, flags, at, job, mark>>

\* The select took the other branch: the item stays in the flight set.
FeedSendStops ==
  /\ pc = "send"
  /\ cancelled \/ full
  /\ hand' = None
  /\ pc' = "closed"
  /\ UNCHANGED <<durable, history, reader, flight, pool, sink, flags, mark>>
-----------------------------------------------------------------------------
(* The checkpoint, between two items and at the end of a run *)

\* The position is read before the sync: read after it, it could cover a row
\* the sync did not.
CheckpointMark ==
  /\ pc = "mark"
  /\ mark' = [row |-> SafePosition, done |-> FALSE]
  /\ pc' = "sync"
  /\ UNCHANGED <<durable, history, reader, flight, pool, sink, flags, hand>>

\* All parts are sealed together, and their rows are in finished shards.
SealAll ==
  /\ sealed' = sealed \cup OpenRows
  /\ open' = [p \in Parts |-> {}]

\* Sealing fails for some parts: their open files never get a final name.
SealSome(failing) ==
  /\ sealed' = sealed \cup UNION {open[p] : p \in Parts \ failing}
  /\ open' = [p \in Parts |-> {}]

SomePartFull == \E p \in Parts : Cardinality(open[p]) >= ShardRows

\* Sync(false) seals when a part is full.  It promises nothing, and the
\* checkpoint stays where it is, while rows sit in an open shard.
CheckpointSync ==
  /\ pc = "sync"
  /\ IF SomePartFull THEN SealAll ELSE UNCHANGED <<sealed, open>>
  /\ pc' = IF SomePartFull \/ OpenRows = {} THEN "save" ELSE "top"
  /\ UNCHANGED <<ck, history, reader, flight, pool, wq, wr, wjob, flags,
                 hand, mark>>

CheckpointSyncFails ==
  /\ Possible("seal")
  /\ pc = "sync" /\ SomePartFull
  /\ \E failing \in SUBSET {p \in Parts : open[p] # {}} :
       failing # {} /\ SealSome(failing)
  /\ feedErr' = TRUE /\ pc' = "closed"
  /\ UNCHANGED <<ck, history, reader, flight, pool, wq, wr, wjob, full,
                 cancelled, errs, pages, hand, mark>>

\* Mutant: the position is read after the sync.
CheckpointSaveLate ==
  /\ pc = "save"
  /\ ck' = [row |-> SafePosition, done |-> FALSE]
  /\ pc' = "top"
  /\ UNCHANGED <<sealed, history, reader, flight, pool, sink, flags, hand, mark>>

CheckpointSave ==
  /\ pc = "save"
  /\ ck' = mark
  /\ pc' = "top"
  /\ UNCHANGED <<sealed, history, reader, flight, pool, sink, flags, hand, mark>>

CheckpointSaveFails ==
  /\ Possible("save")
  /\ pc = "save"
  /\ feedErr' = TRUE /\ pc' = "closed"
  /\ UNCHANGED <<durable, history, reader, flight, pool, sink, full, cancelled,
                 errs, pages, hand, mark>>

\* The channel is closed and every worker has returned.
AwaitPool ==
  /\ pc = "closed" /\ \A w \in Workers : at[w] = "exited"
  /\ pc' = "drain"
  /\ UNCHANGED <<durable, history, reader, flight, pool, sink, flags,
                 hand, mark>>

\* Mutant: the run goes on to its end without draining the queues.
AwaitNobody ==
  /\ pc = "drain"
  /\ pc' = IF errs > 0 \/ feedErr THEN "close" ELSE "finish"
  /\ UNCHANGED <<durable, history, reader, flight, pool, sink, flags,
                 hand, mark>>

\* The queues are closed and every writer has drained its own.
AwaitWriters ==
  /\ pc = "drain"
  /\ \A p \in Parts : wq[p] = <<>> /\ wr[p] = "take"
  /\ pc' = IF errs > 0 \/ feedErr THEN "close" ELSE "finish"
  /\ UNCHANGED <<durable, history, reader, flight, pool, sink, flags,
                 hand, mark>>

\* Mutant: done as soon as the reader reached the end of the list.
FinishAtEndOfList ==
  /\ pc = "finish"
  /\ mark' = [row |-> SafePosition, done |-> wl.done]
  /\ SealAll
  /\ pc' = "fsave"
  /\ UNCHANGED <<ck, history, reader, flight, pool, wq, wr, wjob, flags, hand>>

\* A run that stopped without an error seals its output.  It is done when the
\* list was walked out, nothing is held back and nothing was left in the air.
Finish ==
  /\ pc = "finish"
  /\ mark' = [row  |-> SafePosition,
              done |-> wl.done /\ held = {} /\ live = {}]
  /\ SealAll
  /\ pc' = "fsave"
  /\ UNCHANGED <<ck, history, reader, flight, pool, wq, wr, wjob, flags, hand>>

FinishSyncFails ==
  /\ Possible("seal")
  /\ pc = "finish"
  /\ \E failing \in SUBSET {p \in Parts : open[p] # {}} :
       failing # {} /\ SealSome(failing)
  /\ pc' = "close"
  /\ UNCHANGED <<ck, history, reader, flight, pool, wq, wr, wjob, flags,
                 hand, mark>>

FinishSave ==
  /\ pc = "fsave"
  /\ ck' = mark \/ (Possible("save") /\ ck' = ck)
  /\ pc' = "close"
  /\ UNCHANGED <<sealed, history, reader, flight, pool, sink, flags, hand, mark>>

\* The command closes the sink, which seals what is open, and exits.
Close ==
  /\ pc = "close"
  /\ sealed' \in IF Possible("seal") THEN {sealed, sealed \cup OpenRows}
                                     ELSE {sealed \cup OpenRows}
  /\ pc' = "down"
  /\ UNCHANGED <<ck, passed, dropped, runs>>
  /\ Fresh
-----------------------------------------------------------------------------
(* The pool *)

Goto(w, place) == at' = [at EXCEPT ![w] = place]

Leave(w) ==
  /\ Goto(w, "idle")
  /\ job' = [job EXCEPT ![w] = None]

\* Finished with an item: it leaves the flight set.
Retired(it) ==
  /\ live' = live \ {it}
  /\ past' = Max({past, it.row + 1})
  /\ UNCHANGED seq

\* An item taken after a stop is not attempted, and stays in the flight set.
Receive(w) ==
  /\ at[w] = "idle" /\ work # <<>>
  /\ work' = Tail(work)
  /\ IF full \/ cancelled
     THEN UNCHANGED <<at, job>>
     ELSE Goto(w, "ask") /\ job' = [job EXCEPT ![w] = Head(work)]
  /\ UNCHANGED <<durable, history, reader, flight, sink, flags, feeder>>

Exit(w) ==
  /\ at[w] = "idle" /\ work = <<>> /\ pc = "closed"
  /\ Goto(w, "exited")
  /\ UNCHANGED <<durable, history, reader, flight, sink, flags, feeder,
                 work, job>>

\* A URL that does not parse, or a robots.txt that refuses it.  A refusal
\* under a cancelled context is one the run made up, see Abandon.
Refuse(w) ==
  /\ at[w] = "ask" /\ ~cancelled
  /\ Goto(w, "retire")
  /\ UNCHANGED <<durable, history, reader, flight, sink, flags, feeder,
                 work, job>>

\* Cut off by the stop in robots.txt, at the host's clock or in the fetch.
Abandon(w) ==
  /\ at[w] \in {"ask", "fetch"} /\ cancelled
  /\ Leave(w)
  /\ UNCHANGED <<durable, history, reader, flight, sink, flags, feeder, work>>

\* Mutant: the slots already taken are compared, and not the one just taken.
ClaimOneTooMany(w) ==
  /\ at[w] = "ask"
  /\ pages' = pages + 1
  /\ IF MaxPages = 0 \/ pages <= MaxPages
     THEN Goto(w, "fetch") /\ UNCHANGED <<job, full>>
     ELSE Leave(w) /\ full' = TRUE
  /\ UNCHANGED <<durable, history, reader, flight, sink, feeder, work,
                 cancelled, errs, feedErr>>

\* Allowed and due: the page slot is claimed, or the limit is reached.
Claim(w) ==
  /\ at[w] = "ask"
  /\ pages' = pages + 1
  /\ IF MaxPages = 0 \/ pages' <= MaxPages
     THEN Goto(w, "fetch") /\ UNCHANGED <<job, full>>
     ELSE Leave(w) /\ full' = TRUE
  /\ UNCHANGED <<durable, history, reader, flight, sink, feeder, work,
                 cancelled, errs, feedErr>>

\* The fetch ended in a capture or in a failure; both make a row.
Fetched(w) ==
  /\ at[w] = "fetch"
  /\ fetched' = fetched \cup {job[w].row}
  /\ Goto(w, "queue")
  /\ UNCHANGED <<durable, passed, dropped, runs, reader, flight, sink, flags,
                 feeder, work, job>>

QueueDepth == Max({1, Min({Cardinality(Workers), 256}) \div Writers})

\* Mutant: the worker retires the row it has only queued.
QueueAndRetire(w) ==
  LET p == job[w].seq % Writers
  IN  /\ at[w] = "queue" /\ Len(wq[p]) < QueueDepth
      /\ wq' = [wq EXCEPT ![p] = Append(@, job[w])]
      /\ Retired(job[w])
      /\ Leave(w)
      /\ UNCHANGED <<durable, history, reader, flags, feeder, work,
                     wr, wjob, open>>

\* A plain send to the writer that owns the sequence number.  The writer, not
\* the worker, retires the row.
Queue(w) ==
  LET p == job[w].seq % Writers
  IN  /\ at[w] = "queue" /\ Len(wq[p]) < QueueDepth
      /\ wq' = [wq EXCEPT ![p] = Append(@, job[w])]
      /\ \/ Leave(w)
         \/ Possible("emit") /\ Goto(w, "report") /\ UNCHANGED job
      /\ UNCHANGED <<durable, history, reader, flight, flags, feeder, work,
                     wr, wjob, open>>

\* The callback failed: the worker reports it on the buffered channel, stops
\* the run and returns.
Report(w) ==
  /\ at[w] = "report" /\ errs < Cardinality(Workers)
  /\ errs' = errs + 1 /\ cancelled' = TRUE
  /\ Goto(w, "exited") /\ job' = [job EXCEPT ![w] = None]
  /\ UNCHANGED <<durable, history, reader, flight, sink, feeder, work, full,
                 feedErr, pages>>

\* Mutant: an item passed over is not taken out of the flight set.
RetireNothing(w) ==
  /\ at[w] = "retire"
  /\ passed' = passed \cup {job[w].row}
  /\ Leave(w)
  /\ UNCHANGED <<durable, dropped, fetched, runs, reader, flight, sink, flags,
                 feeder, work>>

\* An item passed over on purpose is finished.
Retire(w) ==
  /\ at[w] = "retire"
  /\ Retired(job[w])
  /\ passed' = passed \cup {job[w].row}
  /\ Leave(w)
  /\ UNCHANGED <<durable, dropped, fetched, runs, reader, sink, flags, feeder,
                 work>>
-----------------------------------------------------------------------------
(* The writers *)

TakeJob(p) ==
  /\ wr[p] = "take" /\ wq[p] # <<>>
  /\ wjob' = [wjob EXCEPT ![p] = Head(wq[p])]
  /\ wq' = [wq EXCEPT ![p] = Tail(@)]
  /\ wr' = [wr EXCEPT ![p] = "write"]
  /\ UNCHANGED <<durable, history, reader, flight, pool, flags, feeder, open>>

\* The row goes into the part's open shard, under the lock Sync takes.
WriteRow(p) ==
  /\ wr[p] = "write"
  /\ open' = [open EXCEPT ![p] = @ \cup {wjob[p].row}]
  /\ wr' = [wr EXCEPT ![p] = "retire"]
  /\ UNCHANGED <<durable, history, reader, flight, pool, flags, feeder, wq, wjob>>

\* Mutant: the writer retires the row whether it was written or not.
WriteFailsAndRetires(p) ==
  /\ Possible("write")
  /\ wr[p] = "write"
  /\ errs' = Min({errs + 1, Cardinality(Workers)})
  /\ cancelled' = TRUE
  /\ Retired(wjob[p])
  /\ wr' = [wr EXCEPT ![p] = "take"]
  /\ wjob' = [wjob EXCEPT ![p] = None]
  /\ UNCHANGED <<durable, history, reader, pool, feeder, wq, open,
                 full, feedErr, pages>>

\* A failed write is reported if the channel has room, stops the run, and the
\* writer goes on with the next job.
WriteFails(p) ==
  /\ Possible("write")
  /\ wr[p] = "write"
  /\ errs' = Min({errs + 1, Cardinality(Workers)})
  /\ cancelled' = TRUE
  /\ wr' = [wr EXCEPT ![p] = "take"]
  /\ wjob' = [wjob EXCEPT ![p] = None]
  /\ UNCHANGED <<durable, history, reader, flight, pool, feeder, wq, open,
                 full, feedErr, pages>>

RetireRow(p) ==
  /\ wr[p] = "retire"
  /\ Retired(wjob[p])
  /\ wr' = [wr EXCEPT ![p] = "take"]
  /\ wjob' = [wjob EXCEPT ![p] = None]
  /\ UNCHANGED <<durable, history, reader, pool, flags, feeder, wq, open>>
-----------------------------------------------------------------------------
Feed ==
  \/ FeedTop \/ FeedRead \/ FeedReadFails \/ FeedHandOut \/ FeedEnd
  \/ FeedSend \/ FeedSendStops
  \/ CheckpointMark \/ CheckpointSync \/ CheckpointSyncFails
  \/ CheckpointSave \/ CheckpointSaveFails
  \/ AwaitPool \/ AwaitWriters
  \/ Finish \/ FinishSyncFails \/ FinishSave \/ Close

Work(w) ==
  \/ Receive(w) \/ Exit(w) \/ Refuse(w) \/ Abandon(w) \/ Claim(w)
  \/ Fetched(w) \/ Queue(w) \/ Report(w) \/ Retire(w)

Write(p) == TakeJob(p) \/ WriteRow(p) \/ WriteFails(p) \/ RetireRow(p)

\* Nothing is left to start: the list is finished, or the model's bound.
Halted ==
  /\ pc = "down" /\ (ck.done \/ runs = MaxRuns)
  /\ UNCHANGED vars

Next ==
  \/ Start \/ Crash \/ Cancel \/ Halted
  \/ Feed
  \/ \E w \in Workers : Work(w)
  \/ \E p \in Parts : Write(p)

Spec == Init /\ [][Next]_vars

\* The scheduler runs every goroutine that can move, fetches end because they
\* have deadlines, and the supervisor restarts a process that went down.
FairSpec ==
  /\ Spec
  /\ WF_vars(Feed) /\ WF_vars(Start)
  /\ \A w \in Workers : WF_vars(Work(w))
  /\ \A p \in Parts : WF_vars(Write(p))
-----------------------------------------------------------------------------
(* Correctness *)

MainPlaces == {"down", "top", "fill", "send", "mark", "sync", "save",
               "closed", "drain", "finish", "fsave", "close"}
PoolPlaces == {"idle", "ask", "fetch", "queue", "report", "retire", "exited"}

Position == [row : 0 .. N, done : BOOLEAN]

\* Every variable has its type, and the two channels keep within their buffers.
TypeOK ==
  /\ ck \in Position /\ mark \in Position /\ wl \in Position
  /\ sealed \subseteq Owned /\ passed \subseteq Owned
  /\ dropped \subseteq Owned /\ fetched \subseteq Owned
  /\ held \subseteq Owned
  /\ live \subseteq Items
  /\ past \in 0 .. N /\ seq \in Nat /\ runs \in Nat /\ pages \in Nat
  /\ pc \in MainPlaces /\ hand \in Items \cup {None}
  /\ cur \in Nat \ {0} /\ walked \in BOOLEAN
  /\ work \in Seq(Items) /\ Len(work) <= Cardinality(Workers)
  /\ at \in [Workers -> PoolPlaces] /\ job \in [Workers -> Items \cup {None}]
  /\ wq \in [Parts -> Seq(Items)]
  /\ wr \in [Parts -> {"take", "write", "retire"}]
  /\ wjob \in [Parts -> Items \cup {None}]
  /\ open \in [Parts -> SUBSET Owned]
  /\ full \in BOOLEAN /\ cancelled \in BOOLEAN /\ feedErr \in BOOLEAN
  /\ errs \in 0 .. Cardinality(Workers)

\* A row is settled once it is in a finished shard or was passed over.
Settled == sealed \cup passed

\* The resume promise: a run never resumes past a row that is not settled.
NoRowSkipped == \A r \in Owned : r < ck.row => r \in Settled

\* What the code does keep: rows behind the checkpoint are settled, but for
\* those a failing read consumed.
OnlyDroppedRowsSkipped == \A r \in Owned : r < ck.row => r \in Settled \cup dropped

\* A checkpoint says done, and a supervisor stops restarting the unit, only
\* when nothing is left of the work list.
DoneIsFinal == ck.done => Owned \subseteq Settled \cup dropped

\* A run that stops without an error has every page it fetched in a finished
\* shard before it writes its last checkpoint.
CleanStopKeepsPages == pc = "fsave" => fetched \subseteq sealed

\* The page limit is exact: workers racing for the last slot never fetch more,
\* and a run it stopped has fetched no less.
PageLimitIsExact ==
  MaxPages > 0 =>
    /\ Cardinality(fetched) <= MaxPages
    /\ (pc = "fsave" /\ full /\ ~cancelled) => Cardinality(fetched) = MaxPages

\* The checkpoint never moves back, whatever order the rows finish in.
CheckpointNeverRetreats == [][ck'.row >= ck.row]_ck

\* The machine above implements the abstract walk: a row counts as settled
\* there when it is settled here, or was lost in a failed read.
Walk == INSTANCE LowWaterMark
          WITH End <- N, settled <- Settled \cup dropped,
               mark <- ck.row, done <- ck.done

\* The engine implements the low water mark, checkpoints, restarts and all.
ImplementsLowWaterMark == Walk!Spec

\* A run that was started comes to an end.
RunEnds == pc # "down" ~> pc = "down"

\* Restarted until it says so, the crawl walks its list out.
ListIsFinished == <>[]ck.done
=============================================================================
