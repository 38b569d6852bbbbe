---------------------------- MODULE RecrawlPublish ----------------------------
(***************************************************************************)
(* Handing shards from the crawl to the hub (ccrawl/capture.go,            *)
(* ccrawl/publish_recrawl.go and the committer of ccrawl/publish_common.go *)
(* on one machine): the crawl seals shards into a directory and moves its  *)
(* checkpoint past them, and a second process commits what it finds there  *)
(* to a dataset repository and deletes it.                                 *)
(*                                                                         *)
(* The crawl is seen through what Recrawl promises: rows come in list      *)
(* order here, and a checkpoint names any row with nothing unsealed before *)
(* it.  A shard's bytes are its rows and the run that fetched them.        *)
(***************************************************************************)
EXTENDS Integers, Sequences, FiniteSets, FiniteSetsExt, SequencesExt

CONSTANTS
  N,            \* the machine's slice of the work list has the rows 0 .. N-1
  Prefix,       \* the file name prefix each run is started with, as a number
  CommitEvery,  \* shards in one commit
  Keep,         \* committed shards stay in the directory
  MaxRuns,      \* bound of the model: how often the crawl is started
  MaxTroubles,  \* bound of the model: kills of the publisher and bad commits
  NoFile

ASSUME RecrawlPublishAssumption ==
  /\ N \in Nat \ {0} /\ MaxRuns \in Nat \ {0} /\ MaxTroubles \in Nat
  /\ Prefix \in [1 .. MaxRuns -> Nat]
  /\ CommitEvery \in Nat \ {0}
  /\ Keep \in BOOLEAN

Rows == 0 .. N - 1
Runs == 1 .. MaxRuns

\* What is in a shard file, and what its repository path is a hash of.
Content == [rows : SUBSET Rows, run : Runs]

ASSUME NoFileAssumption == NoFile \notin Content

\* A prefix and a number that starts at zero in every run.
Names == {Prefix[r] : r \in Runs} \X Rows

\* A shard of a pass: where it is, and what was there when it was inspected.
Shards == [name : Names, hash : Content]

VARIABLES
  ck,      \* the crawl's checkpoint file
  files,   \* the sealed shards in the output directory
  cpc,     \* where the crawl is
  run,     \* the run it is in
  next,    \* the next row it writes
  open,    \* the rows of its open shard
  shardNo, \* the number its next shard gets
  hub,     \* the shards of the repository, by path
  ledger,  \* this server's ledger file there
  ppc,     \* where the publisher is
  stat,    \* the ledger row it holds in memory
  staged,  \* shards of this pass it has not come to, taken by name
  exists,  \* paths the hub said it has
  batch,   \* shards of the next commit
  moved,   \* shards this pass has sent
  troubles \* history: troubles so far

crawl   == <<cpc, run, next, open, shardNo>>
publish == <<ppc, stat, staged, exists, batch, moved, troubles>>
remote  == <<hub, ledger>>
vars    == <<ck, files, crawl, remote, publish>>

NewStat == [files |-> 0, rows |-> 0, row |-> 0, done |-> FALSE]

Init ==
  /\ ck = [row |-> 0, done |-> FALSE]
  /\ files = [n \in Names |-> NoFile]
  /\ cpc = "down" /\ run = 0 /\ next = 0 /\ open = {} /\ shardNo = 0
  /\ hub = {} /\ ledger = NewStat
  /\ ppc = "down" /\ stat = NewStat /\ staged = {} /\ exists = {}
  /\ batch = <<>> /\ moved = 0 /\ troubles = 0
-----------------------------------------------------------------------------
(* The crawl *)

\* Mutant: a run goes on from the row it had got to, not from its checkpoint.
CrawlStartsAhead ==
  /\ cpc = "down" /\ ~ck.done /\ run < MaxRuns
  /\ cpc' = "up" /\ run' = run + 1
  /\ next' = next /\ open' = {} /\ shardNo' = 0
  /\ UNCHANGED <<ck, files, remote, publish>>

\* A run starts at the checkpoint, and counts its shards from zero.
CrawlStart ==
  /\ cpc = "down" /\ ~ck.done /\ run < MaxRuns
  /\ cpc' = "up" /\ run' = run + 1
  /\ next' = ck.row /\ open' = {} /\ shardNo' = 0
  /\ UNCHANGED <<ck, files, remote, publish>>

Capture ==
  /\ cpc = "up" /\ next < N
  /\ open' = open \cup {next} /\ next' = next + 1
  /\ UNCHANGED <<ck, files, cpc, run, shardNo, remote, publish>>

\* Mutant: a run writes every shard under its first name.
SealUnderOneName ==
  /\ cpc = "up" /\ open # {}
  /\ files' = [files EXCEPT ![<<Prefix[run], shardNo>>] =
                 [rows |-> open, run |-> run]]
  /\ open' = {} /\ shardNo' = shardNo
  /\ cpc' = "save"
  /\ UNCHANGED <<ck, run, next, remote, publish>>

\* Sync seals the open shard: footer, fsync, and the rename that publishes it
\* under its name, whatever may have that name already.
Seal ==
  /\ cpc = "up" /\ open # {}
  /\ files' = [files EXCEPT ![<<Prefix[run], shardNo>>] =
                 [rows |-> open, run |-> run]]
  /\ open' = {} /\ shardNo' = shardNo + 1
  /\ cpc' = "save"
  /\ UNCHANGED <<ck, run, next, remote, publish>>

\* Mutant: the checkpoint does not wait for the open shard.
CheckpointSaveUnsealed ==
  /\ cpc \in {"up", "save"}
  /\ \E m \in ck.row .. next : ck' = [row |-> m, done |-> FALSE]
  /\ cpc' = "up"
  /\ UNCHANGED <<files, run, next, open, shardNo, remote, publish>>

\* The checkpoint follows, to the position that was noted before the sync.
CheckpointSave ==
  /\ cpc = "save"
  /\ \E m \in ck.row .. next : ck' = [row |-> m, done |-> FALSE]
  /\ cpc' = "up"
  /\ UNCHANGED <<files, run, next, open, shardNo, remote, publish>>

\* The list is walked out and sealed: the last checkpoint says so.
Finish ==
  /\ cpc \in {"up", "save"} /\ next = N /\ open = {}
  /\ ck' = [row |-> N, done |-> TRUE]
  /\ cpc' = "down"
  /\ UNCHANGED <<files, run, next, open, shardNo, remote, publish>>

\* Killed, or stopped by an error: the open shard is left as a .tmp file.
CrawlDies ==
  /\ cpc # "down" /\ run < MaxRuns
  /\ cpc' = "down" /\ open' = {}
  /\ UNCHANGED <<ck, files, run, next, shardNo, remote, publish>>
-----------------------------------------------------------------------------
(* The publisher *)

Present == {n \in Names : files[n] # NoFile}

Paths == {e.path : e \in hub}

RowCount(shards) ==
  SumFunction([i \in DOMAIN shards |-> Cardinality(shards[i].hash.rows)])

\* Mutant: the counts start from zero with every process.
PublisherStartsAtZero ==
  /\ ppc \in {"down", "stopped"}
  /\ stat' = NewStat
  /\ staged' = {} /\ exists' = {} /\ batch' = <<>> /\ moved' = 0
  /\ ppc' = "pass"
  /\ UNCHANGED <<ck, files, crawl, remote, troubles>>

\* Started, or restarted: the ledger row on the hub says where the counts are.
PublisherStart ==
  /\ ppc \in {"down", "stopped"}
  /\ stat' = ledger
  /\ staged' = {} /\ exists' = {} /\ batch' = <<>> /\ moved' = 0
  /\ ppc' = "pass"
  /\ UNCHANGED <<ck, files, crawl, remote, troubles>>

\* The sealed shards, hashed as they are now.
Inspect ==
  /\ ppc = "pass"
  /\ staged' = {[name |-> n, hash |-> files[n]] : n \in Present}
  /\ moved' = 0
  /\ ppc' = IF Present = {} THEN "watch" ELSE "ask"
  /\ UNCHANGED <<ck, files, crawl, remote, stat, exists, batch, troubles>>

\* Which of these paths the hub has already.
AskHub ==
  /\ ppc = "ask"
  /\ exists' = {s.hash : s \in staged} \cap Paths
  /\ ppc' = "sort"
  /\ UNCHANGED <<ck, files, crawl, remote, stat, staged, batch, moved, troubles>>

\* The shards of a pass are taken in the order of their names.
Turn(s) ==
  /\ s \in staged
  /\ \A t \in staged : \/ s.name[1] < t.name[1]
                       \/ s.name[1] = t.name[1] /\ s.name[2] <= t.name[2]

\* Remove goes by name: whatever has the name now is gone.
Removed(name) == files' = IF Keep THEN files ELSE [files EXCEPT ![name] = NoFile]

\* Committed by an earlier pass that did not get to delete it.
Drop ==
  /\ ppc = "sort"
  /\ \E s \in staged :
       /\ Turn(s) /\ s.hash \in exists
       /\ Removed(s.name)
       /\ staged' = staged \ {s}
  /\ UNCHANGED <<ck, crawl, remote, ppc, stat, exists, batch, moved, troubles>>

\* Mutant: the batch is flushed when it is over its size, not at it.
AddOneTooMany ==
  /\ ppc = "sort"
  /\ \E s \in staged :
       /\ Turn(s) /\ s.hash \notin exists
       /\ batch' = Append(batch, s)
       /\ staged' = staged \ {s}
  /\ moved' = moved + 1
  /\ ppc' = IF Len(batch') > CommitEvery THEN "flush" ELSE "sort"
  /\ UNCHANGED <<ck, files, crawl, remote, stat, exists, troubles>>

Add ==
  /\ ppc = "sort"
  /\ \E s \in staged :
       /\ Turn(s) /\ s.hash \notin exists
       /\ batch' = Append(batch, s)
       /\ staged' = staged \ {s}
  /\ moved' = moved + 1
  /\ ppc' = IF Len(batch') >= CommitEvery THEN "flush" ELSE "sort"
  /\ UNCHANGED <<ck, files, crawl, remote, stat, exists, troubles>>

EndPass ==
  /\ ppc = "sort" /\ staged = {}
  /\ ppc' = IF batch = <<>> THEN "watch" ELSE "flush"
  /\ UNCHANGED <<ck, files, crawl, remote, stat, staged, exists, batch, moved,
                 troubles>>

\* The ledger row for the state this batch will bring the repository to, with
\* the crawl's position as its checkpoint has it now.
Sidecar ==
  /\ ppc = "flush"
  /\ stat' = [files |-> stat.files + Len(batch),
              rows  |-> stat.rows + RowCount(batch),
              row   |-> ck.row, done |-> ck.done]
  /\ ppc' = "commit"
  /\ UNCHANGED <<ck, files, crawl, remote, staged, exists, batch, moved, troubles>>

\* The commit lands, shards and ledger together.  Every shard is read again
\* from its name; one that is not there is skipped.
Landed ==
  LET there == {s \in Range(batch) : files[s.name] # NoFile}
  IN  /\ hub' = {e \in hub : \A s \in there : e.path # s.hash}
                \cup {[path |-> s.hash, body |-> files[s.name]] : s \in there}
      /\ ledger' = stat

Commit ==
  /\ ppc = "commit" /\ Landed
  /\ ppc' = "delete"
  /\ UNCHANGED <<ck, files, crawl, stat, staged, exists, batch, moved, troubles>>

\* The commit lands and its answer is lost: it is tried again.
CommitAnswerLost ==
  /\ ppc = "commit" /\ troubles < MaxTroubles
  /\ Landed
  /\ troubles' = troubles + 1
  /\ UNCHANGED <<ck, files, crawl, ppc, stat, staged, exists, batch, moved>>

\* Mutant: the local files are deleted before they are committed.
DeleteFirst ==
  /\ ppc \in {"commit", "delete"} /\ batch # <<>>
  /\ Removed(Head(batch).name)
  /\ batch' = IF ppc = "commit" THEN batch ELSE Tail(batch)
  /\ UNCHANGED <<ck, crawl, remote, ppc, stat, staged, exists, moved, troubles>>

Delete ==
  /\ ppc = "delete" /\ batch # <<>>
  /\ Removed(Head(batch).name)
  /\ batch' = Tail(batch)
  /\ UNCHANGED <<ck, crawl, remote, ppc, stat, staged, exists, moved, troubles>>

EndFlush ==
  /\ ppc = "delete" /\ batch = <<>>
  /\ ppc' = "sort"
  /\ UNCHANGED <<ck, files, crawl, remote, stat, staged, exists, batch, moved,
                 troubles>>

\* Nothing to send and the crawl says it is finished: the publisher stops.
\* Otherwise it looks again after a while.
Watch ==
  /\ ppc = "watch"
  /\ ppc' = IF moved = 0 /\ ck.done THEN "stopped" ELSE "pass"
  /\ UNCHANGED <<ck, files, crawl, remote, stat, staged, exists, batch, moved,
                 troubles>>

\* Killed, or out of attempts at a commit or a question: the process exits.
PublisherDies ==
  /\ ppc \notin {"down", "stopped"} /\ troubles < MaxTroubles
  /\ ppc' = "down"
  /\ troubles' = troubles + 1
  /\ UNCHANGED <<ck, files, crawl, remote, stat, staged, exists, batch, moved>>
-----------------------------------------------------------------------------
Crawl == CrawlStart \/ Capture \/ Seal \/ CheckpointSave \/ Finish

Publish ==
  \/ PublisherStart \/ Inspect \/ AskHub \/ Drop \/ Add \/ EndPass
  \/ Sidecar \/ Commit \/ Delete \/ EndFlush \/ Watch

Next == Crawl \/ Publish \/ CrawlDies \/ CommitAnswerLost \/ PublisherDies

Spec == Init /\ [][Next]_vars

\* Both processes are restarted by their supervisor and get to run; the
\* publisher's unit is restarted even after a stop of its own.
FairSpec == Spec /\ WF_vars(Crawl) /\ WF_vars(Publish)
-----------------------------------------------------------------------------
(* Correctness *)

Position == [row : 0 .. N, done : BOOLEAN]

Stats == [files : Nat, rows : Nat, row : 0 .. N, done : BOOLEAN]

\* Every variable has its type; a batch never outgrows a commit.
TypeOK ==
  /\ ck \in Position
  /\ files \in [Names -> Content \cup {NoFile}]
  /\ cpc \in {"down", "up", "save"} /\ run \in 0 .. MaxRuns
  /\ next \in 0 .. N /\ open \subseteq Rows /\ shardNo \in 0 .. N
  /\ hub \subseteq [path : Content, body : Content]
  /\ ledger \in Stats /\ stat \in Stats
  /\ ppc \in {"down", "pass", "ask", "sort", "flush", "commit", "delete",
              "watch", "stopped"}
  /\ staged \subseteq Shards /\ exists \subseteq Content
  /\ batch \in Seq(Shards) /\ Len(batch) <= CommitEvery
  /\ moved \in Nat /\ troubles \in 0 .. MaxTroubles

Published == {e.body : e \in hub}

Kept == UNION {c.rows : c \in Published \cup {files[n] : n \in Present}}

\* A row behind the checkpoint is in a shard somewhere, in the directory or on
\* the hub: nobody will ever fetch it again.
NoPageLost == \A r \in Rows : r < ck.row => r \in Kept

\* A shard leaves the directory only when the hub has it.
NothingLeavesUnpublished ==
  [][\A n \in Present : files'[n] # files[n] => files[n] \in Published]_files

\* Each path of the repository holds the shard whose hash it carries, and no
\* commit is there twice.
PathsNameTheirContent == \A e \in hub : e.body = e.path

\* The ledger counts exactly what is on the hub, after kills between a commit
\* and its bookkeeping and after commits whose answer was lost.
LedgerCountsHub ==
  /\ TypeOK
  /\ ledger.files = Cardinality(hub)
  /\ ledger.rows = SumFunction([e \in hub |-> Cardinality(e.body.rows)])

\* For rows in shards, the two processes and the hub together keep the promise
\* the crawl makes for rows in its own.
Walk == INSTANCE LowWaterMark
          WITH End <- N, Owned <- Rows, settled <- Kept,
               mark <- ck.row, done <- ck.done

\* The pair of processes implements the low water mark.
ImplementsLowWaterMark == Walk!Spec

\* In the end all rows are on the hub.
AllPublished == <>[](UNION {c.rows : c \in Published} = Rows)
=============================================================================
