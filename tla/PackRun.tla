------------------------------- MODULE PackRun -------------------------------
(***************************************************************************)
(* A markdown export or a refetch (ccrawl/markdown_run.go, refetch_run.go, *)
(* warc_cache.go): shards handed to a pool that packs each of them into a  *)
(* parquet file, one committer that pushes the files in batches, and an    *)
(* append only ledger of what is committed, which the next run skips.      *)
(*                                                                         *)
(* What is inside a shard is the business of ShardPack.  Waiting for disk  *)
(* is left out: space is assumed to come back.                             *)
(***************************************************************************)
EXTENDS Integers, Sequences, FiniteSets, SequencesExt

CONSTANTS
  Shards,        \* 1 .. n: the indices asked for, in order
  Packers,       \* ShardParallel
  PackBatch,     \* CommitBatch
  PackModes,     \* subset of {"export", "refetch"}; a refetch has a cache
  PackPush,      \* subset of BOOLEAN
  PackPast,      \* sets of shards that runs over other ranges may have left in the ledger
  PackRuns,      \* bound of the model
  PackFaults     \* bound of the model

ASSUME PackAssumption ==
  /\ IsFiniteSet(Shards) /\ Shards = 1 .. Cardinality(Shards)
  /\ IsFiniteSet(Packers) /\ Packers # {}
  /\ {PackBatch, PackRuns} \subseteq Nat \ {0} /\ PackFaults \in Nat
  /\ PackModes \subseteq {"export", "refetch"} /\ PackPush \subseteq BOOLEAN
  /\ PackPast \subseteq SUBSET Shards

VARIABLES
  stored,   \* shards on the hub
  kept,     \* [ledger, files, cached, part]: what is on this disk
  export,   \* the process: feeder, channel, committer, see NewExport
  packer,   \* worker -> [at, shard]
  packLog   \* history: [runs, faults, exit, failed, cut]: cut are shards packed after a cancel

packVars == <<stored, kept, export, packer, packLog>>

NewExport(mode, push) ==
  [up |-> TRUE, mode |-> mode, push |-> push, feed |-> [s \in Shards |-> s], feeding |-> TRUE,
   finished |-> <<>>, closed |-> FALSE, cancelled |-> FALSE, at |-> "recv", batch |-> <<>>,
   marked |-> 0, tries |-> 0, committed |-> 0, skipped |-> 0, failed |-> 0, err |-> FALSE]

CommitAttempts == 2

PackTypeOK ==
  /\ stored \subseteq Shards /\ kept.ledger \subseteq Shards /\ kept.files \subseteq Shards
  /\ kept.cached \in [Shards -> {"none", "torn", "whole"}]
  /\ export.at \in {"recv", "push", "mark", "gone"} /\ Len(export.batch) <= PackBatch
  /\ Len(export.finished) <= Cardinality(Packers) + PackBatch
  /\ \A w \in Packers : packer[w].at \in {"take", "open", "read", "keep", "pack", "send", "gone"}

PackInit ==
  /\ packLog = [runs |-> 0, faults |-> 0, exit |-> "none", failed |-> {}, cut |-> {}]
  /\ \E mode \in PackModes, push \in PackPush, past \in PackPast :
       /\ export = [NewExport(mode, push) EXCEPT !.up = FALSE]
       /\ stored = IF push THEN past ELSE {}
       /\ kept = [ledger |-> past, files |-> past \ stored, cached |-> [s \in Shards |-> "none"],
                  part |-> [s \in Shards |-> "none"]]
  /\ packer = [w \in Packers |-> [at |-> "gone", shard |-> 0]]

PackFault == packLog.faults < PackFaults /\ packLog' = [packLog EXCEPT !.faults = @ + 1]

Ends(exit, faults) ==
  /\ export' = [NewExport(export.mode, export.push) EXCEPT !.up = FALSE]
  /\ packer' = [w \in Packers |-> [at |-> "gone", shard |-> 0]]
  /\ packLog' = [packLog EXCEPT !.exit = exit, !.faults = faults]

Launch ==
  /\ ~export.up /\ packLog.runs < PackRuns
  /\ export' = NewExport(export.mode, export.push)
  /\ packer' = [w \in Packers |-> [at |-> "take", shard |-> 0]]
  /\ packLog' = [packLog EXCEPT !.runs = @ + 1, !.exit = "none", !.failed = {}]
  /\ UNCHANGED <<stored, kept>>

(***************************************************************************)
(* The feeder, and the channel of results it shares with the pool.         *)
(***************************************************************************)

SpaceLeft == Len(export.finished) < Cardinality(Packers) + PackBatch
Finished(s, how) == Append(export.finished, [shard |-> s, how |-> how])
Feeding == export.up /\ export.feeding /\ export.feed # <<>>
Has(s) == s \in kept.ledger

\* A shard of the ledger goes straight to the committer, to be counted.
FeedSkips ==
  /\ Feeding /\ Has(Head(export.feed)) /\ ~export.closed /\ SpaceLeft
  /\ export' = [export EXCEPT !.feed = Tail(@), !.finished = Finished(Head(export.feed), "skipped")]
  /\ UNCHANGED <<stored, kept, packer, packLog>>

\* The pool is gone and the channel closed: sending on it is a panic.
FeedPanics ==
  /\ Feeding /\ Has(Head(export.feed)) /\ export.closed /\ Ends("panic", packLog.faults)
  /\ UNCHANGED <<stored, kept>>

Hand(w) ==
  /\ Feeding /\ ~Has(Head(export.feed)) /\ packer[w].at = "take"
  /\ export' = [export EXCEPT !.feed = Tail(@)]
  /\ packer' = [packer EXCEPT ![w] =
       IF export.cancelled THEN [at |-> "gone", shard |-> 0]
       ELSE [at |-> IF export.mode = "refetch" THEN "open" ELSE "pack", shard |-> Head(export.feed)]]
  /\ UNCHANGED <<stored, kept, packLog>>

\* Mutant: the channel of jobs is closed when the feeder is stopped, not when it is done.
NeverFed == export.feed # <<>> /\ export.cancelled
\* The list is through, or the context is over at a shard that nobody takes.
Fed == IF export.feed = <<>> THEN TRUE ELSE export.cancelled /\ ~Has(Head(export.feed))

FeedEnds ==
  /\ export.up /\ export.feeding /\ Fed /\ export' = [export EXCEPT !.feeding = FALSE]
  /\ UNCHANGED <<stored, kept, packer, packLog>>

(***************************************************************************)
(* The pool.                                                               *)
(***************************************************************************)

Walks(w, at) == packer' = [packer EXCEPT ![w].at = at]

NoMoreJobs(w) ==
  /\ packer[w].at = "take" /\ export.up /\ ~export.feeding /\ Walks(w, "gone")
  /\ UNCHANGED <<stored, kept, export, packLog>>

\* A cached copy, or a download that is teed into a file beside it.
openWARCShard(w) ==
  LET s == packer[w].shard
  IN /\ packer[w].at = "open"
     /\ IF kept.cached[s] # "none" THEN Walks(w, "pack") /\ UNCHANGED kept
        ELSE Walks(w, "read") /\ kept' = [kept EXCEPT !.part[s] = "torn"]
     /\ UNCHANGED <<stored, export, packLog>>

ReadWARC(w) ==
  /\ packer[w].at = "read" /\ ~export.cancelled /\ Walks(w, "keep")
  /\ kept' = [kept EXCEPT !.part[packer[w].shard] = "whole"]
  /\ UNCHANGED <<stored, export, packLog>>

\* Mutant: what was read is good enough.
KeptAnyway(s) == [kept EXCEPT !.cached[s] = kept.part[s], !.part[s] = "none"]
Discard(s) == [kept EXCEPT !.part[s] = "none"]

\* The shard fails; so does its file, if it has one.
Failed(w) == packer' = [packer EXCEPT ![w].at = "send", ![w].shard = -packer[w].shard]

ReadFails(w) ==
  /\ packer[w].at = "read" /\ Failed(w)
  /\ kept' = Discard(packer[w].shard)
  /\ IF export.cancelled THEN UNCHANGED packLog ELSE PackFault
  /\ UNCHANGED <<stored, export>>

CommitCache(w) ==
  LET s == packer[w].shard
  IN /\ packer[w].at = "keep" /\ Walks(w, "pack")
     /\ kept' = [kept EXCEPT !.cached[s] = kept.part[s], !.part[s] = "none"]
     /\ UNCHANGED <<stored, export, packLog>>

CommitCacheFails(w) ==
  /\ packer[w].at = "keep" /\ PackFault /\ Walks(w, "pack") /\ kept' = Discard(packer[w].shard)
  /\ UNCHANGED <<stored, export>>

\* A refetch drops the error of FetchBatch: cancelled, it makes a shard of what it has.
Pack(w) ==
  LET s == packer[w].shard
  IN /\ packer[w].at = "pack" /\ (~export.cancelled \/ export.mode = "refetch") /\ Walks(w, "send")
     /\ kept' = [kept EXCEPT !.files = @ \union {s}]
     /\ packLog' = [packLog EXCEPT !.cut = IF export.cancelled THEN @ \union {s} ELSE @ \ {s}]
     /\ UNCHANGED <<stored, export>>

PackFails(w) ==
  /\ packer[w].at = "pack" /\ Failed(w)
  /\ kept' = [kept EXCEPT !.files = @ \ {packer[w].shard}]
  /\ IF export.cancelled THEN UNCHANGED packLog ELSE PackFault
  /\ UNCHANGED <<stored, export>>

Deliver(w) ==
  LET s == packer[w].shard
  IN /\ packer[w].at = "send" /\ SpaceLeft
     /\ export' = [export EXCEPT !.finished = IF s > 0 THEN Finished(s, "ok") ELSE Finished(-s, "failed")]
     /\ packer' = [packer EXCEPT ![w] = [at |-> "take", shard |-> 0]]
     /\ UNCHANGED <<stored, kept, packLog>>

\* Mutant: the channel is closed when the first worker has left.
SomeGone == \E w \in Packers : packer[w].at = "gone"
AllGone == \A w \in Packers : packer[w].at = "gone"

\* wg.Wait, close(finished).
CloseFinished ==
  /\ export.up /\ ~export.closed /\ AllGone
  /\ export' = [export EXCEPT !.closed = TRUE]
  /\ UNCHANGED <<stored, kept, packer, packLog>>

(***************************************************************************)
(* The committer.                                                          *)
(***************************************************************************)

Batched(s) ==
  LET batch == Append(export.batch, s)
  IN [export EXCEPT !.finished = Tail(@), !.batch = batch, !.tries = 0,
                    !.at = IF Len(batch) < PackBatch THEN "recv"
                           ELSE IF export.push THEN "push" ELSE "mark"]

Collect ==
  /\ export.up /\ export.at = "recv" /\ export.finished # <<>>
  /\ LET r == Head(export.finished)
     IN /\ export' = IF r.how = "ok" THEN Batched(r.shard)
                     ELSE IF r.how = "skipped" THEN [export EXCEPT !.finished = Tail(@), !.skipped = @ + 1]
                     ELSE [export EXCEPT !.finished = Tail(@), !.failed = @ + 1]
        /\ packLog' = IF r.how = "failed" THEN [packLog EXCEPT !.failed = @ \union {r.shard}] ELSE packLog
  /\ UNCHANGED <<stored, kept, packer>>

\* Mutant: what is left of the last batch is forgotten.
NothingLeft == TRUE
EmptyBatch == export.batch = <<>>

LastFlush ==
  /\ export.up /\ export.at = "recv" /\ export.finished = <<>> /\ export.closed
  /\ export' = [export EXCEPT !.tries = 0,
                  !.at = IF EmptyBatch THEN "gone" ELSE IF export.push THEN "push" ELSE "mark"]
  /\ UNCHANGED <<stored, kept, packer, packLog>>

\* An error ends the committer; nobody reads the channel any more.
Quits == [export EXCEPT !.at = "gone", !.err = TRUE]

\* Mutant: the commit outlives the context.
PushedAnyway == TRUE
Pushable == ~export.cancelled

PushBatch ==
  /\ export.at = "push" /\ Pushable
  /\ stored' = stored \union ToSet(export.batch)
  /\ export' = [export EXCEPT !.at = "mark"]
  /\ UNCHANGED <<kept, packer, packLog>>

PushFails ==
  /\ export.at = "push" /\ IF export.cancelled THEN UNCHANGED packLog ELSE PackFault
  /\ \E landed \in BOOLEAN : stored' = IF landed THEN stored \union ToSet(export.batch) ELSE stored
  /\ export' = IF export.cancelled \/ export.tries + 1 = CommitAttempts THEN Quits
               ELSE [export EXCEPT !.tries = @ + 1]
  /\ UNCHANGED <<kept, packer>>

\* Mutant: a marked shard's file is removed.
Redundant(s) == {s}
\* "it is redundant once it is on the hub and not before".
Spare(s) == IF export.push THEN {s} ELSE {}

\* A line of the ledger after the other, each flushed to disk.
MarkShard ==
  /\ export.at = "mark" /\ export.marked < Len(export.batch)
  /\ LET s == export.batch[export.marked + 1]
     IN kept' = [kept EXCEPT !.ledger = @ \union {s}, !.files = @ \ Spare(s)]
  /\ export' = [export EXCEPT !.marked = @ + 1]
  /\ UNCHANGED <<stored, packer, packLog>>

MarkFails ==
  /\ export.at = "mark" /\ export.marked < Len(export.batch) /\ PackFault /\ export' = Quits
  /\ UNCHANGED <<stored, kept, packer>>

BatchDone ==
  /\ export.at = "mark" /\ export.marked = Len(export.batch)
  /\ export' = [export EXCEPT !.committed = @ + Len(export.batch), !.batch = <<>>, !.marked = 0,
                              !.at = "recv"]
  /\ UNCHANGED <<stored, kept, packer, packLog>>

(***************************************************************************)
(* The end.                                                                *)
(***************************************************************************)

Accounted == export.committed + export.skipped + export.failed = Cardinality(Shards)

ReportEnd ==
  /\ export.up /\ export.closed /\ export.at = "gone"
  /\ Ends(IF export.err THEN "error" ELSE IF export.cancelled THEN "cancelled"
          ELSE IF Accounted THEN "ok" ELSE "short", packLog.faults)
  /\ UNCHANGED <<stored, kept>>

CancelExport ==
  /\ export.up /\ ~export.cancelled /\ PackFault /\ export' = [export EXCEPT !.cancelled = TRUE]
  /\ UNCHANGED <<stored, kept, packer>>

KillExport ==
  /\ export.up /\ packLog.faults < PackFaults /\ Ends("killed", packLog.faults + 1)
  /\ UNCHANGED <<stored, kept>>

PackWorker(w) ==
  \/ Hand(w) \/ NoMoreJobs(w) \/ openWARCShard(w) \/ ReadWARC(w) \/ ReadFails(w) \/ CommitCache(w)
  \/ CommitCacheFails(w) \/ Pack(w) \/ PackFails(w) \/ Deliver(w)

\* The feeder, a worker and the committer, when nothing goes wrong.
PackSure(w) ==
  \/ Hand(w) \/ NoMoreJobs(w) \/ openWARCShard(w) \/ ReadWARC(w) \/ CommitCache(w) \/ Pack(w) \/ Deliver(w)
  \/ export.cancelled /\ (ReadFails(w) \/ PackFails(w))
FeedSure == FeedSkips \/ FeedPanics \/ FeedEnds
CommitterSure ==
  \/ Collect \/ LastFlush \/ PushBatch \/ (export.cancelled /\ PushFails) \/ MarkShard \/ BatchDone
  \/ CloseFinished \/ ReportEnd

PackNext ==
  \/ Launch \/ FeedSure \/ CommitterSure \/ PushFails \/ MarkFails \/ CancelExport \/ KillExport
  \/ \E w \in Packers : PackWorker(w)

PackSpec == PackInit /\ [][PackNext]_packVars

PackFair ==
  /\ WF_packVars(FeedSure) /\ WF_packVars(CommitterSure)
  /\ \A w \in Packers : WF_packVars(PackSure(w))

(***************************************************************************)
(* Properties.                                                             *)
(***************************************************************************)

\* A shard of the ledger is never packed again, so its rows are on the hub or, without
\* a push, in the file: "there is nowhere else the parquet exists" (markdown_run.go:481).
RecordedIsKept == kept.ledger \subseteq stored \union kept.files

\* "a later run finds a complete file" (warc_cache.go:45): no failed, cancelled or
\* killed download is ever found in the cache.
CacheIsWhole == \A s \in Shards : kept.cached[s] # "torn"

\* A shard that was cut short by a cancel is fetched again: not in the ledger, and what is
\* on the hub is whole, for a run that pushes.  Without a push the ledger takes it.
CutIsRefetched == export.push => kept.ledger \intersect packLog.cut = {}

\* A run that ends by itself accounts for all its shards, and those that did not fail
\* are in the ledger, the last batch included (markdown.md:170).
EndAccounts ==
  /\ packLog.exit # "short"
  /\ packLog.exit = "ok" => Shards \ packLog.failed \subseteq kept.ledger

\* The results are closed (refetch_run.go:254) after the last of those who send them: but
\* for a cancel, which may leave the feeder behind to panic.
ClosedLast ==
  export.closed => /\ \A w \in Packers : packer[w].at = "gone"
                   /\ export.feeding => export.cancelled

\* Over any kills and cancels, no shard is passed over that is not done, and the end of a
\* run accounts for all of them.
NoShardPassedOver ==
  PackTypeOK /\ RecordedIsKept /\ CacheIsWhole /\ CutIsRefetched /\ EndAccounts /\ ClosedLast

\* Unless the committer gave up, the run ends: nobody waits for a channel for good.
PackEnds == export.up ~> (~export.up \/ export.err)

\* "Only a fatal commit failure or a cancelled context aborts, and the final line always
\* reports the split" (docs/content/reference/markdown.md:170).
SplitReported == export.up ~> ~export.up

(***************************************************************************)
(* The inductive invariant behind NoShardPassedOver.                       *)
(***************************************************************************)

Results == [shard : Shards, how : {"ok", "failed", "skipped"}]

Exports ==
  [up : BOOLEAN, mode : PackModes, push : BOOLEAN, feed : Seq(Shards), feeding : BOOLEAN,
   finished : Seq(Results), closed : BOOLEAN, cancelled : BOOLEAN,
   at : {"recv", "push", "mark", "gone"}, batch : Seq(Shards), marked : Nat, tries : Nat,
   committed : Nat, skipped : Nat, failed : Nat, err : BOOLEAN]

Disks ==
  [ledger : SUBSET Shards, files : SUBSET Shards, cached : [Shards -> {"none", "torn", "whole"}],
   part : [Shards -> {"none", "torn", "whole"}]]

PackLogs ==
  [runs : Nat, faults : Nat, failed : SUBSET Shards, cut : SUBSET Shards,
   exit : {"none", "ok", "short", "error", "cancelled", "killed", "panic"}]

PackTyped ==
  /\ stored \subseteq Shards /\ kept \in Disks /\ export \in Exports /\ packLog \in PackLogs
  /\ packer \in [Packers -> [at : {"take", "open", "read", "keep", "pack", "send", "gone"}, shard : Int]]

\* The shard a worker has, packed or failed.
Held(w) == IF packer[w].shard < 0 THEN -packer[w].shard ELSE packer[w].shard
Busy == {w \in Packers : packer[w].shard # 0}
InHand == {Held(w) : w \in Busy}
Delivered == {r.shard : r \in ToSet(export.finished)}
Oks == {r.shard : r \in {r \in ToSet(export.finished) : r.how = "ok"}}
Sending == {packer[w].shard : w \in {w \in Busy : packer[w].at = "send" /\ packer[w].shard > 0}}
Packed == ToSet(export.batch) \union Oks \union Sending

\* A process that is down holds nothing.
AtRest ==
  /\ export.up => packLog.exit = "none"
  /\ ~export.up =>
       /\ export.at = "recv" /\ ~export.closed
       /\ \A w \in Packers : packer[w].at = "gone"

\* A worker has a shard exactly between the hand-out and the delivery.
WorkersHold ==
  \A w \in Packers :
    /\ packer[w].at \in {"take", "gone"} => packer[w].shard = 0
    /\ packer[w].at \in {"open", "read", "keep", "pack"} => packer[w].shard \in Shards
    /\ packer[w].at = "send" => Held(w) \in Shards

\* The list is handed out in order, so what is behind the feeder is in one place only.
HandedOnce ==
  /\ Len(export.feed) <= Cardinality(Shards)
  /\ \A i \in 1 .. Len(export.feed) : export.feed[i] = Cardinality(Shards) - Len(export.feed) + i
  /\ InHand \union Delivered \union ToSet(export.batch) \subseteq 1 .. Cardinality(Shards) - Len(export.feed)
  /\ InHand \intersect (kept.ledger \union Delivered \union ToSet(export.batch)) = {}
  /\ \A w, v \in Busy : w # v => Held(w) # Held(v)

\* The committer's batch and how much of it is in the ledger.
BatchInOrder ==
  /\ Len(export.batch) <= PackBatch /\ export.marked <= Len(export.batch)
  /\ export.at = "recv" => Len(export.batch) < PackBatch /\ export.marked = 0
  /\ export.at = "push" => export.marked = 0 /\ export.push
  /\ \A i \in 1 .. export.marked : export.batch[i] \in kept.ledger
  /\ \A r \in ToSet(export.finished) : r.how = "skipped" => r.shard \in kept.ledger
  /\ export.err => export.at = "gone"
  /\ export.at = "gone" => export.err \/ (export.closed /\ export.finished = <<>> /\ export.batch = <<>>)

\* Every shard is somewhere, and the numbers say how many are where.
AllAccountedFor ==
  export.up /\ ~export.cancelled =>
    /\ Shards \subseteq ToSet(export.feed) \union InHand \union Delivered \union ToSet(export.batch)
                          \union kept.ledger \union packLog.failed
    /\ export.committed + Len(export.batch) + export.skipped + export.failed
         + Len(export.finished) + Cardinality(Busy) + Len(export.feed) = Cardinality(Shards)

\* What is packed is in a file, or on the hub once it is being marked; and is not cut.
PackedIsThere ==
  /\ ~export.push => Packed \subseteq kept.files
  /\ export.push /\ export.at = "mark" => ToSet(export.batch) \subseteq stored \ packLog.cut
  /\ ~export.cancelled => Packed \intersect packLog.cut = {}

PoolLeavesLast ==
  /\ export.up /\ (\E w \in Packers : packer[w].at = "gone") => ~export.feeding \/ export.cancelled
  /\ ~export.feeding /\ ~export.cancelled => export.feed = <<>>

KeepsWhole == \A w \in Packers : packer[w].at = "keep" => kept.part[packer[w].shard] = "whole"

PackInv ==
  /\ PackTyped /\ AtRest /\ WorkersHold /\ HandedOnce /\ BatchInOrder /\ AllAccountedFor
  /\ PackedIsThere /\ PoolLeavesLast /\ KeepsWhole /\ NoShardPassedOver
=============================================================================
