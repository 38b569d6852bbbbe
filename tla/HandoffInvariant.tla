--------------------------- MODULE HandoffInvariant ---------------------------
(***************************************************************************)
(* Why no page is lost between the crawl and the hub when every run names  *)
(* its shards apart: the inductive invariant of RecrawlPublish.  TLC       *)
(* checks it on a small instance, HandoffProofs proves it for all of them. *)
(***************************************************************************)
EXTENDS RecrawlPublish

\* What the fleet units do not do: no two runs have the same prefix.
DistinctPrefixes == \A q, r \in Runs : Prefix[q] = Prefix[r] => q = r

\* The types the rest depends on; the ledger's totals are left to TypeOK.
ShardsTyped ==
  /\ ck \in Position
  /\ files \in [Names -> Content \cup {NoFile}]
  /\ cpc \in {"down", "up", "save"} /\ run \in 0 .. MaxRuns
  /\ next \in 0 .. N /\ open \subseteq Rows /\ shardNo \in 0 .. N
  /\ hub \subseteq [path : Content, body : Content]
  /\ staged \subseteq Shards /\ exists \subseteq Content
  /\ batch \in Seq(Shards)

\* Names this run and the ones before it have given to a shard.
UsedNames ==
  {n \in Names : \E r \in Runs :
     n[1] = Prefix[r] /\ (r < run \/ (r = run /\ n[2] < shardNo))}

Batched == {batch[i] : i \in DOMAIN batch}

\* No name the crawl is going to use is taken, on disk or in a pass under way.
NamesFresh ==
  /\ Present \subseteq UsedNames
  /\ \A s \in staged \cup Batched : s.name \in UsedNames

\* A shard of a pass is still what it was when it was hashed, or gone.
ShardsStand == \A s \in staged \cup Batched : files[s.name] \in {s.hash, NoFile}

\* What was found on the hub is there, and when the local files of a batch are
\* deleted the hub has those that are left.
HubHasThem ==
  /\ exists \subseteq Paths
  /\ ppc = "delete" =>
       \A s \in Batched : files[s.name] = s.hash => s.hash \in Paths

\* The crawl has a shard number left for each row that it may still write.
NumbersSuffice ==
  cpc # "down" =>
    /\ run \in Runs
    /\ shardNo <= next
    /\ open # {} => shardNo < next

\* Every row the crawl is past is in its open shard or kept somewhere.
RowsKept ==
  /\ cpc # "down" => /\ ck.row <= next /\ ~ck.done
                     /\ \A r \in Rows : r < next => r \in open \cup Kept
  /\ cpc = "save" => open = {}

\* Done is said only when all rows are kept.
DoneIsKept == ck.done => Rows \subseteq Kept

\* The handoff's inductive invariant: names are never used twice, so a shard is
\* what was hashed until the hub has it, and rows are kept.
HandoffInv ==
  /\ ShardsTyped
  /\ NamesFresh /\ ShardsStand /\ PathsNameTheirContent /\ HubHasThem
  /\ NumbersSuffice /\ RowsKept /\ DoneIsKept
  /\ NoPageLost
-----------------------------------------------------------------------------
(* Why the ledger counts what is on the hub. *)

\* The files of one run share no row, so no two files have the same content.
ContentsApart ==
  /\ \A n \in Present :
       /\ files[n].rows # {} /\ files[n].run <= run /\ n[1] = Prefix[files[n].run]
       /\ cpc # "down" /\ files[n].run = run =>
            \A r \in files[n].rows : r < next /\ r \notin open
  /\ \A m, n \in Present :
       m # n /\ files[m].run = files[n].run => files[m].rows \cap files[n].rows = {}
  /\ cpc # "down" => \A r \in open : r < next

\* Nor have two shards of a pass, each of which is in one place of it.
PassApart ==
  /\ \A s, t \in staged \cup Batched : s.name = t.name \/ s.hash = t.hash => s = t
  /\ staged \cap Batched = {}
  /\ \A i, j \in DOMAIN batch : batch[i] = batch[j] => i = j

\* A shard stays in the directory until the publisher comes to delete it.
ShardsWait ==
  /\ ppc \in {"ask", "sort", "flush", "commit", "delete"} =>
       \A s \in staged : files[s.name] = s.hash
  /\ ppc \in {"sort", "flush", "commit"} => \A s \in Batched : files[s.name] = s.hash

BatchSized ==
  /\ ppc \in {"pass", "ask", "watch"} => batch = <<>>
  /\ ppc = "sort" => Len(batch) < CommitEvery

\* The hub has what the look at it found, and the rest only when it was committed.
NewToHub ==
  /\ ppc \in {"sort", "flush"} => \A s \in Batched : s.hash \notin Paths
  /\ ppc \in {"sort", "flush", "commit", "delete"} =>
       \A s \in staged : s.hash \in exists \/ s.hash \notin Paths

\* The row in memory is the ledger on the hub, but between the row and the answer to its
\* commit: then it counts the batch, which is all on the hub or not at all.
RowsAgree ==
  LET same == stat.files = ledger.files /\ stat.rows = ledger.rows
      ahead == /\ stat.files = ledger.files + Len(batch)
               /\ stat.rows = ledger.rows + RowCount(batch)
  IN /\ ppc \in {"pass", "ask", "sort", "flush", "delete", "watch"} => same
     /\ ppc = "commit" =>
          \/ same /\ \A s \in Batched : [path |-> s.hash, body |-> s.hash] \in hub
          \/ ahead /\ \A s \in Batched : s.hash \notin Paths

\* The ledger's inductive invariant, on top of HandoffInv: content is counted once.
LedgerInv ==
  /\ ContentsApart /\ PassApart /\ ShardsWait /\ BatchSized /\ NewToHub /\ RowsAgree
  /\ IsFiniteSet(hub) /\ LedgerCountsHub
=============================================================================
