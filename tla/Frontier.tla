------------------------------- MODULE Frontier -------------------------------
(***************************************************************************)
(* The URL frontier (ccrawl/frontier.go, ccrawl/seencache.go): rows in a   *)
(* SQLite file, with buffers in memory before the seen check, the claim    *)
(* and the completion.  Every operation takes the frontier's mutex for its *)
(* whole body, so each is one step; the crawler that calls them is         *)
(* Crawler.  A transaction survives a kill; what is in memory does not.    *)
(*                                                                         *)
(* Clocks are ticks to go: next_at and the host clocks count down to zero, *)
(* and a reservation is known by the URL it was made for, which is what    *)
(* comparing claimAt with the host clock decides while Delay is positive.  *)
(***************************************************************************)
EXTENDS Integers, Sequences, FiniteSets, FiniteSetsExt, SequencesExt

CONSTANTS
  Urls, Hosts,
  HostOf,     \* the host of each URL
  Rank,       \* the priority of each URL, the higher the sooner
  Delay,      \* ticks between two hand-outs of a host
  BatchSize, MergeSize, ClaimSize, SyncEvery, SeenURLs, HotHosts,
  None

ASSUME FrontierAssumption ==
  /\ IsFiniteSet(Urls) /\ HostOf \in [Urls -> Hosts] /\ Rank \in [Urls -> Nat]
  /\ {Delay, BatchSize, MergeSize, ClaimSize, SyncEvery, SeenURLs, HotHosts}
       \subseteq Nat \ {0}
  /\ None \notin Urls \union Nat

VARIABLES
  \* on disk
  row,       \* the frontier table: each URL's state, absent when it has none
  nextAt,    \* its next_at
  tries,     \* its retries
  stage,     \* rows per URL in the staging table
  hostRow,   \* the hosts table
  \* in memory
  seen,      \* the two generations of the seen cache
  pending,   \* admissions not yet staged, per URL
  ready,     \* claimed rows not looked at yet
  deferred,  \* claimed rows on their way back, and when they may be asked for
  finished,  \* completions not yet written
  lru, hot,  \* the recency list of the host cache, and its clocks
  dirty,     \* host clocks not yet written
  slot,      \* whose reservation stands on the host
  queued,    \* the counter behind Len
  idle       \* the last refill was empty and nothing has come since

disk == <<row, nextAt, tries, stage, hostRow>>
queue == <<pending, ready, deferred, finished>>
clocks == <<lru, hot, dirty, slot>>
mem == <<seen, queue, clocks, queued, idle>>
frontierVars == <<disk, mem>>

NoRows == [u \in Urls |-> 0]
RowsIn(table) == MapThenSumSet(LAMBDA u : table[u], Urls)

NoClocks == [h \in Hosts |-> None]

FrontierInit ==
  /\ row = [u \in Urls |-> "absent"]
  /\ nextAt = NoRows /\ tries = NoRows /\ stage = NoRows
  /\ hostRow = [h \in Hosts |-> 0]
  /\ seen = [hot |-> {}, cold |-> {}]
  /\ pending = NoRows /\ ready = <<>> /\ deferred = <<>> /\ finished = <<>>
  /\ lru = <<>> /\ hot = <<>> /\ dirty = NoClocks /\ slot = NoClocks
  /\ queued = 0 /\ idle = FALSE

(***************************************************************************)
(* Host clocks: the recency list, the clocks not yet written, the table.   *)
(***************************************************************************)

hostNextAt(h) ==
  IF h \in DOMAIN hot THEN hot[h] ELSE IF dirty[h] # None THEN dirty[h] ELSE hostRow[h]

\* The elements of a sequence that are in a set, in their order.
Only(s, T) ==
  LET kept[n \in 0 .. Len(s)] ==
        IF n = 0 THEN <<>>
        ELSE IF s[n] \in T THEN Append(kept[n - 1], s[n]) ELSE kept[n - 1]
  IN kept[Len(s)]

cacheHost(list, h) ==
  LET front == <<h>> \o Only(list, Hosts \ {h})
  IN SubSeq(front, 1, Min({Len(front), HotHosts}))

\* The hosts of a walk are read in turn.
Touched(urls) ==
  LET turn[n \in 0 .. Len(urls)] ==
        IF n = 0 THEN lru ELSE cacheHost(turn[n - 1], HostOf[urls[n]])
  IN turn[Len(urls)]

CacheTo(list) ==
  /\ lru' = list
  /\ hot' = [h \in ToSet(list) |-> hostNextAt(h)]

\* written: the clocks that were still to be written before this one
setHostNextAt(h, at, list, written, owner) ==
  /\ lru' = cacheHost(list, h)
  /\ hot' = [g \in ToSet(lru') |-> IF g = h THEN at ELSE hostNextAt(g)]
  /\ dirty' = [written EXCEPT ![h] = at]
  /\ slot' = [slot EXCEPT ![h] = owner]

\* Mutant: the buffer is cleared, the table is not written.
UnwrittenHosts == hostRow

\* flushHostsLocked
WrittenHosts == [h \in Hosts |-> IF dirty[h] # None THEN dirty[h] ELSE hostRow[h]]

(***************************************************************************)
(* Admission.                                                              *)
(***************************************************************************)

\* seenCache.add of a key it does not hold
Remember(u) ==
  IF Cardinality(seen.hot) >= SeenURLs
  THEN [hot |-> {u}, cold |-> seen.hot]
  ELSE [seen EXCEPT !.hot = @ \union {u}]

\* Mutant: the admission buffer is left out.
StagedOnDisk == stage

Staged == [u \in Urls |-> stage[u] + pending[u]]

\* Mutant: INSERT OR REPLACE.
ReplacedRows(rows, staged) == [u \in Urls |-> IF staged[u] > 0 THEN "pending" ELSE rows[u]]

\* INSERT OR IGNORE of what is staged
MergedRows(rows, staged) ==
  [u \in Urls |-> IF staged[u] > 0 /\ rows[u] = "absent" THEN "pending" ELSE rows[u]]
\* Mutant: duplicates are counted too.
AdmittedAll(rows, staged) == Cardinality({u \in Urls : staged[u] > 0})
Admitted(rows, staged) == Cardinality({u \in Urls : staged[u] > 0 /\ rows[u] = "absent"})

mergeThreshold == Max({MergeSize, queued \div 8})

Add(u) ==
  /\ UNCHANGED <<nextAt, tries, hostRow, ready, deferred, finished, clocks>>
  /\ IF u \in seen.hot \union seen.cold
     THEN /\ seen' = [seen EXCEPT !.hot = @ \union {u}]
          /\ UNCHANGED <<row, stage, pending, queued, idle>>
     ELSE LET more == [pending EXCEPT ![u] = @ + 1]
              flush == RowsIn(more) >= BatchSize
              staged == [v \in Urls |-> stage[v] + more[v]]
              merge == flush /\ RowsIn(staged) >= mergeThreshold
          IN /\ seen' = Remember(u)
             /\ idle' = FALSE
             /\ pending' = IF flush THEN NoRows ELSE more
             /\ stage' = IF merge THEN NoRows ELSE IF flush THEN staged ELSE stage
             /\ row' = IF merge THEN MergedRows(row, staged) ELSE row
             /\ queued' = IF merge THEN queued + Admitted(row, staged) ELSE queued

Flush ==
  /\ pending' = NoRows /\ stage' = NoRows
  /\ row' = MergedRows(row, Staged)
  /\ queued' = queued + Admitted(row, Staged)
  /\ UNCHANGED <<nextAt, tries, hostRow, seen, ready, deferred, finished, clocks, idle>>

FrontierLen == queued + RowsIn(stage) + RowsIn(pending)

(***************************************************************************)
(* Hand-out.                                                               *)
(***************************************************************************)

\* Entries a walk steps over because their host is not free yet.
SteppedOver(urls) ==
  [u \in DOMAIN deferred \union ToSet(urls) |->
     IF u \in ToSet(urls) THEN hostNextAt(HostOf[u]) ELSE deferred[u]]

\* The claim buffer holds an entry whose host is free.
PopReady(u) ==
  /\ ~idle
  /\ \E i \in DOMAIN ready :
       /\ ready[i] = u /\ hostNextAt(HostOf[u]) = 0
       /\ \A j \in 1 .. i - 1 : hostNextAt(HostOf[ready[j]]) > 0
       /\ ready' = SubSeq(ready, i + 1, Len(ready))
       /\ deferred' = SteppedOver(SubSeq(ready, 1, i - 1))
       /\ setHostNextAt(HostOf[u], Delay, Touched(SubSeq(ready, 1, i)), dirty, u)
  /\ queued' = queued - 1
  /\ UNCHANGED <<disk, seen, pending, finished, idle>>

NoneFree == ~idle /\ \A i \in DOMAIN ready : hostNextAt(HostOf[ready[i]]) > 0

\* What a refill finds: the write backs released, the admissions staged and,
\* when nothing on disk may be asked for, merged.
Released(back) ==
  [rows |-> [u \in Urls |-> IF u \in DOMAIN back THEN "pending" ELSE row[u]],
   at |-> [u \in Urls |-> IF u \in DOMAIN back THEN back[u] ELSE nextAt[u]]]

\* Mutant: the query forgets the state.
EligibleAll(rows, at) ==
  {u \in Urls : rows[u] \in {"pending", "claimed"} /\ at[u] = 0 /\ WrittenHosts[HostOf[u]] = 0}

Eligible(rows, at) ==
  {u \in Urls : rows[u] = "pending" /\ at[u] = 0 /\ WrittenHosts[HostOf[u]] = 0}

Found ==
  LET rel == Released(SteppedOver(ready))
      merge == Eligible(rel.rows, rel.at) = {} /\ RowsIn(Staged) > 0
      rows == IF merge THEN MergedRows(rel.rows, Staged) ELSE rel.rows
  IN [rows |-> rows, at |-> rel.at, merged |-> merge,
      queued |-> IF merge THEN queued + Admitted(rel.rows, Staged) ELSE queued,
      urls |-> Eligible(rows, rel.at)]

\* The rows by priority; which of equal ones comes first is up to the query.
Orders(urls) ==
  {best \in [1 .. Cardinality(urls) -> urls] :
     \A i, j \in DOMAIN best : i < j => best[i] # best[j] /\ Rank[best[i]] >= Rank[best[j]]}

\* The best ClaimSize rows, one of each host.
Batch(best) ==
  LET rows == SubSeq(best, 1, Min({Len(best), ClaimSize}))
      first == {i \in DOMAIN rows : \A j \in 1 .. i - 1 : HostOf[rows[j]] # HostOf[rows[i]]}
  IN Only(rows, {rows[i] : i \in first})

Refill ==
  /\ NoneFree
  /\ nextAt' = Found.at
  /\ stage' = IF Found.merged THEN NoRows ELSE Staged
  /\ pending' = NoRows /\ deferred' = <<>>
  /\ hostRow' = WrittenHosts
  /\ UNCHANGED <<tries, seen, finished>>

PopRefilled(u) ==
  /\ Refill
  /\ Found.urls # {}
  /\ \E best \in Orders(Found.urls) :
       LET batch == Batch(best)
       IN /\ u = Head(batch)
          /\ ready' = Tail(batch)
          /\ row' = [v \in Urls |-> IF v \in ToSet(batch) THEN "claimed" ELSE Found.rows[v]]
  /\ setHostNextAt(HostOf[u], Delay, Touched(Append(ready, u)), NoClocks, u)
  /\ queued' = Found.queued - 1
  /\ UNCHANGED idle

Pop(u) == PopReady(u) \/ PopRefilled(u)

PopNothing ==
  \/ idle /\ UNCHANGED frontierVars
  \/ /\ Refill
     /\ Found.urls = {}
     /\ row' = Found.rows /\ queued' = Found.queued
     /\ ready' = <<>>
     /\ CacheTo(Touched(ready))
     /\ dirty' = NoClocks
     /\ idle' = TRUE
     /\ UNCHANGED slot

(***************************************************************************)
(* What becomes of a URL that was handed out.                              *)
(***************************************************************************)

\* Mutant: the completions are dropped with the buffer.
UnwrittenRows(done) == row

WrittenRows(done) == [u \in Urls |-> IF u \in DOMAIN done THEN done[u] ELSE row[u]]

finish(u, state) ==
  LET more == [v \in DOMAIN finished \union {u} |-> IF v = u THEN state ELSE finished[v]]
      sync == Cardinality(DOMAIN more) >= SyncEvery
  IN /\ row' = IF sync THEN WrittenRows(more) ELSE row
     /\ finished' = IF sync THEN <<>> ELSE more
     /\ UNCHANGED <<nextAt, tries, stage, hostRow, seen, pending, ready, deferred,
                    clocks, queued, idle>>

Sync ==
  /\ row' = WrittenRows(finished)
  /\ finished' = <<>>
  /\ UNCHANGED <<nextAt, tries, stage, hostRow, seen, pending, ready, deferred, clocks,
                 queued, idle>>

\* Mutant: a URL put back is not counted again.
PutBackUncounted(u, at) ==
  /\ row' = [row EXCEPT ![u] = "pending"]
  /\ nextAt' = [nextAt EXCEPT ![u] = at]
  /\ UNCHANGED <<stage, hostRow, seen, queue, idle, queued>>

PutBack(u, at) ==
  /\ row' = [row EXCEPT ![u] = "pending"]
  /\ nextAt' = [nextAt EXCEPT ![u] = at]
  /\ queued' = queued + 1
  /\ UNCHANGED <<stage, hostRow, seen, queue, idle>>

Retry(u, at) == PutBack(u, at) /\ tries' = [tries EXCEPT ![u] = @ + 1] /\ UNCHANGED clocks

Defer(u, at) == PutBack(u, at) /\ UNCHANGED <<tries, clocks>>

\* Mutant: whoever asks gets the host.
HoldsClaimAlways(u) == TRUE
HoldsClaim(u) == slot[HostOf[u]] = u

HoldClaim(u, until) ==
  /\ HoldsClaim(u)
  /\ setHostNextAt(HostOf[u], until, lru, dirty, None)
  /\ UNCHANGED <<disk, seen, queue, queued, idle>>

(***************************************************************************)
(* Open, close, kill, and time.                                            *)
(***************************************************************************)

Reset ==
  /\ seen' = [hot |-> {}, cold |-> {}]
  /\ pending' = NoRows /\ ready' = <<>> /\ deferred' = <<>> /\ finished' = <<>>
  /\ lru' = <<>> /\ hot' = <<>>
  /\ dirty' = NoClocks /\ slot' = NoClocks
  /\ idle' = FALSE

OpenFrontier ==
  /\ row' = [u \in Urls |-> IF row[u] = "claimed" THEN "pending" ELSE row[u]]
  /\ queued' = Cardinality({u \in Urls : row'[u] = "pending"})
  /\ Reset
  /\ UNCHANGED <<nextAt, tries, stage, hostRow>>

Close ==
  LET merged == MergedRows(WrittenRows(finished), Staged)
  IN /\ row' = [u \in Urls |-> IF u \in ToSet(ready) \union DOMAIN deferred
                               THEN "pending" ELSE merged[u]]
     /\ nextAt' = [u \in Urls |-> IF u \in DOMAIN deferred THEN deferred[u] ELSE nextAt[u]]
     /\ stage' = NoRows
     /\ hostRow' = WrittenHosts
     /\ Reset /\ queued' = 0
     /\ UNCHANGED tries

\* The process is gone, and its memory with it.
Kill == Reset /\ queued' = 0 /\ UNCHANGED disk

Less(n) == IF n \in Nat /\ n > 0 THEN n - 1 ELSE n

FrontierTick ==
  /\ nextAt' = [u \in Urls |-> Less(nextAt[u])]
  /\ hostRow' = [h \in Hosts |-> Less(hostRow[h])]
  /\ hot' = [h \in DOMAIN hot |-> Less(hot[h])]
  /\ dirty' = [h \in Hosts |-> Less(dirty[h])]
  /\ deferred' = [u \in DOMAIN deferred |-> Less(deferred[u])]
  /\ idle' = FALSE
  /\ UNCHANGED <<row, tries, stage, seen, pending, ready, finished, lru, slot, queued>>
=============================================================================
