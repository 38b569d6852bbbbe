---------------------------- MODULE HandoffProofs ----------------------------
(***************************************************************************)
(* Proofs about the handoff from the crawl to the hub, for every number of *)
(* rows, runs and shards in a commit.  First how rows are kept when files  *)
(* come and go, then that each step keeps the invariant of                 *)
(* HandoffInvariant: the crawl's, those of the publisher that touch no     *)
(* file, a commit, and the deletes.                                        *)
(***************************************************************************)
EXTENDS HandoffInvariant, SumProofs

\* A new name is in the directory's name space, and nobody has it.
LEMMA NewNameIsFresh ==
  ASSUME DistinctPrefixes, HandoffInv, cpc = "up", open # {}
  PROVE  /\ shardNo \in 0 .. N - 1
         /\ <<Prefix[run], shardNo>> \in Names \ UsedNames
         /\ files[<<Prefix[run], shardNo>>] = NoFile
<1> DEFINE n == <<Prefix[run], shardNo>>
<1>1. /\ run \in Runs /\ shardNo \in Nat /\ shardNo < next
      /\ next \in 0 .. N /\ N \in Nat
  BY RecrawlPublishAssumption
     DEF HandoffInv, NumbersSuffice, ShardsTyped
<1>2. shardNo \in 0 .. N - 1
  BY <1>1
<1>3. n \in Names
  BY <1>1, <1>2 DEF Names, Rows
<1>4. n \notin UsedNames
  BY <1>1 DEF UsedNames, DistinctPrefixes, Runs
<1>5. files[n] = NoFile
  BY <1>3, <1>4 DEF HandoffInv, NamesFresh, Present
<1> QED BY <1>2, <1>3, <1>4, <1>5

\* Kept rows stay kept when what goes is on the hub and the hub keeps what it has.
LEMMA KeptStays ==
  ASSUME Published \subseteq Published',
         \A n \in Present : files'[n] # files[n] => files[n] \in Published'
  PROVE  Kept \subseteq Kept'
<1>1. ASSUME NEW c \in Published \cup {files[n] : n \in Present}
      PROVE  c \in (Published \cup {files[n] : n \in Present})'
  <2>1. CASE c \in Published
    BY <2>1
  <2>2. CASE c \in {files[n] : n \in Present}
    <3>1. PICK n \in Present : c = files[n]
      BY <2>2
    <3>2. CASE files'[n] = files[n]
      BY <3>1, <3>2 DEF Present
    <3>3. CASE files'[n] # files[n]
      BY <3>1, <3>3
    <3> QED BY <3>2, <3>3
  <2> QED BY <1>1, <2>1, <2>2
<1> QED BY <1>1 DEF Kept
-----------------------------------------------------------------------------
LEMMA InvInit == Init => HandoffInv
<1> SUFFICES ASSUME Init PROVE HandoffInv
  OBVIOUS
<1>1. ShardsTyped
  BY RecrawlPublishAssumption
     DEF Init, ShardsTyped, Position, Content
<1>2. Present = {} /\ Batched = {} /\ staged = {}
  BY DEF Init, Present, Batched
<1>3. NamesFresh /\ ShardsStand
  BY <1>2 DEF NamesFresh, ShardsStand
<1>4. PathsNameTheirContent /\ HubHasThem
  BY DEF Init, PathsNameTheirContent, HubHasThem, Paths
<1>5. NumbersSuffice /\ RowsKept /\ DoneIsKept /\ NoPageLost
  BY DEF Init, NumbersSuffice, RowsKept, DoneIsKept, NoPageLost, Rows
<1> QED BY <1>1, <1>3, <1>4, <1>5 DEF HandoffInv

\* A step of the crawl that touches no file.
LEMMA CrawlKeepsInv ==
  ASSUME HandoffInv,
         CrawlStart \/ Capture \/ CheckpointSave \/ Finish \/ CrawlDies
  PROVE  HandoffInv'
<1> USE RecrawlPublishAssumption
<1>1. /\ UNCHANGED <<files, hub, exists, ppc, staged, batch>>
      /\ Kept' = Kept /\ Present' = Present /\ Batched' = Batched
  BY DEF CrawlStart, Capture, CheckpointSave, Finish, CrawlDies, remote,
         publish, Kept, Published, Present, Batched
<1>2. ShardsTyped'
  <2>1. /\ ck \in Position /\ ck.row \in 0 .. N /\ N \in 0 .. N
        /\ next \in 0 .. N /\ open \subseteq Rows /\ shardNo \in 0 .. N
        /\ cpc \in {"down", "up", "save"} /\ run \in 0 .. MaxRuns
        /\ N \in Nat /\ MaxRuns \in Nat
    BY DEF HandoffInv, ShardsTyped, Position
  <2>2. SUFFICES /\ ck' \in Position
                 /\ next' \in 0 .. N /\ open' \subseteq Rows
                 /\ shardNo' \in 0 .. N
                 /\ cpc' \in {"down", "up", "save"} /\ run' \in 0 .. MaxRuns
    BY <1>1 DEF HandoffInv, ShardsTyped
  <2>3. CASE CrawlStart
    BY <2>1, <2>3 DEF CrawlStart
  <2>4. CASE Capture
    BY <2>1, <2>4 DEF Capture, Rows
  <2>5. CASE CheckpointSave
    <3>1. PICK m \in ck.row .. next : ck' = [row |-> m, done |-> FALSE]
      BY <2>5 DEF CheckpointSave
    <3>2. m \in 0 .. N
      BY <2>1, <3>1
    <3> QED BY <2>1, <2>5, <3>1, <3>2 DEF CheckpointSave, Position
  <2>6. CASE Finish
    BY <2>1, <2>6 DEF Finish, Position
  <2>7. CASE CrawlDies
    BY <2>1, <2>7 DEF CrawlDies
  <2> QED BY <2>3, <2>4, <2>5, <2>6, <2>7
<1>3. UsedNames \subseteq UsedNames'
  BY DEF HandoffInv, ShardsTyped, UsedNames, Runs, CrawlStart, Capture,
         CheckpointSave, Finish, CrawlDies
<1>4. NamesFresh' /\ ShardsStand' /\ PathsNameTheirContent' /\ HubHasThem'
  BY <1>1, <1>3 DEF HandoffInv, NamesFresh, ShardsStand,
     PathsNameTheirContent, HubHasThem, Paths
<1>5. NumbersSuffice' /\ RowsKept' /\ DoneIsKept' /\ NoPageLost'
  <2> USE <1>1 DEF HandoffInv, NumbersSuffice, RowsKept, DoneIsKept, NoPageLost,
                   ShardsTyped, Position, Rows, Runs
  <2>1. CASE CrawlStart
    BY <2>1 DEF CrawlStart
  <2>2. CASE Capture
    BY <2>2 DEF Capture
  <2>3. CASE CheckpointSave
    BY <2>3 DEF CheckpointSave
  <2>4. CASE Finish
    BY <2>4 DEF Finish
  <2>5. CASE CrawlDies
    BY <2>5 DEF CrawlDies
  <2> QED BY <2>1, <2>2, <2>3, <2>4, <2>5
<1> QED BY <1>2, <1>4, <1>5 DEF HandoffInv

\* Sealing gives the open rows a file, and takes none away.
LEMMA SealKeepsInv ==
  ASSUME DistinctPrefixes, HandoffInv, Seal
  PROVE  HandoffInv'
<1> USE RecrawlPublishAssumption
<1> DEFINE n == <<Prefix[run], shardNo>>
           c == [rows |-> open, run |-> run]
<1>1. /\ cpc = "up" /\ open # {} /\ cpc' = "save" /\ open' = {}
      /\ shardNo' = shardNo + 1
      /\ files' = [files EXCEPT ![n] = c]
      /\ UNCHANGED <<ck, run, next, hub, exists, ppc, staged, batch>>
  BY DEF Seal, remote, publish
<1>2. /\ shardNo \in 0 .. N - 1 /\ n \in Names \ UsedNames
      /\ files[n] = NoFile
  BY <1>1, NewNameIsFresh
<1>3. run \in Runs /\ c \in Content /\ c # NoFile
  BY <1>1, NoFileAssumption
     DEF HandoffInv, NumbersSuffice, ShardsTyped, Content
<1>4. \A m \in Names : files'[m] = IF m = n THEN c ELSE files[m]
  BY <1>1 DEF HandoffInv, ShardsTyped
<1>5. ShardsTyped'
  BY <1>1, <1>2, <1>3 DEF HandoffInv, ShardsTyped
<1>6. Present' = Present \cup {n} /\ Batched' = Batched
  BY <1>1, <1>2, <1>3, <1>4 DEF Present, Batched
<1>7. UsedNames \cup {n} \subseteq UsedNames'
  <2>1. shardNo \in Nat /\ shardNo' = shardNo + 1 /\ run' = run
    BY <1>1, <1>2
  <2>2. n \in UsedNames'
    BY <1>2, <1>3, <2>1 DEF UsedNames
  <2>3. ASSUME NEW m \in UsedNames PROVE m \in UsedNames'
    <3>1. m \in Names /\ m[2] \in Nat
      BY DEF UsedNames, Names, Rows
    <3> QED BY <2>1, <3>1 DEF UsedNames
  <2> QED BY <2>2, <2>3
<1>8. NamesFresh'
  BY <1>1, <1>6, <1>7 DEF HandoffInv, NamesFresh
<1>9. ShardsStand' /\ HubHasThem'
  <2>1. \A s \in staged \cup Batched : s.name \in Names /\ s.name # n
    BY <1>2 DEF HandoffInv, NamesFresh, UsedNames
  <2> QED BY <1>1, <1>4, <1>6, <2>1 DEF HandoffInv, ShardsStand, HubHasThem, Paths
<1>10. Kept' = Kept \cup open
  <2>1. {files'[m] : m \in Present'} = {files[m] : m \in Present} \cup {c}
    BY <1>2, <1>3, <1>4, <1>6 DEF Present
  <2>2. Published' = Published
    BY <1>1 DEF Published
  <2>3. Kept' = UNION {d.rows : d \in Published \cup {files[m] : m \in Present} \cup {c}}
    BY <2>1, <2>2 DEF Kept
  <2>4. c.rows = open
    OBVIOUS
  <2> HIDE DEF c
  <2> QED BY <2>3, <2>4 DEF Kept
<1>11. PathsNameTheirContent' /\ NumbersSuffice'
  BY <1>1, <1>2 DEF HandoffInv, PathsNameTheirContent, NumbersSuffice,
     ShardsTyped
<1>12. RowsKept' /\ DoneIsKept' /\ NoPageLost'
  BY <1>1, <1>10 DEF HandoffInv, RowsKept, DoneIsKept, NoPageLost
<1> QED BY <1>5, <1>8, <1>9, <1>11, <1>12 DEF HandoffInv

\* A step of the publisher that touches neither files nor hub, and takes into
\* its hands only shards as they are in the directory.
LEMMA QuietStepKeepsInv ==
  ASSUME HandoffInv,
         UNCHANGED <<ck, files, crawl, hub>>,
         staged' \subseteq Shards, exists' \subseteq Content,
         batch' \in Seq(Shards), exists' \subseteq Paths,
         \A s \in (staged \cup Batched)' :
           s \in staged \cup Batched \/ (s.name \in Present /\ s.hash = files[s.name]),
         ppc' = "delete" => ppc = "delete" /\ Batched' = Batched
  PROVE  HandoffInv'
<1>1. /\ Kept' = Kept /\ Present' = Present /\ Paths' = Paths
      /\ UsedNames' = UsedNames
  BY DEF crawl, Kept, Published, Present, Paths, UsedNames
<1>2. ShardsTyped'
  BY DEF HandoffInv, ShardsTyped, crawl
<1>3. NamesFresh' /\ ShardsStand'
  BY <1>1 DEF HandoffInv, NamesFresh, ShardsStand, Present
<1>4. PathsNameTheirContent' /\ HubHasThem'
  BY <1>1 DEF HandoffInv, PathsNameTheirContent, HubHasThem
<1>5. NumbersSuffice' /\ RowsKept' /\ DoneIsKept' /\ NoPageLost'
  BY <1>1 DEF HandoffInv, NumbersSuffice, RowsKept, DoneIsKept, NoPageLost, crawl
<1> QED BY <1>2, <1>3, <1>4, <1>5 DEF HandoffInv

LEMMA QuietStepsKeepInv ==
  ASSUME HandoffInv,
         \/ PublisherStart \/ Inspect \/ AskHub \/ Add \/ EndPass \/ Sidecar
         \/ EndFlush \/ Watch \/ PublisherDies
  PROVE  HandoffInv'
<1>1. /\ staged \subseteq Shards /\ exists \subseteq Content
      /\ batch \in Seq(Shards) /\ exists \subseteq Paths
      /\ files \in [Names -> Content \cup {NoFile}]
  BY DEF HandoffInv, ShardsTyped, HubHasThem
<1>2. CASE PublisherStart
  <2>1. Batched' = {} /\ batch' \in Seq(Shards)
    BY <1>2 DEF PublisherStart, Batched
  <2> QED BY <1>1, <1>2, <2>1, QuietStepKeepsInv DEF PublisherStart, remote
<1>3. CASE Inspect
  <2>1. \A s \in staged' : s.name \in Present /\ s.hash = files[s.name]
    BY <1>3 DEF Inspect
  <2>2. staged' \subseteq Shards
    BY <1>1, <1>3 DEF Inspect, Present, Shards
  <2>3. Batched' = Batched /\ ppc' # "delete"
    BY <1>3 DEF Inspect, Batched
  <2> QED BY <1>1, <1>3, <2>1, <2>2, <2>3, QuietStepKeepsInv DEF Inspect, remote
<1>4. CASE AskHub
  <2>1. exists' \subseteq Content /\ exists' \subseteq Paths
    BY <1>1, <1>4 DEF AskHub, Shards
  <2>2. Batched' = Batched /\ ppc' # "delete"
    BY <1>4 DEF AskHub, Batched
  <2> QED BY <1>1, <1>4, <2>1, <2>2, QuietStepKeepsInv DEF AskHub, remote
<1>5. CASE Add
  <2>1. PICK s \in staged : batch' = Append(batch, s) /\ staged' = staged \ {s}
    BY <1>5 DEF Add
  <2>2. batch' \in Seq(Shards) /\ Batched' = Batched \cup {s}
    BY <1>1, <2>1 DEF Batched
  <2>3. ppc' # "delete" /\ UNCHANGED <<ck, files, crawl, hub, exists>>
    BY <1>5 DEF Add, remote
  <2> QED BY <1>1, <2>1, <2>2, <2>3, QuietStepKeepsInv
<1>6. CASE EndPass \/ Sidecar \/ EndFlush \/ Watch \/ PublisherDies
  <2>1. /\ UNCHANGED <<ck, files, crawl, hub, staged, exists, batch>>
        /\ ppc' # "delete"
    BY <1>6 DEF EndPass, Sidecar, EndFlush, Watch, PublisherDies, remote
  <2>2. Batched' = Batched
    BY <2>1 DEF Batched
  <2> QED BY <1>1, <2>1, <2>2, QuietStepKeepsInv
<1> QED BY <1>2, <1>3, <1>4, <1>5, <1>6

\* A commit puts on the hub what stands under the names of its batch.
LEMMA CommitKeepsInv ==
  ASSUME HandoffInv, Commit \/ CommitAnswerLost
  PROVE  HandoffInv' /\ Paths \subseteq Paths'
<1> DEFINE there == {s \in Batched : files[s.name] # NoFile}
<1>1. /\ UNCHANGED <<ck, files, crawl, staged, exists, batch>>
      /\ Landed
  BY DEF Commit, CommitAnswerLost
<1>2. /\ batch \in Seq(Shards) /\ Range(batch) = Batched
      /\ Batched \subseteq Shards
  BY DEF HandoffInv, ShardsTyped, Batched, Range
<1>3. \A s \in there : files[s.name] = s.hash /\ s.hash \in Content
  BY <1>2 DEF HandoffInv, ShardsStand, Shards
<1>4. hub' = {e \in hub : \A s \in there : e.path # s.hash}
             \cup {[path |-> s.hash, body |-> s.hash] : s \in there}
  <2>1. hub' = {e \in hub : \A s \in there : e.path # s.hash}
               \cup {[path |-> s.hash, body |-> files[s.name]] : s \in there}
    BY <1>1, <1>2 DEF Landed
  <2>2. {[path |-> s.hash, body |-> files[s.name]] : s \in there}
          = {[path |-> s.hash, body |-> s.hash] : s \in there}
    BY <1>3
  <2> QED BY <2>1, <2>2
<1>5. hub' \subseteq [path : Content, body : Content] /\ PathsNameTheirContent'
  <2> HIDE DEF there
  <2> QED BY <1>3, <1>4 DEF HandoffInv, ShardsTyped, PathsNameTheirContent
<1>6. Paths \subseteq Paths' /\ \A s \in there : s.hash \in Paths'
  <2> HIDE DEF there
  <2>1. ASSUME NEW s \in there PROVE s.hash \in Paths'
    <3> DEFINE new == [path |-> s.hash, body |-> s.hash]
    <3>1. new \in hub' /\ new.path = s.hash
      BY <1>4
    <3> HIDE DEF new
    <3> QED BY <3>1 DEF Paths
  <2>2. ASSUME NEW e \in hub PROVE e.path \in Paths'
    <3>1. CASE \A s \in there : e.path # s.hash
      <4>1. e \in hub'
        BY <1>4, <3>1
      <4> QED BY <4>1 DEF Paths
    <3>2. CASE \E s \in there : e.path = s.hash
      BY <2>1, <3>2
    <3> QED BY <3>1, <3>2
  <2> QED BY <2>1, <2>2 DEF Paths
<1>7. Published \subseteq Published'
  BY <1>5, <1>6 DEF HandoffInv, PathsNameTheirContent, Published, Paths
<1>8. Kept \subseteq Kept' /\ Present' = Present /\ Batched' = Batched
  BY <1>1, <1>7, KeptStays DEF Present, Batched
<1>9. ShardsTyped'
  BY <1>1, <1>5 DEF HandoffInv, ShardsTyped, crawl
<1>10. NamesFresh' /\ ShardsStand'
  BY <1>1, <1>8 DEF HandoffInv, NamesFresh, ShardsStand, UsedNames, crawl
<1>11. HubHasThem'
  <2>1. \A s \in Batched : files[s.name] = s.hash => s \in there
    BY <1>2, NoFileAssumption DEF Shards
  <2> QED BY <1>1, <1>6, <1>8, <2>1 DEF HandoffInv, HubHasThem
<1>12. NumbersSuffice' /\ RowsKept' /\ DoneIsKept' /\ NoPageLost'
  BY <1>1, <1>8 DEF HandoffInv, NumbersSuffice, RowsKept, DoneIsKept,
     NoPageLost, crawl
<1> QED BY <1>5, <1>6, <1>9, <1>10, <1>11, <1>12 DEF HandoffInv

\* Removing a file loses nothing when the hub has what is in it.
LEMMA RemovalKeepsInv ==
  ASSUME HandoffInv, NEW n \in Names, Removed(n),
         files[n] = NoFile \/ files[n] \in Paths,
         UNCHANGED <<ck, crawl, hub, exists, ppc>>,
         staged' \subseteq staged, batch' \in Seq(Shards),
         Batched' \subseteq Batched
  PROVE  /\ HandoffInv'
         /\ \A m \in Present : files'[m] # files[m] => files[m] \in Published
<1>1. \A m \in Names : files'[m] = files[m] \/ (m = n /\ files'[m] = NoFile)
  BY DEF Removed, HandoffInv, ShardsTyped
<1>2. files' \in [Names -> Content \cup {NoFile}]
  BY DEF Removed, HandoffInv, ShardsTyped
<1>3. Present' \subseteq Present
  BY <1>1 DEF Present
<1>4. \A h \in Paths : h \in Published
  BY DEF HandoffInv, PathsNameTheirContent, Paths, Published
<1>5. \A m \in Present : files'[m] # files[m] => files[m] \in Published
  BY <1>1, <1>4 DEF Present
<1>6. /\ Published' = Published /\ Paths' = Paths
      /\ UsedNames' = UsedNames
  BY DEF Published, Paths, UsedNames, crawl
<1>7. Kept \subseteq Kept'
  BY <1>5, <1>6, KeptStays
<1>8. ShardsTyped'
  BY <1>2 DEF HandoffInv, ShardsTyped, crawl
<1>9. NamesFresh'
  BY <1>3, <1>6 DEF HandoffInv, NamesFresh
<1>10. ShardsStand' /\ HubHasThem'
  <2>a. staged \subseteq Shards /\ Batched \subseteq Shards
    BY DEF HandoffInv, ShardsTyped, Batched
  <2>1. \A s \in staged \cup Batched : s.name \in Names /\ s.hash # NoFile
    BY <2>a, NoFileAssumption DEF Shards
  <2> QED BY <1>1, <1>6, <2>1 DEF HandoffInv, ShardsStand, HubHasThem
<1>11. PathsNameTheirContent' /\ NumbersSuffice'
  BY DEF HandoffInv, PathsNameTheirContent, NumbersSuffice, crawl
<1>12. RowsKept' /\ DoneIsKept' /\ NoPageLost'
  BY <1>7 DEF HandoffInv, RowsKept, DoneIsKept, NoPageLost, crawl
<1> QED BY <1>5, <1>8, <1>9, <1>10, <1>11, <1>12 DEF HandoffInv

LEMMA DeletesKeepInv ==
  ASSUME HandoffInv, Drop \/ Delete
  PROVE  /\ HandoffInv'
         /\ \A m \in Present : files'[m] # files[m] => files[m] \in Published
<1>1. CASE Drop
  <2>1. PICK s \in staged : s.hash \in exists /\ Removed(s.name)
                            /\ staged' = staged \ {s}
    BY <1>1 DEF Drop
  <2>2. UNCHANGED <<ck, crawl, hub, exists, ppc, batch>> /\ Batched' = Batched
    BY <1>1 DEF Drop, remote, Batched
  <2>3. s.name \in Names /\ batch \in Seq(Shards)
    BY DEF HandoffInv, ShardsTyped, Shards
  <2>4. files[s.name] = NoFile \/ files[s.name] \in Paths
    BY <2>1 DEF HandoffInv, ShardsStand, HubHasThem
  <2> QED BY <2>1, <2>2, <2>3, <2>4, RemovalKeepsInv
<1>2. CASE Delete
  <2>1. /\ ppc = "delete" /\ batch # <<>> /\ Removed(Head(batch).name)
        /\ batch' = Tail(batch) /\ UNCHANGED <<ck, crawl, hub, exists, ppc, staged>>
    BY <1>2 DEF Delete, remote
  <2>2. batch \in Seq(Shards)
    BY DEF HandoffInv, ShardsTyped
  <2>a. Head(batch) \in Shards /\ Head(batch) = batch[1] /\ 1 \in DOMAIN batch
    BY <2>1, <2>2
  <2>b. \A i \in DOMAIN Tail(batch) :
          i + 1 \in DOMAIN batch /\ Tail(batch)[i] = batch[i + 1]
    BY <2>1, <2>2
  <2>3. /\ Head(batch) \in Batched /\ Head(batch).name \in Names
        /\ batch' \in Seq(Shards) /\ Batched' \subseteq Batched
    <3>1. Head(batch).name \in Names
      BY <2>a DEF Shards
    <3>2. batch' \in Seq(Shards)
      BY <2>1, <2>2
    <3>3. Batched' \subseteq Batched
      BY <2>1, <2>b DEF Batched
    <3> QED BY <2>a, <3>1, <3>2, <3>3 DEF Batched
  <2>4. files[Head(batch).name] = NoFile \/ files[Head(batch).name] \in Paths
    BY <2>1, <2>3 DEF HandoffInv, ShardsStand, HubHasThem
  <2> QED BY <2>1, <2>3, <2>4, RemovalKeepsInv
<1> QED BY <1>1, <1>2
-----------------------------------------------------------------------------
LEMMA InvStep ==
  ASSUME DistinctPrefixes, HandoffInv, [Next]_vars
  PROVE  HandoffInv'
<1>1. CASE CrawlStart \/ Capture \/ CheckpointSave \/ Finish \/ CrawlDies
  BY <1>1, CrawlKeepsInv
<1>2. CASE Seal
  BY <1>2, SealKeepsInv
<1>3. CASE \/ PublisherStart \/ Inspect \/ AskHub \/ Add \/ EndPass \/ Sidecar
           \/ EndFlush \/ Watch \/ PublisherDies
  BY <1>3, QuietStepsKeepInv
<1>4. CASE Commit \/ CommitAnswerLost
  BY <1>4, CommitKeepsInv
<1>5. CASE Drop \/ Delete
  BY <1>5, DeletesKeepInv
<1>6. CASE UNCHANGED vars
  <2>1. /\ UNCHANGED <<ck, files, crawl, hub, ppc>>
        /\ UNCHANGED <<staged, exists, batch>> /\ Batched' = Batched
    BY <1>6 DEF vars, remote, publish, Batched
  <2>2. /\ staged \subseteq Shards /\ exists \subseteq Content
        /\ batch \in Seq(Shards) /\ exists \subseteq Paths
    BY DEF HandoffInv, ShardsTyped, HubHasThem
  <2> QED BY <2>1, <2>2, QuietStepKeepsInv
<1> QED BY <1>1, <1>2, <1>3, <1>4, <1>5, <1>6 DEF Next, Crawl, Publish

\* What goes from the directory is on the hub, whatever step takes it.
LEMMA FilesLeavePublished ==
  ASSUME DistinctPrefixes, HandoffInv, [Next]_vars
  PROVE  \A n \in Present : files'[n] # files[n] => files[n] \in Published
<1>1. CASE UNCHANGED files
  BY <1>1
<1>2. CASE Seal
  <2>1. files[<<Prefix[run], shardNo>>] = NoFile
    BY <1>2, NewNameIsFresh DEF Seal
  <2>2. \A m \in Names : m # <<Prefix[run], shardNo>> => files'[m] = files[m]
    BY <1>2 DEF Seal, HandoffInv, ShardsTyped
  <2> QED BY <2>1, <2>2 DEF Present
<1>3. CASE Drop \/ Delete
  BY <1>3, DeletesKeepInv
<1> QED BY <1>1, <1>2, <1>3
        DEF Next, Crawl, Publish, vars, CrawlStart, Capture, CheckpointSave,
            Finish, CrawlDies, PublisherStart, Inspect, AskHub, Add, EndPass,
            Sidecar, Commit, CommitAnswerLost, EndFlush, Watch, PublisherDies

\* The handoff's invariant holds in every reachable state, provided that runs
\* do not share a prefix.
THEOREM HandoffHolds ==
  ASSUME DistinctPrefixes
  PROVE  Spec => []HandoffInv
<1>1. HandoffInv /\ [Next]_vars => HandoffInv'
  BY InvStep
<1> QED BY <1>1, InvInit, PTL DEF Spec

\* With a prefix of its own for every run, a page behind the crawl's checkpoint
\* is in the directory or on the hub, whatever is killed and whenever.
THEOREM PagesAreKept ==
  ASSUME DistinctPrefixes
  PROVE  Spec => []NoPageLost
<1>1. HandoffInv => NoPageLost
  BY DEF HandoffInv
<1> QED BY <1>1, HandoffHolds, PTL

\* Then each path of the repository holds the shard it is named after.
THEOREM PathsHoldTheirShards ==
  ASSUME DistinctPrefixes
  PROVE  Spec => []PathsNameTheirContent
<1>1. HandoffInv => PathsNameTheirContent
  BY DEF HandoffInv
<1> QED BY <1>1, HandoffHolds, PTL

\* And no shard leaves the directory before the hub has it.
THEOREM OnlyPublishedShardsLeave ==
  ASSUME DistinctPrefixes
  PROVE  Spec => NothingLeavesUnpublished
<1> DEFINE Leave == \A n \in Present : files'[n] # files[n] => files[n] \in Published
<1>1. HandoffInv /\ [Next]_vars => [Leave]_files
  BY FilesLeavePublished
<1>2. Spec => [][Leave]_files
  <2> HIDE DEF Leave
  <2> QED BY <1>1, HandoffHolds, PTL DEF Spec
<1> QED BY <1>2 DEF NothingLeavesUnpublished
-----------------------------------------------------------------------------
LEMMA KeptGrows ==
  ASSUME DistinctPrefixes, HandoffInv, [Next]_vars
  PROVE  Kept \subseteq Kept'
<1>1. \A n \in Present : files'[n] # files[n] => files[n] \in Published
  BY FilesLeavePublished
<1>2. Published \subseteq Published'
  <2>1. CASE UNCHANGED hub
    BY <2>1 DEF Published
  <2>2. CASE Commit \/ CommitAnswerLost
    <3>1. HandoffInv' /\ Paths \subseteq Paths'
      BY <2>2, CommitKeepsInv
    <3> QED BY <3>1 DEF HandoffInv, PathsNameTheirContent, Published, Paths
  <2> QED BY <2>1, <2>2
          DEF Next, Crawl, Publish, vars, remote, CrawlStart, Capture, Seal,
              CheckpointSave, Finish, CrawlDies, PublisherStart, Inspect,
              AskHub, Drop, Add, EndPass, Sidecar, Delete, EndFlush, Watch,
              PublisherDies
<1> QED BY <1>1, <1>2, KeptStays

\* Crawl, publisher and hub together implement the low water mark, for rows
\* that are in a shard of the directory or of the hub.
THEOREM HandoffRefinement ==
  ASSUME DistinctPrefixes
  PROVE  Spec => ImplementsLowWaterMark
<1>1. Init => Walk!Init
  <2> SUFFICES ASSUME Init PROVE Walk!Init
    OBVIOUS
  <2>1. Kept = {}
    BY DEF Init, Kept, Published, Present
  <2> QED BY <2>1 DEF Init, Walk!Init
<1>2. HandoffInv /\ HandoffInv' /\ [Next]_vars => [Walk!Next]_Walk!vars
  <2> SUFFICES ASSUME HandoffInv, HandoffInv', [Next]_vars
               PROVE  [Walk!Next]_Walk!vars
    OBVIOUS
  <2>1. CASE UNCHANGED ck
    <3>1. Kept \subseteq Kept'
      BY KeptGrows
    <3>2. Kept' \subseteq Rows
      BY DEF HandoffInv, ShardsTyped, Kept, Published, Present, Content
    <3> QED BY <2>1, <3>1, <3>2 DEF Walk!Next, Walk!Settle, Walk!vars
  <2>2. CASE CheckpointSave \/ Finish
    <3>1. UNCHANGED <<files, hub>> /\ cpc # "down" /\ ~ck.done
      BY <2>2 DEF CheckpointSave, Finish, remote, HandoffInv, RowsKept
    <3>2. Kept' = Kept
      BY <3>1 DEF Kept, Published, Present
    <3>3. ck'.row \in ck.row .. N
      BY <2>2, RecrawlPublishAssumption
         DEF CheckpointSave, Finish, HandoffInv, ShardsTyped, Position
    <3>4. Walk!Covered(ck'.row)
      BY <3>2 DEF HandoffInv, NoPageLost, Walk!Covered
    <3>5. ck'.done \in {d \in BOOLEAN : d => Rows \subseteq Kept}
      BY <3>2 DEF HandoffInv, DoneIsKept, ShardsTyped, Position
    <3> QED BY <3>1, <3>2, <3>3, <3>4, <3>5 DEF Walk!Next, Walk!Advance
  <2> QED BY <2>1, <2>2
          DEF Next, Crawl, Publish, vars, CrawlStart, Capture, Seal, CrawlDies,
              PublisherStart, Inspect, AskHub, Drop, Add, EndPass, Sidecar,
              Commit, CommitAnswerLost, Delete, EndFlush, Watch, PublisherDies
<1> QED BY <1>1, <1>2, HandoffHolds, PTL DEF Spec, Walk!Spec, ImplementsLowWaterMark
-----------------------------------------------------------------------------
(* The ledger *)

\* A shard's rows can be counted.
LEMMA RowsCount ==
  ASSUME NEW c \in Content
  PROVE  IsFiniteSet(c.rows) /\ Cardinality(c.rows) \in Nat
<1>1. IsFiniteSet(Rows)
  BY FS_Interval, RecrawlPublishAssumption DEF Rows
<1>2. c.rows \subseteq Rows
  BY DEF Content
<1> QED BY <1>1, <1>2, FS_Subset, FS_CardinalityType

\* The rows of a batch, as a sum over its positions.
LEMMA BatchCounts ==
  ASSUME NEW b \in Seq(Shards)
  PROVE  /\ IsFiniteSet(DOMAIN b) /\ Cardinality(DOMAIN b) = Len(b)
         /\ \A i \in DOMAIN b : Cardinality(b[i].hash.rows) \in Nat
         /\ RowCount(b) \in Nat
         /\ RowCount(b) = SumFunctionOnSet([i \in DOMAIN b |-> Cardinality(b[i].hash.rows)],
                                           DOMAIN b)
<1> DEFINE f == [i \in DOMAIN b |-> Cardinality(b[i].hash.rows)]
<1>1. Len(b) \in Nat /\ DOMAIN b = 1 .. Len(b)
  OBVIOUS
<1>2. IsFiniteSet(DOMAIN b) /\ Cardinality(DOMAIN b) = Len(b)
  BY <1>1, FS_Interval
<1>3. \A i \in DOMAIN b : b[i].hash \in Content
  <2>1. \A s \in Shards : s.hash \in Content
    BY DEF Shards
  <2> QED BY <2>1
<1>4. \A i \in DOMAIN b : Cardinality(b[i].hash.rows) \in Nat
  BY <1>3, RowsCount
<1>5. RowCount(b) = SumFunctionOnSet(f, DOMAIN b)
  BY DEF RowCount, SumFunction
<1>6. SumFunctionOnSet(f, DOMAIN b) \in Nat
  <2>1. \A i \in DOMAIN b : f[i] \in Nat
    BY <1>4
  <2> HIDE DEF f
  <2> QED BY <2>1, <1>2, SumNat
<1> QED BY <1>2, <1>4, <1>5, <1>6

\* Two files of the directory never have the same content.
LEMMA FilesApart ==
  ASSUME ContentsApart, NEW m \in Present, NEW n \in Present, files[m] = files[n]
  PROVE  m = n
BY DEF ContentsApart

LEMMA LedgerInit == Init => LedgerInv
<1> SUFFICES ASSUME Init PROVE LedgerInv
  OBVIOUS
<1>1. Present = {} /\ Batched = {} /\ staged = {} /\ batch = <<>> /\ cpc = "down"
      /\ ppc = "down" /\ hub = {} /\ ledger = NewStat /\ stat = NewStat
  BY DEF Init, Present, Batched
<1>2. ContentsApart /\ PassApart /\ ShardsWait /\ BatchSized /\ NewToHub /\ RowsAgree
  BY <1>1 DEF ContentsApart, PassApart, ShardsWait, BatchSized, NewToHub, RowsAgree
<1>3. IsFiniteSet(hub) /\ Cardinality(hub) = 0
  BY <1>1, FS_EmptySet
<1>4. SumFunction([e \in hub |-> Cardinality(e.body.rows)]) = 0
  BY <1>1, SumEmpty DEF SumFunction
<1>5. TypeOK
  <2>1. ShardsTyped
    BY InvInit DEF HandoffInv
  <2>2. ledger \in Stats /\ stat \in Stats
    BY <1>1, RecrawlPublishAssumption DEF Stats, NewStat
  <2> QED BY <1>1, <2>1, <2>2, RecrawlPublishAssumption DEF TypeOK, ShardsTyped, Init
<1> QED BY <1>1, <1>2, <1>3, <1>4, <1>5 DEF LedgerInv, LedgerCountsHub, NewStat

\* What the crawl does to the directory keeps its files apart.
LEMMA CrawlKeepsApart ==
  ASSUME DistinctPrefixes, HandoffInv, ContentsApart, Crawl \/ CrawlDies
  PROVE  ContentsApart'
<1> USE RecrawlPublishAssumption
<1>1. /\ run \in 0 .. MaxRuns /\ next \in 0 .. N /\ N \in Nat /\ MaxRuns \in Nat
      /\ open \subseteq Rows /\ (cpc # "down" => run \in Runs)
      /\ files \in [Names -> Content \cup {NoFile}]
  BY DEF HandoffInv, ShardsTyped, NumbersSuffice
<1>2. \A m \in Present : files[m].run \in Runs /\ files[m].rows \subseteq Rows
  BY <1>1 DEF Present, Content
<1>3. CASE CrawlStart
  <2>1. Present' = Present /\ files' = files
    BY <1>3 DEF CrawlStart, Present
  <2> QED BY <1>1, <1>2, <1>3, <2>1 DEF CrawlStart, ContentsApart, Runs
<1>4. CASE Capture
  <2>1. Present' = Present /\ files' = files
    BY <1>4 DEF Capture, Present
  <2>2. \A r \in Rows : r < next => r < next + 1 /\ r # next
    BY <1>1 DEF Rows
  <2>3. cpc = "up" /\ cpc' = cpc /\ run' = run /\ next' = next + 1
        /\ open' = open \cup {next}
    BY <1>4 DEF Capture
  <2>4. \A r \in open' : r < next'
    <3>1. \A r \in open : r < next /\ r \in Rows
      BY <1>1, <2>3 DEF ContentsApart
    <3> QED BY <1>1, <2>2, <2>3, <3>1
  <2> QED BY <1>2, <2>1, <2>2, <2>3, <2>4 DEF ContentsApart
<1>5. CASE Seal
  <2> DEFINE n == <<Prefix[run], shardNo>>
             c == [rows |-> open, run |-> run]
  <2>1. /\ cpc = "up" /\ open # {} /\ cpc' = "save" /\ open' = {}
        /\ files' = [files EXCEPT ![n] = c]
        /\ UNCHANGED <<run, next>>
    BY <1>5 DEF Seal
  <2>2. n \in Names /\ files[n] = NoFile /\ n \notin Present
    BY <2>1, NewNameIsFresh DEF Present
  <2>3. c \in Content /\ c # NoFile
    BY <1>1, <2>1, NoFileAssumption DEF Content
  <2>4. /\ Present' = Present \cup {n} /\ files'[n] = c
        /\ \A m \in Present : files'[m] = files[m]
    <3>1. \A m \in Names : files'[m] = IF m = n THEN c ELSE files[m]
      BY <1>1, <2>1
    <3> QED BY <3>1, <2>2, <2>3 DEF Present
  <2>5. \A m \in Present : files[m].run = run => files[m].rows \cap open = {}
    BY <2>1 DEF ContentsApart
  <2>6. \A m \in Present' :
          /\ files'[m].rows # {} /\ files'[m].run <= run' /\ m[1] = Prefix[files'[m].run]
          /\ cpc' # "down" /\ files'[m].run = run' =>
               \A r \in files'[m].rows : r < next' /\ r \notin open'
    <3> TAKE m \in Present'
    <3>1. CASE m = n
      <4>1. c.rows = open /\ c.run = run /\ n[1] = Prefix[run]
        OBVIOUS
      <4>2. \A r \in open : r < next
        BY <2>1 DEF ContentsApart
      <4> HIDE DEF n, c
      <4> QED BY <3>1, <4>1, <4>2, <2>1, <2>4, <1>1
    <3>2. CASE m \in Present
      <4> HIDE DEF n, c
      <4> QED BY <3>2, <2>1, <2>4 DEF ContentsApart
    <3> QED BY <3>1, <3>2, <2>4
  <2>7. \A k, m \in Present' :
          k # m /\ files'[k].run = files'[m].run => files'[k].rows \cap files'[m].rows = {}
    <3> TAKE k, m \in Present'
    <3>0. c.rows = open /\ c.run = run
      OBVIOUS
    <3> HIDE DEF n, c
    <3>1. CASE k \in Present /\ m \in Present
      BY <3>1, <2>4 DEF ContentsApart
    <3>2. CASE k = n /\ m \in Present
      BY <3>0, <3>2, <2>4, <2>5
    <3>3. CASE m = n /\ k \in Present
      BY <3>0, <3>3, <2>4, <2>5
    <3> QED BY <3>1, <3>2, <3>3, <2>4
  <2> QED BY <2>1, <2>6, <2>7 DEF ContentsApart
<1>6. CASE CheckpointSave \/ Finish \/ CrawlDies
  <2>1. Present' = Present /\ UNCHANGED <<files, run, next>>
        /\ (cpc' # "down" => cpc # "down" /\ open' = open)
    BY <1>6 DEF CheckpointSave, Finish, CrawlDies, Present
  <2> QED BY <2>1 DEF ContentsApart
<1> QED BY <1>3, <1>4, <1>5, <1>6 DEF Crawl

\* The crawl's steps leave a pass as it is: the name it seals under is not in it.
LEMMA CrawlKeepsLedger ==
  ASSUME DistinctPrefixes, HandoffInv, LedgerInv, Crawl \/ CrawlDies
  PROVE  LedgerInv'
<1>1. UNCHANGED <<hub, ledger, ppc, stat, staged, exists, batch, moved, troubles>>
      /\ Batched' = Batched /\ Paths' = Paths
  BY DEF Crawl, CrawlStart, Capture, Seal, CheckpointSave, Finish, CrawlDies, remote,
         publish, Batched, Paths
<1>2. ContentsApart'
  BY CrawlKeepsApart DEF LedgerInv
<1>3. \A s \in staged \cup Batched : files[s.name] = s.hash => files'[s.name] = files[s.name]
  <2> SUFFICES ASSUME NEW s \in staged \cup Batched, files[s.name] = s.hash
               PROVE  files'[s.name] = files[s.name]
    OBVIOUS
  <2>1. CASE Seal
    <3>1. /\ <<Prefix[run], shardNo>> \in Names \ UsedNames
          /\ s.name \in UsedNames /\ UsedNames \subseteq Names
      BY <2>1, NewNameIsFresh DEF Seal, HandoffInv, NamesFresh, UsedNames
    <3> QED BY <2>1, <3>1 DEF Seal, HandoffInv, ShardsTyped
  <2> QED BY <2>1 DEF Crawl, CrawlStart, Capture, CheckpointSave, Finish, CrawlDies
<1>4. PassApart' /\ ShardsWait' /\ BatchSized' /\ NewToHub'
  BY <1>1, <1>3 DEF LedgerInv, PassApart, ShardsWait, BatchSized, NewToHub
<1>5. RowsAgree' /\ IsFiniteSet(hub)'
  BY <1>1 DEF LedgerInv, RowsAgree, RowCount
<1>6. ShardsTyped'
  BY InvStep DEF HandoffInv, Next
<1>7. TypeOK'
  BY <1>1, <1>6 DEF LedgerInv, LedgerCountsHub, TypeOK, ShardsTyped
<1>8. LedgerCountsHub'
  BY <1>1, <1>7 DEF LedgerInv, LedgerCountsHub
<1> QED BY <1>2, <1>4, <1>5, <1>8 DEF LedgerInv

\* The parts of the invariant that a step leaves alone when it touches neither the
\* directory nor the hub.
LEMMA QuietKeepsLedger ==
  ASSUME HandoffInv, LedgerInv, HandoffInv',
         UNCHANGED <<files, crawl, hub, ledger>>,
         stat' \in Stats, batch' \in Seq(Shards) => Len(batch') <= CommitEvery,
         ppc' \in {"down", "pass", "ask", "sort", "flush", "commit", "delete",
                   "watch", "stopped"},
         moved' \in Nat, troubles' \in 0 .. MaxTroubles,
         PassApart', ShardsWait', BatchSized', NewToHub', RowsAgree'
  PROVE  LedgerInv'
<1>1. ContentsApart'
  <2>1. Present' = Present
    BY DEF Present
  <2> QED BY <2>1 DEF LedgerInv, ContentsApart, crawl
<1>2. TypeOK'
  BY DEF HandoffInv, ShardsTyped, LedgerInv, LedgerCountsHub, TypeOK
<1>3. LedgerCountsHub'
  BY <1>2 DEF LedgerInv, LedgerCountsHub
<1> QED BY <1>1, <1>3 DEF LedgerInv

LEMMA QuietStepsKeepLedger ==
  ASSUME HandoffInv, LedgerInv, HandoffInv',
         \/ PublisherStart \/ Inspect \/ AskHub \/ Add \/ EndPass \/ Sidecar
         \/ EndFlush \/ Watch \/ PublisherDies
  PROVE  LedgerInv'
<1> USE RecrawlPublishAssumption
<1>1. /\ batch \in Seq(Shards) /\ Len(batch) \in Nat /\ Len(batch) <= CommitEvery
      /\ staged \subseteq Shards /\ stat \in Stats /\ ledger \in Stats
      /\ moved \in Nat /\ troubles \in 0 .. MaxTroubles /\ CommitEvery \in Nat \ {0}
      /\ Batched \subseteq Shards /\ ck \in Position
  BY DEF HandoffInv, ShardsTyped, LedgerInv, LedgerCountsHub, TypeOK, Batched
<1>2. PassApart /\ ShardsWait /\ BatchSized /\ NewToHub /\ RowsAgree /\ ContentsApart
  BY DEF LedgerInv
<1>3. CASE PublisherStart
  <2>1. /\ ppc' = "pass" /\ stat' = ledger /\ staged' = {} /\ batch' = <<>> /\ moved' = 0
        /\ UNCHANGED <<files, crawl, hub, ledger, troubles>>
    BY <1>3 DEF PublisherStart, remote
  <2>2. Batched' = {} /\ Len(batch') = 0
    BY <2>1 DEF Batched
  <2>3. PassApart' /\ ShardsWait' /\ BatchSized' /\ NewToHub' /\ RowsAgree'
    BY <2>1, <2>2 DEF PassApart, ShardsWait, BatchSized, NewToHub, RowsAgree
  <2> QED BY <1>1, <2>1, <2>2, <2>3, QuietKeepsLedger
<1>4. CASE Inspect
  <2>1. /\ staged' = {[name |-> n, hash |-> files[n]] : n \in Present}
        /\ ppc = "pass" /\ ppc' \in {"watch", "ask"} /\ moved' = 0
        /\ UNCHANGED <<files, crawl, hub, ledger, stat, batch, troubles>>
    BY <1>4 DEF Inspect, remote
  <2>2. batch = <<>> /\ Batched = {} /\ Batched' = {}
    BY <1>2, <2>1 DEF BatchSized, Batched
  <2>3. PassApart'
    <3>1. ASSUME NEW s \in staged', NEW t \in staged', s.name = t.name \/ s.hash = t.hash
          PROVE  s = t
      <4>1. PICK m, n \in Present : /\ s = [name |-> m, hash |-> files[m]]
                                    /\ t = [name |-> n, hash |-> files[n]]
        BY <2>1
      <4>2. m = n
        BY <1>2, <3>1, <4>1, FilesApart
      <4> QED BY <4>1, <4>2
    <3> QED BY <3>1, <2>1, <2>2 DEF PassApart
  <2>4. ShardsWait' /\ BatchSized' /\ NewToHub' /\ RowsAgree'
    BY <1>2, <2>1, <2>2 DEF ShardsWait, BatchSized, NewToHub, RowsAgree
  <2> QED BY <1>1, <2>1, <2>3, <2>4, QuietKeepsLedger
<1>5. CASE AskHub
  <2>1. /\ exists' = {s.hash : s \in staged} \cap Paths /\ ppc = "ask" /\ ppc' = "sort"
        /\ UNCHANGED <<files, crawl, hub, ledger, stat, staged, batch, moved, troubles>>
    BY <1>5 DEF AskHub, remote
  <2>2. batch = <<>> /\ Len(batch) = 0 /\ Batched = {} /\ Batched' = {} /\ Paths' = Paths
    BY <1>2, <2>1 DEF BatchSized, Batched, Paths
  <2>3. PassApart' /\ ShardsWait' /\ BatchSized' /\ NewToHub' /\ RowsAgree'
    BY <1>1, <1>2, <2>1, <2>2 DEF PassApart, ShardsWait, BatchSized, NewToHub, RowsAgree
  <2> QED BY <1>1, <2>1, <2>3, QuietKeepsLedger
<1>6. CASE Add
  <2>1. PICK s \in staged : /\ s.hash \notin exists
                            /\ batch' = Append(batch, s) /\ staged' = staged \ {s}
    BY <1>6 DEF Add
  <2>2. /\ ppc = "sort" /\ moved' = moved + 1
        /\ ppc' = IF Len(batch') >= CommitEvery THEN "flush" ELSE "sort"
        /\ UNCHANGED <<files, crawl, hub, ledger, stat, exists, troubles>>
    BY <1>6 DEF Add, remote
  <2>3. /\ Len(batch') = Len(batch) + 1 /\ Batched' = Batched \cup {s}
        /\ DOMAIN batch' = DOMAIN batch \cup {Len(batch) + 1}
        /\ batch'[Len(batch) + 1] = s
        /\ \A i \in DOMAIN batch : batch'[i] = batch[i] /\ i # Len(batch) + 1
    <3>1. s \in Shards /\ batch' = Append(batch, s)
      BY <1>1, <2>1
    <3>2. /\ Len(batch') = Len(batch) + 1 /\ batch'[Len(batch) + 1] = s
          /\ DOMAIN batch' = DOMAIN batch \cup {Len(batch) + 1}
          /\ \A i \in DOMAIN batch : batch'[i] = batch[i] /\ i # Len(batch) + 1
      BY <1>1, <3>1
    <3>3. Batched' = Batched \cup {s}
      BY <3>2 DEF Batched
    <3> QED BY <3>2, <3>3
  <2>4. Paths' = Paths /\ s.hash \notin Paths /\ Len(batch) < CommitEvery
    BY <1>2, <2>1, <2>2 DEF NewToHub, Paths, BatchSized
  <2>5. PassApart'
    <3>1. (staged \cup Batched)' = staged \cup Batched
      BY <2>1, <2>3
    <3>2. s \notin Batched /\ \A i \in DOMAIN batch : batch[i] # s
      BY <1>2 DEF PassApart, Batched
    <3>3. \A i, j \in DOMAIN batch' : batch'[i] = batch'[j] => i = j
      BY <1>2, <2>3, <3>2 DEF PassApart
    <3>4. staged' \cap Batched' = {}
      BY <1>2, <2>1, <2>3 DEF PassApart
    <3> QED BY <1>2, <3>1, <3>3, <3>4 DEF PassApart
  <2>6. ShardsWait' /\ BatchSized' /\ NewToHub'
    BY <1>1, <1>2, <2>1, <2>2, <2>3, <2>4 DEF ShardsWait, BatchSized, NewToHub
  <2>7. RowsAgree'
    BY <1>2, <2>2 DEF RowsAgree
  <2> QED BY <1>1, <2>1, <2>2, <2>3, <2>4, <2>5, <2>6, <2>7, QuietKeepsLedger
<1>7. CASE EndPass
  <2>1. /\ ppc = "sort" /\ staged = {} /\ ppc' = IF batch = <<>> THEN "watch" ELSE "flush"
        /\ UNCHANGED <<files, crawl, hub, ledger, stat, staged, exists, batch, moved, troubles>>
    BY <1>7 DEF EndPass, remote
  <2>2. Batched' = Batched /\ Paths' = Paths
    BY <2>1 DEF Batched, Paths
  <2>3. PassApart' /\ ShardsWait' /\ BatchSized' /\ NewToHub' /\ RowsAgree'
    BY <1>2, <2>1, <2>2 DEF PassApart, ShardsWait, BatchSized, NewToHub, RowsAgree
  <2> QED BY <1>1, <2>1, <2>3, QuietKeepsLedger
<1>8. CASE Sidecar
  <2>1. /\ ppc = "flush" /\ ppc' = "commit"
        /\ stat' = [files |-> stat.files + Len(batch),
                    rows  |-> stat.rows + RowCount(batch),
                    row   |-> ck.row, done |-> ck.done]
        /\ UNCHANGED <<files, crawl, hub, ledger, staged, exists, batch, moved, troubles>>
    BY <1>8 DEF Sidecar, remote
  <2>2. Batched' = Batched /\ Paths' = Paths /\ RowCount(batch') = RowCount(batch)
    BY <2>1 DEF Batched, Paths
  <2>3. stat' \in Stats
    <3>1. RowCount(batch) \in Nat
      BY <1>1, BatchCounts
    <3> QED BY <1>1, <2>1, <3>1 DEF Stats, Position
  <2>4. PassApart' /\ ShardsWait' /\ BatchSized' /\ NewToHub'
    BY <1>2, <2>1, <2>2 DEF PassApart, ShardsWait, BatchSized, NewToHub
  <2>5. RowsAgree'
    <3>1. \A s \in Batched' : s.hash \notin Paths'
      BY <1>2, <2>1, <2>2 DEF NewToHub
    <3>2. stat.files = ledger.files /\ stat.rows = ledger.rows
      BY <1>2, <2>1 DEF RowsAgree
    <3>3. /\ stat'.files = ledger'.files + Len(batch')
          /\ stat'.rows = ledger'.rows + RowCount(batch')
      BY <2>1, <2>2, <3>2
    <3> QED BY <2>1, <3>1, <3>3 DEF RowsAgree
  <2> QED BY <1>1, <2>1, <2>3, <2>4, <2>5, QuietKeepsLedger
<1>9. CASE EndFlush
  <2>1. /\ ppc = "delete" /\ batch = <<>> /\ ppc' = "sort"
        /\ UNCHANGED <<files, crawl, hub, ledger, stat, staged, exists, batch, moved, troubles>>
    BY <1>9 DEF EndFlush, remote
  <2>2. Batched = {} /\ Batched' = {} /\ Paths' = Paths /\ Len(batch') = 0
    BY <2>1 DEF Batched, Paths
  <2>3. PassApart' /\ ShardsWait' /\ BatchSized' /\ NewToHub' /\ RowsAgree'
    BY <1>1, <1>2, <2>1, <2>2 DEF PassApart, ShardsWait, BatchSized, NewToHub, RowsAgree
  <2> QED BY <1>1, <2>1, <2>3, QuietKeepsLedger
<1>10. CASE Watch
  <2>1. /\ ppc = "watch" /\ ppc' \in {"stopped", "pass"}
        /\ UNCHANGED <<files, crawl, hub, ledger, stat, staged, exists, batch, moved, troubles>>
    BY <1>10 DEF Watch, remote
  <2>2. Batched' = Batched /\ Paths' = Paths
    BY <2>1 DEF Batched, Paths
  <2>3. PassApart' /\ ShardsWait' /\ BatchSized' /\ NewToHub' /\ RowsAgree'
    BY <1>2, <2>1, <2>2 DEF PassApart, ShardsWait, BatchSized, NewToHub, RowsAgree
  <2> QED BY <1>1, <2>1, <2>3, QuietKeepsLedger
<1>11. CASE PublisherDies
  <2>1. /\ ppc' = "down" /\ troubles < MaxTroubles /\ troubles' = troubles + 1
        /\ UNCHANGED <<files, crawl, hub, ledger, stat, staged, exists, batch, moved>>
    BY <1>11 DEF PublisherDies, remote
  <2>2. Batched' = Batched
    BY <2>1 DEF Batched
  <2>3. PassApart' /\ ShardsWait' /\ BatchSized' /\ NewToHub' /\ RowsAgree'
    BY <1>2, <2>1, <2>2 DEF PassApart, ShardsWait, BatchSized, NewToHub, RowsAgree
  <2> QED BY <1>1, <2>1, <2>3, QuietKeepsLedger
<1> QED BY <1>3, <1>4, <1>5, <1>6, <1>7, <1>8, <1>9, <1>10, <1>11

\* A file goes when its shard's turn has come: no shard that waits has its name.
LEMMA DeletesKeepLedger ==
  ASSUME HandoffInv, LedgerInv, HandoffInv', Drop \/ Delete
  PROVE  LedgerInv'
<1>1. /\ batch \in Seq(Shards) /\ Len(batch) \in Nat
      /\ files \in [Names -> Content \cup {NoFile}]
  BY DEF HandoffInv, ShardsTyped
<1>2. PassApart /\ ShardsWait /\ BatchSized /\ NewToHub /\ RowsAgree /\ ContentsApart
  BY DEF LedgerInv
<1>3. PICK s \in staged \cup Batched :
        /\ Removed(s.name) /\ s \notin (staged \cup Batched)'
        /\ staged' \subseteq staged /\ Batched' \subseteq Batched
        /\ ppc = "delete" \/ s \in staged
        /\ batch' \in Seq(Shards) /\ Len(batch') <= Len(batch)
        /\ ppc = "sort" => batch' = batch
        /\ \A i, j \in DOMAIN batch' : batch'[i] = batch'[j] => i = j
  <2>1. CASE Drop
    <3>1. PICK s \in staged : Removed(s.name) /\ staged' = staged \ {s}
      BY <2>1 DEF Drop
    <3>2. batch' = batch /\ Batched' = Batched
      BY <2>1 DEF Drop, Batched
    <3> QED BY <1>1, <1>2, <3>1, <3>2 DEF PassApart
  <2>2. CASE Delete
    <3>1. /\ ppc = "delete" /\ batch # <<>> /\ Removed(Head(batch).name)
          /\ batch' = Tail(batch) /\ staged' = staged
      BY <2>2 DEF Delete
    <3>2. Head(batch) = batch[1] /\ 1 \in DOMAIN batch
      BY <1>1, <3>1
    <3>3. \A i \in DOMAIN Tail(batch) :
            i + 1 \in DOMAIN batch /\ Tail(batch)[i] = batch[i + 1] /\ i + 1 # 1
      BY <1>1, <3>1
    <3>4. Tail(batch) \in Seq(Shards) /\ Len(Tail(batch)) <= Len(batch)
      BY <1>1, <3>1
    <3>5. Head(batch) \in Batched /\ Batched' \subseteq Batched
      BY <3>1, <3>2, <3>3 DEF Batched
    <3>6. Head(batch) \notin Batched' /\ Head(batch) \notin staged
      BY <1>2, <3>1, <3>2, <3>3, <3>5 DEF Batched, PassApart
    <3>7. \A i, j \in DOMAIN batch' : batch'[i] = batch'[j] => i = j
      <4> TAKE i, j \in DOMAIN batch'
      <4> HAVE batch'[i] = batch'[j]
      <4>1. i + 1 = j + 1
        BY <1>2, <3>1, <3>3 DEF PassApart
      <4>2. i \in Nat /\ j \in Nat
        BY <3>1, <3>4
      <4> QED BY <4>1, <4>2
    <3> QED BY <3>1, <3>4, <3>5, <3>6, <3>7
  <2> QED BY <2>1, <2>2
<1>4. UNCHANGED <<crawl, hub, ledger, ppc, stat, exists, moved, troubles>>
      /\ ppc \in {"sort", "delete"}
  BY DEF Drop, Delete, remote
<1>5. \A n \in Names : files'[n] = files[n] \/ (n = s.name /\ files'[n] = NoFile)
  BY <1>1, <1>3 DEF Removed
<1>6. ContentsApart'
  <2>1. \A n \in Present' : n \in Present /\ files'[n] = files[n]
    BY <1>5 DEF Present
  <2> QED BY <1>2, <1>4, <2>1 DEF ContentsApart, crawl
<1>7. PassApart'
  BY <1>2, <1>3 DEF PassApart
<1>8. ShardsWait'
  <2>1. \A t \in (staged \cup Batched)' : t.name # s.name
    BY <1>2, <1>3 DEF PassApart
  <2>2. \A t \in staged \cup Batched : t.name \in Names
    BY DEF HandoffInv, NamesFresh, UsedNames
  <2>3. CASE ppc = "delete"
    BY <1>2, <1>3, <1>4, <1>5, <2>1, <2>2, <2>3 DEF ShardsWait
  <2>4. CASE ppc = "sort"
    BY <1>2, <1>3, <1>4, <1>5, <2>1, <2>2, <2>4 DEF ShardsWait
  <2> QED BY <1>4, <2>3, <2>4
<1>9. Paths' = Paths
  BY <1>4 DEF Paths
<1>10. BatchSized' /\ NewToHub'
  BY <1>2, <1>3, <1>4, <1>9 DEF BatchSized, NewToHub
<1>11. RowsAgree'
  BY <1>2, <1>4 DEF RowsAgree
<1>12. TypeOK'
  <2>1. Len(batch) <= CommitEvery /\ Len(batch') \in Nat /\ CommitEvery \in Nat
    BY <1>3, RecrawlPublishAssumption DEF LedgerInv, LedgerCountsHub, TypeOK
  <2>2. Len(batch') <= CommitEvery
    BY <1>1, <1>3, <2>1
  <2> QED BY <1>4, <2>2 DEF HandoffInv, ShardsTyped, LedgerInv, LedgerCountsHub, TypeOK
<1>13. LedgerCountsHub'
  BY <1>4, <1>12 DEF LedgerInv, LedgerCountsHub
<1> QED BY <1>4, <1>6, <1>7, <1>8, <1>10, <1>11, <1>13 DEF LedgerInv

\* A commit that is new to the hub adds a commit per shard, and the rows of each once.
LEMMA NewCommitCounts ==
  ASSUME HandoffInv, LedgerInv, ppc = "commit", Landed,
         \A s \in Batched : s.hash \notin Paths
  PROVE  /\ hub' = hub \cup {[path |-> s.hash, body |-> s.hash] : s \in Batched}
         /\ IsFiniteSet(hub') /\ Cardinality(hub') = Cardinality(hub) + Len(batch)
         /\ SumFunction([e \in hub' |-> Cardinality(e.body.rows)])
              = SumFunction([e \in hub |-> Cardinality(e.body.rows)]) + RowCount(batch)
<1> DEFINE New == {[path |-> s.hash, body |-> s.hash] : s \in Batched}
           count(e) == Cardinality(e.body.rows)
           f == [i \in DOMAIN batch |-> Cardinality(batch[i].hash.rows)]
           g == [e \in hub |-> count(e)]
           g2 == [e \in hub \cup New |-> count(e)]
           h == [i \in DOMAIN batch |-> [path |-> batch[i].hash, body |-> batch[i].hash]]
<1>1. /\ batch \in Seq(Shards) /\ Batched \subseteq Shards /\ Range(batch) = Batched
      /\ hub \subseteq [path : Content, body : Content] /\ IsFiniteSet(hub)
      /\ \A s \in Batched : files[s.name] = s.hash
      /\ \A s, t \in Batched : s.hash = t.hash => s = t
      /\ \A i, j \in DOMAIN batch : batch[i] = batch[j] => i = j
  BY DEF HandoffInv, ShardsTyped, LedgerInv, ShardsWait, PassApart, Batched, Range
<1>2. \A s \in Batched : s.hash \in Content /\ s.hash # NoFile
  BY <1>1, NoFileAssumption DEF Shards
<1>3. hub' = hub \cup New
  <2>1. {s \in Range(batch) : files[s.name] # NoFile} = Batched
    BY <1>1, <1>2
  <2>2. hub' = {e \in hub : \A s \in Batched : e.path # s.hash}
               \cup {[path |-> s.hash, body |-> files[s.name]] : s \in Batched}
    BY <2>1 DEF Landed
  <2>3. {e \in hub : \A s \in Batched : e.path # s.hash} = hub
    BY DEF Paths
  <2>4. {[path |-> s.hash, body |-> files[s.name]] : s \in Batched} = New
    BY <1>1
  <2> QED BY <2>2, <2>3, <2>4
<1>4. hub \cap New = {}
  <2>1. \A e \in New : \E s \in Batched : e.path = s.hash
    OBVIOUS
  <2> HIDE DEF New
  <2> QED BY <2>1 DEF Paths
<1>5. h \in Bijection(DOMAIN batch, New)
  <2>1. h \in [DOMAIN batch -> New] /\ \A i \in DOMAIN batch : h[i].path = batch[i].hash
    BY DEF Batched
  <2>2. \A e \in New : \E i \in DOMAIN batch : h[i] = e
    BY DEF Batched
  <2>3. ASSUME NEW i \in DOMAIN batch, NEW j \in DOMAIN batch, h[i] = h[j] PROVE i = j
    <3>1. batch[i].hash = batch[j].hash
      BY <2>1, <2>3
    <3>2. batch[i] \in Batched /\ batch[j] \in Batched
      BY DEF Batched
    <3> QED BY <1>1, <3>1, <3>2
  <2> HIDE DEF h, New
  <2> QED BY <2>1, <2>2, <2>3 DEF Bijection, Injection, Surjection, IsInjective
<1>6. IsFiniteSet(New) /\ Cardinality(New) = Len(batch)
  <2> HIDE DEF h, New
  <2>1. IsFiniteSet(DOMAIN batch) /\ Cardinality(DOMAIN batch) = Len(batch)
    BY <1>1, BatchCounts
  <2>2. ExistsBijection(DOMAIN batch, New)
    BY <1>5 DEF ExistsBijection
  <2> QED BY <1>5, <2>1, <2>2, FS_Bijection
<1>7. IsFiniteSet(hub') /\ Cardinality(hub') = Cardinality(hub) + Len(batch)
  <2> HIDE DEF New
  <2>1. /\ IsFiniteSet(hub \cup New)
        /\ Cardinality(hub \cup New)
             = Cardinality(hub) + Cardinality(New) - Cardinality(hub \cap New)
    BY <1>1, <1>6, FS_Union
  <2>2. Cardinality(hub \cap New) = 0 /\ Cardinality(hub) \in Nat /\ Len(batch) \in Nat
    <3>1. Cardinality(hub) \in Nat /\ Len(batch) \in Nat
      BY <1>1, FS_CardinalityType
    <3>2. Cardinality({}) = 0
      BY FS_EmptySet
    <3> QED BY <1>4, <3>1, <3>2, Zenon
  <2> QED BY <1>3, <1>6, <2>1, <2>2
<1>8. \A e \in hub \cup New : count(e) \in Int
  <2>1. \A e \in hub \cup New : e.body \in Content
    BY <1>1, <1>2
  <2> HIDE DEF New
  <2> QED BY <2>1, RowsCount
<1>9. SumFunctionOnSet(g2, hub \cup New)
        = SumFunctionOnSet(g2, hub) + SumFunctionOnSet(g2, New)
  <2>1. \A e \in hub \cup New : g2[e] \in Int
    BY <1>8
  <2> HIDE DEF g2, New
  <2> QED BY <1>1, <1>4, <1>6, <2>1, SumUnion
<1>10. SumFunctionOnSet(g2, hub) = SumFunctionOnSet(g, hub)
  <2>1. \A e \in hub : g[e] \in Int /\ g2[e] = g[e]
    BY <1>8
  <2> HIDE DEF g, g2
  <2> QED BY <1>1, <2>1, SumSame
<1>11. SumFunctionOnSet(g2, New) = SumFunctionOnSet(f, DOMAIN batch)
  <2>1. \A i \in DOMAIN batch : f[i] \in Int /\ g2[h[i]] = f[i]
    <3> TAKE i \in DOMAIN batch
    <3>1. h[i] \in New
      BY DEF Batched
    <3>2. g2[h[i]] = count(h[i])
      BY <3>1
    <3>3. f[i] = count(h[i])
      OBVIOUS
    <3> HIDE DEF f, g2, h, New, count
    <3> QED BY <1>8, <3>1, <3>2, <3>3
  <2>2. IsFiniteSet(DOMAIN batch)
    BY <1>1, BatchCounts
  <2> HIDE DEF f, g2, h, New
  <2> QED BY <1>5, <2>1, <2>2, SumImage
<1>12. RowCount(batch) = SumFunctionOnSet(f, DOMAIN batch)
  BY <1>1, BatchCounts
<1>13. /\ SumFunction([e \in hub' |-> count(e)]) = SumFunctionOnSet(g2, hub \cup New)
       /\ SumFunction([e \in hub |-> count(e)]) = SumFunctionOnSet(g, hub)
  BY <1>3 DEF SumFunction
<1> HIDE DEF f, g, g2, h
<1> QED BY <1>3, <1>7, <1>9, <1>10, <1>11, <1>12, <1>13

\* The commit that lands takes the ledger to what its row says, the first time and
\* each time it is sent again.
LEMMA CommitKeepsLedger ==
  ASSUME HandoffInv, LedgerInv, HandoffInv', Commit \/ CommitAnswerLost
  PROVE  LedgerInv'
<1>1. /\ ppc = "commit" /\ ppc' \in {"commit", "delete"} /\ Landed
      /\ UNCHANGED <<files, crawl, stat, staged, exists, batch, moved>>
      /\ troubles' \in 0 .. MaxTroubles
  BY RecrawlPublishAssumption
     DEF Commit, CommitAnswerLost, LedgerInv, LedgerCountsHub, TypeOK
<1>2. PassApart /\ ShardsWait /\ BatchSized /\ NewToHub /\ RowsAgree /\ ContentsApart
  BY DEF LedgerInv
<1>3. Batched' = Batched /\ Present' = Present /\ ledger' = stat
  BY <1>1 DEF Batched, Present, Landed
<1>4. /\ batch \in Seq(Shards) /\ Range(batch) = Batched /\ Batched \subseteq Shards
      /\ \A s \in Batched : files[s.name] = s.hash
  BY <1>1, <1>2 DEF HandoffInv, ShardsTyped, Batched, Range, ShardsWait
<1>5. /\ \A s \in Batched : [path |-> s.hash, body |-> s.hash] \in hub'
      /\ hub' \subseteq hub \cup {[path |-> s.hash, body |-> s.hash] : s \in Batched}
      /\ IsFiniteSet(hub') /\ ledger'.files = Cardinality(hub')
      /\ ledger'.rows = SumFunction([e \in hub' |-> Cardinality(e.body.rows)])
  <2>1. CASE /\ stat.files = ledger.files /\ stat.rows = ledger.rows
             /\ \A s \in Batched : [path |-> s.hash, body |-> s.hash] \in hub
    <3>1. hub' = hub
      <4> DEFINE there == {s \in Batched : files[s.name] # NoFile}
                 New == {[path |-> s.hash, body |-> s.hash] : s \in there}
                 Old == {e \in hub : \A s \in there : e.path # s.hash}
      <4>1. hub' = Old \cup {[path |-> s.hash, body |-> files[s.name]] : s \in there}
        BY <1>1, <1>4 DEF Landed
      <4>2. {[path |-> s.hash, body |-> files[s.name]] : s \in there} = New
        BY <1>4
      <4>3. New \subseteq hub
        BY <2>1
      <4>4. ASSUME NEW e \in hub, e \notin Old PROVE e \in New
        <5>1. PICK s \in there : e.path = s.hash
          BY <4>4
        <5>2. e.body = e.path /\ e \in [path : Content, body : Content]
          BY DEF HandoffInv, PathsNameTheirContent, ShardsTyped
        <5>3. e = [path |-> s.hash, body |-> s.hash]
          BY <5>1, <5>2
        <5> QED BY <5>1, <5>3
      <4> HIDE DEF New
      <4> QED BY <4>1, <4>2, <4>3, <4>4
    <3> QED BY <1>3, <2>1, <3>1 DEF LedgerInv, LedgerCountsHub
  <2>2. CASE /\ stat.files = ledger.files + Len(batch)
             /\ stat.rows = ledger.rows + RowCount(batch)
             /\ \A s \in Batched : s.hash \notin Paths
    BY <1>1, <1>3, <2>2, NewCommitCounts DEF LedgerInv, LedgerCountsHub
  <2> QED BY <1>1, <1>2, <2>1, <2>2 DEF RowsAgree
<1>6. ContentsApart' /\ PassApart' /\ ShardsWait' /\ BatchSized'
  <2>1. ContentsApart'
    BY <1>1, <1>2, <1>3 DEF ContentsApart, crawl
  <2>2. PassApart' /\ ShardsWait' /\ BatchSized'
    BY <1>1, <1>2, <1>3 DEF PassApart, ShardsWait, BatchSized
  <2> QED BY <2>1, <2>2
<1>7. NewToHub'
  <2>1. ASSUME NEW s \in staged, s.hash \notin exists PROVE s.hash \notin Paths'
    <3>1. s.hash \notin Paths
      BY <1>1, <1>2, <2>1 DEF NewToHub
    <3>2. \A t \in Batched : t.hash # s.hash
      BY <1>2 DEF PassApart
    <3>3. ASSUME NEW e \in hub' PROVE e.path # s.hash
      <4>1. e \in hub \/ \E t \in Batched : e = [path |-> t.hash, body |-> t.hash]
        BY <1>5
      <4> QED BY <3>1, <3>2, <4>1 DEF Paths
    <3> QED BY <3>3 DEF Paths
  <2> QED BY <1>1, <2>1 DEF NewToHub
<1>8. RowsAgree'
  BY <1>1, <1>3, <1>5 DEF RowsAgree
<1>9. TypeOK'
  BY <1>1, <1>3 DEF HandoffInv, ShardsTyped, LedgerInv, LedgerCountsHub, TypeOK
<1> QED BY <1>5, <1>6, <1>7, <1>8, <1>9 DEF LedgerInv, LedgerCountsHub

\* The ledger's invariant is inductive, next to the handoff's.
LEMMA LedgerStep ==
  ASSUME DistinctPrefixes, HandoffInv, LedgerInv, [Next]_vars
  PROVE  LedgerInv'
<1>1. HandoffInv'
  BY InvStep
<1>2. CASE Crawl \/ CrawlDies
  BY <1>2, CrawlKeepsLedger
<1>3. CASE \/ PublisherStart \/ Inspect \/ AskHub \/ Add \/ EndPass \/ Sidecar
           \/ EndFlush \/ Watch \/ PublisherDies
  BY <1>1, <1>3, QuietStepsKeepLedger
<1>4. CASE Commit \/ CommitAnswerLost
  BY <1>1, <1>4, CommitKeepsLedger
<1>5. CASE Drop \/ Delete
  BY <1>1, <1>5, DeletesKeepLedger
<1>6. CASE UNCHANGED vars
  <2>1. UNCHANGED <<files, crawl, hub, ledger, ppc, stat, staged, exists, batch, moved,
                    troubles>>
    BY <1>6 DEF vars, remote, publish
  <2>2. Batched' = Batched /\ Paths' = Paths
    BY <2>1 DEF Batched, Paths
  <2>3. PassApart' /\ ShardsWait' /\ BatchSized' /\ NewToHub' /\ RowsAgree'
    BY <2>1, <2>2 DEF LedgerInv, PassApart, ShardsWait, BatchSized, NewToHub, RowsAgree,
       RowCount
  <2> QED BY <1>1, <2>1, <2>3, QuietKeepsLedger DEF LedgerInv, LedgerCountsHub, TypeOK
<1> QED BY <1>2, <1>3, <1>4, <1>5, <1>6 DEF Next, Publish

\* With a prefix of its own for every run, the ledger on the hub counts exactly the shards
\* that are there and the rows in them, whatever is killed between a commit and its
\* bookkeeping and however often a commit is sent: a shard is counted once.
THEOREM LedgerCounts ==
  ASSUME DistinctPrefixes
  PROVE  Spec => []LedgerCountsHub
<1>1. Init => HandoffInv /\ LedgerInv
  BY InvInit, LedgerInit
<1>2. HandoffInv /\ LedgerInv /\ [Next]_vars => (HandoffInv /\ LedgerInv)'
  BY InvStep, LedgerStep
<1>3. LedgerInv => LedgerCountsHub
  BY DEF LedgerInv
<1> QED BY <1>1, <1>2, <1>3, PTL DEF Spec
=============================================================================
