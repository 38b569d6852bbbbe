-------------------------- MODULE FetchingProofs --------------------------
(***************************************************************************)
(* Proofs about making shards: which of them an export or a refetch makes  *)
(* and accounts for, and what goes into one.                               *)
(***************************************************************************)
EXTENDS PackRun, ShardPack, SumProofs

-----------------------------------------------------------------------------
(* A run over the shards: for any number of shards, packers and runs, and     *)
(* failures, cancels and kills anywhere, no shard is passed over that is not  *)
(* done, and a run that ends by itself accounts for all of them               *)
(* (NoShardPassedOver).                                                       *)
Asked == Cardinality(Shards)
Places == {"take", "open", "read", "keep", "pack", "send", "gone"}
Hands == [at : Places, shard : Int]

LEMMA Sizes ==
  /\ Asked \in Nat /\ Shards = 1 .. Asked /\ Cardinality(Packers) \in Nat
  /\ PackBatch \in Nat \ {0} /\ IsFiniteSet(Packers) /\ Packers # {}
BY PackAssumption, FS_CardinalityType DEF Asked

(* ------------------------------ the records ------------------------------- *)
LEMMA ExportFields ==
  ASSUME NEW e \in Exports
  PROVE  /\ e.up \in BOOLEAN /\ e.push \in BOOLEAN /\ e.feeding \in BOOLEAN /\ e.closed \in BOOLEAN
         /\ e.cancelled \in BOOLEAN /\ e.err \in BOOLEAN /\ e.mode \in PackModes
         /\ e.feed \in Seq(Shards) /\ e.batch \in Seq(Shards) /\ e.finished \in Seq(Results)
         /\ e.at \in {"recv", "push", "mark", "gone"} /\ e.marked \in Nat /\ e.tries \in Nat
         /\ e.committed \in Nat /\ e.skipped \in Nat /\ e.failed \in Nat
BY DEF Exports

LEMMA DiskFields ==
  ASSUME PackTyped
  PROVE  /\ kept.ledger \subseteq Shards /\ kept.files \subseteq Shards
         /\ kept.cached \in [Shards -> {"none", "torn", "whole"}]
         /\ kept.part \in [Shards -> {"none", "torn", "whole"}]
BY DEF PackTyped, Disks

LEMMA LogFields ==
  ASSUME PackTyped
  PROVE  /\ packLog.runs \in Nat /\ packLog.faults \in Nat /\ packLog.failed \subseteq Shards
         /\ packLog.cut \subseteq Shards
         /\ packLog.exit \in {"none", "ok", "short", "error", "cancelled", "killed", "panic"}
BY DEF PackTyped, PackLogs

LEMMA WorkerFields ==
  ASSUME PackTyped, NEW w \in Packers
  PROVE  packer[w].at \in Places /\ packer[w].shard \in Int /\ Held(w) \in Nat
         /\ (Held(w) = 0 <=> packer[w].shard = 0)
BY DEF PackTyped, Held, Places

\* The fields of the process, by who writes them.
SameRun == /\ export'.up = export.up /\ export'.push = export.push
           /\ export'.cancelled = export.cancelled
SameFeeder == export'.feed = export.feed /\ export'.feeding = export.feeding
SameChannel == export'.finished = export.finished /\ export'.closed = export.closed
SameCommitter ==
  /\ export'.at = export.at /\ export'.batch = export.batch /\ export'.marked = export.marked
  /\ export'.err = export.err
SameCounts ==
  /\ export'.committed = export.committed /\ export'.skipped = export.skipped
  /\ export'.failed = export.failed

(* ------------------------------ the sequences ----------------------------- *)
LEMMA ElementAt ==
  ASSUME NEW S, NEW s \in Seq(S), NEW i \in 1 .. Len(s)
  PROVE  s[i] \in ToSet(s) /\ s[i] \in S
BY DEF ToSet

LEMMA Elements ==
  ASSUME NEW S, NEW s \in Seq(S)
  PROVE  /\ ToSet(s) \subseteq S
         /\ \A x \in S : ToSet(Append(s, x)) = ToSet(s) \union {x}
         /\ s # <<>> => Head(s) \in ToSet(s) /\ ToSet(s) = ToSet(Tail(s)) \union {Head(s)}
         /\ s # <<>> => Tail(s) \in Seq(S) /\ Len(Tail(s)) = Len(s) - 1 /\ Head(s) \in S
<1>1. ToSet(s) \subseteq S
  BY DEF ToSet
<1>2. ASSUME NEW x \in S PROVE ToSet(Append(s, x)) = ToSet(s) \union {x}
  <2>1. /\ Append(s, x) \in Seq(S) /\ Len(Append(s, x)) = Len(s) + 1
        /\ \A i \in 1 .. Len(s) : Append(s, x)[i] = s[i]
        /\ Append(s, x)[Len(s) + 1] = x
    OBVIOUS
  <2> QED BY <2>1 DEF ToSet
<1>3. ASSUME s # <<>>
      PROVE  /\ Head(s) \in ToSet(s) /\ ToSet(s) = ToSet(Tail(s)) \union {Head(s)}
             /\ Tail(s) \in Seq(S) /\ Len(Tail(s)) = Len(s) - 1 /\ Head(s) \in S
  <2>1. /\ Tail(s) \in Seq(S) /\ Len(Tail(s)) = Len(s) - 1 /\ Head(s) = s[1] /\ 1 \in 1 .. Len(s)
        /\ \A i \in 1 .. Len(Tail(s)) : Tail(s)[i] = s[i + 1]
    BY <1>3
  <2>2. Head(s) \in ToSet(s) /\ Head(s) \in S
    BY <2>1 DEF ToSet
  <2>3. ToSet(Tail(s)) \subseteq ToSet(s)
    BY <2>1 DEF ToSet
  <2>4. ToSet(s) \subseteq ToSet(Tail(s)) \union {Head(s)}
    <3> SUFFICES ASSUME NEW i \in 1 .. Len(s) PROVE s[i] \in ToSet(Tail(s)) \union {Head(s)}
      BY DEF ToSet
    <3>1. CASE i = 1
      BY <3>1, <2>1
    <3>2. CASE i # 1
      <4>1. /\ i - 1 \in 1 .. Len(s) - 1 /\ i - 1 \in 1 .. Len(Tail(s)) /\ (i - 1) + 1 = i
        BY <3>2, <2>1
      <4>2. s[i] = Tail(s)[i - 1]
        <5> DEFINE j == i - 1
        <5>1. j \in 1 .. Len(Tail(s)) /\ j + 1 = i
          BY <4>1
        <5> HIDE DEF j
        <5>2. Tail(s)[j] = s[j + 1]
          BY <5>1, <2>1
        <5> QED BY <5>1, <5>2 DEF j
      <4>3. Tail(s)[i - 1] \in ToSet(Tail(s))
        <5> HIDE DEF ToSet
        <5> QED BY <4>1, <2>1, ElementAt
      <4> QED BY <4>2, <4>3
    <3> QED BY <3>1, <3>2
  <2> QED BY <2>1, <2>2, <2>3, <2>4
<1> QED BY <1>1, <1>2, <1>3

(* ------------------- the sets the invariant speaks of --------------------- *)
LEMMA WorkersStay ==
  ASSUME UNCHANGED packer
  PROVE  /\ Busy' = Busy /\ InHand' = InHand /\ Sending' = Sending
         /\ \A w : Held(w)' = Held(w)
BY DEF Busy, InHand, Sending, Held

LEMMA ResultsStay ==
  ASSUME export'.finished = export.finished
  PROVE  Delivered' = Delivered /\ Oks' = Oks
BY DEF Delivered, Oks

LEMMA ResultSets ==
  ASSUME PackTyped
  PROVE  /\ Delivered \subseteq Shards /\ Oks \subseteq Delivered
         /\ ToSet(export.batch) \subseteq Shards /\ ToSet(export.feed) \subseteq Shards
         /\ ToSet(export.finished) \subseteq Results
<1>1. export.finished \in Seq(Results) /\ export.batch \in Seq(Shards) /\ export.feed \in Seq(Shards)
  BY ExportFields DEF PackTyped
<1>2. ToSet(export.finished) \subseteq Results
  BY <1>1, Elements
<1>3. Delivered \subseteq Shards /\ Oks \subseteq Delivered
  BY <1>2 DEF Delivered, Oks, Results
<1> QED BY <1>1, <1>2, <1>3, Elements

LEMMA BusyWorkers ==
  ASSUME PackTyped, WorkersHold, NEW w \in Packers
  PROVE  /\ w \in Busy <=> packer[w].shard # 0
         /\ w \in Busy => Held(w) \in Shards /\ Held(w) \in InHand
         /\ packer[w].at \in {"open", "read", "keep", "pack"} =>
              w \in Busy /\ packer[w].shard = Held(w) /\ packer[w].shard \in Shards
         /\ packer[w].at = "send" => w \in Busy
         /\ packer[w].at \in {"take", "gone"} => w \notin Busy
<1>1. packer[w].at \in Places /\ packer[w].shard \in Int
  BY WorkerFields
<1>2. w \in Busy <=> packer[w].shard # 0
  BY DEF Busy
<1>3. packer[w].at \in {"open", "read", "keep", "pack"} =>
         packer[w].shard # 0 /\ packer[w].shard = Held(w) /\ packer[w].shard \in Shards
  BY <1>1, Sizes DEF WorkersHold, Held
<1>4. packer[w].at = "send" => packer[w].shard # 0 /\ Held(w) \in Shards
  BY <1>1, Sizes DEF WorkersHold, Held
<1>5. packer[w].at \in {"take", "gone"} => packer[w].shard = 0
  BY DEF WorkersHold
<1>6. w \in Busy => Held(w) \in Shards
  BY <1>1, <1>2, <1>3, <1>4, <1>5 DEF Places
<1>7. w \in Busy => Held(w) \in InHand
  BY DEF InHand
<1> QED BY <1>2, <1>3, <1>4, <1>5, <1>6, <1>7

\* The property follows from the parts of the invariant that are not about counting.
LEMMA PackTypes ==
  ASSUME PackTyped, Len(export.batch) <= PackBatch,
         Len(export.finished) <= Cardinality(Packers) + PackBatch
  PROVE  PackTypeOK
BY ExportFields, DiskFields DEF PackTyped, PackTypeOK

LEMMA PackTypesNext ==
  ASSUME PackTyped', Len(export'.batch) <= PackBatch,
         Len(export'.finished) <= Cardinality(Packers) + PackBatch
  PROVE  PackTypeOK'
<1>1. kept' \in Disks /\ export' \in Exports
  BY DEF PackTyped
<1>2. /\ kept'.ledger \subseteq Shards /\ kept'.files \subseteq Shards
      /\ kept'.cached \in [Shards -> {"none", "torn", "whole"}]
  BY <1>1 DEF Disks
<1>3. export'.at \in {"recv", "push", "mark", "gone"}
  BY <1>1, ExportFields
<1> QED BY <1>2, <1>3 DEF PackTyped, PackTypeOK

(* -------------------------------- the pool -------------------------------- *)
\* One worker is there with this shard, the others stay.
WorkerIs(w, at, held) ==
  /\ packer' \in [Packers -> Hands]
  /\ packer'[w].at = at /\ packer'[w].shard = held
  /\ \A v \in Packers : v # w => packer'[v] = packer[v]

LEMMA WorkerBecomes ==
  ASSUME PackTyped, NEW w \in Packers, NEW at \in Places, NEW held \in Int
  PROVE  /\ Walks(w, at) => WorkerIs(w, at, packer[w].shard)
         /\ Failed(w) => WorkerIs(w, "send", -packer[w].shard)
         /\ packer' = [packer EXCEPT ![w] = [at |-> at, shard |-> held]] => WorkerIs(w, at, held)
<1>1. packer \in [Packers -> Hands] /\ packer[w] \in Hands /\ -packer[w].shard \in Int
  BY DEF PackTyped, Hands, Places
<1>2. ASSUME NEW r \in Hands, packer' = [packer EXCEPT ![w] = r]
      PROVE  WorkerIs(w, r.at, r.shard)
  BY <1>1, <1>2 DEF WorkerIs
<1>3. Walks(w, at) => WorkerIs(w, at, packer[w].shard)
  <2> DEFINE r == [packer[w] EXCEPT !.at = at]
  <2> SUFFICES ASSUME Walks(w, at) PROVE WorkerIs(w, at, packer[w].shard)
    OBVIOUS
  <2>1. packer' = [packer EXCEPT ![w] = r]
    BY Zenon DEF Walks
  <2>2. r \in Hands /\ r.at = at /\ r.shard = packer[w].shard
    BY <1>1 DEF Hands
  <2> HIDE DEF r
  <2>3. WorkerIs(w, r.at, r.shard)
    BY <2>1, <2>2, <1>2
  <2> QED BY <2>2, <2>3
<1>4. Failed(w) => WorkerIs(w, "send", -packer[w].shard)
  <2> DEFINE r == [packer[w] EXCEPT !.at = "send", !.shard = -packer[w].shard]
  <2> SUFFICES ASSUME Failed(w) PROVE WorkerIs(w, "send", -packer[w].shard)
    OBVIOUS
  <2>1. packer' = [packer EXCEPT ![w] = r]
    BY Zenon DEF Failed
  <2>2. r \in Hands /\ r.at = "send" /\ r.shard = -packer[w].shard
    BY <1>1 DEF Hands, Places
  <2> HIDE DEF r
  <2>3. WorkerIs(w, r.at, r.shard)
    BY <2>1, <2>2, <1>2
  <2> QED BY <2>2, <2>3
<1>5. packer' = [packer EXCEPT ![w] = [at |-> at, shard |-> held]] => WorkerIs(w, at, held)
  <2> DEFINE r == [at |-> at, shard |-> held]
  <2> SUFFICES ASSUME packer' = [packer EXCEPT ![w] = r] PROVE WorkerIs(w, at, held)
    OBVIOUS
  <2>1. r \in Hands /\ r.at = at /\ r.shard = held
    BY DEF Hands
  <2> HIDE DEF r
  <2>2. WorkerIs(w, r.at, r.shard)
    BY <2>1, <1>2
  <2> QED BY <2>1, <2>2
<1> QED BY <1>3, <1>4, <1>5

\* A worker that goes on with its shard has the same in hand.
LEMMA SameInHand ==
  ASSUME PackTyped, NEW w \in Busy, NEW at \in Places, NEW held \in Int, WorkerIs(w, at, held),
         held = packer[w].shard \/ held = -packer[w].shard
  PROVE  /\ Busy' = Busy /\ InHand' = InHand /\ \A v \in Packers : Held(v)' = Held(v)
         /\ Sending' \subseteq Sending \union (IF at = "send" /\ held > 0 THEN {held} ELSE {})
<1>1. /\ w \in Packers /\ packer[w].shard \in Int /\ packer[w].shard # 0
      /\ packer'[w].at = at /\ packer'[w].shard = held
      /\ \A v \in Packers : v # w => packer'[v] = packer[v]
  BY WorkerFields DEF Busy, WorkerIs
<1>2. Busy' = Busy
  BY <1>1 DEF Busy
<1>3. \A v \in Packers : Held(v)' = Held(v)
  BY <1>1 DEF Held
<1>4. InHand' = InHand
  BY <1>2, <1>3 DEF InHand, Busy
<1>5. Sending' \subseteq Sending \union (IF at = "send" /\ held > 0 THEN {held} ELSE {})
  <2> SUFFICES ASSUME NEW v \in Busy', packer'[v].at = "send", packer'[v].shard > 0
               PROVE  packer'[v].shard \in Sending \union (IF at = "send" /\ held > 0 THEN {held} ELSE {})
    BY DEF Sending
  <2>1. v \in Packers /\ v \in Busy
    BY <1>2 DEF Busy
  <2>2. CASE v = w
    BY <2>2, <1>1
  <2>3. CASE v # w
    BY <2>1, <2>3, <1>1 DEF Sending
  <2> QED BY <2>2, <2>3
<1> QED BY <1>2, <1>3, <1>4, <1>5

\* A shard in hand is in no other place.
LEMMA InHandOnly ==
  ASSUME PackInv, NEW w \in Busy
  PROVE  /\ Held(w) \notin kept.ledger /\ Held(w) \notin Delivered /\ Held(w) \notin ToSet(export.batch)
         /\ packer[w].at # "send" => Held(w) \notin Packed
<1>1. Held(w) \in InHand
  BY DEF InHand
<1>2. Held(w) \notin kept.ledger /\ Held(w) \notin Delivered /\ Held(w) \notin ToSet(export.batch)
  BY <1>1 DEF PackInv, HandedOnce
<1>3. Held(w) \notin Oks
  BY <1>2, ResultSets DEF PackInv
<1>4. ASSUME packer[w].at # "send" PROVE Held(w) \notin Sending
  <2> SUFFICES ASSUME NEW v \in Busy, packer[v].at = "send", packer[v].shard > 0, packer[v].shard = Held(w)
               PROVE  FALSE
    BY DEF Sending
  <2>1. Held(v) = packer[v].shard
    BY WorkerFields DEF Held, Busy, PackInv
  <2>2. v # w
    BY <1>4
  <2> QED BY <2>1, <2>2 DEF PackInv, HandedOnce
<1> QED BY <1>2, <1>3, <1>4 DEF Packed

LEMMA WalkKeeps ==
  ASSUME PackInv, NEW w \in Packers, NEW at \in {"read", "keep", "pack", "send"}, NEW held \in Int,
         packer[w].at \in {"open", "read", "keep", "pack"}, WorkerIs(w, at, held),
         held = packer[w].shard \/ (at = "send" /\ held = -packer[w].shard),
         UNCHANGED <<stored, export>>, kept' \in Disks, kept'.ledger = kept.ledger,
         kept.files \ {packer[w].shard} \subseteq kept'.files,
         packLog' \in PackLogs, packLog'.exit = packLog.exit, packLog'.failed = packLog.failed,
         packLog'.cut \subseteq packLog.cut \union {packer[w].shard},
         at = "send" /\ held = packer[w].shard =>
           held \in kept'.files /\ (held \in packLog'.cut => export.cancelled),
         \A t \in Shards : t # packer[w].shard => kept'.part[t] = kept.part[t],
         \A t \in Shards : kept'.cached[t] # "torn",
         at = "keep" => kept'.part[packer[w].shard] = "whole"
  PROVE  PackInv'
<1> DEFINE s == packer[w].shard
<1>0. PackTyped /\ WorkersHold
  BY DEF PackInv
<1>1. w \in Busy /\ s \in Shards /\ s = Held(w) /\ s > 0 /\ held \in Int /\ at \in Places /\ s \in Int
  <2>1. w \in Busy /\ s = Held(w) /\ s \in Shards
    BY <1>0, BusyWorkers
  <2>2. s > 0 /\ s \in Int
    BY <2>1, Sizes
  <2> QED BY <2>1, <2>2 DEF Places
<1>2. /\ packer' \in [Packers -> Hands] /\ packer'[w].at = at /\ packer'[w].shard = held
      /\ \A v \in Packers : v # w => packer'[v] = packer[v]
  BY DEF WorkerIs
<1>3. /\ Busy' = Busy /\ InHand' = InHand /\ \A v \in Packers : Held(v)' = Held(v)
      /\ Sending' \subseteq Sending \union (IF at = "send" /\ held > 0 THEN {held} ELSE {})
  BY <1>0, <1>1, SameInHand
<1>4. Delivered' = Delivered /\ Oks' = Oks
  BY ResultsStay
<1>5. s \notin kept.ledger /\ s \notin ToSet(export.batch) /\ s \notin Packed
  BY <1>1, InHandOnly
<1>6. PackTyped'
  BY <1>0, <1>2 DEF PackTyped, Hands, Places
<1>7. AtRest'
  <2>1. export.up
    BY DEF PackInv, AtRest
  <2> QED BY <2>1 DEF PackInv, AtRest
<1>8. WorkersHold'
  <2> SUFFICES ASSUME NEW v \in Packers
               PROVE  /\ packer'[v].at \in {"take", "gone"} => packer'[v].shard = 0
                      /\ packer'[v].at \in {"open", "read", "keep", "pack"} => packer'[v].shard \in Shards
                      /\ packer'[v].at = "send" => Held(v)' \in Shards
    BY DEF WorkersHold
  <2>1. CASE v # w
    BY <2>1, <1>0, <1>2, <1>3 DEF WorkersHold
  <2>2. CASE v = w
    BY <2>2, <1>1, <1>2, <1>3
  <2> QED BY <2>1, <2>2
<1>9. HandedOnce'
  BY <1>3, <1>4 DEF PackInv, HandedOnce, Busy
<1>10. BatchInOrder'
  BY DEF PackInv, BatchInOrder
<1>11. AllAccountedFor'
  BY <1>3, <1>4 DEF PackInv, AllAccountedFor
<1>12. PackedIsThere'
  <2>1. Packed' \subseteq Packed \union (IF at = "send" /\ held > 0 THEN {held} ELSE {})
    BY <1>3, <1>4 DEF Packed
  <2>2. at = "send" /\ held > 0 => held = s
    BY <1>1
  <2>3. ~export.push => Packed' \subseteq kept'.files
    BY <2>1, <2>2, <1>5 DEF PackInv, PackedIsThere
  <2>4. export.push /\ export.at = "mark" => ToSet(export.batch) \subseteq stored \ packLog'.cut
    BY <1>5 DEF PackInv, PackedIsThere
  <2>5. ~export.cancelled => Packed' \intersect packLog'.cut = {}
    BY <2>1, <2>2, <1>5 DEF PackInv, PackedIsThere
  <2> QED BY <2>3, <2>4, <2>5 DEF PackedIsThere
<1>13. PoolLeavesLast'
  <2>1. \A v \in Packers : packer'[v].at = "gone" => packer[v].at = "gone"
    BY <1>2
  <2> QED BY <2>1 DEF PackInv, PoolLeavesLast
<1>14. KeepsWhole'
  <2> SUFFICES ASSUME NEW v \in Packers, packer'[v].at = "keep" PROVE kept'.part[packer'[v].shard] = "whole"
    BY DEF KeepsWhole
  <2>1. CASE v = w
    BY <2>1, <1>2
  <2>2. CASE v # w
    <3>1. packer'[v] = packer[v] /\ packer[v].at = "keep" /\ kept.part[packer[v].shard] = "whole"
      BY <2>2, <1>2 DEF PackInv, KeepsWhole
    <3>2. v \in Busy /\ packer[v].shard = Held(v) /\ packer[v].shard \in Shards
      BY <3>1, <1>0, BusyWorkers
    <3>3. Held(v) # Held(w)
      BY <2>2, <3>2, <1>1 DEF PackInv, HandedOnce
    <3> QED BY <3>1, <3>2, <3>3, <1>1
  <2> QED BY <2>1, <2>2
<1>15. NoShardPassedOver'
  <2>1. PackTypeOK'
    <3>1. Len(export'.batch) <= PackBatch /\ Len(export'.finished) <= Cardinality(Packers) + PackBatch
      BY DEF PackInv, NoShardPassedOver, PackTypeOK
    <3> QED BY <3>1, <1>6, PackTypesNext
  <2>2. RecordedIsKept' /\ CutIsRefetched'
    BY <1>5 DEF PackInv, NoShardPassedOver, RecordedIsKept, CutIsRefetched
  <2>3. CacheIsWhole'
    BY DEF CacheIsWhole
  <2>4. EndAccounts'
    BY DEF PackInv, NoShardPassedOver, EndAccounts
  <2>5. ClosedLast'
    <3>1. ~export.closed
      BY DEF PackInv, NoShardPassedOver, ClosedLast
    <3> QED BY <3>1 DEF ClosedLast
  <2> QED BY <2>1, <2>2, <2>3, <2>4, <2>5 DEF NoShardPassedOver
<1> QED BY <1>6, <1>7, <1>8, <1>9, <1>10, <1>11, <1>12, <1>13, <1>14, <1>15 DEF PackInv

\* What a worker does to the disk.
LEMMA PartChanges ==
  ASSUME PackTyped, NEW s \in Shards, NEW what \in {"none", "torn", "whole"},
         kept' = [kept EXCEPT !.part[s] = what]
  PROVE  /\ kept' \in Disks /\ kept'.ledger = kept.ledger /\ kept'.files = kept.files
         /\ kept'.cached = kept.cached
         /\ kept'.part[s] = what /\ \A t \in Shards : t # s => kept'.part[t] = kept.part[t]
<1> DEFINE part == [kept.part EXCEPT ![s] = what]
<1>1. kept \in Disks /\ kept.part \in [Shards -> {"none", "torn", "whole"}]
  BY DiskFields DEF PackTyped
<1>2. kept' = [kept EXCEPT !.part = part]
  BY Zenon
<1>3. /\ part \in [Shards -> {"none", "torn", "whole"}] /\ part[s] = what
      /\ \A t \in Shards : t # s => part[t] = kept.part[t]
  BY <1>1
<1> HIDE DEF part
<1> QED BY <1>1, <1>2, <1>3 DEF Disks

LEMMA CacheChanges ==
  ASSUME PackTyped, NEW s \in Shards,
         kept' = [kept EXCEPT !.cached[s] = kept.part[s], !.part[s] = "none"]
  PROVE  /\ kept' \in Disks /\ kept'.ledger = kept.ledger /\ kept'.files = kept.files
         /\ kept'.cached[s] = kept.part[s]
         /\ \A t \in Shards : t # s => kept'.cached[t] = kept.cached[t]
         /\ \A t \in Shards : t # s => kept'.part[t] = kept.part[t]
<1> DEFINE part == [kept.part EXCEPT ![s] = "none"]
           cached == [kept.cached EXCEPT ![s] = kept.part[s]]
<1>1. /\ kept \in Disks /\ kept.part \in [Shards -> {"none", "torn", "whole"}]
      /\ kept.cached \in [Shards -> {"none", "torn", "whole"}]
  BY DiskFields DEF PackTyped
<1>2. kept' = [kept EXCEPT !.cached = cached, !.part = part]
  BY Zenon
<1>3. /\ part \in [Shards -> {"none", "torn", "whole"}]
      /\ \A t \in Shards : t # s => part[t] = kept.part[t]
  BY <1>1
<1>4. /\ cached \in [Shards -> {"none", "torn", "whole"}] /\ cached[s] = kept.part[s]
      /\ \A t \in Shards : t # s => cached[t] = kept.cached[t]
  BY <1>1
<1> HIDE DEF part, cached
<1> QED BY <1>1, <1>2, <1>3, <1>4 DEF Disks

LEMMA FilesChange ==
  ASSUME PackTyped, NEW files \in SUBSET Shards, kept' = [kept EXCEPT !.files = files]
  PROVE  /\ kept' \in Disks /\ kept'.ledger = kept.ledger /\ kept'.files = files
         /\ kept'.cached = kept.cached /\ kept'.part = kept.part
BY DEF PackTyped, Disks

\* A fault, or none: the log but for its count.
LEMMA LogChanges ==
  ASSUME PackTyped
  PROVE  /\ \A cut \in SUBSET Shards :
              LET l == [packLog EXCEPT !.cut = cut]
              IN l \in PackLogs /\ l.exit = packLog.exit /\ l.failed = packLog.failed /\ l.cut = cut
         /\ \A failed \in SUBSET Shards :
              LET l == [packLog EXCEPT !.failed = failed]
              IN l \in PackLogs /\ l.exit = packLog.exit /\ l.failed = failed /\ l.cut = packLog.cut
         /\ PackFault =>
              /\ packLog' \in PackLogs /\ packLog'.exit = packLog.exit
              /\ packLog'.failed = packLog.failed /\ packLog'.cut = packLog.cut
<1>1. packLog \in PackLogs
  BY DEF PackTyped
<1> QED BY <1>1 DEF PackLogs, PackFault

LEMMA OpenKeeps ==
  ASSUME PackInv, NEW w \in Packers, openWARCShard(w)
  PROVE  PackInv'
<1> DEFINE s == packer[w].shard
<1>0. PackTyped /\ WorkersHold /\ CacheIsWhole
  BY DEF PackInv, NoShardPassedOver
<1>1. /\ packer[w].at = "open" /\ UNCHANGED <<stored, export, packLog>>
  BY DEF openWARCShard
<1>2. s \in Shards /\ s \in Int /\ kept \in Disks /\ packLog \in PackLogs
  BY <1>0, <1>1, BusyWorkers, WorkerFields DEF PackTyped
<1>3. CASE kept.cached[s] # "none"
  <2>1. Walks(w, "pack") /\ UNCHANGED kept
    BY <1>3 DEF openWARCShard
  <2>2. WorkerIs(w, "pack", s)
    BY <2>1, <1>0, WorkerBecomes, <1>2 DEF Places
  <2> HIDE DEF s
  <2> QED BY <2>1, <2>2, <1>0, <1>1, <1>2, WalkKeeps DEF s, CacheIsWhole
<1>4. CASE kept.cached[s] = "none"
  <2>1. Walks(w, "read") /\ kept' = [kept EXCEPT !.part[s] = "torn"]
    BY <1>4 DEF openWARCShard
  <2>2. WorkerIs(w, "read", s)
    BY <2>1, <1>0, WorkerBecomes, <1>2 DEF Places
  <2>3. /\ kept' \in Disks /\ kept'.ledger = kept.ledger /\ kept'.files = kept.files
        /\ kept'.cached = kept.cached /\ \A t \in Shards : t # s => kept'.part[t] = kept.part[t]
    BY <2>1, <1>0, <1>2, PartChanges
  <2> QED BY <2>2, <2>3, <1>0, <1>1, <1>2, WalkKeeps DEF CacheIsWhole
<1> QED BY <1>3, <1>4

LEMMA ReadKeeps ==
  ASSUME PackInv, NEW w \in Packers, ReadWARC(w)
  PROVE  PackInv'
<1> DEFINE s == packer[w].shard
<1>0. PackTyped /\ WorkersHold /\ CacheIsWhole
  BY DEF PackInv, NoShardPassedOver
<1>1. /\ packer[w].at = "read" /\ UNCHANGED <<stored, export, packLog>> /\ Walks(w, "keep")
      /\ kept' = [kept EXCEPT !.part[s] = "whole"]
  BY DEF ReadWARC
<1>2. s \in Shards /\ s \in Int /\ kept \in Disks /\ packLog \in PackLogs
  BY <1>0, <1>1, BusyWorkers, WorkerFields DEF PackTyped
<1>3. WorkerIs(w, "keep", s)
  BY <1>0, <1>1, WorkerBecomes, <1>2 DEF Places
<1>4. /\ kept' \in Disks /\ kept'.ledger = kept.ledger /\ kept'.files = kept.files
      /\ kept'.cached = kept.cached /\ kept'.part[s] = "whole"
      /\ \A t \in Shards : t # s => kept'.part[t] = kept.part[t]
  BY <1>0, <1>1, <1>2, PartChanges
<1> QED BY <1>0, <1>1, <1>2, <1>3, <1>4, WalkKeeps DEF CacheIsWhole

LEMMA CacheKeeps ==
  ASSUME PackInv, NEW w \in Packers, CommitCache(w) \/ CommitCacheFails(w)
  PROVE  PackInv'
<1> DEFINE s == packer[w].shard
<1>0. PackTyped /\ WorkersHold /\ CacheIsWhole
  BY DEF PackInv, NoShardPassedOver
<1>1. /\ packer[w].at = "keep" /\ UNCHANGED <<stored, export>> /\ Walks(w, "pack")
      /\ kept' = [kept EXCEPT !.cached[s] = kept.part[s], !.part[s] = "none"] \/ kept' = [kept EXCEPT !.part[s] = "none"]
  BY DEF CommitCache, CommitCacheFails, Discard
<1>2. s \in Shards /\ s \in Int /\ kept.part[s] = "whole"
  BY <1>0, <1>1, BusyWorkers, WorkerFields DEF PackInv, KeepsWhole
<1>3. WorkerIs(w, "pack", s)
  BY <1>0, <1>1, WorkerBecomes, <1>2 DEF Places
<1>4. /\ kept' \in Disks /\ kept'.ledger = kept.ledger /\ kept'.files = kept.files
      /\ \A t \in Shards : t # s => kept'.part[t] = kept.part[t]
      /\ \A t \in Shards : kept'.cached[t] = kept.cached[t] \/ kept'.cached[t] = "whole"
  <2>1. CASE kept' = [kept EXCEPT !.cached[s] = kept.part[s], !.part[s] = "none"]
    <3>1. /\ kept' \in Disks /\ kept'.ledger = kept.ledger /\ kept'.files = kept.files
          /\ kept'.cached[s] = kept.part[s] /\ \A t \in Shards : t # s => kept'.cached[t] = kept.cached[t]
          /\ \A t \in Shards : t # s => kept'.part[t] = kept.part[t]
      BY <2>1, <1>0, <1>2, CacheChanges
    <3> QED BY <3>1, <1>2
  <2>2. CASE kept' = [kept EXCEPT !.part[s] = "none"]
    BY <2>2, <1>0, <1>2, PartChanges
  <2> QED BY <2>1, <2>2, <1>1
<1>5. /\ packLog' \in PackLogs /\ packLog'.exit = packLog.exit
      /\ packLog'.failed = packLog.failed /\ packLog'.cut = packLog.cut
  BY <1>0, LogChanges DEF CommitCache, CommitCacheFails, PackTyped
<1> QED BY <1>0, <1>1, <1>2, <1>3, <1>4, <1>5, WalkKeeps DEF CacheIsWhole

LEMMA ReadFailsKeeps ==
  ASSUME PackInv, NEW w \in Packers, ReadFails(w)
  PROVE  PackInv'
<1> DEFINE s == packer[w].shard
<1>0. PackTyped /\ WorkersHold /\ CacheIsWhole
  BY DEF PackInv, NoShardPassedOver
<1>1. /\ packer[w].at = "read" /\ UNCHANGED <<stored, export>> /\ Failed(w)
      /\ kept' = [kept EXCEPT !.part[s] = "none"]
  BY DEF ReadFails, Discard
<1>2. s \in Shards /\ s \in Int /\ -s \in Int /\ s # -s
  BY <1>0, <1>1, BusyWorkers, WorkerFields, Sizes DEF PackTyped
<1>3. WorkerIs(w, "send", -s)
  BY <1>0, <1>1, WorkerBecomes, <1>2 DEF Places
<1>4. /\ kept' \in Disks /\ kept'.ledger = kept.ledger /\ kept'.files = kept.files
      /\ kept'.cached = kept.cached /\ \A t \in Shards : t # s => kept'.part[t] = kept.part[t]
  BY <1>0, <1>1, <1>2, PartChanges
<1>5. /\ packLog' \in PackLogs /\ packLog'.exit = packLog.exit
      /\ packLog'.failed = packLog.failed /\ packLog'.cut = packLog.cut
  BY <1>0, LogChanges DEF ReadFails, PackTyped
<1> QED BY <1>0, <1>1, <1>2, <1>3, <1>4, <1>5, WalkKeeps DEF CacheIsWhole

LEMMA PackKeeps ==
  ASSUME PackInv, NEW w \in Packers, Pack(w)
  PROVE  PackInv'
<1> DEFINE s == packer[w].shard
           files == kept.files \union {s}
           cut == IF export.cancelled THEN packLog.cut \union {s} ELSE packLog.cut \ {s}
<1>0. PackTyped /\ WorkersHold /\ CacheIsWhole
  BY DEF PackInv, NoShardPassedOver
<1>1. /\ packer[w].at = "pack" /\ UNCHANGED <<stored, export>> /\ Walks(w, "send")
      /\ kept' = [kept EXCEPT !.files = files] /\ packLog' = [packLog EXCEPT !.cut = cut]
  BY Zenon DEF Pack
<1>2. s \in Shards /\ s \in Int
  BY <1>0, <1>1, BusyWorkers, WorkerFields DEF PackTyped
<1>3. WorkerIs(w, "send", s)
  BY <1>0, <1>1, WorkerBecomes, <1>2 DEF Places
<1>4. files \in SUBSET Shards /\ cut \in SUBSET Shards
  BY <1>0, <1>2, DiskFields, LogFields
<1>5. s \in files /\ kept.files \subseteq files /\ cut \subseteq packLog.cut \union {s}
      /\ (s \in cut => export.cancelled)
  OBVIOUS
<1> HIDE DEF files, cut
<1>6. /\ kept' \in Disks /\ kept'.ledger = kept.ledger /\ kept'.files = files
      /\ kept'.cached = kept.cached /\ kept'.part = kept.part
  BY <1>0, <1>1, <1>2, <1>4, FilesChange
<1>7. /\ packLog' \in PackLogs /\ packLog'.exit = packLog.exit
      /\ packLog'.failed = packLog.failed /\ packLog'.cut = cut
  BY <1>0, <1>1, <1>4, LogChanges
<1> QED BY <1>0, <1>1, <1>2, <1>3, <1>5, <1>6, <1>7, WalkKeeps DEF CacheIsWhole

LEMMA PackFailsKeeps ==
  ASSUME PackInv, NEW w \in Packers, PackFails(w)
  PROVE  PackInv'
<1> DEFINE s == packer[w].shard
           files == kept.files \ {s}
<1>0. PackTyped /\ WorkersHold /\ CacheIsWhole
  BY DEF PackInv, NoShardPassedOver
<1>1. /\ packer[w].at = "pack" /\ UNCHANGED <<stored, export>> /\ Failed(w)
      /\ kept' = [kept EXCEPT !.files = files]
  BY Zenon DEF PackFails
<1>2. s \in Shards /\ s \in Int /\ -s \in Int /\ s # -s
  BY <1>0, <1>1, BusyWorkers, WorkerFields, Sizes DEF PackTyped
<1>3. WorkerIs(w, "send", -s)
  BY <1>0, <1>1, WorkerBecomes, <1>2 DEF Places
<1>4. files \in SUBSET Shards
  BY <1>0, DiskFields
<1>5. /\ kept' \in Disks /\ kept'.ledger = kept.ledger /\ kept'.files = files
      /\ kept'.cached = kept.cached /\ kept'.part = kept.part
  BY <1>0, <1>1, <1>2, <1>4, FilesChange
<1>6. /\ packLog' \in PackLogs /\ packLog'.exit = packLog.exit
      /\ packLog'.failed = packLog.failed /\ packLog'.cut = packLog.cut
  BY <1>0, LogChanges DEF PackFails, PackTyped
<1> QED BY <1>0, <1>1, <1>2, <1>3, <1>5, <1>6, WalkKeeps DEF CacheIsWhole

(* ---------------------- the feeder and the channel ------------------------ *)
LEMMA FeedGoesOn ==
  ASSUME PackTyped, HandedOnce, export.feed # <<>>, export'.feed = Tail(export.feed)
  PROVE  /\ export'.feed \in Seq(Shards) /\ Len(export'.feed) = Len(export.feed) - 1
         /\ Len(export.feed) \in Nat /\ Len(export'.feed) <= Asked
         /\ \A i \in 1 .. Len(export'.feed) : export'.feed[i] = Asked - Len(export'.feed) + i
         /\ Head(export.feed) = Asked - Len(export'.feed) /\ Head(export.feed) \in Shards
         /\ Head(export.feed) \notin 1 .. Asked - Len(export.feed)
         /\ Head(export.feed) \in 1 .. Asked - Len(export'.feed)
         /\ 1 .. Asked - Len(export.feed) \subseteq 1 .. Asked - Len(export'.feed)
         /\ ToSet(export.feed) = ToSet(export'.feed) \union {Head(export.feed)}
<1>1. export.feed \in Seq(Shards)
  BY ExportFields DEF PackTyped
<1>2. /\ export'.feed \in Seq(Shards) /\ Len(export'.feed) = Len(export.feed) - 1
      /\ Head(export.feed) \in Shards /\ Head(export.feed) = export.feed[1]
      /\ ToSet(export.feed) = ToSet(export'.feed) \union {Head(export.feed)}
  BY <1>1, Elements
<1>3. Len(export.feed) \in Nat /\ Len(export'.feed) \in Nat /\ 1 \in 1 .. Len(export.feed)
  BY <1>1, <1>2
<1>4. /\ Len(export.feed) <= Asked
      /\ \A i \in 1 .. Len(export.feed) : export.feed[i] = Asked - Len(export.feed) + i
  BY DEF HandedOnce, Asked
<1>5. \A i \in 1 .. Len(export'.feed) : export'.feed[i] = export.feed[i + 1] /\ i + 1 \in 1 .. Len(export.feed)
  BY <1>1, <1>2, <1>3
<1>6. \A i \in 1 .. Len(export'.feed) : export'.feed[i] = Asked - Len(export'.feed) + i
  <2> SUFFICES ASSUME NEW i \in 1 .. Len(export'.feed)
               PROVE  export'.feed[i] = Asked - Len(export'.feed) + i
    OBVIOUS
  <2> DEFINE j == i + 1   k == Len(export.feed)   m == Len(export'.feed)
  <2>1. export'.feed[i] = export.feed[j] /\ j \in 1 .. k
    BY <1>5
  <2>2. j \in Int /\ i \in Int /\ k \in Int /\ m = k - 1 /\ Asked \in Int /\ j = i + 1
    BY <1>2, <1>3, Sizes
  <2> HIDE DEF j
  <2>3. export.feed[j] = Asked - k + j
    BY <2>1, <1>4
  <2> HIDE DEF k, m
  <2>4. Asked - k + j = Asked - m + i
    BY <2>2
  <2> QED BY <2>1, <2>3, <2>4 DEF m
<1> DEFINE n == Len(export.feed)
           m == Len(export'.feed)
<1>7. n \in Nat /\ m \in Nat /\ m = n - 1 /\ n <= Asked /\ Asked \in Nat
  BY <1>2, <1>3, <1>4, Sizes
<1>8. Head(export.feed) = Asked - n + 1
  BY <1>2, <1>3, <1>4, Sizes
<1>9. /\ export'.feed \in Seq(Shards) /\ Head(export.feed) \in Shards
      /\ \A i \in 1 .. m : export'.feed[i] = Asked - m + i
      /\ ToSet(export.feed) = ToSet(export'.feed) \union {Head(export.feed)}
  BY <1>2, <1>6
<1> HIDE DEF n, m
<1>10. /\ Head(export.feed) = Asked - m /\ m <= Asked
       /\ Head(export.feed) \notin 1 .. Asked - n /\ Head(export.feed) \in 1 .. Asked - m
       /\ 1 .. Asked - n \subseteq 1 .. Asked - m
  BY <1>7, <1>8
<1> QED BY <1>7, <1>9, <1>10 DEF n, m

LEMMA ResultComes ==
  ASSUME PackTyped, NEW r \in Results, export'.finished = Append(export.finished, r)
  PROVE  /\ export'.finished \in Seq(Results) /\ Len(export'.finished) = Len(export.finished) + 1
         /\ ToSet(export'.finished) = ToSet(export.finished) \union {r}
         /\ Delivered' = Delivered \union {r.shard}
         /\ Oks' = Oks \union (IF r.how = "ok" THEN {r.shard} ELSE {})
<1>1. export.finished \in Seq(Results)
  BY ExportFields DEF PackTyped
<1>2. ToSet(export'.finished) = ToSet(export.finished) \union {r}
  BY <1>1, Elements
<1>3. Delivered' = Delivered \union {r.shard}
  BY <1>2 DEF Delivered
<1>4. Oks' = Oks \union (IF r.how = "ok" THEN {r.shard} ELSE {})
  BY <1>2 DEF Oks
<1> QED BY <1>1, <1>2, <1>3, <1>4

LEMMA ResultGoes ==
  ASSUME PackTyped, export.finished # <<>>, export'.finished = Tail(export.finished)
  PROVE  /\ export'.finished \in Seq(Results) /\ Len(export'.finished) = Len(export.finished) - 1
         /\ Len(export.finished) \in Nat
         /\ Head(export.finished) \in Results /\ Head(export.finished) \in ToSet(export.finished)
         /\ ToSet(export'.finished) \subseteq ToSet(export.finished)
         /\ Delivered = Delivered' \union {Head(export.finished).shard}
         /\ Oks' \subseteq Oks
         /\ Head(export.finished).how = "ok" => Head(export.finished).shard \in Oks
<1>1. export.finished \in Seq(Results)
  BY ExportFields DEF PackTyped
<1>2. /\ export'.finished \in Seq(Results) /\ Len(export'.finished) = Len(export.finished) - 1
      /\ Head(export.finished) \in Results /\ Head(export.finished) \in ToSet(export.finished)
      /\ ToSet(export.finished) = ToSet(export'.finished) \union {Head(export.finished)}
  BY <1>1, Elements
<1>3. Delivered = Delivered' \union {Head(export.finished).shard}
  BY <1>2 DEF Delivered
<1>4. Oks' \subseteq Oks /\ (Head(export.finished).how = "ok" => Head(export.finished).shard \in Oks)
  BY <1>2 DEF Oks
<1> QED BY <1>1, <1>2, <1>3, <1>4

\* The room of the channel, after a result more or less.
LEMMA RoomLeft ==
  ASSUME PackTyped, SpaceLeft, NEW n, n = Len(export.finished) + 1
  PROVE  n <= Cardinality(Packers) + PackBatch
<1>1. Len(export.finished) \in Nat
  BY ExportFields DEF PackTyped
<1> QED BY <1>1, Sizes DEF SpaceLeft

LEMMA CountTypes ==
  ASSUME PackTyped
  PROVE  /\ export.committed \in Int /\ Len(export.batch) \in Int /\ export.skipped \in Int
         /\ export.failed \in Int /\ Len(export.finished) \in Int /\ Cardinality(Busy) \in Int
         /\ Len(export.feed) \in Int /\ Cardinality(Shards) \in Int /\ IsFiniteSet(Busy)
<1>1. IsFiniteSet(Busy)
  BY FS_Subset, Sizes DEF Busy
<1> QED BY <1>1, ExportFields, FS_CardinalityType, Sizes DEF PackTyped, Asked

\* What leaves one place comes to another.
LEMMA CountKept ==
  ASSUME PackInv, PackTyped', export.up, ~export.cancelled,
         (export'.committed - export.committed) + (Len(export'.batch) - Len(export.batch))
           + (export'.skipped - export.skipped) + (export'.failed - export.failed)
           + (Len(export'.finished) - Len(export.finished)) + (Cardinality(Busy') - Cardinality(Busy))
           + (Len(export'.feed) - Len(export.feed)) = 0
  PROVE  export'.committed + Len(export'.batch) + export'.skipped + export'.failed
           + Len(export'.finished) + Cardinality(Busy') + Len(export'.feed) = Cardinality(Shards)
<1> DEFINE a == export.committed   b == Len(export.batch)   c == export.skipped   d == export.failed
           e == Len(export.finished)   f == Cardinality(Busy)   g == Len(export.feed)
           n == Cardinality(Shards)
           a2 == export'.committed   b2 == Len(export'.batch)   c2 == export'.skipped
           d2 == export'.failed   e2 == Len(export'.finished)   f2 == Cardinality(Busy')
           g2 == Len(export'.feed)
<1>1. /\ a \in Int /\ b \in Int /\ c \in Int /\ d \in Int /\ e \in Int /\ f \in Int /\ g \in Int
      /\ n \in Int
  BY CountTypes DEF PackInv
<1>2. /\ a2 \in Int /\ b2 \in Int /\ c2 \in Int /\ d2 \in Int /\ e2 \in Int /\ f2 \in Int /\ g2 \in Int
  <2>1. IsFiniteSet(Busy')
    BY FS_Subset, Sizes DEF Busy
  <2>2. f2 \in Int
    BY <2>1, FS_CardinalityType
  <2>3. export' \in Exports
    BY DEF PackTyped
  <2> QED BY <2>2, <2>3, ExportFields
<1>3. a + b + c + d + e + f + g = n
  BY DEF PackInv, AllAccountedFor
<1>4. (a2 - a) + (b2 - b) + (c2 - c) + (d2 - d) + (e2 - e) + (f2 - f) + (g2 - g) = 0
  OBVIOUS
<1> HIDE DEF a, b, c, d, e, f, g, n, a2, b2, c2, d2, e2, f2, g2
<1>5. a2 + b2 + c2 + d2 + e2 + f2 + g2 = n
  BY <1>1, <1>2, <1>3, <1>4
<1> QED BY <1>5 DEF a2, b2, c2, d2, e2, f2, g2, n

LEMMA FeedSkipsKeeps ==
  ASSUME PackInv, FeedSkips
  PROVE  PackInv'
<1> DEFINE s == Head(export.feed)
           r == [shard |-> s, how |-> "skipped"]
<1>0. PackTyped /\ HandedOnce /\ export \in Exports
  BY DEF PackInv, PackTyped
<1>1. /\ export.up /\ export.feeding /\ export.feed # <<>> /\ s \in kept.ledger /\ ~export.closed
      /\ SpaceLeft /\ UNCHANGED <<stored, kept, packer, packLog>>
      /\ export' = [export EXCEPT !.feed = Tail(@), !.finished = Append(export.finished, r)]
  BY DEF FeedSkips, Feeding, Has, Finished
<1>2. export'.feed = Tail(export.feed) /\ export'.finished = Append(export.finished, r)
  BY <1>0, <1>1 DEF Exports
<1>3. /\ SameRun /\ SameCommitter /\ SameCounts /\ export'.feeding = export.feeding
      /\ export'.closed = export.closed
  BY <1>0, <1>1 DEF Exports, SameRun, SameCommitter, SameCounts
<1>4. r \in Results /\ r.shard = s /\ r.how = "skipped"
  BY <1>0, <1>1, DiskFields DEF Results
<1> HIDE DEF r
<1>5. /\ export'.feed \in Seq(Shards) /\ Len(export'.feed) = Len(export.feed) - 1
      /\ Len(export.feed) \in Nat /\ Len(export'.feed) <= Asked
      /\ \A i \in 1 .. Len(export'.feed) : export'.feed[i] = Asked - Len(export'.feed) + i
      /\ s \notin 1 .. Asked - Len(export.feed) /\ s \in 1 .. Asked - Len(export'.feed)
      /\ 1 .. Asked - Len(export.feed) \subseteq 1 .. Asked - Len(export'.feed)
      /\ ToSet(export.feed) = ToSet(export'.feed) \union {s}
  BY <1>0, <1>1, <1>2, FeedGoesOn
<1>6. /\ export'.finished \in Seq(Results) /\ Len(export'.finished) = Len(export.finished) + 1
      /\ ToSet(export'.finished) = ToSet(export.finished) \union {r}
      /\ Delivered' = Delivered \union {s} /\ Oks' = Oks
  BY <1>0, <1>2, <1>4, ResultComes
<1>7. Busy' = Busy /\ InHand' = InHand /\ Sending' = Sending /\ \A w : Held(w)' = Held(w)
  BY <1>1, WorkersStay
<1>8. PackTyped'
  <2>1. export' \in Exports
    BY <1>0, <1>1, <1>2, <1>5, <1>6 DEF Exports
  <2> QED BY <1>0, <1>1, <2>1 DEF PackTyped
<1>9. AtRest'
  BY <1>1, <1>3 DEF PackInv, AtRest, SameRun
<1>10. WorkersHold'
  BY <1>1, <1>7 DEF PackInv, WorkersHold
<1>11. HandedOnce'
  <2>1. InHand' \union Delivered' \union ToSet(export'.batch) \subseteq 1 .. Asked - Len(export'.feed)
    BY <1>0, <1>3, <1>5, <1>6, <1>7 DEF HandedOnce, Asked, SameCommitter
  <2>2. InHand' \intersect (kept'.ledger \union Delivered' \union ToSet(export'.batch)) = {}
    BY <1>0, <1>1, <1>3, <1>6, <1>7 DEF HandedOnce, Asked, SameCommitter
  <2>3. \A w, v \in Busy' : w # v => Held(w)' # Held(v)'
    BY <1>0, <1>7 DEF HandedOnce
  <2> QED BY <2>1, <2>2, <2>3, <1>5 DEF HandedOnce, Asked
<1>12. BatchInOrder'
  BY <1>1, <1>3, <1>4, <1>6 DEF PackInv, BatchInOrder, SameCommitter, SameRun
<1>13. AllAccountedFor'
  <2> SUFFICES ASSUME ~export.cancelled
               PROVE  /\ Shards \subseteq ToSet(export'.feed) \union InHand' \union Delivered'
                           \union ToSet(export'.batch) \union kept'.ledger \union packLog'.failed
                      /\ export'.committed + Len(export'.batch) + export'.skipped + export'.failed
                           + Len(export'.finished) + Cardinality(Busy') + Len(export'.feed) = Cardinality(Shards)
    BY <1>3 DEF AllAccountedFor, SameRun
  <2>1. Shards \subseteq ToSet(export'.feed) \union InHand' \union Delivered'
                           \union ToSet(export'.batch) \union kept'.ledger \union packLog'.failed
    BY <1>1, <1>3, <1>5, <1>6, <1>7 DEF PackInv, AllAccountedFor, SameCommitter
  <2>2. /\ export'.committed = export.committed /\ export'.batch = export.batch
        /\ export'.skipped = export.skipped /\ export'.failed = export.failed
        /\ Cardinality(Busy') = Cardinality(Busy)
    BY <1>3, <1>7 DEF SameCounts, SameCommitter
  <2>3. (export'.committed - export.committed) + (Len(export'.batch) - Len(export.batch))
           + (export'.skipped - export.skipped) + (export'.failed - export.failed)
           + (Len(export'.finished) - Len(export.finished)) + (Cardinality(Busy') - Cardinality(Busy))
           + (Len(export'.feed) - Len(export.feed)) = 0
    BY <1>0, <1>5, <1>6, <2>2, CountTypes
  <2> QED BY <2>1, <2>3, <1>1, <1>8, CountKept
<1>14. PackedIsThere'
  BY <1>1, <1>3, <1>6, <1>7 DEF PackInv, PackedIsThere, Packed, SameCommitter, SameRun
<1>15. PoolLeavesLast'
  BY <1>1, <1>3 DEF PackInv, PoolLeavesLast, SameRun
<1>16. KeepsWhole'
  BY <1>1 DEF PackInv, KeepsWhole
<1>17. NoShardPassedOver'
  <2>1. PackTypeOK'
    BY <1>0, <1>1, <1>3, <1>6, <1>8, RoomLeft, PackTypesNext
       DEF PackInv, NoShardPassedOver, PackTypeOK, SameCommitter
  <2>2. RecordedIsKept' /\ CutIsRefetched' /\ CacheIsWhole'
    BY <1>1, <1>3 DEF PackInv, NoShardPassedOver, RecordedIsKept, CutIsRefetched, CacheIsWhole, SameRun
  <2>3. EndAccounts'
    BY <1>1 DEF PackInv, NoShardPassedOver, EndAccounts
  <2>4. ClosedLast'
    BY <1>1, <1>3 DEF ClosedLast
  <2> QED BY <2>1, <2>2, <2>3, <2>4 DEF NoShardPassedOver
<1> QED BY <1>8, <1>9, <1>10, <1>11, <1>12, <1>13, <1>14, <1>15, <1>16, <1>17 DEF PackInv

\* A worker takes a shard, goes without one, or gives up the one it has.
LEMMA TakesShard ==
  ASSUME PackTyped, WorkersHold, NEW w \in Packers, NEW at \in {"open", "pack"}, NEW s \in Shards,
         packer[w].at = "take", WorkerIs(w, at, s)
  PROVE  /\ Busy' = Busy \union {w} /\ Cardinality(Busy') = Cardinality(Busy) + 1
         /\ InHand' = InHand \union {s} /\ Sending' = Sending /\ Held(w)' = s /\ w \notin Busy
         /\ \A v \in Packers : v # w => Held(v)' = Held(v)
<1>1. /\ packer[w].shard = 0 /\ packer'[w].at = at /\ packer'[w].shard = s /\ s # 0 /\ ~(s < 0)
      /\ \A v \in Packers : v # w => packer'[v] = packer[v]
  BY Sizes DEF WorkersHold, WorkerIs
<1>2. Busy' = Busy \union {w} /\ w \notin Busy
  BY <1>1 DEF Busy
<1>3. Held(w)' = s /\ \A v \in Packers : v # w => Held(v)' = Held(v)
  BY <1>1 DEF Held
<1>4. InHand' = InHand \union {s}
  BY <1>2, <1>3 DEF InHand, Busy
<1>5. Sending' = Sending
  BY <1>1, <1>2 DEF Sending, Busy
<1>6. Cardinality(Busy') = Cardinality(Busy) + 1
  BY <1>2, CountTypes, FS_AddElement
<1> QED BY <1>2, <1>3, <1>4, <1>5, <1>6

LEMMA GoesWithout ==
  ASSUME PackTyped, WorkersHold, NEW w \in Packers, packer[w].at = "take", WorkerIs(w, "gone", 0)
  PROVE  /\ Busy' = Busy /\ InHand' = InHand /\ Sending' = Sending
         /\ \A v \in Packers : Held(v)' = Held(v)
<1>1. /\ packer[w].shard = 0 /\ packer'[w].at = "gone" /\ packer'[w].shard = 0
      /\ \A v \in Packers : v # w => packer'[v] = packer[v]
  BY DEF WorkersHold, WorkerIs
<1>2. Busy' = Busy
  BY <1>1 DEF Busy
<1>3. \A v \in Packers : Held(v)' = Held(v)
  BY <1>1 DEF Held
<1>4. InHand' = InHand
  BY <1>2, <1>3 DEF InHand, Busy
<1>5. Sending' = Sending
  BY <1>1, <1>2 DEF Sending, Busy
<1> QED BY <1>2, <1>3, <1>4, <1>5

LEMMA GivesUpShard ==
  ASSUME PackTyped, WorkersHold, HandedOnce, NEW w \in Packers, packer[w].at = "send",
         WorkerIs(w, "take", 0)
  PROVE  /\ Busy' = Busy \ {w} /\ Cardinality(Busy') = Cardinality(Busy) - 1 /\ w \in Busy
         /\ InHand = InHand' \union {Held(w)} /\ Held(w) \notin InHand' /\ Sending' \subseteq Sending
         /\ \A v \in Packers : v # w => Held(v)' = Held(v)
<1>1. /\ packer'[w].at = "take" /\ packer'[w].shard = 0
      /\ \A v \in Packers : v # w => packer'[v] = packer[v]
  BY DEF WorkerIs
<1>2. Busy' = Busy \ {w} /\ w \in Busy
  BY <1>1, BusyWorkers DEF Busy
<1>3. \A v \in Packers : v # w => Held(v)' = Held(v)
  BY <1>1 DEF Held
<1>4. InHand = InHand' \union {Held(w)}
  BY <1>2, <1>3 DEF InHand, Busy
<1>5. Held(w) \notin InHand'
  BY <1>2, <1>3 DEF InHand, Busy, HandedOnce
<1>6. Sending' \subseteq Sending
  BY <1>1, <1>2 DEF Sending, Busy
<1>7. Cardinality(Busy') = Cardinality(Busy) - 1
  BY <1>2, CountTypes, FS_RemoveElement
<1> QED BY <1>2, <1>3, <1>4, <1>5, <1>6, <1>7

LEMMA HandKeeps ==
  ASSUME PackInv, NEW w \in Packers, Hand(w)
  PROVE  PackInv'
<1> DEFINE s == Head(export.feed)
           to == IF export.mode = "refetch" THEN "open" ELSE "pack"
<1>0. PackTyped /\ WorkersHold /\ HandedOnce /\ export \in Exports
  BY DEF PackInv, PackTyped
<1>1. /\ export.up /\ export.feeding /\ export.feed # <<>> /\ s \notin kept.ledger
      /\ packer[w].at = "take" /\ UNCHANGED <<stored, kept, packLog>>
      /\ export' = [export EXCEPT !.feed = Tail(@)]
      /\ packer' = [packer EXCEPT ![w] = IF export.cancelled THEN [at |-> "gone", shard |-> 0]
                                         ELSE [at |-> to, shard |-> s]]
  BY DEF Hand, Feeding, Has
<1>2. export'.feed = Tail(export.feed)
  BY <1>0, <1>1 DEF Exports
<1>3. SameRun /\ SameCommitter /\ SameCounts /\ SameChannel /\ export'.feeding = export.feeding
  BY <1>0, <1>1 DEF Exports, SameRun, SameCommitter, SameCounts, SameChannel
<1>4. to \in {"open", "pack"} /\ to \in Places
  BY DEF Places
<1> HIDE DEF to
<1>5. /\ export'.feed \in Seq(Shards) /\ Len(export'.feed) = Len(export.feed) - 1
      /\ Len(export.feed) \in Nat /\ Len(export'.feed) <= Asked /\ s \in Shards
      /\ \A i \in 1 .. Len(export'.feed) : export'.feed[i] = Asked - Len(export'.feed) + i
      /\ s \notin 1 .. Asked - Len(export.feed) /\ s \in 1 .. Asked - Len(export'.feed)
      /\ 1 .. Asked - Len(export.feed) \subseteq 1 .. Asked - Len(export'.feed)
      /\ ToSet(export.feed) = ToSet(export'.feed) \union {s}
  BY <1>0, <1>1, <1>2, FeedGoesOn
<1>6. Delivered' = Delivered /\ Oks' = Oks
  BY <1>3, ResultsStay DEF SameChannel
<1> HIDE DEF s
<1>7. s \notin InHand /\ s \notin Delivered /\ s \notin ToSet(export.batch)
  BY <1>0, <1>5 DEF HandedOnce, Asked
<1>8. /\ export.cancelled => WorkerIs(w, "gone", 0)
      /\ ~export.cancelled => WorkerIs(w, to, s)
  <2>1. s \in Int /\ 0 \in Int /\ "gone" \in Places
    BY <1>5, Sizes DEF Places
  <2>2. CASE export.cancelled
    <3>1. packer' = [packer EXCEPT ![w] = [at |-> "gone", shard |-> 0]]
      BY <1>1, <2>2
    <3> QED BY <2>2, <3>1, <2>1, <1>0, WorkerBecomes
  <2>3. CASE ~export.cancelled
    <3>1. packer' = [packer EXCEPT ![w] = [at |-> to, shard |-> s]]
      BY <1>1, <2>3
    <3> QED BY <2>3, <3>1, <2>1, <1>0, <1>4, WorkerBecomes
  <2> QED BY <2>2, <2>3
<1>9. export.cancelled => /\ Busy' = Busy /\ InHand' = InHand /\ \A v \in Packers : Held(v)' = Held(v)
  BY <1>0, <1>1, <1>8, GoesWithout
<1>10. ~export.cancelled =>
         /\ Busy' = Busy \union {w} /\ Cardinality(Busy') = Cardinality(Busy) + 1
         /\ InHand' = InHand \union {s} /\ Held(w)' = s /\ w \notin Busy
         /\ \A v \in Packers : v # w => Held(v)' = Held(v)
  BY <1>0, <1>1, <1>4, <1>5, <1>8, TakesShard
<1>11. Sending' = Sending
  BY <1>0, <1>1, <1>4, <1>5, <1>8, TakesShard, GoesWithout
<1>12. /\ packer' \in [Packers -> Hands] /\ \A v \in Packers : v # w => packer'[v] = packer[v]
       /\ packer'[w].at \in {"gone", "open", "pack"}
       /\ packer'[w].at = "gone" => packer'[w].shard = 0 /\ export.cancelled
       /\ packer'[w].at # "gone" => packer'[w].shard = s
  BY <1>4, <1>8 DEF WorkerIs
<1>13. PackTyped'
  <2>1. export' \in Exports
    BY <1>0, <1>1, <1>2, <1>5 DEF Exports
  <2> QED BY <1>0, <1>1, <1>12, <2>1 DEF PackTyped, Hands, Places
<1>14. AtRest'
  BY <1>1, <1>3 DEF PackInv, AtRest, SameRun
<1>15. WorkersHold'
  <2> SUFFICES ASSUME NEW v \in Packers
               PROVE  /\ packer'[v].at \in {"take", "gone"} => packer'[v].shard = 0
                      /\ packer'[v].at \in {"open", "read", "keep", "pack"} => packer'[v].shard \in Shards
                      /\ packer'[v].at = "send" => Held(v)' \in Shards
    BY DEF WorkersHold
  <2>1. CASE v # w
    BY <2>1, <1>0, <1>9, <1>10, <1>12 DEF WorkersHold
  <2>2. CASE v = w
    BY <2>2, <1>5, <1>12
  <2> QED BY <2>1, <2>2
<1>16. HandedOnce'
  <2>1. InHand' \union Delivered' \union ToSet(export'.batch) \subseteq 1 .. Asked - Len(export'.feed)
    BY <1>0, <1>3, <1>5, <1>6, <1>9, <1>10 DEF HandedOnce, Asked, SameCommitter
  <2>2. InHand' \intersect (kept'.ledger \union Delivered' \union ToSet(export'.batch)) = {}
    BY <1>0, <1>1, <1>3, <1>6, <1>7, <1>9, <1>10 DEF HandedOnce, Asked, SameCommitter
  <2>3. ASSUME NEW u \in Busy', NEW v \in Busy', u # v PROVE Held(u)' # Held(v)'
    <3>1. u \in Packers /\ v \in Packers
      BY DEF Busy
    <3>2. CASE export.cancelled
      BY <2>3, <3>1, <3>2, <1>0, <1>9 DEF HandedOnce
    <3>3. CASE ~export.cancelled
      <4>1. \A x \in Busy : Held(x) # s
        BY <1>7 DEF InHand
      <4>2. CASE u = w
        BY <2>3, <3>1, <3>3, <4>1, <4>2, <1>10
      <4>3. CASE v = w
        BY <2>3, <3>1, <3>3, <4>1, <4>3, <1>10
      <4>4. CASE u # w /\ v # w
        BY <2>3, <3>1, <3>3, <4>4, <1>0, <1>10 DEF HandedOnce
      <4> QED BY <4>2, <4>3, <4>4
    <3> QED BY <3>2, <3>3
  <2> QED BY <2>1, <2>2, <2>3, <1>5 DEF HandedOnce, Asked
<1>17. BatchInOrder'
  BY <1>1, <1>3 DEF PackInv, BatchInOrder, SameCommitter, SameRun, SameChannel
<1>18. AllAccountedFor'
  <2> SUFFICES ASSUME ~export.cancelled
               PROVE  /\ Shards \subseteq ToSet(export'.feed) \union InHand' \union Delivered'
                           \union ToSet(export'.batch) \union kept'.ledger \union packLog'.failed
                      /\ export'.committed + Len(export'.batch) + export'.skipped + export'.failed
                           + Len(export'.finished) + Cardinality(Busy') + Len(export'.feed) = Cardinality(Shards)
    BY <1>3 DEF AllAccountedFor, SameRun
  <2>1. Shards \subseteq ToSet(export'.feed) \union InHand' \union Delivered'
                           \union ToSet(export'.batch) \union kept'.ledger \union packLog'.failed
    BY <1>1, <1>3, <1>5, <1>6, <1>10 DEF PackInv, AllAccountedFor, SameCommitter
  <2>2. /\ export'.committed = export.committed /\ export'.batch = export.batch
        /\ export'.skipped = export.skipped /\ export'.failed = export.failed
        /\ export'.finished = export.finished
    BY <1>3 DEF SameCounts, SameCommitter, SameChannel
  <2>3. (export'.committed - export.committed) + (Len(export'.batch) - Len(export.batch))
           + (export'.skipped - export.skipped) + (export'.failed - export.failed)
           + (Len(export'.finished) - Len(export.finished)) + (Cardinality(Busy') - Cardinality(Busy))
           + (Len(export'.feed) - Len(export.feed)) = 0
    BY <1>0, <1>5, <1>10, <2>2, CountTypes
  <2> QED BY <2>1, <2>3, <1>1, <1>13, CountKept
<1>19. PackedIsThere'
  BY <1>1, <1>3, <1>6, <1>11 DEF PackInv, PackedIsThere, Packed, SameCommitter, SameRun
<1>20. PoolLeavesLast'
  BY <1>1, <1>3, <1>12 DEF PackInv, PoolLeavesLast, SameRun
<1>21. KeepsWhole'
  BY <1>1, <1>12 DEF PackInv, KeepsWhole
<1>22. NoShardPassedOver'
  <2>1. PackTypeOK'
    BY <1>0, <1>1, <1>3, <1>13, PackTypesNext
       DEF PackInv, NoShardPassedOver, PackTypeOK, SameCommitter, SameChannel
  <2>2. RecordedIsKept' /\ CutIsRefetched' /\ CacheIsWhole'
    BY <1>1, <1>3 DEF PackInv, NoShardPassedOver, RecordedIsKept, CutIsRefetched, CacheIsWhole, SameRun
  <2>3. EndAccounts'
    BY <1>1 DEF PackInv, NoShardPassedOver, EndAccounts
  <2>4. ClosedLast'
    BY <1>1, <1>3 DEF PackInv, NoShardPassedOver, ClosedLast, SameChannel
  <2> QED BY <2>1, <2>2, <2>3, <2>4 DEF NoShardPassedOver
<1> QED BY <1>13, <1>14, <1>15, <1>16, <1>17, <1>18, <1>19, <1>20, <1>21, <1>22 DEF PackInv

\* The feeder stops, the channel is closed, the context is over: nothing moves.
LEMMA QuietKeeps ==
  ASSUME PackInv, UNCHANGED <<stored, kept, packer>>, export.up, export' \in Exports,
         SameCommitter, SameCounts, export'.feed = export.feed, export'.finished = export.finished,
         export'.up = export.up, export'.push = export.push,
         export.cancelled => export'.cancelled, export.closed => export'.closed,
         packLog' \in PackLogs, packLog'.exit = packLog.exit, packLog'.failed = packLog.failed,
         packLog'.cut = packLog.cut, PoolLeavesLast', ClosedLast'
  PROVE  PackInv'
<1>0. PackTyped
  BY DEF PackInv
<1>1. Busy' = Busy /\ InHand' = InHand /\ Sending' = Sending /\ \A w : Held(w)' = Held(w)
  BY WorkersStay
<1>2. Delivered' = Delivered /\ Oks' = Oks
  BY ResultsStay
<1>3. PackTyped'
  BY <1>0 DEF PackTyped
<1>4. AtRest'
  BY DEF PackInv, AtRest
<1>5. WorkersHold'
  BY <1>1 DEF PackInv, WorkersHold
<1>6. HandedOnce'
  BY <1>1, <1>2 DEF PackInv, HandedOnce, SameCommitter
<1>7. BatchInOrder'
  BY DEF PackInv, BatchInOrder, SameCommitter
<1>8. AllAccountedFor'
  BY <1>1, <1>2 DEF PackInv, AllAccountedFor, SameCommitter, SameCounts
<1>9. PackedIsThere'
  BY <1>1, <1>2 DEF PackInv, PackedIsThere, Packed, SameCommitter
<1>10. KeepsWhole'
  BY DEF PackInv, KeepsWhole
<1>11. NoShardPassedOver'
  <2>1. PackTypeOK'
    BY <1>3, PackTypesNext DEF PackInv, NoShardPassedOver, PackTypeOK, SameCommitter
  <2>2. RecordedIsKept' /\ CutIsRefetched' /\ CacheIsWhole' /\ EndAccounts'
    BY DEF PackInv, NoShardPassedOver, RecordedIsKept, CutIsRefetched, CacheIsWhole, EndAccounts
  <2> QED BY <2>1, <2>2 DEF NoShardPassedOver
<1> QED BY <1>3, <1>4, <1>5, <1>6, <1>7, <1>8, <1>9, <1>10, <1>11 DEF PackInv

LEMMA FeedEndsKeeps ==
  ASSUME PackInv, FeedEnds
  PROVE  PackInv'
<1>0. PackTyped /\ export \in Exports
  BY DEF PackInv, PackTyped
<1>1. /\ export.up /\ Fed /\ export' = [export EXCEPT !.feeding = FALSE]
      /\ UNCHANGED <<stored, kept, packer, packLog>>
  BY DEF FeedEnds
<1>2. /\ SameRun /\ SameCommitter /\ SameCounts /\ SameChannel /\ export'.feed = export.feed
      /\ ~export'.feeding /\ export' \in Exports
  BY <1>0, <1>1 DEF Exports, SameRun, SameCommitter, SameCounts, SameChannel
<1>3. PoolLeavesLast'
  BY <1>1, <1>2 DEF PoolLeavesLast, Fed, SameRun
<1>4. ClosedLast'
  BY <1>1, <1>2 DEF PackInv, NoShardPassedOver, ClosedLast, SameChannel
<1>5. packLog' \in PackLogs
  BY <1>0, <1>1 DEF PackTyped
<1> QED BY <1>1, <1>2, <1>3, <1>4, <1>5, QuietKeeps DEF SameRun, SameChannel

LEMMA CloseFinishedKeeps ==
  ASSUME PackInv, CloseFinished
  PROVE  PackInv'
<1>0. PackTyped /\ export \in Exports
  BY DEF PackInv, PackTyped
<1>1. /\ export.up /\ AllGone /\ export' = [export EXCEPT !.closed = TRUE]
      /\ UNCHANGED <<stored, kept, packer, packLog>>
  BY DEF CloseFinished
<1>2. /\ SameRun /\ SameCommitter /\ SameCounts /\ SameFeeder /\ export'.finished = export.finished
      /\ export'.closed /\ export' \in Exports
  BY <1>0, <1>1 DEF Exports, SameRun, SameCommitter, SameCounts, SameFeeder
<1>3. PoolLeavesLast'
  BY <1>1, <1>2 DEF PackInv, PoolLeavesLast, SameRun, SameFeeder
<1>4. ClosedLast'
  BY <1>1, <1>2, Sizes DEF PackInv, PoolLeavesLast, ClosedLast, SameRun, SameFeeder, AllGone
<1>5. packLog' \in PackLogs
  BY <1>0, <1>1 DEF PackTyped
<1> QED BY <1>1, <1>2, <1>3, <1>4, <1>5, QuietKeeps DEF SameRun, SameFeeder

LEMMA CancelExportKeeps ==
  ASSUME PackInv, CancelExport
  PROVE  PackInv'
<1>0. PackTyped /\ export \in Exports
  BY DEF PackInv, PackTyped
<1>1. /\ export.up /\ PackFault /\ export' = [export EXCEPT !.cancelled = TRUE]
      /\ UNCHANGED <<stored, kept, packer>>
  BY DEF CancelExport
<1>2. /\ SameFeeder /\ SameCommitter /\ SameCounts /\ SameChannel /\ export'.up = export.up
      /\ export'.push = export.push /\ export'.cancelled /\ export' \in Exports
  BY <1>0, <1>1 DEF Exports, SameFeeder, SameCommitter, SameCounts, SameChannel
<1>3. PoolLeavesLast'
  BY <1>2 DEF PoolLeavesLast
<1>4. ClosedLast'
  BY <1>1, <1>2 DEF PackInv, NoShardPassedOver, ClosedLast, SameChannel
<1>5. /\ packLog' \in PackLogs /\ packLog'.exit = packLog.exit
      /\ packLog'.failed = packLog.failed /\ packLog'.cut = packLog.cut
  BY <1>0, <1>1, LogChanges
<1> QED BY <1>1, <1>2, <1>3, <1>4, <1>5, QuietKeeps DEF SameFeeder, SameChannel

LEMMA NoMoreJobsKeeps ==
  ASSUME PackInv, NEW w \in Packers, NoMoreJobs(w)
  PROVE  PackInv'
<1>0. PackTyped /\ WorkersHold
  BY DEF PackInv
<1>1. /\ packer[w].at = "take" /\ export.up /\ ~export.feeding /\ Walks(w, "gone")
      /\ UNCHANGED <<stored, kept, export, packLog>>
  BY DEF NoMoreJobs
<1>2. packer[w].shard = 0
  BY <1>0, <1>1 DEF WorkersHold
<1>3. WorkerIs(w, "gone", 0)
  BY <1>0, <1>1, <1>2, WorkerBecomes DEF Places
<1>4. Busy' = Busy /\ InHand' = InHand /\ Sending' = Sending /\ \A v \in Packers : Held(v)' = Held(v)
  BY <1>0, <1>1, <1>3, GoesWithout
<1>5. /\ packer' \in [Packers -> Hands] /\ packer'[w].at = "gone" /\ packer'[w].shard = 0
      /\ \A v \in Packers : v # w => packer'[v] = packer[v]
  BY <1>3 DEF WorkerIs
<1>6. Delivered' = Delivered /\ Oks' = Oks
  BY <1>1, ResultsStay
<1>7. PackTyped'
  BY <1>0, <1>1, <1>5 DEF PackTyped, Hands, Places
<1>8. AtRest'
  BY <1>1 DEF PackInv, AtRest
<1>9. WorkersHold'
  BY <1>0, <1>4, <1>5 DEF WorkersHold
<1>10. HandedOnce'
  BY <1>1, <1>4, <1>6 DEF PackInv, HandedOnce, Busy
<1>11. BatchInOrder'
  BY <1>1 DEF PackInv, BatchInOrder
<1>12. AllAccountedFor'
  BY <1>1, <1>4, <1>6 DEF PackInv, AllAccountedFor
<1>13. PackedIsThere'
  BY <1>1, <1>4, <1>6 DEF PackInv, PackedIsThere, Packed
<1>14. PoolLeavesLast'
  BY <1>1 DEF PackInv, PoolLeavesLast
<1>15. KeepsWhole'
  BY <1>1, <1>5 DEF PackInv, KeepsWhole
<1>16. NoShardPassedOver'
  <2>1. PackTypeOK'
    BY <1>1, <1>7, PackTypesNext DEF PackInv, NoShardPassedOver, PackTypeOK
  <2>2. RecordedIsKept' /\ CutIsRefetched' /\ CacheIsWhole' /\ EndAccounts'
    BY <1>1 DEF PackInv, NoShardPassedOver, RecordedIsKept, CutIsRefetched, CacheIsWhole, EndAccounts
  <2>3. ClosedLast'
    BY <1>1, <1>5 DEF PackInv, NoShardPassedOver, ClosedLast
  <2> QED BY <2>1, <2>2, <2>3 DEF NoShardPassedOver
<1> QED BY <1>7, <1>8, <1>9, <1>10, <1>11, <1>12, <1>13, <1>14, <1>15, <1>16 DEF PackInv

LEMMA DeliverKeeps ==
  ASSUME PackInv, NEW w \in Packers, Deliver(w)
  PROVE  PackInv'
<1> DEFINE h == packer[w].shard
           r == IF h > 0 THEN [shard |-> h, how |-> "ok"] ELSE [shard |-> -h, how |-> "failed"]
<1>0. PackTyped /\ WorkersHold /\ HandedOnce /\ export \in Exports
  BY DEF PackInv, PackTyped
<1>1. /\ packer[w].at = "send" /\ SpaceLeft /\ UNCHANGED <<stored, kept, packLog>>
      /\ export' = [export EXCEPT !.finished = Append(export.finished, r)]
      /\ packer' = [packer EXCEPT ![w] = [at |-> "take", shard |-> 0]]
  BY DEF Deliver, Finished
<1>2. w \in Busy /\ Held(w) \in Shards /\ h \in Int /\ h # 0
  BY <1>0, <1>1, BusyWorkers, WorkerFields
<1>3. r \in Results /\ r.shard = Held(w) /\ r.how # "skipped" /\ (r.how = "ok" => h > 0 /\ h = Held(w))
  BY <1>2 DEF Results, Held
<1> HIDE DEF r
<1>4. export'.finished = Append(export.finished, r)
  BY <1>0, <1>1 DEF Exports
<1>5. /\ SameRun /\ SameCommitter /\ SameCounts /\ SameFeeder /\ export'.closed = export.closed
  BY <1>0, <1>1 DEF Exports, SameRun, SameCommitter, SameCounts, SameFeeder
<1>6. /\ export'.finished \in Seq(Results) /\ Len(export'.finished) = Len(export.finished) + 1
      /\ ToSet(export'.finished) = ToSet(export.finished) \union {r}
      /\ Delivered' = Delivered \union {Held(w)}
      /\ Oks' = Oks \union (IF r.how = "ok" THEN {Held(w)} ELSE {})
  BY <1>0, <1>3, <1>4, ResultComes
<1>7. WorkerIs(w, "take", 0)
  <2>1. "take" \in Places /\ 0 \in Int
    BY DEF Places
  <2> QED BY <1>0, <1>1, <2>1, WorkerBecomes
<1>8. /\ Busy' = Busy \ {w} /\ Cardinality(Busy') = Cardinality(Busy) - 1
      /\ InHand = InHand' \union {Held(w)} /\ Held(w) \notin InHand' /\ Sending' \subseteq Sending
      /\ \A v \in Packers : v # w => Held(v)' = Held(v)
  BY <1>0, <1>1, <1>7, GivesUpShard
<1>9. /\ packer' \in [Packers -> Hands] /\ packer'[w].at = "take" /\ packer'[w].shard = 0
      /\ \A v \in Packers : v # w => packer'[v] = packer[v]
  BY <1>7 DEF WorkerIs
<1>10. r.how = "ok" => Held(w) \in Sending
  BY <1>1, <1>2, <1>3 DEF Sending
<1>11. export.up /\ ~export.closed
  BY <1>1 DEF PackInv, AtRest, NoShardPassedOver, ClosedLast
<1>12. PackTyped'
  <2>1. export' \in Exports
    BY <1>0, <1>1, <1>4, <1>6 DEF Exports
  <2> QED BY <1>0, <1>1, <1>9, <2>1 DEF PackTyped, Hands, Places
<1>13. AtRest'
  BY <1>1, <1>5, <1>11 DEF PackInv, AtRest, SameRun
<1>14. WorkersHold'
  <2> SUFFICES ASSUME NEW v \in Packers
               PROVE  /\ packer'[v].at \in {"take", "gone"} => packer'[v].shard = 0
                      /\ packer'[v].at \in {"open", "read", "keep", "pack"} => packer'[v].shard \in Shards
                      /\ packer'[v].at = "send" => Held(v)' \in Shards
    BY DEF WorkersHold
  <2>1. CASE v # w
    BY <2>1, <1>0, <1>8, <1>9 DEF WorkersHold
  <2>2. CASE v = w
    BY <2>2, <1>9
  <2> QED BY <2>1, <2>2
<1>15. HandedOnce'
  <2>1. InHand' \union Delivered' \union ToSet(export'.batch) \subseteq 1 .. Asked - Len(export'.feed)
    BY <1>0, <1>5, <1>6, <1>8 DEF HandedOnce, Asked, SameCommitter, SameFeeder
  <2>2. InHand' \intersect (kept'.ledger \union Delivered' \union ToSet(export'.batch)) = {}
    BY <1>0, <1>1, <1>5, <1>6, <1>8 DEF HandedOnce, SameCommitter
  <2>3. \A u, v \in Busy' : u # v => Held(u)' # Held(v)'
    BY <1>0, <1>8 DEF HandedOnce, Busy
  <2> QED BY <2>1, <2>2, <2>3, <1>0, <1>5 DEF HandedOnce, Asked, SameFeeder
<1>16. BatchInOrder'
  BY <1>1, <1>3, <1>5, <1>6, <1>11 DEF PackInv, BatchInOrder, SameCommitter, SameRun
<1>17. AllAccountedFor'
  <2> SUFFICES ASSUME ~export.cancelled
               PROVE  /\ Shards \subseteq ToSet(export'.feed) \union InHand' \union Delivered'
                           \union ToSet(export'.batch) \union kept'.ledger \union packLog'.failed
                      /\ export'.committed + Len(export'.batch) + export'.skipped + export'.failed
                           + Len(export'.finished) + Cardinality(Busy') + Len(export'.feed) = Cardinality(Shards)
    BY <1>5 DEF AllAccountedFor, SameRun
  <2>1. Shards \subseteq ToSet(export'.feed) \union InHand' \union Delivered'
                           \union ToSet(export'.batch) \union kept'.ledger \union packLog'.failed
    BY <1>1, <1>5, <1>6, <1>8, <1>11 DEF PackInv, AllAccountedFor, SameCommitter, SameFeeder
  <2>2. /\ export'.committed = export.committed /\ export'.batch = export.batch
        /\ export'.skipped = export.skipped /\ export'.failed = export.failed
        /\ export'.feed = export.feed
    BY <1>5 DEF SameCounts, SameCommitter, SameFeeder
  <2>3. (export'.committed - export.committed) + (Len(export'.batch) - Len(export.batch))
           + (export'.skipped - export.skipped) + (export'.failed - export.failed)
           + (Len(export'.finished) - Len(export.finished)) + (Cardinality(Busy') - Cardinality(Busy))
           + (Len(export'.feed) - Len(export.feed)) = 0
    BY <1>0, <1>6, <1>8, <2>2, CountTypes
  <2> QED BY <2>1, <2>3, <1>11, <1>12, CountKept
<1>18. PackedIsThere'
  <2>1. Packed' \subseteq Packed
    BY <1>5, <1>6, <1>8, <1>10 DEF Packed, SameCommitter
  <2> QED BY <1>1, <1>5, <2>1 DEF PackInv, PackedIsThere, SameCommitter, SameRun
<1>19. PoolLeavesLast'
  BY <1>1, <1>5, <1>9 DEF PackInv, PoolLeavesLast, SameRun, SameFeeder
<1>20. KeepsWhole'
  BY <1>1, <1>9 DEF PackInv, KeepsWhole
<1>21. NoShardPassedOver'
  <2>1. PackTypeOK'
    BY <1>0, <1>1, <1>5, <1>6, <1>12, RoomLeft, PackTypesNext
       DEF PackInv, NoShardPassedOver, PackTypeOK, SameCommitter
  <2>2. RecordedIsKept' /\ CutIsRefetched' /\ CacheIsWhole'
    BY <1>1, <1>5 DEF PackInv, NoShardPassedOver, RecordedIsKept, CutIsRefetched, CacheIsWhole, SameRun
  <2>3. EndAccounts'
    BY <1>1 DEF PackInv, NoShardPassedOver, EndAccounts
  <2>4. ClosedLast'
    BY <1>5, <1>11 DEF ClosedLast
  <2> QED BY <2>1, <2>2, <2>3, <2>4 DEF NoShardPassedOver
<1> QED BY <1>12, <1>13, <1>14, <1>15, <1>16, <1>17, <1>18, <1>19, <1>20, <1>21 DEF PackInv

(* ------------------------------ the committer ----------------------------- *)
LEMMA CollectKeeps ==
  ASSUME PackInv, Collect
  PROVE  PackInv'
<1> DEFINE r == Head(export.finished)
           s == r.shard
<1>0. PackTyped /\ HandedOnce /\ BatchInOrder /\ export \in Exports
  BY DEF PackInv, PackTyped
<1>1. /\ export.up /\ export.at = "recv" /\ export.finished # <<>> /\ UNCHANGED <<stored, kept, packer>>
      /\ export' = IF r.how = "ok" THEN Batched(s)
                   ELSE IF r.how = "skipped" THEN [export EXCEPT !.finished = Tail(@), !.skipped = @ + 1]
                   ELSE [export EXCEPT !.finished = Tail(@), !.failed = @ + 1]
      /\ packLog' = IF r.how = "failed" THEN [packLog EXCEPT !.failed = @ \union {s}] ELSE packLog
  BY DEF Collect
<1>2. /\ SameRun /\ SameFeeder /\ export'.closed = export.closed /\ export'.err = export.err
      /\ export'.marked = export.marked /\ export'.committed = export.committed
      /\ export'.finished = Tail(export.finished) /\ export'.mode = export.mode
  BY <1>0, <1>1 DEF Exports, SameRun, SameFeeder, Batched
<1>3. /\ export'.finished \in Seq(Results) /\ Len(export'.finished) = Len(export.finished) - 1
      /\ Len(export.finished) \in Nat /\ r \in Results /\ r \in ToSet(export.finished)
      /\ ToSet(export'.finished) \subseteq ToSet(export.finished)
      /\ Delivered = Delivered' \union {s} /\ Oks' \subseteq Oks /\ (r.how = "ok" => s \in Oks)
  BY <1>0, <1>1, <1>2, ResultGoes
<1>4. s \in Shards /\ r.how \in {"ok", "failed", "skipped"} /\ (r.how = "skipped" => s \in kept.ledger)
  BY <1>0, <1>1, <1>3 DEF Results, BatchInOrder
<1> HIDE DEF r
<1>5. export.marked = 0 /\ Len(export.batch) < PackBatch /\ ~export.err
  BY <1>0, <1>1 DEF BatchInOrder
<1>6. /\ export.batch \in Seq(Shards) /\ Len(export.batch) \in Nat
      /\ Append(export.batch, s) \in Seq(Shards) /\ Len(Append(export.batch, s)) = Len(export.batch) + 1
      /\ ToSet(Append(export.batch, s)) = ToSet(export.batch) \union {s}
  <2>1. export.batch \in Seq(Shards)
    BY <1>0, ExportFields
  <2> QED BY <2>1, <1>4, Elements
<1>7. /\ export'.batch \in Seq(Shards) /\ Len(export'.batch) <= PackBatch
      /\ export'.at \in {"recv", "push", "mark"} /\ (export'.at = "recv" => Len(export'.batch) < PackBatch)
      /\ export'.at = "push" => export.push
      /\ export'.at = "mark" => ~export.push
      /\ ToSet(export'.batch) = ToSet(export.batch) \union (IF r.how = "ok" THEN {s} ELSE {})
      /\ export'.tries \in Nat /\ export'.skipped \in Nat /\ export'.failed \in Nat
      /\ (Len(export'.batch) - Len(export.batch)) + (export'.skipped - export.skipped)
           + (export'.failed - export.failed) = 1
  <2>0. /\ export.tries \in Nat /\ export.skipped \in Nat /\ export.failed \in Nat
        /\ PackBatch \in Nat /\ export.push \in BOOLEAN
    BY <1>0, ExportFields, Sizes
  <2>1. CASE r.how = "ok"
    <3> DEFINE batch == Append(export.batch, s)
               to == IF Len(batch) < PackBatch THEN "recv" ELSE IF export.push THEN "push" ELSE "mark"
    <3>1. /\ export'.batch = batch /\ export'.tries = 0 /\ export'.at = to
          /\ export'.skipped = export.skipped /\ export'.failed = export.failed
      BY <2>1, <1>0, <1>1 DEF Exports, Batched
    <3>2. batch \in Seq(Shards) /\ Len(batch) = Len(export.batch) + 1 /\ ToSet(batch) = ToSet(export.batch) \union {s}
      BY <1>6
    <3>3. /\ to \in {"recv", "push", "mark"} /\ (to = "recv" => Len(batch) < PackBatch)
          /\ (to = "push" => export.push) /\ (to = "mark" => ~export.push)
      OBVIOUS
    <3> HIDE DEF batch, to
    <3> QED BY <2>0, <2>1, <3>1, <3>2, <3>3, <1>5, <1>6
  <2>2. CASE r.how # "ok"
    <3>1. /\ export'.batch = export.batch /\ export'.tries = export.tries /\ export'.at = export.at
          /\ \/ export'.skipped = export.skipped + 1 /\ export'.failed = export.failed
             \/ export'.skipped = export.skipped /\ export'.failed = export.failed + 1
      BY <2>2, <1>0, <1>1 DEF Exports
    <3> QED BY <2>0, <2>2, <3>1, <1>1, <1>5, <1>6
  <2> QED BY <2>1, <2>2
<1>8. /\ packLog' \in PackLogs /\ packLog'.exit = packLog.exit /\ packLog'.cut = packLog.cut
      /\ packLog'.failed = packLog.failed \union (IF r.how = "failed" THEN {s} ELSE {})
  <2> DEFINE failed == packLog.failed \union {s}
  <2>1. failed \in SUBSET Shards
    BY <1>0, <1>4, LogFields
  <2>2. packLog' = IF r.how = "failed" THEN [packLog EXCEPT !.failed = failed] ELSE packLog
    BY <1>1
  <2>3. packLog \in PackLogs
    BY <1>0 DEF PackTyped
  <2> HIDE DEF failed
  <2>4. /\ packLog' \in PackLogs /\ packLog'.exit = packLog.exit /\ packLog'.cut = packLog.cut
        /\ packLog'.failed = IF r.how = "failed" THEN failed ELSE packLog.failed
    BY <2>1, <2>2, <2>3 DEF PackLogs
  <2> QED BY <2>4 DEF failed
<1>9. Busy' = Busy /\ InHand' = InHand /\ Sending' = Sending /\ \A w : Held(w)' = Held(w)
  BY <1>1, WorkersStay
<1> HIDE DEF s
<1>10. PackTyped'
  <2>1. /\ export.up \in BOOLEAN /\ export.mode \in PackModes /\ export.push \in BOOLEAN
        /\ export.feed \in Seq(Shards) /\ export.feeding \in BOOLEAN /\ export.closed \in BOOLEAN
        /\ export.cancelled \in BOOLEAN /\ export.marked \in Nat /\ export.committed \in Nat
        /\ export.err \in BOOLEAN
    BY <1>0, ExportFields
  <2>2. export' = [up |-> export'.up, mode |-> export'.mode, push |-> export'.push,
                   feed |-> export'.feed, feeding |-> export'.feeding, finished |-> export'.finished,
                   closed |-> export'.closed, cancelled |-> export'.cancelled, at |-> export'.at,
                   batch |-> export'.batch, marked |-> export'.marked, tries |-> export'.tries,
                   committed |-> export'.committed, skipped |-> export'.skipped,
                   failed |-> export'.failed, err |-> export'.err]
    BY <1>0, <1>1 DEF Exports, Batched
  <2>3. export' \in Exports
    BY <1>2, <1>3, <1>7, <2>1, <2>2 DEF Exports, SameRun, SameFeeder
  <2> QED BY <1>0, <1>1, <1>8, <2>3 DEF PackTyped
<1>11. AtRest'
  BY <1>1, <1>2, <1>8 DEF PackInv, AtRest, SameRun
<1>12. WorkersHold'
  BY <1>1, <1>9 DEF PackInv, WorkersHold
<1>13. HandedOnce'
  <2>1. Delivered' \union ToSet(export'.batch) \subseteq Delivered \union ToSet(export.batch)
    BY <1>3, <1>7
  <2> QED BY <1>0, <1>1, <1>2, <1>9, <2>1 DEF HandedOnce, SameFeeder
<1>14. BatchInOrder'
  <2>1. \A i \in 1 .. export'.marked : export'.batch[i] \in kept'.ledger
    BY <1>2, <1>5
  <2>2. \A q \in ToSet(export'.finished) : q.how = "skipped" => q.shard \in kept'.ledger
    BY <1>0, <1>1, <1>3 DEF BatchInOrder
  <2>3. Len(export'.batch) \in Nat
    BY <1>7
  <2> QED BY <2>1, <2>2, <2>3, <1>2, <1>5, <1>7 DEF BatchInOrder, SameRun
<1>15. AllAccountedFor'
  <2> SUFFICES ASSUME ~export.cancelled
               PROVE  /\ Shards \subseteq ToSet(export'.feed) \union InHand' \union Delivered'
                           \union ToSet(export'.batch) \union kept'.ledger \union packLog'.failed
                      /\ export'.committed + Len(export'.batch) + export'.skipped + export'.failed
                           + Len(export'.finished) + Cardinality(Busy') + Len(export'.feed) = Cardinality(Shards)
    BY <1>2 DEF AllAccountedFor, SameRun
  <2>1. Shards \subseteq ToSet(export'.feed) \union InHand' \union Delivered'
                           \union ToSet(export'.batch) \union kept'.ledger \union packLog'.failed
    <3>1. s \in ToSet(export'.batch) \union kept'.ledger \union packLog'.failed
      BY <1>1, <1>4, <1>7, <1>8
    <3>2. Shards \subseteq ToSet(export.feed) \union InHand \union Delivered \union ToSet(export.batch)
                             \union kept.ledger \union packLog.failed
      BY <1>1 DEF PackInv, AllAccountedFor
    <3>3. ToSet(export.batch) \subseteq ToSet(export'.batch) /\ packLog.failed \subseteq packLog'.failed
      BY <1>7, <1>8
    <3> QED BY <3>1, <3>2, <3>3, <1>1, <1>2, <1>3, <1>9 DEF SameFeeder
  <2>2. /\ export'.committed = export.committed /\ export'.feed = export.feed
        /\ Cardinality(Busy') = Cardinality(Busy)
    BY <1>2, <1>9 DEF SameFeeder
  <2>3. (export'.committed - export.committed) + (Len(export'.batch) - Len(export.batch))
           + (export'.skipped - export.skipped) + (export'.failed - export.failed)
           + (Len(export'.finished) - Len(export.finished)) + (Cardinality(Busy') - Cardinality(Busy))
           + (Len(export'.feed) - Len(export.feed)) = 0
    <3> DEFINE b == Len(export'.batch) - Len(export.batch)
               c == export'.skipped - export.skipped
               d == export'.failed - export.failed
               n == Len(export.finished)
               m == Len(export'.finished)
    <3>0. /\ Len(export.batch) \in Nat /\ export.skipped \in Int /\ export.failed \in Int
          /\ Len(export'.batch) \in Nat /\ export'.skipped \in Int /\ export'.failed \in Int
      BY <1>0, <1>6, <1>7, CountTypes
    <3>1. b \in Int /\ c \in Int /\ d \in Int /\ n \in Int /\ m = n - 1
      BY <1>3, <3>0
    <3>2. b + c + d = 1
      BY <1>7
    <3>3. /\ export'.committed - export.committed = 0 /\ Len(export'.feed) - Len(export.feed) = 0
          /\ Cardinality(Busy') - Cardinality(Busy) = 0
      BY <1>0, <2>2, CountTypes
    <3> HIDE DEF b, c, d, n, m
    <3>4. 0 + b + c + d + (m - n) + 0 + 0 = 0
      BY <3>1, <3>2
    <3> QED BY <3>3, <3>4 DEF b, c, d, n, m
  <2> QED BY <2>1, <2>3, <1>1, <1>10, CountKept
<1>16. PackedIsThere'
  <2>1. Packed' \subseteq Packed
    BY <1>3, <1>7, <1>9 DEF Packed
  <2> QED BY <1>1, <1>2, <1>7, <1>8, <2>1 DEF PackInv, PackedIsThere, SameRun
<1>17. PoolLeavesLast'
  BY <1>1, <1>2 DEF PackInv, PoolLeavesLast, SameRun, SameFeeder
<1>18. KeepsWhole'
  BY <1>1 DEF PackInv, KeepsWhole
<1>19. NoShardPassedOver'
  <2>1. Len(export'.finished) <= Cardinality(Packers) + PackBatch
    BY <1>3, Sizes DEF PackInv, NoShardPassedOver, PackTypeOK
  <2>2. PackTypeOK'
    BY <1>7, <1>10, <2>1, PackTypesNext
  <2>3. RecordedIsKept' /\ CutIsRefetched' /\ CacheIsWhole'
    BY <1>1, <1>2, <1>8 DEF PackInv, NoShardPassedOver, RecordedIsKept, CutIsRefetched, CacheIsWhole, SameRun
  <2>4. EndAccounts'
    BY <1>1, <1>8 DEF PackInv, NoShardPassedOver, EndAccounts, AtRest
  <2>5. ClosedLast'
    BY <1>1, <1>2 DEF PackInv, NoShardPassedOver, ClosedLast, SameFeeder, SameRun
  <2> QED BY <2>2, <2>3, <2>4, <2>5 DEF NoShardPassedOver
<1> QED BY <1>10, <1>11, <1>12, <1>13, <1>14, <1>15, <1>16, <1>17, <1>18, <1>19 DEF PackInv

\* The committer goes on with the batch it has, and the hub may have more than it had.
LEMMA CommitterKeeps ==
  ASSUME PackInv, UNCHANGED <<kept, packer>>, export.up, export' \in Exports,
         SameRun, SameFeeder, SameChannel, SameCounts,
         export'.batch = export.batch, export'.marked = export.marked,
         stored \subseteq stored', stored' \subseteq Shards, BatchInOrder',
         export.push /\ export'.at = "mark" => ToSet(export.batch) \subseteq stored' \ packLog.cut,
         packLog' \in PackLogs, packLog'.exit = packLog.exit, packLog'.failed = packLog.failed,
         packLog'.cut = packLog.cut
  PROVE  PackInv'
<1>0. PackTyped
  BY DEF PackInv
<1>1. Busy' = Busy /\ InHand' = InHand /\ Sending' = Sending /\ \A w : Held(w)' = Held(w)
  BY WorkersStay
<1>2. Delivered' = Delivered /\ Oks' = Oks
  BY ResultsStay DEF SameChannel
<1>3. PackTyped'
  BY <1>0 DEF PackTyped
<1>4. AtRest'
  BY DEF PackInv, AtRest, SameRun
<1>5. WorkersHold'
  BY <1>1 DEF PackInv, WorkersHold
<1>6. HandedOnce'
  BY <1>1, <1>2 DEF PackInv, HandedOnce, SameFeeder
<1>7. AllAccountedFor'
  BY <1>1, <1>2 DEF PackInv, AllAccountedFor, SameRun, SameFeeder, SameChannel, SameCounts
<1>8. PackedIsThere'
  BY <1>1, <1>2 DEF PackInv, PackedIsThere, Packed, SameRun
<1>9. PoolLeavesLast'
  BY DEF PackInv, PoolLeavesLast, SameRun, SameFeeder
<1>10. KeepsWhole'
  BY DEF PackInv, KeepsWhole
<1>11. NoShardPassedOver'
  <2>1. PackTypeOK'
    BY <1>3, PackTypesNext DEF PackInv, NoShardPassedOver, PackTypeOK, SameChannel
  <2>2. RecordedIsKept' /\ CutIsRefetched' /\ CacheIsWhole' /\ EndAccounts'
    BY DEF PackInv, NoShardPassedOver, RecordedIsKept, CutIsRefetched, CacheIsWhole, EndAccounts, SameRun
  <2>3. ClosedLast'
    BY DEF PackInv, NoShardPassedOver, ClosedLast, SameChannel, SameFeeder, SameRun
  <2> QED BY <2>1, <2>2, <2>3 DEF NoShardPassedOver
<1> QED BY <1>3, <1>4, <1>5, <1>6, <1>7, <1>8, <1>9, <1>10, <1>11 DEF PackInv

LEMMA LastFlushKeeps ==
  ASSUME PackInv, LastFlush
  PROVE  PackInv'
<1> DEFINE to == IF EmptyBatch THEN "gone" ELSE IF export.push THEN "push" ELSE "mark"
<1>0. PackTyped /\ BatchInOrder /\ export \in Exports /\ packLog \in PackLogs /\ stored \subseteq Shards
  BY DEF PackInv, PackTyped
<1>1. /\ export.up /\ export.at = "recv" /\ export.finished = <<>> /\ export.closed
      /\ export' = [export EXCEPT !.tries = 0, !.at = to] /\ UNCHANGED <<stored, kept, packer, packLog>>
  BY DEF LastFlush
<1>2. to \in {"gone", "push", "mark"} /\ (to = "gone" => export.batch = <<>>)
      /\ (to = "push" => export.push) /\ (to = "mark" => ~export.push)
  BY DEF EmptyBatch
<1> HIDE DEF to
<1>3. /\ SameRun /\ SameFeeder /\ SameChannel /\ SameCounts /\ export'.batch = export.batch
      /\ export'.marked = export.marked /\ export'.err = export.err /\ export'.at = to /\ export' \in Exports
  BY <1>0, <1>1, <1>2 DEF Exports, SameRun, SameFeeder, SameCounts, SameChannel
<1>4. BatchInOrder'
  BY <1>0, <1>1, <1>2, <1>3 DEF BatchInOrder, SameRun, SameChannel
<1> QED BY <1>0, <1>1, <1>2, <1>3, <1>4, CommitterKeeps

LEMMA PushBatchKeeps ==
  ASSUME PackInv, PushBatch
  PROVE  PackInv'
<1>0. PackTyped /\ BatchInOrder /\ export \in Exports /\ packLog \in PackLogs /\ stored \subseteq Shards
  BY DEF PackInv, PackTyped
<1>1. /\ export.at = "push" /\ ~export.cancelled /\ stored' = stored \union ToSet(export.batch)
      /\ export' = [export EXCEPT !.at = "mark"] /\ UNCHANGED <<kept, packer, packLog>>
  BY DEF PushBatch, Pushable
<1>2. export.up
  BY <1>1 DEF PackInv, AtRest
<1>3. /\ SameRun /\ SameFeeder /\ SameChannel /\ SameCounts /\ export'.batch = export.batch
      /\ export'.marked = export.marked /\ export'.err = export.err /\ export'.at = "mark"
      /\ export' \in Exports
  BY <1>0, <1>1 DEF Exports, SameRun, SameFeeder, SameCounts, SameChannel
<1>4. BatchInOrder'
  BY <1>0, <1>1, <1>3 DEF BatchInOrder, SameRun, SameChannel
<1>5. ToSet(export.batch) \subseteq Shards /\ ToSet(export.batch) \intersect packLog.cut = {}
  BY <1>0, <1>1, ResultSets DEF PackInv, PackedIsThere, Packed
<1> QED BY <1>0, <1>1, <1>2, <1>3, <1>4, <1>5, CommitterKeeps

\* What the committer leaves when it gives up.
LEMMA QuitsFields ==
  ASSUME export \in Exports, export' = Quits
  PROVE  /\ SameRun /\ SameFeeder /\ SameChannel /\ SameCounts /\ export'.batch = export.batch
         /\ export'.marked = export.marked /\ export'.err /\ export'.at = "gone" /\ export' \in Exports
BY DEF Quits, Exports, SameRun, SameFeeder, SameCounts, SameChannel

LEMMA PushFailsKeeps ==
  ASSUME PackInv, PushFails
  PROVE  PackInv'
<1>0. PackTyped /\ BatchInOrder /\ export \in Exports /\ packLog \in PackLogs /\ stored \subseteq Shards
  BY DEF PackInv, PackTyped
<1>1. export.at = "push" /\ UNCHANGED <<kept, packer>>
  BY DEF PushFails
<1>2. export.up
  BY <1>1 DEF PackInv, AtRest
<1>3. stored \subseteq stored' /\ stored' \subseteq Shards
  BY <1>0, ResultSets DEF PushFails
<1>4. /\ packLog' \in PackLogs /\ packLog'.exit = packLog.exit
      /\ packLog'.failed = packLog.failed /\ packLog'.cut = packLog.cut
  BY <1>0, LogChanges DEF PushFails
<1>5. /\ SameRun /\ SameFeeder /\ SameChannel /\ SameCounts /\ export'.batch = export.batch
      /\ export'.marked = export.marked /\ export' \in Exports
      /\ \/ export'.err /\ export'.at = "gone"
         \/ export'.err = export.err /\ export'.at = "push"
  <2>1. CASE export' = Quits
    BY <2>1, <1>0, QuitsFields
  <2>2. CASE export' # Quits
    <3> DEFINE tries == export.tries + 1
    <3>1. export' = [export EXCEPT !.tries = tries]
      BY <2>2 DEF PushFails
    <3>2. tries \in Nat
      BY <1>0, ExportFields
    <3> HIDE DEF tries
    <3> QED BY <3>1, <3>2, <1>0, <1>1 DEF Exports, SameRun, SameFeeder, SameCounts, SameChannel
  <2> QED BY <2>1, <2>2
<1>6. BatchInOrder'
  BY <1>0, <1>1, <1>5 DEF BatchInOrder, SameRun, SameChannel
<1> QED BY <1>0, <1>1, <1>2, <1>3, <1>4, <1>5, <1>6, CommitterKeeps

LEMMA MarkFailsKeeps ==
  ASSUME PackInv, MarkFails
  PROVE  PackInv'
<1>0. PackTyped /\ BatchInOrder /\ export \in Exports /\ stored \subseteq Shards
  BY DEF PackInv, PackTyped
<1>1. export.at = "mark" /\ PackFault /\ export' = Quits /\ UNCHANGED <<stored, kept, packer>>
  BY DEF MarkFails
<1>2. export.up
  BY <1>1 DEF PackInv, AtRest
<1>3. /\ packLog' \in PackLogs /\ packLog'.exit = packLog.exit
      /\ packLog'.failed = packLog.failed /\ packLog'.cut = packLog.cut
  BY <1>0, <1>1, LogChanges
<1>4. /\ SameRun /\ SameFeeder /\ SameChannel /\ SameCounts /\ export'.batch = export.batch
      /\ export'.marked = export.marked /\ export'.err /\ export'.at = "gone" /\ export' \in Exports
  BY <1>0, <1>1, QuitsFields
<1>5. BatchInOrder'
  BY <1>0, <1>1, <1>4 DEF BatchInOrder, SameRun, SameChannel
<1> QED BY <1>0, <1>1, <1>2, <1>3, <1>4, <1>5, CommitterKeeps

LEMMA MarkShardKeeps ==
  ASSUME PackInv, MarkShard
  PROVE  PackInv'
<1> DEFINE s == export.batch[export.marked + 1]
<1>0. PackTyped /\ BatchInOrder /\ HandedOnce /\ export \in Exports
  BY DEF PackInv, PackTyped
<1>1. /\ export.at = "mark" /\ export.marked < Len(export.batch)
      /\ kept' = [kept EXCEPT !.ledger = @ \union {s}, !.files = @ \ Spare(s)]
      /\ export' = [export EXCEPT !.marked = @ + 1] /\ UNCHANGED <<stored, packer, packLog>>
  BY DEF MarkShard
<1>2. export.up
  BY <1>1 DEF PackInv, AtRest
<1>3. /\ export.batch \in Seq(Shards) /\ export.marked \in Nat /\ Len(export.batch) \in Nat
      /\ export.marked + 1 \in 1 .. Len(export.batch)
  BY <1>0, <1>1, ExportFields
<1>4. s \in Shards /\ s \in ToSet(export.batch)
  BY <1>3, ElementAt
<1>5. /\ SameRun /\ SameFeeder /\ SameChannel /\ SameCounts /\ export'.batch = export.batch
      /\ export'.marked = export.marked + 1 /\ export'.err = export.err /\ export'.at = export.at
      /\ export' \in Exports
  <2> DEFINE marked == export.marked + 1
  <2>1. export' = [export EXCEPT !.marked = marked] /\ marked \in Nat
    BY <1>1, <1>3
  <2> HIDE DEF marked
  <2>2. /\ SameRun /\ SameFeeder /\ SameChannel /\ SameCounts /\ export'.batch = export.batch
        /\ export'.marked = marked /\ export'.err = export.err /\ export'.at = export.at
        /\ export' \in Exports
    BY <1>0, <2>1 DEF Exports, SameRun, SameFeeder, SameCounts, SameChannel
  <2> QED BY <2>2 DEF marked
<1>6. export.push => s \in stored \ packLog.cut
  BY <1>1, <1>4 DEF PackInv, PackedIsThere
<1>7. ~export.push => s \in kept.files
  BY <1>4 DEF PackInv, PackedIsThere, Packed
<1>8. Spare(s) \subseteq {s} /\ (~export.push => Spare(s) = {})
  BY DEF Spare
<1>9. \A i \in 1 .. export.marked + 1 : i = export.marked + 1 \/ i \in 1 .. export.marked
  BY <1>3
<1>10. \A i \in 1 .. export'.marked : export.batch[i] \in kept.ledger \union {s}
  BY <1>0, <1>5, <1>9 DEF BatchInOrder
<1> HIDE DEF s
<1>11. /\ kept' \in Disks /\ kept'.ledger = kept.ledger \union {s}
       /\ kept'.files = kept.files \ Spare(s) /\ kept'.cached = kept.cached /\ kept'.part = kept.part
  BY <1>0, <1>1, <1>4 DEF PackTyped, Disks
<1>12. Busy' = Busy /\ InHand' = InHand /\ Sending' = Sending /\ \A w : Held(w)' = Held(w)
  BY <1>1, WorkersStay
<1>13. Delivered' = Delivered /\ Oks' = Oks
  BY <1>5, ResultsStay DEF SameChannel
<1>14. PackTyped'
  BY <1>0, <1>1, <1>5, <1>11 DEF PackTyped
<1>15. AtRest'
  BY <1>1, <1>2, <1>5 DEF PackInv, AtRest, SameRun
<1>16. WorkersHold'
  BY <1>1, <1>12 DEF PackInv, WorkersHold
<1>17. HandedOnce'
  BY <1>0, <1>4, <1>5, <1>11, <1>12, <1>13 DEF HandedOnce, SameFeeder
<1>18. BatchInOrder'
  BY <1>0, <1>1, <1>3, <1>5, <1>10, <1>11 DEF BatchInOrder, SameRun, SameChannel
<1>19. AllAccountedFor'
  BY <1>1, <1>5, <1>11, <1>12, <1>13
     DEF PackInv, AllAccountedFor, SameRun, SameFeeder, SameChannel, SameCounts
<1>20. PackedIsThere'
  BY <1>1, <1>5, <1>8, <1>11, <1>12, <1>13 DEF PackInv, PackedIsThere, Packed, SameRun
<1>21. PoolLeavesLast' /\ KeepsWhole'
  BY <1>1, <1>5, <1>11 DEF PackInv, PoolLeavesLast, KeepsWhole, SameRun, SameFeeder
<1>22. NoShardPassedOver'
  <2>1. PackTypeOK'
    BY <1>5, <1>14, PackTypesNext DEF PackInv, NoShardPassedOver, PackTypeOK, SameChannel
  <2>2. RecordedIsKept'
    BY <1>1, <1>6, <1>7, <1>8, <1>11 DEF PackInv, NoShardPassedOver, RecordedIsKept
  <2>3. CutIsRefetched'
    BY <1>1, <1>5, <1>6, <1>11 DEF PackInv, NoShardPassedOver, CutIsRefetched, SameRun
  <2>4. CacheIsWhole' /\ EndAccounts'
    BY <1>1, <1>11 DEF PackInv, NoShardPassedOver, CacheIsWhole, EndAccounts
  <2>5. ClosedLast'
    BY <1>1, <1>5 DEF PackInv, NoShardPassedOver, ClosedLast, SameChannel, SameFeeder, SameRun
  <2> QED BY <2>1, <2>2, <2>3, <2>4, <2>5 DEF NoShardPassedOver
<1> QED BY <1>14, <1>15, <1>16, <1>17, <1>18, <1>19, <1>20, <1>21, <1>22 DEF PackInv

LEMMA BatchDoneKeeps ==
  ASSUME PackInv, BatchDone
  PROVE  PackInv'
<1>0. PackTyped /\ BatchInOrder /\ HandedOnce /\ export \in Exports
  BY DEF PackInv, PackTyped
<1>1. /\ export.at = "mark" /\ export.marked = Len(export.batch)
      /\ export' = [export EXCEPT !.committed = @ + Len(export.batch), !.batch = <<>>, !.marked = 0,
                                  !.at = "recv"]
      /\ UNCHANGED <<stored, kept, packer, packLog>>
  BY DEF BatchDone
<1>2. export.up
  BY <1>1 DEF PackInv, AtRest
<1>3. export.batch \in Seq(Shards) /\ Len(export.batch) \in Nat /\ export.committed \in Nat
  BY <1>0, ExportFields
<1>4. ToSet(export.batch) \subseteq kept.ledger
  BY <1>0, <1>1, <1>3 DEF BatchInOrder, ToSet
<1>5. /\ SameRun /\ SameFeeder /\ SameChannel /\ export'.batch = <<>> /\ export'.marked = 0
      /\ export'.err = export.err /\ export'.at = "recv" /\ export' \in Exports
      /\ export'.committed = export.committed + Len(export.batch)
      /\ export'.skipped = export.skipped /\ export'.failed = export.failed
  <2> DEFINE committed == export.committed + Len(export.batch)
  <2>1. committed \in Nat /\ <<>> \in Seq(Shards)
    BY <1>3
  <2>2. export' = [export EXCEPT !.committed = committed, !.batch = <<>>, !.marked = 0, !.at = "recv"]
    BY <1>1
  <2> HIDE DEF committed
  <2>3. /\ SameRun /\ SameFeeder /\ SameChannel /\ export'.batch = <<>> /\ export'.marked = 0
        /\ export'.err = export.err /\ export'.at = "recv" /\ export' \in Exports
        /\ export'.committed = committed
        /\ export'.skipped = export.skipped /\ export'.failed = export.failed
    BY <1>0, <2>1, <2>2 DEF Exports, SameRun, SameFeeder, SameChannel
  <2> QED BY <2>3 DEF committed
<1>6. ToSet(export'.batch) = {} /\ Len(export'.batch) = 0
  BY <1>5 DEF ToSet
<1>7. Busy' = Busy /\ InHand' = InHand /\ Sending' = Sending /\ \A w : Held(w)' = Held(w)
  BY <1>1, WorkersStay
<1>8. Delivered' = Delivered /\ Oks' = Oks
  BY <1>5, ResultsStay DEF SameChannel
<1>9. PackTyped'
  BY <1>0, <1>1, <1>5 DEF PackTyped
<1>10. AtRest'
  BY <1>1, <1>2, <1>5 DEF PackInv, AtRest, SameRun
<1>11. WorkersHold'
  BY <1>1, <1>7 DEF PackInv, WorkersHold
<1>12. HandedOnce'
  BY <1>0, <1>1, <1>5, <1>6, <1>7, <1>8 DEF HandedOnce, SameFeeder
<1>13. BatchInOrder'
  BY <1>0, <1>1, <1>5, <1>6, Sizes DEF BatchInOrder, SameRun, SameChannel
<1>14. AllAccountedFor'
  <2> SUFFICES ASSUME ~export.cancelled
               PROVE  /\ Shards \subseteq ToSet(export'.feed) \union InHand' \union Delivered'
                           \union ToSet(export'.batch) \union kept'.ledger \union packLog'.failed
                      /\ export'.committed + Len(export'.batch) + export'.skipped + export'.failed
                           + Len(export'.finished) + Cardinality(Busy') + Len(export'.feed) = Cardinality(Shards)
    BY <1>5 DEF AllAccountedFor, SameRun
  <2>1. Shards \subseteq ToSet(export'.feed) \union InHand' \union Delivered'
                           \union ToSet(export'.batch) \union kept'.ledger \union packLog'.failed
    BY <1>1, <1>2, <1>4, <1>5, <1>7, <1>8 DEF PackInv, AllAccountedFor, SameFeeder
  <2>2. /\ export'.feed = export.feed /\ export'.finished = export.finished
        /\ Cardinality(Busy') = Cardinality(Busy)
    BY <1>5, <1>7 DEF SameFeeder, SameChannel
  <2>3. (export'.committed - export.committed) + (Len(export'.batch) - Len(export.batch))
           + (export'.skipped - export.skipped) + (export'.failed - export.failed)
           + (Len(export'.finished) - Len(export.finished)) + (Cardinality(Busy') - Cardinality(Busy))
           + (Len(export'.feed) - Len(export.feed)) = 0
    BY <1>0, <1>3, <1>5, <1>6, <2>2, CountTypes
  <2> QED BY <2>1, <2>3, <1>2, <1>9, CountKept
<1>15. PackedIsThere'
  BY <1>1, <1>5, <1>6, <1>7, <1>8 DEF PackInv, PackedIsThere, Packed, SameRun
<1>16. PoolLeavesLast' /\ KeepsWhole'
  BY <1>1, <1>5 DEF PackInv, PoolLeavesLast, KeepsWhole, SameRun, SameFeeder
<1>17. NoShardPassedOver'
  <2>1. PackTypeOK'
    BY <1>5, <1>6, <1>9, PackTypesNext, Sizes DEF PackInv, NoShardPassedOver, PackTypeOK, SameChannel
  <2>2. RecordedIsKept' /\ CutIsRefetched' /\ CacheIsWhole' /\ EndAccounts'
    BY <1>1, <1>5 DEF PackInv, NoShardPassedOver, RecordedIsKept, CutIsRefetched, CacheIsWhole,
                      EndAccounts, SameRun
  <2>3. ClosedLast'
    BY <1>1, <1>5 DEF PackInv, NoShardPassedOver, ClosedLast, SameChannel, SameFeeder, SameRun
  <2> QED BY <2>1, <2>2, <2>3 DEF NoShardPassedOver
<1> QED BY <1>9, <1>10, <1>11, <1>12, <1>13, <1>14, <1>15, <1>16, <1>17 DEF PackInv

(* --------------------------- the start and the end ------------------------ *)
\* A process that was just started, or is down: only the disk and the hub have a past.
Fresh ==
  /\ \E up \in BOOLEAN, mode \in PackModes, push \in BOOLEAN :
       /\ export = IF up THEN NewExport(mode, push) ELSE [NewExport(mode, push) EXCEPT !.up = FALSE]
       /\ packer = [w \in Packers |-> [at |-> IF up THEN "take" ELSE "gone", shard |-> 0]]
       /\ up => packLog.exit = "none"
  /\ stored \subseteq Shards /\ kept \in Disks /\ packLog \in PackLogs
  /\ RecordedIsKept /\ CacheIsWhole /\ CutIsRefetched /\ EndAccounts

LEMMA WholeList ==
  ASSUME NEW feed, feed = [s \in Shards |-> s]
  PROVE  /\ feed \in Seq(Shards) /\ Len(feed) = Asked /\ ToSet(feed) = Shards
         /\ \A i \in 1 .. Asked : feed[i] = Asked - Asked + i
<1>1. feed \in [1 .. Asked -> Shards] /\ \A i \in 1 .. Asked : feed[i] = i
  BY Sizes
<1>2. feed \in Seq(Shards) /\ Len(feed) = Asked
  BY <1>1, Sizes
<1>3. ToSet(feed) = Shards
  BY <1>1, <1>2, Sizes DEF ToSet
<1> QED BY <1>1, <1>2, <1>3, Sizes

LEMMA FreshHolds ==
  ASSUME Fresh
  PROVE  PackInv
<1>1. PICK up \in BOOLEAN, mode \in PackModes, push \in BOOLEAN :
        /\ export = IF up THEN NewExport(mode, push) ELSE [NewExport(mode, push) EXCEPT !.up = FALSE]
        /\ packer = [w \in Packers |-> [at |-> IF up THEN "take" ELSE "gone", shard |-> 0]]
        /\ up => packLog.exit = "none"
  BY DEF Fresh
<1>2. /\ stored \subseteq Shards /\ kept \in Disks /\ packLog \in PackLogs
      /\ RecordedIsKept /\ CacheIsWhole /\ CutIsRefetched /\ EndAccounts
  BY DEF Fresh
<1>3. /\ export.up = up /\ export.mode = mode /\ export.push = push
      /\ export.feed = [s \in Shards |-> s] /\ export.feeding = TRUE /\ export.finished = <<>>
      /\ export.closed = FALSE /\ export.cancelled = FALSE /\ export.at = "recv"
      /\ export.batch = <<>> /\ export.marked = 0 /\ export.tries = 0 /\ export.committed = 0
      /\ export.skipped = 0 /\ export.failed = 0 /\ export.err = FALSE
  BY <1>1 DEF NewExport
<1>4. /\ export.feed \in Seq(Shards) /\ Len(export.feed) = Asked /\ ToSet(export.feed) = Shards
      /\ \A i \in 1 .. Asked : export.feed[i] = Asked - Asked + i
  BY <1>3, WholeList
<1>5. export \in Exports
  <2> DEFINE feed == export.feed
  <2>1. export = [up |-> up, mode |-> mode, push |-> push, feed |-> feed, feeding |-> TRUE,
                  finished |-> <<>>, closed |-> FALSE, cancelled |-> FALSE, at |-> "recv",
                  batch |-> <<>>, marked |-> 0, tries |-> 0, committed |-> 0, skipped |-> 0,
                  failed |-> 0, err |-> FALSE]
    BY <1>1, <1>3 DEF NewExport
  <2>2. /\ feed \in Seq(Shards) /\ <<>> \in Seq(Results) /\ <<>> \in Seq(Shards) /\ TRUE \in BOOLEAN /\ FALSE \in BOOLEAN
        /\ 0 \in Nat /\ "recv" \in {"recv", "push", "mark", "gone"}
    BY <1>4
  <2> HIDE DEF feed
  <2> QED BY <2>1, <2>2 DEF Exports
<1>6. /\ packer \in [Packers -> Hands]
      /\ \A w \in Packers : packer[w].shard = 0 /\ packer[w].at = (IF up THEN "take" ELSE "gone")
  BY <1>1 DEF Hands, Places
<1>7. Busy = {} /\ InHand = {} /\ Sending = {} /\ Cardinality(Busy) = 0
  <2>1. Busy = {}
    BY <1>6 DEF Busy
  <2> QED BY <2>1, FS_EmptySet DEF InHand, Sending
<1>8. Delivered = {} /\ Oks = {} /\ ToSet(export.finished) = {} /\ ToSet(export.batch) = {}
      /\ Len(export.finished) = 0 /\ Len(export.batch) = 0
  BY <1>3 DEF Delivered, Oks, ToSet
<1>9. PackTyped
  BY <1>2, <1>5, <1>6 DEF PackTyped, Hands, Places
<1>10. AtRest
  BY <1>1, <1>3, <1>6 DEF AtRest
<1>11. WorkersHold
  BY <1>6 DEF WorkersHold
<1>12. HandedOnce
  BY <1>3, <1>4, <1>7, <1>8, Sizes DEF HandedOnce, Asked
<1>13. BatchInOrder
  BY <1>3, <1>8, Sizes DEF BatchInOrder
<1>14. AllAccountedFor
  BY <1>3, <1>4, <1>7, <1>8, Sizes DEF AllAccountedFor, Asked
<1>15. PackedIsThere
  BY <1>3, <1>7, <1>8 DEF PackedIsThere, Packed
<1>16. PoolLeavesLast /\ KeepsWhole
  BY <1>3, <1>6 DEF PoolLeavesLast, KeepsWhole
<1>17. NoShardPassedOver
  <2>1. PackTypeOK
    BY <1>8, <1>9, PackTypes, Sizes
  <2>2. ClosedLast
    BY <1>3 DEF ClosedLast
  <2> QED BY <2>1, <2>2, <1>2 DEF NoShardPassedOver
<1> QED BY <1>9, <1>10, <1>11, <1>12, <1>13, <1>14, <1>15, <1>16, <1>17 DEF PackInv

LEMMA FreshHoldsNext ==
  ASSUME Fresh'
  PROVE  PackInv'
BY FreshHolds, PTL

LEMMA InitFresh ==
  ASSUME PackInit
  PROVE  PackInv
<1>1. PICK mode \in PackModes, push \in PackPush, past \in PackPast :
        /\ export = [NewExport(mode, push) EXCEPT !.up = FALSE]
        /\ stored = IF push THEN past ELSE {}
        /\ kept = [ledger |-> past, files |-> past \ stored, cached |-> [s \in Shards |-> "none"],
                   part |-> [s \in Shards |-> "none"]]
  BY DEF PackInit
<1>2. /\ packer = [w \in Packers |-> [at |-> "gone", shard |-> 0]]
      /\ packLog = [runs |-> 0, faults |-> 0, exit |-> "none", failed |-> {}, cut |-> {}]
  BY DEF PackInit
<1>3. mode \in PackModes /\ push \in BOOLEAN /\ past \subseteq Shards
  BY PackAssumption
<1>4. stored \subseteq Shards /\ kept \in Disks /\ packLog \in PackLogs
  BY <1>1, <1>2, <1>3 DEF Disks, PackLogs
<1>5. RecordedIsKept /\ CacheIsWhole /\ CutIsRefetched /\ EndAccounts
  BY <1>1, <1>2 DEF RecordedIsKept, CacheIsWhole, CutIsRefetched, EndAccounts
<1>6. packer = [w \in Packers |-> [at |-> IF FALSE THEN "take" ELSE "gone", shard |-> 0]]
  BY <1>2
<1>7. Fresh
  BY <1>1, <1>3, <1>4, <1>5, <1>6 DEF Fresh
<1> QED BY <1>7, FreshHolds

LEMMA LaunchKeeps ==
  ASSUME PackInv, Launch
  PROVE  PackInv'
<1>0. PackTyped /\ export \in Exports /\ packLog \in PackLogs /\ NoShardPassedOver
  BY DEF PackInv, PackTyped
<1>1. /\ export' = NewExport(export.mode, export.push)
      /\ packer' = [w \in Packers |-> [at |-> "take", shard |-> 0]]
      /\ packLog' = [packLog EXCEPT !.runs = @ + 1, !.exit = "none", !.failed = {}]
      /\ UNCHANGED <<stored, kept>>
  BY DEF Launch
<1>2. export.mode \in PackModes /\ export.push \in BOOLEAN
  BY <1>0, ExportFields
<1>3. export'.push = export.push
  BY <1>1 DEF NewExport
<1>4. packLog' \in PackLogs /\ packLog'.exit = "none" /\ packLog'.cut = packLog.cut
  <2> DEFINE runs == packLog.runs + 1
  <2>1. packLog' = [packLog EXCEPT !.runs = runs, !.exit = "none", !.failed = {}] /\ runs \in Nat
    BY <1>0, <1>1, LogFields
  <2> HIDE DEF runs
  <2> QED BY <1>0, <2>1 DEF PackLogs
<1>5. packer' = [w \in Packers |-> [at |-> IF TRUE THEN "take" ELSE "gone", shard |-> 0]]
  BY <1>1
<1>6. stored' \subseteq Shards /\ kept' \in Disks
  BY <1>0, <1>1 DEF PackTyped
<1>7. RecordedIsKept' /\ CacheIsWhole' /\ CutIsRefetched' /\ EndAccounts'
  BY <1>0, <1>1, <1>3, <1>4
     DEF NoShardPassedOver, RecordedIsKept, CacheIsWhole, CutIsRefetched, EndAccounts
<1>8. Fresh'
  <2>1. \E up \in BOOLEAN, mode \in PackModes, push \in BOOLEAN :
          /\ export' = IF up THEN NewExport(mode, push) ELSE [NewExport(mode, push) EXCEPT !.up = FALSE]
          /\ packer' = [w \in Packers |-> [at |-> IF up THEN "take" ELSE "gone", shard |-> 0]]
          /\ up => packLog'.exit = "none"
    <3>1. TRUE \in BOOLEAN
      OBVIOUS
    <3> HIDE DEF NewExport
    <3> QED BY <3>1, <1>1, <1>2, <1>4, <1>5
  <2> QED BY <2>1, <1>4, <1>6, <1>7 DEF Fresh
<1> QED BY <1>8, FreshHoldsNext

\* However it ends, what it said at the end is true.
LEMMA EndsKeeps ==
  ASSUME PackInv, NEW faults \in Nat,
         NEW exit \in {"ok", "error", "cancelled", "killed", "panic"},
         Ends(exit, faults), UNCHANGED <<stored, kept>>,
         exit = "ok" => Shards \ packLog.failed \subseteq kept.ledger
  PROVE  PackInv'
<1>0. PackTyped /\ export \in Exports /\ NoShardPassedOver
  BY DEF PackInv, PackTyped
<1>1. /\ export' = [NewExport(export.mode, export.push) EXCEPT !.up = FALSE]
      /\ packer' = [w \in Packers |-> [at |-> "gone", shard |-> 0]]
      /\ packLog' = [packLog EXCEPT !.exit = exit, !.faults = faults]
  BY DEF Ends
<1>2. export.mode \in PackModes /\ export.push \in BOOLEAN
  BY <1>0, ExportFields
<1>3. export'.push = export.push
  BY <1>1 DEF NewExport
<1>4. /\ packLog' \in PackLogs /\ packLog'.exit = exit /\ packLog'.cut = packLog.cut
      /\ packLog'.failed = packLog.failed
  BY <1>0, <1>1 DEF PackTyped, PackLogs
<1>5. packer' = [w \in Packers |-> [at |-> IF FALSE THEN "take" ELSE "gone", shard |-> 0]]
  BY <1>1
<1>6. stored' \subseteq Shards /\ kept' \in Disks
  BY <1>0 DEF PackTyped
<1>7. RecordedIsKept' /\ CacheIsWhole' /\ CutIsRefetched'
  BY <1>0, <1>3, <1>4 DEF NoShardPassedOver, RecordedIsKept, CacheIsWhole, CutIsRefetched
<1>8. EndAccounts'
  BY <1>4 DEF EndAccounts
<1>9. Fresh'
  BY <1>1, <1>2, <1>4, <1>5, <1>6, <1>7, <1>8 DEF Fresh
<1> QED BY <1>9, FreshHoldsNext

LEMMA KillExportKeeps ==
  ASSUME PackInv, KillExport
  PROVE  PackInv'
<1>1. packLog.faults + 1 \in Nat
  BY LogFields DEF PackInv
<1> QED BY <1>1, EndsKeeps DEF KillExport

LEMMA FeedPanicsKeeps ==
  ASSUME PackInv, FeedPanics
  PROVE  PackInv'
<1>1. packLog.faults \in Nat
  BY LogFields DEF PackInv
<1> QED BY <1>1, EndsKeeps DEF FeedPanics

\* At a clean end all places but the ledger are empty, so the numbers add up.
LEMMA ReportEndKeeps ==
  ASSUME PackInv, ReportEnd
  PROVE  PackInv'
<1> DEFINE exit == IF export.err THEN "error" ELSE IF export.cancelled THEN "cancelled"
                   ELSE IF Accounted THEN "ok" ELSE "short"
<1>0. PackTyped /\ WorkersHold
  BY DEF PackInv
<1>1. /\ export.up /\ export.closed /\ export.at = "gone" /\ Ends(exit, packLog.faults)
      /\ UNCHANGED <<stored, kept>>
  BY DEF ReportEnd
<1>2. ASSUME ~export.err, ~export.cancelled
      PROVE  Accounted /\ Shards \subseteq kept.ledger \union packLog.failed
  <2>1. export.finished = <<>> /\ export.batch = <<>>
    BY <1>1, <1>2 DEF PackInv, BatchInOrder
  <2>2. \A w \in Packers : packer[w].at = "gone"
    BY <1>1 DEF PackInv, NoShardPassedOver, ClosedLast
  <2>3. export.feed = <<>>
    BY <1>1, <1>2 DEF PackInv, NoShardPassedOver, ClosedLast, PoolLeavesLast
  <2>4. Busy = {} /\ InHand = {} /\ Cardinality(Busy) = 0
    <3>1. Busy = {}
      BY <1>0, <2>2 DEF Busy, WorkersHold
    <3> QED BY <3>1, FS_EmptySet DEF InHand
  <2>5. /\ Delivered = {} /\ ToSet(export.batch) = {} /\ ToSet(export.feed) = {}
        /\ Len(export.finished) = 0 /\ Len(export.batch) = 0 /\ Len(export.feed) = 0
    BY <2>1, <2>3 DEF Delivered, ToSet
  <2>6. export.committed \in Int /\ export.skipped \in Int /\ export.failed \in Int
    BY <1>0, CountTypes
  <2>7. export.committed + Len(export.batch) + export.skipped + export.failed
          + Len(export.finished) + Cardinality(Busy) + Len(export.feed) = Cardinality(Shards)
    BY <1>1, <1>2 DEF PackInv, AllAccountedFor
  <2>8. Accounted
    BY <2>4, <2>5, <2>6, <2>7 DEF Accounted
  <2> QED BY <1>1, <1>2, <2>4, <2>5, <2>8 DEF PackInv, AllAccountedFor
<1>3. exit \in {"ok", "error", "cancelled"} /\ (exit = "ok" => Shards \ packLog.failed \subseteq kept.ledger)
  BY <1>2
<1>4. packLog.faults \in Nat
  BY <1>0, LogFields
<1> HIDE DEF exit
<1> QED BY <1>1, <1>3, <1>4, EndsKeeps

(* ------------------------------- the theorems ----------------------------- *)
LEMMA WorkerKeeps ==
  ASSUME PackInv, NEW w \in Packers, PackWorker(w)
  PROVE  PackInv'
BY HandKeeps, NoMoreJobsKeeps, OpenKeeps, ReadKeeps, ReadFailsKeeps, CacheKeeps,
   PackKeeps, PackFailsKeeps, DeliverKeeps DEF PackWorker

LEMMA StutterKeeps ==
  ASSUME PackInv, UNCHANGED packVars
  PROVE  PackInv'
<1>1. UNCHANGED <<stored, kept, export, packer, packLog>>
  BY DEF packVars
<1>2. Busy' = Busy /\ InHand' = InHand /\ Sending' = Sending /\ \A w : Held(w)' = Held(w)
  BY <1>1, WorkersStay
<1>3. Delivered' = Delivered /\ Oks' = Oks
  BY <1>1, ResultsStay
<1>4. PackTyped' /\ AtRest' /\ WorkersHold' /\ HandedOnce'
  BY <1>1, <1>2, <1>3 DEF PackInv, PackTyped, AtRest, WorkersHold, HandedOnce
<1>5. BatchInOrder' /\ AllAccountedFor' /\ PackedIsThere' /\ PoolLeavesLast' /\ KeepsWhole'
  BY <1>1, <1>2, <1>3 DEF PackInv, BatchInOrder, AllAccountedFor, PackedIsThere, Packed,
                          PoolLeavesLast, KeepsWhole
<1>6. NoShardPassedOver'
  BY <1>1 DEF PackInv, NoShardPassedOver, PackTypeOK, RecordedIsKept, CacheIsWhole, CutIsRefetched,
              EndAccounts, ClosedLast
<1> QED BY <1>4, <1>5, <1>6 DEF PackInv

LEMMA PackStep ==
  ASSUME PackInv, [PackNext]_packVars
  PROVE  PackInv'
<1>1. CASE Launch
  BY <1>1, LaunchKeeps
<1>2. CASE FeedSure
  BY <1>2, FeedSkipsKeeps, FeedPanicsKeeps, FeedEndsKeeps DEF FeedSure
<1>3. CASE CommitterSure
  BY <1>3, CollectKeeps, LastFlushKeeps, PushBatchKeeps, PushFailsKeeps, MarkShardKeeps,
     BatchDoneKeeps, CloseFinishedKeeps, ReportEndKeeps DEF CommitterSure
<1>4. CASE PushFails
  BY <1>4, PushFailsKeeps
<1>5. CASE MarkFails
  BY <1>5, MarkFailsKeeps
<1>6. CASE CancelExport
  BY <1>6, CancelExportKeeps
<1>7. CASE KillExport
  BY <1>7, KillExportKeeps
<1>8. CASE \E w \in Packers : PackWorker(w)
  BY <1>8, WorkerKeeps
<1>9. CASE UNCHANGED packVars
  BY <1>9, StutterKeeps
<1> QED BY <1>1, <1>2, <1>3, <1>4, <1>5, <1>6, <1>7, <1>8, <1>9 DEF PackNext

\* Whatever fails and whenever a run is cancelled or killed (runMarkdown, Refetch): every
\* shard of the list is in one place only, the numbers of the committer say how many are
\* where, and what the ledger has is on the hub or in a file.
THEOREM PackInductive == PackSpec => []PackInv
<1>1. PackInit => PackInv
  BY InitFresh
<1>2. PackInv /\ [PackNext]_packVars => PackInv'
  BY PackStep
<1> QED BY <1>1, <1>2, PTL DEF PackSpec

\* No shard is passed over that is not done: a recorded shard's rows are kept, no torn file
\* is found in the cache, a shard that a cancel cut short is fetched again, and a run that
\* ends by itself has every shard in the ledger but those it reports as failed.
THEOREM NoShardIsPassedOver == PackSpec => []NoShardPassedOver
<1>1. PackInv => NoShardPassedOver
  BY DEF PackInv
<1> QED BY <1>1, PackInductive, PTL

-----------------------------------------------------------------------------
(* One shard: for any source, any number of converters and any room in the    *)
(* queues, the pages of a body are counted from the source through the first  *)
(* queue, the hands of the converters and the second queue into the file, and *)
(* none is lost or made on the way (ShardIsWhole).                            *)
\* The states of a page, of a converter and of the shard.
Page == [body : Nat, failed : BOOLEAN]
ConverterState == [at : {"take", "convert", "gone"}, page : Page]

ShardState ==
  [refetch : BOOLEAN, dedup : BOOLEAN, lang : BOOLEAN, limit : Nat, source : Seq(Nat),
   left : SUBSET Nat, reading : BOOLEAN, records : Seq(Page), rows : Seq(Page),
   rowsOpen : BOOLEAN, seen : SUBSET Nat, queued : Nat, digestDropped : Nat,
   langDropped : Nat, failed : Nat, counted : Nat, readErr : BOOLEAN,
   at : {"idle", "write", "drain", "ok", "error"}, cancelled : BOOLEAN]

\* What is between the source and the file: the two queues, and the converters' hands.
InHands(T) ==
  Cardinality({c \in Converters : converter[c].at = "convert" /\ converter[c].page \in T})
Flight(T) == Count(shard.records, T) + InHands(T) + Count(shard.rows, T)

\* Pages that hold a body, those whose conversion failed, and both.
AsIs(body) == {p \in Page : p.body = body /\ ~p.failed}
Failures == {p \in Page : p.failed}
OrFailed(body) == AsIs(body) \union Failures

\* Where a body is in the part of the source that was read.
ReadOf(body) == {i \in DOMAIN shard.source \ shard.left : shard.source[i] = body}
Need(body) ==
  IF shard.dedup THEN IF ReadOf(body) = {} THEN 0 ELSE 1 ELSE Cardinality(ReadOf(body))
Wanted(body) ==
  body # 0 /\ (shard.lang => body \notin OtherLang) /\ (shard.refetch \/ body \notin BlankBodies)

\* No error has happened, and nothing has been thrown away because of one.
Standing == shard.at \in {"write", "ok"}

\* The part that says of each piece of state what it may be.
ShardTyped ==
  /\ shard \in ShardState /\ shard.left \subseteq DOMAIN shard.source
  /\ converter \in [Converters -> ConverterState] /\ parquet \in Seq(Page)

\* The queues keep their bounds, and a limit is not passed.
QueuesBounded ==
  /\ Len(shard.records) <= QueueRoom /\ Len(shard.rows) <= QueueRoom
  /\ shard.limit > 0 /\ ~shard.refetch =>
       shard.queued <= shard.limit /\ (shard.reading => shard.queued < shard.limit)
  /\ shard.refetch => shard.limit = 0 /\ \A i \in DOMAIN shard.source : shard.source[i] # 0

\* The queues are closed one after the other, each when nobody sends any more.
ClosedInOrder ==
  /\ shard.at = "idle" => shard = NoShard /\ parquet = <<>> /\ EveryGone
  /\ shard.at # "idle" /\ (\E c \in Converters : converter[c].at = "gone") =>
       ~shard.reading /\ shard.records = <<>>
  /\ shard.at # "idle" /\ ~shard.rowsOpen => EveryGone
  /\ shard.at \in {"ok", "error"} => ~shard.rowsOpen /\ shard.rows = <<>>
  /\ shard.at = "ok" => ~shard.readErr
  /\ /\ shard.at # "idle" /\ ~shard.reading /\ shard.limit = 0 /\ ~shard.readErr
     /\ shard.refetch => ~shard.cancelled
     => shard.left = {}

\* A body that was read and is wanted is on its way or in the file.
KeptSoFar ==
  Standing => \A b \in Nat :
    Wanted(b) => Flight(OrFailed(b)) + Rows(b) + shard.failed >= Need(b)

\* An export has no failed pages, and has seen only what it has read; what a refetch has
\* seen it has written.
SeenIsKnown ==
  /\ ~shard.refetch => Flight(Failures) = 0 /\ \A b \in shard.seen : ReadOf(b) # {}
  /\ shard.refetch /\ Standing =>
       \A b \in shard.seen : (shard.lang => b \notin OtherLang) => Rows(b) >= 1

\* Every page of a refetch is in one place.
PagesAddUp ==
  shard.refetch /\ Standing =>
    Flight(Page) + Len(parquet) + shard.langDropped + shard.digestDropped
      = Cardinality(DOMAIN shard.source \ shard.left)

\* With duplicates dropped a body is in one place at most, and only when it was seen.
OnceOnly ==
  /\ shard.dedup => \A b \in Nat :
       (IF shard.refetch THEN 0 ELSE Flight(AsIs(b))) + Rows(b)
         <= IF b \in shard.seen THEN 1 ELSE 0
  /\ ~shard.lang => Count(parquet, Failures) = shard.failed

\* The inductive invariant.
ShardInv ==
  /\ ShardTyped /\ QueuesBounded /\ ClosedInOrder /\ KeptSoFar /\ SeenIsKnown /\ PagesAddUp
  /\ OnceOnly
-----------------------------------------------------------------------------
(* Counting. *)

LEMMA PageSets ==
  ASSUME NEW b \in Nat
  PROVE  AsIs(b) \in SUBSET Page /\ OrFailed(b) \in SUBSET Page /\ Failures \in SUBSET Page
         /\ Page \in SUBSET Page /\ AsIs(b) \subseteq OrFailed(b)
BY DEF AsIs, OrFailed, Failures

LEMMA RowsAreCounted ==
  ASSUME parquet \in Seq(Page), NEW b \in Nat
  PROVE  Rows(b) = Count(parquet, AsIs(b)) /\ Rows(b) \in Nat
<1>1. {k \in DOMAIN parquet : parquet[k].body = b /\ ~parquet[k].failed}
        = {k \in DOMAIN parquet : parquet[k] \in AsIs(b)}
  BY DEF AsIs
<1>2. Rows(b) = Count(parquet, AsIs(b))
  BY <1>1, Zenon DEF Rows, Count
<1> QED BY <1>2, CountType

LEMMA OneLess ==
  ASSUME NEW U, IsFiniteSet(U), NEW x
  PROVE  /\ IsFiniteSet(U \ {x}) /\ Cardinality(U \ {x}) \in Nat /\ Cardinality(U) \in Nat
         /\ Cardinality(U) = Cardinality(U \ {x}) + (IF x \in U THEN 1 ELSE 0)
<1>1. CASE x \in U
  BY <1>1, Smaller
<1>2. CASE x \notin U
  <2>1. U \ {x} = U
    BY <1>2
  <2>2. Cardinality(U \ {x}) = Cardinality(U) /\ IsFiniteSet(U \ {x}) /\ Cardinality(U) \in Nat
    BY <2>1, FS_CardinalityType, Zenon
  <2> QED BY <1>2, <2>2
<1> QED BY <1>1, <1>2

LEMMA InHandsType ==
  ASSUME NEW T
  PROVE  /\ InHands(T) \in Nat
         /\ IsFiniteSet({c \in Converters : converter[c].at = "convert" /\ converter[c].page \in T})
BY ShardAssumption, FS_Subset, FS_CardinalityType DEF InHands

LEMMA InHandsChanges ==
  ASSUME converter \in [Converters -> ConverterState], NEW c \in Converters, NEW x,
         converter' = [converter EXCEPT ![c] = x], NEW T
  PROVE  InHands(T)' + (IF converter[c].at = "convert" /\ converter[c].page \in T THEN 1 ELSE 0)
           = InHands(T) + (IF x.at = "convert" /\ x.page \in T THEN 1 ELSE 0)
<1> DEFINE U == {d \in Converters : converter[d].at = "convert" /\ converter[d].page \in T}
           V == {d \in Converters : converter'[d].at = "convert" /\ converter'[d].page \in T}
<1>1. U \ {c} = V \ {c}
  OBVIOUS
<1>2. /\ c \in U <=> converter[c].at = "convert" /\ converter[c].page \in T
      /\ c \in V <=> x.at = "convert" /\ x.page \in T
  OBVIOUS
<1>3. IsFiniteSet(U) /\ IsFiniteSet(V)
  BY ShardAssumption, FS_Subset
<1>4. InHands(T) = Cardinality(U) /\ InHands(T)' = Cardinality(V)
  BY DEF InHands
<1> HIDE DEF U, V
<1>5. /\ Cardinality(U) = Cardinality(U \ {c}) + (IF c \in U THEN 1 ELSE 0)
      /\ Cardinality(V) = Cardinality(V \ {c}) + (IF c \in V THEN 1 ELSE 0)
      /\ Cardinality(U \ {c}) \in Nat
  BY <1>3, OneLess
<1>6. Cardinality(U \ {c}) = Cardinality(V \ {c})
  BY <1>1, Zenon
<1> QED BY <1>2, <1>4, <1>5, <1>6

LEMMA FlightType ==
  ASSUME ShardTyped, NEW T
  PROVE  /\ Flight(T) \in Nat /\ Count(shard.records, T) \in Nat /\ InHands(T) \in Nat
         /\ Count(shard.rows, T) \in Nat /\ Count(parquet, T) \in Nat
<1>1. shard.records \in Seq(Page) /\ shard.rows \in Seq(Page) /\ parquet \in Seq(Page)
  BY DEF ShardTyped, ShardState
<1>2. Count(shard.records, T) \in Nat
  BY <1>1, CountType
<1>3. Count(shard.rows, T) \in Nat
  BY <1>1, CountType
<1>4. Count(parquet, T) \in Nat
  BY <1>1, CountType
<1>5. InHands(T) \in Nat
  BY InHandsType
<1> QED BY <1>2, <1>3, <1>4, <1>5 DEF Flight

LEMMA ReadType ==
  ASSUME ShardTyped, NEW b
  PROVE  /\ IsFiniteSet(DOMAIN shard.source) /\ IsFiniteSet(ReadOf(b))
         /\ IsFiniteSet(DOMAIN shard.source \ shard.left)
         /\ Cardinality(ReadOf(b)) \in Nat /\ Need(b) \in Nat
<1>1. shard.source \in Seq(Nat)
  BY DEF ShardTyped, ShardState
<1>2. IsFiniteSet(DOMAIN shard.source)
  BY <1>1, CountType
<1>3. IsFiniteSet(ReadOf(b)) /\ IsFiniteSet(DOMAIN shard.source \ shard.left)
  <2>1. ReadOf(b) \subseteq DOMAIN shard.source
    BY DEF ReadOf
  <2> QED BY <1>2, <2>1, FS_Subset
<1> QED BY <1>2, <1>3, FS_CardinalityType DEF Need

\* Reading one more record adds it where it belongs.
LEMMA ReadMore ==
  ASSUME ShardTyped, NEW i \in shard.left, NEW b,
         shard'.source = shard.source, shard'.left = shard.left \ {i}, shard'.dedup = shard.dedup
  PROVE  /\ Cardinality((DOMAIN shard.source \ shard.left)')
              = Cardinality(DOMAIN shard.source \ shard.left) + 1
         /\ shard.source[i] # b => ReadOf(b)' = ReadOf(b) /\ Need(b)' = Need(b)
         /\ shard.source[i] = b => ReadOf(b)' # {}
         /\ shard.source[i] = b =>
              Need(b)' = IF shard.dedup THEN 1 ELSE Need(b) + 1
<1>1. i \in DOMAIN shard.source
  BY DEF ShardTyped
<1> DEFINE R == DOMAIN shard.source \ shard.left
           R2 == DOMAIN shard'.source \ shard'.left
<1>2. R2 = R \union {i} /\ i \notin R
  BY <1>1
<1>3. IsFiniteSet(R) /\ IsFiniteSet(ReadOf(b)) /\ Cardinality(ReadOf(b)) \in Nat
  BY ReadType
<1> HIDE DEF R, R2
<1>4. Cardinality(R2) = Cardinality(R) + 1
  BY <1>2, <1>3, FS_AddElement
<1>5. CASE shard.source[i] # b
  <2>1. ReadOf(b)' = ReadOf(b)
    BY <1>2, <1>5 DEF ReadOf, R, R2
  <2> QED BY <1>4, <1>5, <2>1 DEF Need, R, R2
<1>6. CASE shard.source[i] = b
  <2>1. ReadOf(b)' = ReadOf(b) \union {i} /\ i \notin ReadOf(b)
    BY <1>2, <1>6 DEF ReadOf, R, R2
  <2>2. Cardinality(ReadOf(b) \union {i}) = Cardinality(ReadOf(b)) + 1
    BY <1>3, <2>1, FS_AddElement
  <2>3. Cardinality(ReadOf(b)') = Cardinality(ReadOf(b)) + 1
    BY <2>1, <2>2, Zenon
  <2> QED BY <1>3, <1>4, <1>6, <2>1, <2>3 DEF Need, R, R2
<1> QED BY <1>5, <1>6
-----------------------------------------------------------------------------
(* What each step moves. *)

\* What a run of the pipeline does not change.
SameShard ==
  /\ shard'.refetch = shard.refetch /\ shard'.dedup = shard.dedup /\ shard'.lang = shard.lang
  /\ shard'.limit = shard.limit /\ shard'.source = shard.source

SameCounters ==
  /\ shard'.left = shard.left /\ shard'.seen = shard.seen /\ shard'.failed = shard.failed
  /\ shard'.digestDropped = shard.digestDropped /\ shard'.langDropped = shard.langDropped
  /\ parquet' = parquet

LEMMA NothingRead ==
  ASSUME SameShard, shard'.left = shard.left, NEW b
  PROVE  /\ ReadOf(b)' = ReadOf(b) /\ Need(b)' = Need(b) /\ Wanted(b)' = Wanted(b)
         /\ Cardinality((DOMAIN shard.source \ shard.left)')
              = Cardinality(DOMAIN shard.source \ shard.left)
<1>1. ReadOf(b)' = ReadOf(b)
  BY DEF ReadOf, SameShard
<1>2. DOMAIN shard'.source \ shard'.left = DOMAIN shard.source \ shard.left
  BY DEF SameShard
<1>3. Need(b)' = Need(b)
  BY <1>1 DEF Need, SameShard
<1>4. Wanted(b)' = Wanted(b)
  BY DEF Wanted, SameShard
<1> QED BY <1>1, <1>2, <1>3, <1>4

\* A step that passes a page on, or none, keeps what is said of the pages.
LEMMA PassOn ==
  ASSUME ShardInv, ShardTyped', SameShard, SameCounters, Standing' => Standing,
         \A T \in SUBSET Page : Flight(T)' = Flight(T)
  PROVE  KeptSoFar' /\ SeenIsKnown' /\ PagesAddUp' /\ OnceOnly'
<1>1. \A b \in Nat : /\ ReadOf(b)' = ReadOf(b) /\ Need(b)' = Need(b) /\ Wanted(b)' = Wanted(b)
                     /\ Rows(b)' = Rows(b)
                     /\ Flight(OrFailed(b))' = Flight(OrFailed(b))
                     /\ Flight(AsIs(b))' = Flight(AsIs(b))
  <2> TAKE b \in Nat
  <2>1. ReadOf(b)' = ReadOf(b) /\ Need(b)' = Need(b) /\ Wanted(b)' = Wanted(b)
    BY NothingRead DEF SameCounters
  <2>2. Rows(b)' = Rows(b)
    BY DEF Rows, SameCounters
  <2>3. OrFailed(b) \in SUBSET Page /\ AsIs(b) \in SUBSET Page
    BY PageSets
  <2>4. /\ (Flight(OrFailed(b)))' = Flight(OrFailed(b))
        /\ (Flight(AsIs(b)))' = Flight(AsIs(b))
    BY <2>3 DEF OrFailed, AsIs, Failures
  <2> QED BY <2>1, <2>2, <2>4
<1>2. /\ Flight(Failures)' = Flight(Failures) /\ Flight(Page)' = Flight(Page)
  BY DEF Failures
<1>3. Cardinality((DOMAIN shard.source \ shard.left)') = Cardinality(DOMAIN shard.source \ shard.left)
  BY NothingRead DEF SameCounters
<1>4. Count(parquet, Failures)' = Count(parquet, Failures)
  BY DEF SameCounters, Failures
<1>5. KeptSoFar'
  BY <1>1 DEF KeptSoFar, ShardInv, SameCounters
<1>6. SeenIsKnown'
  <2>1. shard.seen \in SUBSET Nat
    BY DEF ShardInv, ShardTyped, ShardState
  <2> QED BY <1>1, <1>2, <2>1 DEF SeenIsKnown, ShardInv, SameCounters, SameShard
<1>7. PagesAddUp'
  BY <1>2, <1>3 DEF PagesAddUp, ShardInv, SameCounters, SameShard
<1>8. OnceOnly'
  BY <1>1, <1>4 DEF OnceOnly, ShardInv, SameCounters, SameShard
<1> QED BY <1>5, <1>6, <1>7, <1>8

Kept == KeptSoFar /\ SeenIsKnown /\ PagesAddUp /\ OnceOnly

\* Only the queues, the converters, the flags and the end of the shard are touched.
Shell ==
  /\ shard'.records = shard.records /\ shard'.rows = shard.rows /\ shard'.queued = shard.queued

LEMMA FlightStays ==
  ASSUME Shell, \A T \in SUBSET Page : InHands(T)' = InHands(T)
  PROVE  \A T \in SUBSET Page : Flight(T)' = Flight(T)
<1> TAKE T \in SUBSET Page
<1>1. Count(shard.records, T)' = Count(shard.records, T) /\ Count(shard.rows, T)' = Count(shard.rows, T)
  BY DEF Shell
<1> QED BY <1>1 DEF Flight

LEMMA InHandsStays ==
  ASSUME converter' = converter
  PROVE  \A T \in SUBSET Page : InHands(T)' = InHands(T)
BY DEF InHands

\* The flags change: the source ends or fails, the shard is cancelled, the rows are
\* closed, the shard returns.
LEMMA FlagsChange ==
  ASSUME ShardInv, SourceEnds \/ SourceFails \/ CloseRows \/ ShardReturns \/ CancelShard
  PROVE  ShardInv'
<1>1. converter' = converter /\ parquet' = parquet
  BY DEF SourceEnds, SourceFails, CloseRows, ShardReturns, CancelShard
<1>2. ShardTyped /\ shard \in ShardState
  BY DEF ShardInv, ShardTyped
<1>3. SameShard /\ SameCounters /\ Shell
  BY <1>1, <1>2 DEF SourceEnds, SourceFails, CloseRows, ShardReturns, CancelShard,
     ShardState, SameShard, SameCounters, Shell
<1>4. shard' \in ShardState
  <2>1. CASE SourceEnds
    BY <1>2, <2>1 DEF SourceEnds, ShardState
  <2>2. CASE SourceFails
    BY <1>2, <2>2 DEF SourceFails, ShardState
  <2>3. CASE CloseRows
    BY <1>2, <2>3 DEF CloseRows, ShardState
  <2>4. CASE ShardReturns
    BY <1>2, <2>4 DEF ShardReturns, ShardState
  <2>5. CASE CancelShard
    BY <1>2, <2>5 DEF CancelShard, ShardState
  <2> QED BY <2>1, <2>2, <2>3, <2>4, <2>5
<1>5. ShardTyped'
  BY <1>1, <1>2, <1>3, <1>4 DEF ShardTyped, SameShard, SameCounters
<1>6. Standing' => Standing
  BY <1>2 DEF Standing, SourceEnds, SourceFails, CloseRows, ShardReturns, CancelShard, ShardState
<1>7. \A T \in SUBSET Page : Flight(T)' = Flight(T)
  BY <1>1, <1>3, FlightStays, InHandsStays
<1>8. KeptSoFar' /\ SeenIsKnown' /\ PagesAddUp' /\ OnceOnly'
  BY <1>3, <1>5, <1>6, <1>7, PassOn
<1>9. QueuesBounded'
  <2>1. shard'.reading => shard.reading
    BY <1>2 DEF SourceEnds, SourceFails, CloseRows, ShardReturns, CancelShard, ShardState
  <2> QED BY <1>3, <2>1 DEF QueuesBounded, ShardInv, SameShard, Shell
<1>10. ClosedInOrder'
  <2>1. CASE SourceEnds
    BY <1>1, <1>2, <2>1 DEF SourceEnds, ClosedInOrder, ShardInv, ShardState, EveryGone, Reading
  <2>2. CASE SourceFails
    <3>1. /\ shard'.at = shard.at /\ shard'.cancelled = shard.cancelled
          /\ ~shard'.reading /\ shard'.readErr = ~shard.refetch /\ shard'.rowsOpen = shard.rowsOpen
          /\ shard.at # "idle"
      BY <1>2, <2>2 DEF SourceFails, ShardState, Reading
    <3>2. shard.cancelled \/ ~shard.refetch
      BY <2>2 DEF SourceFails
    <3>3. shard.at \notin {"ok", "error"}
      BY <2>2, <3>1, ShardAssumption DEF ClosedInOrder, ShardInv, EveryGone, SourceFails, Reading
    <3> QED BY <1>1, <1>2, <1>3, <3>1, <3>2, <3>3
        DEF ClosedInOrder, ShardInv, EveryGone, Shell, SameShard, SameCounters, ShardState
  <2>3. CASE CloseRows
    BY <1>1, <1>2, <2>3 DEF CloseRows, ClosedInOrder, ShardInv, ShardState, EveryGone
  <2>4. CASE ShardReturns
    <3>1. /\ shard'.at \in {"ok", "error"} /\ shard.at \in {"write", "drain"}
          /\ ~shard.rowsOpen /\ shard.rows = <<>> /\ shard'.reading = shard.reading
          /\ shard'.readErr = shard.readErr /\ shard'.rowsOpen = shard.rowsOpen
          /\ shard'.cancelled = shard.cancelled
          /\ shard'.at = "ok" => ~shard.readErr
      BY <1>2, <2>4 DEF ShardReturns, ShardState
    <3> QED BY <1>1, <1>2, <1>3, <3>1
        DEF ClosedInOrder, ShardInv, EveryGone, Shell, SameShard, SameCounters
  <2>5. CASE CancelShard
    BY <1>1, <1>2, <2>5 DEF CancelShard, ClosedInOrder, ShardInv, ShardState, EveryGone
  <2> QED BY <2>1, <2>2, <2>3, <2>4, <2>5
<1> QED BY <1>5, <1>8, <1>9, <1>10 DEF ShardInv

LEMMA ConverterLeaves ==
  ASSUME ShardInv, NEW c \in Converters, NoMorePages(c)
  PROVE  ShardInv'
<1>1. /\ shard' = shard /\ parquet' = parquet
      /\ converter[c].at = "take" /\ shard.records = <<>> /\ ~shard.reading
      /\ converter' = [converter EXCEPT ![c].at = "gone"]
  BY DEF NoMorePages
<1>2. ShardTyped /\ converter \in [Converters -> ConverterState]
  BY DEF ShardInv, ShardTyped
<1>3. converter' = [converter EXCEPT ![c] = [at |-> "gone", page |-> converter[c].page]]
  <2>1. converter[c] \in ConverterState
    BY <1>2
  <2>2. [converter[c] EXCEPT !.at = "gone"] = [at |-> "gone", page |-> converter[c].page]
    BY <2>1 DEF ConverterState
  <2>3. converter' = [converter EXCEPT ![c] = [converter[c] EXCEPT !.at = "gone"]]
    BY <1>1, <1>2
  <2> QED BY <2>2, <2>3
<1>4. \A T \in SUBSET Page : InHands(T)' = InHands(T)
  <2> TAKE T \in SUBSET Page
  <2> DEFINE x == [at |-> "gone", page |-> converter[c].page]
  <2>1. x.at = "gone" /\ converter' = [converter EXCEPT ![c] = x]
    BY <1>3
  <2> HIDE DEF x
  <2>2. InHands(T)' + 0 = InHands(T) + 0
    BY <1>1, <1>2, <2>1, InHandsChanges
  <2>3. InHands(T) \in Nat /\ InHands(T)' \in Nat
    <3>1. InHands(T)' \in Nat
      BY ShardAssumption, FS_Subset, FS_CardinalityType DEF InHands
    <3> QED BY <3>1, InHandsType
  <2> QED BY <2>2, <2>3
<1>5. SameShard /\ SameCounters /\ Shell /\ (Standing' => Standing)
  BY <1>1 DEF SameShard, SameCounters, Shell, Standing
<1>6. ShardTyped'
  BY <1>1, <1>2, <1>3 DEF ShardTyped, ConverterState
<1>7. KeptSoFar' /\ SeenIsKnown' /\ PagesAddUp' /\ OnceOnly'
  BY <1>4, <1>5, <1>6, PassOn, FlightStays
<1>8. QueuesBounded'
  BY <1>1 DEF QueuesBounded, ShardInv
<1>9. ClosedInOrder'
  BY <1>1, <1>2, <1>3 DEF ClosedInOrder, ShardInv, EveryGone
<1> QED BY <1>6, <1>7, <1>8, <1>9 DEF ShardInv

\* A converter takes the first record: it was in the queue, it is in a hand.
LEMMA PageTaken ==
  ASSUME ShardInv, NEW c \in Converters, TakePage(c)
  PROVE  ShardInv'
<1> DEFINE p == Head(shard.records)
           x == [at |-> "convert", page |-> p]
<1>1. /\ parquet' = parquet /\ converter[c].at = "take" /\ shard.records # <<>>
      /\ converter' = [converter EXCEPT ![c] = x]
      /\ shard' = [shard EXCEPT !.records = Tail(@)]
  BY DEF TakePage
<1>2. ShardTyped /\ converter \in [Converters -> ConverterState] /\ shard \in ShardState
      /\ shard.records \in Seq(Page)
  BY DEF ShardInv, ShardTyped, ShardState
<1>3. p \in Page /\ Tail(shard.records) \in Seq(Page) /\ Len(Tail(shard.records)) <= Len(shard.records)
  BY <1>1, <1>2
<1>4. x \in ConverterState /\ x.at = "convert" /\ x.page = p
  BY <1>3 DEF ConverterState
<1>5. /\ SameShard /\ SameCounters /\ shard'.records = Tail(shard.records)
      /\ shard'.rows = shard.rows /\ shard'.queued = shard.queued /\ shard'.at = shard.at
      /\ shard'.reading = shard.reading /\ shard'.rowsOpen = shard.rowsOpen
      /\ shard'.readErr = shard.readErr /\ shard'.cancelled = shard.cancelled
  BY <1>1, <1>2 DEF SameShard, SameCounters, ShardState
<1>6. shard' \in ShardState
  BY <1>1, <1>2, <1>3 DEF ShardState
<1>7. ShardTyped'
  <2>1. converter' \in [Converters -> ConverterState]
    BY <1>1, <1>2, <1>4
  <2> QED BY <1>1, <1>2, <1>5, <1>6, <2>1 DEF ShardTyped, SameShard, SameCounters
<1>8. \A T \in SUBSET Page : Flight(T)' = Flight(T)
  <2> TAKE T \in SUBSET Page
  <2> HIDE DEF x, p
  <2>1. InHands(T)' + 0 = InHands(T) + (IF p \in T THEN 1 ELSE 0)
    BY <1>1, <1>2, <1>4, InHandsChanges
  <2>2. Count(shard.records, T) = Count(Tail(shard.records), T) + (IF p \in T THEN 1 ELSE 0)
    BY <1>1, <1>2, CountTail DEF p
  <2>3. /\ Count(shard.records, T)' = Count(Tail(shard.records), T)
        /\ Count(shard.rows, T)' = Count(shard.rows, T)
    BY <1>5
  <2>4. Count(Tail(shard.records), T) \in Nat
    BY <1>3, CountType
  <2>5. InHands(T)' \in Nat /\ InHands(T) \in Nat /\ Count(shard.rows, T) \in Nat
    <3>1. InHands(T)' \in Nat
      BY ShardAssumption, FS_Subset, FS_CardinalityType DEF InHands
    <3> QED BY <1>2, <3>1, FlightType
  <2> QED BY <2>1, <2>2, <2>3, <2>4, <2>5 DEF Flight
<1>9. KeptSoFar' /\ SeenIsKnown' /\ PagesAddUp' /\ OnceOnly'
  BY <1>5, <1>7, <1>8, PassOn DEF Standing
<1>10. QueuesBounded'
  <2>1. Len(shard.records) \in Nat /\ Len(Tail(shard.records)) \in Nat /\ QueueRoom \in Nat
    BY <1>2, <1>3, ShardAssumption
  <2> QED BY <1>3, <1>5, <2>1 DEF QueuesBounded, ShardInv, SameShard
<1>11. ClosedInOrder'
  <2>1. shard.at # "idle"
    BY <1>1 DEF ClosedInOrder, ShardInv, NoShard, NewShard
  <2>2. ~\E d \in Converters : converter[d].at = "gone"
    BY <1>1, <2>1 DEF ClosedInOrder, ShardInv
  <2>3. ~\E d \in Converters : converter'[d].at = "gone"
    BY <1>1, <1>2, <1>4, <2>2
  <2>4. shard.rowsOpen
    BY <2>1, <2>2, ShardAssumption DEF ClosedInOrder, ShardInv, EveryGone
  <2> HIDE DEF x, p
  <2> QED BY <1>1, <1>5, <2>1, <2>3, <2>4 DEF ClosedInOrder, ShardInv, SameShard, SameCounters
<1> QED BY <1>7, <1>9, <1>10, <1>11 DEF ShardInv

\* A step that takes one page out of the queues.
Drops(p) == \A T \in SUBSET Page : Flight(T) = Flight(T)' + (IF p \in T THEN 1 ELSE 0)

LEMMA DropsOne ==
  ASSUME ShardTyped, ShardTyped', NEW p \in Page, Drops(p), NEW b \in Nat
  PROVE  /\ Flight(OrFailed(b)) = Flight(OrFailed(b))' + (IF p.failed \/ p.body = b THEN 1 ELSE 0)
         /\ Flight(AsIs(b)) = Flight(AsIs(b))' + (IF ~p.failed /\ p.body = b THEN 1 ELSE 0)
         /\ Flight(Failures) = Flight(Failures)' + (IF p.failed THEN 1 ELSE 0)
         /\ Flight(Page) = Flight(Page)' + 1
         /\ Flight(OrFailed(b))' \in Nat /\ Flight(AsIs(b))' \in Nat
         /\ Flight(Failures)' \in Nat /\ Flight(Page)' \in Nat
<1>1. OrFailed(b) \in SUBSET Page /\ AsIs(b) \in SUBSET Page /\ Failures \in SUBSET Page
  BY PageSets
<1>2. /\ p \in OrFailed(b) <=> p.failed \/ p.body = b
      /\ p \in AsIs(b) <=> ~p.failed /\ p.body = b
      /\ p \in Failures <=> p.failed
  BY DEF OrFailed, AsIs, Failures, Page
<1>3. \A T \in SUBSET Page : Flight(T)' \in Nat
  <2> TAKE T \in SUBSET Page
  <2>1. shard'.records \in Seq(Page) /\ shard'.rows \in Seq(Page)
    BY DEF ShardTyped, ShardState
  <2>2. Count(shard'.records, T) \in Nat
    BY <2>1, CountType
  <2>3. Count(shard'.rows, T) \in Nat
    BY <2>1, CountType
  <2>4. InHands(T)' \in Nat
    BY ShardAssumption, FS_Subset, FS_CardinalityType DEF InHands
  <2> QED BY <2>2, <2>3, <2>4 DEF Flight
<1>4. OrFailed(b)' = OrFailed(b) /\ AsIs(b)' = AsIs(b) /\ Failures' = Failures
  BY DEF OrFailed, AsIs, Failures
<1> DEFINE F == [T \in SUBSET Page |-> Flight(T)]
           G == [T \in SUBSET Page |-> Flight(T)']
<1>5. \A T \in SUBSET Page : F[T] = G[T] + (IF p \in T THEN 1 ELSE 0) /\ G[T] \in Nat
  BY <1>3 DEF Drops
<1>6. /\ F[OrFailed(b)] = Flight(OrFailed(b)) /\ G[OrFailed(b)] = Flight(OrFailed(b))'
      /\ F[AsIs(b)] = Flight(AsIs(b)) /\ G[AsIs(b)] = Flight(AsIs(b))'
      /\ F[Failures] = Flight(Failures) /\ G[Failures] = Flight(Failures)'
      /\ F[Page] = Flight(Page) /\ G[Page] = Flight(Page)'
  BY <1>1, <1>4
<1> HIDE DEF F, G
<1> QED BY <1>1, <1>2, <1>5, <1>6

\* A page of an export that says nothing goes no further.
LEMMA BlankDropped ==
  ASSUME ShardInv, NEW c \in Converters, Convert(c), ~shard.refetch,
         converter[c].page.body \in BlankBodies
  PROVE  ShardInv'
<1> DEFINE p == converter[c].page
           x == [Off[c] EXCEPT !.at = "take"]
<1>1. /\ parquet' = parquet /\ converter[c].at = "convert" /\ shard' = shard
      /\ converter' = [converter EXCEPT ![c] = x]
  BY DEF Convert
<1>2. ShardTyped /\ converter \in [Converters -> ConverterState] /\ p \in Page
  BY DEF ShardInv, ShardTyped, ConverterState
<1>3. x \in ConverterState /\ x.at = "take"
  BY DEF Off, ConverterState, Page
<1>4. ShardTyped'
  <2>1. converter' \in [Converters -> ConverterState]
    BY <1>1, <1>2, <1>3
  <2> QED BY <1>1, <1>2, <2>1 DEF ShardTyped
<1>5. Drops(p)
  <2> SUFFICES ASSUME NEW T \in SUBSET Page
               PROVE  Flight(T) = Flight(T)' + (IF p \in T THEN 1 ELSE 0)
    BY DEF Drops
  <2> HIDE DEF x
  <2>1. InHands(T)' + (IF p \in T THEN 1 ELSE 0) = InHands(T) + 0
    BY <1>1, <1>2, <1>3, InHandsChanges
  <2>2. /\ Count(shard.records, T)' = Count(shard.records, T)
        /\ Count(shard.rows, T)' = Count(shard.rows, T)
    BY <1>1
  <2>3. InHands(T)' \in Nat /\ InHands(T) \in Nat /\ Count(shard.rows, T) \in Nat
        /\ Count(shard.records, T) \in Nat
    <3>1. InHands(T)' \in Nat
      BY ShardAssumption, FS_Subset, FS_CardinalityType DEF InHands
    <3> QED BY <1>2, <3>1, FlightType
  <2> QED BY <2>1, <2>2, <2>3 DEF Flight
<1>6. SameShard /\ SameCounters
  BY <1>1 DEF SameShard, SameCounters
<1> HIDE DEF p, x
<1>7. \A b \in Nat :
        /\ Flight(OrFailed(b)) = Flight(OrFailed(b))' + (IF p.failed \/ p.body = b THEN 1 ELSE 0)
        /\ Flight(AsIs(b)) = Flight(AsIs(b))' + (IF ~p.failed /\ p.body = b THEN 1 ELSE 0)
        /\ Flight(Failures) = Flight(Failures)' + (IF p.failed THEN 1 ELSE 0)
        /\ Flight(OrFailed(b))' \in Nat /\ Flight(AsIs(b))' \in Nat
        /\ Flight(Failures)' \in Nat
  BY <1>2, <1>4, <1>5, DropsOne
<1>8. \A b \in Nat : /\ ReadOf(b)' = ReadOf(b) /\ Need(b)' = Need(b) /\ Wanted(b)' = Wanted(b)
                     /\ Rows(b)' = Rows(b) /\ Rows(b) \in Nat
  <2> TAKE b \in Nat
  <2>1. ReadOf(b)' = ReadOf(b) /\ Need(b)' = Need(b) /\ Wanted(b)' = Wanted(b)
    BY <1>6, NothingRead DEF SameCounters
  <2>2. Rows(b)' = Rows(b)
    BY <1>1 DEF Rows
  <2>3. Rows(b) \in Nat
    BY <1>2, RowsAreCounted DEF ShardTyped
  <2> QED BY <2>1, <2>2, <2>3
<1>9. 0 \in Nat /\ Flight(Failures) = 0
  BY DEF ShardInv, SeenIsKnown
<1>10. ~p.failed /\ Flight(Failures)' = 0
  BY <1>2, <1>7, <1>9 DEF Page
<1>11. KeptSoFar'
  <2> SUFFICES ASSUME Standing', NEW b \in Nat, Wanted(b)'
               PROVE  (Flight(OrFailed(b)) + Rows(b) + shard.failed >= Need(b))'
    BY DEF KeptSoFar
  <2>1. Standing /\ shard'.failed = shard.failed
    BY <1>1 DEF Standing
  <2>2. Wanted(b) /\ p.body # b
    BY <1>8 DEF Wanted, p
  <2>3. Flight(OrFailed(b)) + Rows(b) + shard.failed >= Need(b)
    BY <2>1, <2>2 DEF ShardInv, KeptSoFar
  <2>4. Flight(OrFailed(b))' = Flight(OrFailed(b))
    BY <1>7, <1>10, <2>2
  <2> QED BY <1>8, <2>1, <2>3, <2>4
<1>12. SeenIsKnown'
  <2>1. shard.seen \in SUBSET Nat
    BY DEF ShardInv, ShardTyped, ShardState
  <2>2. shard' = shard
    BY <1>1
  <2> QED BY <1>8, <1>10, <2>1, <2>2 DEF SeenIsKnown, ShardInv
<1>13. PagesAddUp'
  BY <1>1 DEF PagesAddUp
<1>14. OnceOnly'
  <2>1. Count(parquet, Failures)' = Count(parquet, Failures)
    BY <1>1 DEF Failures
  <2>2. shard' = shard
    BY <1>1
  <2>3. SUFFICES ASSUME shard.dedup, NEW b \in Nat
                 PROVE  Flight(AsIs(b))' + Rows(b)' <= IF b \in shard.seen THEN 1 ELSE 0
    BY <2>1, <2>2 DEF OnceOnly, ShardInv
  <2>4. Flight(AsIs(b)) + Rows(b) <= IF b \in shard.seen THEN 1 ELSE 0
    BY <2>3 DEF OnceOnly, ShardInv
  <2>5. /\ Flight(AsIs(b)) = Flight(AsIs(b))' + (IF ~p.failed /\ p.body = b THEN 1 ELSE 0)
        /\ Flight(AsIs(b))' \in Nat
    BY <1>7
  <2>6. Rows(b)' = Rows(b) /\ Rows(b) \in Nat
    BY <1>8
  <2> QED BY <2>4, <2>5, <2>6
<1>15. QueuesBounded'
  BY <1>1 DEF QueuesBounded, ShardInv
<1>16. ClosedInOrder'
  BY <1>1, <1>2, <1>3 DEF ClosedInOrder, ShardInv, EveryGone
<1> QED BY <1>4, <1>11, <1>12, <1>13, <1>14, <1>15, <1>16 DEF ShardInv

\* A converted page is a row in the second queue.
LEMMA PageConverted ==
  ASSUME ShardInv, NEW c \in Converters, Convert(c),
         shard.refetch \/ converter[c].page.body \notin BlankBodies
  PROVE  ShardInv'
<1> DEFINE p == converter[c].page
           x == [Off[c] EXCEPT !.at = "take"]
<1>1. /\ parquet' = parquet /\ converter[c].at = "convert"
      /\ converter' = [converter EXCEPT ![c] = x]
      /\ shard' = [shard EXCEPT !.rows = Append(@, p)] /\ Len(shard.rows) < QueueRoom
  BY DEF Convert
<1>2. ShardTyped /\ converter \in [Converters -> ConverterState] /\ p \in Page
      /\ shard \in ShardState /\ shard.rows \in Seq(Page)
  BY DEF ShardInv, ShardTyped, ConverterState, ShardState
<1>3. x \in ConverterState /\ x.at = "take"
  BY DEF Off, ConverterState, Page
<1> HIDE DEF x, p
<1>4. Append(shard.rows, p) \in Seq(Page) /\ Len(Append(shard.rows, p)) = Len(shard.rows) + 1
      /\ Len(shard.rows) \in Nat
  BY <1>2
<1>5. /\ SameShard /\ SameCounters /\ shard'.rows = Append(shard.rows, p)
      /\ shard'.records = shard.records /\ shard'.queued = shard.queued /\ shard'.at = shard.at
      /\ shard'.reading = shard.reading /\ shard'.rowsOpen = shard.rowsOpen
      /\ shard'.readErr = shard.readErr /\ shard'.cancelled = shard.cancelled
  BY <1>1, <1>2 DEF SameShard, SameCounters, ShardState
<1>6. shard' \in ShardState
  BY <1>1, <1>2, <1>4 DEF ShardState
<1>7. ShardTyped'
  <2>1. converter' \in [Converters -> ConverterState]
    BY <1>1, <1>2, <1>3
  <2> QED BY <1>1, <1>2, <1>5, <1>6, <2>1 DEF ShardTyped, SameShard, SameCounters
<1>8. \A T \in SUBSET Page : Flight(T)' = Flight(T)
  <2> TAKE T \in SUBSET Page
  <2>1. InHands(T)' + (IF p \in T THEN 1 ELSE 0) = InHands(T) + 0
    <3>1. x.at # "convert"
      BY <1>3
    <3> QED BY <1>1, <1>2, <1>3, <3>1, InHandsChanges DEF p
  <2>2. Count(Append(shard.rows, p), T) = Count(shard.rows, T) + (IF p \in T THEN 1 ELSE 0)
    BY <1>2, CountAppend
  <2>3. /\ Count(shard.rows, T)' = Count(Append(shard.rows, p), T)
        /\ Count(shard.records, T)' = Count(shard.records, T)
    BY <1>5
  <2>4. InHands(T)' \in Nat /\ InHands(T) \in Nat /\ Count(shard.rows, T) \in Nat
        /\ Count(shard.records, T) \in Nat
    <3>1. InHands(T)' \in Nat
      BY ShardAssumption, FS_Subset, FS_CardinalityType DEF InHands
    <3> QED BY <1>2, <3>1, FlightType
  <2> QED BY <2>1, <2>2, <2>3, <2>4 DEF Flight
<1>9. KeptSoFar' /\ SeenIsKnown' /\ PagesAddUp' /\ OnceOnly'
  BY <1>5, <1>7, <1>8, PassOn DEF Standing
<1>10. QueuesBounded'
  BY <1>1, <1>4, <1>5, ShardAssumption DEF QueuesBounded, ShardInv, SameShard
<1>11. ClosedInOrder'
  <2>1. shard.at # "idle" /\ ~EveryGone
    BY <1>1 DEF ClosedInOrder, ShardInv, EveryGone
  <2>2. shard.rowsOpen
    BY <2>1 DEF ClosedInOrder, ShardInv
  <2>3. \A d \in Converters : converter'[d].at = "gone" => converter[d].at = "gone"
    BY <1>1, <1>2, <1>3
  <2> QED BY <1>1, <1>5, <2>1, <2>2, <2>3 DEF ClosedInOrder, ShardInv, SameShard, SameCounters
<1> QED BY <1>7, <1>9, <1>10, <1>11 DEF ShardInv

\* Reading a row takes it out of the queues.
LEMMA RowLeaves ==
  ASSUME ShardTyped, shard.rows # <<>>, shard'.rows = Tail(shard.rows),
         shard'.records = shard.records, converter' = converter
  PROVE  /\ Drops(Head(shard.rows)) /\ Head(shard.rows) \in Page
         /\ Tail(shard.rows) \in Seq(Page) /\ Len(Tail(shard.rows)) <= Len(shard.rows)
         /\ Len(shard.rows) \in Nat /\ Len(Tail(shard.rows)) \in Nat
<1>1. shard.rows \in Seq(Page)
  BY DEF ShardTyped, ShardState
<1>2. /\ Head(shard.rows) \in Page /\ Tail(shard.rows) \in Seq(Page)
      /\ Len(Tail(shard.rows)) <= Len(shard.rows)
      /\ Len(shard.rows) \in Nat /\ Len(Tail(shard.rows)) \in Nat
  BY <1>1
<1> DEFINE p == Head(shard.rows)
<1>3. ASSUME NEW T \in SUBSET Page
      PROVE  Flight(T) = Flight(T)' + (IF p \in T THEN 1 ELSE 0)
  <2>1. InHands(T)' = InHands(T)
    BY DEF InHands
  <2>2. Count(shard.rows, T) = Count(Tail(shard.rows), T) + (IF p \in T THEN 1 ELSE 0)
    BY <1>1, CountTail
  <2> HIDE DEF p
  <2>3. /\ Count(shard.rows, T)' = Count(Tail(shard.rows), T)
        /\ Count(shard.records, T)' = Count(shard.records, T)
    OBVIOUS
  <2>4. Count(Tail(shard.rows), T) \in Nat
    BY <1>2, CountType
  <2>5. InHands(T) \in Nat /\ Count(shard.records, T) \in Nat
    BY FlightType
  <2> QED BY <2>1, <2>2, <2>3, <2>4, <2>5 DEF Flight
<1> QED BY <1>2, <1>3 DEF Drops

\* The rows of a file that failed are thrown away.
LEMMA RowThrown ==
  ASSUME ShardInv, DrainRow \/ WriteRowFails
  PROVE  ShardInv'
<1> DEFINE p == Head(shard.rows)
<1>1. ShardTyped /\ shard \in ShardState /\ shard.seen \in SUBSET Nat
  BY DEF ShardInv, ShardTyped, ShardState
<1>2. /\ converter' = converter /\ parquet' = parquet /\ shard.rows # <<>>
      /\ shard' = [shard EXCEPT !.rows = Tail(@), !.at = "drain"]
      /\ shard.at \in {"write", "drain"}
  BY <1>1 DEF DrainRow, WriteRowFails, Drains, ShardState
<1>3. /\ SameShard /\ SameCounters /\ shard'.rows = Tail(shard.rows)
      /\ shard'.records = shard.records /\ shard'.queued = shard.queued /\ shard'.at = "drain"
      /\ shard'.reading = shard.reading /\ shard'.rowsOpen = shard.rowsOpen
      /\ shard'.readErr = shard.readErr /\ shard'.cancelled = shard.cancelled
  BY <1>1, <1>2 DEF SameShard, SameCounters, ShardState
<1>4. /\ Drops(p) /\ p \in Page /\ Tail(shard.rows) \in Seq(Page)
      /\ Len(Tail(shard.rows)) <= Len(shard.rows)
      /\ Len(shard.rows) \in Nat /\ Len(Tail(shard.rows)) \in Nat
  BY <1>1, <1>2, <1>3, RowLeaves
<1>5. shard' \in ShardState
  BY <1>1, <1>2, <1>4 DEF ShardState
<1>6. ShardTyped'
  BY <1>1, <1>2, <1>3, <1>5 DEF ShardTyped, SameShard, SameCounters
<1> HIDE DEF p
<1>7. \A b \in Nat :
        /\ Flight(AsIs(b)) = Flight(AsIs(b))' + (IF ~p.failed /\ p.body = b THEN 1 ELSE 0)
        /\ Flight(Failures) = Flight(Failures)' + (IF p.failed THEN 1 ELSE 0)
        /\ Flight(AsIs(b))' \in Nat /\ Flight(Failures)' \in Nat
  BY <1>1, <1>4, <1>6, DropsOne
<1>8. \A b \in Nat : ReadOf(b)' = ReadOf(b) /\ Rows(b)' = Rows(b) /\ Rows(b) \in Nat
  <2> TAKE b \in Nat
  <2>1. ReadOf(b)' = ReadOf(b)
    BY <1>3, NothingRead DEF SameCounters
  <2>2. Rows(b)' = Rows(b)
    BY <1>2 DEF Rows
  <2>3. Rows(b) \in Nat
    BY <1>1, RowsAreCounted DEF ShardTyped
  <2> QED BY <2>1, <2>2, <2>3
<1>9. ~Standing'
  BY <1>3 DEF Standing
<1>10. KeptSoFar' /\ PagesAddUp'
  BY <1>9 DEF KeptSoFar, PagesAddUp
<1>11. SeenIsKnown'
  <2>1. ~shard.refetch => Flight(Failures)' = 0
    <3>1. 0 \in Nat /\ (~shard.refetch => Flight(Failures) = 0)
      BY DEF ShardInv, SeenIsKnown
    <3> QED BY <1>7, <3>1
  <2> QED BY <1>1, <1>3, <1>8, <1>9, <2>1 DEF SeenIsKnown, ShardInv, SameShard, SameCounters
<1>12. OnceOnly'
  <2>1. Count(parquet, Failures)' = Count(parquet, Failures)
    BY <1>2 DEF Failures
  <2>2. ASSUME shard.dedup, NEW b \in Nat
        PROVE  (IF shard.refetch THEN 0 ELSE Flight(AsIs(b))') + Rows(b)'
                 <= IF b \in shard.seen THEN 1 ELSE 0
    <3>1. (IF shard.refetch THEN 0 ELSE Flight(AsIs(b))) + Rows(b)
            <= IF b \in shard.seen THEN 1 ELSE 0
      BY <2>2 DEF OnceOnly, ShardInv
    <3>2. /\ Flight(AsIs(b)) = Flight(AsIs(b))' + (IF ~p.failed /\ p.body = b THEN 1 ELSE 0)
          /\ Flight(AsIs(b))' \in Nat
      BY <1>7
    <3>3. Rows(b)' = Rows(b) /\ Rows(b) \in Nat
      BY <1>8
    <3> QED BY <3>1, <3>2, <3>3
  <2> QED BY <1>3, <2>1, <2>2 DEF OnceOnly, ShardInv, SameShard, SameCounters
<1>13. QueuesBounded'
  BY <1>3, <1>4, ShardAssumption DEF QueuesBounded, ShardInv, SameShard
<1>14. ClosedInOrder'
  BY <1>2, <1>3 DEF ClosedInOrder, ShardInv, SameShard, SameCounters, EveryGone
<1> QED BY <1>6, <1>10, <1>11, <1>12, <1>13, <1>14 DEF ShardInv

\* The writer reads a row: it drops a duplicate or a page in another language, or writes it.
LEMMA RowRead ==
  ASSUME ShardInv, WriteRow
  PROVE  ShardInv'
<1> DEFINE p == Head(shard.rows)
           dup == Duplicate(p)
           out == ~dup /\ LangMatches(p)
<1>1. ShardTyped /\ shard \in ShardState /\ shard.seen \in SUBSET Nat /\ parquet \in Seq(Page)
  BY DEF ShardInv, ShardTyped, ShardState
<1>2. /\ converter' = converter /\ shard.rows # <<>> /\ shard.at = "write"
      /\ parquet' = IF out THEN Append(parquet, p) ELSE parquet
  BY DEF WriteRow
<1> DEFINE read == [shard EXCEPT !.rows = Tail(@), !.failed = @ + IF p.failed THEN 1 ELSE 0]
           new == [read EXCEPT !.seen = IF shard.refetch /\ ~p.failed THEN SeenToo(p.body) ELSE @]
<1>a. shard' = IF dup THEN [read EXCEPT !.digestDropped = @ + 1]
               ELSE IF ~LangMatches(p) THEN [new EXCEPT !.langDropped = @ + 1]
               ELSE [new EXCEPT !.counted = @ + IF Says(p) THEN 1 ELSE 0]
  BY DEF WriteRow
<1>b. p \in Page /\ Tail(shard.rows) \in Seq(Page)
  BY <1>1, <1>2 DEF ShardState
<1>c. out <=> ~dup /\ LangMatches(p)
  OBVIOUS
<1> HIDE DEF p, dup, out
<1>d. read \in ShardState
  <2>1. shard.failed + (IF p.failed THEN 1 ELSE 0) \in Nat
    BY <1>1 DEF ShardState
  <2> QED BY <1>1, <1>b, <2>1 DEF ShardState
<1>e. /\ read.refetch = shard.refetch /\ read.dedup = shard.dedup /\ read.lang = shard.lang
      /\ read.limit = shard.limit /\ read.source = shard.source
      /\ read.rows = Tail(shard.rows) /\ read.left = shard.left
      /\ read.records = shard.records /\ read.queued = shard.queued /\ read.at = shard.at
      /\ read.reading = shard.reading /\ read.rowsOpen = shard.rowsOpen
      /\ read.readErr = shard.readErr /\ read.cancelled = shard.cancelled
      /\ read.failed = shard.failed + (IF p.failed THEN 1 ELSE 0) /\ read.seen = shard.seen
      /\ read.digestDropped = shard.digestDropped /\ read.langDropped = shard.langDropped
  BY <1>1 DEF ShardState
<1> HIDE DEF read
<1>f. /\ new \in ShardState
      /\ new.seen = IF shard.refetch /\ ~p.failed THEN shard.seen \union {p.body} ELSE shard.seen
  BY <1>b, <1>d, <1>e, <1>1 DEF ShardState, Page, SeenToo
<1>g. /\ new.refetch = read.refetch /\ new.dedup = read.dedup /\ new.lang = read.lang
      /\ new.limit = read.limit /\ new.source = read.source
      /\ new.rows = read.rows /\ new.left = read.left
      /\ new.records = read.records /\ new.queued = read.queued /\ new.at = read.at
      /\ new.reading = read.reading /\ new.rowsOpen = read.rowsOpen
      /\ new.readErr = read.readErr /\ new.cancelled = read.cancelled
      /\ new.failed = read.failed
      /\ new.digestDropped = read.digestDropped /\ new.langDropped = read.langDropped
  BY <1>d DEF ShardState
<1> HIDE DEF new
<1>h. shard' \in ShardState
  <2>1. CASE dup
    <3>1. shard' = [read EXCEPT !.digestDropped = @ + 1]
      BY <1>a, <2>1
    <3>2. read.digestDropped + 1 \in Nat
      BY <1>d DEF ShardState
    <3> QED BY <1>d, <3>1, <3>2 DEF ShardState
  <2>2. CASE ~dup /\ ~LangMatches(p)
    <3>1. shard' = [new EXCEPT !.langDropped = @ + 1]
      BY <1>a, <2>2
    <3>2. new.langDropped + 1 \in Nat
      BY <1>f DEF ShardState
    <3> QED BY <1>f, <3>1, <3>2 DEF ShardState
  <2>3. CASE ~dup /\ LangMatches(p)
    <3>1. shard' = [new EXCEPT !.counted = @ + IF Says(p) THEN 1 ELSE 0]
      BY <1>a, <2>3
    <3>2. new.counted + (IF Says(p) THEN 1 ELSE 0) \in Nat
      BY <1>f DEF ShardState
    <3> QED BY <1>f, <3>1, <3>2 DEF ShardState
  <2> QED BY <2>1, <2>2, <2>3
<1>3. /\ SameShard /\ shard'.rows = Tail(shard.rows) /\ shard'.left = shard.left
      /\ shard'.records = shard.records /\ shard'.queued = shard.queued /\ shard'.at = "write"
      /\ shard'.reading = shard.reading /\ shard'.rowsOpen = shard.rowsOpen
      /\ shard'.readErr = shard.readErr /\ shard'.cancelled = shard.cancelled
      /\ shard'.failed = shard.failed + (IF p.failed THEN 1 ELSE 0)
      /\ shard'.seen = IF ~dup /\ shard.refetch /\ ~p.failed THEN shard.seen \union {p.body}
                       ELSE shard.seen
      /\ shard'.digestDropped = shard.digestDropped + (IF dup THEN 1 ELSE 0)
      /\ shard'.langDropped = shard.langDropped + (IF ~dup /\ ~out THEN 1 ELSE 0)
  <2>0. shard.digestDropped \in Nat /\ shard.langDropped \in Nat
    BY <1>1 DEF ShardState
  <2>1. CASE dup
    <3>1. shard' = [read EXCEPT !.digestDropped = @ + 1]
      BY <1>a, <2>1
    <3>2. /\ shard'.refetch = read.refetch /\ shard'.dedup = read.dedup /\ shard'.lang = read.lang
          /\ shard'.limit = read.limit /\ shard'.source = read.source
          /\ shard'.rows = read.rows /\ shard'.left = read.left
          /\ shard'.records = read.records /\ shard'.queued = read.queued /\ shard'.at = read.at
          /\ shard'.reading = read.reading /\ shard'.rowsOpen = read.rowsOpen
          /\ shard'.readErr = read.readErr /\ shard'.cancelled = read.cancelled
          /\ shard'.failed = read.failed /\ shard'.seen = read.seen
          /\ shard'.digestDropped = read.digestDropped + 1 /\ shard'.langDropped = read.langDropped
      BY <1>d, <3>1 DEF ShardState
    <3> QED BY <1>2, <1>e, <2>0, <2>1, <3>2 DEF SameShard
  <2>2. CASE ~dup /\ ~LangMatches(p)
    <3>1. shard' = [new EXCEPT !.langDropped = @ + 1]
      BY <1>a, <2>2
    <3>2. /\ shard'.refetch = new.refetch /\ shard'.dedup = new.dedup /\ shard'.lang = new.lang
          /\ shard'.limit = new.limit /\ shard'.source = new.source
          /\ shard'.rows = new.rows /\ shard'.left = new.left
          /\ shard'.records = new.records /\ shard'.queued = new.queued /\ shard'.at = new.at
          /\ shard'.reading = new.reading /\ shard'.rowsOpen = new.rowsOpen
          /\ shard'.readErr = new.readErr /\ shard'.cancelled = new.cancelled
          /\ shard'.failed = new.failed /\ shard'.seen = new.seen
          /\ shard'.digestDropped = new.digestDropped /\ shard'.langDropped = new.langDropped + 1
      BY <1>f, <3>1 DEF ShardState
    <3> QED BY <1>2, <1>c, <1>e, <1>f, <1>g, <2>0, <2>2, <3>2 DEF SameShard
  <2>3. CASE ~dup /\ LangMatches(p)
    <3>1. shard' = [new EXCEPT !.counted = @ + IF Says(p) THEN 1 ELSE 0]
      BY <1>a, <2>3
    <3>2. /\ shard'.refetch = new.refetch /\ shard'.dedup = new.dedup /\ shard'.lang = new.lang
          /\ shard'.limit = new.limit /\ shard'.source = new.source
          /\ shard'.rows = new.rows /\ shard'.left = new.left
          /\ shard'.records = new.records /\ shard'.queued = new.queued /\ shard'.at = new.at
          /\ shard'.reading = new.reading /\ shard'.rowsOpen = new.rowsOpen
          /\ shard'.readErr = new.readErr /\ shard'.cancelled = new.cancelled
          /\ shard'.failed = new.failed /\ shard'.seen = new.seen
          /\ shard'.digestDropped = new.digestDropped /\ shard'.langDropped = new.langDropped
      BY <1>f, <3>1 DEF ShardState
    <3> QED BY <1>2, <1>c, <1>e, <1>f, <1>g, <2>0, <2>3, <3>2 DEF SameShard
  <2> QED BY <2>1, <2>2, <2>3
<1>3a. /\ shard'.rows = Tail(shard.rows) /\ shard'.records = shard.records
       /\ converter' = converter /\ shard.rows # <<>> /\ ShardTyped
  BY <1>1, <1>2, <1>3
<1>4. /\ Drops(p) /\ p \in Page /\ Tail(shard.rows) \in Seq(Page)
      /\ Len(Tail(shard.rows)) <= Len(shard.rows)
      /\ Len(shard.rows) \in Nat /\ Len(Tail(shard.rows)) \in Nat
  BY <1>3a, RowLeaves DEF p
<1>5. shard'.seen \in SUBSET Nat /\ shard.seen \subseteq shard'.seen
  BY <1>1, <1>3, <1>4 DEF Page
<1>6. parquet' \in Seq(Page)
  BY <1>1, <1>2, <1>4
<1>8. ShardTyped'
  BY <1>1, <1>2, <1>3, <1>6, <1>h DEF ShardTyped, SameShard
<1>9. dup <=> shard.refetch /\ shard.dedup /\ ~p.failed /\ p.body \in shard.seen
  BY DEF Duplicate, dup
<1>10. LangMatches(p) <=> (shard.lang => ~p.failed /\ p.body \notin OtherLang)
  BY DEF LangMatches
<1>12. p.failed \in BOOLEAN /\ p.body \in Nat
  BY <1>4 DEF Page
<1>13. \A b \in Nat :
        /\ Flight(OrFailed(b)) = Flight(OrFailed(b))' + (IF p.failed \/ p.body = b THEN 1 ELSE 0)
        /\ Flight(AsIs(b)) = Flight(AsIs(b))' + (IF ~p.failed /\ p.body = b THEN 1 ELSE 0)
        /\ Flight(Failures) = Flight(Failures)' + (IF p.failed THEN 1 ELSE 0)
        /\ Flight(Page) = Flight(Page)' + 1
        /\ Flight(OrFailed(b))' \in Nat /\ Flight(AsIs(b))' \in Nat
        /\ Flight(Failures)' \in Nat /\ Flight(Page)' \in Nat
  BY <1>1, <1>4, <1>8, DropsOne
<1>14. \A b \in Nat :
         /\ ReadOf(b)' = ReadOf(b) /\ Need(b)' = Need(b) /\ Wanted(b)' = Wanted(b)
         /\ Rows(b) \in Nat /\ Need(b) \in Nat
         /\ Rows(b)' = Rows(b) + (IF out /\ ~p.failed /\ p.body = b THEN 1 ELSE 0)
  <2> TAKE b \in Nat
  <2>1. ReadOf(b)' = ReadOf(b) /\ Need(b)' = Need(b) /\ Wanted(b)' = Wanted(b)
    BY <1>3, NothingRead
  <2>2. Rows(b) = Count(parquet, AsIs(b)) /\ Rows(b) \in Nat
    BY <1>1, RowsAreCounted
  <2>3. Rows(b)' = Count(parquet', AsIs(b))
    <3>1. {k \in DOMAIN parquet' : parquet'[k].body = b /\ ~parquet'[k].failed}
            = {k \in DOMAIN parquet' : parquet'[k] \in AsIs(b)}
      BY <1>6 DEF AsIs
    <3> QED BY <3>1, Zenon DEF Rows, Count
  <2>4. Count(Append(parquet, p), AsIs(b)) = Count(parquet, AsIs(b)) + (IF p \in AsIs(b) THEN 1 ELSE 0)
    BY <1>1, <1>4, CountAppend
  <2>5. p \in AsIs(b) <=> ~p.failed /\ p.body = b
    BY <1>4 DEF AsIs
  <2>6. Need(b) \in Nat
    BY <1>1, ReadType
  <2>7. Rows(b)' = Rows(b) + (IF out /\ ~p.failed /\ p.body = b THEN 1 ELSE 0)
    <3>1. CASE out
      BY <1>2, <2>2, <2>3, <2>4, <2>5, <3>1
    <3>2. CASE ~out
      BY <1>2, <2>2, <2>3, <3>2
    <3> QED BY <3>1, <3>2
  <2> QED BY <2>1, <2>2, <2>6, <2>7
<1>15. /\ Count(parquet, Failures)' = Count(parquet, Failures) + (IF out /\ p.failed THEN 1 ELSE 0)
       /\ Len(parquet)' = Len(parquet) + (IF out THEN 1 ELSE 0)
       /\ Len(parquet) \in Nat /\ Count(parquet, Failures) \in Nat
  <2>1. Count(Append(parquet, p), Failures) = Count(parquet, Failures) + (IF p \in Failures THEN 1 ELSE 0)
    BY <1>1, <1>4, CountAppend
  <2>2. p \in Failures <=> p.failed
    BY <1>4 DEF Failures
  <2>3. Count(parquet, Failures)' = Count(parquet', Failures)
    BY DEF Failures
  <2>4. Len(parquet) \in Nat /\ Count(parquet, Failures) \in Nat
    <3>1. Count(parquet, Failures) \in Nat
      BY <1>1, CountType
    <3> QED BY <1>1, <3>1
  <2>5. CASE out
    BY <1>1, <1>2, <1>4, <2>1, <2>2, <2>3, <2>4, <2>5
  <2>6. CASE ~out
    BY <1>2, <2>3, <2>4, <2>6
  <2> QED BY <2>5, <2>6
<1>16. /\ shard.failed \in Nat /\ shard.langDropped \in Nat /\ shard.digestDropped \in Nat
       /\ shard.dedup \in BOOLEAN /\ shard.refetch \in BOOLEAN /\ shard.lang \in BOOLEAN
  BY <1>1 DEF ShardState
<1>17. Standing /\ Standing'
  BY <1>2, <1>3 DEF Standing
<1>18. /\ shard'.refetch = shard.refetch /\ shard'.dedup = shard.dedup /\ shard'.lang = shard.lang
       /\ shard'.source = shard.source /\ shard'.left = shard.left
       /\ shard'.failed = shard.failed + (IF p.failed THEN 1 ELSE 0)
       /\ shard'.seen = IF ~dup /\ shard.refetch /\ ~p.failed THEN shard.seen \union {p.body}
                        ELSE shard.seen
       /\ shard'.digestDropped = shard.digestDropped + (IF dup THEN 1 ELSE 0)
       /\ shard'.langDropped = shard.langDropped + (IF ~dup /\ ~out THEN 1 ELSE 0)
  BY <1>3 DEF SameShard
<1>19. KeptSoFar'
  <2> SUFFICES ASSUME NEW b \in Nat, Wanted(b)'
               PROVE  Flight(OrFailed(b))' + Rows(b)' + shard'.failed >= Need(b)'
    BY DEF KeptSoFar
  <2>1. Wanted(b) /\ Rows(b)' = Rows(b) + (IF out /\ ~p.failed /\ p.body = b THEN 1 ELSE 0)
        /\ Rows(b) \in Nat /\ Need(b) \in Nat /\ Need(b)' = Need(b)
    BY <1>14
  <2>2. Flight(OrFailed(b)) + Rows(b) + shard.failed >= Need(b)
    BY <1>17, <2>1 DEF KeptSoFar, ShardInv
  <2>3. /\ Flight(OrFailed(b)) = Flight(OrFailed(b))' + (IF p.failed \/ p.body = b THEN 1 ELSE 0)
        /\ Flight(OrFailed(b))' \in Nat
    BY <1>13
  <2>4. CASE out \/ p.failed \/ p.body # b
    BY <1>12, <1>16, <1>18, <2>1, <2>2, <2>3, <2>4
  <2>5. CASE dup /\ ~p.failed /\ p.body = b
    <3>1. Rows(b) >= 1
      BY <1>9, <1>17, <2>1, <2>5 DEF SeenIsKnown, ShardInv, Wanted
    <3>2. Need(b) <= 1
      BY <1>9, <2>5 DEF Need
    <3> QED BY <1>16, <1>18, <2>1, <2>3, <3>1, <3>2
  <2>6. CASE ~dup /\ ~out /\ ~p.failed /\ p.body = b
    BY <1>10, <1>c, <2>1, <2>6 DEF Wanted
  <2> QED BY <2>4, <2>5, <2>6
<1>20. SeenIsKnown'
  <2>1. ~shard.refetch => Flight(Failures)' = 0 /\ ~p.failed
    <3>1. 0 \in Nat /\ (~shard.refetch => Flight(Failures) = 0)
      BY DEF ShardInv, SeenIsKnown
    <3> QED BY <1>12, <1>13, <3>1
  <2>2. ~shard.refetch => \A b \in shard'.seen : ReadOf(b)' # {}
    BY <1>1, <1>14, <1>18 DEF SeenIsKnown, ShardInv
  <2>3. ASSUME shard.refetch, NEW b \in shard'.seen, shard.lang => b \notin OtherLang
        PROVE  Rows(b)' >= 1
    <3>1. CASE b \in shard.seen
      BY <1>1, <1>14, <1>17, <2>3, <3>1 DEF SeenIsKnown, ShardInv
    <3>2. CASE b \notin shard.seen
      <4>1. b = p.body /\ ~dup /\ ~p.failed
        BY <1>18, <3>2
      <4>2. out
        BY <1>10, <1>c, <2>3, <4>1
      <4> QED BY <1>12, <1>14, <4>1, <4>2
    <3> QED BY <3>1, <3>2
  <2> QED BY <1>18, <2>1, <2>2, <2>3 DEF SeenIsKnown
<1>21. PagesAddUp'
  <2> SUFFICES ASSUME shard.refetch
               PROVE  Flight(Page)' + Len(parquet)' + shard'.langDropped + shard'.digestDropped
                        = Cardinality((DOMAIN shard.source \ shard.left)')
    BY <1>18 DEF PagesAddUp
  <2>1. 0 \in Nat /\ Flight(Page) + Len(parquet) + shard.langDropped + shard.digestDropped
          = Cardinality(DOMAIN shard.source \ shard.left)
    BY <1>17 DEF PagesAddUp, ShardInv
  <2>2. Cardinality((DOMAIN shard.source \ shard.left)') = Cardinality(DOMAIN shard.source \ shard.left)
    BY <1>18
  <2>3. Flight(Page) = Flight(Page)' + 1 /\ Flight(Page)' \in Nat
    BY <1>13, <2>1
  <2>4. Len(parquet) \in Nat /\ shard.langDropped \in Nat /\ shard.digestDropped \in Nat
    BY <1>15, <1>16
  <2>5. Flight(Page)' + Len(parquet') + shard'.langDropped + shard'.digestDropped
          = Flight(Page) + Len(parquet) + shard.langDropped + shard.digestDropped
    <3>1. CASE out
      <4>1. /\ Len(parquet') = Len(parquet) + 1 /\ shard'.langDropped = shard.langDropped
            /\ shard'.digestDropped = shard.digestDropped
        BY <1>c, <1>15, <1>18, <2>4, <3>1
      <4> QED BY <2>3, <2>4, <4>1
    <3>2. CASE dup
      <4>1. /\ Len(parquet') = Len(parquet) /\ shard'.langDropped = shard.langDropped
            /\ shard'.digestDropped = shard.digestDropped + 1
        BY <1>c, <1>15, <1>18, <2>4, <3>2
      <4> QED BY <2>3, <2>4, <4>1
    <3>3. CASE ~dup /\ ~out
      <4>1. /\ Len(parquet') = Len(parquet) /\ shard'.langDropped = shard.langDropped + 1
            /\ shard'.digestDropped = shard.digestDropped
        BY <1>c, <1>15, <1>18, <2>4, <3>3
      <4> QED BY <2>3, <2>4, <4>1
    <3> QED BY <3>1, <3>2, <3>3
  <2> QED BY <2>1, <2>2, <2>5
<1>22. OnceOnly'
  <2>1. ASSUME shard.dedup, NEW b \in Nat
        PROVE  (IF shard.refetch THEN 0 ELSE Flight(AsIs(b))') + Rows(b)'
                 <= IF b \in shard'.seen THEN 1 ELSE 0
    <3>1. (IF shard.refetch THEN 0 ELSE Flight(AsIs(b))) + Rows(b)
            <= IF b \in shard.seen THEN 1 ELSE 0
      BY <2>1 DEF OnceOnly, ShardInv
    <3>2. /\ Flight(AsIs(b)) = Flight(AsIs(b))' + (IF ~p.failed /\ p.body = b THEN 1 ELSE 0)
          /\ Flight(AsIs(b))' \in Nat
      BY <1>13
    <3>3. Rows(b)' = Rows(b) + (IF out /\ ~p.failed /\ p.body = b THEN 1 ELSE 0) /\ Rows(b) \in Nat
      BY <1>14
    <3>4. CASE ~shard.refetch
      <4>1. shard'.seen = shard.seen
        BY <1>18, <3>4
      <4>2. Flight(AsIs(b)) + Rows(b) <= IF b \in shard.seen THEN 1 ELSE 0
        BY <3>1, <3>4
      <4>3. Flight(AsIs(b))' + Rows(b)' <= Flight(AsIs(b)) + Rows(b)
        BY <3>2, <3>3
      <4> QED BY <3>2, <3>3, <3>4, <4>1, <4>2, <4>3
    <3>5. CASE shard.refetch /\ ~(out /\ ~p.failed /\ p.body = b)
      <4>1. Rows(b)' = Rows(b)
        BY <3>3, <3>5
      <4>2. b \in shard.seen => b \in shard'.seen
        BY <1>5
      <4> QED BY <3>1, <3>3, <3>5, <4>1, <4>2
    <3>6. CASE shard.refetch /\ out /\ ~p.failed /\ p.body = b
      <4>1. ~dup /\ b \notin shard.seen /\ b \in shard'.seen
        BY <1>9, <1>c, <1>18, <2>1, <3>6
      <4>2. Rows(b) = 0
        BY <3>1, <3>3, <3>6, <4>1
      <4> QED BY <3>3, <3>6, <4>1, <4>2
    <3> QED BY <3>4, <3>5, <3>6, <1>16
  <2>2. ~shard.lang => Count(parquet, Failures)' = shard'.failed
    <3> SUFFICES ASSUME ~shard.lang PROVE Count(parquet, Failures)' = shard'.failed
      OBVIOUS
    <3>1. Count(parquet, Failures) = shard.failed
      BY DEF OnceOnly, ShardInv
    <3>2. p.failed => out
      BY <1>9, <1>10, <1>c
    <3> QED BY <1>15, <1>16, <1>18, <3>1, <3>2
  <2> QED BY <1>18, <2>1, <2>2 DEF OnceOnly
<1>23. QueuesBounded'
  BY <1>3, <1>4, ShardAssumption DEF QueuesBounded, ShardInv, SameShard
<1>24. ClosedInOrder'
  BY <1>2, <1>3 DEF ClosedInOrder, ShardInv, SameShard, EveryGone
<1> QED BY <1>8, <1>19, <1>20, <1>21, <1>22, <1>23, <1>24 DEF ShardInv

\* A step that puts a page into the queues.
Adds(p) == \A T \in SUBSET Page : Flight(T)' = Flight(T) + (IF p \in T THEN 1 ELSE 0)

LEMMA AddsOne ==
  ASSUME ShardTyped, NEW p \in Page, Adds(p), NEW b \in Nat
  PROVE  /\ Flight(OrFailed(b))' = Flight(OrFailed(b)) + (IF p.failed \/ p.body = b THEN 1 ELSE 0)
         /\ Flight(AsIs(b))' = Flight(AsIs(b)) + (IF ~p.failed /\ p.body = b THEN 1 ELSE 0)
         /\ Flight(Failures)' = Flight(Failures) + (IF p.failed THEN 1 ELSE 0)
         /\ Flight(Page)' = Flight(Page) + 1
         /\ Flight(OrFailed(b)) \in Nat /\ Flight(AsIs(b)) \in Nat
         /\ Flight(Failures) \in Nat /\ Flight(Page) \in Nat
<1>1. OrFailed(b) \in SUBSET Page /\ AsIs(b) \in SUBSET Page /\ Failures \in SUBSET Page
  BY PageSets
<1>2. /\ p \in OrFailed(b) <=> p.failed \/ p.body = b
      /\ p \in AsIs(b) <=> ~p.failed /\ p.body = b
      /\ p \in Failures <=> p.failed
  BY DEF OrFailed, AsIs, Failures, Page
<1>3. OrFailed(b)' = OrFailed(b) /\ AsIs(b)' = AsIs(b) /\ Failures' = Failures
  BY DEF OrFailed, AsIs, Failures
<1> DEFINE F == [T \in SUBSET Page |-> Flight(T)]
           G == [T \in SUBSET Page |-> Flight(T)']
<1>4. \A T \in SUBSET Page : G[T] = F[T] + (IF p \in T THEN 1 ELSE 0) /\ F[T] \in Nat
  BY FlightType DEF Adds
<1>5. /\ F[OrFailed(b)] = Flight(OrFailed(b)) /\ G[OrFailed(b)] = Flight(OrFailed(b))'
      /\ F[AsIs(b)] = Flight(AsIs(b)) /\ G[AsIs(b)] = Flight(AsIs(b))'
      /\ F[Failures] = Flight(Failures) /\ G[Failures] = Flight(Failures)'
      /\ F[Page] = Flight(Page) /\ G[Page] = Flight(Page)'
  BY <1>1, <1>3
<1> HIDE DEF F, G
<1> QED BY <1>1, <1>2, <1>4, <1>5

LEMMA PageArrives ==
  ASSUME ShardTyped, NEW p \in Page, shard'.records = Append(shard.records, p),
         shard'.rows = shard.rows, converter' = converter
  PROVE  /\ Adds(p) /\ Append(shard.records, p) \in Seq(Page)
         /\ Len(Append(shard.records, p)) = Len(shard.records) + 1 /\ Len(shard.records) \in Nat
<1>1. shard.records \in Seq(Page)
  BY DEF ShardTyped, ShardState
<1>2. ASSUME NEW T \in SUBSET Page
      PROVE  Flight(T)' = Flight(T) + (IF p \in T THEN 1 ELSE 0)
  <2>1. InHands(T)' = InHands(T)
    BY DEF InHands
  <2>2. Count(Append(shard.records, p), T) = Count(shard.records, T) + (IF p \in T THEN 1 ELSE 0)
    BY <1>1, CountAppend
  <2>3. /\ Count(shard.rows, T)' = Count(shard.rows, T)
        /\ Count(shard.records, T)' = Count(Append(shard.records, p), T)
    OBVIOUS
  <2>4. InHands(T) \in Nat /\ Count(shard.records, T) \in Nat /\ Count(shard.rows, T) \in Nat
    BY FlightType
  <2> QED BY <2>1, <2>2, <2>3, <2>4 DEF Flight
<1> QED BY <1>1, <1>2 DEF Adds

\* A page that was read and queued is no more missed than before.
LEMMA StillKept ==
  ASSUME ShardInv, SameShard, NEW i \in shard.left, shard'.left = shard.left \ {i},
         NEW p \in Page, Adds(p), p.body = shard.source[i],
         shard'.failed = shard.failed, parquet' = parquet, shard'.at = shard.at
  PROVE  KeptSoFar'
<1> SUFFICES ASSUME Standing', NEW b \in Nat, Wanted(b)'
             PROVE  Flight(OrFailed(b))' + Rows(b)' + shard'.failed >= Need(b)'
  BY DEF KeptSoFar
<1>1. ShardTyped /\ shard.failed \in Nat /\ parquet \in Seq(Page)
  BY DEF ShardInv, ShardTyped, ShardState
<1>2. Standing /\ Wanted(b)
  BY DEF Standing, Wanted, SameShard
<1>3. 0 \in Nat /\ Flight(OrFailed(b)) + Rows(b) + shard.failed >= Need(b)
  BY <1>2 DEF ShardInv, KeptSoFar
<1>4. Rows(b)' = Rows(b) /\ Rows(b) \in Nat
  <2>1. Rows(b)' = Rows(b)
    BY DEF Rows
  <2> QED BY <1>1, <2>1, RowsAreCounted
<1>5. /\ Flight(OrFailed(b))' = Flight(OrFailed(b)) + (IF p.failed \/ p.body = b THEN 1 ELSE 0)
      /\ Flight(OrFailed(b)) \in Nat
  BY <1>1, AddsOne
<1>6. /\ shard.source[i] # b => Need(b)' = Need(b)
      /\ shard.source[i] = b => Need(b)' = IF shard.dedup THEN 1 ELSE Need(b) + 1
  BY <1>1, ReadMore DEF SameShard
<1>7. Need(b) \in Nat
  BY <1>1, ReadType
<1>8. CASE p.body # b
  <2>1. Need(b)' = Need(b)
    BY <1>6, <1>8
  <2> QED BY <1>1, <1>3, <1>4, <1>5, <1>7, <2>1
<1>9. CASE p.body = b
  <2>1. Need(b)' = IF shard.dedup THEN 1 ELSE Need(b) + 1
    BY <1>6, <1>9
  <2>2. Flight(OrFailed(b))' = Flight(OrFailed(b)) + 1
    BY <1>5, <1>9
  <2> QED BY <1>1, <1>3, <1>4, <1>5, <1>7, <2>1, <2>2
<1> QED BY <1>8, <1>9

\* While the source is read nobody has left, and nothing is closed.
LEMMA StillOpen ==
  ASSUME ShardInv, Reading
  PROVE  shard.rowsOpen /\ shard.at \in {"write", "drain"} /\ \A c \in Converters : converter[c].at # "gone"
<1>1. \A c \in Converters : converter[c].at # "gone"
  BY DEF ShardInv, ClosedInOrder, Reading
<1>2. shard.rowsOpen
  BY <1>1, ShardAssumption DEF ShardInv, ClosedInOrder, Reading, EveryGone
<1>3. shard.at \in {"idle", "write", "drain", "ok", "error"}
  BY DEF ShardInv, ShardTyped, ShardState
<1> QED BY <1>1, <1>2, <1>3 DEF ShardInv, ClosedInOrder, Reading

\* The engine answers for one more URL of a refetch.
LEMMA PageFetched ==
  ASSUME ShardInv, FetchPage
  PROVE  ShardInv'
<1>1. PICK i \in shard.left, failed \in BOOLEAN :
        shard' = [shard EXCEPT !.left = @ \ {i},
                    !.records = Append(@, [body |-> shard.source[i], failed |-> failed])]
  BY DEF FetchPage, Queued
<1> DEFINE p == [body |-> shard.source[i], failed |-> failed]
<1>2. /\ ShardTyped /\ shard \in ShardState /\ shard.seen \in SUBSET Nat /\ parquet \in Seq(Page)
      /\ shard.refetch /\ Reading /\ Len(shard.records) < QueueRoom
      /\ converter' = converter /\ parquet' = parquet
  BY DEF ShardInv, ShardTyped, ShardState, FetchPage
<1>3. p \in Page /\ p.body = shard.source[i] /\ shard.left \subseteq DOMAIN shard.source
  BY <1>2 DEF ShardTyped, ShardState, Page
<1> HIDE DEF p
<1>4. Append(shard.records, p) \in Seq(Page)
  BY <1>2, <1>3 DEF ShardState
<1>5. shard' = [shard EXCEPT !.left = shard.left \ {i}, !.records = Append(shard.records, p)]
  BY <1>1, <1>2 DEF p
<1>6. /\ SameShard /\ shard'.rows = shard.rows /\ shard'.left = shard.left \ {i}
      /\ shard'.records = Append(shard.records, p) /\ shard'.queued = shard.queued
      /\ shard'.at = shard.at /\ shard'.failed = shard.failed /\ shard'.seen = shard.seen
      /\ shard'.reading = shard.reading /\ shard'.rowsOpen = shard.rowsOpen
      /\ shard'.digestDropped = shard.digestDropped /\ shard'.langDropped = shard.langDropped
  BY <1>2, <1>5 DEF SameShard, ShardState
<1>7. shard' \in ShardState
  BY <1>2, <1>4, <1>5 DEF ShardState
<1>8. ShardTyped'
  BY <1>2, <1>3, <1>6, <1>7 DEF ShardTyped, SameShard
<1>9. Adds(p) /\ Len(Append(shard.records, p)) = Len(shard.records) + 1 /\ Len(shard.records) \in Nat
  BY <1>2, <1>3, <1>6, PageArrives
<1>10. KeptSoFar'
  BY <1>2, <1>3, <1>6, <1>9, StillKept
<1>11. \A b \in Nat : Rows(b)' = Rows(b)
  BY <1>2 DEF Rows
<1>12. SeenIsKnown'
  BY <1>2, <1>6, <1>11 DEF SeenIsKnown, ShardInv, SameShard, Standing
<1>13. PagesAddUp'
  <2>1. Standing' => Standing
    BY <1>6 DEF Standing
  <2>2. /\ Flight(Page)' = Flight(Page) + 1 /\ Flight(Page) \in Nat
    <3>1. 0 \in Nat
      OBVIOUS
    <3> QED BY <1>2, <1>3, <1>9, <3>1, AddsOne
  <2>3. Cardinality((DOMAIN shard.source \ shard.left)')
          = Cardinality(DOMAIN shard.source \ shard.left) + 1
    BY <1>2, <1>6, ReadMore DEF SameShard
  <2>4. Len(parquet) \in Nat /\ shard.langDropped \in Nat /\ shard.digestDropped \in Nat
    BY <1>2 DEF ShardState
  <2>5. Standing => Flight(Page) + Len(parquet) + shard.langDropped + shard.digestDropped
                      = Cardinality(DOMAIN shard.source \ shard.left)
    BY <1>2 DEF PagesAddUp, ShardInv
  <2>6. Flight(Page)' + Len(parquet') + shard'.langDropped + shard'.digestDropped
          = Flight(Page) + Len(parquet) + shard.langDropped + shard.digestDropped + 1
    <3>1. Len(parquet') = Len(parquet)
      BY <1>2
    <3> QED BY <1>6, <2>2, <2>4, <3>1
  <2> QED BY <2>1, <2>3, <2>5, <2>6 DEF PagesAddUp
<1>14. OnceOnly'
  <2>1. Count(parquet, Failures)' = Count(parquet, Failures)
    BY <1>2 DEF Failures
  <2> QED BY <1>2, <1>6, <1>11, <2>1 DEF OnceOnly, ShardInv, SameShard
<1>15. QueuesBounded'
  BY <1>2, <1>6, <1>9, ShardAssumption DEF QueuesBounded, ShardInv, SameShard
<1>16. ClosedInOrder'
  BY <1>2, <1>6, StillOpen DEF ClosedInOrder, Reading
<1> QED BY <1>8, <1>10, <1>12, <1>13, <1>14, <1>15, <1>16 DEF ShardInv

LEMMA NextIsLeft ==
  ASSUME ShardTyped, shard.left # {}
  PROVE  NextRecord \in shard.left
<1>1. shard.left \subseteq Nat
  BY DEF ShardTyped, ShardState
<1>2. \E i \in shard.left : \A j \in shard.left : i <= j
  BY <1>1, LeastNumber
<1> QED BY <1>2 DEF NextRecord

\* A record of an export that is no page, or a body that was seen, is left out.
LEMMA RecordSkipped ==
  ASSUME ShardInv, ~shard.refetch, Reading, NEW i \in shard.left,
         converter' = converter, parquet' = parquet,
         \/ shard.source[i] = 0 /\ shard' = [shard EXCEPT !.left = @ \ {i}]
         \/ /\ shard.dedup /\ shard.source[i] \in shard.seen
            /\ shard' = [shard EXCEPT !.left = @ \ {i}, !.digestDropped = @ + 1]
  PROVE  ShardInv'
<1>1. /\ ShardTyped /\ shard \in ShardState /\ shard.seen \in SUBSET Nat /\ parquet \in Seq(Page)
  BY DEF ShardInv, ShardTyped, ShardState
<1>a. shard.digestDropped + 1 \in Nat /\ shard.left \ {i} \in SUBSET Nat
  BY <1>1 DEF ShardState
<1>2. /\ SameShard /\ shard'.rows = shard.rows /\ shard'.left = shard.left \ {i}
      /\ shard'.records = shard.records /\ shard'.queued = shard.queued
      /\ shard'.at = shard.at /\ shard'.failed = shard.failed /\ shard'.seen = shard.seen
      /\ shard'.reading = shard.reading /\ shard'.rowsOpen = shard.rowsOpen
  BY <1>1 DEF SameShard, ShardState
<1>3. shard' \in ShardState
  <2>1. CASE shard' = [shard EXCEPT !.left = @ \ {i}]
    BY <1>1, <1>a, <2>1 DEF ShardState
  <2>2. CASE shard' = [shard EXCEPT !.left = @ \ {i}, !.digestDropped = @ + 1]
    BY <1>1, <1>a, <2>2 DEF ShardState
  <2> QED BY <2>1, <2>2
<1>4. ShardTyped'
  BY <1>1, <1>2, <1>3 DEF ShardTyped, SameShard
<1>5. \A T \in SUBSET Page : Flight(T)' = Flight(T)
  BY <1>2, FlightStays, InHandsStays DEF Shell
<1>6. \A b \in Nat : /\ Rows(b)' = Rows(b) /\ Flight(OrFailed(b))' = Flight(OrFailed(b))
                     /\ Flight(AsIs(b))' = Flight(AsIs(b)) /\ Wanted(b)' = Wanted(b)
  <2> TAKE b \in Nat
  <2>1. Rows(b)' = Rows(b)
    BY DEF Rows
  <2>2. OrFailed(b) \in SUBSET Page /\ AsIs(b) \in SUBSET Page
    BY PageSets
  <2>3. Flight(OrFailed(b))' = Flight(OrFailed(b)) /\ Flight(AsIs(b))' = Flight(AsIs(b))
    BY <1>5, <2>2 DEF OrFailed, AsIs, Failures
  <2> QED BY <1>2, <2>1, <2>3 DEF Wanted, SameShard
<1>7. \A b \in Nat : ReadOf(b) # {} => ReadOf(b)' # {}
  BY <1>1, <1>2, ReadMore DEF SameShard
<1>8. \A b \in Nat : b # 0 => Need(b)' = Need(b)
  <2> SUFFICES ASSUME NEW b \in Nat, b # 0 PROVE Need(b)' = Need(b)
    OBVIOUS
  <2>1. CASE shard.source[i] # b
    BY <1>1, <1>2, <2>1, ReadMore DEF SameShard
  <2>2. CASE shard.source[i] = b
    <3>1. shard.dedup /\ b \in shard.seen
      BY <2>2
    <3>2. ReadOf(b) # {}
      BY <3>1 DEF ShardInv, SeenIsKnown
    <3>3. Need(b) = 1
      BY <3>1, <3>2 DEF Need
    <3>4. Need(b)' = 1
      BY <1>1, <1>2, <2>2, <3>1, ReadMore DEF SameShard
    <3> QED BY <3>3, <3>4
  <2> QED BY <2>1, <2>2
<1>9. KeptSoFar'
  BY <1>2, <1>6, <1>8 DEF KeptSoFar, ShardInv, Standing, Wanted
<1>10. SeenIsKnown'
  <2>1. Flight(Failures)' = Flight(Failures)
    BY <1>5 DEF Failures
  <2> QED BY <1>1, <1>2, <1>7, <2>1 DEF SeenIsKnown, ShardInv, SameShard
<1>11. PagesAddUp'
  BY <1>2 DEF PagesAddUp, SameShard
<1>12. OnceOnly'
  <2>1. Count(parquet, Failures)' = Count(parquet, Failures)
    BY DEF Failures
  <2> QED BY <1>2, <1>6, <2>1 DEF OnceOnly, ShardInv, SameShard
<1>13. QueuesBounded'
  BY <1>2 DEF QueuesBounded, ShardInv, SameShard
<1>14. ClosedInOrder'
  BY <1>2, StillOpen DEF ClosedInOrder, Reading
<1> QED BY <1>4, <1>9, <1>10, <1>11, <1>12, <1>13, <1>14 DEF ShardInv

\* A page of an export is queued.
LEMMA PageQueued ==
  ASSUME ShardInv, ~shard.refetch, Reading, NEW i \in shard.left,
         converter' = converter, parquet' = parquet,
         shard.source[i] # 0, ~(shard.dedup /\ shard.source[i] \in shard.seen),
         Len(shard'.records) <= QueueRoom,
         shard' = [shard EXCEPT !.left = @ \ {i},
                     !.records = Append(@, [body |-> shard.source[i], failed |-> FALSE]),
                     !.queued = @ + 1, !.seen = @ \union {shard.source[i]},
                     !.reading = shard.limit = 0 \/ shard.queued + 1 < shard.limit]
  PROVE  ShardInv'
<1> DEFINE p == [body |-> shard.source[i], failed |-> FALSE]
           more == shard.limit = 0 \/ shard.queued + 1 < shard.limit
<1>1. /\ ShardTyped /\ shard \in ShardState /\ shard.seen \in SUBSET Nat /\ parquet \in Seq(Page)
      /\ shard.left \subseteq DOMAIN shard.source /\ shard.queued \in Nat /\ shard.limit \in Nat
  BY DEF ShardInv, ShardTyped, ShardState
<1>2. p \in Page /\ p.body = shard.source[i] /\ ~p.failed /\ p.body \in Nat
  BY <1>1 DEF ShardState, Page
<1>3. more \in BOOLEAN
  OBVIOUS
<1>4. shard' = [shard EXCEPT !.left = shard.left \ {i}, !.records = Append(shard.records, p),
                  !.queued = shard.queued + 1, !.seen = shard.seen \union {p.body},
                  !.reading = more]
  BY <1>1, <1>2
<1> HIDE DEF p, more
<1>5. Append(shard.records, p) \in Seq(Page) /\ shard.queued + 1 \in Nat
      /\ shard.seen \union {p.body} \in SUBSET Nat /\ shard.left \ {i} \in SUBSET Nat
  BY <1>1, <1>2 DEF ShardState
<1>6. /\ SameShard /\ shard'.rows = shard.rows /\ shard'.left = shard.left \ {i}
      /\ shard'.records = Append(shard.records, p) /\ shard'.queued = shard.queued + 1
      /\ shard'.at = shard.at /\ shard'.failed = shard.failed
      /\ shard'.seen = shard.seen \union {p.body}
      /\ shard'.reading = more /\ shard'.rowsOpen = shard.rowsOpen
  BY <1>1, <1>4 DEF SameShard, ShardState
<1>7. shard' \in ShardState
  BY <1>1, <1>3, <1>4, <1>5 DEF ShardState
<1>8. ShardTyped'
  BY <1>1, <1>6, <1>7 DEF ShardTyped, SameShard
<1>9. Adds(p)
  BY <1>1, <1>2, <1>6, PageArrives
<1>10. KeptSoFar'
  BY <1>1, <1>2, <1>6, <1>9, StillKept
<1>11. \A b \in Nat : Rows(b)' = Rows(b) /\ Rows(b) \in Nat
  <2> TAKE b \in Nat
  <2>1. Rows(b)' = Rows(b)
    BY DEF Rows
  <2> QED BY <1>1, <2>1, RowsAreCounted
<1>12. \A b \in Nat :
         /\ Flight(AsIs(b))' = Flight(AsIs(b)) + (IF p.body = b THEN 1 ELSE 0)
         /\ Flight(Failures)' = Flight(Failures)
         /\ Flight(AsIs(b)) \in Nat /\ Flight(Failures) \in Nat
  <2> TAKE b \in Nat
  <2>1. /\ Flight(AsIs(b))' = Flight(AsIs(b)) + (IF ~p.failed /\ p.body = b THEN 1 ELSE 0)
        /\ Flight(Failures)' = Flight(Failures) + (IF p.failed THEN 1 ELSE 0)
        /\ Flight(AsIs(b)) \in Nat /\ Flight(Failures) \in Nat
    BY <1>1, <1>2, <1>9, AddsOne
  <2> QED BY <1>2, <2>1
<1>13. SeenIsKnown'
  <2>1. Flight(Failures)' = 0
    BY <1>2, <1>12 DEF SeenIsKnown, ShardInv
  <2>2. ASSUME NEW b \in shard'.seen PROVE ReadOf(b)' # {}
    <3>1. CASE b = p.body
      BY <1>1, <1>2, <1>6, <3>1, ReadMore DEF SameShard
    <3>2. CASE b # p.body
      <4>1. b \in shard.seen
        BY <1>6, <2>2, <3>2
      <4>2. ReadOf(b) # {}
        BY <4>1 DEF SeenIsKnown, ShardInv
      <4>3. ReadOf(b)' = ReadOf(b)
        BY <1>1, <1>2, <1>6, <3>2, ReadMore DEF SameShard
      <4> QED BY <4>2, <4>3
    <3> QED BY <3>1, <3>2
  <2> QED BY <1>6, <2>1, <2>2 DEF SeenIsKnown, SameShard
<1>14. PagesAddUp'
  BY <1>6 DEF PagesAddUp, SameShard
<1>15. OnceOnly'
  <2>1. Count(parquet, Failures)' = Count(parquet, Failures)
    BY DEF Failures
  <2>2. ASSUME shard.dedup, NEW b \in Nat
        PROVE  Flight(AsIs(b))' + Rows(b)' <= IF b \in shard'.seen THEN 1 ELSE 0
    <3>1. Flight(AsIs(b)) + Rows(b) <= IF b \in shard.seen THEN 1 ELSE 0
      BY <2>2 DEF OnceOnly, ShardInv
    <3>2. CASE b = p.body
      <4>1. b \notin shard.seen /\ b \in shard'.seen
        BY <1>2, <1>6, <2>2, <3>2
      <4>2. Flight(AsIs(b))' = Flight(AsIs(b)) + 1 /\ Flight(AsIs(b)) \in Nat
        BY <1>12, <3>2
      <4> QED BY <1>11, <3>1, <4>1, <4>2
    <3>3. CASE b # p.body
      <4>1. b \in shard.seen <=> b \in shard'.seen
        BY <1>6, <3>3
      <4>2. Flight(AsIs(b))' = Flight(AsIs(b))
        BY <1>12, <3>3
      <4> QED BY <1>11, <3>1, <4>1, <4>2
    <3> QED BY <3>2, <3>3
  <2> QED BY <1>6, <2>1, <2>2 DEF OnceOnly, ShardInv, SameShard
<1>16. QueuesBounded'
  <2>1. shard.limit > 0 => shard.queued < shard.limit
    BY DEF QueuesBounded, ShardInv, Reading
  <2>2. shard'.limit = shard.limit /\ shard'.queued = shard.queued + 1 /\ shard'.refetch = shard.refetch
        /\ shard'.rows = shard.rows
    BY <1>6 DEF SameShard
  <2>3. shard'.reading => shard.limit = 0 \/ shard.queued + 1 < shard.limit
    BY <1>6 DEF more
  <2>4. ASSUME shard'.limit > 0
        PROVE  shard'.queued <= shard'.limit /\ (shard'.reading => shard'.queued < shard'.limit)
    <3>1. shard.queued < shard.limit /\ shard.limit \in Nat /\ shard.queued \in Nat
      BY <1>1, <2>1, <2>2, <2>4
    <3> QED BY <2>2, <2>3, <3>1
  <2> QED BY <1>6, <2>2, <2>4 DEF QueuesBounded, ShardInv
<1>17. ClosedInOrder'
  BY <1>6, StillOpen DEF ClosedInOrder, Reading, SameShard, more
<1> QED BY <1>8, <1>10, <1>13, <1>14, <1>15, <1>16, <1>17 DEF ShardInv

LEMMA RecordDrained ==
  ASSUME ShardInv, drainSource
  PROVE  ShardInv'
<1> DEFINE i == NextRecord
<1>1. /\ ShardTyped /\ Reading /\ ~shard.refetch /\ shard.left # {}
      /\ converter' = converter /\ parquet' = parquet /\ Len(shard'.records) <= QueueRoom
  BY DEF ShardInv, drainSource
<1>2. i \in shard.left
  BY <1>1, NextIsLeft
<1>3. CASE shard.source[i] = 0
  <2>1. shard' = [shard EXCEPT !.left = @ \ {i}]
    BY <1>3 DEF drainSource
  <2> HIDE DEF i
  <2> QED BY <1>1, <1>2, <1>3, <2>1, RecordSkipped
<1>4. CASE shard.source[i] # 0 /\ shard.dedup /\ shard.source[i] \in shard.seen
  <2>1. shard' = [[shard EXCEPT !.left = @ \ {i}] EXCEPT !.digestDropped = @ + 1]
    BY <1>4 DEF drainSource
  <2> HIDE DEF i
  <2>2. shard' = [shard EXCEPT !.left = @ \ {i}, !.digestDropped = @ + 1]
    BY <2>1
  <2> QED BY <1>1, <1>2, <1>4, <2>2, RecordSkipped
<1>5. CASE shard.source[i] # 0 /\ ~(shard.dedup /\ shard.source[i] \in shard.seen)
  <2>1. shard' = [[shard EXCEPT !.left = @ \ {i}] EXCEPT
                    !.records = Append(shard.records, [body |-> shard.source[i], failed |-> FALSE]),
                    !.queued = @ + 1, !.seen = shard.seen \union {shard.source[i]},
                    !.reading = shard.limit = 0 \/ shard.queued + 1 < shard.limit]
    BY <1>5 DEF drainSource, Queued, SeenToo
  <2> HIDE DEF i
  <2>2. shard' = [shard EXCEPT !.left = @ \ {i},
                     !.records = Append(@, [body |-> shard.source[i], failed |-> FALSE]),
                     !.queued = @ + 1, !.seen = @ \union {shard.source[i]},
                     !.reading = shard.limit = 0 \/ shard.queued + 1 < shard.limit]
    BY <2>1
  <2> QED BY <1>1, <1>2, <1>5, <2>2, PageQueued
<1> QED BY <1>3, <1>4, <1>5

-----------------------------------------------------------------------------

\* A shard starts with everything to read and nothing in the queues.
LEMMA ShardStarts ==
  ASSUME ShardInv, PackShard
  PROVE  ShardInv'
<1>1. PICK refetch \in BOOLEAN, dedup \in BOOLEAN, lang \in BOOLEAN, limit \in RecordLimits, source \in Sources :
        /\ refetch => limit = 0 /\ 0 \notin ToSet(source)
        /\ shard' = NewShard(refetch, dedup, lang, limit, source)
  BY DEF PackShard
<1>2. /\ parquet' = parquet /\ parquet = <<>>
      /\ converter' = [c \in Converters |-> [Off[c] EXCEPT !.at = "take"]]
  BY DEF PackShard, ShardInv, ClosedInOrder
<1>3. limit \in Nat /\ source \in Seq(Nat)
  BY ShardAssumption
<1>4. shard' \in ShardState
  <2>1. <<>> \in Seq(Page) /\ DOMAIN source \in SUBSET Nat
    BY <1>3
  <2> QED BY <1>1, <1>3, <2>1 DEF NewShard, ShardState
<1>5. /\ shard'.refetch = refetch /\ shard'.limit = limit /\ shard'.source = source
      /\ shard'.left = DOMAIN source /\ shard'.reading /\ shard'.records = <<>> /\ shard'.rows = <<>>
      /\ shard'.rowsOpen /\ shard'.seen = {} /\ shard'.queued = 0 /\ shard'.digestDropped = 0
      /\ shard'.langDropped = 0 /\ shard'.failed = 0 /\ shard'.at = "write"
  BY <1>1 DEF NewShard
<1>6. ShardTyped'
  <2>1. \A c \in Converters : [Off[c] EXCEPT !.at = "take"] \in ConverterState
    BY DEF Off, ConverterState, Page
  <2>2. converter' \in [Converters -> ConverterState]
    BY <1>2, <2>1
  <2> QED BY <1>2, <1>4, <1>5, <2>2 DEF ShardTyped
<1>7. \A c \in Converters : converter'[c].at = "take"
  BY <1>2 DEF Off
<1>8. \A T \in SUBSET Page : Flight(T)' = 0
  <2> TAKE T \in SUBSET Page
  <2>1. {c \in Converters : converter'[c].at = "convert" /\ converter'[c].page \in T} = {}
    BY <1>7
  <2>2. InHands(T)' = 0
    BY <2>1, FS_EmptySet DEF InHands
  <2>3. Count(shard.records, T)' = 0 /\ Count(shard.rows, T)' = 0
    BY <1>5, CountEmpty
  <2> QED BY <2>2, <2>3 DEF Flight
<1>9. \A b \in Nat : Rows(b)' = 0 /\ Need(b)' = 0
  <2> TAKE b \in Nat
  <2>1. {k \in DOMAIN parquet' : parquet'[k].body = b /\ ~parquet'[k].failed} = {}
    BY <1>2
  <2>2. ReadOf(b)' = {}
    BY <1>5 DEF ReadOf
  <2>3. Rows(b)' = 0
    BY <2>1, FS_EmptySet DEF Rows
  <2> QED BY <2>2, <2>3, FS_EmptySet DEF Need
<1>10. \A b \in Nat : Flight(OrFailed(b))' = 0 /\ Flight(AsIs(b))' = 0
  <2> TAKE b \in Nat
  <2>1. OrFailed(b) \in SUBSET Page /\ AsIs(b) \in SUBSET Page
    BY PageSets
  <2> QED BY <1>8, <2>1 DEF OrFailed, AsIs, Failures
<1>11. Flight(Failures)' = 0 /\ Flight(Page)' = 0
  BY <1>8 DEF Failures
<1>12. Count(parquet, Failures)' = 0
  BY <1>2, CountEmpty
<1>13. KeptSoFar'
  BY <1>5, <1>9, <1>10 DEF KeptSoFar
<1>14. SeenIsKnown'
  BY <1>5, <1>11 DEF SeenIsKnown
<1>15. PagesAddUp'
  <2>1. DOMAIN shard'.source \ shard'.left = {} /\ Len(parquet') = 0
    BY <1>2, <1>5
  <2>2. Cardinality((DOMAIN shard.source \ shard.left)') = 0
    BY <2>1, FS_EmptySet
  <2> QED BY <1>5, <1>11, <2>1, <2>2 DEF PagesAddUp
<1>16. OnceOnly'
  BY <1>5, <1>9, <1>10, <1>12 DEF OnceOnly
<1>17. QueuesBounded'
  <2>1. refetch => \A i \in DOMAIN source : source[i] # 0
    BY <1>1, <1>3 DEF ToSet
  <2>2. Len(<<>>) = 0 /\ QueueRoom \in Nat
    BY ShardAssumption
  <2> QED BY <1>1, <1>3, <1>5, <2>1, <2>2 DEF QueuesBounded
<1>18. ClosedInOrder'
  BY <1>5, <1>7 DEF ClosedInOrder
<1> QED BY <1>6, <1>13, <1>14, <1>15, <1>16, <1>17, <1>18 DEF ShardInv

LEMMA ShardInvInit ==
  ASSUME ShardInit
  PROVE  ShardInv
<1>1. shard = NoShard /\ converter = Off /\ parquet = <<>>
  BY DEF ShardInit
<1>2. shard \in ShardState
  <2>1. <<>> \in Seq(Page) /\ <<>> \in Seq(Nat) /\ DOMAIN <<>> \in SUBSET Nat
    OBVIOUS
  <2> QED BY <1>1, <2>1 DEF NoShard, NewShard, ShardState
<1>3. /\ ~shard.refetch /\ shard.limit = 0 /\ shard.source = <<>>
      /\ shard.left = {} /\ shard.reading /\ shard.records = <<>> /\ shard.rows = <<>>
      /\ shard.rowsOpen /\ shard.seen = {} /\ shard.queued = 0
      /\ shard.failed = 0 /\ shard.at = "idle" /\ ~shard.dedup
  BY <1>1 DEF NoShard, NewShard
<1>4. ShardTyped
  <2>1. Off \in [Converters -> ConverterState]
    BY DEF Off, ConverterState, Page
  <2> QED BY <1>1, <1>2, <1>3, <2>1 DEF ShardTyped
<1>5. \A c \in Converters : converter[c].at = "gone"
  BY <1>1 DEF Off
<1>6. Flight(Failures) = 0
  <2>1. {c \in Converters : converter[c].at = "convert" /\ converter[c].page \in Failures} = {}
    BY <1>5
  <2>2. InHands(Failures) = 0
    BY <2>1, FS_EmptySet DEF InHands
  <2>3. Count(shard.records, Failures) = 0 /\ Count(shard.rows, Failures) = 0
    BY <1>3, CountEmpty
  <2> QED BY <2>2, <2>3 DEF Flight
<1>7. KeptSoFar /\ PagesAddUp
  BY <1>3 DEF KeptSoFar, PagesAddUp, Standing
<1>8. SeenIsKnown
  BY <1>3, <1>6 DEF SeenIsKnown
<1>9. OnceOnly
  BY <1>1, <1>3, CountEmpty DEF OnceOnly
<1>10. QueuesBounded
  <2>1. Len(<<>>) = 0 /\ QueueRoom \in Nat
    BY ShardAssumption
  <2> QED BY <1>3, <2>1 DEF QueuesBounded
<1>11. ClosedInOrder
  BY <1>1, <1>3, <1>5 DEF ClosedInOrder, EveryGone
<1> QED BY <1>4, <1>7, <1>8, <1>9, <1>10, <1>11 DEF ShardInv

LEMMA ShardInvNext ==
  ASSUME ShardInv, [ShardNext]_shardVars
  PROVE  ShardInv'
<1>1. CASE PackShard
  BY <1>1, ShardStarts
<1>2. CASE drainSource
  BY <1>2, RecordDrained
<1>3. CASE FetchPage
  BY <1>3, PageFetched
<1>4. CASE SourceEnds \/ SourceFails \/ CloseRows \/ ShardReturns \/ CancelShard
  BY <1>4, FlagsChange
<1>5. CASE WriteRow
  BY <1>5, RowRead
<1>6. CASE DrainRow \/ WriteRowFails
  BY <1>6, RowThrown
<1>7. ASSUME NEW c \in Converters, ShardWorker(c)
      PROVE  ShardInv'
  <2>1. CASE TakePage(c)
    BY <2>1, PageTaken
  <2>2. CASE NoMorePages(c)
    BY <2>2, ConverterLeaves
  <2>3. CASE Convert(c) /\ (shard.refetch \/ converter[c].page.body \notin BlankBodies)
    BY <2>3, PageConverted
  <2>4. CASE Convert(c) /\ ~(shard.refetch \/ converter[c].page.body \notin BlankBodies)
    BY <2>4, BlankDropped
  <2> QED BY <1>7, <2>1, <2>2, <2>3, <2>4 DEF ShardWorker
<1>8. CASE UNCHANGED shardVars
  <2>1. shard' = shard /\ converter' = converter /\ parquet' = parquet
    BY <1>8 DEF shardVars
  <2>2. SameShard /\ SameCounters /\ (Standing' => Standing)
    BY <2>1 DEF SameShard, SameCounters, Standing
  <2>3. ShardTyped' /\ QueuesBounded' /\ ClosedInOrder'
    BY <2>1 DEF ShardInv, ShardTyped, QueuesBounded, ClosedInOrder, EveryGone
  <2>4. \A T \in SUBSET Page : Flight(T)' = Flight(T)
    BY <2>1, FlightStays, InHandsStays DEF Shell
  <2> QED BY <2>2, <2>3, <2>4, PassOn DEF ShardInv
<1> QED BY <1>1, <1>2, <1>3, <1>4, <1>5, <1>6, <1>7, <1>8
    DEF ShardNext, ShardSource, ShardWriter

\* When a shard stands, nothing is left to read and nothing is on its way.
LEMMA NothingOnItsWay ==
  ASSUME ShardInv, Whole, shard.limit = 0
  PROVE  shard.left = {} /\ \A T : Flight(T) = 0
<1>1. /\ ~shard.rowsOpen /\ shard.rows = <<>> /\ ~shard.readErr /\ ~shard.cancelled
      /\ shard.at = "ok"
  BY DEF ShardInv, ClosedInOrder, Whole
<1>2. EveryGone
  BY <1>1 DEF ShardInv, ClosedInOrder
<1>3. ~shard.reading /\ shard.records = <<>>
  BY <1>1, <1>2, ShardAssumption DEF ShardInv, ClosedInOrder, EveryGone
<1>4. shard.left = {}
  BY <1>1, <1>3 DEF ShardInv, ClosedInOrder
<1>5. ASSUME NEW T PROVE Flight(T) = 0
  <2>1. {c \in Converters : converter[c].at = "convert" /\ converter[c].page \in T} = {}
    BY <1>2 DEF EveryGone
  <2>2. InHands(T) = 0
    BY <2>1, FS_EmptySet DEF InHands
  <2>3. Count(shard.records, T) = 0 /\ Count(shard.rows, T) = 0
    BY <1>1, <1>3, CountEmpty
  <2> QED BY <2>2, <2>3 DEF Flight
<1> QED BY <1>4, <1>5

LEMMA ShardInvIsEnough ==
  ASSUME ShardInv
  PROVE  ShardIsWhole
<1>1. ShardTyped /\ shard \in ShardState /\ parquet \in Seq(Page) /\ shard.source \in Seq(Nat)
  BY DEF ShardInv, ShardTyped, ShardState
<1>2. ShardTypeOK
  <2>1. shard.at \in {"idle", "write", "drain", "ok", "error"}
    BY <1>1 DEF ShardState
  <2>2. \A c \in Converters : converter[c].at \in {"take", "convert", "gone"}
    BY <1>1 DEF ShardTyped, ConverterState
  <2>3. shard.left \subseteq DOMAIN shard.source
    BY <1>1 DEF ShardTyped
  <2> QED BY <2>1, <2>2, <2>3 DEF ShardTypeOK, ShardInv, QueuesBounded
<1>3. PagesKept
  <2> SUFFICES ASSUME Whole, shard.limit = 0
               PROVE  /\ \A body \in Bodies :
                           LET wanted == (shard.lang => body \notin OtherLang)
                                           /\ (shard.refetch \/ body \notin BlankBodies)
                               asked == Cardinality({i \in DOMAIN shard.source : shard.source[i] = body})
                           IN wanted => Rows(body) + shard.failed >= IF shard.dedup THEN 1 ELSE asked
                      /\ shard.refetch =>
                           Len(parquet) + shard.langDropped + shard.digestDropped = Len(shard.source)
    BY DEF PagesKept
  <2>1. shard.left = {} /\ \A T : Flight(T) = 0
    BY NothingOnItsWay
  <2>2. Standing
    BY DEF Standing, Whole
  <2>3. ASSUME NEW b \in Bodies, (shard.lang => b \notin OtherLang)
                                   /\ (shard.refetch \/ b \notin BlankBodies)
        PROVE  Rows(b) + shard.failed
                 >= IF shard.dedup THEN 1
                    ELSE Cardinality({i \in DOMAIN shard.source : shard.source[i] = b})
    <3>1. b \in Nat /\ b # 0 /\ \E i \in DOMAIN shard.source : shard.source[i] = b
      BY <1>1 DEF Bodies, ToSet
    <3>2. Wanted(b)
      BY <2>3, <3>1 DEF Wanted
    <3>3. ReadOf(b) = {i \in DOMAIN shard.source : shard.source[i] = b}
      BY <2>1 DEF ReadOf
    <3>4. Need(b) = IF shard.dedup THEN 1
                    ELSE Cardinality({i \in DOMAIN shard.source : shard.source[i] = b})
      BY <3>1, <3>3 DEF Need
    <3>5. Flight(OrFailed(b)) + Rows(b) + shard.failed >= Need(b) /\ Flight(OrFailed(b)) = 0
      BY <2>1, <2>2, <3>1, <3>2 DEF ShardInv, KeptSoFar
    <3>6. Rows(b) \in Nat /\ shard.failed \in Nat
      BY <1>1, <3>1, RowsAreCounted DEF ShardState
    <3>7. Rows(b) + shard.failed >= Need(b)
      BY <3>5, <3>6
    <3> QED BY <3>4, <3>7, Zenon
  <2>4. ASSUME shard.refetch
        PROVE  Len(parquet) + shard.langDropped + shard.digestDropped = Len(shard.source)
    <3>1. 0 + Len(parquet) + shard.langDropped + shard.digestDropped
            = Cardinality(DOMAIN shard.source \ shard.left)
      BY <2>1, <2>2, <2>4 DEF ShardInv, PagesAddUp
    <3>2. DOMAIN shard.source \ shard.left = {k \in DOMAIN shard.source : shard.source[k] \in Nat}
      BY <1>1, <2>1
    <3>3. Count(shard.source, Nat) = Len(shard.source)
      BY <1>1, CountAll
    <3>4. Cardinality(DOMAIN shard.source \ shard.left) = Len(shard.source)
      BY <3>2, <3>3, Zenon DEF Count
    <3>5. Len(parquet) \in Nat /\ shard.langDropped \in Nat /\ shard.digestDropped \in Nat
      BY <1>1 DEF ShardState
    <3> QED BY <3>1, <3>4, <3>5
  <2> QED BY <2>3, <2>4
<1>4. OneOfEach
  <2> SUFFICES ASSUME shard.dedup
               PROVE  /\ \A body \in ToSet(shard.source) : Rows(body) <= 1
                      /\ Whole /\ ~shard.lang =>
                           Cardinality({k \in DOMAIN parquet : parquet[k].failed}) = shard.failed
    BY DEF OneOfEach
  <2>1. ASSUME NEW b \in ToSet(shard.source) PROVE Rows(b) <= 1
    <3>1. b \in Nat
      BY <1>1 DEF ToSet
    <3>2. (IF shard.refetch THEN 0 ELSE Flight(AsIs(b))) + Rows(b) <= IF b \in shard.seen THEN 1 ELSE 0
      BY <3>1 DEF ShardInv, OnceOnly
    <3>3. Rows(b) \in Nat /\ Flight(AsIs(b)) \in Nat
      BY <1>1, <3>1, RowsAreCounted, FlightType
    <3> QED BY <3>2, <3>3
  <2>2. ASSUME ~shard.lang
        PROVE  Cardinality({k \in DOMAIN parquet : parquet[k].failed}) = shard.failed
    <3>1. Count(parquet, Failures) = shard.failed
      BY <2>2 DEF ShardInv, OnceOnly
    <3>2. {k \in DOMAIN parquet : parquet[k].failed} = {k \in DOMAIN parquet : parquet[k] \in Failures}
      BY <1>1 DEF Failures
    <3> QED BY <3>1, <3>2, Zenon DEF Count
  <2> QED BY <2>1, <2>2
<1> QED BY <1>2, <1>3, <1>4 DEF ShardIsWhole

\* However the reader, the converters and the writer of a shard take turns, and wherever a
\* failed read, a failed conversion or a cancellation falls, a shard that is finished holds what
\* it was asked for: each wanted body as often as it should be, the counts that add up to the
\* source, no body twice where duplicates are dropped.
THEOREM ShardsAreWhole ==
  ShardInit /\ [][ShardNext]_shardVars => []ShardIsWhole
<1>1. ShardInit => ShardInv
  BY ShardInvInit
<1>2. ShardInv /\ [ShardNext]_shardVars => ShardInv'
  BY ShardInvNext
<1>3. ShardInv => ShardIsWhole
  BY ShardInvIsEnough
<1> QED BY <1>1, <1>2, <1>3, PTL
=============================================================================
