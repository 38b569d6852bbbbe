------------------------------- MODULE UnitProofs -------------------------------
(***************************************************************************)
(* Proofs about publishing one unit of a dataset: for any number of parts, *)
(* workers, runs and faults, a ledger whose totals were carried through is *)
(* that of the hub's shards, complete means whole, no run fills the disk   *)
(* (UnitIsHonest), and the exit code says what a supervisor has to know    *)
(* (ExitIsHonest).                                                         *)
(***************************************************************************)
EXTENDS UnitPublish, FiniteSetTheorems, TLAPS

Modes == {"none", "publish", "recount", "repair"}
Phases == {"down", "plan", "work", "repair", "footers", "ledger", "langs", "commit", "stuck",
           "settle", "final", "exit"}
Places == {"gone", "take", "read", "disk", "project", "hung", "send"}
Exits == {"none", "ok", "error", "stall", "incomplete", "killed"}
Hubs == [parts : SUBSET Parts, bad : SUBSET Parts, ledger : LedgerRows, langs : Nat]
Stagings == [ledger : LedgerRows, langs : Nat, staged : SUBSET Parts]
Spells == [runs : Nat, faults : Nat, exact : BOOLEAN, exit : Exits]

LEMMA Sizes ==
  /\ IsFiniteSet(Parts) /\ Total \in Nat /\ Parts = 1 .. Total /\ Parts # {} /\ Parts \subseteq Nat
  /\ IsFiniteSet(Projectors) /\ Cardinality(Projectors) \in Nat /\ Cardinality(Projectors) > 0
  /\ CommitEvery \in Nat \ {0} /\ Capacity \in Nat /\ MaxStall \in Nat \ {0}
<1>1. Cardinality(Projectors) # 0
  BY UnitAssumption, FS_EmptySet
<1> QED BY <1>1, UnitAssumption, FS_CardinalityType DEF Total

(* ------------------------------ the records ------------------------------- *)
LEMMA JobFields ==
  ASSUME NEW j \in Jobs
  PROVE  /\ j.mode \in Modes /\ j.phase \in Phases /\ j.feed \in SUBSET Parts /\ j.todo \in Int
         /\ j.skipped \in Nat /\ j.batch \in Seq(Parts) /\ j.committed \in Nat /\ j.rows \in Nat
         /\ j.langs \in Nat /\ j.flushes \in Nat /\ j.last \in BOOLEAN /\ j.tries \in Nat
         /\ j.landed \in BOOLEAN /\ j.fresh \in Nat /\ j.quiet \in 0 .. MaxStall
         /\ j.stalled \in BOOLEAN /\ j.cancelled \in BOOLEAN /\ j.failed \in BOOLEAN
         /\ j.left \in Nat
BY DEF Jobs, Modes, Phases

LEMMA LedgerFields ==
  ASSUME NEW l \in LedgerRows
  PROVE  l.shards \in Nat /\ l.rows \in Nat /\ l.complete \in BOOLEAN /\ l.known \in BOOLEAN
BY DEF LedgerRows

LEMMA StateFields ==
  ASSUME UnitTyped
  PROVE  /\ hub \in Hubs /\ local \in Stagings /\ job \in Jobs /\ spell \in Spells
         /\ hub.parts \in SUBSET Parts /\ hub.bad \in SUBSET Parts /\ hub.ledger \in LedgerRows
         /\ hub.langs \in Nat /\ local.ledger \in LedgerRows /\ local.langs \in Nat
         /\ local.staged \in SUBSET Parts
         /\ spell.runs \in Nat /\ spell.faults \in Nat /\ spell.exact \in BOOLEAN
BY DEF UnitTyped, Hubs, Stagings, Spells, Exits

LEMMA NoLedgerTyped == NoLedger \in LedgerRows
BY DEF NoLedger, LedgerRows

LEMMA NewJobTyped ==
  ASSUME NEW m \in Modes, NEW p \in Phases
  PROVE  NewJob(m, p) \in Jobs
BY Sizes DEF NewJob, Jobs, Modes, Phases

(* ------------------------------- finite sets ------------------------------ *)
LEMMA SubsetsAreFinite ==
  ASSUME NEW S \in SUBSET Parts
  PROVE  IsFiniteSet(S) /\ Cardinality(S) \in 0 .. Total /\ (Cardinality(S) = Total => S = Parts)
<1>1. IsFiniteSet(S) /\ Cardinality(S) <= Total /\ (Cardinality(S) = Total => S = Parts)
  BY Sizes, FS_Subset DEF Total
<1> QED BY <1>1, Sizes, FS_CardinalityType

LEMMA Disjoint ==
  ASSUME NEW S \in SUBSET Parts, NEW T \in SUBSET Parts, S \intersect T = {}
  PROVE  Cardinality(S \union T) = Cardinality(S) + Cardinality(T)
<1>1. /\ Cardinality(S \union T) = Cardinality(S) + Cardinality(T) - Cardinality(S \intersect T)
      /\ Cardinality(S \intersect T) = 0 /\ Cardinality(S) \in Nat /\ Cardinality(T) \in Nat
  BY SubsetsAreFinite, FS_Union, FS_EmptySet
<1> QED BY <1>1

LEMMA OneMore ==
  ASSUME NEW S \in SUBSET Parts, NEW p \in Parts \ S
  PROVE  Cardinality(S \union {p}) = Cardinality(S) + 1
BY SubsetsAreFinite, FS_AddElement

LEMMA PoolIsFinite ==
  ASSUME NEW W \in SUBSET Projectors
  PROVE  IsFiniteSet(W) /\ Cardinality(W) \in Nat /\ Cardinality(W) <= Cardinality(Projectors)
BY Sizes, FS_Subset, FS_CardinalityType

(* -------------------------------- the batch ------------------------------- *)
LEMMA BatchElements ==
  ASSUME NEW b \in Seq(Parts)
  PROVE  /\ ToSet(b) \in SUBSET Parts /\ (b = <<>> <=> ToSet(b) = {}) /\ Len(b) \in Nat
         /\ \A p \in Parts : /\ Append(b, p) \in Seq(Parts) /\ Len(Append(b, p)) = Len(b) + 1
                             /\ ToSet(Append(b, p)) = ToSet(b) \union {p} /\ Append(b, p) # <<>>
<1>1. ToSet(b) \in SUBSET Parts
  BY DEF ToSet
<1>2. ASSUME b # <<>> PROVE ToSet(b) # {}
  <2>1. 1 \in DOMAIN b
    BY <1>2
  <2> QED BY <2>1 DEF ToSet
<1>3. ToSet(<<>>) = {}
  BY DEF ToSet
<1>4. ASSUME NEW p \in Parts PROVE ToSet(Append(b, p)) = ToSet(b) \union {p}
  <2>1. /\ Append(b, p) \in Seq(Parts) /\ Len(Append(b, p)) = Len(b) + 1
        /\ \A i \in 1 .. Len(b) : Append(b, p)[i] = b[i]
        /\ Append(b, p)[Len(b) + 1] = p
    OBVIOUS
  <2> QED BY <2>1 DEF ToSet
<1> QED BY <1>1, <1>2, <1>3, <1>4

LEMMA BatchNow ==
  ASSUME UnitTyped
  PROVE  /\ Batched \in SUBSET Parts /\ (job.batch = <<>> <=> Batched = {}) /\ Len(job.batch) \in Nat
         /\ Pending \in SUBSET Batched /\ Cardinality(Batched) \in Nat
<1>1. job.batch \in Seq(Parts)
  BY JobFields, StateFields
<1>2. Batched \in SUBSET Parts /\ (job.batch = <<>> <=> Batched = {}) /\ Len(job.batch) \in Nat
  BY <1>1, BatchElements DEF Batched
<1> QED BY <1>2, SubsetsAreFinite DEF Pending

(* --------------------------- who writes what ------------------------------ *)
SameWork == /\ job'.mode = job.mode /\ job'.feed = job.feed /\ job'.todo = job.todo
            /\ job'.skipped = job.skipped /\ job'.failed = job.failed /\ job'.left = job.left
SameBatch == job'.batch = job.batch /\ job'.landed = job.landed
SameTotals == /\ job'.committed = job.committed /\ job'.rows = job.rows /\ job'.langs = job.langs
              /\ job'.flushes = job.flushes /\ job'.fresh = job.fresh
SamePool == UNCHANGED <<place, part>>
SpellTurns == spell' \in Spells /\ spell'.exact = spell.exact

(* ---------------------- steps in which nothing moves ---------------------- *)
JobGoesOn ==
  /\ job' \in Jobs /\ SameWork /\ SameBatch /\ SameTotals /\ job'.last = job.last
  /\ job'.phase = job.phase \/ {job'.phase, job.phase} \subseteq {"commit", "stuck"}
  /\ job.cancelled => job'.cancelled

JobWaits ==
  /\ JobGoesOn
  /\ UNCHANGED <<kind, hub, local>> /\ SamePool /\ SpellTurns

LEMMA WaitingKeeps ==
  ASSUME UnitInv, JobWaits
  PROVE  UnitInv'
<1> USE DEF UnitInv, JobWaits, JobGoesOn, SameWork, SameBatch, SameTotals, SamePool, SpellTurns
<1>1. UnitTyped'
  BY DEF UnitTyped, Spells, Exits
<1>2. Batched' = Batched /\ Busy' = Busy /\ InHand' = InHand /\ Arrived' = Arrived /\ Pending' = Pending
      /\ UnderWay' = UnderWay /\ Footers' = Footers /\ Readers' = Readers /\ LetThrough' = LetThrough
  BY DEF Batched, Busy, InHand, Arrived, Pending, UnderWay, Footers, Readers, LetThrough
<1>3. PhasesFit'
  BY <1>2 DEF PhasesFit
<1>4. PartsApart'
  BY <1>2 DEF PartsApart
<1>5. StreamInOrder'
  BY <1>2 DEF StreamInOrder
<1>6. LedgersAgree'
  BY <1>2 DEF LedgersAgree, Running, HubCounts, FileCounts, AtRestCounts, CommitterCounts, Counts
<1>7. RunAccounts'
  BY <1>2 DEF RunAccounts, Handled
<1>8. DiskHolds' /\ FootersCount' /\ CompleteMeansWhole'
  BY <1>2 DEF DiskHolds, FootersCount, CompleteMeansWhole
<1> QED BY <1>1, <1>3, <1>4, <1>5, <1>6, <1>7, <1>8

(* ------------------------------ a run is over ----------------------------- *)
LEMMA IdleFields ==
  /\ Idle \in Jobs /\ Idle.mode = "none" /\ Idle.phase = "down" /\ Idle.batch = <<>> /\ Idle.feed = {}
  /\ Idle.skipped = 0 /\ Idle.landed = FALSE /\ Idle.cancelled = FALSE /\ Idle.last = FALSE
<1>1. Idle \in Jobs
  BY NewJobTyped DEF Idle, Modes, Phases
<1> QED BY <1>1 DEF Idle, NewJob

LEMMA OverIsTyped ==
  ASSUME UnitTyped, NEW exit \in Exits, NEW faults \in Nat, Over(exit, faults), UNCHANGED <<kind, hub, local>>
  PROVE  /\ UnitTyped' /\ job' = Idle /\ \A w \in Projectors : place'[w] = "gone"
         /\ spell'.exact = (spell.exact /\ (AheadOfHub => job.landed))
<1>1. /\ place' \in [Projectors -> Places]
      /\ part' \in [Projectors -> Parts \union {0}] /\ \A w \in Projectors : place'[w] = "gone"
  BY DEF Over, Places
<1>2. spell' \in Spells /\ spell'.exact = (spell.exact /\ (AheadOfHub => job.landed))
  <2> DEFINE exact == spell.exact /\ (AheadOfHub => job.landed)
  <2>1. exact \in BOOLEAN
    OBVIOUS
  <2>2. spell' = [spell EXCEPT !.exit = exit, !.faults = faults, !.exact = exact]
    BY DEF Over
  <2> HIDE DEF exact
  <2>3. spell' \in Spells /\ spell'.exact = exact
    BY <2>1, <2>2, StateFields DEF Spells
  <2> QED BY <2>3 DEF exact
<1>3. job' = Idle
  BY DEF Over
<1>4. job' \in Jobs
  BY <1>3, IdleFields
<1> QED BY <1>1, <1>2, <1>3, <1>4 DEF UnitTyped, Spells, Exits, Places

\* What the ledger file says when a run ends is what the hub has, unless the run
\* is known to have written ahead.
LEMMA FileIsOfTheHub ==
  ASSUME UnitInv, Running, spell.exact, AheadOfHub => job.landed
  PROVE  AtRestCounts
<1> USE DEF UnitInv
<1>1. FileCounts
  BY DEF LedgersAgree
<1>2. Pending = {} \/ Pending = Batched
  BY DEF Pending
<1>3. hub.parts \union Pending = hub.parts
  <2>1. CASE Pending = {}
    BY <2>1
  <2>2. CASE Pending = Batched /\ Batched # {}
    <3>1. job.phase \in {"langs", "commit", "stuck", "settle"} /\ job.batch # <<>> /\ job.mode = "publish"
      BY <2>2, BatchNow DEF Pending
    <3>2. Arrived
      BY <3>1 DEF AheadOfHub, PhasesFit, Arrived
    <3> QED BY <3>1, <3>2, <2>2 DEF PartsApart, UnderWay
  <2> QED BY <2>1, <2>2, <1>2
<1>4. ASSUME kind = "news" PROVE local.langs = local.ledger.rows
  <2>1. CASE job.phase = "langs"
    <3>1. Batched = {}
      <4>1. ~job.landed /\ job.mode = "publish"
        BY <2>1 DEF PhasesFit
      <4> QED BY <4>1, <2>1, BatchNow DEF AheadOfHub
    <3>2. hub.parts \ Batched = hub.parts
      BY <3>1
    <3> QED BY <3>2, <2>1, <1>1, <1>3, <1>4 DEF FileCounts, Counts
  <2>2. CASE job.phase # "langs"
    BY <2>2, <1>1, <1>4 DEF FileCounts
  <2> QED BY <2>1, <2>2
<1> QED BY <1>1, <1>3, <1>4 DEF AtRestCounts, FileCounts, Counts

LEMMA OverKeeps ==
  ASSUME UnitInv, Running, NEW exit \in Exits, NEW faults \in Nat, Over(exit, faults),
         UNCHANGED <<kind, hub, local>>
  PROVE  UnitInv'
<1> USE DEF UnitInv
<1>1. /\ UnitTyped' /\ job' = Idle /\ \A w \in Projectors : place'[w] = "gone"
      /\ spell'.exact = (spell.exact /\ (AheadOfHub => job.landed))
  BY OverIsTyped
<1>2. ~Running' /\ ~UnderWay' /\ Busy' = {} /\ job'.batch = <<>> /\ job'.mode = "none" /\ job'.skipped = 0
      /\ job'.phase = "down"
  BY <1>1, IdleFields DEF Running, UnderWay, Busy
<1>3. PhasesFit'
  BY <1>1, <1>2, IdleFields, Sizes DEF PhasesFit, Footers, Readers
<1>4. PartsApart' /\ RunAccounts'
  BY <1>2 DEF PartsApart, RunAccounts
<1>5. StreamInOrder'
  BY <1>2 DEF StreamInOrder
<1>6. LedgersAgree'
  <2>1. spell.exact' => AtRestCounts'
    <3>1. ASSUME spell.exact' PROVE AtRestCounts
      BY <1>1, <3>1, FileIsOfTheHub
    <3> QED BY <3>1 DEF AtRestCounts, Counts
  <2> QED BY <2>1, <1>1, <1>2 DEF LedgersAgree, HubCounts, Counts
<1>7. CompleteMeansWhole'
  BY DEF CompleteMeansWhole
<1>8. DiskHolds' /\ FootersCount'
  BY <1>2 DEF DiskHolds, FootersCount, Footers
<1> QED BY <1>1, <1>3, <1>4, <1>5, <1>6, <1>7, <1>8

LEMMA EndsKeep ==
  ASSUME UnitInv,
         \/ PlanFails \/ StreamFails \/ CommitFails \/ RepairFails \/ FeederStops \/ Exit \/ KillUnit
         \/ sumPublishedTotals /\ job.failed
  PROVE  UnitInv'
<1> DEFINE ends(exit, faults) == Running /\ exit \in Exits /\ faults \in Nat /\ Over(exit, faults)
                                  /\ UNCHANGED <<kind, hub, local>>
<1>0. spell.faults \in Nat /\ spell.faults + 1 \in Nat
  BY StateFields DEF UnitInv
<1>1. \E exit, faults : ends(exit, faults)
  <2>1. ASSUME NEW faults \in Nat, Fails(faults) PROVE \E exit \in Exits : Over(exit, faults)
    BY <2>1 DEF Fails, Exits
  <2>2. CASE PlanFails
    BY <2>1, <2>2, <1>0 DEF PlanFails, Running
  <2>3. CASE StreamFails
    <3>1. Running /\ UNCHANGED <<kind, hub, local>> /\ \E faults \in Nat : Fails(faults)
      BY <2>3, <1>0 DEF StreamFails, Streaming, Running
    <3> QED BY <3>1, <2>1
  <2>4. CASE CommitFails
    BY <2>1, <2>4, <1>0 DEF CommitFails, Running
  <2>5. CASE Exit
    <3>1. Running /\ UNCHANGED <<kind, hub, local>> /\ \E exit \in Exits : Over(exit, spell.faults)
      BY <2>5 DEF Exit, Running, Exits
    <3> QED BY <3>1, <1>0
  <2>6. CASE KillUnit
    BY <2>6, <1>0 DEF KillUnit, Exits
  <2>7. CASE RepairFails
    <3>1. Running /\ UNCHANGED <<kind, hub, local>> /\ \E faults \in Nat : Fails(faults)
      BY <2>7, <1>0 DEF RepairFails, Running
    <3> QED BY <3>1, <2>1
  <2>8. CASE FeederStops \/ (sumPublishedTotals /\ job.failed)
    <3>1. Running /\ UNCHANGED <<kind, hub, local>> /\ Fails(spell.faults)
      BY <2>8 DEF FeederStops, sumPublishedTotals, Summed, Footers, Running
    <3> QED BY <3>1, <2>1, <1>0
  <2> QED BY <2>2, <2>3, <2>4, <2>5, <2>6, <2>7, <2>8
<1>2. PICK exit, faults : ends(exit, faults)
  BY <1>1
<1> QED BY <1>2, OverKeeps

LEMMA FaultTurns ==
  ASSUME UnitTyped, UnitFault
  PROVE  SpellTurns
BY StateFields DEF UnitFault, SpellTurns, Spells

LEMMA SpellRests ==
  ASSUME UnitTyped, UNCHANGED spell
  PROVE  SpellTurns
BY StateFields DEF SpellTurns

Holds == FloorMarks /\ UNCHANGED <<kind, hub, local, place, part, spell>>
Stutters == UNCHANGED unitVars

\* The stall clock, a cancel, an answer that does not come, a hold: nobody moves.
LEMMA WaitsKeep ==
  ASSUME UnitInv,
         \/ UnitTick \/ CancelUnit \/ CommitRefused \/ CommitHangs \/ CommitTimesOut \/ StreamWaits
         \/ Stutters \/ Holds
  PROVE  UnitInv'
<1> DEFINE frame == UNCHANGED <<kind, hub, local, place, part>> /\ SpellTurns
<1>waits. ASSUME JobGoesOn, frame PROVE UnitInv'
  BY <1>waits, WaitingKeeps DEF JobWaits, SamePool
<1>0. UnitTyped /\ job \in Jobs /\ job.quiet \in 0 .. MaxStall /\ MaxStall \in Nat \ {0} /\ job.tries \in Nat
      /\ job.stalled \in BOOLEAN /\ job.cancelled \in BOOLEAN
  BY StateFields, JobFields, Sizes DEF UnitInv
<1>1. CASE UnitTick
  <2>1. CASE job.quiet >= MaxStall
    <3>1. job' = [job EXCEPT !.stalled = TRUE, !.cancelled = TRUE]
      BY <1>1, <2>1 DEF UnitTick
    <3>2. job' \in Jobs
      BY <3>1, <1>0 DEF Jobs
    <3>3. JobGoesOn
      BY <1>0, <3>1, <3>2 DEF Jobs, JobGoesOn, SameWork, SameBatch, SameTotals
    <3> QED BY <1>0, <1>1, <3>3, <1>waits, SpellRests DEF UnitTick
  <2>2. CASE ~(job.quiet >= MaxStall)
    <3> DEFINE quiet == job.quiet + 1
    <3>1. quiet \in 0 .. MaxStall
      BY <1>0, <2>2
    <3>2. job' = [job EXCEPT !.quiet = quiet]
      BY <1>1, <2>2 DEF UnitTick
    <3> HIDE DEF quiet
    <3>3. job' \in Jobs
      BY <3>1, <3>2, <1>0 DEF Jobs
    <3>4. JobGoesOn
      BY <1>0, <3>2, <3>3 DEF Jobs, JobGoesOn, SameWork, SameBatch, SameTotals
    <3> QED BY <1>0, <1>1, <3>4, <1>waits, SpellRests DEF UnitTick
  <2> QED BY <2>1, <2>2
<1>2. CASE CancelUnit
  <2>1. job' = [job EXCEPT !.cancelled = TRUE]
    BY <1>2 DEF CancelUnit
  <2>2. job' \in Jobs
    BY <2>1, <1>0 DEF Jobs
  <2>3. JobGoesOn
    BY <1>0, <2>1, <2>2 DEF Jobs, JobGoesOn, SameWork, SameBatch, SameTotals
  <2> QED BY <1>0, <1>2, <2>3, <1>waits, FaultTurns DEF CancelUnit
<1>3. CASE CommitRefused \/ CommitTimesOut
  <2> DEFINE tries == job.tries + 1
  <2>1. tries \in Nat
    BY <1>0
  <2>2. \/ job' = [job EXCEPT !.tries = tries]
        \/ job.phase = "stuck" /\ job' = [job EXCEPT !.phase = "commit", !.tries = tries]
    BY <1>3 DEF CommitRefused, CommitTimesOut
  <2> HIDE DEF tries
  <2>3. UNCHANGED <<kind, hub, local, place, part>> /\ SpellTurns
    BY <1>0, <1>3, FaultTurns, SpellRests DEF CommitRefused, CommitTimesOut
  <2>4. CASE job' = [job EXCEPT !.tries = tries]
    <3>1. job' \in Jobs
      BY <2>1, <2>4, <1>0 DEF Jobs
    <3>2. JobGoesOn
      BY <1>0, <2>4, <3>1 DEF Jobs, JobGoesOn, SameWork, SameBatch, SameTotals
    <3> QED BY <2>3, <3>2, <1>waits
  <2>5. CASE job.phase = "stuck" /\ job' = [job EXCEPT !.phase = "commit", !.tries = tries]
    <3>1. job' \in Jobs
      BY <2>1, <2>5, <1>0 DEF Jobs
    <3>2. JobGoesOn
      BY <1>0, <2>5, <3>1 DEF Jobs, JobGoesOn, SameWork, SameBatch, SameTotals
    <3> QED BY <2>3, <3>2, <1>waits
  <2> QED BY <2>2, <2>4, <2>5
<1>4. CASE CommitHangs
  <2>1. job.phase = "commit" /\ job' = [job EXCEPT !.phase = "stuck"]
    BY <1>4 DEF CommitHangs
  <2>2. job' \in Jobs
    BY <2>1, <1>0 DEF Jobs
  <2>3. /\ SameWork /\ SameBatch /\ SameTotals /\ job'.last = job.last
        /\ job'.phase = "stuck" /\ job'.cancelled = job.cancelled
    BY <1>0, <2>1 DEF Jobs, SameWork, SameBatch, SameTotals
  <2>4. JobGoesOn
    BY <2>1, <2>2, <2>3 DEF JobGoesOn
  <2> QED BY <1>0, <1>4, <2>4, <1>waits, FaultTurns DEF CommitHangs
<1>5. CASE StreamWaits \/ Holds
  <2> DEFINE quiet == 0
  <2>0. quiet \in 0 .. MaxStall
    BY <1>0
  <2>1. job' = [job EXCEPT !.quiet = quiet] /\ UNCHANGED <<kind, hub, local, place, part, spell>>
    BY <1>5 DEF StreamWaits, FloorMarks, Holds
  <2> HIDE DEF quiet
  <2>2. job' \in Jobs
    BY <2>0, <2>1, <1>0 DEF Jobs
  <2>3. JobGoesOn
    BY <1>0, <2>1, <2>2 DEF Jobs, JobGoesOn, SameWork, SameBatch, SameTotals
  <2> QED BY <1>0, <2>1, <2>3, <1>waits, SpellRests
<1>6. CASE Stutters
  <2>1. UNCHANGED spell /\ job' = job /\ UNCHANGED <<kind, hub, local>> /\ UNCHANGED <<place, part>>
    BY <1>6 DEF unitVars, Stutters
  <2>2. SpellTurns
    BY <2>1, <1>0, SpellRests
  <2>3. JobGoesOn
    BY <1>0, <2>1 DEF JobGoesOn, SameWork, SameBatch, SameTotals
  <2> QED BY <2>1, <2>2, <2>3, <1>waits
<1> QED BY <1>1, <1>2, <1>3, <1>4, <1>5, <1>6

(* ------------------------- between two processes -------------------------- *)
LEMMA AtRest ==
  ASSUME UnitInv, ~Running
  PROVE  /\ job.phase = "down" /\ job.mode = "none" /\ job.batch = <<>> /\ Batched = {} /\ Pending = {}
         /\ ~UnderWay /\ Busy = {} /\ \A w \in Projectors : place[w] = "gone"
         /\ job.skipped = 0 /\ (spell.exact => AtRestCounts)
<1> USE DEF UnitInv
<1>1. /\ job.phase = "down" /\ job.mode = "none" /\ ~UnderWay /\ job.batch = <<>> /\ job.skipped = 0
      /\ \A w \in Projectors : place[w] = "gone"
  BY DEF Running, PhasesFit, UnderWay
<1>2. Batched = {} /\ Pending = {} /\ Busy = {}
  BY <1>1, BatchNow DEF Pending, Busy
<1> QED BY <1>1, <1>2 DEF LedgersAgree

\* Nothing is staged and nobody new is let through.
LEMMA DiskStays ==
  ASSUME UnitInv, job'.mode = job.mode, job'.left = job.left, local'.staged = local.staged,
         LetThrough' \subseteq LetThrough, job.mode = "publish" \/ Batched' = Batched
  PROVE  DiskHolds'
<1>1. /\ Cardinality(LetThrough) \in Nat /\ Cardinality(LetThrough') \in Nat
      /\ Cardinality(LetThrough') <= Cardinality(LetThrough)
  <2>1. LetThrough \in SUBSET Projectors
    BY DEF LetThrough
  <2>2. IsFiniteSet(LetThrough) /\ Cardinality(LetThrough) \in Nat
    BY <2>1, PoolIsFinite
  <2> QED BY <2>2, FS_Subset, FS_CardinalityType
<1>2. /\ Cardinality(local.staged) \in Nat /\ job.left \in Nat /\ Capacity \in Nat
      /\ Cardinality(Projectors) \in Nat
  BY SubsetsAreFinite, StateFields, JobFields, Sizes DEF UnitInv
<1>3. ASSUME job.mode = "publish"
      PROVE  LET coming == Cardinality(local'.staged) + Cardinality(LetThrough')
             IN coming < Capacity + Cardinality(Projectors) \/ coming <= job'.left
  BY <1>1, <1>2, <1>3 DEF UnitInv, DiskHolds
<1>4. ASSUME job.mode \in {"repair", "recount"} PROVE Cardinality(local'.staged \ Batched') <= job'.left
  BY <1>4 DEF UnitInv, DiskHolds
<1> QED BY <1>3, <1>4 DEF DiskHolds

LEMMA NoFooters ==
  ASSUME job'.phase # "footers"
  PROVE  FootersCount'
BY DEF FootersCount, Footers

LEMMA StartIsTyped ==
  ASSUME UnitTyped, NEW mode \in {"publish", "recount", "repair"}, Start(mode)
  PROVE  UnitTyped'
<1>1. job' \in Jobs
  <2> DEFINE left == Cardinality(local.staged)
  <2>1. left \in Nat
    BY SubsetsAreFinite, StateFields
  <2>2. NewJob(mode, "plan") \in Jobs
    BY NewJobTyped DEF Modes, Phases
  <2>3. job' = [NewJob(mode, "plan") EXCEPT !.left = left]
    BY DEF Start
  <2> HIDE DEF left
  <2> QED BY <2>1, <2>2, <2>3 DEF Jobs
<1>2. PICK seeded \in {TRUE, FALSE} :
         /\ local' = IF local.ledger.known \/ ~seeded THEN local
                     ELSE [local EXCEPT !.ledger = hub.ledger, !.langs = hub.langs]
         /\ spell' = [spell EXCEPT !.runs = @ + 1, !.exit = "none",
                                   !.faults = IF seeded THEN @ ELSE @ + 1,
                                   !.exact = @ /\ (seeded \/ ~hub.ledger.known)]
  BY DEF Start
<1>3. local' \in Stagings
  BY <1>2, StateFields DEF Stagings
<1>4. spell' \in Spells
  <2> DEFINE runs == spell.runs + 1
             faults == IF seeded THEN spell.faults ELSE spell.faults + 1
             exact == spell.exact /\ (seeded \/ ~hub.ledger.known)
  <2>1. runs \in Nat /\ faults \in Nat /\ exact \in BOOLEAN
    BY StateFields
  <2>2. spell' = [spell EXCEPT !.runs = runs, !.exit = "none", !.faults = faults, !.exact = exact]
    BY <1>2
  <2> HIDE DEF runs, faults, exact
  <2> QED BY <2>1, <2>2, StateFields DEF Spells, Exits
<1> QED BY <1>1, <1>3, <1>4 DEF UnitTyped, Start, Stagings, Spells, Exits

LEMMA StartKeeps ==
  ASSUME UnitInv, NEW mode \in {"publish", "recount", "repair"}, Start(mode)
  PROVE  UnitInv'
<1> USE DEF UnitInv
<1>1. UnitTyped'
  BY StartIsTyped
<1>2. /\ ~Running /\ job' = [NewJob(mode, "plan") EXCEPT !.left = Cardinality(local.staged)]
      /\ UNCHANGED <<kind, hub, place, part>>
      /\ (mode = "recount" => kind # "news") /\ (mode = "repair" => kind = "urls")
  BY DEF Start
<1>3. /\ job'.mode = mode /\ job'.phase = "plan" /\ job'.batch = <<>> /\ job'.skipped = 0 /\ job'.last = FALSE
      /\ job'.landed = FALSE /\ job'.fresh = 0 /\ job'.flushes = 0 /\ ~UnderWay' /\ Running' /\ Pending' = {}
      /\ job'.rows = 0 /\ job'.left = Cardinality(local.staged) /\ ~Footers'
  <2>1. /\ job'.mode = mode /\ job'.phase = "plan" /\ job'.batch = <<>> /\ job'.skipped = 0
        /\ job'.last = FALSE /\ job'.landed = FALSE /\ job'.fresh = 0 /\ job'.flushes = 0
        /\ job'.rows = 0 /\ job'.left = Cardinality(local.staged)
    BY <1>2 DEF NewJob
  <2> QED BY <2>1 DEF UnderWay, Running, Pending, Footers
<1>4. /\ \A w \in Projectors : place'[w] = "gone"
      /\ Busy' = {} /\ Readers' = {} /\ LetThrough' = {} /\ Batched' = {}
  <2>1. \A w \in Projectors : place'[w] = "gone"
    BY <1>2, AtRest
  <2>2. Batched' = {}
    BY <1>3 DEF Batched, ToSet
  <2> QED BY <2>1, <2>2 DEF Busy, Readers, LetThrough
<1>5. PhasesFit'
  BY <1>2, <1>3, <1>4, Sizes DEF PhasesFit
<1>6. PartsApart' /\ RunAccounts'
  BY <1>3 DEF PartsApart, RunAccounts
<1>7. StreamInOrder'
  BY <1>2, <1>3 DEF StreamInOrder
<1>8. PICK seeded \in {TRUE, FALSE} :
         /\ local' = IF local.ledger.known \/ ~seeded THEN local
                     ELSE [local EXCEPT !.ledger = hub.ledger, !.langs = hub.langs]
         /\ seeded \/ ~local.ledger.known
         /\ spell'.exact = (spell.exact /\ (seeded \/ ~hub.ledger.known))
  BY StateFields DEF Start, Spells
<1>9. local'.staged = local.staged
  BY <1>8, StateFields DEF Stagings
<1>10. \/ local'.ledger = local.ledger /\ local'.langs = local.langs /\ (seeded => local.ledger.known)
       \/ local'.ledger = hub.ledger /\ local'.langs = hub.langs
  BY <1>8, StateFields DEF Stagings
<1>11. CompleteMeansWhole'
  BY <1>2, <1>10 DEF CompleteMeansWhole
<1>12. LedgersAgree'
  <2>1. \A ledger \in {hub'.ledger, local'.ledger} : ledger.known \/ ledger = NoLedger
    BY <1>2, <1>10 DEF LedgersAgree
  <2>2. ASSUME spell'.exact PROVE FileCounts' /\ HubCounts'
    <3>1. spell.exact /\ (seeded \/ ~hub.ledger.known)
      BY <2>2, <1>8
    <3>2. HubCounts /\ AtRestCounts
      BY <3>1, <1>2, AtRest DEF LedgersAgree
    <3>3. HubCounts'
      BY <3>2, <1>2 DEF HubCounts, Counts
    <3>4. hub'.parts \union Pending' = hub.parts
      BY <1>2, <1>3
    <3>5. Counts(local'.ledger, Cardinality(hub.parts)) /\ (kind = "news" => local'.langs = local'.ledger.rows)
      <4>1. CASE local'.ledger = hub.ledger /\ local'.langs = hub.langs
        BY <3>2, <4>1 DEF HubCounts, Counts
      <4>2. CASE local'.ledger = local.ledger /\ local'.langs = local.langs /\ local.ledger.known
        BY <3>2, <4>2 DEF AtRestCounts, Counts
      <4>3. CASE local'.ledger = local.ledger /\ local'.langs = local.langs /\ ~local.ledger.known /\ ~seeded
        <5>1. hub.ledger = NoLedger /\ local.ledger = NoLedger
          BY <3>1, <4>3 DEF LedgersAgree
        <5> QED BY <3>2, <4>3, <5>1 DEF AtRestCounts, HubCounts, Counts
      <4> QED BY <4>1, <4>2, <4>3, <1>10
    <3> QED BY <3>3, <3>4, <3>5, <1>2, <1>3 DEF FileCounts
  <2> QED BY <2>1, <2>2, <1>3 DEF LedgersAgree
<1>13. DiskHolds' /\ FootersCount'
  <2>1. Cardinality(local.staged) \in Nat /\ Cardinality(LetThrough') = 0
    BY <1>4, SubsetsAreFinite, StateFields, FS_EmptySet
  <2>2. local'.staged \ Batched' = local.staged
    BY <1>4, <1>9
  <2> DEFINE n == Cardinality(local.staged)
  <2>3. /\ Cardinality(local'.staged) = n /\ Cardinality(local'.staged \ Batched') = n /\ job'.left = n
        /\ n \in Nat /\ Cardinality(LetThrough') = 0
    BY <2>1, <2>2, <1>3, <1>9, Zenon
  <2> HIDE DEF n
  <2>4. DiskHolds'
    BY <2>3 DEF DiskHolds
  <2> QED BY <2>4, <1>3 DEF FootersCount
<1> QED BY <1>1, <1>2, <1>5, <1>6, <1>7, <1>11, <1>12, <1>13

LEMMA NewMachineKeeps ==
  ASSUME UnitInv, NewMachine
  PROVE  UnitInv'
<1> USE DEF UnitInv
<1>1. /\ ~Running /\ SpellTurns /\ UNCHANGED <<kind, hub, job, place, part>>
      /\ local' = [ledger |-> NoLedger, langs |-> 0, staged |-> {}]
  BY FaultTurns DEF NewMachine
<1>2. UnitTyped'
  BY <1>1, NoLedgerTyped DEF UnitTyped, SpellTurns, Spells, Exits
<1>3. PhasesFit'
  BY <1>1 DEF PhasesFit, UnderWay, Busy, Footers, Readers
<1>4. ~UnderWay' /\ ~Running'
  BY <1>1, AtRest DEF UnderWay, Running
<1>5. PartsApart' /\ RunAccounts' /\ StreamInOrder'
  BY <1>1, <1>4 DEF PartsApart, RunAccounts, StreamInOrder
<1>6. LedgersAgree'
  BY <1>1, <1>4, AtRest DEF LedgersAgree, SpellTurns, HubCounts, Counts, AtRestCounts, NoLedger
<1>7. CompleteMeansWhole'
  BY <1>1 DEF CompleteMeansWhole, NoLedger
<1>8. DiskHolds' /\ FootersCount'
  BY <1>1, AtRest DEF DiskHolds, FootersCount, Footers
<1> QED BY <1>2, <1>3, <1>5, <1>6, <1>7, <1>8

LEMMA DamageKeeps ==
  ASSUME UnitInv, Damage
  PROVE  UnitInv'
<1> USE DEF UnitInv
<1>1. /\ ~Running /\ SpellTurns /\ UNCHANGED <<kind, local, job, place, part>>
      /\ hub' \in Hubs /\ hub'.bad \subseteq hub'.parts /\ hub'.parts = hub.parts /\ hub'.ledger = hub.ledger
      /\ hub'.langs = hub.langs
  <2>1. PICK p \in hub.parts \ hub.bad : hub' = [hub EXCEPT !.bad = @ \union {p}]
    BY DEF Damage
  <2>2. hub.bad \union {p} \in SUBSET Parts /\ hub.bad \union {p} \subseteq hub.parts
    BY <2>1, StateFields DEF UnitTyped
  <2>3. /\ hub' \in Hubs /\ hub'.bad \subseteq hub'.parts /\ hub'.parts = hub.parts /\ hub'.ledger = hub.ledger
        /\ hub'.langs = hub.langs
    BY <2>1, <2>2, StateFields DEF Hubs
  <2> QED BY <2>3, FaultTurns DEF Damage
<1>2. UnitTyped'
  BY <1>1 DEF UnitTyped, SpellTurns, Spells, Exits, Hubs
<1>3. PhasesFit'
  BY <1>1 DEF PhasesFit, UnderWay, Busy, Footers, Readers
<1>4. ~UnderWay' /\ ~Running'
  BY <1>1, AtRest DEF UnderWay, Running
<1>5. PartsApart' /\ RunAccounts' /\ StreamInOrder'
  BY <1>1, <1>4 DEF PartsApart, RunAccounts, StreamInOrder
<1>6. LedgersAgree'
  BY <1>1, <1>4, AtRest DEF LedgersAgree, SpellTurns, HubCounts, Counts, AtRestCounts
<1>7. CompleteMeansWhole'
  BY <1>1 DEF CompleteMeansWhole
<1>8. DiskHolds' /\ FootersCount'
  BY <1>1, AtRest DEF DiskHolds, FootersCount, Footers
<1> QED BY <1>1, <1>2, <1>3, <1>5, <1>6, <1>7, <1>8

(* -------------------------------- the plan -------------------------------- *)
LEMMA LargerOfTwo ==
  ASSUME NEW a \in Nat, NEW b \in Nat
  PROVE  Max({a, b}) \in Nat /\ (a = b => Max({a, b}) = a)
<1>1. \E x \in {a, b} : \A y \in {a, b} : x >= y
  <2>1. CASE a >= b
    BY <2>1
  <2>2. CASE b >= a
    BY <2>2
  <2> QED BY <2>1, <2>2
<1>2. Max({a, b}) \in {a, b}
  BY <1>1 DEF Max
<1> QED BY <1>2

\* What a run continues from.
LEMMA ContinuedFields ==
  ASSUME UnitTyped, NEW done \in SUBSET Parts
  PROVE  LET c == Continued(done)
         IN /\ c \in Jobs /\ c.phase = "work" /\ c.mode = job.mode /\ c.batch = job.batch
            /\ c.skipped = job.skipped /\ c.last = job.last /\ c.landed = job.landed
            /\ c.fresh = job.fresh /\ c.flushes = job.flushes /\ c.cancelled = job.cancelled
            /\ c.feed = Parts \ done /\ c.rows = local.ledger.rows
            /\ c.todo = Total - Cardinality(done) /\ c.left = job.left
            /\ c.committed = Max({Cardinality(done), local.ledger.shards})
<1> DEFINE todo == Total - Cardinality(done)
           committed == Max({Cardinality(done), local.ledger.shards})
           rows == local.ledger.rows
           feed == Parts \ done
<1>1. todo \in Int /\ committed \in Nat /\ rows \in Nat /\ feed \in SUBSET Parts
  <2>1. local.ledger.shards \in Nat /\ local.ledger.rows \in Nat
    BY StateFields, LedgerFields
  <2>2. Cardinality(done) \in Nat /\ Total \in Nat
    BY SubsetsAreFinite, Sizes
  <2>3. committed \in Nat
    BY <2>1, <2>2, LargerOfTwo
  <2> HIDE DEF committed
  <2> QED BY <2>1, <2>2, <2>3
<1>2. Continued(done) = [job EXCEPT !.phase = "work", !.todo = todo, !.feed = feed,
                                    !.committed = committed, !.rows = rows]
  BY DEF Continued
<1> HIDE DEF todo, committed, rows, feed
<1>3. Continued(done) \in Jobs
  <2>1. ASSUME NEW j \in Jobs, NEW t \in Int, NEW f \in SUBSET Parts, NEW c \in Nat, NEW r \in Nat
        PROVE  [j EXCEPT !.phase = "work", !.todo = t, !.feed = f, !.committed = c, !.rows = r] \in Jobs
    BY <2>1, ZenonT(30) DEF Jobs
  <2>2. job \in Jobs
    BY StateFields
  <2>3. [job EXCEPT !.phase = "work", !.todo = todo, !.feed = feed, !.committed = committed, !.rows = rows] \in Jobs
    BY <1>1, <2>1, <2>2, Zenon
  <2> QED BY <1>2, <2>3, Zenon
<1> DEFINE c == Continued(done)
<1>4. /\ c.phase = "work" /\ c.mode = job.mode /\ c.batch = job.batch
      /\ c.skipped = job.skipped /\ c.last = job.last /\ c.landed = job.landed
      /\ c.fresh = job.fresh /\ c.flushes = job.flushes /\ c.cancelled = job.cancelled
      /\ c.feed = feed /\ c.rows = rows /\ c.todo = todo /\ c.committed = committed
      /\ c.left = job.left
  BY <1>2, StateFields DEF Jobs
<1> QED BY <1>3, <1>4 DEF todo, committed, rows, feed

\* Before anything was planned.
LEMMA AtPlan ==
  ASSUME UnitInv, job.phase = "plan"
  PROVE  /\ Running /\ ~UnderWay /\ job.batch = <<>> /\ Batched = {} /\ Pending = {} /\ Busy = {}
         /\ \A w \in Projectors : place[w] = "gone"
         /\ job.skipped = 0 /\ ~job.last /\ job.fresh = 0 /\ job.flushes = 0 /\ job.rows = 0
         /\ ~Footers /\ LetThrough = {}
<1> USE DEF UnitInv
<1>1. /\ ~UnderWay /\ job.batch = <<>> /\ job.skipped = 0 /\ ~job.last /\ job.fresh = 0 /\ job.flushes = 0
      /\ job.rows = 0 /\ ~Footers /\ \A w \in Projectors : place[w] = "gone"
  BY DEF PhasesFit, UnderWay, Footers
<1>2. Batched = {} /\ Pending = {} /\ Busy = {} /\ Running /\ LetThrough = {}
  BY <1>1, BatchNow DEF Pending, Busy, Running, LetThrough
<1> QED BY <1>1, <1>2

LEMMA PoolStartsEmpty ==
  ASSUME UnitInv, \A w \in Projectors : place'[w] \in {"gone", "take"}, local'.staged = local.staged,
         job'.mode = job.mode, job'.left = job.left, job.mode = "publish" \/ Batched' = Batched
  PROVE  Busy' = {} /\ InHand' = {} /\ Readers' = {} /\ LetThrough' = {} /\ DiskHolds'
<1>1. LetThrough' = {} /\ Busy' = {} /\ Readers' = {}
  BY DEF Busy, LetThrough, Readers
<1>2. InHand' = {}
  BY <1>1 DEF InHand
<1> QED BY <1>1, <1>2, DiskStays

LEMMA PoolPlanKeeps ==
  ASSUME UnitInv, publishURLCrawl \/ publishNewsMonth
  PROVE  UnitInv'
<1> USE DEF UnitInv
<1>1. /\ job.phase = "plan" /\ job.mode = "publish" /\ kind \in {"urls", "news"} /\ AllTake
      /\ UNCHANGED <<kind, hub, local, part, spell>>
  BY DEF publishURLCrawl, publishNewsMonth, Planning, Plans
<1>2. /\ hub.parts \in SUBSET Parts /\ local.langs \in Nat /\ job \in Jobs
      /\ local.ledger.shards \in Nat /\ local.ledger.rows \in Nat
  BY StateFields, LedgerFields
<1>3. /\ job' \in Jobs /\ job'.phase = "work" /\ job'.mode = "publish" /\ job'.batch = job.batch
      /\ job'.skipped = job.skipped /\ job'.last = job.last /\ job'.fresh = job.fresh
      /\ job'.flushes = job.flushes /\ job'.cancelled = job.cancelled
      /\ job'.feed = Parts \ hub.parts /\ job'.rows = local.ledger.rows
      /\ job'.todo = Total - Cardinality(hub.parts)
      /\ job'.committed = Max({Cardinality(hub.parts), local.ledger.shards}) /\ job'.left = job.left
      /\ (kind = "news" => job'.langs = local.langs)
  <2> DEFINE c == Continued(hub.parts)
  <2>1. /\ c \in Jobs /\ c.phase = "work" /\ c.mode = job.mode /\ c.batch = job.batch
        /\ c.skipped = job.skipped /\ c.last = job.last
        /\ c.fresh = job.fresh /\ c.flushes = job.flushes /\ c.cancelled = job.cancelled
        /\ c.feed = Parts \ hub.parts /\ c.rows = local.ledger.rows
        /\ c.todo = Total - Cardinality(hub.parts)
        /\ c.committed = Max({Cardinality(hub.parts), local.ledger.shards}) /\ c.left = job.left
    BY <1>2, ContinuedFields
  <2> HIDE DEF c
  <2>2. CASE publishURLCrawl
    <3>1. job' = c /\ kind = "urls"
      BY <2>2 DEF publishURLCrawl, PathsExist, Planning, Plans, c
    <3> QED BY <2>1, <3>1, <1>1
  <2>3. CASE publishNewsMonth
    <3>1. job' = [c EXCEPT !.langs = local.langs]
      BY <2>3 DEF publishNewsMonth, PathsExist, c
    <3>2. job' \in Jobs
      BY <2>1, <3>1, <1>2 DEF Jobs
    <3>3. /\ job'.phase = c.phase /\ job'.mode = c.mode /\ job'.batch = c.batch /\ job'.skipped = c.skipped
          /\ job'.last = c.last /\ job'.fresh = c.fresh /\ job'.flushes = c.flushes
          /\ job'.cancelled = c.cancelled /\ job'.feed = c.feed /\ job'.rows = c.rows /\ job'.todo = c.todo
          /\ job'.committed = c.committed /\ job'.langs = local.langs /\ job'.left = c.left
      BY <2>1, <3>1, <1>2 DEF Jobs
    <3> QED BY <2>1, <3>2, <3>3, <1>1
  <2> QED BY <2>2, <2>3
<1>4. /\ place' = [w \in Projectors |-> "take"] /\ \A w \in Projectors : place'[w] = "take"
      /\ place' \in [Projectors -> Places]
  BY <1>1 DEF AllTake, Places
<1>5. UnitTyped'
  BY <1>1, <1>3, <1>4 DEF UnitTyped, Places
<1>6. Busy' = {} /\ InHand' = {} /\ Readers' = {} /\ DiskHolds' /\ FootersCount' /\ ~Footers'
  BY <1>1, <1>3, <1>4, PoolStartsEmpty, NoFooters DEF Footers
<1>7. /\ Batched' = {} /\ Pending' = {} /\ UnderWay' /\ Running' /\ ~Arrived' /\ job'.batch = <<>>
      /\ Len(job'.batch) = 0 /\ job'.skipped = 0 /\ ~job'.last /\ job'.fresh = 0 /\ job'.flushes = 0
  <2>1. job'.batch = <<>> /\ Batched' = {}
    BY <1>1, <1>3, AtPlan DEF Batched
  <2> QED BY <2>1, <1>1, <1>3, AtPlan DEF Pending, UnderWay, Running, Arrived
<1>8. PhasesFit'
  BY <1>1, <1>3, <1>4, <1>6, <1>7, Sizes DEF PhasesFit
<1>9. PartsApart'
  BY <1>1, <1>3, <1>6, <1>7, FS_EmptySet DEF PartsApart
<1>10. StreamInOrder' /\ CompleteMeansWhole'
  BY <1>1 DEF StreamInOrder, CompleteMeansWhole
<1>11. LedgersAgree'
  <2>1. ASSUME spell'.exact PROVE HubCounts' /\ FileCounts' /\ CommitterCounts'
    <3>1. HubCounts /\ FileCounts /\ Pending = {}
      BY <2>1, <1>1, AtPlan DEF LedgersAgree
    <3>2. Counts(local.ledger, Cardinality(hub.parts)) /\ (kind = "news" => local.langs = local.ledger.rows)
      BY <3>1, <1>1 DEF FileCounts
    <3>3. hub.parts \union Pending' = hub.parts /\ hub.parts \ Batched' = hub.parts
      BY <1>7
    <3>4. job'.committed = Cardinality(hub.parts)
      BY <1>2, <1>3, <3>2, SubsetsAreFinite, LargerOfTwo DEF Counts
    <3>5. HubCounts'
      BY <3>1, <1>1 DEF HubCounts, Counts
    <3> QED BY <3>2, <3>3, <3>4, <3>5, <1>1, <1>3 DEF FileCounts, CommitterCounts, Counts
  <2> QED BY <2>1, <1>1, <1>3, <1>7 DEF LedgersAgree
<1>12. RunAccounts'
  <2>1. Handled' = Parts
    BY <1>1, <1>2, <1>3, <1>6, <1>7 DEF Handled
  <2>2. Cardinality(hub'.parts) \in Nat /\ Total \in Nat
    BY <1>1, <1>2, SubsetsAreFinite, Sizes
  <2>3. job'.fresh = Cardinality(hub'.parts) - (Total - job'.todo)
    BY <1>1, <1>3, <1>7, <2>2
  <2>4. job'.skipped + Cardinality(Handled') = Total
    BY <2>1, <2>2, <1>7 DEF Total
  <2>5. \A w \in Projectors : place'[w] # "gone"
    BY <1>4
  <2> QED BY <2>3, <2>4, <2>5, <1>3, <1>7 DEF RunAccounts
<1> QED BY <1>5, <1>6, <1>8, <1>9, <1>10, <1>11, <1>12

LEMMA StreamPlanKeeps ==
  ASSUME UnitInv, PublishDomains
  PROVE  UnitInv'
<1> USE DEF UnitInv
<1>1. job.phase = "plan" /\ job.mode = "publish" /\ kind = "domains" /\ UNCHANGED <<kind, hub, local>>
  BY DEF PublishDomains, Planning, Plans
<1>2. CASE LeftAlone
  BY <1>1, <1>2, AtPlan, StateFields, OverKeeps DEF PublishDomains, Exits
<1>3. CASE ~LeftAlone
  <2>1. /\ job' = [Continued({}) EXCEPT !.committed = 0, !.todo = Cardinality(Parts \ hub.parts)]
        /\ UNCHANGED <<place, part, spell>>
    BY <1>3 DEF PublishDomains
  <2>2. /\ job' \in Jobs /\ job'.phase = "work" /\ job'.mode = "publish" /\ job'.batch = job.batch
        /\ job'.skipped = job.skipped /\ job'.last = job.last
        /\ job'.flushes = job.flushes /\ job'.cancelled = job.cancelled
        /\ job'.feed = Parts /\ job'.rows = local.ledger.rows /\ job'.committed = 0
        /\ job'.left = job.left
    <3> DEFINE c == Continued({})
               todo == Cardinality(Parts \ hub.parts)
    <3>1. /\ c \in Jobs /\ c.phase = "work" /\ c.mode = job.mode /\ c.batch = job.batch
          /\ c.skipped = job.skipped /\ c.last = job.last
          /\ c.flushes = job.flushes /\ c.cancelled = job.cancelled
          /\ c.feed = Parts \ {} /\ c.rows = local.ledger.rows /\ c.left = job.left
      BY ContinuedFields
    <3>2. todo \in Int
      BY SubsetsAreFinite
    <3>3. job' = [c EXCEPT !.committed = 0, !.todo = todo]
      BY <2>1
    <3> HIDE DEF c, todo
    <3>4. job' \in Jobs
      BY <3>1, <3>2, <3>3 DEF Jobs
    <3>5. /\ job'.phase = c.phase /\ job'.mode = c.mode /\ job'.batch = c.batch /\ job'.skipped = c.skipped
          /\ job'.last = c.last /\ job'.flushes = c.flushes
          /\ job'.cancelled = c.cancelled /\ job'.feed = c.feed /\ job'.rows = c.rows
          /\ job'.committed = 0 /\ job'.left = c.left
      BY <3>1, <3>2, <3>3 DEF Jobs
    <3> QED BY <3>1, <3>4, <3>5, <1>1
  <2>3. UnitTyped'
    BY <1>1, <2>1, <2>2 DEF UnitTyped
  <2>4. /\ Busy' = {} /\ InHand' = {} /\ Readers' = {} /\ DiskHolds' /\ FootersCount' /\ ~Footers'
        /\ \A w \in Projectors : place'[w] = "gone"
    <3>1. \A w \in Projectors : place'[w] = "gone"
      BY <1>1, <2>1, AtPlan
    <3>2. FootersCount' /\ ~Footers'
      BY <2>2, NoFooters DEF Footers
    <3> QED BY <3>1, <3>2, <1>1, <2>2, PoolStartsEmpty
  <2>5. /\ Batched' = {} /\ Pending' = {} /\ UnderWay' /\ Running' /\ ~Arrived' /\ job'.batch = <<>>
        /\ Len(job'.batch) = 0 /\ job'.skipped = 0 /\ ~job'.last
    <3>1. job'.batch = <<>> /\ Batched' = {}
      BY <1>1, <2>2, AtPlan DEF Batched
    <3> QED BY <3>1, <1>1, <2>2, AtPlan DEF Pending, UnderWay, Running, Arrived
  <2>6. PhasesFit'
    BY <1>1, <2>2, <2>4, <2>5, Sizes DEF PhasesFit
  <2>7. PartsApart'
    BY <1>1, <2>2, <2>4, <2>5, FS_EmptySet DEF PartsApart
  <2>8. StreamInOrder'
    <3>1. (Parts \ job'.feed) \ Batched' = {} /\ Cardinality({}) = 0
      BY <2>2, FS_EmptySet
    <3> QED BY <3>1, <1>1, <2>2, <2>5 DEF StreamInOrder
  <2>9. CompleteMeansWhole' /\ RunAccounts'
    BY <1>1 DEF CompleteMeansWhole, RunAccounts
  <2>10. LedgersAgree'
    <3>1. ASSUME spell'.exact PROVE HubCounts' /\ FileCounts' /\ CommitterCounts'
      <4>1. HubCounts /\ FileCounts /\ Pending = {}
        BY <3>1, <1>1, <2>1, AtPlan DEF LedgersAgree
      <4>2. Counts(local.ledger, Cardinality(hub.parts))
        BY <4>1 DEF FileCounts
      <4>3. hub.parts \union Pending' = hub.parts /\ hub.parts \ Batched' = hub.parts
        BY <2>5
      <4>4. HubCounts'
        BY <4>1, <1>1 DEF HubCounts, Counts
      <4> QED BY <4>2, <4>3, <4>4, <1>1, <2>2 DEF FileCounts, CommitterCounts, Counts
    <3> QED BY <3>1, <1>1, <2>1, <2>2, <2>5 DEF LedgersAgree
  <2> QED BY <2>3, <2>4, <2>6, <2>7, <2>8, <2>9, <2>10
<1> QED BY <1>2, <1>3

\* One more part in the batch.
LEMMA AddedFields ==
  ASSUME UnitTyped, NEW p \in Parts
  PROVE  LET a == Added(p)
         IN /\ a \in Jobs /\ a.batch = Append(job.batch, p)
            /\ a.phase = (IF Len(job.batch) + 1 >= CommitEvery THEN "ledger" ELSE job.phase)
            /\ a.mode = job.mode /\ a.feed = job.feed /\ a.todo = job.todo /\ a.skipped = job.skipped
            /\ a.committed = job.committed /\ a.rows = job.rows /\ a.langs = job.langs
            /\ a.flushes = job.flushes /\ a.last = job.last /\ a.landed = job.landed
            /\ a.fresh = job.fresh /\ a.cancelled = job.cancelled /\ a.left = job.left
<1> DEFINE batch == Append(job.batch, p)
           phase == IF Len(batch) >= CommitEvery THEN "ledger" ELSE job.phase
<1>1. job \in Jobs /\ batch \in Seq(Parts) /\ Len(batch) = Len(job.batch) + 1
  BY StateFields, JobFields, BatchElements
<1>2. phase \in Phases
      /\ phase = IF Len(job.batch) + 1 >= CommitEvery THEN "ledger" ELSE job.phase
  BY <1>1, JobFields DEF Phases
<1>3. Added(p) = [job EXCEPT !.batch = batch, !.phase = phase]
  BY <1>1 DEF Added, Jobs
<1> HIDE DEF batch, phase
<1>4. Added(p) \in Jobs
  BY <1>1, <1>2, <1>3 DEF Jobs, Phases
<1> DEFINE a == Added(p)
<1>5. /\ a.batch = batch /\ a.phase = phase
      /\ a.mode = job.mode /\ a.feed = job.feed /\ a.todo = job.todo /\ a.skipped = job.skipped
      /\ a.committed = job.committed /\ a.rows = job.rows /\ a.langs = job.langs
      /\ a.flushes = job.flushes /\ a.last = job.last /\ a.landed = job.landed
      /\ a.fresh = job.fresh /\ a.cancelled = job.cancelled /\ a.left = job.left
  BY <1>1, <1>3 DEF Jobs
<1> QED BY <1>2, <1>4, <1>5 DEF batch

(* --------------------------------- mending -------------------------------- *)
\* A run that publishes nothing has no parts in hand, and what it has not committed is
\* in no ledger.
LEMMA MendingGoesOn ==
  ASSUME UnitInv, job.mode \in {"recount", "repair"}, UnitTyped', PhasesFit', FootersCount', DiskHolds',
         UNCHANGED <<kind, hub>>, local'.ledger = local.ledger, local'.langs = local.langs,
         spell'.exact = spell.exact, job'.mode = job.mode, job'.skipped = 0,
         job'.mode = "recount" => job'.phase \in {"footers", "exit"}
  PROVE  UnitInv'
<1> USE DEF UnitInv
<1>1. /\ ~UnderWay /\ ~UnderWay' /\ Running /\ Running' /\ Pending = {} /\ Pending' = {}
  BY DEF UnderWay, Running, Pending, PhasesFit
<1>2. PartsApart' /\ RunAccounts' /\ StreamInOrder' /\ CompleteMeansWhole'
  BY <1>1 DEF PartsApart, RunAccounts, StreamInOrder, CompleteMeansWhole
<1>3. LedgersAgree'
  <2>1. \A ledger \in {hub'.ledger, local'.ledger} : ledger.known \/ ledger = NoLedger
    BY DEF LedgersAgree
  <2>2. ASSUME spell'.exact PROVE HubCounts' /\ FileCounts'
    <3>1. HubCounts /\ FileCounts /\ kind # "news"
      BY <2>2, <1>1 DEF LedgersAgree, PhasesFit
    <3> QED BY <3>1, <1>1 DEF HubCounts, FileCounts, Counts
  <2> QED BY <2>1, <2>2, <1>1 DEF LedgersAgree
<1> QED BY <1>2, <1>3

\* Nothing is staged, and the batch is as it was.
LEMMA MendingRests ==
  ASSUME UnitInv, job.mode \in {"recount", "repair"}, local' = local, job'.mode = job.mode,
         job'.left = job.left, job'.batch = job.batch
  PROVE  DiskHolds'
<1>1. Batched' = Batched
  BY DEF Batched
<1> QED BY <1>1 DEF UnitInv, DiskHolds

LEMMA RecountStarts ==
  ASSUME UnitInv, recountURLCrawl \/ RecountDomainGraph
  PROVE  UnitInv'
<1> USE DEF UnitInv
<1>1. /\ job.phase = "plan" /\ job.mode = "recount" /\ UNCHANGED <<kind, hub, local, part, spell>>
      /\ IF hub.parts = {} THEN To("exit") /\ UNCHANGED place
         ELSE job' = [job EXCEPT !.phase = "footers", !.feed = hub.parts] /\ AllTake
  BY DEF recountURLCrawl, RecountDomainGraph, Recount, Plans, PathsExist
<1>2. /\ job.batch = <<>> /\ job.skipped = 0 /\ job \in Jobs /\ hub.parts \in SUBSET Parts /\ Busy = {}
      /\ \A w \in Projectors : place[w] = "gone"
      /\ job.rows = 0 /\ ~job.last /\ UnitTyped
  BY <1>1, AtPlan, StateFields
<1>3. CASE hub.parts = {}
  <2>1. job' = [job EXCEPT !.phase = "exit"] /\ place' = place
    BY <1>1, <1>3 DEF To
  <2>2. /\ job' \in Jobs /\ job'.phase = "exit" /\ job'.mode = "recount" /\ job'.batch = <<>>
        /\ job'.skipped = 0 /\ job'.left = job.left
    BY <2>1, <1>1, <1>2 DEF Jobs
  <2>3. UnitTyped'
    BY <1>1, <1>2, <2>1, <2>2 DEF UnitTyped
  <2>4. PhasesFit'
    BY <1>1, <1>2, <2>1, <2>2, Sizes DEF PhasesFit, UnderWay, Footers, Readers, Busy
  <2> QED BY <1>1, <1>2, <2>2, <2>3, <2>4, NoFooters, MendingRests, MendingGoesOn
<1>4. CASE hub.parts # {}
  <2> DEFINE feed == hub.parts
  <2>1. job' = [job EXCEPT !.phase = "footers", !.feed = feed] /\ AllTake /\ feed \in SUBSET Parts
    BY <1>1, <1>2, <1>4
  <2> HIDE DEF feed
  <2>2. /\ job' \in Jobs /\ job'.phase = "footers" /\ job'.mode = "recount" /\ job'.batch = <<>>
        /\ job'.skipped = 0 /\ job'.left = job.left /\ job'.feed = feed /\ job'.rows = 0 /\ ~job'.last
    BY <2>1, <1>1, <1>2 DEF Jobs
  <2>3. /\ place' \in [Projectors -> Places] /\ Busy' = {} /\ Readers' = {}
    BY <2>1 DEF AllTake, Busy, Readers, Places
  <2>4. UnitTyped'
    BY <1>1, <1>2, <2>2, <2>3 DEF UnitTyped, Places
  <2>5. PhasesFit'
    BY <1>1, <1>2, <2>2, <2>3, Sizes DEF PhasesFit, UnderWay, Footers
  <2>6. FootersCount'
    <3>1. Cardinality(Readers') = 0 /\ Cardinality(hub.parts) \in Nat
      BY <1>2, <2>3, FS_EmptySet, SubsetsAreFinite
    <3> QED BY <3>1, <1>1, <2>2 DEF FootersCount, feed
  <2> QED BY <1>1, <1>2, <2>2, <2>4, <2>5, <2>6, MendingRests, MendingGoesOn
<1> QED BY <1>3, <1>4

\* Among the footers only the pool moves.
FootersFrame ==
  /\ UNCHANGED <<kind, hub, local, part>> /\ SpellTurns
  /\ job' \in Jobs /\ job'.phase = "footers" /\ job'.mode = job.mode /\ job'.batch = job.batch
  /\ job'.last = job.last /\ job'.left = job.left /\ job'.skipped = job.skipped

LEMMA ReadersGoOn ==
  ASSUME UnitInv, Footers, NEW w \in Projectors, NEW where \in {"gone", "take", "read"}, Goes(w, where),
         FootersFrame, FootersCount'
  PROVE  UnitInv'
<1> USE DEF UnitInv, FootersFrame
<1>1. /\ job.mode = "recount" /\ ~job.last /\ Busy = {} /\ job.phase = "footers" /\ job.batch = <<>>
      /\ job.skipped = 0
  BY DEF Footers, PhasesFit, UnderWay
<1>2. place' \in [Projectors -> Places] /\ Busy' = {}
  BY <1>1 DEF Goes, UnitTyped, Places, Busy
<1>3. UnitTyped'
  BY <1>2 DEF UnitTyped, SpellTurns, Spells, Exits, Places
<1>4. PhasesFit'
  BY <1>1, <1>2, Sizes DEF PhasesFit, UnderWay, Footers
<1> QED BY <1>1, <1>3, <1>4, MendingRests, MendingGoesOn DEF SpellTurns

LEMMA ReadersAre ==
  ASSUME UnitTyped, NEW w \in Projectors, NEW where \in {"gone", "take", "read"}, Goes(w, where)
  PROVE  /\ IsFiniteSet(Readers) /\ Cardinality(Readers) \in Nat
         /\ Readers' = IF where = "read" THEN Readers \union {w} ELSE Readers \ {w}
<1>1. IsFiniteSet(Readers) /\ Cardinality(Readers) \in Nat
  BY PoolIsFinite DEF Readers
<1> QED BY <1>1 DEF Readers, Goes, UnitTyped

LEMMA HandOverKeeps ==
  ASSUME UnitInv, NEW w \in Projectors, HandOver(w)
  PROVE  UnitInv'
<1> USE DEF UnitInv
<1>1. /\ Footers /\ place[w] = "take" /\ Goes(w, "read") /\ UNCHANGED <<kind, hub, local, part, spell>>
  BY DEF HandOver
<1>2. PICK p \in Parts : First(p) /\ job' = [job EXCEPT !.feed = @ \ {p}]
  BY DEF HandOver
<1> DEFINE feed == job.feed \ {p}
<1>3. /\ job' = [job EXCEPT !.feed = feed] /\ job \in Jobs /\ job.feed \in SUBSET Parts
      /\ p \in job.feed /\ feed \in SUBSET Parts
  BY <1>2, StateFields, JobFields DEF First
<1>4. Cardinality(feed) = Cardinality(job.feed) - 1 /\ Cardinality(job.feed) \in Nat
  BY <1>3, SubsetsAreFinite, FS_RemoveElement
<1> HIDE DEF feed
<1>5. /\ job' \in Jobs /\ job'.feed = feed /\ job'.rows = job.rows /\ job'.failed = job.failed
      /\ job'.cancelled = job.cancelled /\ job'.phase = job.phase /\ job'.mode = job.mode
      /\ job'.batch = job.batch /\ job'.last = job.last /\ job'.left = job.left
      /\ job'.skipped = job.skipped
  BY <1>3 DEF Jobs
<1>6. FootersFrame
  BY <1>1, <1>5, SpellRests DEF FootersFrame, Footers
<1>7. FootersCount'
  <2>1. Cardinality(Readers') = Cardinality(Readers) + 1 /\ Cardinality(Readers) \in Nat
    BY <1>1, ReadersAre, FS_AddElement DEF Readers
  <2>2. job.rows \in Nat
    BY <1>3, JobFields
  <2> QED BY <2>1, <2>2, <1>1, <1>4, <1>5 DEF FootersCount
<1> QED BY <1>1, <1>6, <1>7, ReadersGoOn

LEMMA ReadingKeeps ==
  ASSUME UnitInv, NEW w \in Projectors, ReadFooter(w) \/ FooterFails(w) \/ FooterLeft(w)
  PROVE  UnitInv'
<1> USE DEF UnitInv
<1>1. Footers
  <2>1. place[w] = "read" => w \in Readers
    BY DEF Readers
  <2> QED BY <2>1 DEF ReadFooter, FooterFails, FooterLeft, PhasesFit
<1>2. UNCHANGED <<kind, hub, local, part>> /\ SpellTurns /\ job \in Jobs /\ job.rows \in Nat
  BY FaultTurns, SpellRests, StateFields, JobFields DEF ReadFooter, FooterFails, FooterLeft
<1>3. CASE ReadFooter(w)
  <2> DEFINE rows == job.rows + 1
  <2>1. rows \in Nat /\ job' = [job EXCEPT !.rows = rows] /\ place[w] = "read" /\ Goes(w, "take")
    BY <1>2, <1>3 DEF ReadFooter
  <2> HIDE DEF rows
  <2>2. /\ job' \in Jobs /\ job'.rows = rows /\ job'.feed = job.feed /\ job'.failed = job.failed
        /\ job'.cancelled = job.cancelled /\ job'.phase = job.phase /\ job'.mode = job.mode
        /\ job'.batch = job.batch /\ job'.last = job.last /\ job'.left = job.left
        /\ job'.skipped = job.skipped
    BY <1>2, <2>1 DEF Jobs
  <2>3. FootersFrame
    BY <1>1, <1>2, <2>2 DEF FootersFrame, Footers
  <2>4. FootersCount'
    <3>1. Cardinality(Readers') = Cardinality(Readers) - 1 /\ Cardinality(Readers) \in Nat
      <4>1. w \in Readers /\ Readers' = Readers \ {w} /\ IsFiniteSet(Readers) /\ Cardinality(Readers) \in Nat
        BY <2>1, ReadersAre DEF Readers
      <4> QED BY <4>1, FS_RemoveElement
    <3>2. Cardinality(job.feed) \in Nat
      BY <1>2, JobFields, SubsetsAreFinite
    <3> QED BY <3>1, <3>2, <1>1, <1>2, <2>2 DEF FootersCount, rows
  <2> QED BY <1>1, <2>1, <2>3, <2>4, ReadersGoOn
<1>4. CASE FooterFails(w)
  <2>1. job' = [job EXCEPT !.failed = TRUE] /\ Goes(w, "gone")
    BY <1>4 DEF FooterFails
  <2>2. /\ job' \in Jobs /\ job'.failed
        /\ job'.phase = job.phase /\ job'.mode = job.mode
        /\ job'.batch = job.batch /\ job'.last = job.last /\ job'.left = job.left
        /\ job'.skipped = job.skipped
    BY <1>2, <2>1 DEF Jobs
  <2>3. FootersFrame /\ FootersCount'
    BY <1>1, <1>2, <2>2 DEF FootersFrame, Footers, FootersCount
  <2> QED BY <1>1, <2>1, <2>3, ReadersGoOn
<1>5. CASE FooterLeft(w)
  <2>1. job' = job /\ Goes(w, "gone") /\ (job.cancelled \/ place[w] = "take")
    BY <1>5 DEF FooterLeft
  <2>2. FootersFrame
    BY <1>1, <1>2, <2>1 DEF FootersFrame, Footers
  <2>3. FootersCount'
    <3>1. CASE job.cancelled
      BY <3>1, <2>1 DEF FootersCount
    <3>2. CASE place[w] = "take"
      <4>1. Readers' = Readers
        BY <3>2, <2>1, ReadersAre DEF Readers
      <4> QED BY <4>1, <1>1, <1>2, <2>1 DEF FootersCount
    <3> QED BY <2>1, <3>1, <3>2
  <2> QED BY <1>1, <2>1, <2>2, <2>3, ReadersGoOn
<1> QED BY <1>3, <1>4, <1>5

\* Every footer was read, unless the context is at its end.
LEMMA SumKeeps ==
  ASSUME UnitInv, sumPublishedTotals, ~job.failed
  PROVE  UnitInv'
<1> USE DEF UnitInv
<1> DEFINE complete == IF kind = "domains" THEN local.ledger.complete ELSE hub.parts = Parts
           all == job.rows = Cardinality(hub.parts)
<1>1. /\ Footers /\ job.feed = {} /\ \A w \in Projectors : place[w] = "gone"
      /\ RowIsWritten(complete) /\ UNCHANGED <<kind, hub>>
  BY DEF sumPublishedTotals, NobodyReads, Summed
<1>2. /\ job \in Jobs /\ job.mode = "recount" /\ job.batch = <<>> /\ job.skipped = 0 /\ local \in Stagings
      /\ kind # "news" /\ Busy = {} /\ job.rows \in Nat
  BY <1>1, StateFields, JobFields DEF Footers, PhasesFit, UnderWay
<1>3. job.cancelled \/ all
  <2>1. Readers = {} /\ Cardinality({}) = 0
    BY <1>1, FS_EmptySet DEF Readers
  <2> QED BY <2>1, <1>1, <1>2 DEF FootersCount
<1> DEFINE ledger == Recounted(complete)
<1>4. ledger \in LedgerRows /\ ledger.known /\ ledger.complete = complete /\ (all => Counts(ledger, Cardinality(hub.parts)))
  <2>1. complete \in BOOLEAN /\ Cardinality(hub.parts) \in Nat
    <3>1. local.ledger.complete \in BOOLEAN
      BY StateFields, LedgerFields
    <3>2. Cardinality(hub.parts) \in Nat
      BY StateFields, SubsetsAreFinite
    <3> QED BY <3>1, <3>2
  <2> HIDE DEF complete
  <2> QED BY <2>1, <1>2 DEF Recounted, LedgerRows, Counts
<1>5. /\ local' = [local EXCEPT !.ledger = ledger] /\ job' = [job EXCEPT !.phase = "commit", !.last = TRUE]
      /\ spell' = [spell EXCEPT !.exact = @ /\ (job.cancelled => all)] /\ UNCHANGED <<place, part>>
  BY <1>1 DEF RowIsWritten
<1>6. spell' \in Spells /\ spell'.exact = (spell.exact /\ all)
  <2> DEFINE exact == spell.exact /\ (job.cancelled => all)
  <2>1. exact \in BOOLEAN
    OBVIOUS
  <2>2. spell' = [spell EXCEPT !.exact = exact]
    BY <1>5
  <2> HIDE DEF exact, all
  <2>3. spell' \in Spells /\ spell'.exact = exact
    BY <2>1, <2>2, StateFields DEF Spells
  <2> QED BY <2>3, <1>3 DEF exact
<1> HIDE DEF all, ledger
<1>7. /\ local' \in Stagings /\ local'.ledger = ledger /\ local'.langs = local.langs
      /\ local'.staged = local.staged
  BY <1>2, <1>4, <1>5 DEF Stagings
<1>8. /\ job' \in Jobs /\ job'.phase = "commit" /\ job'.last /\ job'.mode = "recount" /\ job'.batch = <<>>
      /\ job'.skipped = 0 /\ job'.left = job.left /\ job'.cancelled = job.cancelled
  BY <1>2, <1>5 DEF Jobs
<1>9. UnitTyped'
  BY <1>1, <1>5, <1>6, <1>7, <1>8 DEF UnitTyped, Spells, Exits, Stagings
<1>10. Running' /\ ~UnderWay' /\ Pending' = {} /\ Busy' = {} /\ Readers' = {} /\ Batched' = Batched /\ Running
       /\ ~UnderWay /\ Pending = {}
  BY <1>1, <1>2, <1>5, <1>8 DEF Running, UnderWay, Pending, Busy, Readers, Batched, Footers
<1>11. PhasesFit'
  BY <1>1, <1>2, <1>5, <1>8, <1>10, Sizes DEF PhasesFit, Footers
<1>12. PartsApart' /\ RunAccounts' /\ StreamInOrder'
  BY <1>1, <1>10 DEF PartsApart, RunAccounts, StreamInOrder
<1>13. CompleteMeansWhole'
  BY <1>1, <1>4, <1>7 DEF CompleteMeansWhole
<1>14. DiskHolds' /\ FootersCount'
  BY <1>2, <1>7, <1>8, <1>10, NoFooters DEF DiskHolds
<1>15. LedgersAgree'
  <2>1. \A l \in {hub'.ledger, local'.ledger} : l.known \/ l = NoLedger
    BY <1>1, <1>4, <1>7 DEF LedgersAgree
  <2>2. ASSUME spell'.exact PROVE HubCounts' /\ FileCounts'
    <3>1. HubCounts /\ all
      BY <2>2, <1>6 DEF LedgersAgree
    <3>2. HubCounts'
      BY <3>1, <1>1 DEF HubCounts, Counts
    <3>3. hub'.parts \union Pending' = hub.parts
      BY <1>1, <1>10
    <3> QED BY <3>1, <3>2, <3>3, <1>1, <1>2, <1>4, <1>7 DEF FileCounts, Counts
  <2>3. Counts(local'.ledger, Cardinality(hub'.parts)) \/ job'.cancelled
    BY <1>1, <1>3, <1>4, <1>7, <1>8 DEF Counts
  <2> QED BY <2>1, <2>2, <2>3, <1>8, <1>10 DEF LedgersAgree
<1> QED BY <1>9, <1>11, <1>12, <1>13, <1>14, <1>15

LEMMA VerifyKeeps ==
  ASSUME UnitInv, VerifyURLCrawl
  PROVE  UnitInv'
<1> USE DEF UnitInv
<1>1. job.phase = "plan" /\ job.mode = "repair" /\ UNCHANGED <<kind, hub, local, place, part>> /\ SpellTurns
  BY FaultTurns, SpellRests DEF VerifyURLCrawl, Plans
<1>2. /\ job.batch = <<>> /\ job.skipped = 0 /\ job \in Jobs /\ Busy = {} /\ Readers = {} /\ ~job.last
      /\ \A w \in Projectors : place[w] = "gone"
  BY <1>1, AtPlan, StateFields DEF Readers
<1>3. \E feed \in SUBSET Parts : \/ job' = [job EXCEPT !.phase = "exit"]
                                 \/ job' = [job EXCEPT !.phase = "repair", !.feed = feed]
  <2>1. PICK doubted \in SUBSET hub.parts :
          job' = IF VerifyShards \union doubted = {} THEN [job EXCEPT !.phase = "exit"]
                 ELSE [job EXCEPT !.phase = "repair", !.feed = VerifyShards \union doubted]
    BY DEF VerifyURLCrawl
  <2>2. VerifyShards \union doubted \in SUBSET Parts
    BY StateFields DEF VerifyShards, Missing
  <2> QED BY <2>1, <2>2
<1>4. PICK feed \in SUBSET Parts : \/ job' = [job EXCEPT !.phase = "exit"]
                                   \/ job' = [job EXCEPT !.phase = "repair", !.feed = feed]
  BY <1>3
<1>5. /\ job' \in Jobs /\ job'.phase \in {"exit", "repair"} /\ job'.mode = "repair" /\ job'.batch = <<>>
      /\ job'.skipped = 0 /\ job'.left = job.left /\ ~job'.last
  <2>1. CASE job' = [job EXCEPT !.phase = "exit"]
    BY <2>1, <1>1, <1>2 DEF Jobs
  <2>2. CASE job' = [job EXCEPT !.phase = "repair", !.feed = feed]
    BY <2>2, <1>1, <1>2 DEF Jobs
  <2> QED BY <2>1, <2>2, <1>4
<1>6. UnitTyped'
  BY <1>1, <1>5 DEF UnitTyped, SpellTurns, Spells, Exits
<1>7. PhasesFit'
  <2>1. kind = "urls" /\ Len(job'.batch) = 0 /\ Busy' = {} /\ Readers' = {} /\ ~UnderWay' /\ ~Footers'
    BY <1>1, <1>2, <1>5 DEF PhasesFit, Busy, Readers, UnderWay, Footers
  <2> QED BY <2>1, <1>1, <1>2, <1>5, Sizes DEF PhasesFit
<1> QED BY <1>1, <1>2, <1>5, <1>6, <1>7, NoFooters, MendingRests, MendingGoesOn DEF SpellTurns

\* What repair stages is in its batch.
LEMMA RepairShardKeeps ==
  ASSUME UnitInv, repairURLShards
  PROVE  UnitInv'
<1> USE DEF UnitInv
<1>1. job.phase = "repair" /\ UNCHANGED <<kind, hub, place, part, spell>>
  BY DEF repairURLShards
<1>2. PICK p \in Parts : /\ First(p) /\ job' = Repaired(p)
                         /\ local' = [local EXCEPT !.staged = @ \union {p}]
  BY DEF repairURLShards
<1>3. /\ job.mode = "repair" /\ ~job.last /\ kind = "urls" /\ ~Footers /\ ~UnderWay /\ Readers = {}
      /\ Len(job.batch) < CommitEvery /\ job \in Jobs /\ job.skipped = 0
      /\ \A w \in Projectors : place[w] = "gone"
  BY <1>1, StateFields DEF PhasesFit, Footers, UnderWay
<1>4. /\ job' \in Jobs /\ job'.batch = Append(job.batch, p)
      /\ job'.phase = (IF Len(job.batch) + 1 >= CommitEvery THEN "commit" ELSE "repair")
      /\ job'.mode = "repair" /\ ~job'.last /\ job'.left = job.left /\ job'.skipped = 0
  <2> DEFINE a == Added(p)
             feed == job.feed \ {p}
             phase == IF a.phase = "ledger" THEN "commit" ELSE a.phase
  <2>1. /\ a \in Jobs /\ a.batch = Append(job.batch, p)
        /\ a.phase = (IF Len(job.batch) + 1 >= CommitEvery THEN "ledger" ELSE "repair")
        /\ a.mode = "repair" /\ a.last = job.last /\ a.left = job.left /\ a.skipped = job.skipped
    BY <1>1, <1>3, AddedFields
  <2>2. job' = [a EXCEPT !.phase = phase, !.feed = feed, !.tries = 0, !.landed = FALSE]
    BY <1>2, <2>1 DEF Repaired, Jobs
  <2>3. phase \in {"commit", "repair"} /\ phase = (IF Len(job.batch) + 1 >= CommitEvery THEN "commit" ELSE "repair")
    BY <2>1
  <2>4. feed \in SUBSET Parts
    BY <1>3, JobFields
  <2> HIDE DEF a, feed, phase
  <2>5. job' \in Jobs
    BY <2>1, <2>2, <2>3, <2>4 DEF Jobs
  <2>6. /\ job'.batch = a.batch /\ job'.phase = phase /\ job'.mode = a.mode /\ job'.last = a.last
        /\ job'.left = a.left /\ job'.skipped = a.skipped
    BY <2>1, <2>2 DEF Jobs
  <2> QED BY <2>1, <2>3, <2>5, <2>6, <1>3
<1>5. /\ Batched \in SUBSET Parts /\ Batched' = Batched \union {p} /\ Len(job'.batch) = Len(job.batch) + 1
      /\ job'.batch # <<>> /\ Len(job.batch) \in Nat
  BY <1>3, <1>4, BatchNow, BatchElements, JobFields DEF Batched
<1>6. /\ local' \in Stagings /\ local'.staged = local.staged \union {p} /\ local'.ledger = local.ledger
      /\ local'.langs = local.langs
  <2>1. local.staged \union {p} \in SUBSET Parts
    BY StateFields
  <2> QED BY <2>1, <1>2, StateFields DEF Stagings
<1>7. UnitTyped'
  BY <1>1, <1>4, <1>6 DEF UnitTyped, Stagings
<1>8. PhasesFit'
  <2>1. /\ job'.phase \in {"commit", "repair"} /\ (job'.phase = "repair" => Len(job'.batch) < CommitEvery)
        /\ Len(job'.batch) <= CommitEvery
    BY <1>3, <1>4, <1>5, Sizes
  <2>2. ~Footers' /\ ~UnderWay' /\ Readers' = {} /\ Busy' = {} /\ \A w \in Projectors : place'[w] = "gone"
    BY <1>1, <1>3, <1>4, <2>1 DEF Footers, UnderWay, Readers, Busy
  <2> QED BY <1>1, <1>3, <1>4, <1>5, <2>1, <2>2 DEF PhasesFit
<1>9. DiskHolds' /\ FootersCount'
  <2>1. local'.staged \ Batched' \subseteq local.staged \ Batched
    BY <1>5, <1>6
  <2>2. /\ local.staged \ Batched \in SUBSET Parts /\ Cardinality(local.staged \ Batched) <= job.left
        /\ job.left \in Nat
    BY <1>3, StateFields, JobFields DEF DiskHolds
  <2>3. /\ Cardinality(local'.staged \ Batched') <= Cardinality(local.staged \ Batched)
        /\ Cardinality(local'.staged \ Batched') \in Nat /\ Cardinality(local.staged \ Batched) \in Nat
    <3>1. IsFiniteSet(local.staged \ Batched)
      BY <2>2, SubsetsAreFinite
    <3> QED BY <3>1, <2>1, FS_Subset, FS_CardinalityType
  <2>4. Cardinality(local'.staged \ Batched') <= job'.left
    BY <2>2, <2>3, <1>4
  <2> QED BY <2>4, <1>4, NoFooters DEF DiskHolds
<1> QED BY <1>1, <1>3, <1>4, <1>6, <1>7, <1>8, <1>9, MendingGoesOn

LEMMA RepairEndKeeps ==
  ASSUME UnitInv, RepairEnds
  PROVE  UnitInv'
<1> USE DEF UnitInv
<1>1. /\ job.phase = "repair" /\ UNCHANGED <<kind, hub, local, place, part, spell>>
  BY DEF RepairEnds
<1>2. /\ job.mode = "repair" /\ kind = "urls" /\ ~Footers /\ ~UnderWay /\ Readers = {}
      /\ Len(job.batch) <= CommitEvery /\ job \in Jobs /\ job.skipped = 0
      /\ \A w \in Projectors : place[w] = "gone"
  BY <1>1, StateFields DEF PhasesFit, Footers, UnderWay
<1> DEFINE phase == IF job.batch = <<>> THEN "exit" ELSE "commit"
<1>3. job' = [job EXCEPT !.last = TRUE, !.phase = phase] /\ phase \in {"exit", "commit"}
  BY DEF RepairEnds
<1>4. (phase = "exit" => job.batch = <<>>)
  OBVIOUS
<1> HIDE DEF phase
<1>5. /\ job' \in Jobs /\ job'.phase = phase /\ job'.last /\ job'.mode = "repair" /\ job'.left = job.left
      /\ job'.batch = job.batch /\ job'.skipped = 0
  BY <1>2, <1>3 DEF Jobs
<1>6. UnitTyped'
  BY <1>1, <1>5 DEF UnitTyped
<1>7. PhasesFit'
  <2>1. ~Footers' /\ ~UnderWay' /\ Readers' = {} /\ Busy' = {} /\ \A w \in Projectors : place'[w] = "gone"
    BY <1>1, <1>2, <1>3, <1>5 DEF Footers, UnderWay, Readers, Busy
  <2> QED BY <1>1, <1>2, <1>3, <1>4, <1>5, <2>1 DEF PhasesFit
<1> QED BY <1>1, <1>2, <1>3, <1>5, <1>6, <1>7, NoFooters, MendingRests, MendingGoesOn

(* -------------------------------- the pool -------------------------------- *)
\* Somebody in the pool is at work: the run hands out parts.
LEMMA PoolAtWork ==
  ASSUME UnitInv, NEW w \in Projectors, place[w] # "gone", w \in Busy \/ job.mode = "publish"
  PROVE  /\ UnderWay /\ kind # "domains" /\ ~job.last /\ job.mode = "publish" /\ Running
         /\ job.phase \notin {"final", "exit", "down", "plan"} /\ Readers = {}
<1>1. UnderWay /\ ~Footers
  BY DEF UnitInv, PhasesFit, UnderWay, Footers
<1> QED BY <1>1 DEF UnitInv, PhasesFit, UnderWay, Running

\* Hands that keep what they have.
LEMMA HandStays ==
  ASSUME UnitTyped, NEW w \in Projectors, NEW where, place' = [place EXCEPT ![w] = where], part' = part,
         w \in Busy <=> where \in {"disk", "project", "hung", "send"}
  PROVE  Busy' = Busy /\ InHand' = InHand
<1>1. Busy' = Busy
  BY DEF Busy, UnitTyped
<1> QED BY <1>1 DEF InHand

LEMMA HandFills ==
  ASSUME UnitTyped, NEW w \in Projectors, w \notin Busy, NEW p,
         place' = [place EXCEPT ![w] = "disk"], part' = [part EXCEPT ![w] = p]
  PROVE  Busy' = Busy \union {w} /\ InHand' = InHand \union {p} /\ part'[w] = p
         /\ \A v \in Busy : part'[v] = part[v]
<1>1. Busy' = Busy \union {w} /\ w \in DOMAIN part /\ Busy \subseteq DOMAIN part
  BY DEF Busy, UnitTyped
<1>2. part'[w] = p /\ \A v \in Busy : part'[v] = part[v]
  BY <1>1
<1> QED BY <1>1, <1>2 DEF InHand

LEMMA HandEmpties ==
  ASSUME UnitTyped, NEW w \in Busy, NEW where \in {"take", "gone"},
         \A v, u \in Busy : v # u => part[v] # part[u],
         place' = [place EXCEPT ![w] = where],
         part' = part \/ part' = [part EXCEPT ![w] = 0]
  PROVE  Busy' = Busy \ {w} /\ InHand' = InHand \ {part[w]} /\ part[w] \in InHand
         /\ \A v \in Busy' : part'[v] = part[v]
<1>1. Busy' = Busy \ {w} /\ Busy \subseteq DOMAIN part
  BY DEF Busy, UnitTyped
<1>2. \A v \in Busy' : part'[v] = part[v]
  BY <1>1
<1> QED BY <1>1, <1>2 DEF InHand

\* The parts of the unit when the pool is at work.
LEMMA HandsHold ==
  ASSUME UnitInv, UnderWay, kind # "domains"
  PROVE  /\ InHand \in SUBSET Parts /\ Batched \in SUBSET Parts /\ job.feed \in SUBSET Parts
         /\ hub.parts \in SUBSET Parts /\ Handled \in SUBSET Parts
         /\ job.feed \intersect (hub.parts \union InHand \union Batched) = {}
         /\ InHand \intersect (hub.parts \union Batched) = {}
         /\ \A v, w \in Busy : v # w => part[v] # part[w]
<1> USE DEF UnitInv
<1>1. InHand \in SUBSET Parts
  BY DEF InHand, PhasesFit
<1>2. Batched \in SUBSET Parts /\ job.feed \in SUBSET Parts /\ hub.parts \in SUBSET Parts
  BY BatchNow, StateFields, JobFields
<1> QED BY <1>1, <1>2 DEF PartsApart, Handled

PoolFrame ==
  /\ UNCHANGED <<kind, hub>> /\ SpellTurns
  /\ local'.ledger = local.ledger /\ local'.langs = local.langs
  /\ SameBatch /\ SameTotals /\ job'.phase = job.phase /\ job'.last = job.last /\ job'.mode = job.mode
  /\ job'.todo = job.todo /\ job'.cancelled = job.cancelled /\ job'.left = job.left

\* What is left to see when a worker takes a step that leaves the batch alone.
LEMMA PoolKeeps ==
  ASSUME UnitInv, UnderWay, kind # "domains", ~job.last, UnitTyped', PoolFrame, DiskHolds',
         \A v \in Busy' : part'[v] \in Parts, Readers' = {},
         job'.feed \subseteq job.feed, job'.feed \intersect InHand' = {},
         InHand' \intersect (hub.parts \union Batched) = {},
         \A v, w \in Busy' : v # w => part'[v] # part'[w],
         ~job.cancelled => job'.skipped + Cardinality(Handled') = Total,
         ~job.cancelled /\ (\E v \in Projectors : place'[v] = "gone") => job'.feed = {}
  PROVE  UnitInv'
<1> USE DEF UnitInv, PoolFrame, SameBatch, SameTotals, SpellTurns
<1>1. /\ Batched' = Batched /\ Pending' = Pending /\ UnderWay' = UnderWay /\ Arrived' = Arrived
      /\ Running' = Running /\ ~Footers' /\ FootersCount'
  BY NoFooters DEF Batched, Pending, UnderWay, Arrived, Running, Footers, PhasesFit
<1>2. PhasesFit'
  BY <1>1 DEF PhasesFit, UnderWay
<1>3. PartsApart'
  BY <1>1 DEF PartsApart
<1>4. StreamInOrder' /\ CompleteMeansWhole'
  BY DEF StreamInOrder, CompleteMeansWhole
<1>5. LedgersAgree'
  BY <1>1 DEF LedgersAgree, HubCounts, FileCounts, AtRestCounts, CommitterCounts, Counts
<1>6. RunAccounts'
  BY <1>1 DEF RunAccounts
<1> QED BY <1>1, <1>2, <1>3, <1>4, <1>5, <1>6

LEMMA NobodyStarts ==
  ASSUME UnitTyped, Readers = {}, NEW w \in Projectors, NEW where, where # "read",
         place' = [place EXCEPT ![w] = where]
  PROVE  Readers' = {}
BY DEF Readers, UnitTyped

LEMMA TakeKeeps ==
  ASSUME UnitInv, NEW w \in Projectors, Take(w)
  PROVE  UnitInv'
<1> USE DEF UnitInv
<1>1. /\ place[w] = "take" /\ w \notin Busy /\ UNCHANGED <<kind, hub, local, spell>>
      /\ UnderWay /\ kind # "domains" /\ ~job.last /\ job.mode = "publish" /\ Readers = {}
  BY PoolAtWork DEF Take, Busy
<1>2. /\ InHand \in SUBSET Parts /\ job.feed \in SUBSET Parts
      /\ job.feed \intersect (hub.parts \union InHand \union Batched) = {}
      /\ InHand \intersect (hub.parts \union Batched) = {}
      /\ \A v, u \in Busy : v # u => part[v] # part[u]
      /\ \A v \in Busy : part[v] \in Parts
  BY <1>1, HandsHold DEF PhasesFit
<1>3. job \in Jobs /\ SpellTurns /\ w \in DOMAIN place
  BY <1>1, StateFields, SpellRests DEF UnitTyped
<1>4. CASE job.cancelled \/ job.feed = {}
  <2>1. place' = [place EXCEPT ![w] = "gone"] /\ job' = job /\ part' = part
    BY <1>4 DEF Take, Goes
  <2>2. UnitTyped'
    BY <1>1, <2>1 DEF UnitTyped
  <2>3. Busy' = Busy /\ InHand' = InHand
    BY <1>1, <2>1, HandStays
  <2>4. LetThrough' \subseteq LetThrough
    BY <2>1 DEF LetThrough, UnitTyped
  <2>5. DiskHolds' /\ Readers' = {}
    BY <1>1, <2>1, <2>4, DiskStays, NobodyStarts
  <2>6. Handled' = Handled
    BY <1>1, <2>1, <2>3 DEF Handled, Batched
  <2>7. ~job.cancelled => job'.skipped + Cardinality(Handled') = Total
    BY <1>1, <2>1, <2>6 DEF RunAccounts
  <2>8. PoolFrame
    BY <1>1, <1>3, <2>1 DEF PoolFrame, SameBatch, SameTotals
  <2> QED BY <1>1, <1>2, <1>4, <2>1, <2>2, <2>3, <2>5, <2>7, <2>8, PoolKeeps
<1>5. CASE ~(job.cancelled \/ job.feed = {})
  <2>1. PICK p \in Parts : /\ First(p) /\ place' = [place EXCEPT ![w] = "disk"]
                           /\ part' = [part EXCEPT ![w] = p] /\ job' = [job EXCEPT !.feed = @ \ {p}]
    BY <1>5 DEF Take, Goes
  <2> DEFINE feed == job.feed \ {p}
  <2>2. p \in job.feed /\ feed \in SUBSET Parts
    BY <2>1, <1>2 DEF First
  <2>3. job' = [job EXCEPT !.feed = feed]
    BY <2>1
  <2> HIDE DEF feed
  <2>4. job' \in Jobs
    BY <1>3, <2>2, <2>3 DEF Jobs
  <2>5. /\ job'.feed = feed /\ job'.skipped = job.skipped /\ job'.phase = job.phase /\ job'.last = job.last
        /\ job'.mode = job.mode /\ job'.todo = job.todo /\ job'.cancelled = job.cancelled
        /\ job'.left = job.left /\ SameBatch /\ SameTotals
    BY <1>3, <2>3 DEF Jobs, SameBatch, SameTotals
  <2>6. UnitTyped'
    BY <1>1, <2>1, <2>4 DEF UnitTyped
  <2>7. /\ Busy' = Busy \union {w} /\ InHand' = InHand \union {p} /\ part'[w] = p
        /\ \A v \in Busy : part'[v] = part[v]
    BY <1>1, <2>1, HandFills
  <2>8. LetThrough' \subseteq LetThrough
    BY <2>1 DEF LetThrough, UnitTyped
  <2>9. DiskHolds' /\ Readers' = {}
    BY <1>1, <2>1, <2>5, <2>8, DiskStays, NobodyStarts
  <2>10. Handled' = Handled
    <3>1. Batched' = Batched /\ hub' = hub
      BY <1>1, <2>5 DEF Batched, SameBatch
    <3>2. feed \union {p} = job.feed
      BY <2>2 DEF feed
    <3> QED BY <3>1, <3>2, <2>5, <2>7 DEF Handled
  <2>11. ~job.cancelled => job'.skipped + Cardinality(Handled') = Total
    BY <1>1, <2>5, <2>10 DEF RunAccounts
  <2>12. ~job.cancelled => ~\E v \in Projectors : place'[v] = "gone"
    <3>1. ~job.cancelled => ~\E v \in Projectors : place[v] = "gone"
      BY <1>1, <1>5 DEF RunAccounts
    <3> QED BY <3>1, <2>1 DEF UnitTyped
  <2>13. PoolFrame
    BY <1>1, <1>3, <2>5 DEF PoolFrame
  <2>14. /\ \A v \in Busy' : part'[v] \in Parts
         /\ \A v, u \in Busy' : v # u => part'[v] # part'[u]
    <3>1. \A v \in Busy : part[v] \in InHand
      BY DEF InHand
    <3>2. p \notin InHand
      BY <1>2, <2>2
    <3> QED BY <3>1, <3>2, <1>2, <2>7
  <2>15. /\ feed \subseteq job.feed /\ feed \intersect InHand' = {}
         /\ InHand' \intersect (hub.parts \union Batched) = {}
    BY <1>2, <2>2, <2>7 DEF feed
  <2> QED BY <1>1, <2>5, <2>6, <2>9, <2>11, <2>12, <2>13, <2>14, <2>15, PoolKeeps
<1> QED BY <1>4, <1>5

\* The steps in which a worker keeps its part.
LEMMA CarryKeeps ==
  ASSUME UnitInv, NEW w \in Projectors, Project(w) \/ Hangs(w) \/ (waitForDiskFloor(w) /\ Room)
  PROVE  UnitInv'
<1> USE DEF UnitInv
<1>1. /\ w \in Busy /\ UNCHANGED <<kind, hub, job, part>> /\ SpellTurns
      /\ UnderWay /\ kind # "domains" /\ ~job.last /\ job.mode = "publish" /\ Readers = {}
  <2>1. place[w] \in {"disk", "project"} /\ UNCHANGED <<kind, hub, job, part>>
    BY DEF Project, Hangs, waitForDiskFloor
  <2>2. SpellTurns
    BY FaultTurns, SpellRests DEF Project, Hangs, waitForDiskFloor
  <2> QED BY <2>1, <2>2, PoolAtWork DEF Busy
<1>2. PICK where \in {"project", "send", "hung"} : place' = [place EXCEPT ![w] = where]
  BY DEF Project, Hangs, waitForDiskFloor, Goes
<1>3. /\ InHand \in SUBSET Parts /\ job.feed \in SUBSET Parts
      /\ job.feed \intersect (hub.parts \union InHand \union Batched) = {}
      /\ InHand \intersect (hub.parts \union Batched) = {}
      /\ \A v, u \in Busy : v # u => part[v] # part[u]
      /\ \A v \in Busy : part[v] \in Parts
  BY <1>1, HandsHold DEF PhasesFit
<1>4. Busy' = Busy /\ InHand' = InHand
  BY <1>1, <1>2, HandStays
<1>5. local' \in Stagings /\ local'.ledger = local.ledger /\ local'.langs = local.langs
  <2>1. CASE Project(w)
    <3>1. part[w] \in Parts
      BY <1>1, <1>3
    <3>2. local.staged \union {part[w]} \in SUBSET Parts
      BY <3>1, StateFields
    <3> QED BY <2>1, <3>2, StateFields DEF Project, Stagings
  <2>2. CASE ~Project(w)
    BY <2>2, StateFields DEF Hangs, waitForDiskFloor
  <2> QED BY <2>1, <2>2
<1>6. UnitTyped'
  BY <1>1, <1>2, <1>5 DEF UnitTyped, SpellTurns, Spells, Exits, Stagings
<1>7. DiskHolds' /\ Readers' = {}
  <2> DEFINE coming == Cardinality(local.staged) + Cardinality(LetThrough)
             then == Cardinality(local'.staged) + Cardinality(LetThrough')
  <2>0. /\ coming < Capacity + Cardinality(Projectors) \/ coming <= job.left
        /\ job.left \in Nat
        /\ Cardinality(local.staged) \in Nat /\ Cardinality(LetThrough) \in Nat
        /\ IsFiniteSet(local.staged) /\ IsFiniteSet(LetThrough)
    BY <1>1, SubsetsAreFinite, StateFields, JobFields, PoolIsFinite DEF DiskHolds, LetThrough
  <2>4. ASSUME then < Capacity + Cardinality(Projectors) \/ then <= job.left PROVE DiskHolds'
    BY <2>4, <1>1 DEF DiskHolds
  <2>5. Readers' = {}
    BY <1>1, <1>2, NobodyStarts
  <2>1. CASE Project(w)
    <3>1. local'.staged = local.staged \union {part[w]} /\ place[w] = "project"
      BY <2>1, StateFields DEF Project, Stagings
    <3>2. LetThrough' = LetThrough \ {w} /\ w \in LetThrough
      <4>1. /\ place'[w] = "send" /\ \A v \in Projectors : v # w => place'[v] = place[v]
        BY <2>1 DEF Project, Goes, UnitTyped
      <4>2. w \in LetThrough /\ LetThrough \subseteq Projectors
        BY <3>1 DEF LetThrough
      <4>3. LetThrough' = {v \in Projectors : place'[v] \in {"project", "hung"}}
        BY DEF LetThrough
      <4>4. \A v \in Projectors : v \in LetThrough' <=> (v \in LetThrough /\ v # w)
        BY <4>1, <4>3 DEF LetThrough
      <4> QED BY <4>2, <4>3, <4>4
    <3>3. /\ Cardinality(local'.staged) <= Cardinality(local.staged) + 1
          /\ Cardinality(local'.staged) \in Nat
      <4> DEFINE S == local.staged
                 p == part[w]
      <4>1. IsFiniteSet(S) /\ Cardinality(S) \in Nat /\ local'.staged = S \union {p}
        BY <3>1, <2>0
      <4> HIDE DEF S, p
      <4>2. Cardinality(S \union {p}) = IF p \in S THEN Cardinality(S) ELSE Cardinality(S) + 1
        BY <4>1, FS_AddElement
      <4>3. Cardinality(S \union {p}) <= Cardinality(S) + 1 /\ Cardinality(S \union {p}) \in Nat
        BY <4>1, <4>2
      <4> QED BY <4>1, <4>3 DEF S
    <3>4. Cardinality(LetThrough') = Cardinality(LetThrough) - 1
      BY <3>2, <2>0, FS_RemoveElement
    <3>5. then < Capacity + Cardinality(Projectors) \/ then <= job.left
      BY <3>3, <3>4, <2>0, Sizes
    <3> QED BY <3>5, <2>4, <2>5
  <2>2. CASE Hangs(w)
    <3>1. local'.staged = local.staged /\ LetThrough' \subseteq LetThrough
      BY <2>2 DEF LetThrough, Hangs, Goes, UnitTyped
    <3> QED BY <3>1, <1>1, <2>5, DiskStays
  <2>3. CASE waitForDiskFloor(w) /\ Room
    <3>1. local'.staged = local.staged /\ Cardinality(local.staged) < Capacity
      BY <2>3 DEF waitForDiskFloor, Room
    <3>2. Cardinality(LetThrough') \in Nat /\ Cardinality(LetThrough') <= Cardinality(Projectors)
      BY PoolIsFinite DEF LetThrough
    <3>3. then < Capacity + Cardinality(Projectors)
      BY <3>1, <3>2, <2>0, Sizes
    <3> QED BY <3>3, <2>4, <2>5
  <2> QED BY <2>1, <2>2, <2>3
<1>8. Handled' = Handled
  BY <1>1, <1>4 DEF Handled, Batched
<1>9. ~job.cancelled => job'.skipped + Cardinality(Handled') = Total
  BY <1>1, <1>8 DEF RunAccounts
<1>10. ~job.cancelled /\ (\E v \in Projectors : place'[v] = "gone") => job'.feed = {}
  <2>1. \A v \in Projectors : place'[v] = "gone" => place[v] = "gone"
    BY <1>2 DEF UnitTyped
  <2> QED BY <2>1, <1>1 DEF RunAccounts
<1>11. PoolFrame
  BY <1>1, <1>5 DEF PoolFrame, SameBatch, SameTotals
<1>12. \A v \in Busy' : part'[v] \in Parts
  BY <1>1, <1>3, <1>4
<1>13. job'.feed \subseteq job.feed /\ job'.feed \intersect InHand' = {}
  BY <1>1, <1>3, <1>4
<1>14. InHand' \intersect (hub.parts \union Batched) = {} /\ \A v, u \in Busy' : v # u => part'[v] # part'[u]
  BY <1>1, <1>3, <1>4
<1> QED BY <1>1, <1>6, <1>7, <1>9, <1>10, <1>11, <1>12, <1>13, <1>14, PoolKeeps

\* The steps in which a worker gives up its part: cancelled, or skipped.
LEMMA LeaveKeeps ==
  ASSUME UnitInv, NEW w \in Projectors,
         Skip(w) \/ SendDropped(w) \/ (waitForDiskFloor(w) /\ ~Room /\ job.cancelled)
  PROVE  UnitInv'
<1> USE DEF UnitInv
<1>1. /\ w \in Busy /\ UNCHANGED <<kind, hub, local>> /\ SpellTurns
      /\ UnderWay /\ kind # "domains" /\ ~job.last /\ job.mode = "publish" /\ Readers = {}
  <2>1. place[w] \in {"disk", "project", "hung", "send"} /\ UNCHANGED <<kind, hub, local>>
    BY DEF Skip, SendDropped, waitForDiskFloor
  <2>2. SpellTurns
    BY FaultTurns, SpellRests DEF Skip, SendDropped, waitForDiskFloor
  <2> QED BY <2>1, <2>2, PoolAtWork DEF Busy
<1>2. PICK where \in {"take", "gone"} : place' = [place EXCEPT ![w] = where]
  BY DEF Skip, SendDropped, waitForDiskFloor, Goes
<1>3. part' = part \/ part' = [part EXCEPT ![w] = 0]
  BY DEF Skip, SendDropped, waitForDiskFloor
<1>4. /\ InHand \in SUBSET Parts /\ job.feed \in SUBSET Parts /\ Handled \in SUBSET Parts
      /\ job.feed \intersect (hub.parts \union InHand \union Batched) = {}
      /\ InHand \intersect (hub.parts \union Batched) = {}
      /\ \A v, u \in Busy : v # u => part[v] # part[u]
      /\ \A v \in Busy : part[v] \in Parts
  BY <1>1, HandsHold DEF PhasesFit
<1>5. /\ Busy' = Busy \ {w} /\ InHand' = InHand \ {part[w]} /\ part[w] \in InHand
      /\ \A v \in Busy' : part'[v] = part[v]
  BY <1>1, <1>2, <1>3, <1>4, HandEmpties
<1>6. /\ job' \in Jobs /\ job'.feed = job.feed /\ job'.phase = job.phase
      /\ job'.last = job.last /\ job'.mode = job.mode /\ job'.todo = job.todo
      /\ job'.cancelled = job.cancelled /\ job'.left = job.left /\ SameBatch /\ SameTotals
      /\ \/ job.cancelled
         \/ job'.skipped = job.skipped + 1 /\ where = "take"
  <2> DEFINE skipped == job.skipped + 1
  <2>1. skipped \in Nat /\ job \in Jobs
    BY StateFields, JobFields
  <2>2. CASE Skip(w)
    <3>1. job' = [job EXCEPT !.skipped = skipped] /\ place' = [place EXCEPT ![w] = "take"]
      BY <2>2 DEF Skip, Goes
    <3>2. where = "take"
      BY <3>1, <1>2 DEF UnitTyped
    <3> HIDE DEF skipped
    <3>3. job' \in Jobs /\ job'.skipped = skipped
      BY <2>1, <3>1 DEF Jobs
    <3>4. /\ job'.feed = job.feed /\ job'.phase = job.phase
          /\ job'.last = job.last /\ job'.mode = job.mode /\ job'.todo = job.todo
          /\ job'.cancelled = job.cancelled /\ job'.left = job.left /\ SameBatch /\ SameTotals
      BY <2>1, <3>1 DEF Jobs, SameBatch, SameTotals
    <3> QED BY <3>2, <3>3, <3>4 DEF skipped
  <2>3. CASE SendDropped(w)
    BY <2>1, <2>3 DEF SendDropped, SameBatch, SameTotals
  <2>4. CASE waitForDiskFloor(w) /\ ~Room /\ job.cancelled
    BY <2>1, <2>4 DEF waitForDiskFloor, SameBatch, SameTotals
  <2> QED BY <2>2, <2>3, <2>4
<1>7. UnitTyped'
  BY <1>1, <1>2, <1>3, <1>6 DEF UnitTyped, SpellTurns, Spells, Exits
<1>8. DiskHolds' /\ Readers' = {}
  <2>1. LetThrough' \subseteq LetThrough
    BY <1>2 DEF LetThrough, UnitTyped
  <2> QED BY <1>1, <1>2, <1>6, <2>1, DiskStays, NobodyStarts
<1>9. ASSUME ~job.cancelled PROVE job'.skipped + Cardinality(Handled') = Total
  <2>1. Handled' = Handled \ {part[w]} /\ part[w] \in Handled
    <3>1. Handled' = hub.parts \union Batched \union job.feed \union InHand'
      BY <1>1, <1>6 DEF Handled, Batched, SameBatch
    <3> QED BY <3>1, <1>4, <1>5 DEF Handled
  <2>2. Cardinality(Handled') = Cardinality(Handled) - 1 /\ Cardinality(Handled) \in Nat
    BY <1>4, <2>1, SubsetsAreFinite, FS_RemoveElement
  <2>3. job.skipped + Cardinality(Handled) = Total /\ job.skipped \in Nat
    BY <1>1, <1>9, StateFields, JobFields DEF RunAccounts
  <2>4. job'.skipped = job.skipped + 1
    BY <1>6, <1>9
  <2> QED BY <2>2, <2>3, <2>4
<1>10. ~job.cancelled /\ (\E v \in Projectors : place'[v] = "gone") => job'.feed = {}
  <2>1. ASSUME ~job.cancelled, NEW v \in Projectors, place'[v] = "gone" PROVE place[v] = "gone"
    BY <2>1, <1>2, <1>6 DEF UnitTyped
  <2> QED BY <2>1, <1>1, <1>6 DEF RunAccounts
<1>11. PoolFrame
  BY <1>1, <1>6 DEF PoolFrame
<1>12. (\A v \in Busy' : part'[v] \in Parts) /\ \A v, u \in Busy' : v # u => part'[v] # part'[u]
  BY <1>4, <1>5
<1>13. /\ job'.feed \subseteq job.feed /\ job'.feed \intersect InHand' = {}
       /\ InHand' \intersect (hub.parts \union Batched) = {}
  BY <1>4, <1>5, <1>6
<1> QED BY <1>1, <1>7, <1>8, <1>9, <1>10, <1>11, <1>12, <1>13, PoolKeeps

(* ------------------------------- the batch -------------------------------- *)
\* A part comes into the batch that was neither in it nor on the hub.
LEMMA BatchGrows ==
  ASSUME UnitInv, UnderWay, job.phase = "work", NEW p \in Parts, p \notin Batched, p \notin hub.parts,
         job'.batch = Append(job.batch, p), hub' = hub
  PROVE  /\ Batched' = Batched \union {p} /\ Cardinality(Batched') = Len(job'.batch)
         /\ Len(job'.batch) = Len(job.batch) + 1 /\ job'.batch # <<>>
         /\ Len(job'.batch) <= CommitEvery /\ Batched \intersect hub.parts = {}
         /\ Batched' \intersect hub.parts = {} /\ hub.parts \ Batched' = hub.parts
         /\ hub.parts \ Batched = hub.parts
<1> USE DEF UnitInv
<1>1. job.batch \in Seq(Parts) /\ Len(job.batch) \in Nat
  BY StateFields, JobFields, BatchElements
<1>2. /\ Batched' = Batched \union {p} /\ Len(job'.batch) = Len(job.batch) + 1 /\ job'.batch # <<>>
  BY <1>1, BatchElements DEF Batched
<1>3. Len(job.batch) < CommitEvery /\ CommitEvery \in Nat
  BY Sizes DEF PhasesFit
<1>4. Cardinality(Batched) = Len(job.batch) /\ Batched \intersect hub.parts = {}
  BY DEF PartsApart, Arrived
<1>5. Cardinality(Batched \union {p}) = Cardinality(Batched) + 1
  BY BatchNow, OneMore
<1>6. Cardinality(Batched') = Len(job'.batch)
  BY <1>2, <1>4, <1>5
<1> QED BY <1>1, <1>2, <1>3, <1>4, <1>6

\* The committer stages nothing.
LEMMA PublishRests ==
  ASSUME UnitInv, UnderWay, local'.staged = local.staged, job'.mode = job.mode, job'.left = job.left,
         job'.phase # "footers", LetThrough' \subseteq LetThrough, Readers' \subseteq Readers
  PROVE  DiskHolds' /\ FootersCount' /\ ~Footers' /\ ~Footers /\ Readers = {} /\ Readers' = {}
<1>1. job.mode = "publish" /\ ~Footers /\ Readers = {}
  BY DEF UnitInv, UnderWay, PhasesFit, Footers
<1>2. ~Footers' /\ FootersCount'
  BY NoFooters DEF Footers
<1> QED BY <1>1, <1>2, DiskStays

LEMMA SendKeeps ==
  ASSUME UnitInv, NEW w \in Projectors, Send(w)
  PROVE  UnitInv'
<1> USE DEF UnitInv
<1> DEFINE p == part[w]
<1>1. /\ w \in Busy /\ UNCHANGED <<kind, hub, local, spell>> /\ job.phase = "work" /\ job' = Added(p)
      /\ place' = [place EXCEPT ![w] = "take"] /\ part' = [part EXCEPT ![w] = 0]
      /\ UnderWay /\ kind # "domains" /\ ~job.last /\ job.mode = "publish" /\ Readers = {}
  BY PoolAtWork DEF Send, Goes, Busy
<1>2. /\ InHand \in SUBSET Parts /\ job.feed \in SUBSET Parts /\ Batched \in SUBSET Parts
      /\ job.feed \intersect (hub.parts \union InHand \union Batched) = {}
      /\ InHand \intersect (hub.parts \union Batched) = {}
      /\ \A v, u \in Busy : v # u => part[v] # part[u]
      /\ \A v \in Busy : part[v] \in Parts
  BY <1>1, HandsHold DEF PhasesFit
<1>3. /\ Busy' = Busy \ {w} /\ InHand' = InHand \ {p} /\ p \in InHand
      /\ \A v \in Busy' : part'[v] = part[v]
  BY <1>1, <1>2, HandEmpties
<1>4. p \in Parts /\ p \notin Batched /\ p \notin hub.parts /\ p \notin job.feed
  BY <1>2, <1>3
<1>5. /\ job' \in Jobs /\ job'.batch = Append(job.batch, p)
      /\ job'.phase = (IF Len(job.batch) + 1 >= CommitEvery THEN "ledger" ELSE "work")
      /\ job'.mode = job.mode /\ job'.feed = job.feed /\ job'.todo = job.todo
      /\ job'.skipped = job.skipped /\ job'.committed = job.committed /\ job'.rows = job.rows
      /\ job'.langs = job.langs /\ job'.flushes = job.flushes /\ job'.last = job.last
      /\ job'.fresh = job.fresh /\ job'.cancelled = job.cancelled /\ job'.left = job.left
  BY <1>1, <1>4, AddedFields
<1>6. /\ Batched' = Batched \union {p} /\ Cardinality(Batched') = Len(job'.batch)
      /\ Len(job'.batch) = Len(job.batch) + 1 /\ job'.batch # <<>>
      /\ Len(job'.batch) <= CommitEvery
      /\ Batched' \intersect hub.parts = {} /\ hub.parts \ Batched' = hub.parts
      /\ hub.parts \ Batched = hub.parts
  BY <1>1, <1>4, <1>5, BatchGrows
<1> HIDE DEF p
<1>7. UnitTyped'
  BY <1>1, <1>5 DEF UnitTyped
<1>8. /\ UnderWay' /\ Running' /\ ~Arrived' /\ Pending' = {} /\ Pending = {} /\ Running
      /\ job'.phase \in {"work", "ledger"}
  BY <1>1, <1>5 DEF UnderWay, Running, Arrived, Pending
<1>14. DiskHolds' /\ FootersCount' /\ ~Footers' /\ Readers' = {}
  <2>1. LetThrough' \subseteq LetThrough /\ Readers' \subseteq Readers
    BY <1>1 DEF LetThrough, Readers, UnitTyped
  <2> QED BY <1>1, <1>5, <1>8, <2>1, PublishRests
<1>9. PhasesFit'
  <2>1. job'.phase = "work" => Len(job'.batch) < CommitEvery
    <3>1. Len(job.batch) \in Nat /\ CommitEvery \in Nat
      BY BatchNow, Sizes
    <3> QED BY <3>1, <1>5, <1>6
  <2>2. \A v \in Busy' : part'[v] \in Parts
    BY <1>2, <1>3
  <2> QED BY <2>1, <2>2, <1>1, <1>5, <1>6, <1>8, <1>14 DEF PhasesFit
<1>10. PartsApart'
  <2>1. Batched' \intersect job'.feed = {} /\ job'.feed \intersect (hub.parts \union InHand') = {}
        /\ InHand' \intersect (hub.parts \union Batched') = {}
    BY <1>2, <1>3, <1>4, <1>5, <1>6
  <2>2. \A v, u \in Busy' : v # u => part'[v] # part'[u]
    BY <1>2, <1>3
  <2> QED BY <2>1, <2>2, <1>1, <1>6, <1>8 DEF PartsApart
<1>11. StreamInOrder' /\ CompleteMeansWhole'
  BY <1>1 DEF StreamInOrder, CompleteMeansWhole
<1>12. LedgersAgree'
  <2>1. ASSUME spell.exact PROVE HubCounts' /\ FileCounts' /\ CommitterCounts'
    <3>1. HubCounts /\ FileCounts /\ CommitterCounts
      BY <2>1, <1>1, <1>8 DEF LedgersAgree
    <3>2. HubCounts' /\ FileCounts'
      BY <3>1, <1>1, <1>8 DEF HubCounts, FileCounts, Counts
    <3>3. CommitterCounts'
      BY <3>1, <1>1, <1>5, <1>6 DEF CommitterCounts
    <3> QED BY <3>2, <3>3
  <2> QED BY <2>1, <1>1, <1>5, <1>8 DEF LedgersAgree
<1>13. RunAccounts'
  <2>1. Handled' = Handled
    BY <1>1, <1>3, <1>5, <1>6 DEF Handled
  <2>2. \A v \in Projectors : place'[v] = "gone" => place[v] = "gone"
    BY <1>1 DEF UnitTyped
  <2> QED BY <2>1, <2>2, <1>1, <1>5, <1>8 DEF RunAccounts
<1> QED BY <1>7, <1>9, <1>10, <1>11, <1>12, <1>13, <1>14

(* ------------------------- the stream of a release ------------------------ *)
LEMMA AtStream ==
  ASSUME UnitInv, Streaming
  PROVE  /\ kind = "domains" /\ job.phase = "work" /\ job.mode = "publish" /\ ~job.last
         /\ UnderWay /\ Running /\ ~Arrived /\ Pending = {} /\ Busy = {} /\ Readers = {} /\ job.skipped = 0
         /\ \A w \in Projectors : place[w] = "gone"
BY DEF UnitInv, Streaming, PhasesFit, UnderWay, Running, Arrived, Pending, Busy, Readers

LEMMA PoolEmptyDisk ==
  ASSUME UnitInv, \A w \in Projectors : place[w] = "gone", UNCHANGED place, job'.mode = "publish",
         NEW p \in Parts, Room, local'.staged = local.staged \union {p}
  PROVE  DiskHolds'
<1>1. Cardinality(LetThrough') = 0
  <2>1. LetThrough' = {}
    BY DEF LetThrough
  <2> QED BY <2>1, FS_EmptySet
<1>2. Cardinality(local.staged) < Capacity
  BY DEF Room
<1> DEFINE S == local.staged
<1>3. S \in SUBSET Parts /\ IsFiniteSet(S) /\ Cardinality(S) \in Nat
  BY StateFields, SubsetsAreFinite DEF UnitInv
<1>4. Cardinality(S) < Capacity /\ local'.staged = S \union {p}
  BY <1>2
<1> HIDE DEF S
<1>5. Cardinality(S \union {p}) = IF p \in S THEN Cardinality(S) ELSE Cardinality(S) + 1
  BY <1>3, FS_AddElement
<1>6. Cardinality(S \union {p}) <= Capacity /\ Cardinality(S \union {p}) \in Nat
  BY <1>3, <1>4, <1>5, Sizes
<1>7. Cardinality(local'.staged) = Cardinality(S \union {p})
  BY <1>4
<1>8. Cardinality(local'.staged) + Cardinality(LetThrough') < Capacity + Cardinality(Projectors)
  BY <1>1, <1>6, <1>7, Sizes
<1> QED BY <1>8 DEF DiskHolds, LetThrough

LEMMA StreamShardKeeps ==
  ASSUME UnitInv, StreamShard
  PROVE  UnitInv'
<1> USE DEF UnitInv
<1>1. /\ kind = "domains" /\ job.phase = "work" /\ job.mode = "publish" /\ ~job.last
      /\ UnderWay /\ Running /\ ~Arrived /\ Pending = {} /\ Busy = {} /\ Readers = {} /\ job.skipped = 0
      /\ \A w \in Projectors : place[w] = "gone"
      /\ UNCHANGED <<kind, hub, place, part, spell>>
  BY AtStream DEF StreamShard
<1>2. PICK p \in Parts :
        /\ First(p)
        /\ IF p \in hub.parts
           THEN job' = [job EXCEPT !.feed = @ \ {p}, !.committed = @ + 1] /\ UNCHANGED local
           ELSE /\ Room
                /\ job' = [Added(p) EXCEPT !.feed = @ \ {p}]
                /\ local' = [local EXCEPT !.staged = @ \union {p}]
  BY DEF StreamShard
<1> DEFINE feed == job.feed \ {p}
<1>3. /\ p \in job.feed /\ feed \in SUBSET Parts /\ job.feed \in SUBSET Parts /\ Batched \in SUBSET Parts
      /\ Batched \intersect job.feed = {} /\ p \notin Batched /\ hub.parts \in SUBSET Parts
      /\ Cardinality(Batched) = Len(job.batch) /\ Batched \intersect hub.parts = {}
  BY <1>1, <1>2, StateFields, JobFields, BatchNow DEF First, PartsApart
<1>4. /\ \A q \in hub.parts, r \in Parts : r < q => r \in hub.parts
      /\ \A q \in job.feed, r \in Parts : q < r => r \in job.feed
      /\ Parts \ job.feed \subseteq hub.parts \union Batched
      /\ job.batch # <<>> => hub.parts \intersect job.feed = {}
      /\ job.committed = Cardinality((Parts \ job.feed) \ Batched)
  BY <1>1 DEF StreamInOrder
<1>5. /\ \A q \in feed, r \in Parts : q < r => r \in feed
      /\ \A q \in feed : p < q
  <2>1. \A q \in job.feed : p <= q
    BY <1>2 DEF First
  <2> QED BY <2>1, <1>3, <1>4, Sizes
<1>6. Parts \ feed = (Parts \ job.feed) \union {p}
  BY <1>3
<1>7. /\ UnderWay' /\ Running' /\ ~Arrived' /\ Pending' = {} /\ Busy' = {} /\ Readers' = {} /\ ~Footers'
      /\ FootersCount'
  <2>1. job'.mode = "publish" /\ job'.phase \in {"work", "ledger"}
    <3>1. CASE p \in hub.parts
      BY <3>1, <1>1, <1>2, StateFields DEF Jobs
    <3>2. CASE p \notin hub.parts
      <4>1. job' = [Added(p) EXCEPT !.feed = @ \ {p}]
        BY <3>2, <1>2
      <4>2. Added(p) \in Jobs /\ Added(p).mode = job.mode /\ Added(p).phase \in {"work", "ledger"}
        BY <1>1, AddedFields
      <4> QED BY <4>1, <4>2, <1>1 DEF Jobs
    <3> QED BY <3>1, <3>2
  <2> QED BY <2>1, <1>1, NoFooters DEF UnderWay, Running, Arrived, Pending, Busy, Readers, Footers
<1>8. CASE p \in hub.parts
  <2> DEFINE committed == job.committed + 1
  <2>1. committed \in Nat /\ job \in Jobs
    BY StateFields, JobFields
  <2>2. job' = [job EXCEPT !.feed = feed, !.committed = committed] /\ local' = local
    BY <1>2, <1>8
  <2>3. job.batch = <<>> /\ Batched = {}
    BY <1>3, <1>4, <1>8, BatchNow
  <2>4. committed = Cardinality(Parts \ feed)
    <3>1. Cardinality(Parts \ feed) = Cardinality(Parts \ job.feed) + 1
      BY <1>3, <1>6, OneMore
    <3>2. (Parts \ job.feed) \ Batched = Parts \ job.feed
      BY <2>3
    <3> QED BY <3>1, <3>2, <1>4
  <2> HIDE DEF feed, committed
  <2>5. job' \in Jobs
    BY <2>1, <2>2, <1>3 DEF Jobs
  <2>6. /\ job'.feed = feed /\ job'.committed = committed /\ job'.phase = "work" /\ job'.mode = job.mode
        /\ job'.last = job.last /\ job'.batch = job.batch /\ job'.skipped = job.skipped
        /\ job'.rows = job.rows /\ job'.langs = job.langs /\ job'.landed = job.landed
        /\ job'.left = job.left
    BY <1>1, <2>1, <2>2 DEF Jobs
  <2>7. UnitTyped'
    BY <1>1, <2>2, <2>5 DEF UnitTyped
  <2>8. Batched' = Batched
    BY <2>6 DEF Batched
  <2>9. PhasesFit'
    BY <1>1, <1>7, <2>3, <2>6 DEF PhasesFit
  <2>10. PartsApart'
    BY <1>1, <1>3, <1>7, <2>3, <2>6, <2>8 DEF PartsApart
  <2>11. StreamInOrder'
    <3>1. Parts \ feed \subseteq hub.parts /\ (Parts \ feed) \ Batched = Parts \ feed
      BY <1>4, <1>6, <1>8, <2>3
    <3> QED BY <3>1, <1>1, <1>4, <1>5, <2>3, <2>4, <2>6, <2>8 DEF StreamInOrder
  <2>12. LedgersAgree'
    BY <1>1, <1>7, <2>2, <2>6, <2>8 DEF LedgersAgree, HubCounts, FileCounts, CommitterCounts, Counts
  <2>13. RunAccounts' /\ CompleteMeansWhole'
    BY <1>1, <2>2 DEF RunAccounts, CompleteMeansWhole
  <2>14. DiskHolds'
    BY <1>1, <2>2, <2>6, DiskStays DEF LetThrough
  <2> QED BY <1>7, <2>7, <2>9, <2>10, <2>11, <2>12, <2>13, <2>14
<1>9. CASE p \notin hub.parts
  <2>1. Room /\ job' = [Added(p) EXCEPT !.feed = @ \ {p}]
        /\ local' = [local EXCEPT !.staged = @ \union {p}]
    BY <1>2, <1>9
  <2>2. /\ job' \in Jobs /\ job'.feed = feed /\ job'.batch = Append(job.batch, p)
        /\ job'.phase = (IF Len(job.batch) + 1 >= CommitEvery THEN "ledger" ELSE "work")
        /\ job'.mode = job.mode /\ job'.skipped = job.skipped /\ job'.committed = job.committed
        /\ job'.rows = job.rows /\ job'.langs = job.langs /\ job'.last = job.last
    <3> DEFINE a == Added(p)
    <3>1. /\ a \in Jobs /\ a.batch = Append(job.batch, p)
          /\ a.phase = (IF Len(job.batch) + 1 >= CommitEvery THEN "ledger" ELSE "work")
          /\ a.mode = job.mode /\ a.feed = job.feed /\ a.skipped = job.skipped
          /\ a.committed = job.committed
          /\ a.rows = job.rows /\ a.langs = job.langs /\ a.last = job.last
      BY <1>1, AddedFields
    <3> HIDE DEF feed, a
    <3>2. job' = [a EXCEPT !.feed = feed]
      BY <2>1, <3>1 DEF a, feed
    <3>3. job' \in Jobs
      BY <1>3, <3>1, <3>2 DEF Jobs
    <3>4. /\ job'.feed = feed /\ job'.batch = a.batch /\ job'.phase = a.phase
          /\ job'.mode = a.mode /\ job'.skipped = a.skipped /\ job'.committed = a.committed
          /\ job'.rows = a.rows /\ job'.langs = a.langs /\ job'.last = a.last
      BY <3>1, <3>2 DEF Jobs
    <3> QED BY <3>1, <3>3, <3>4
  <2>3. /\ Batched' = Batched \union {p} /\ Cardinality(Batched') = Len(job'.batch)
        /\ Len(job'.batch) = Len(job.batch) + 1 /\ job'.batch # <<>>
        /\ Len(job'.batch) <= CommitEvery
        /\ Batched' \intersect hub.parts = {} /\ hub.parts \ Batched' = hub.parts
        /\ hub.parts \ Batched = hub.parts
    BY <1>1, <1>3, <1>9, <2>2, BatchGrows
  <2>4. /\ local' \in Stagings /\ local'.ledger = local.ledger /\ local'.langs = local.langs
        /\ local'.staged = local.staged \union {p}
    <3>1. local \in Stagings /\ local.staged \union {p} \in SUBSET Parts
      BY StateFields
    <3> QED BY <2>1, <3>1 DEF Stagings
  <2>5. UnitTyped'
    BY <1>1, <2>2, <2>4 DEF UnitTyped, Stagings
  <2>6. PhasesFit'
    <3>1. Len(job.batch) \in Nat /\ CommitEvery \in Nat
      BY BatchNow, Sizes
    <3>2. job'.phase = "work" => Len(job'.batch) < CommitEvery
      BY <3>1, <2>2, <2>3
    <3>3. job'.phase \in {"work", "ledger"}
      BY <2>2
    <3> QED BY <3>2, <3>3, <1>1, <1>7, <2>2, <2>3 DEF PhasesFit
  <2>7. PartsApart'
    <3>1. Batched' \intersect feed = {}
      BY <1>3, <2>3
    <3> QED BY <3>1, <1>1, <1>7, <2>2, <2>3 DEF PartsApart
  <2>8. StreamInOrder'
    <3>1. Parts \ feed \subseteq hub.parts \union Batched'
      BY <1>4, <1>6, <2>3
    <3>2. hub.parts \intersect feed = {}
      BY <1>3, <1>4, <1>5, <1>9
    <3>3. (Parts \ feed) \ Batched' = (Parts \ job.feed) \ Batched
      BY <1>3, <1>6, <2>3
    <3> HIDE DEF feed
    <3> QED BY <3>1, <3>2, <3>3, <1>1, <1>4, <1>5, <2>2 DEF StreamInOrder
  <2>9. LedgersAgree'
    <3>1. ASSUME spell.exact PROVE HubCounts' /\ FileCounts' /\ CommitterCounts'
      <4>1. HubCounts /\ FileCounts /\ CommitterCounts
        BY <3>1, <1>1 DEF LedgersAgree
      <4>2. HubCounts' /\ FileCounts'
        BY <4>1, <1>1, <1>7, <2>4 DEF HubCounts, FileCounts, Counts
      <4>3. CommitterCounts'
        BY <4>1, <1>1, <2>2, <2>3 DEF CommitterCounts
      <4> QED BY <4>2, <4>3
    <3> QED BY <3>1, <1>1, <1>7, <2>2, <2>4 DEF LedgersAgree
  <2>10. RunAccounts' /\ CompleteMeansWhole'
    BY <1>1, <2>4 DEF RunAccounts, CompleteMeansWhole
  <2>11. DiskHolds'
    BY <1>1, <2>1, <2>2, <2>4, PoolEmptyDisk
  <2> QED BY <1>7, <2>5, <2>6, <2>7, <2>8, <2>9, <2>10, <2>11
<1> QED BY <1>8, <1>9

(* --------------------- the source is through, the end ---------------------- *)
LEMMA WorkEndsKeeps ==
  ASSUME UnitInv, Drained \/ StreamEnds
  PROVE  UnitInv'
<1> USE DEF UnitInv
<1> DEFINE phase == IF job.batch = <<>> THEN "final" ELSE "ledger"
<1>1. /\ job.phase = "work" /\ job.mode = "publish" /\ UNCHANGED <<kind, hub, local, place, part, spell>>
      /\ \A w \in Projectors : place[w] = "gone"
      /\ (kind = "domains" => job.feed = {})
      /\ job' = [job EXCEPT !.last = TRUE, !.phase = phase]
  BY AtStream DEF Drained, StreamEnds, Streaming, PhasesFit
<1>2. phase \in {"final", "ledger"} /\ job \in Jobs /\ (phase = "final" <=> job.batch = <<>>)
  BY StateFields
<1> HIDE DEF phase
<1>3. job' \in Jobs
  BY <1>1, <1>2 DEF Jobs
<1>4. /\ job'.phase = phase /\ job'.last = TRUE /\ SameWork /\ SameBatch /\ SameTotals
      /\ job'.cancelled = job.cancelled
  BY <1>1, <1>2 DEF Jobs, SameWork, SameBatch, SameTotals
<1>5. UnitTyped'
  BY <1>1, <1>3 DEF UnitTyped
<1>6. /\ Batched' = Batched /\ Pending = {} /\ Pending' = {} /\ UnderWay /\ UnderWay' /\ ~Arrived /\ ~Arrived'
      /\ Busy = {} /\ Busy' = {} /\ InHand' = InHand /\ Running /\ Running'
  BY <1>1, <1>2, <1>4
  DEF Batched, Pending, UnderWay, Arrived, Busy, InHand, Running, SameWork, SameBatch
<1>13. DiskHolds' /\ FootersCount' /\ ~Footers' /\ Readers' = {}
  BY <1>1, <1>2, <1>4, <1>6, PublishRests DEF SameWork, LetThrough, Readers
<1>7. PhasesFit'
  BY <1>1, <1>2, <1>4, <1>6, <1>13 DEF PhasesFit, SameWork, SameBatch
<1>8. PartsApart'
  BY <1>1, <1>4, <1>6 DEF PartsApart, SameWork, SameBatch
<1>9. StreamInOrder'
  BY <1>1, <1>4, <1>6 DEF StreamInOrder, SameWork, SameBatch, SameTotals
<1>10. LedgersAgree'
  BY <1>1, <1>2, <1>4, <1>6
  DEF LedgersAgree, HubCounts, FileCounts, CommitterCounts, Counts, SameWork, SameTotals
<1>11. RunAccounts'
  BY <1>1, <1>2, <1>4, <1>6 DEF RunAccounts, Handled, SameWork, SameTotals
<1>12. CompleteMeansWhole'
  BY <1>1 DEF CompleteMeansWhole
<1> QED BY <1>1, <1>5, <1>7, <1>8, <1>9, <1>10, <1>11, <1>12, <1>13

LEMMA NothingToRefreshKeeps ==
  ASSUME UnitInv, NothingToRefresh
  PROVE  UnitInv'
<1> USE DEF UnitInv
<1>1. /\ job.phase = "final" /\ job.mode = "publish" /\ UNCHANGED <<kind, hub, local, place, part, spell>>
      /\ kind # "domains" /\ job.flushes > 0 /\ job.last /\ job.batch = <<>>
      /\ job' = [job EXCEPT !.phase = "exit"]
  BY DEF NothingToRefresh, PhasesFit, To
<1>2. job \in Jobs /\ job.flushes \in Nat /\ job.fresh \in Nat
  BY StateFields, JobFields
<1>3. job' \in Jobs
  BY <1>1, <1>2 DEF Jobs
<1>4. /\ job'.phase = "exit" /\ job'.last = job.last /\ SameWork /\ SameBatch /\ SameTotals
      /\ job'.cancelled = job.cancelled
  BY <1>1, <1>2 DEF Jobs, SameWork, SameBatch, SameTotals
<1>5. UnitTyped'
  BY <1>1, <1>3 DEF UnitTyped
<1>6. /\ Batched' = Batched /\ Pending = {} /\ Pending' = {} /\ UnderWay /\ UnderWay' /\ ~Arrived /\ ~Arrived'
      /\ Busy' = Busy /\ InHand' = InHand /\ Running /\ Running'
  BY <1>1, <1>4 DEF Batched, Pending, UnderWay, Arrived, Busy, InHand, Running, SameWork, SameBatch
<1>12. DiskHolds' /\ FootersCount' /\ ~Footers' /\ Readers' = {}
  BY <1>1, <1>4, <1>6, PublishRests DEF SameWork, LetThrough, Readers
<1>7. PhasesFit'
  BY <1>1, <1>4, <1>6, <1>12 DEF PhasesFit, SameWork, SameBatch
<1>8. PartsApart'
  BY <1>1, <1>4, <1>6 DEF PartsApart, SameWork, SameBatch
<1>9. StreamInOrder' /\ CompleteMeansWhole'
  BY <1>1 DEF StreamInOrder, CompleteMeansWhole
<1>10. LedgersAgree'
  BY <1>1, <1>4, <1>6
  DEF LedgersAgree, HubCounts, FileCounts, CommitterCounts, Counts, SameWork, SameTotals
<1>11. RunAccounts'
  <2>1. job.fresh > 0
    BY <1>1, <1>6 DEF RunAccounts
  <2> QED BY <2>1, <1>1, <1>2, <1>4, <1>6 DEF RunAccounts, Handled, SameWork, SameTotals
<1> QED BY <1>1, <1>5, <1>7, <1>8, <1>9, <1>10, <1>11, <1>12

LEMMA WriteLangsKeeps ==
  ASSUME UnitInv, WriteLangs
  PROVE  UnitInv'
<1> USE DEF UnitInv
<1>1. /\ job.phase = "langs" /\ job.mode = "publish" /\ UNCHANGED <<kind, hub, place, part, spell>>
      /\ kind = "news" /\ ~job.landed /\ (job.last \/ job.batch # <<>>)
      /\ job' = [job EXCEPT !.phase = "commit"] /\ local' = [local EXCEPT !.langs = job.langs]
  BY DEF WriteLangs, PhasesFit, To
<1>2. job \in Jobs /\ job.langs \in Nat /\ local \in Stagings
  BY StateFields, JobFields
<1>3. job' \in Jobs
  BY <1>1, <1>2 DEF Jobs
<1>4. /\ job'.phase = "commit" /\ job'.last = job.last /\ SameWork /\ SameBatch /\ SameTotals
      /\ job'.cancelled = job.cancelled
  BY <1>1, <1>2 DEF Jobs, SameWork, SameBatch, SameTotals
<1>5. /\ local' \in Stagings /\ local'.ledger = local.ledger /\ local'.langs = job.langs
      /\ local'.staged = local.staged
  BY <1>1, <1>2 DEF Stagings
<1>6. UnitTyped'
  BY <1>1, <1>3, <1>5 DEF UnitTyped, Stagings
<1>7. /\ Batched' = Batched /\ Pending = Batched /\ Pending' = Batched /\ UnderWay /\ UnderWay'
      /\ ~Arrived /\ ~Arrived' /\ Busy' = Busy /\ InHand' = InHand /\ Running /\ Running'
  BY <1>1, <1>4 DEF Batched, Pending, UnderWay, Arrived, Busy, InHand, Running, SameWork, SameBatch
<1>13. DiskHolds' /\ FootersCount' /\ ~Footers' /\ Readers' = {}
  BY <1>1, <1>4, <1>5, <1>7, PublishRests DEF SameWork, LetThrough, Readers
<1>8. PhasesFit'
  BY <1>1, <1>4, <1>7, <1>13 DEF PhasesFit, SameWork, SameBatch
<1>9. PartsApart'
  BY <1>1, <1>4, <1>7 DEF PartsApart, SameWork, SameBatch
<1>10. StreamInOrder' /\ CompleteMeansWhole'
  BY <1>1 DEF StreamInOrder, CompleteMeansWhole
<1>11. LedgersAgree'
  <2>1. ASSUME spell.exact PROVE HubCounts' /\ FileCounts' /\ CommitterCounts'
    <3>1. HubCounts /\ FileCounts /\ CommitterCounts
      BY <2>1, <1>7 DEF LedgersAgree
    <3>2. HubCounts' /\ CommitterCounts'
      BY <3>1, <1>1, <1>4, <1>5, <1>7 DEF HubCounts, CommitterCounts, Counts, SameTotals
    <3>3. FileCounts'
      BY <3>1, <1>1, <1>4, <1>5, <1>7 DEF FileCounts, CommitterCounts, Counts
    <3> QED BY <3>2, <3>3
  <2> QED BY <2>1, <1>1, <1>4, <1>5, <1>7 DEF LedgersAgree, SameWork
<1>12. RunAccounts'
  BY <1>1, <1>4, <1>7 DEF RunAccounts, Handled, SameWork, SameTotals
<1> QED BY <1>1, <1>5, <1>6, <1>8, <1>9, <1>10, <1>11, <1>12, <1>13

(* ------------------------------ the ledger file --------------------------- *)
\* The row that a run writes for itself.
LEMMA RowFields ==
  ASSUME UnitTyped, job.phase \in {"ledger", "final"}
  PROVE  /\ LedgerRow \in LedgerRows /\ LedgerRow.known = TRUE
         /\ LedgerRow.shards = job.committed + Len(job.batch)
         /\ LedgerRow.rows = (IF kind = "domains" /\ job.phase = "final" THEN Total
                                                                        ELSE job.rows + Len(job.batch))
         /\ (kind = "domains" => LedgerRow.complete = (job.phase = "final"))
<1> DEFINE shards == job.committed + Len(job.batch)
           rows == job.rows + Len(job.batch)
           whole == shards >= Total
<1>1. shards \in Nat /\ rows \in Nat /\ whole \in BOOLEAN /\ Total \in Nat
  <2>1. job.committed \in Nat /\ job.rows \in Nat /\ Len(job.batch) \in Nat
    BY StateFields, JobFields, BatchNow
  <2> QED BY <2>1, Sizes
<1>2. refreshURLCard = [shards |-> shards, known |-> TRUE, rows |-> rows, complete |-> whole]
  BY DEF refreshURLCard, ShardsThen
<1>3. kind \in {"urls", "news", "domains"}
  BY UnitAssumption DEF UnitTyped
<1> HIDE DEF shards, rows, whole
<1>4. CASE kind = "urls" \/ kind = "news"
  <2>1. LedgerRow = [shards |-> shards, known |-> TRUE, rows |-> rows, complete |-> whole]
    <3>1. CASE kind = "urls"
      BY <3>1, <1>2 DEF LedgerRow
    <3>2. CASE kind = "news"
      BY <3>2, <1>2 DEF LedgerRow, refreshNewsCard
    <3> QED BY <1>4, <3>1, <3>2
  <2> QED BY <1>1, <1>4, <2>1 DEF LedgerRows, shards, rows
<1>5. CASE kind = "domains" /\ job.phase = "ledger"
  <2>1. LedgerRow = [shards |-> shards, known |-> TRUE, rows |-> rows, complete |-> FALSE]
    BY <1>2, <1>5 DEF LedgerRow, refreshDomainCard
  <2> QED BY <1>1, <1>5, <2>1 DEF LedgerRows, shards, rows
<1>6. CASE kind = "domains" /\ job.phase = "final"
  <2>1. LedgerRow = [shards |-> shards, known |-> TRUE, rows |-> Total, complete |-> TRUE]
    BY <1>2, <1>6 DEF LedgerRow, refreshDomainCard, finalizeDomainGraph
  <2> QED BY <1>1, <1>6, <2>1 DEF LedgerRows, shards
<1> QED BY <1>3, <1>4, <1>5, <1>6

\* What the committer's totals come to with the batch in its hands.
LEMMA RowCountsAll ==
  ASSUME UnitInv, job.phase \in {"ledger", "final"}, spell.exact
  PROVE  /\ Counts(LedgerRow, Cardinality(hub.parts \union Batched))
         /\ job.rows = Cardinality(hub.parts) /\ (kind = "news" => local.langs = job.rows /\ job.langs = job.rows)
         /\ hub.parts \ Batched = hub.parts
         /\ Cardinality(hub.parts \union Batched) = Cardinality(hub.parts) + Len(job.batch)
<1> USE DEF UnitInv
<1>1. /\ UnderWay /\ job.mode = "publish" /\ ~Arrived /\ Pending = {} /\ Running
      /\ (job.phase = "ledger" => job.batch # <<>>)
      /\ (job.phase = "final" => job.batch = <<>> /\ job.last)
  BY DEF PhasesFit, UnderWay, Arrived, Pending, Running
<1>2. /\ Batched \in SUBSET Parts /\ hub.parts \in SUBSET Parts /\ Batched \intersect hub.parts = {}
      /\ Cardinality(Batched) = Len(job.batch) /\ job.feed \in SUBSET Parts
      /\ Batched \intersect job.feed = {} /\ (job.batch = <<>> => Batched = {})
  BY <1>1, BatchNow, StateFields, JobFields DEF PartsApart
<1>3. /\ hub.parts \ Batched = hub.parts
      /\ Cardinality(hub.parts \union Batched) = Cardinality(hub.parts) + Len(job.batch)
  BY <1>2, Disjoint
<1>4. /\ job.rows = Cardinality(hub.parts) /\ (kind # "domains" => job.committed = job.rows)
      /\ (kind = "news" => job.langs = local.ledger.rows /\ local.langs = local.ledger.rows)
      /\ local.ledger.rows = Cardinality(hub.parts)
  <2>1. FileCounts /\ CommitterCounts
    BY <1>1 DEF LedgersAgree
  <2>2. hub.parts \union Pending = hub.parts
    BY <1>1
  <2> QED BY <2>1, <2>2, <1>3 DEF FileCounts, CommitterCounts, Counts
<1>5. /\ LedgerRow.shards = job.committed + Len(job.batch)
      /\ LedgerRow.rows = (IF kind = "domains" /\ job.phase = "final" THEN Total
                                                                     ELSE job.rows + Len(job.batch))
  BY RowFields
<1>6. CASE kind # "domains"
  BY <1>3, <1>4, <1>5, <1>6 DEF Counts
<1>7. CASE kind = "domains"
  <2>1. /\ Parts \ job.feed \subseteq hub.parts \union Batched
        /\ job.batch # <<>> => hub.parts \intersect job.feed = {}
        /\ job.last => job.feed = {}
        /\ job.committed = Cardinality((Parts \ job.feed) \ Batched)
    BY <1>1, <1>7 DEF StreamInOrder
  <2>2. job.committed = Cardinality(hub.parts)
    <3>1. (Parts \ job.feed) \ Batched = hub.parts
      <4>1. CASE job.phase = "ledger"
        BY <4>1, <1>1, <1>2, <2>1
      <4>2. CASE job.phase = "final"
        BY <4>2, <1>1, <1>2, <2>1
      <4> QED BY <4>1, <4>2
    <3> QED BY <3>1, <2>1
  <2>3. job.phase = "final" => Cardinality(hub.parts) = Total /\ Len(job.batch) = 0
    <3>1. ASSUME job.phase = "final" PROVE hub.parts = Parts
      BY <3>1, <1>1, <1>2, <2>1
    <3> QED BY <3>1, <1>1 DEF Total
  <2>4. Total \in Nat
    BY Sizes
  <2> QED BY <1>1, <1>3, <1>4, <1>5, <1>7, <2>2, <2>3, <2>4 DEF Counts
<1> QED BY <1>3, <1>4, <1>6, <1>7

LEMMA WriteLedgerKeeps ==
  ASSUME UnitInv, WriteLedger
  PROVE  UnitInv'
<1> USE DEF UnitInv
<1> DEFINE phase == IF kind = "news" THEN "langs" ELSE "commit"
           langs == job.langs + Len(job.batch)
           last == job.phase = "final" \/ job.last
           row == LedgerRow
<1>1. /\ job.phase \in {"ledger", "final"} /\ job.mode = "publish"
      /\ UNCHANGED <<kind, hub, place, part, spell>>
      /\ job.last \/ job.batch # <<>>
      /\ local' = [local EXCEPT !.ledger = row]
      /\ job' = [job EXCEPT !.phase = phase, !.langs = langs, !.tries = 0, !.landed = FALSE, !.last = last]
  <2>1. /\ job.phase \in {"ledger", "final"} /\ UNCHANGED <<kind, hub, place, part, spell>>
        /\ local' = [local EXCEPT !.ledger = row]
    BY DEF WriteLedger
  <2>2. job' = [job EXCEPT !.phase = phase, !.langs = langs, !.tries = 0, !.landed = FALSE, !.last = last]
    BY StateFields DEF WriteLedger, Jobs
  <2> QED BY <2>1, <2>2 DEF PhasesFit
<1>2. /\ job \in Jobs /\ local \in Stagings /\ langs \in Nat /\ last = job.last
      /\ phase \in {"langs", "commit"} /\ (phase = "langs" <=> kind = "news")
  <2>1. job \in Jobs /\ local \in Stagings /\ langs \in Nat
    BY StateFields, JobFields, BatchNow
  <2>2. last = job.last
    BY <1>1, <2>1, JobFields DEF PhasesFit
  <2> QED BY <2>1, <2>2
<1>3. /\ row \in LedgerRows /\ row.known = TRUE
      /\ (kind = "domains" => row.complete = (job.phase = "final"))
  BY <1>1, RowFields
<1>4. spell.exact =>
        /\ Counts(row, Cardinality(hub.parts \union Batched))
        /\ job.rows = Cardinality(hub.parts)
        /\ (kind = "news" => local.langs = job.rows /\ langs = row.rows)
        /\ hub.parts \ Batched = hub.parts
  BY <1>1, RowCountsAll DEF Counts
<1> HIDE DEF phase, langs, last, row
<1>5. job' \in Jobs
  BY <1>1, <1>2 DEF Jobs
<1>6. /\ job'.phase = phase /\ job'.last = job.last /\ SameWork /\ job'.batch = job.batch
      /\ job'.landed = FALSE /\ job'.committed = job.committed /\ job'.rows = job.rows
      /\ job'.langs = langs /\ job'.flushes = job.flushes /\ job'.fresh = job.fresh
      /\ job'.cancelled = job.cancelled
  BY <1>1, <1>2 DEF Jobs, SameWork
<1>7. /\ local' \in Stagings /\ local'.ledger = row /\ local'.langs = local.langs
      /\ local'.staged = local.staged
  BY <1>1, <1>2, <1>3 DEF Stagings
<1>8. UnitTyped'
  BY <1>1, <1>5, <1>7 DEF UnitTyped, Stagings
<1>9. /\ Batched' = Batched /\ Pending' = Batched /\ UnderWay /\ UnderWay'
      /\ ~Arrived /\ ~Arrived' /\ Busy' = Busy /\ InHand' = InHand /\ Running /\ Running'
  BY <1>1, <1>2, <1>6 DEF Batched, Pending, UnderWay, Arrived, Busy, InHand, Running, SameWork
<1>16. DiskHolds' /\ FootersCount' /\ ~Footers' /\ Readers' = {}
  BY <1>1, <1>2, <1>6, <1>7, <1>9, PublishRests DEF SameWork, LetThrough, Readers
<1>10. PhasesFit'
  BY <1>1, <1>2, <1>6, <1>9, <1>16 DEF PhasesFit, SameWork
<1>11. PartsApart'
  BY <1>1, <1>6, <1>9 DEF PartsApart, SameWork
<1>12. StreamInOrder'
  BY <1>1, <1>6, <1>9 DEF StreamInOrder, SameWork
<1>13. LedgersAgree'
  <2>1. ASSUME spell.exact PROVE HubCounts' /\ FileCounts' /\ CommitterCounts'
    <3>1. HubCounts /\ CommitterCounts
      BY <2>1, <1>9 DEF LedgersAgree
    <3>2. HubCounts'
      BY <3>1, <1>1 DEF HubCounts, Counts
    <3>3. FileCounts'
      <4>1. kind = "news" => job'.phase = "langs"
        BY <1>2, <1>6
      <4>2. Counts(local'.ledger, Cardinality(hub'.parts \union Pending'))
        BY <2>1, <1>1, <1>4, <1>7, <1>9
      <4>3. kind = "news" => local'.langs = Cardinality(hub'.parts \ Batched')
        BY <2>1, <1>1, <1>4, <1>7, <1>9
      <4> QED BY <4>1, <4>2, <4>3, <1>1 DEF FileCounts, Counts
    <3>4. CommitterCounts'
      BY <2>1, <3>1, <1>1, <1>4, <1>6, <1>7, <1>9 DEF CommitterCounts
    <3> QED BY <3>2, <3>3, <3>4
  <2> QED BY <2>1, <1>1, <1>3, <1>6, <1>7, <1>9 DEF LedgersAgree, SameWork
<1>14. RunAccounts'
  BY <1>1, <1>2, <1>6, <1>9 DEF RunAccounts, Handled, SameWork
<1>15. CompleteMeansWhole'
  <2>1. ASSUME kind = "domains", job.phase = "final" PROVE hub.parts = Parts
    <3>1. job.batch = <<>> /\ job.last
      BY <1>1, <2>1 DEF PhasesFit
    <3>2. Batched = {} /\ Parts \ job.feed \subseteq hub.parts \union Batched /\ job.feed = {}
      BY <3>1, <1>9, <2>1, BatchNow DEF StreamInOrder
    <3> QED BY <3>2, StateFields
  <2> QED BY <2>1, <1>1, <1>3, <1>7 DEF CompleteMeansWhole
<1> QED BY <1>1, <1>7, <1>8, <1>10, <1>11, <1>12, <1>13, <1>14, <1>15, <1>16

(* ------------------------------- the commit ------------------------------- *)
\* The commit is on the hub, whether its answer came or not.
Lands == Commit \/ CommitUnanswered

LEMMA LandsFields ==
  ASSUME UnitInv, Lands
  PROVE  /\ job.phase = "commit" /\ Running /\ UNCHANGED <<kind, local, place, part>>
         /\ spell' \in Spells /\ spell'.exact = StillExact /\ ~job.cancelled
         /\ hub' \in Hubs /\ hub'.bad \subseteq hub'.parts /\ hub'.parts = hub.parts \union Batched
         /\ hub'.ledger = (IF job.mode = "repair" THEN hub.ledger ELSE local.ledger)
         /\ hub'.langs = (IF kind = "news" THEN local.langs ELSE hub.langs)
         /\ job' \in Jobs /\ SameWork /\ job'.batch = job.batch /\ job'.landed = TRUE
         /\ job'.fresh = job.fresh + Cardinality(Batched \ hub.parts)
         /\ job'.committed = job.committed /\ job'.rows = job.rows /\ job'.langs = job.langs
         /\ job'.flushes = job.flushes /\ job'.last = job.last /\ job'.cancelled = job.cancelled
         /\ job'.phase \in {"commit", "settle"} /\ (job'.phase = "settle" => ~job.cancelled)
<1> USE DEF UnitInv
<1>1. /\ job.phase = "commit" /\ Running /\ UNCHANGED <<kind, local, place, part>> /\ ~job.cancelled
      /\ spell' \in Spells /\ spell'.exact = StillExact
  <2> DEFINE exact == StillExact
             faults == spell.faults + 1
  <2>1. exact \in BOOLEAN /\ faults \in Nat /\ spell \in Spells
    BY StateFields DEF StillExact
  <2>2. \/ spell' = [spell EXCEPT !.exact = exact]
        \/ spell' = [spell EXCEPT !.faults = faults, !.exact = exact]
    BY DEF Lands, Commit, CommitUnanswered
  <2> HIDE DEF exact, faults
  <2>3. spell' \in Spells /\ spell'.exact = exact
    BY <2>1, <2>2 DEF Spells
  <2> QED BY <2>3 DEF Lands, Commit, CommitUnanswered, Running, exact
<1>2. /\ hub \in Hubs /\ local \in Stagings /\ job \in Jobs /\ Batched \in SUBSET Parts
      /\ hub.parts \in SUBSET Parts /\ hub.bad \in SUBSET Parts /\ hub.bad \subseteq hub.parts
      /\ hub.ledger \in LedgerRows /\ local.ledger \in LedgerRows /\ hub.langs \in Nat /\ local.langs \in Nat
  BY StateFields, BatchNow DEF UnitTyped
<1>3. /\ hub' \in Hubs /\ hub'.bad \subseteq hub'.parts /\ hub'.parts = hub.parts \union Batched
      /\ hub'.ledger = (IF job.mode = "repair" THEN hub.ledger ELSE local.ledger)
      /\ hub'.langs = (IF kind = "news" THEN local.langs ELSE hub.langs)
  <2> DEFINE parts == hub.parts \union Batched
             bad == hub.bad \ Batched
             ledger == IF job.mode = "repair" THEN hub.ledger ELSE local.ledger
             langs == IF kind = "news" THEN local.langs ELSE hub.langs
  <2>1. /\ parts \in SUBSET Parts /\ bad \in SUBSET Parts /\ bad \subseteq parts
        /\ ledger \in LedgerRows /\ langs \in Nat
    BY <1>2
  <2>2. hub' = [hub EXCEPT !.parts = parts, !.bad = bad, !.ledger = ledger, !.langs = langs]
    BY <1>2 DEF Lands, Commit, CommitUnanswered, Landing, Batched, Hubs
  <2> HIDE DEF parts, bad, ledger, langs
  <2>3. /\ hub' \in Hubs /\ hub'.parts = parts /\ hub'.bad = bad /\ hub'.ledger = ledger
        /\ hub'.langs = langs
    BY <1>2, <2>1, <2>2 DEF Hubs
  <2> QED BY <2>1, <2>3 DEF parts, ledger, langs
<1>4. /\ job' \in Jobs /\ SameWork /\ job'.batch = job.batch /\ job'.landed = TRUE
      /\ job'.fresh = job.fresh + Cardinality(Batched \ hub.parts)
      /\ job'.committed = job.committed /\ job'.rows = job.rows /\ job'.langs = job.langs
      /\ job'.flushes = job.flushes /\ job'.last = job.last /\ job'.cancelled = job.cancelled
      /\ job'.phase \in {"commit", "settle"} /\ (job'.phase = "settle" => ~job.cancelled)
  <2> DEFINE fresh == job.fresh + Cardinality(Batched \ hub.parts)
             tries == job.tries + 1
  <2>1. fresh \in Nat /\ tries \in Nat
    <3>1. Cardinality(Batched \ hub.parts) \in Nat
      BY <1>2, SubsetsAreFinite
    <3>2. job.fresh \in Nat /\ job.tries \in Nat
      BY <1>2, JobFields
    <3> QED BY <3>1, <3>2
  <2>2. LandedJob = [job EXCEPT !.landed = TRUE, !.fresh = fresh]
    BY <1>2 DEF LandedJob, Batched, Jobs
  <2> HIDE DEF fresh, tries
  <2>3. LandedJob \in Jobs /\ LandedJob.tries = job.tries
    BY <1>2, <2>1, <2>2 DEF Jobs
  <2>4. \/ ~job.cancelled /\ job' = [LandedJob EXCEPT !.phase = "settle"]
        \/ job' = [LandedJob EXCEPT !.tries = tries]
    BY <2>3 DEF Lands, Commit, CommitUnanswered, tries
  <2>5. CASE ~job.cancelled /\ job' = [LandedJob EXCEPT !.phase = "settle"]
    <3>1. job' \in Jobs
      BY <2>3, <2>5 DEF Jobs
    <3> QED BY <3>1, <1>2, <2>1, <2>2, <2>3, <2>5 DEF Jobs, SameWork, fresh
  <2>6. CASE job' = [LandedJob EXCEPT !.tries = tries]
    <3>1. job' \in Jobs
      BY <2>1, <2>3, <2>6 DEF Jobs
    <3>2. job'.phase = LandedJob.phase /\ job'.fresh = LandedJob.fresh /\ job'.landed = LandedJob.landed
          /\ job'.mode = LandedJob.mode /\ job'.feed = LandedJob.feed /\ job'.todo = LandedJob.todo
          /\ job'.skipped = LandedJob.skipped /\ job'.batch = LandedJob.batch
          /\ job'.committed = LandedJob.committed /\ job'.rows = LandedJob.rows
          /\ job'.langs = LandedJob.langs /\ job'.flushes = LandedJob.flushes
          /\ job'.last = LandedJob.last /\ job'.cancelled = LandedJob.cancelled
          /\ job'.failed = LandedJob.failed /\ job'.left = LandedJob.left
      BY <2>3, <2>6 DEF Jobs
    <3>3. LandedJob.phase = job.phase /\ LandedJob.fresh = fresh /\ LandedJob.landed = TRUE
          /\ LandedJob.mode = job.mode /\ LandedJob.feed = job.feed /\ LandedJob.todo = job.todo
          /\ LandedJob.skipped = job.skipped /\ LandedJob.batch = job.batch
          /\ LandedJob.committed = job.committed /\ LandedJob.rows = job.rows
          /\ LandedJob.langs = job.langs /\ LandedJob.flushes = job.flushes
          /\ LandedJob.last = job.last /\ LandedJob.cancelled = job.cancelled
          /\ LandedJob.failed = job.failed /\ LandedJob.left = job.left
      BY <1>2, <2>2 DEF Jobs
    <3> QED BY <3>1, <3>2, <3>3, <1>1 DEF SameWork, fresh
  <2> QED BY <2>4, <2>5, <2>6
<1> QED BY <1>1, <1>3, <1>4

LEMMA LandsKeepsLedgers ==
  ASSUME UnitInv, Lands
  PROVE  LedgersAgree'
<1> USE DEF UnitInv, SameWork
<1>1. /\ job.phase = "commit" /\ Running /\ UNCHANGED <<kind, local, place, part>>
      /\ spell'.exact = StillExact /\ ~job.cancelled
      /\ hub'.parts = hub.parts \union Batched
      /\ hub'.ledger = (IF job.mode = "repair" THEN hub.ledger ELSE local.ledger)
      /\ hub'.langs = (IF kind = "news" THEN local.langs ELSE hub.langs)
      /\ SameWork /\ job'.batch = job.batch
      /\ job'.committed = job.committed /\ job'.rows = job.rows /\ job'.langs = job.langs
      /\ job'.phase \in {"commit", "settle"}
  BY LandsFields
<1>2. /\ Batched' = Batched /\ UnderWay' = UnderWay /\ Running'
      /\ Pending = (IF job.mode = "publish" THEN Batched ELSE {}) /\ Pending' = Pending
      /\ Batched \in SUBSET Parts /\ hub.parts \in SUBSET Parts
  BY <1>1, BatchNow, StateFields DEF Batched, Pending, UnderWay, Running
<1>3. job.mode = "recount" => kind # "news" /\ Batched = {}
  BY BatchNow DEF PhasesFit
<1>4. job.mode = "repair" => kind = "urls"
  BY DEF PhasesFit
<1>5. \A ledger \in {hub'.ledger, local'.ledger} : ledger.known \/ ledger = NoLedger
  BY <1>1 DEF LedgersAgree
<1>6. ASSUME spell'.exact
      PROVE  HubCounts' /\ FileCounts' /\ (UnderWay => CommitterCounts')
  <2>1. /\ HubCounts /\ FileCounts /\ (UnderWay => CommitterCounts)
        /\ job.mode = "repair" => Batched \subseteq hub.parts
    BY <1>1, <1>6 DEF LedgersAgree, StillExact, Batched
  <2>2. hub.parts \union Pending = hub'.parts /\ hub'.parts \union Pending' = hub'.parts
    <3>1. CASE job.mode = "publish"
      BY <3>1, <1>1, <1>2
    <3>2. CASE job.mode = "repair"
      BY <3>2, <2>1, <1>1, <1>2
    <3>3. CASE job.mode = "recount"
      BY <3>3, <1>1, <1>2, <1>3
    <3>4. job.mode \in Modes /\ job.mode # "none"
      BY <1>1, StateFields, JobFields DEF PhasesFit
    <3> QED BY <3>1, <3>2, <3>3, <3>4 DEF Modes
  <2>3. /\ Counts(local.ledger, Cardinality(hub'.parts))
        /\ (kind = "news" => local.langs = local.ledger.rows)
    BY <2>1, <2>2, <1>1 DEF FileCounts
  <2>4. FileCounts'
    BY <2>2, <2>3, <1>1 DEF FileCounts, Counts
  <2>5. HubCounts'
    <3>1. CASE job.mode = "repair"
      <4>1. hub'.parts = hub.parts
        BY <3>1, <2>1, <1>1, <1>2
      <4> QED BY <3>1, <4>1, <2>1, <1>1, <1>4 DEF HubCounts, Counts
    <3>2. CASE job.mode # "repair"
      BY <3>2, <2>3, <1>1 DEF HubCounts, Counts
    <3> QED BY <3>1, <3>2
  <2>6. UnderWay => CommitterCounts'
    <3>1. hub'.parts \ Batched' = hub.parts \ Batched
      BY <1>1, <1>2
    <3> QED BY <3>1, <2>1, <1>1 DEF CommitterCounts
  <2> QED BY <2>4, <2>5, <2>6
<1>7. job.mode = "recount" => /\ Counts(local'.ledger, Cardinality(hub'.parts))
                              /\ hub'.ledger = local'.ledger
  <2>1. job.mode = "recount" => Counts(local.ledger, Cardinality(hub.parts)) /\ hub'.parts = hub.parts
    BY <1>1, <1>3 DEF LedgersAgree
  <2> QED BY <2>1, <1>1
<1> QED BY <1>1, <1>2, <1>5, <1>6, <1>7 DEF LedgersAgree

LEMMA LandsKeepsAccounts ==
  ASSUME UnitInv, Lands
  PROVE  RunAccounts'
<1> USE DEF UnitInv, SameWork
<1> DEFINE new == Batched \ hub.parts
<1>1. /\ job.phase = "commit" /\ UNCHANGED <<kind, local, place, part>>
      /\ hub'.parts = hub.parts \union Batched
      /\ SameWork /\ job'.batch = job.batch /\ job'.landed = TRUE
      /\ job'.fresh = job.fresh + Cardinality(new)
      /\ job'.flushes = job.flushes /\ job'.last = job.last /\ job'.cancelled = job.cancelled
      /\ job'.phase \in {"commit", "settle"} /\ (job'.phase = "settle" => ~job.cancelled)
  BY LandsFields
<1>2. /\ Batched' = Batched /\ UnderWay' = UnderWay /\ Busy' = Busy /\ InHand' = InHand
      /\ (job.batch = <<>> <=> Batched = {})
      /\ Batched \in SUBSET Parts /\ hub.parts \in SUBSET Parts /\ job.fresh \in Nat
  BY <1>1, BatchNow, StateFields, JobFields DEF Batched, UnderWay, Busy, InHand
<1>3. CASE ~(UnderWay /\ kind # "domains")
  BY <1>1, <1>2, <1>3 DEF RunAccounts
<1>4. CASE UnderWay /\ kind # "domains"
  <2>1. /\ Cardinality(new) \in Nat /\ Cardinality(hub.parts) \in Nat
        /\ Cardinality(hub'.parts) = Cardinality(hub.parts) + Cardinality(new)
    <3>1. new \in SUBSET Parts /\ new \intersect hub.parts = {} /\ hub'.parts = hub.parts \union new
      BY <1>1, <1>2
    <3> HIDE DEF new
    <3> QED BY <3>1, <1>2, Disjoint, SubsetsAreFinite
  <2>2. job'.fresh = Cardinality(hub'.parts) - (Total - job'.todo)
    <3>1. job.fresh = Cardinality(hub.parts) - (Total - job.todo) /\ Total \in Nat /\ job.todo \in Int
      BY <1>4, Sizes, StateFields, JobFields DEF RunAccounts
    <3> HIDE DEF new
    <3> QED BY <3>1, <2>1, <1>1, <1>2
  <2>3. Handled' = Handled
    BY <1>1, <1>2 DEF Handled
  <2>4. job.batch # <<>> => job'.fresh > 0
    <3>1. CASE Arrived
      <4>1. job.batch # <<>> => job.fresh > 0
        BY <3>1, <1>4 DEF RunAccounts
      <4> HIDE DEF new
      <4> QED BY <4>1, <2>1, <1>1, <1>2
    <3>2. CASE ~Arrived /\ job.batch # <<>>
      <4>1. new = Batched /\ new # {}
        BY <3>2, <1>2, <1>4 DEF PartsApart
      <4>2. Cardinality(new) # 0
        <5>1. IsFiniteSet(new)
          BY <1>2, SubsetsAreFinite
        <5> HIDE DEF new
        <5> QED BY <5>1, <4>1, FS_EmptySet
      <4> HIDE DEF new
      <4> QED BY <4>2, <2>1, <1>1, <1>2
    <3> QED BY <3>1, <3>2
  <2>5. job.flushes > 0 => job'.fresh > 0
    <3>1. job.flushes > 0 => job.fresh > 0
      BY <1>1, <1>4 DEF RunAccounts
    <3> HIDE DEF new
    <3> QED BY <3>1, <2>1, <1>1, <1>2
  <2>6. ASSUME job'.phase = "settle", job.last, job'.fresh = 0
        PROVE  job'.skipped + Cardinality(hub'.parts) = Total
    <3>1. ~job.cancelled /\ job.batch = <<>>
      BY <2>4, <2>6, <1>1
    <3>2. PICK w \in Projectors : TRUE
      BY UnitAssumption
    <3>3. \A v \in Projectors : place[v] = "gone"
      BY <2>6 DEF PhasesFit
    <3>4. job.feed = {} /\ job.skipped + Cardinality(Handled) = Total
      BY <3>1, <3>2, <3>3, <1>4 DEF RunAccounts
    <3>5. Handled = hub.parts /\ hub'.parts = hub.parts
      BY <3>1, <3>3, <3>4, <1>1, <1>2 DEF Handled, InHand, Busy
    <3> QED BY <3>4, <3>5, <1>1
  <2> HIDE DEF new
  <2>7. job'.skipped = job.skipped /\ job'.feed = job.feed
    BY <1>1
  <2>8. /\ ~job.cancelled => job.skipped + Cardinality(Handled) = Total
        /\ ~job.cancelled /\ (\E w \in Projectors : place[w] = "gone") => job.feed = {}
    BY <1>4 DEF RunAccounts
  <2> QED BY <1>1, <1>4, <2>2, <2>3, <2>4, <2>5, <2>6, <2>7, <2>8 DEF RunAccounts
<1> QED BY <1>3, <1>4

LEMMA LandsKeeps ==
  ASSUME UnitInv, Lands
  PROVE  UnitInv'
<1> USE DEF UnitInv, SameWork
<1>1. /\ job.phase = "commit" /\ Running /\ UNCHANGED <<kind, local, place, part>>
      /\ spell' \in Spells
      /\ hub' \in Hubs /\ hub'.bad \subseteq hub'.parts /\ hub'.parts = hub.parts \union Batched
      /\ hub'.ledger = (IF job.mode = "repair" THEN hub.ledger ELSE local.ledger)
      /\ job' \in Jobs /\ SameWork /\ job'.batch = job.batch /\ job'.landed = TRUE
      /\ job'.committed = job.committed /\ job'.last = job.last
      /\ job'.phase \in {"commit", "settle"}
  BY LandsFields
<1>2. /\ Batched' = Batched /\ UnderWay' = UnderWay /\ Busy' = Busy /\ InHand' = InHand
      /\ Arrived' /\ (job.batch = <<>> <=> Batched = {})
      /\ Batched \in SUBSET Parts /\ hub.parts \in SUBSET Parts
      /\ ~Footers /\ ~Footers' /\ Readers' = Readers /\ LetThrough' = LetThrough
  BY <1>1, BatchNow, StateFields
  DEF Batched, UnderWay, Busy, InHand, Arrived, Footers, Readers, LetThrough
<1>3. UnitTyped'
  BY <1>1 DEF UnitTyped, Spells, Exits, Hubs
<1>4. PhasesFit'
  BY <1>1, <1>2 DEF PhasesFit
<1>8. DiskHolds' /\ FootersCount'
  BY <1>1, <1>2, DiskStays DEF FootersCount
<1>5. PartsApart'
  BY <1>1, <1>2 DEF PartsApart
<1>6. StreamInOrder'
  <2>1. CASE kind # "domains"
    BY <2>1, <1>1 DEF StreamInOrder
  <2>2. CASE kind = "domains" /\ ~UnderWay
    <3>1. job.mode = "recount"
      <4>1. job.mode # "repair" /\ job.mode # "none" /\ job.mode # "publish" /\ job.mode \in Modes
        BY <1>1, <2>2, StateFields, JobFields DEF PhasesFit, UnderWay
      <4> QED BY <4>1 DEF Modes
    <3>2. hub'.parts = hub.parts
      BY <3>1, <1>1, <1>2 DEF PhasesFit
    <3> QED BY <3>2, <2>2, <1>1, <1>2 DEF StreamInOrder
  <2>3. CASE kind = "domains" /\ UnderWay
    <3>1. /\ \A p \in hub.parts, q \in Parts : q < p => q \in hub.parts
          /\ \A p \in job.feed, q \in Parts : p < q => q \in job.feed
          /\ Parts \ job.feed \subseteq hub.parts \union Batched
          /\ job.batch # <<>> => hub.parts \intersect job.feed = {}
          /\ Batched \intersect job.feed = {}
      BY <2>3 DEF StreamInOrder, PartsApart
    <3>2. ASSUME NEW p \in hub'.parts, NEW q \in Parts, q < p PROVE q \in hub'.parts
      BY <3>1, <3>2, <1>1, <1>2
    <3>3. /\ Parts \ job.feed \subseteq hub'.parts \union Batched
          /\ job.batch # <<>> => hub'.parts \intersect job.feed = {}
      BY <3>1, <1>1
    <3> QED BY <3>1, <3>2, <3>3, <2>3, <1>1, <1>2 DEF StreamInOrder
  <2> QED BY <2>1, <2>2, <2>3
<1>7. CompleteMeansWhole'
  BY <1>1, <1>2 DEF CompleteMeansWhole
<1> QED BY <1>1, <1>3, <1>4, <1>5, <1>6, <1>7, <1>8, LandsKeepsLedgers, LandsKeepsAccounts

(* ------------------------------- the settling ----------------------------- *)
LEMMA TotalsGrow ==
  ASSUME UnitTyped
  PROVE  job.committed + Len(job.batch) \in Nat /\ job.rows + Len(job.batch) \in Nat /\ job.flushes + 1 \in Nat
<1>1. job.committed \in Nat /\ job.rows \in Nat /\ job.flushes \in Nat /\ Len(job.batch) \in Nat
  BY StateFields, JobFields, BatchNow
<1> QED BY <1>1

LEMMA SettleFields ==
  ASSUME UnitInv, Settle
  PROVE  /\ job.phase = "settle" /\ Running /\ Arrived /\ UNCHANGED <<kind, hub, place, part>>
         /\ spell' \in Spells /\ spell'.exact = (spell.exact \/ job.mode = "recount")
         /\ local' \in Stagings /\ local'.ledger = local.ledger /\ local'.langs = local.langs
         /\ local'.staged = local.staged \ Batched
         /\ job' \in Jobs /\ SameWork /\ job'.batch = <<>> /\ job'.fresh = job.fresh
         /\ job'.committed = job.committed + Len(job.batch) /\ job'.rows = job.rows + Len(job.batch)
         /\ job'.langs = job.langs /\ job'.last = job.last /\ job'.cancelled = job.cancelled
         /\ job'.phase = (IF ~job.last THEN (IF job.mode = "repair" THEN "repair" ELSE "work")
                          ELSE IF job.mode = "publish" /\ job.batch # <<>> THEN "final" ELSE "exit")
<1> USE DEF UnitInv
<1>1. job.phase = "settle" /\ Running /\ Arrived /\ UNCHANGED <<kind, hub, place, part>>
  BY DEF Settle, Running, Arrived, PhasesFit
<1>2. job \in Jobs /\ local \in Stagings /\ spell \in Spells /\ local.staged \in SUBSET Parts
  BY StateFields
<1>3. spell' \in Spells /\ spell'.exact = (spell.exact \/ job.mode = "recount")
  <2> DEFINE exact == spell.exact \/ job.mode = "recount"
  <2>1. exact \in BOOLEAN
    OBVIOUS
  <2>2. spell' = [spell EXCEPT !.exact = exact]
    BY DEF Settle
  <2> HIDE DEF exact
  <2>3. spell' \in Spells /\ spell'.exact = exact
    BY <1>2, <2>1, <2>2 DEF Spells
  <2> QED BY <2>3 DEF exact
<1>4. /\ local' \in Stagings /\ local'.ledger = local.ledger /\ local'.langs = local.langs
      /\ local'.staged = local.staged \ Batched
  <2> DEFINE staged == local.staged \ Batched
  <2>1. staged \in SUBSET Parts
    BY <1>2
  <2>2. local' = [local EXCEPT !.staged = staged]
    BY DEF Settle, Batched
  <2> HIDE DEF staged
  <2>3. /\ local' \in Stagings /\ local'.ledger = local.ledger /\ local'.langs = local.langs
        /\ local'.staged = staged
    BY <1>2, <2>1, <2>2 DEF Stagings
  <2> QED BY <2>3 DEF staged
<1> DEFINE committed == job.committed + Len(job.batch)
           rows == job.rows + Len(job.batch)
           flushes == job.flushes + 1
           phase == IF ~job.last THEN (IF job.mode = "repair" THEN "repair" ELSE "work")
                    ELSE IF job.mode = "publish" /\ job.batch # <<>> THEN "final" ELSE "exit"
<1>5. /\ committed \in Nat /\ rows \in Nat /\ flushes \in Nat /\ <<>> \in Seq(Parts)
      /\ phase \in {"work", "repair", "final", "exit"} /\ 0 \in 0 .. MaxStall
  <2>2. committed \in Nat /\ rows \in Nat /\ flushes \in Nat
    BY TotalsGrow
  <2>3. 0 \in 0 .. MaxStall /\ <<>> \in Seq(Parts)
    BY Sizes
  <2>4. phase \in {"work", "repair", "final", "exit"}
    OBVIOUS
  <2> QED BY <2>2, <2>3, <2>4
<1>6. job' = [job EXCEPT !.committed = committed, !.rows = rows, !.batch = <<>>, !.flushes = flushes,
                         !.quiet = 0, !.phase = phase]
  BY <1>2 DEF Settle, Jobs
<1> HIDE DEF committed, rows, flushes, phase
<1>7. job' \in Jobs
  BY <1>2, <1>5, <1>6 DEF Jobs
<1>8. /\ SameWork /\ job'.batch = <<>> /\ job'.fresh = job.fresh
      /\ job'.committed = committed /\ job'.rows = rows /\ job'.phase = phase
      /\ job'.langs = job.langs /\ job'.last = job.last /\ job'.cancelled = job.cancelled
  BY <1>2, <1>6 DEF Jobs, SameWork
<1> QED BY <1>1, <1>3, <1>4, <1>7, <1>8 DEF committed, rows, phase

LEMMA SettleKeepsLedgers ==
  ASSUME UnitInv, Settle
  PROVE  LedgersAgree'
<1> USE DEF UnitInv, SameWork
<1>1. /\ job.phase = "settle" /\ Running /\ Arrived /\ UNCHANGED <<kind, hub, place, part>>
      /\ spell'.exact = (spell.exact \/ job.mode = "recount")
      /\ local'.ledger = local.ledger /\ local'.langs = local.langs
      /\ SameWork /\ job'.batch = <<>>
      /\ job'.committed = job.committed + Len(job.batch) /\ job'.rows = job.rows + Len(job.batch)
      /\ job'.langs = job.langs /\ job'.phase \in {"work", "repair", "final", "exit"}
  BY SettleFields
<1>2. /\ Batched' = {} /\ Pending' = {} /\ Pending = (IF job.mode = "publish" THEN Batched ELSE {}) /\ UnderWay' = UnderWay /\ Running'
      /\ Batched \in SUBSET Parts /\ hub.parts \in SUBSET Parts
      /\ hub'.parts \union Pending' = hub.parts /\ hub'.parts \ Batched' = hub.parts
  <2>1. Batched' = {}
    BY <1>1 DEF Batched, ToSet
  <2> QED BY <2>1, <1>1, BatchNow, StateFields DEF Pending, UnderWay, Running
<1>3. job.mode = "recount" => kind # "news" /\ ~UnderWay'
  BY <1>2 DEF PhasesFit, UnderWay
<1>4. ASSUME spell.exact
      PROVE  HubCounts' /\ FileCounts' /\ (UnderWay => CommitterCounts')
  <2>1. HubCounts /\ FileCounts /\ (UnderWay => CommitterCounts)
    BY <1>1, <1>4 DEF LedgersAgree
  <2>2. HubCounts'
    BY <2>1, <1>1 DEF HubCounts, Counts
  <2>3. hub.parts \union Pending = hub.parts
    <3>1. CASE job.mode = "publish"
      <4>1. UnderWay
        BY <3>1, <1>1 DEF UnderWay
      <4> QED BY <4>1, <1>1, <1>2 DEF PartsApart
    <3>2. CASE job.mode # "publish"
      BY <3>2, <1>2
    <3> QED BY <3>1, <3>2
  <2>4. FileCounts'
    BY <2>1, <2>3, <1>1, <1>2 DEF FileCounts, Counts
  <2>5. ASSUME UnderWay PROVE CommitterCounts'
    <3>1. CommitterCounts /\ Cardinality(Batched) = Len(job.batch) /\ Batched \subseteq hub.parts
      BY <2>1, <2>5, <1>1 DEF PartsApart
    <3>2. Cardinality(hub.parts) = Cardinality(hub.parts \ Batched) + Len(job.batch)
      <4> DEFINE rest == hub.parts \ Batched
      <4>1. rest \in SUBSET Parts /\ rest \intersect Batched = {} /\ hub.parts = rest \union Batched
        BY <3>1, <1>2
      <4> HIDE DEF rest
      <4>2. Cardinality(hub.parts) = Cardinality(rest) + Cardinality(Batched)
        BY <4>1, <1>2, Disjoint
      <4> QED BY <4>2, <3>1 DEF rest
    <3>3. job'.rows = Cardinality(hub'.parts \ Batched')
      BY <3>1, <3>2, <1>1, <1>2 DEF CommitterCounts
    <3> QED BY <3>1, <3>3, <1>1 DEF CommitterCounts
  <2> QED BY <2>1, <2>2, <2>4, <2>5, <1>1
<1>5. ASSUME job.mode = "recount" PROVE HubCounts' /\ FileCounts'
  <2>1. Counts(local.ledger, Cardinality(hub.parts)) /\ hub.ledger = local.ledger
    BY <1>1, <1>5 DEF LedgersAgree
  <2> QED BY <2>1, <1>1, <1>2, <1>3, <1>5 DEF HubCounts, FileCounts, Counts
<1>6. \A ledger \in {hub'.ledger, local'.ledger} : ledger.known \/ ledger = NoLedger
  BY <1>1 DEF LedgersAgree
<1> QED BY <1>1, <1>2, <1>3, <1>4, <1>5, <1>6 DEF LedgersAgree

LEMMA SettleKeeps ==
  ASSUME UnitInv, Settle
  PROVE  UnitInv'
<1> USE DEF UnitInv, SameWork
<1>1. /\ job.phase = "settle" /\ Running /\ Arrived /\ UNCHANGED <<kind, hub, place, part>>
      /\ spell' \in Spells
      /\ local' \in Stagings /\ local'.ledger = local.ledger
      /\ local'.staged = local.staged \ Batched
      /\ job' \in Jobs /\ SameWork /\ job'.batch = <<>> /\ job'.fresh = job.fresh
      /\ job'.committed = job.committed + Len(job.batch)
      /\ job'.last = job.last /\ job'.cancelled = job.cancelled
      /\ job'.phase = (IF ~job.last THEN (IF job.mode = "repair" THEN "repair" ELSE "work")
                       ELSE IF job.mode = "publish" /\ job.batch # <<>> THEN "final" ELSE "exit")
  BY SettleFields
<1>2. /\ Batched' = {} /\ UnderWay' = UnderWay /\ Running' /\ ~Arrived' /\ Len(job'.batch) = 0
      /\ Busy' = Busy /\ InHand' = InHand /\ Batched \in SUBSET Parts /\ hub.parts \in SUBSET Parts
      /\ ~Footers /\ ~Footers' /\ Readers' = Readers /\ LetThrough' = LetThrough
  <2>1. Batched' = {} /\ job'.phase \in {"work", "repair", "final", "exit"}
    BY <1>1 DEF Batched, ToSet
  <2> QED BY <2>1, <1>1, BatchNow, StateFields
      DEF UnderWay, Running, Arrived, Busy, InHand, Footers, Readers, LetThrough
<1>3. UnitTyped'
  BY <1>1 DEF UnitTyped, Spells, Exits, Stagings
<1>4. job.last \/ (job.mode \in {"publish", "repair"} /\ job.batch # <<>>)
  BY <1>1 DEF PhasesFit
<1>5. PhasesFit'
  <2>1. /\ job'.phase \in {"work", "repair", "final", "exit"}
        /\ (job'.phase \in {"work", "final"} => job.mode = "publish")
        /\ (job'.phase = "repair" => job.mode = "repair" /\ ~job.last)
        /\ (job'.phase \in {"final", "exit"} => job.last) /\ job.mode # "none"
    BY <1>1, <1>4 DEF PhasesFit
  <2> QED BY <2>1, <1>1, <1>2, Sizes DEF PhasesFit
<1>6. PartsApart'
  BY <1>1, <1>2, FS_EmptySet DEF PartsApart
<1>7. StreamInOrder'
  <2>1. CASE ~(kind = "domains" /\ UnderWay)
    BY <2>1, <1>1, <1>2 DEF StreamInOrder
  <2>2. CASE kind = "domains" /\ UnderWay
    <3>1. /\ Batched \subseteq hub.parts /\ Batched \intersect job.feed = {}
          /\ Cardinality(Batched) = Len(job.batch)
          /\ Parts \ job.feed \subseteq hub.parts \union Batched
          /\ job.committed = Cardinality((Parts \ job.feed) \ Batched)
      BY <2>2, <1>1 DEF StreamInOrder, PartsApart
    <3>2. job'.committed = Cardinality((Parts \ job'.feed) \ Batched')
      <4> DEFINE passed == (Parts \ job.feed) \ Batched
      <4>1. /\ passed \in SUBSET Parts /\ passed \intersect Batched = {}
            /\ (Parts \ job'.feed) \ Batched' = passed \union Batched
        BY <3>1, <1>1, <1>2
      <4>2. job.committed = Cardinality(passed)
        BY <3>1
      <4> HIDE DEF passed
      <4>3. Cardinality(passed \union Batched) = Cardinality(passed) + Cardinality(Batched)
        BY <4>1, <1>2, Disjoint
      <4> QED BY <4>1, <4>2, <4>3, <3>1, <1>1
    <3>3. Parts \ job'.feed \subseteq hub'.parts \union Batched'
      BY <3>1, <1>1
    <3> QED BY <3>2, <3>3, <2>2, <1>1, <1>2 DEF StreamInOrder
  <2> QED BY <2>1, <2>2
<1>8. RunAccounts'
  <2>1. CASE ~(UnderWay /\ kind # "domains")
    BY <2>1, <1>1, <1>2 DEF RunAccounts
  <2>2. CASE UnderWay /\ kind # "domains"
    <3>1. Handled' = Handled
      BY <2>2, <1>1, <1>2 DEF Handled, PartsApart
    <3>2. job.batch # <<>> => job.fresh > 0
      BY <2>2, <1>1 DEF RunAccounts
    <3>3. job'.phase # "exit" => job'.fresh > 0
      BY <3>2, <1>1, <1>4
    <3>4. job'.phase = "exit" /\ job.fresh = 0 => job'.skipped + Cardinality(hub'.parts) = Total
      BY <2>2, <1>1 DEF RunAccounts
    <3>5. /\ job.fresh = Cardinality(hub.parts) - (Total - job.todo)
          /\ ~job.cancelled => job.skipped + Cardinality(Handled) = Total
          /\ ~job.cancelled /\ (\E w \in Projectors : place[w] = "gone") => job.feed = {}
      BY <2>2 DEF RunAccounts
    <3>6. job'.phase # "settle"
      BY <1>1
    <3> QED BY <3>1, <3>3, <3>4, <3>5, <3>6, <1>1, <1>2 DEF RunAccounts
  <2> QED BY <2>1, <2>2
<1>9. CompleteMeansWhole'
  BY <1>1 DEF CompleteMeansWhole
<1>10. DiskHolds' /\ FootersCount'
  <2>1. /\ Cardinality(local'.staged) <= Cardinality(local.staged)
        /\ Cardinality(local'.staged) \in Nat /\ Cardinality(local.staged) \in Nat
    <3>1. local.staged \in SUBSET Parts /\ local'.staged \subseteq local.staged
      BY <1>1, StateFields
    <3> QED BY <3>1, SubsetsAreFinite, FS_Subset
  <2>2. Cardinality(LetThrough) \in Nat /\ Cardinality(LetThrough') = Cardinality(LetThrough)
    BY <1>2, PoolIsFinite DEF LetThrough
  <2>3. job.left \in Nat
    BY StateFields, JobFields
  <2>4. ASSUME job.mode = "publish"
        PROVE  LET coming == Cardinality(local'.staged) + Cardinality(LetThrough')
               IN coming < Capacity + Cardinality(Projectors) \/ coming <= job'.left
    BY <2>1, <2>2, <2>3, <2>4, <1>1, Sizes DEF DiskHolds
  <2>5. local'.staged \ Batched' = local.staged \ Batched
    BY <1>1, <1>2
  <2>6. ASSUME job.mode \in {"repair", "recount"} PROVE Cardinality(local'.staged \ Batched') <= job'.left
    BY <2>5, <2>6, <1>1 DEF DiskHolds
  <2> QED BY <2>4, <2>6, <1>1, <1>2 DEF DiskHolds, FootersCount
<1> QED BY <1>3, <1>5, <1>6, <1>7, <1>8, <1>9, <1>10, SettleKeepsLedgers

(* ------------------------------ the invariant ----------------------------- *)
LEMMA UnitInitHolds ==
  ASSUME UnitInit
  PROVE  UnitInv
<1>1. /\ hub = [parts |-> {}, bad |-> {}, ledger |-> NoLedger, langs |-> 0]
      /\ local = [ledger |-> NoLedger, langs |-> 0, staged |-> {}] /\ kind \in Kinds
      /\ job = Idle /\ place = [w \in Projectors |-> "gone"] /\ part = [w \in Projectors |-> 0]
      /\ spell = [runs |-> 0, faults |-> 0, exact |-> TRUE, exit |-> "none"]
  BY DEF UnitInit
<1>2. /\ Idle \in Jobs /\ job.mode = "none" /\ job.phase = "down" /\ job.batch = <<>>
      /\ job.skipped = 0 /\ job.landed = FALSE /\ ~UnderWay /\ ~Running /\ job.last = FALSE
  BY <1>1, IdleFields DEF UnderWay, Running
<1>3. UnitTyped
  BY <1>1, <1>2, NoLedgerTyped DEF UnitTyped
<1>4. Cardinality(hub.parts) = 0 /\ Cardinality(local.staged) = 0 /\ Busy = {}
      /\ \A w \in Projectors : place[w] = "gone"
  BY <1>1, FS_EmptySet DEF Busy
<1>5. PhasesFit
  BY <1>2, <1>4, Sizes DEF PhasesFit, Footers, Readers
<1>6. PartsApart /\ RunAccounts /\ StreamInOrder
  BY <1>1, <1>2 DEF PartsApart, RunAccounts, StreamInOrder
<1>7. LedgersAgree
  BY <1>1, <1>2, <1>4 DEF LedgersAgree, HubCounts, AtRestCounts, Counts, NoLedger
<1>8. CompleteMeansWhole
  BY <1>1 DEF CompleteMeansWhole, NoLedger
<1>9. DiskHolds /\ FootersCount
  BY <1>2 DEF DiskHolds, FootersCount, Footers
<1> QED BY <1>3, <1>5, <1>6, <1>7, <1>8, <1>9 DEF UnitInv

LEMMA WorkersKeep ==
  ASSUME UnitInv, NEW w \in Projectors, UnitWorker(w)
  PROVE  UnitInv'
<1>1. CASE Take(w)
  BY <1>1, TakeKeeps
<1>2. CASE waitForDiskFloor(w)
  <2>1. CASE Room
    BY <1>2, <2>1, CarryKeeps
  <2>2. CASE ~Room /\ job.cancelled
    BY <1>2, <2>2, LeaveKeeps
  <2>3. CASE ~Room /\ ~job.cancelled
    <3>1. Holds
      BY <1>2, <2>3 DEF waitForDiskFloor, Holds
    <3> QED BY <3>1, WaitsKeep
  <2> QED BY <2>1, <2>2, <2>3
<1>3. CASE Project(w) \/ Hangs(w)
  BY <1>3, CarryKeeps
<1>4. CASE Skip(w) \/ SendDropped(w)
  BY <1>4, LeaveKeeps
<1>5. CASE Send(w)
  BY <1>5, SendKeeps
<1>6. CASE HandOver(w)
  BY <1>6, HandOverKeeps
<1>7. CASE ReadFooter(w) \/ FooterFails(w) \/ FooterLeft(w)
  BY <1>7, ReadingKeeps
<1> QED BY <1>1, <1>2, <1>3, <1>4, <1>5, <1>6, <1>7 DEF UnitWorker

LEMMA MainKeeps ==
  ASSUME UnitInv, UnitMain
  PROVE  UnitInv'
<1>1. CASE publishURLCrawl \/ publishNewsMonth
  BY <1>1, PoolPlanKeeps
<1>2. CASE PublishDomains
  BY <1>2, StreamPlanKeeps
<1>3. CASE PlanFails \/ StreamFails \/ CommitFails \/ RepairFails \/ FeederStops \/ Exit
  BY <1>3, EndsKeep
<1>4. CASE Drained \/ StreamEnds
  BY <1>4, WorkEndsKeeps
<1>5. CASE StreamShard
  BY <1>5, StreamShardKeeps
<1>6. CASE StreamWaits \/ CommitRefused \/ CommitHangs \/ CommitTimesOut
  BY <1>6, WaitsKeep
<1>7. CASE WriteLedger
  BY <1>7, WriteLedgerKeeps
<1>8. CASE WriteLangs
  BY <1>8, WriteLangsKeeps
<1>9. CASE Commit \/ CommitUnanswered
  BY <1>9, LandsKeeps DEF Lands
<1>10. CASE Settle
  BY <1>10, SettleKeeps
<1>11. CASE NothingToRefresh
  BY <1>11, NothingToRefreshKeeps
<1>12. CASE recountURLCrawl \/ RecountDomainGraph
  BY <1>12, RecountStarts
<1>13. CASE VerifyURLCrawl
  BY <1>13, VerifyKeeps
<1>14. CASE sumPublishedTotals
  BY <1>14, SumKeeps, EndsKeep
<1>15. CASE repairURLShards
  BY <1>15, RepairShardKeeps
<1>16. CASE RepairEnds
  BY <1>16, RepairEndKeeps
<1> QED BY <1>1, <1>2, <1>3, <1>4, <1>5, <1>6, <1>7, <1>8, <1>9, <1>10, <1>11, <1>12, <1>13, <1>14,
           <1>15, <1>16 DEF UnitMain

LEMMA UnitStepHolds ==
  ASSUME UnitInv, [UnitNext]_unitVars
  PROVE  UnitInv'
<1>1. CASE \E mode \in {"publish", "recount", "repair"} : Start(mode)
  BY <1>1, StartKeeps
<1>2. CASE UnitMain
  BY <1>2, MainKeeps
<1>3. CASE \E w \in Projectors : UnitWorker(w)
  BY <1>3, WorkersKeep
<1>4. CASE UnitTick \/ CancelUnit
  BY <1>4, WaitsKeep
<1>5. CASE KillUnit
  BY <1>5, EndsKeep
<1>6. CASE NewMachine
  BY <1>6, NewMachineKeeps
<1>7. CASE Damage
  BY <1>7, DamageKeeps
<1>8. CASE UNCHANGED unitVars
  <2>1. Stutters
    BY <1>8 DEF Stutters
  <2> QED BY <2>1, WaitsKeep
<1> QED BY <1>1, <1>2, <1>3, <1>4, <1>5, <1>6, <1>7, <1>8 DEF UnitNext

\* Publishing a unit keeps its inductive invariant: a part is in one place, the
\* ledgers count what they are of, and what a run counted accounts for its parts.
THEOREM UnitInductive == UnitSpec => []UnitInv
<1>1. UnitInit => UnitInv
  BY UnitInitHolds
<1>2. UnitInv /\ [UnitNext]_unitVars => UnitInv'
  BY UnitStepHolds
<1> QED BY <1>1, <1>2, PTL DEF UnitSpec

\* A batch is at least as long as it has parts.
LEMMA BatchIsLonger ==
  ASSUME NEW b \in Seq(Parts)
  PROVE  Cardinality(ToSet(b)) <= Len(b)
<1>1. Len(b) \in Nat /\ DOMAIN b = 1 .. Len(b) /\ ToSet(b) = {b[i] : i \in 1 .. Len(b)}
  BY DEF ToSet
<1>2. IsFiniteSet(1 .. Len(b)) /\ Cardinality(1 .. Len(b)) = Len(b)
  BY <1>1, FS_Interval
<1> DEFINE at == [i \in 1 .. Len(b) |-> b[i]]
<1>3. at \in Surjection(1 .. Len(b), ToSet(b))
  BY <1>1 DEF Surjection
<1>4. Cardinality(ToSet(b)) <= Cardinality(1 .. Len(b))
  BY <1>2, <1>3, FS_Surjection
<1> QED BY <1>2, <1>4

LEMMA InvIsHonest ==
  ASSUME UnitInv
  PROVE  UnitIsHonest
<1> USE DEF UnitInv
<1>1. UnitTypeOK
  <2>1. /\ job.feed \in SUBSET Parts /\ job.mode \in Modes /\ job.phase \in Phases
        /\ job.quiet \in 0 .. MaxStall /\ Batched \in SUBSET Parts
        /\ \A l \in {hub.ledger, local.ledger} : l.shards \in Nat /\ l.rows \in Nat
    BY StateFields, JobFields, LedgerFields, BatchNow
  <2>2. Len(job.batch) <= CommitEvery
    BY DEF PhasesFit
  <2> QED BY <2>1, <2>2, StateFields DEF UnitTyped, UnitTypeOK, Modes, Phases, Batched
<1>2. LedgerMatchesHub
  BY DEF LedgersAgree, HubCounts, Counts, LedgerMatchesHub
<1>3. DiskStaysFlat
  <2> DEFINE waiting == local.staged \intersect Batched
  <2>1. /\ Cardinality(LetThrough) \in Nat /\ Cardinality(local.staged) \in Nat
        /\ Cardinality(local.staged \ Batched) \in Nat /\ Cardinality(waiting) \in Nat
        /\ IsFiniteSet(Batched) /\ job.left \in Nat /\ Len(job.batch) \in Nat
        /\ local.staged \in SUBSET Parts /\ Batched \in SUBSET Parts
    BY PoolIsFinite, SubsetsAreFinite, StateFields, JobFields, BatchNow DEF LetThrough
  <2>2. Cardinality(local.staged) = Cardinality(local.staged \ Batched) + Cardinality(waiting)
    <3>1. local.staged = (local.staged \ Batched) \union waiting
      OBVIOUS
    <3>2. (local.staged \ Batched) \intersect waiting = {}
      OBVIOUS
    <3>3. local.staged \ Batched \in SUBSET Parts /\ waiting \in SUBSET Parts
      BY <2>1
    <3>4. Cardinality((local.staged \ Batched) \union waiting)
            = Cardinality(local.staged \ Batched) + Cardinality(waiting)
      BY <3>2, <3>3, Disjoint
    <3> QED BY <3>1, <3>4
  <2>3. Cardinality(waiting) <= Len(job.batch)
    <3>1. Cardinality(waiting) <= Cardinality(Batched)
      BY <2>1, FS_Subset
    <3>2. Cardinality(Batched) <= Len(job.batch)
      BY StateFields, JobFields, BatchIsLonger DEF Batched
    <3> QED BY <3>1, <3>2, <2>1, BatchNow
  <2>4. job.mode = "recount" => Len(job.batch) = 0
    BY DEF PhasesFit
  <2>5. Len(job.batch) <= CommitEvery
    BY DEF PhasesFit
  <2>6. ASSUME job.mode = "publish"
        PROVE  \/ Cardinality(local.staged) < Capacity + Cardinality(Projectors)
               \/ Cardinality(local.staged) <= job.left
    BY <2>1, <2>6, Sizes DEF DiskHolds
  <2>7. ASSUME job.mode \in {"repair", "recount"}
        PROVE  Cardinality(local.staged) <= job.left + Len(job.batch)
    BY <2>1, <2>2, <2>3, <2>7 DEF DiskHolds
  <2> QED BY <2>1, <2>4, <2>5, <2>6, <2>7, Sizes DEF DiskStaysFlat
<1> QED BY <1>1, <1>2, <1>3 DEF UnitIsHonest

\* For any number of parts, workers, runs and faults: the totals on the hub are
\* those of its shards as long as the ledger could be carried through, a release
\* that says complete is whole, a run that publishes brings to the disk only what
\* there is room for, a repair a batch more than it found, and a recount nothing.
THEOREM UnitStaysHonest == UnitSpec => []UnitIsHonest
<1>1. UnitInv => UnitIsHonest
  BY InvIsHonest
<1> QED BY <1>1, UnitInductive, PTL

(* ------------------------------ the exit code ----------------------------- *)
Honest == SuccessMeansWhole /\ RetryMeansProgress

\* A process that goes on does not exit.
LEMMA GoingOnIsHonest ==
  ASSUME UnitInv, UnitInv', Running => job'.mode = job.mode
  PROVE  Honest
BY DEF UnitInv, PhasesFit, Running, Honest, SuccessMeansWhole, RetryMeansProgress

LEMMA ExitOf ==
  ASSUME UnitTyped, NEW exit, NEW faults, Over(exit, faults)
  PROVE  spell'.exit = exit
BY StateFields DEF Over, Spells

\* The steps that fail, or kill, the process.
RecountFails == FeederStops \/ (sumPublishedTotals /\ job.failed)
Dies == PlanFails \/ StreamFails \/ CommitFails \/ RepairFails \/ RecountFails \/ KillUnit

\* A run that failed or was killed says so.
LEMMA FailuresAreHonest ==
  ASSUME UnitInv, Dies
  PROVE  Honest
<1>1. \E exit \in {"error", "stall", "killed"} : \E faults : Over(exit, faults)
  BY DEF Dies, RecountFails, PlanFails, StreamFails, CommitFails, RepairFails, FeederStops,
         sumPublishedTotals, Summed, KillUnit, Fails
<1>2. spell'.exit \in {"error", "stall", "killed"}
  BY <1>1, ExitOf DEF UnitInv
<1> QED BY <1>2 DEF Honest, SuccessMeansWhole, RetryMeansProgress

\* At the end nothing is left to hand out, in hand or in the batch.
LEMMA AtTheEnd ==
  ASSUME UnitInv, job.phase = "exit", job.mode = "publish"
  PROVE  /\ UnderWay
         /\ kind = "domains" => hub.parts = Parts
         /\ kind # "domains" =>
              /\ job.fresh = Cardinality(hub.parts) - (Total - job.todo)
              /\ ~job.cancelled \/ job.fresh = 0 => job.skipped + Cardinality(hub.parts) = Total
<1> USE DEF UnitInv
<1>1. UnderWay /\ job.last /\ Batched = {} /\ \A w \in Projectors : place[w] = "gone"
  <2>1. UnderWay /\ job.last /\ job.batch = <<>>
    BY DEF PhasesFit, UnderWay
  <2> QED BY <2>1, BatchNow DEF PhasesFit
<1>2. kind = "domains" => hub.parts = Parts
  BY <1>1, StateFields DEF StreamInOrder
<1>3. ASSUME kind # "domains"
      PROVE  /\ job.fresh = Cardinality(hub.parts) - (Total - job.todo)
             /\ ~job.cancelled \/ job.fresh = 0 => job.skipped + Cardinality(hub.parts) = Total
  <2>1. PICK w \in Projectors : TRUE
    BY UnitAssumption
  <2>2. ~job.cancelled => job.feed = {} /\ job.skipped + Cardinality(Handled) = Total
    BY <2>1, <1>1, <1>3 DEF RunAccounts
  <2>3. InHand = {}
    BY <1>1 DEF InHand, Busy
  <2>4. ~job.cancelled => Handled = hub.parts
    BY <2>2, <2>3, <1>1 DEF Handled
  <2> QED BY <2>2, <2>4, <1>1, <1>3 DEF RunAccounts
<1> QED BY <1>1, <1>2, <1>3

LEMMA ExitTells ==
  ASSUME UnitInv, Exit
  PROVE  Honest
<1> USE DEF UnitInv
<1>1. /\ job.phase = "exit"
      /\ spell'.exit = (IF job.stalled THEN "stall" ELSE IF incompleteAction THEN "incomplete" ELSE "ok")
  BY ExitOf DEF Exit
<1>2. /\ job.skipped \in Nat /\ job.fresh \in Nat /\ job.todo \in Int /\ Total \in Nat
      /\ Cardinality(hub.parts) \in Nat /\ (Cardinality(hub.parts) = Total => hub.parts = Parts)
  BY StateFields, JobFields, Sizes, SubsetsAreFinite
<1>3. SuccessMeansWhole
  <2>1. SUFFICES ASSUME job.mode = "publish", spell'.exit = "ok", ~job.cancelled
                 PROVE  hub.parts = Parts \/ (job.fresh = 0 /\ job.skipped > 0)
    BY DEF SuccessMeansWhole
  <2>2. job.skipped = 0 \/ job.todo - job.skipped <= 0
    BY <2>1, <1>1, <1>2 DEF incompleteAction
  <2>3. CASE kind = "domains"
    BY <2>1, <2>3, <1>1, AtTheEnd
  <2>4. CASE kind # "domains"
    <3>1. /\ job.fresh = Cardinality(hub.parts) - (Total - job.todo)
          /\ job.skipped + Cardinality(hub.parts) = Total
      BY <2>1, <2>4, <1>1, AtTheEnd
    <3> QED BY <3>1, <2>2, <1>2
  <2> QED BY <2>3, <2>4
<1>4. RetryMeansProgress
  <2>1. SUFFICES ASSUME Running, spell'.exit = "incomplete"
                 PROVE  job.fresh > 0
    BY DEF RetryMeansProgress
  <2>2. job.skipped > 0 /\ job.todo - job.skipped > 0
    BY <2>1, <1>1 DEF incompleteAction
  <2>3. job.mode = "publish" /\ kind # "domains"
    BY <2>2, <1>2 DEF PhasesFit, UnderWay
  <2>4. /\ job.fresh = Cardinality(hub.parts) - (Total - job.todo)
        /\ job.fresh = 0 => job.skipped + Cardinality(hub.parts) = Total
    BY <2>3, <1>1, AtTheEnd
  <2> QED BY <2>2, <2>4, <1>2
<1> QED BY <1>3, <1>4 DEF Honest

\* What the other steps leave alone.
LEMMA ModeStays ==
  ASSUME UnitInv, Running, [UnitNext]_unitVars,
         ~(Dies \/ Exit \/ PublishDomains)
  PROVE  job'.mode = job.mode
<1>0. job \in Jobs
  BY StateFields DEF UnitInv
<1> USE <1>0 DEF Jobs
<1>1. CASE \E mode \in {"publish", "recount", "repair"} : Start(mode)
  BY <1>1 DEF Start
<1>2. CASE NewMachine \/ Damage
  BY <1>2 DEF NewMachine, Damage
<1>3. CASE \E w \in Projectors : UnitWorker(w)
  <2>1. PICK w \in Projectors : UnitWorker(w)
    BY <1>3
  <2>2. CASE Send(w)
    <3>1. part[w] \in Parts
      BY <2>2 DEF Send, UnitInv, PhasesFit, Busy
    <3> QED BY <3>1, <2>2, AddedFields DEF Send, UnitInv
  <2>3. CASE Take(w) \/ waitForDiskFloor(w) \/ Project(w) \/ Skip(w) \/ Hangs(w) \/ SendDropped(w)
    BY <2>3 DEF Take, waitForDiskFloor, FloorMarks, Project, Skip, Hangs, SendDropped
  <2>4. CASE HandOver(w) \/ ReadFooter(w) \/ FooterFails(w) \/ FooterLeft(w)
    BY <2>4 DEF HandOver, ReadFooter, FooterFails, FooterLeft
  <2> QED BY <2>1, <2>2, <2>3, <2>4 DEF UnitWorker
<1>4. CASE UnitTick \/ CancelUnit \/ UNCHANGED unitVars
  BY <1>4 DEF UnitTick, CancelUnit, unitVars
<1>5. CASE publishURLCrawl \/ publishNewsMonth
  <2>1. \/ job' = Continued(PathsExist)
        \/ job' = [Continued(PathsExist) EXCEPT !.langs = local.langs]
    BY <1>5 DEF publishURLCrawl, publishNewsMonth
  <2>2. Continued(PathsExist) \in Jobs /\ Continued(PathsExist).mode = job.mode
    BY StateFields, ContinuedFields DEF PathsExist, UnitInv
  <2> QED BY <2>1, <2>2
<1>6. CASE StreamShard
  <2>1. PICK p \in Parts : \/ job' = [job EXCEPT !.feed = @ \ {p}, !.committed = @ + 1]
                           \/ job' = [Added(p) EXCEPT !.feed = @ \ {p}]
    BY <1>6 DEF StreamShard
  <2>2. Added(p) \in Jobs /\ Added(p).mode = job.mode
    BY AddedFields DEF UnitInv
  <2> QED BY <2>1, <2>2
<1>7. CASE Drained \/ StreamEnds \/ StreamWaits \/ WriteLedger \/ WriteLangs \/ NothingToRefresh
  BY <1>7 DEF Drained, StreamEnds, StreamWaits, FloorMarks, WriteLedger, WriteLangs, NothingToRefresh, To
<1>8. CASE Commit \/ CommitUnanswered
  BY <1>8, LandsFields DEF Lands, SameWork
<1>9. CASE CommitRefused \/ CommitHangs \/ CommitTimesOut
  BY <1>9 DEF CommitRefused, CommitHangs, CommitTimesOut
<1>10. CASE Settle
  BY <1>10, SettleFields DEF SameWork
<1>11. CASE recountURLCrawl \/ RecountDomainGraph
  BY <1>11 DEF recountURLCrawl, RecountDomainGraph, Recount, Plans, To
<1>12. CASE sumPublishedTotals /\ ~job.failed
  BY <1>12 DEF sumPublishedTotals, Summed, RowIsWritten
<1>13. CASE VerifyURLCrawl \/ RepairEnds
  BY <1>13 DEF VerifyURLCrawl, RepairEnds
<1>14. CASE repairURLShards
  <2>1. PICK p \in Parts : job' = Repaired(p)
    BY <1>14 DEF repairURLShards
  <2>2. Added(p) \in Jobs /\ Added(p).mode = job.mode
    BY AddedFields DEF UnitInv
  <2> QED BY <2>1, <2>2 DEF Repaired
<1> QED
  BY <1>1, <1>2, <1>3, <1>4, <1>5, <1>6, <1>7, <1>8, <1>9, <1>10, <1>11, <1>12, <1>13, <1>14
  DEF UnitNext, UnitMain, Dies, RecountFails

LEMMA UnitStepIsHonest ==
  ASSUME UnitInv, UnitInv', [UnitNext]_unitVars
  PROVE  Honest
<1> USE DEF UnitInv
<1>1. CASE Dies
  BY <1>1, FailuresAreHonest
<1>2. CASE Exit
  BY <1>2, ExitTells
<1>3. CASE PublishDomains
  <2>1. kind = "domains"
    BY <1>3 DEF PublishDomains, Planning, Plans
  <2>2. CASE LeftAlone
    <3>1. spell'.exit = "ok" /\ hub.parts = Parts
      BY <1>3, <2>1, <2>2, ExitOf DEF PublishDomains, LeftAlone, CompleteMeansWhole
    <3> QED BY <3>1 DEF Honest, SuccessMeansWhole, RetryMeansProgress
  <2>3. CASE ~LeftAlone
    <3>1. job' = [Continued({}) EXCEPT !.committed = 0, !.todo = Cardinality(Parts \ hub.parts)]
      BY <1>3, <2>3 DEF PublishDomains
    <3>2. Continued({}) \in Jobs /\ Continued({}).mode = job.mode
      BY ContinuedFields
    <3>3. job'.mode = job.mode
      BY <3>1, <3>2 DEF Jobs
    <3> QED BY <3>3, GoingOnIsHonest
  <2> QED BY <2>2, <2>3
<1>4. CASE ~(Dies \/ Exit \/ PublishDomains)
  BY <1>4, ModeStays, GoingOnIsHonest
<1> QED BY <1>1, <1>2, <1>3, <1>4

\* The exit code of a run: success means that the unit is whole, or that nothing
\* was achieved and the rest given up; a request for another run means progress.
THEOREM ExitStaysHonest == UnitSpec => ExitIsHonest
<1>1. UnitInv /\ UnitInv' /\ [UnitNext]_unitVars => [SuccessMeansWhole /\ RetryMeansProgress]_unitVars
  BY UnitStepIsHonest DEF Honest
<1> QED BY <1>1, UnitInductive, PTL DEF UnitSpec, ExitIsHonest
=============================================================================
