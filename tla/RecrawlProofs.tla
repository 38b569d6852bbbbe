---------------------------- MODULE RecrawlProofs ----------------------------
(***************************************************************************)
(* Proofs about the recrawl engine, for every work list, pool, number of   *)
(* writers, and combination of faults.  First facts about minima and the   *)
(* positions computed from them; then type correctness, and the inductive  *)
(* invariant of RecrawlInvariant in the four groups its parts depend on    *)
(* each other in: the places items are in, the rows accounted for, what is *)
(* in flight until a first row is retired, and the order of positions.     *)
(* The results a reader is after are the theorems.                         *)
(***************************************************************************)
EXTENDS RecrawlInvariant, TLAPS, FiniteSetTheorems, WellFoundedInduction

LEMMA LessThanIsWellFounded ==
  IsWellFoundedOn({ss \in Nat \X Nat : ss[1] < ss[2]}, Nat)
<1>1. OpToRel(<, Nat) = {ss \in Nat \X Nat : ss[1] < ss[2]}
  BY DEF OpToRel
<1> QED BY <1>1, NatLessThanWellFounded

LEMMA MinIsLeast ==
  ASSUME NEW S \in SUBSET Nat, S # {}
  PROVE  Min(S) \in S /\ \A y \in S : Min(S) <= y
<1> DEFINE R == {ss \in Nat \X Nat : ss[1] < ss[2]}
<1>1. PICK x \in S : \A y \in S : <<y, x>> \notin R
  <2> IsWellFoundedOn(R, Nat) BY LessThanIsWellFounded
  <2> HIDE DEF R
  <2> QED BY WFMin
<1>2. \A y \in S : ~ (y < x)
  BY <1>1
<1>3. \A y \in S : x <= y
  BY <1>2
<1> QED BY <1>3 DEF Min

LEMMA MaxOfTwo ==
  ASSUME NEW a \in Nat, NEW b \in Nat
  PROVE  /\ Max({a, b}) \in {a, b}
         /\ Max({a, b}) >= a /\ Max({a, b}) >= b
  BY DEF Max

LEMMA WorkersCount == Cardinality(Workers) \in Nat
  BY RecrawlAssumption, FS_CardinalityType

LEMMA ReadEndInRange ==
  ASSUME NEW i \in 0 .. N
  PROVE  /\ ReadEnd(i) \in i .. N
         /\ Cardinality(Owned \cap (i .. ReadEnd(i) - 1)) < Batch => ReadEnd(i) = N
<1> DEFINE Full(e) == Cardinality(Owned \cap (i .. e - 1)) = Batch
           S == {N} \cup {e \in i .. N : Full(e)}
<1>1. N \in Nat /\ Batch \in Nat
  BY RecrawlAssumption
<1>2. S \in SUBSET Nat /\ S # {} /\ S \subseteq i .. N /\ ReadEnd(i) = Min(S)
  BY <1>1 DEF ReadEnd
<1>3. Min(S) \in S
  BY <1>2, MinIsLeast
<1>4. ReadEnd(i) \in i .. N
  BY <1>2, <1>3
<1>5. ReadEnd(i) = N \/ Full(ReadEnd(i))
  BY <1>2, <1>3
<1> QED BY <1>1, <1>4, <1>5

LEMMA BoundaryInRange ==
  ASSUME wl \in Position, NEW e \in {wl.row, N} \cup Refills
  PROVE  e \in 0 .. N
<1>1. wl.row \in 0 .. N
  BY DEF Position
<1>2. N \in 0 .. N /\ Refills \subseteq 0 .. N
  BY RecrawlAssumption
<1> QED BY <1>1, <1>2

LEMMA MinOfTwo ==
  ASSUME NEW a \in Nat, NEW b \in Nat
  PROVE  Min({a, b}) \in {a, b} /\ Min({a, b}) <= a /\ Min({a, b}) <= b
  BY DEF Min

LEMMA SafePositionIsMin ==
  ASSUME TypeOK
  PROVE  /\ SafePosition \in 0 .. N
         /\ SafePosition \in {ReaderPosition} \cup FlightPositions
         /\ \A p \in {ReaderPosition} \cup FlightPositions : SafePosition <= p
         /\ held # {} => ReaderPosition \in held
         /\ \A r \in held : ReaderPosition <= r
<1>1. N \in Nat /\ Owned \subseteq 0 .. N - 1
  BY RecrawlAssumption
<1>2. wl.row \in 0 .. N /\ past \in 0 .. N /\ held \subseteq Owned /\ live \subseteq Items
  BY DEF TypeOK, Position
<1>3. LiveRows \subseteq Owned
  BY <1>2 DEF Items, LiveRows
<1>4. /\ ReaderPosition \in 0 .. N
      /\ held # {} => ReaderPosition \in held
      /\ \A r \in held : ReaderPosition <= r
  <2>1. CASE held = {}
    BY <1>2, <2>1 DEF ReaderPosition
  <2>2. CASE held # {}
    <3>1. held \in SUBSET Nat
      BY <1>1, <1>2
    <3>2. ReaderPosition \in held /\ \A r \in held : ReaderPosition <= r
      BY <2>2, <3>1, MinIsLeast DEF ReaderPosition
    <3> QED BY <1>1, <1>2, <3>2
  <2> QED BY <2>1, <2>2
<1>5. FlightPositions \subseteq 0 .. N
  <2>1. CASE live = {} BY <1>1, <1>2, <2>1 DEF FlightPositions
  <2>2. CASE live # {} BY <1>1, <1>3, <2>2 DEF FlightPositions
  <2> QED BY <2>1, <2>2
<1>6. /\ SafePosition \in {ReaderPosition} \cup FlightPositions
      /\ \A p \in {ReaderPosition} \cup FlightPositions : SafePosition <= p
  <2> DEFINE P == {ReaderPosition} \cup FlightPositions
  <2>1. P \in SUBSET Nat /\ P # {}
    BY <1>1, <1>4, <1>5
  <2> QED BY <2>1, MinIsLeast DEF SafePosition
<1> QED BY <1>4, <1>5, <1>6

LEMMA SafePositionIsLatest ==
  ASSUME TypeOK, HeldIsRead
  PROVE  /\ NoLater(SafePosition)
         /\ \A m \in Nat : NoLater(m) => m <= SafePosition
<1>1. wl.row \in Nat /\ held \subseteq Nat /\ N \in Nat
  BY RecrawlAssumption DEF TypeOK, Position
<1>2. ReaderPosition = wl.row \/ ReaderPosition \in held
  BY SafePositionIsMin DEF ReaderPosition
<1>3. ReaderPosition \in Nat /\ ReaderPosition <= wl.row
  <2>1. CASE ReaderPosition = wl.row BY <1>1, <2>1
  <2>2. CASE ReaderPosition \in held BY <1>1, <2>2 DEF HeldIsRead
  <2> QED BY <1>2, <2>1, <2>2
<1>4. SafePosition \in Nat /\ SafePosition <= ReaderPosition
  BY <1>1, SafePositionIsMin
<1>5. SafePosition <= wl.row /\ \A r \in held : SafePosition <= r
  BY <1>1, <1>3, <1>4, SafePositionIsMin
<1>6. \A it \in live : SafePosition <= it.row
  BY SafePositionIsMin DEF FlightPositions, LiveRows
<1>7. live = {} /\ past > 0 => SafePosition <= past
  BY SafePositionIsMin DEF FlightPositions
<1>8. ASSUME NEW m \in Nat, NoLater(m)
      PROVE  m <= SafePosition
  <2>1. m <= ReaderPosition
    BY <1>2, <1>8 DEF NoLater
  <2>2. \A p \in FlightPositions : m <= p
    BY <1>8 DEF NoLater, FlightPositions, LiveRows
  <2> QED BY <2>1, <2>2, SafePositionIsMin
<1> QED BY <1>5, <1>6, <1>7, <1>8 DEF NoLater

LEMMA RetiredTyped ==
  ASSUME TypeOK, NEW it \in Items, Retired(it)
  PROVE  /\ live' = live \ {it} /\ seq' = seq
         /\ past' \in 0 .. N /\ past' >= past /\ past' > it.row /\ past' > 0
<1>1. N \in Nat /\ Owned \subseteq 0 .. N - 1
  BY RecrawlAssumption
<1>2. it.row \in Owned /\ past \in 0 .. N
  BY DEF TypeOK, Items
<1>3. past' = Max({past, it.row + 1})
  BY DEF Retired
<1>4. it.row \in 0 .. N - 1
  BY <1>1, <1>2
<1>5. past \in Nat /\ it.row + 1 \in Nat
  BY <1>1, <1>2, <1>4
<1>6. past' \in {past, it.row + 1} /\ past' >= past /\ past' >= it.row + 1
  BY <1>3, <1>5, MaxOfTwo
<1>7. past' \in 0 .. N /\ past' > it.row /\ past' > 0
  BY <1>1, <1>2, <1>4, <1>6
<1> QED BY <1>6, <1>7 DEF Retired

-----------------------------------------------------------------------------
Typed == TypeOK /\ ItemsInPlace

\* The Boolean variables, apart: the provers do not mix them with arithmetic.
FlagsOK ==
  /\ walked \in BOOLEAN /\ full \in BOOLEAN
  /\ cancelled \in BOOLEAN /\ feedErr \in BOOLEAN

LEMMA TypedInit == Init => Typed
<1> SUFFICES ASSUME Init PROVE Typed
  OBVIOUS
<1>1. N \in Nat /\ Cardinality(Workers) \in Nat
  BY RecrawlAssumption, WorkersCount
<1>2. ck \in Position /\ mark \in Position /\ wl \in Position
  BY <1>1 DEF Init, Position
<1>3. work \in Seq(Items) /\ Len(work) <= Cardinality(Workers)
  BY <1>1 DEF Init
<1>4. wq \in [Parts -> Seq(Items)]
  BY DEF Init
<1>5. ItemsInPlace
  BY DEF Init, ItemsInPlace
<1>6. FlagsOK
  BY DEF Init, FlagsOK
<1> QED BY <1>1, <1>2, <1>3, <1>4, <1>5, <1>6
        DEF Init, Typed, TypeOK, FlagsOK, MainPlaces, PoolPlaces

LEMMA TypedFresh ==
  ASSUME TypeOK, Fresh, pc' \in {"down", "top"}, ck' \in Position,
         sealed' \subseteq Owned, passed' = passed, dropped' = dropped, runs' \in Nat
  PROVE  Typed'
<1>1. N \in Nat /\ Cardinality(Workers) \in Nat
  BY RecrawlAssumption, WorkersCount
<1>2. mark' \in Position /\ wl' \in Position
  BY DEF Fresh, TypeOK, Position
<1>3. work' \in Seq(Items) /\ Len(work') <= Cardinality(Workers)
  BY <1>1 DEF Fresh
<1>4. wq' \in [Parts -> Seq(Items)]
  BY DEF Fresh
<1>5. ItemsInPlace'
  BY DEF Fresh, ItemsInPlace
<1>6. FlagsOK'
  BY DEF Fresh, FlagsOK
<1> QED BY <1>1, <1>2, <1>3, <1>4, <1>5, <1>6
        DEF Fresh, Typed, TypeOK, FlagsOK, MainPlaces, PoolPlaces

LEMMA TypedStep == Typed /\ [Next]_vars => Typed'
<1> SUFFICES ASSUME Typed, [Next]_vars PROVE Typed'
  OBVIOUS
<1> USE DEF Typed, durable, history, reader, flight, pool, sink, flags, feeder
<1>1. N \in Nat /\ Owned \subseteq 0 .. N - 1 /\ Cardinality(Workers) \in Nat
  BY RecrawlAssumption, WorkersCount
<1>f. FlagsOK
  BY DEF TypeOK, FlagsOK
<1>2. CASE Start
  BY <1>2, TypedFresh DEF Start, TypeOK
<1>3. CASE Crash
  BY <1>3, TypedFresh DEF Crash, TypeOK
<1>4. CASE Cancel
  BY <1>4 DEF Cancel, TypeOK, ItemsInPlace
<1>5. CASE FeedTop
  BY <1>5 DEF FeedTop, TypeOK, ItemsInPlace, MainPlaces
<1>6. CASE FeedRead
  <2>1. wl.row \in 0 .. N
    BY DEF TypeOK, Position
  <2>2. ReadEnd(wl.row) \in wl.row .. N
    BY <2>1, ReadEndInRange
  <2>3. wl' \in Position
    BY <1>1, <1>6, <2>1, <2>2 DEF FeedRead, Position
  <2>4. held' \subseteq Owned
    BY <1>6 DEF FeedRead, TypeOK
  <2>5. FlagsOK'
    BY <1>6, <1>f DEF FeedRead, FlagsOK
  <2> QED BY <1>6, <2>3, <2>4, <2>5 DEF FeedRead, TypeOK, FlagsOK, ItemsInPlace
<1>7. CASE FeedReadFails
  <2>1. PICK e \in {wl.row, N} \cup Refills :
          /\ dropped' = dropped \cup (Owned \cap (wl.row .. e - 1))
          /\ wl' = [wl EXCEPT !.row = e]
    BY <1>7 DEF FeedReadFails, Boundaries
  <2>a. wl \in Position
    BY DEF TypeOK
  <2>b. e \in 0 .. N
    BY <2>1, <2>a, BoundaryInRange
  <2>2. wl' \in Position /\ dropped' \subseteq Owned
    BY <2>1, <2>b DEF TypeOK, Position
  <2>3. FlagsOK'
    BY <1>7, <1>f DEF FeedReadFails, FlagsOK
  <2> QED BY <1>7, <2>2, <2>3 DEF FeedReadFails, TypeOK, FlagsOK, ItemsInPlace, MainPlaces
<1>8. CASE FeedHandOut
  <2>1. PICK r \in held : held' = held \ {r} /\ hand' = [row |-> r, seq |-> seq]
    BY <1>8 DEF FeedHandOut
  <2>2. hand' \in Items /\ held' \subseteq Owned /\ live' \subseteq Items
    BY <1>8, <2>1 DEF FeedHandOut, TypeOK, Items
  <2>3. cur' \in Nat \ {0}
    BY <1>8 DEF FeedHandOut, TypeOK
  <2>4. seq' \in Nat
    BY <1>8 DEF FeedHandOut, TypeOK
  <2>5. FlagsOK'
    BY <1>8, <1>f DEF FeedHandOut, FlagsOK
  <2> QED BY <1>8, <2>2, <2>3, <2>4, <2>5
          DEF FeedHandOut, TypeOK, FlagsOK, ItemsInPlace, MainPlaces
<1>9. CASE FeedEnd
  BY <1>9 DEF FeedEnd, TypeOK, ItemsInPlace, MainPlaces
<1>10. CASE FeedSend
  BY <1>1, <1>10 DEF FeedSend, TypeOK, ItemsInPlace, MainPlaces
<1>11. CASE FeedSendStops
  BY <1>11 DEF FeedSendStops, TypeOK, ItemsInPlace, MainPlaces
<1>12. CASE CheckpointMark
  <2>1. mark' \in Position
    BY <1>12, SafePositionIsMin DEF CheckpointMark, Position
  <2> QED BY <1>12, <2>1 DEF CheckpointMark, TypeOK, ItemsInPlace, MainPlaces
<1>13. CASE CheckpointSync
  BY <1>13 DEF CheckpointSync, SealAll, OpenRows, TypeOK, ItemsInPlace, MainPlaces
<1>14. CASE CheckpointSyncFails
  BY <1>14 DEF CheckpointSyncFails, SealSome, TypeOK, ItemsInPlace, MainPlaces
<1>15. CASE CheckpointSave
  BY <1>15 DEF CheckpointSave, TypeOK, ItemsInPlace, MainPlaces
<1>16. CASE CheckpointSaveFails
  BY <1>16 DEF CheckpointSaveFails, TypeOK, ItemsInPlace, MainPlaces
<1>17. CASE AwaitPool
  BY <1>17 DEF AwaitPool, TypeOK, ItemsInPlace, MainPlaces
<1>18. CASE AwaitWriters
  BY <1>18 DEF AwaitWriters, TypeOK, ItemsInPlace, MainPlaces
<1>19. CASE Finish
  <2>1. mark' \in Position
    BY <1>19, SafePositionIsMin DEF Finish, Position
  <2> QED BY <1>19, <2>1
          DEF Finish, SealAll, OpenRows, TypeOK, ItemsInPlace, MainPlaces
<1>20. CASE FinishSyncFails
  BY <1>20 DEF FinishSyncFails, SealSome, TypeOK, ItemsInPlace, MainPlaces
<1>21. CASE FinishSave
  BY <1>21 DEF FinishSave, TypeOK, ItemsInPlace, MainPlaces
<1>22. CASE Close
  BY <1>22, TypedFresh DEF Close, TypeOK, OpenRows
<1>23. ASSUME NEW w \in Workers, Receive(w) PROVE Typed'
  <2>1. Head(work) \in Items /\ work' \in Seq(Items) /\ Len(work') <= Len(work)
    BY <1>23 DEF Receive, TypeOK
  <2>2. Len(work') <= Cardinality(Workers)
    BY <1>1, <2>1 DEF TypeOK
  <2>3. /\ at' \in [Workers -> PoolPlaces]
        /\ job' \in [Workers -> Items \cup {None}]
        /\ ItemsInPlace'
    BY <1>23, <2>1 DEF Receive, Goto, TypeOK, ItemsInPlace, PoolPlaces
  <2> QED BY <1>23, <2>1, <2>2, <2>3 DEF Receive, TypeOK
<1>24. ASSUME NEW w \in Workers, Exit(w) PROVE Typed'
  BY <1>24 DEF Exit, Goto, TypeOK, ItemsInPlace, PoolPlaces
<1>25. ASSUME NEW w \in Workers, Refuse(w) PROVE Typed'
  BY <1>25 DEF Refuse, Goto, TypeOK, ItemsInPlace, PoolPlaces
<1>26. ASSUME NEW w \in Workers, Abandon(w) PROVE Typed'
  BY <1>26 DEF Abandon, Leave, Goto, TypeOK, ItemsInPlace, PoolPlaces
<1>27. ASSUME NEW w \in Workers, Claim(w) PROVE Typed'
  <2>1. /\ at' \in [Workers -> PoolPlaces]
        /\ job' \in [Workers -> Items \cup {None}]
        /\ ItemsInPlace'
    BY <1>27 DEF Claim, Leave, Goto, TypeOK, ItemsInPlace, PoolPlaces
  <2>2. pages' \in Nat
    BY <1>27 DEF Claim, TypeOK
  <2>3. FlagsOK'
    BY <1>27, <1>f DEF Claim, FlagsOK
  <2> QED BY <1>27, <2>1, <2>2, <2>3 DEF Claim, TypeOK, FlagsOK
<1>28. ASSUME NEW w \in Workers, Fetched(w) PROVE Typed'
  BY <1>28 DEF Fetched, Goto, TypeOK, ItemsInPlace, PoolPlaces, Items
<1>29. ASSUME NEW w \in Workers, Queue(w) PROVE Typed'
  <2>1. /\ at' \in [Workers -> PoolPlaces]
        /\ job' \in [Workers -> Items \cup {None}]
        /\ ItemsInPlace'
    BY <1>29 DEF Queue, Leave, Goto, TypeOK, ItemsInPlace, PoolPlaces
  <2>2. job[w] \in Items
    BY <1>29 DEF Queue, ItemsInPlace
  <2>3. wq' \in [Parts -> Seq(Items)]
    <3> DEFINE p == job[w].seq % Writers
    <3>1. wq \in [Parts -> Seq(Items)] /\ wq' = [wq EXCEPT ![p] = Append(@, job[w])]
      BY <1>29 DEF Queue, TypeOK
    <3> HIDE DEF p
    <3>2. CASE p \in Parts BY <2>2, <3>1, <3>2
    <3>3. CASE p \notin Parts BY <3>1, <3>3
    <3> QED BY <3>2, <3>3
  <2> QED BY <1>29, <2>1, <2>3 DEF Queue, TypeOK
<1>30. ASSUME NEW w \in Workers, Report(w) PROVE Typed'
  BY <1>1, <1>30 DEF Report, Goto, TypeOK, ItemsInPlace, PoolPlaces
<1>31. ASSUME NEW w \in Workers, Retire(w) PROVE Typed'
  <2>1. job[w] \in Items /\ Retired(job[w])
    BY <1>31 DEF Retire, ItemsInPlace
  <2>2. live' \subseteq Items /\ past' \in 0 .. N /\ seq' \in Nat
    BY <2>1, RetiredTyped DEF TypeOK
  <2>3. passed' \subseteq Owned
    BY <1>31, <2>1 DEF Retire, TypeOK, Items
  <2> QED BY <1>31, <2>2, <2>3
          DEF Retire, Leave, Goto, TypeOK, ItemsInPlace, PoolPlaces
<1>32. ASSUME NEW p \in Parts, TakeJob(p) PROVE Typed'
  BY <1>32 DEF TakeJob, TypeOK, ItemsInPlace
<1>33. ASSUME NEW p \in Parts, WriteRow(p) PROVE Typed'
  BY <1>33 DEF WriteRow, TypeOK, ItemsInPlace, Items
<1>34. ASSUME NEW p \in Parts, WriteFails(p) PROVE Typed'
  <2>1. /\ errs \in 0 .. Cardinality(Workers)
        /\ errs' = Min({errs + 1, Cardinality(Workers)})
    BY <1>34 DEF WriteFails, TypeOK
  <2>2. errs' \in {errs + 1, Cardinality(Workers)} /\ errs' <= Cardinality(Workers)
    BY <1>1, <2>1, MinOfTwo
  <2>3. errs' \in 0 .. Cardinality(Workers)
    BY <1>1, <2>1, <2>2
  <2> QED BY <1>34, <2>3 DEF WriteFails, TypeOK, ItemsInPlace
<1>35. ASSUME NEW p \in Parts, RetireRow(p) PROVE Typed'
  <2>1. wjob[p] \in Items /\ Retired(wjob[p])
    BY <1>35 DEF RetireRow, ItemsInPlace
  <2>2. live' \subseteq Items /\ past' \in 0 .. N /\ seq' \in Nat
    BY <2>1, RetiredTyped DEF TypeOK
  <2> QED BY <1>35, <2>2 DEF RetireRow, TypeOK, ItemsInPlace
<1>36. CASE UNCHANGED vars
  BY <1>36 DEF vars, TypeOK, ItemsInPlace
<1> QED
  BY <1>2, <1>3, <1>4, <1>5, <1>6, <1>7, <1>8, <1>9, <1>10, <1>11, <1>12,
     <1>13, <1>14, <1>15, <1>16, <1>17, <1>18, <1>19, <1>20, <1>21, <1>22,
     <1>23, <1>24, <1>25, <1>26, <1>27, <1>28, <1>29, <1>30, <1>31, <1>32,
     <1>33, <1>34, <1>35, <1>36 DEF Next, Feed, Work, Write, Halted

\* Every variable keeps its type, and the channel to the pool and the error
\* channel stay within their buffers, for any pool, batch and number of writers.
THEOREM TypeCorrect == Spec => []TypeOK
<1>1. Init => Typed
  BY TypedInit
<1>2. Typed /\ [Next]_vars => Typed'
  BY TypedStep
<1>3. Typed => TypeOK
  BY DEF Typed
<1> QED BY <1>1, <1>2, <1>3, PTL DEF Spec
-----------------------------------------------------------------------------
\* The conjuncts of Inv that are about rows; the others are about positions.
RowsSafe ==
  /\ ReadRowsAccounted /\ WrittenBeforeRetired /\ MarkCovered
  /\ HeldIsRead /\ EndIsRead /\ ErrorEndsRun /\ DoneStops
  /\ OnlyDroppedRowsSkipped /\ DoneIsFinal

LEMMA RowsInit == Init => RowsSafe
<1> SUFFICES ASSUME Init PROVE RowsSafe
  OBVIOUS
<1>1. \A r \in Owned : ~ (r < 0)
  BY RecrawlAssumption
<1> QED BY <1>1 DEF Init, RowsSafe, ReadRowsAccounted, WrittenBeforeRetired,
             MarkCovered, HeldIsRead, EndIsRead, ErrorEndsRun, DoneStops,
             OnlyDroppedRowsSkipped, DoneIsFinal

\* A process that starts anew, or is gone, has nothing but the checkpoint to
\* answer for.
LEMMA RowsFresh ==
  ASSUME RowsSafe, Fresh, ck' = ck, Resting \subseteq Resting',
         pc' = "down" \/ (pc' = "top" /\ ~ck.done)
  PROVE  RowsSafe'
<1>1. OnlyDroppedRowsSkipped' /\ DoneIsFinal'
  BY DEF RowsSafe, OnlyDroppedRowsSkipped, DoneIsFinal, Resting
<1>2. ReadRowsAccounted'
  BY <1>1 DEF Fresh, ReadRowsAccounted, Accounted, Resting, OnlyDroppedRowsSkipped
<1>3. WrittenBeforeRetired' /\ MarkCovered' /\ HeldIsRead' /\ EndIsRead'
  BY DEF Fresh, WrittenBeforeRetired, MarkCovered, HeldIsRead, EndIsRead
<1>4. ErrorEndsRun' /\ DoneStops'
  BY DEF Fresh, ErrorEndsRun, DoneStops
<1> QED BY <1>1, <1>2, <1>3, <1>4 DEF RowsSafe

\* Most steps move neither a row nor a position, and only go on.
LEMMA RowsUnmoved ==
  ASSUME RowsSafe,
         UNCHANGED <<ck, sealed, passed, dropped, wl, held, live, open, mark,
                     wr, wjob, feedErr>>,
         \/ pc' = pc
         \/ /\ pc \in {"top", "fill", "send", "mark", "sync", "closed", "drain"}
            /\ pc' \in {"top", "fill", "send", "mark", "closed", "drain", "finish"}
            /\ feedErr => pc' \in {"closed", "drain"}
  PROVE  RowsSafe'
<1>1. ReadRowsAccounted'
  BY DEF RowsSafe, ReadRowsAccounted, Sound, Accounted, LiveRows, OpenRows,
         Resting, Settled
<1>2. WrittenBeforeRetired'
  BY DEF RowsSafe, WrittenBeforeRetired, Sound, OpenRows
<1>3. MarkCovered'
  BY DEF RowsSafe, MarkCovered, OpenRows, Resting, Settled
<1>4. HeldIsRead' /\ EndIsRead' /\ ErrorEndsRun' /\ DoneStops'
  BY DEF RowsSafe, HeldIsRead, EndIsRead, ErrorEndsRun, DoneStops
<1>5. OnlyDroppedRowsSkipped' /\ DoneIsFinal'
  BY DEF RowsSafe, OnlyDroppedRowsSkipped, DoneIsFinal, Settled
<1> QED BY <1>1, <1>2, <1>3, <1>4, <1>5 DEF RowsSafe

\* What the flight set and the buffer are for: rows behind the safe position
\* are with the sink at least, and all of them are at the end of the list.
LEMMA BehindSafePosition ==
  ASSUME Typed, RowsSafe, Sound
  PROVE  /\ \A r \in Owned : r < SafePosition => r \in OpenRows \cup Resting
         /\ wl.done /\ held = {} /\ live = {} => Owned \subseteq OpenRows \cup Resting
<1>1. N \in Nat /\ Owned \subseteq 0 .. N - 1 /\ wl.row \in 0 .. N
  BY RecrawlAssumption DEF Typed, TypeOK, Position
<1>2. \A r \in Owned : r < wl.row => r \in Accounted
  BY DEF RowsSafe, ReadRowsAccounted
<1>3. SafePosition \in 0 .. N /\ NoLater(SafePosition)
  BY SafePositionIsMin, SafePositionIsLatest DEF Typed, RowsSafe
<1>4. ASSUME NEW r \in Owned, r < SafePosition
      PROVE  r \in OpenRows \cup Resting
  <2>1. r \in 0 .. N - 1 /\ ~ (SafePosition <= r)
    BY <1>1, <1>3, <1>4
  <2>2. r < wl.row
    BY <1>1, <1>3, <1>4, <2>1 DEF NoLater
  <2>3. r \notin held /\ r \notin LiveRows
    BY <1>3, <2>1 DEF NoLater, LiveRows
  <2> QED BY <1>2, <2>2, <2>3 DEF Accounted
<1>5. ASSUME wl.done, held = {}, live = {}
      PROVE  Owned \subseteq OpenRows \cup Resting
  <2>1. \A r \in Owned : r < wl.row
    BY <1>1, <1>5 DEF RowsSafe, EndIsRead
  <2> QED BY <1>2, <1>5, <2>1 DEF Accounted, LiveRows
<1> QED BY <1>4, <1>5

LEMMA RowsStep == Typed /\ RowsSafe /\ [Next]_vars => RowsSafe'
<1> SUFFICES ASSUME Typed, RowsSafe, [Next]_vars PROVE RowsSafe'
  OBVIOUS
<1> USE DEF durable, history, reader, flight, pool, sink, flags, feeder
<1>1. N \in Nat /\ Owned \subseteq 0 .. N - 1
  BY RecrawlAssumption
<1>2. CASE Start
  BY <1>2, RowsFresh DEF Start, Resting, Settled
<1>3. CASE Crash
  BY <1>3, RowsFresh DEF Crash, Resting, Settled
<1>4. CASE Cancel
  BY <1>4, RowsUnmoved DEF Cancel
<1>5. CASE FeedTop
  BY <1>5, RowsUnmoved DEF FeedTop, RowsSafe, ErrorEndsRun
<1>6. CASE FeedRead
  <2> DEFINE end   == ReadEnd(wl.row)
             batch == Owned \cap (wl.row .. end - 1)
  <2>1. wl.row \in 0 .. N
    BY DEF Typed, TypeOK, Position
  <2>2. end \in wl.row .. N /\ (Cardinality(batch) < Batch => end = N)
    BY <2>1, ReadEndInRange
  <2>3. /\ wl' = [row |-> end, done |-> Cardinality(batch) < Batch]
        /\ held' = held \cup batch /\ pc = "fill"
        /\ UNCHANGED <<durable, history, flight, pool, sink, flags, feeder>>
    BY <1>6 DEF FeedRead
  <2> HIDE DEF end, batch
  <2>4. \A r \in Owned : r < end => r < wl.row \/ r \in batch
    BY <1>1, <2>1, <2>2 DEF batch
  <2>5. ReadRowsAccounted'
    BY <2>3, <2>4 DEF RowsSafe, ReadRowsAccounted, Sound, Accounted, LiveRows,
                      OpenRows, Resting, Settled
  <2>6. HeldIsRead'
    BY <1>1, <2>1, <2>2, <2>3 DEF RowsSafe, HeldIsRead, batch, Typed, TypeOK
  <2>7. EndIsRead'
    BY <2>2, <2>3 DEF EndIsRead
  <2> QED BY <2>3, <2>5, <2>6, <2>7
          DEF RowsSafe, WrittenBeforeRetired, Sound, OpenRows, MarkCovered,
              ErrorEndsRun, DoneStops, OnlyDroppedRowsSkipped, DoneIsFinal, Settled
<1>7. CASE FeedReadFails
  <2>1. PICK e \in {wl.row, N} \cup Refills :
          /\ e >= wl.row
          /\ dropped' = dropped \cup (Owned \cap (wl.row .. e - 1))
          /\ wl' = [wl EXCEPT !.row = e]
    BY <1>7 DEF FeedReadFails, Boundaries
  <2>2. /\ pc = "fill" /\ pc' = "closed"
        /\ UNCHANGED <<ck, sealed, passed, held, live, open, wr, wjob, mark>>
    BY <1>7 DEF FeedReadFails, Boundaries
  <2>a. wl \in Position
    BY DEF Typed, TypeOK
  <2>b. wl.row \in 0 .. N /\ e \in 0 .. N
    BY <2>1, <2>a, BoundaryInRange DEF Position
  <2>3. /\ wl \in Position /\ wl.row \in 0 .. N /\ e \in 0 .. N
        /\ wl'.row = e /\ wl'.done = wl.done
    BY <2>1, <2>a, <2>b DEF Position
  <2>4. \A r \in Owned : r < e => r < wl.row \/ r \in dropped'
    BY <1>1, <2>1, <2>3
  <2>5. ReadRowsAccounted'
    BY <2>1, <2>2, <2>3, <2>4
       DEF RowsSafe, ReadRowsAccounted, ErrorEndsRun, Sound, Accounted,
           LiveRows, OpenRows, Resting, Settled
  <2>6. HeldIsRead'
    BY <1>1, <2>1, <2>2, <2>3 DEF RowsSafe, HeldIsRead, Typed, TypeOK
  <2>7. EndIsRead'
    BY <1>1, <2>1, <2>3 DEF RowsSafe, EndIsRead
  <2> QED BY <2>1, <2>2, <2>5, <2>6, <2>7
          DEF RowsSafe, WrittenBeforeRetired, Sound, OpenRows, MarkCovered,
              ErrorEndsRun, DoneStops, OnlyDroppedRowsSkipped, DoneIsFinal, Settled
<1>8. CASE FeedHandOut
  <2>1. PICK r \in held : held' = held \ {r} /\ hand' = [row |-> r, seq |-> seq]
    BY <1>8 DEF FeedHandOut
  <2>2. /\ live' = live \cup {hand'} /\ pc = "fill" /\ pc' = "send"
        /\ UNCHANGED <<durable, history, wl, sink, flags, mark>>
    BY <1>8 DEF FeedHandOut
  <2>3. held \cup LiveRows \subseteq (held \cup LiveRows)'
    BY <2>1, <2>2 DEF LiveRows
  <2>4. ReadRowsAccounted'
    BY <2>2, <2>3 DEF RowsSafe, ReadRowsAccounted, Sound, Accounted, OpenRows,
                      Resting, Settled
  <2> QED BY <2>1, <2>2, <2>4
          DEF RowsSafe, WrittenBeforeRetired, Sound, OpenRows, MarkCovered,
              HeldIsRead, EndIsRead, ErrorEndsRun, DoneStops,
              OnlyDroppedRowsSkipped, DoneIsFinal, Settled
<1>9. CASE FeedEnd
  BY <1>9, RowsUnmoved DEF FeedEnd
<1>10. CASE FeedSend
  BY <1>10, RowsUnmoved DEF FeedSend, RowsSafe, ErrorEndsRun
<1>11. CASE FeedSendStops
  BY <1>11, RowsUnmoved DEF FeedSendStops
<1>12. CASE CheckpointMark
  <2>1. /\ mark' = [row |-> SafePosition, done |-> FALSE]
        /\ pc = "mark" /\ pc' = "sync"
        /\ UNCHANGED <<durable, history, reader, flight, sink, flags>>
    BY <1>12 DEF CheckpointMark
  <2>2. Sound
    BY <2>1 DEF RowsSafe, ErrorEndsRun, Sound
  <2>3. \A r \in Owned : r < SafePosition => r \in OpenRows \cup Resting
    BY <2>2, BehindSafePosition
  <2> QED BY <2>1, <2>3
          DEF RowsSafe, ReadRowsAccounted, Accounted, LiveRows, Resting,
              WrittenBeforeRetired, Sound, OpenRows, MarkCovered,
              HeldIsRead, EndIsRead, ErrorEndsRun, DoneStops,
              OnlyDroppedRowsSkipped, DoneIsFinal, Settled
<1>13. CASE CheckpointSync
  <2>1. /\ pc = "sync" /\ ~feedErr
        /\ UNCHANGED <<ck, history, reader, flight, pool, wr, wjob, flags, mark>>
    BY <1>13 DEF CheckpointSync, RowsSafe, ErrorEndsRun
  <2>2. CASE SomePartFull
    <3>1. SealAll /\ pc' = "save"
      BY <1>13, <2>2 DEF CheckpointSync
    <3>2. OpenRows \subseteq sealed' /\ sealed' = sealed \cup OpenRows
      BY <3>1 DEF SealAll
    <3> QED BY <2>1, <3>1, <3>2 DEF RowsSafe, ReadRowsAccounted, Sound, Accounted,
              LiveRows, Resting, Settled, WrittenBeforeRetired,
              MarkCovered, HeldIsRead, EndIsRead, ErrorEndsRun, DoneStops,
              OnlyDroppedRowsSkipped, DoneIsFinal
  <2>3. CASE ~SomePartFull /\ OpenRows = {}
    <3>1. pc' = "save" /\ UNCHANGED <<sealed, open>>
      BY <1>13, <2>3 DEF CheckpointSync
    <3> QED BY <2>1, <2>3, <3>1 DEF RowsSafe, ReadRowsAccounted, Sound, Accounted,
              LiveRows, OpenRows, Resting, Settled, WrittenBeforeRetired,
              MarkCovered, HeldIsRead, EndIsRead, ErrorEndsRun, DoneStops,
              OnlyDroppedRowsSkipped, DoneIsFinal
  <2>4. CASE ~SomePartFull /\ OpenRows # {}
    <3>1. pc' = "top" /\ UNCHANGED <<sealed, open>>
      BY <1>13, <2>4 DEF CheckpointSync
    <3> QED BY <2>1, <3>1, RowsUnmoved
  <2> QED BY <2>2, <2>3, <2>4
<1>14. CASE CheckpointSyncFails
  <2>1. /\ pc = "sync" /\ pc' = "closed" /\ feedErr' = TRUE
        /\ sealed \subseteq sealed'
        /\ UNCHANGED <<ck, history, reader>>
    BY <1>14 DEF CheckpointSyncFails, SealSome
  <2> QED BY <2>1 DEF RowsSafe, ReadRowsAccounted, Sound, Resting, Settled,
              WrittenBeforeRetired, MarkCovered, HeldIsRead, EndIsRead,
              ErrorEndsRun, DoneStops, OnlyDroppedRowsSkipped, DoneIsFinal
<1>15. CASE CheckpointSave
  <2>1. /\ pc = "save" /\ pc' = "top" /\ ck' = mark
        /\ UNCHANGED <<sealed, history, reader, flight, sink, flags, mark>>
    BY <1>15 DEF CheckpointSave
  <2>2. OnlyDroppedRowsSkipped' /\ DoneIsFinal' /\ DoneStops'
    BY <2>1 DEF RowsSafe, MarkCovered, OnlyDroppedRowsSkipped, DoneIsFinal,
                DoneStops, Resting, Settled
  <2> QED BY <2>1, <2>2 DEF RowsSafe, ReadRowsAccounted, Sound, Accounted,
              LiveRows, OpenRows, Resting, Settled, WrittenBeforeRetired,
              MarkCovered, HeldIsRead, EndIsRead, ErrorEndsRun
<1>16. CASE CheckpointSaveFails
  <2>1. /\ pc = "save" /\ pc' = "closed" /\ feedErr' = TRUE
        /\ UNCHANGED <<durable, history, reader>>
    BY <1>16 DEF CheckpointSaveFails
  <2> QED BY <2>1 DEF RowsSafe, ReadRowsAccounted, Sound, Resting, Settled,
              WrittenBeforeRetired, MarkCovered, HeldIsRead, EndIsRead,
              ErrorEndsRun, DoneStops, OnlyDroppedRowsSkipped, DoneIsFinal
<1>17. CASE AwaitPool
  BY <1>17, RowsUnmoved DEF AwaitPool
<1>18. CASE AwaitWriters
  <2>1. CASE errs > 0 \/ feedErr
    <3>1. pc = "drain" /\ pc' = "close"
          /\ UNCHANGED <<durable, history, reader, flight, sink, flags, mark>>
      BY <1>18, <2>1 DEF AwaitWriters
    <3> QED BY <3>1 DEF RowsSafe, ReadRowsAccounted, Sound, Resting, Settled,
              WrittenBeforeRetired, MarkCovered, HeldIsRead, EndIsRead,
              ErrorEndsRun, DoneStops, OnlyDroppedRowsSkipped, DoneIsFinal
  <2>2. CASE ~ (errs > 0 \/ feedErr)
    BY <1>18, <2>2, RowsUnmoved DEF AwaitWriters
  <2> QED BY <2>1, <2>2
<1>19. CASE Finish
  <2>1. /\ pc = "finish" /\ pc' = "fsave" /\ SealAll
        /\ mark' = [row |-> SafePosition, done |-> wl.done /\ held = {} /\ live = {}]
        /\ UNCHANGED <<ck, history, reader, flight, wr, wjob, flags>>
    BY <1>19 DEF Finish
  <2>2. Sound
    BY <2>1 DEF RowsSafe, ErrorEndsRun, Sound
  <2>3. sealed' = sealed \cup OpenRows
    BY <2>1 DEF SealAll
  <2>4. OpenRows \cup Resting \subseteq Resting'
    BY <2>1, <2>3 DEF Resting, Settled
  <2>5. MarkCovered'
    BY <2>1, <2>2, <2>4, BehindSafePosition DEF MarkCovered
  <2>6. ReadRowsAccounted'
    BY <2>1, <2>2, <2>4 DEF RowsSafe, ReadRowsAccounted, Accounted, LiveRows
  <2> QED BY <2>1, <2>2, <2>3, <2>4, <2>5, <2>6
          DEF RowsSafe, WrittenBeforeRetired, Sound, HeldIsRead, EndIsRead,
              ErrorEndsRun, DoneStops, OnlyDroppedRowsSkipped, DoneIsFinal, Resting
<1>20. CASE FinishSyncFails
  <2>1. /\ pc = "finish" /\ pc' = "close" /\ sealed \subseteq sealed'
        /\ UNCHANGED <<ck, history, reader, feedErr>>
    BY <1>20 DEF FinishSyncFails, SealSome
  <2> QED BY <2>1 DEF RowsSafe, ReadRowsAccounted, Sound, Resting, Settled,
              WrittenBeforeRetired, MarkCovered, HeldIsRead, EndIsRead,
              ErrorEndsRun, DoneStops, OnlyDroppedRowsSkipped, DoneIsFinal
<1>21. CASE FinishSave
  <2>1. /\ pc = "fsave" /\ pc' = "close" /\ (ck' = mark \/ ck' = ck)
        /\ UNCHANGED <<sealed, history, reader, feedErr>>
    BY <1>21 DEF FinishSave
  <2>2. OnlyDroppedRowsSkipped' /\ DoneIsFinal'
    BY <2>1 DEF RowsSafe, MarkCovered, OnlyDroppedRowsSkipped, DoneIsFinal,
                Resting, Settled
  <2> QED BY <2>1, <2>2 DEF RowsSafe, ReadRowsAccounted, Sound,
              WrittenBeforeRetired, MarkCovered, HeldIsRead, EndIsRead,
              ErrorEndsRun, DoneStops
<1>22. CASE Close
  BY <1>22, RowsFresh DEF Close, Resting, Settled
<1>23. ASSUME NEW w \in Workers,
              \/ Receive(w) \/ Exit(w) \/ Refuse(w) \/ Abandon(w) \/ Claim(w)
              \/ Fetched(w) \/ Queue(w) \/ Report(w)
       PROVE  RowsSafe'
  <2>1. UNCHANGED <<ck, sealed, passed, dropped, wl, held, live, open, mark,
                    wr, wjob, feedErr, pc>>
    BY <1>23 DEF Receive, Exit, Refuse, Abandon, Claim, Fetched, Queue, Report
  <2> QED BY <2>1, RowsUnmoved
<1>24. ASSUME NEW w \in Workers, Retire(w) PROVE RowsSafe'
  <2>1. /\ live' = live \ {job[w]} /\ passed' = passed \cup {job[w].row}
        /\ UNCHANGED <<durable, dropped, reader, sink, flags, feeder>>
    BY <1>24 DEF Retire, Retired
  <2>2. Resting \subseteq Resting' /\ Accounted \subseteq Accounted'
    BY <2>1 DEF Resting, Settled, Accounted, LiveRows, OpenRows
  <2> QED BY <2>1, <2>2
          DEF RowsSafe, ReadRowsAccounted, Sound, WrittenBeforeRetired, OpenRows,
              MarkCovered, HeldIsRead, EndIsRead, ErrorEndsRun, DoneStops,
              OnlyDroppedRowsSkipped, DoneIsFinal, Resting
<1>25. ASSUME NEW p \in Parts, TakeJob(p) \/ WriteFails(p) PROVE RowsSafe'
  <2>1. /\ wr' \in {[wr EXCEPT ![p] = "write"], [wr EXCEPT ![p] = "take"]}
        /\ \A q \in Parts : q # p => wjob'[q] = wjob[q]
        /\ UNCHANGED <<durable, history, reader, flight, open, feedErr, feeder>>
    BY <1>25 DEF TakeJob, WriteFails, Typed, TypeOK
  <2>2. wr'[p] # "retire" /\ \A q \in Parts : q # p => wr'[q] = wr[q]
    BY <2>1 DEF Typed, TypeOK
  <2>3. WrittenBeforeRetired'
    BY <2>1, <2>2 DEF RowsSafe, WrittenBeforeRetired, Sound, OpenRows
  <2> QED BY <2>1, <2>3
          DEF RowsSafe, ReadRowsAccounted, Sound, Accounted, LiveRows, OpenRows,
              Resting, Settled, MarkCovered, HeldIsRead, EndIsRead, ErrorEndsRun,
              DoneStops, OnlyDroppedRowsSkipped, DoneIsFinal
<1>26. ASSUME NEW p \in Parts, WriteRow(p) PROVE RowsSafe'
  <2>1. /\ open' = [open EXCEPT ![p] = @ \cup {wjob[p].row}]
        /\ wr' = [wr EXCEPT ![p] = "retire"]
        /\ UNCHANGED <<durable, history, reader, flight, wjob, flags, feeder>>
    BY <1>26 DEF WriteRow
  <2>2. OpenRows \subseteq OpenRows' /\ wjob[p].row \in OpenRows'
    BY <2>1 DEF OpenRows, Typed, TypeOK
  <2>3. WrittenBeforeRetired'
    BY <2>1, <2>2 DEF RowsSafe, WrittenBeforeRetired, Sound, Typed, TypeOK
  <2> QED BY <2>1, <2>2, <2>3
          DEF RowsSafe, ReadRowsAccounted, Sound, Accounted, LiveRows,
              Resting, Settled, MarkCovered, HeldIsRead, EndIsRead, ErrorEndsRun,
              DoneStops, OnlyDroppedRowsSkipped, DoneIsFinal
<1>27. ASSUME NEW p \in Parts, RetireRow(p) PROVE RowsSafe'
  <2>1. /\ live' = live \ {wjob[p]} /\ wr[p] = "retire"
        /\ wr' = [wr EXCEPT ![p] = "take"]
        /\ wjob' = [wjob EXCEPT ![p] = None]
        /\ UNCHANGED <<durable, history, reader, flags, feeder, open>>
    BY <1>27 DEF RetireRow, Retired
  <2>2. Sound => wjob[p].row \in OpenRows \cup sealed
    BY <2>1 DEF RowsSafe, WrittenBeforeRetired
  <2>3. Sound => Accounted \subseteq Accounted'
    BY <2>1, <2>2 DEF Accounted, Resting, Settled, LiveRows, OpenRows
  <2>4. ReadRowsAccounted'
    BY <2>1, <2>3 DEF RowsSafe, ReadRowsAccounted, Sound
  <2>5. WrittenBeforeRetired'
    BY <2>1 DEF RowsSafe, WrittenBeforeRetired, Sound, OpenRows, Typed, TypeOK
  <2> QED BY <2>1, <2>4, <2>5
          DEF RowsSafe, OpenRows, Resting, Settled, MarkCovered, HeldIsRead,
              EndIsRead, ErrorEndsRun, DoneStops, OnlyDroppedRowsSkipped, DoneIsFinal
<1>28. CASE UNCHANGED vars
  BY <1>28, RowsUnmoved DEF vars
<1> QED
  BY <1>2, <1>3, <1>4, <1>5, <1>6, <1>7, <1>8, <1>9, <1>10, <1>11, <1>12,
     <1>13, <1>14, <1>15, <1>16, <1>17, <1>18, <1>19, <1>20, <1>21, <1>22,
     <1>23, <1>24, <1>25, <1>26, <1>27, <1>28
     DEF Next, Feed, Work, Write, Halted
-----------------------------------------------------------------------------
\* Until a first item is retired nothing leaves the flight set.
LEMMA NothingRetiredInit == Init => NothingRetiredYet
  BY DEF Init, NothingRetiredYet

LEMMA NothingRetiredFresh == Fresh => NothingRetiredYet'
  BY DEF Fresh, NothingRetiredYet

LEMMA NothingRetiredUnmoved ==
  ASSUME NothingRetiredYet, UNCHANGED <<hand, work, job, wq, wjob, past>>,
         live \subseteq live'
  PROVE  NothingRetiredYet'
  BY DEF NothingRetiredYet

LEMMA NothingRetiredStep ==
  Typed /\ NothingRetiredYet /\ [Next]_vars => NothingRetiredYet'
<1> SUFFICES ASSUME Typed, NothingRetiredYet, [Next]_vars PROVE NothingRetiredYet'
  OBVIOUS
<1> USE DEF durable, history, reader, flight, pool, sink, flags, feeder
<1>1. CASE Start \/ Crash \/ Close
  BY <1>1, NothingRetiredFresh DEF Start, Crash, Close
<1>2. CASE \/ Cancel \/ FeedTop \/ FeedRead \/ FeedReadFails \/ FeedEnd
           \/ CheckpointMark \/ CheckpointSync \/ CheckpointSyncFails
           \/ CheckpointSave \/ CheckpointSaveFails \/ AwaitPool \/ AwaitWriters
           \/ Finish \/ FinishSyncFails \/ FinishSave \/ UNCHANGED vars
  <2>1. UNCHANGED <<hand, work, job, wq, wjob, past, live>>
    BY <1>2 DEF Cancel, FeedTop, FeedRead, FeedReadFails, FeedEnd,
         CheckpointMark, CheckpointSync, CheckpointSyncFails,
         CheckpointSave, CheckpointSaveFails, AwaitPool, AwaitWriters,
         Finish, FinishSyncFails, FinishSave, vars
  <2> QED BY <2>1, NothingRetiredUnmoved
<1>3. CASE FeedHandOut
  <2>1. live' = live \cup {hand'} /\ UNCHANGED <<work, job, wq, wjob, past>>
    BY <1>3 DEF FeedHandOut
  <2> QED BY <2>1 DEF NothingRetiredYet
<1>4. CASE FeedSend
  <2>1. /\ work' = Append(work, hand) /\ hand' = None /\ hand \in Items
        /\ UNCHANGED <<job, wq, wjob, past, live>>
    BY <1>4 DEF FeedSend, Typed, ItemsInPlace
  <2>2. ASSUME past = 0 PROVE \A i \in DOMAIN work' : work'[i] \in live
    <3>1. hand \in live /\ \A i \in DOMAIN work : work[i] \in live
      BY <2>1, <2>2, NoneAssumption DEF NothingRetiredYet
    <3> QED BY <2>1, <3>1 DEF Typed, TypeOK
  <2> QED BY <2>1, <2>2 DEF NothingRetiredYet
<1>5. CASE FeedSendStops
  BY <1>5 DEF FeedSendStops, NothingRetiredYet
<1>6. ASSUME NEW w \in Workers, Receive(w) PROVE NothingRetiredYet'
  <2>1. /\ work # <<>> /\ work' = Tail(work)
        /\ job' = job \/ job' = [job EXCEPT ![w] = Head(work)]
        /\ UNCHANGED <<hand, wq, wjob, past, live>>
    BY <1>6 DEF Receive
  <2>2. ASSUME past = 0
        PROVE  Head(work) \in live /\ \A i \in DOMAIN work' : work'[i] \in live
    BY <2>1, <2>2 DEF NothingRetiredYet, Typed, TypeOK
  <2> QED BY <2>1, <2>2 DEF NothingRetiredYet, Typed, TypeOK
<1>7. ASSUME NEW w \in Workers, Exit(w) \/ Refuse(w) \/ Fetched(w)
      PROVE  NothingRetiredYet'
  BY <1>7, NothingRetiredUnmoved DEF Exit, Refuse, Fetched
<1>8. ASSUME NEW w \in Workers, Abandon(w) \/ Claim(w) \/ Report(w)
      PROVE  NothingRetiredYet'
  <2>1. /\ job' = job \/ job' = [job EXCEPT ![w] = None]
        /\ UNCHANGED <<hand, work, wq, wjob, past, live>>
    BY <1>8 DEF Abandon, Claim, Report, Leave
  <2> QED BY <2>1 DEF NothingRetiredYet, Typed, TypeOK
<1>9. ASSUME NEW w \in Workers, Queue(w) PROVE NothingRetiredYet'
  <2> DEFINE p == job[w].seq % Writers
  <2>1. /\ wq' = [wq EXCEPT ![p] = Append(@, job[w])] /\ job[w] \in Items
        /\ job' = job \/ job' = [job EXCEPT ![w] = None]
        /\ UNCHANGED <<hand, work, wjob, past, live>>
    BY <1>9 DEF Queue, Leave, Typed, ItemsInPlace
  <2> HIDE DEF p
  <2>2. ASSUME past = 0
        PROVE  \A q \in Parts : \A i \in DOMAIN wq'[q] : wq'[q][i] \in live
    <3>1. job[w] \in live /\ \A q \in Parts : \A i \in DOMAIN wq[q] : wq[q][i] \in live
      BY <2>1, <2>2, NoneAssumption DEF NothingRetiredYet
    <3>2. wq \in [Parts -> Seq(Items)]
      BY DEF Typed, TypeOK
    <3>3. \A q \in Parts \ {p} : wq'[q] = wq[q]
      BY <2>1, <3>2
    <3>4. p \in Parts => wq'[p] = Append(wq[p], job[w])
      BY <2>1, <3>2
    <3> QED BY <2>1, <3>1, <3>2, <3>3, <3>4
  <2>3. past = 0 => \A v \in Workers : job'[v] \in live \cup {None}
    BY <2>1 DEF NothingRetiredYet, Typed, TypeOK
  <2> QED BY <2>1, <2>2, <2>3 DEF NothingRetiredYet
<1>10. ASSUME NEW w \in Workers, Retire(w) PROVE NothingRetiredYet'
  <2>1. job[w] \in Items /\ Retired(job[w])
    BY <1>10 DEF Retire, Typed, ItemsInPlace
  <2>2. past' # 0
    BY <2>1, RetiredTyped DEF Typed
  <2> QED BY <2>2 DEF NothingRetiredYet
<1>11. ASSUME NEW p \in Parts, TakeJob(p) PROVE NothingRetiredYet'
  <2>1. /\ wq[p] # <<>> /\ wjob' = [wjob EXCEPT ![p] = Head(wq[p])]
        /\ wq' = [wq EXCEPT ![p] = Tail(@)]
        /\ UNCHANGED <<hand, work, job, past, live>>
    BY <1>11 DEF TakeJob
  <2>2. wq \in [Parts -> Seq(Items)] /\ wjob \in [Parts -> Items \cup {None}]
    BY DEF Typed, TypeOK
  <2>3. /\ wq'[p] = Tail(wq[p]) /\ wjob'[p] = Head(wq[p])
        /\ \A q \in Parts \ {p} : wq'[q] = wq[q] /\ wjob'[q] = wjob[q]
    BY <2>1, <2>2
  <2>4. ASSUME past = 0
        PROVE  /\ Head(wq[p]) \in live
               /\ \A i \in DOMAIN Tail(wq[p]) : Tail(wq[p])[i] \in live
    BY <2>1, <2>2, <2>4 DEF NothingRetiredYet
  <2> QED BY <2>1, <2>3, <2>4 DEF NothingRetiredYet
<1>12. ASSUME NEW p \in Parts, WriteRow(p) PROVE NothingRetiredYet'
  BY <1>12, NothingRetiredUnmoved DEF WriteRow
<1>13. ASSUME NEW p \in Parts, WriteFails(p) PROVE NothingRetiredYet'
  <2>1. /\ wjob' = [wjob EXCEPT ![p] = None]
        /\ UNCHANGED <<hand, work, job, wq, past, live>>
    BY <1>13 DEF WriteFails
  <2> QED BY <2>1 DEF NothingRetiredYet, Typed, TypeOK
<1>14. ASSUME NEW p \in Parts, RetireRow(p) PROVE NothingRetiredYet'
  <2>1. wjob[p] \in Items /\ Retired(wjob[p])
    BY <1>14 DEF RetireRow, Typed, ItemsInPlace
  <2>2. past' # 0
    BY <2>1, RetiredTyped DEF Typed
  <2> QED BY <2>2 DEF NothingRetiredYet
<1> QED
  BY <1>1, <1>2, <1>3, <1>4, <1>5, <1>6, <1>7, <1>8, <1>9, <1>10, <1>11,
     <1>12, <1>13, <1>14 DEF Next, Feed, Work, Write, Halted
-----------------------------------------------------------------------------
LEMMA PositionsInit == Init => PositionsOrdered
  BY RecrawlAssumption DEF Init, PositionsOrdered, NoLater

LEMMA PositionsFresh ==
  ASSUME Typed, Fresh, ck' = ck, pc' \in {"down", "top"}
  PROVE  PositionsOrdered'
  BY DEF Fresh, PositionsOrdered, NoLater, Typed, TypeOK, Position

LEMMA PositionsUnmoved ==
  ASSUME PositionsOrdered, UNCHANGED <<ck, mark, wl, held, live, past>>,
         pc' \in {"sync", "save", "fsave"} => pc \in {"sync", "save", "fsave"}
  PROVE  PositionsOrdered'
  BY DEF PositionsOrdered, NoLater

\* Retiring an item leaves a position behind what is left, the item included.
LEMMA NoLaterAfterRetire ==
  ASSUME Typed, NEW it \in Items, Retired(it), it \in live \/ past > 0,
         NEW m \in Nat, NoLater(m)
  PROVE  /\ \A i \in live' : m <= i.row
         /\ live' = {} /\ past' > 0 => m <= past'
<1>0. N \in Nat /\ Owned \subseteq 0 .. N - 1 /\ past \in 0 .. N
  BY RecrawlAssumption DEF Typed, TypeOK
<1>a. it.row \in 0 .. N - 1
  BY <1>0 DEF Items
<1>1. /\ live' = live \ {it} /\ past' \in Nat /\ past \in Nat /\ it.row \in Nat
      /\ past' >= past /\ past' > it.row
  BY <1>0, <1>a, MaxOfTwo DEF Retired
<1>2. CASE it \in live
  BY <1>1, <1>2 DEF NoLater
<1>3. CASE it \notin live
  BY <1>1, <1>3 DEF NoLater
<1> QED BY <1>2, <1>3

LEMMA PositionsRetire ==
  ASSUME Typed, PositionsOrdered, NEW it \in Items, Retired(it), it \in live \/ past > 0,
         UNCHANGED <<ck, mark, wl, held, pc>>
  PROVE  PositionsOrdered'
<1>1. ck.row \in Nat /\ mark.row \in Nat
  BY RecrawlAssumption DEF Typed, TypeOK, Position
<1>2. NoLater(ck.row) => NoLater(ck.row)'
  BY <1>1, NoLaterAfterRetire DEF NoLater
<1>3. NoLater(mark.row) => NoLater(mark.row)'
  BY <1>1, NoLaterAfterRetire DEF NoLater
<1> QED BY <1>2, <1>3 DEF PositionsOrdered

LEMMA PositionsStep ==
  Typed /\ HeldIsRead /\ NothingRetiredYet /\ PositionsOrdered /\ [Next]_vars
    => PositionsOrdered'
<1> SUFFICES ASSUME Typed, HeldIsRead, NothingRetiredYet, PositionsOrdered, [Next]_vars
             PROVE  PositionsOrdered'
  OBVIOUS
<1> USE DEF durable, history, reader, flight, pool, sink, flags, feeder
<1>1. /\ N \in Nat /\ Owned \subseteq 0 .. N - 1
      /\ wl.row \in 0 .. N /\ ck.row \in 0 .. N /\ mark.row \in 0 .. N
  BY RecrawlAssumption DEF Typed, TypeOK, Position
<1>2. CASE Start \/ Crash \/ Close
  BY <1>2, PositionsFresh DEF Start, Crash, Close
<1>3. CASE \/ Cancel \/ FeedTop \/ FeedEnd \/ FeedSend \/ FeedSendStops
           \/ CheckpointSync \/ CheckpointSyncFails
           \/ CheckpointSaveFails \/ AwaitPool \/ AwaitWriters
           \/ FinishSyncFails \/ UNCHANGED vars
  <2>1. /\ UNCHANGED <<ck, mark, wl, held, live, past>>
        /\ pc' \in {"sync", "save", "fsave"} => pc \in {"sync", "save", "fsave"}
    BY <1>3 DEF Cancel, FeedTop, FeedEnd, FeedSend, FeedSendStops,
         CheckpointSync, CheckpointSyncFails, CheckpointSaveFails, AwaitPool,
         AwaitWriters, FinishSyncFails, vars
  <2> QED BY <2>1, PositionsUnmoved
<1>4. CASE FeedRead
  <2>1. ReadEnd(wl.row) \in wl.row .. N
    BY <1>1, ReadEndInRange
  <2>2. /\ wl'.row = ReadEnd(wl.row) /\ pc' = "fill"
        /\ held' = held \cup (Owned \cap (wl.row .. ReadEnd(wl.row) - 1))
        /\ UNCHANGED <<ck, live, past>>
    BY <1>4 DEF FeedRead
  <2>3. ck.row <= wl'.row /\ \A r \in held' : ck.row <= r
    BY <1>1, <2>1, <2>2 DEF PositionsOrdered, NoLater
  <2> QED BY <2>2, <2>3 DEF PositionsOrdered, NoLater
<1>5. CASE FeedReadFails
  <2>1. PICK e \in {wl.row, N} \cup Refills : e >= wl.row /\ wl' = [wl EXCEPT !.row = e]
    BY <1>5 DEF FeedReadFails, Boundaries
  <2>2. pc' = "closed" /\ UNCHANGED <<ck, held, live, past>>
    BY <1>5 DEF FeedReadFails, Boundaries
  <2>a. wl \in Position
    BY DEF Typed, TypeOK
  <2>3. wl'.row = e /\ e \in 0 .. N
    BY <2>1, <2>a, BoundaryInRange DEF Position
  <2>4. ck.row <= wl'.row
    BY <1>1, <2>1, <2>3 DEF PositionsOrdered, NoLater
  <2> QED BY <2>2, <2>4 DEF PositionsOrdered, NoLater
<1>6. CASE FeedHandOut
  <2>1. PICK r \in held : held' = held \ {r} /\ hand' = [row |-> r, seq |-> seq]
    BY <1>6 DEF FeedHandOut
  <2>2. live' = live \cup {hand'} /\ pc' = "send" /\ UNCHANGED <<ck, wl, past>>
    BY <1>6 DEF FeedHandOut
  <2> QED BY <2>1, <2>2 DEF PositionsOrdered, NoLater
<1>7. CASE CheckpointMark \/ Finish
  <2>1. mark'.row = SafePosition /\ UNCHANGED <<ck, wl, held, live, past>>
    BY <1>7 DEF CheckpointMark, Finish
  <2>2. /\ NoLater(SafePosition) /\ ck.row <= SafePosition
    BY <1>1, SafePositionIsLatest DEF Typed, PositionsOrdered
  <2> QED BY <2>1, <2>2 DEF PositionsOrdered, NoLater
<1>8. CASE CheckpointSave \/ FinishSave
  <2>1. /\ pc \in {"save", "fsave"} /\ pc' \in {"top", "close"}
        /\ ck' = mark \/ ck' = ck
        /\ UNCHANGED <<wl, held, live, past>>
    BY <1>8 DEF CheckpointSave, FinishSave
  <2> QED BY <2>1 DEF PositionsOrdered, NoLater
<1>9. ASSUME NEW w \in Workers,
             \/ Receive(w) \/ Exit(w) \/ Refuse(w) \/ Abandon(w) \/ Claim(w)
             \/ Fetched(w) \/ Queue(w) \/ Report(w)
      PROVE  PositionsOrdered'
  <2>1. UNCHANGED <<ck, mark, wl, held, live, past, pc>>
    BY <1>9 DEF Receive, Exit, Refuse, Abandon, Claim, Fetched, Queue, Report
  <2> QED BY <2>1, PositionsUnmoved
<1>10. ASSUME NEW w \in Workers, Retire(w) PROVE PositionsOrdered'
  <2>1. /\ job[w] \in Items /\ Retired(job[w])
        /\ UNCHANGED <<ck, mark, wl, held, pc>>
    BY <1>10 DEF Retire, Typed, ItemsInPlace
  <2>2. job[w] \in live \/ past > 0
    BY <1>1, <2>1, NoneAssumption DEF NothingRetiredYet, Typed, TypeOK
  <2> QED BY <2>1, <2>2, PositionsRetire
<1>11. ASSUME NEW p \in Parts, TakeJob(p) \/ WriteRow(p) \/ WriteFails(p)
       PROVE  PositionsOrdered'
  <2>1. UNCHANGED <<ck, mark, wl, held, live, past, pc>>
    BY <1>11 DEF TakeJob, WriteRow, WriteFails
  <2> QED BY <2>1, PositionsUnmoved
<1>12. ASSUME NEW p \in Parts, RetireRow(p) PROVE PositionsOrdered'
  <2>1. /\ wjob[p] \in Items /\ Retired(wjob[p])
        /\ UNCHANGED <<ck, mark, wl, held, pc>>
    BY <1>12 DEF RetireRow, Typed, ItemsInPlace
  <2>2. wjob[p] \in live \/ past > 0
    BY <1>1, <2>1, NoneAssumption DEF NothingRetiredYet, Typed, TypeOK
  <2> QED BY <2>1, <2>2, PositionsRetire
<1> QED
  BY <1>2, <1>3, <1>4, <1>5, <1>6, <1>7, <1>8, <1>9, <1>10, <1>11, <1>12
     DEF Next, Feed, Work, Write, Halted
-----------------------------------------------------------------------------
\* The conjunction of all of it is inductive: what the rest follows from.
THEOREM Inductive == Spec => []Inv
<1>1. Inv <=> Typed /\ RowsSafe /\ PositionsOrdered /\ NothingRetiredYet
  BY DEF Inv, Typed, RowsSafe
<1>2. Init => Inv
  BY <1>1, TypedInit, RowsInit, PositionsInit, NothingRetiredInit
<1>3. Inv /\ [Next]_vars => Inv'
  <2> SUFFICES ASSUME Inv, [Next]_vars PROVE Inv'
    OBVIOUS
  <2>1. Typed' /\ RowsSafe' /\ NothingRetiredYet'
    BY <1>1, TypedStep, RowsStep, NothingRetiredStep
  <2>2. PositionsOrdered'
    BY <1>1, PositionsStep DEF RowsSafe
  <2> QED BY <2>1, <2>2 DEF Inv, Typed, RowsSafe
<1> QED BY <1>2, <1>3, PTL DEF Spec

\* Whatever is cancelled, killed or failed, and whenever, a restarted run
\* resumes at a row behind which every owned row is in a finished shard, was
\* passed over on purpose, or was lost by a failed read of the work list.
THEOREM NeverSkips == Spec => []OnlyDroppedRowsSkipped
<1>1. Inv => OnlyDroppedRowsSkipped
  BY DEF Inv
<1> QED BY <1>1, Inductive, PTL

\* A checkpoint that says done leaves nothing behind.
THEOREM DoneMeansDone == Spec => []DoneIsFinal
<1>1. Inv => DoneIsFinal
  BY DEF Inv
<1> QED BY <1>1, Inductive, PTL

-----------------------------------------------------------------------------
\* Only the two saves write the checkpoint file, and they write the mark.
LEMMA OnlySavesMoveCheckpoint ==
  [Next]_vars => \/ UNCHANGED ck
                 \/ /\ pc \in {"save", "fsave"} /\ ck' = mark
                    /\ UNCHANGED <<sealed, passed, dropped>>
<1> SUFFICES ASSUME [Next]_vars, ck' # ck
             PROVE  /\ pc \in {"save", "fsave"} /\ ck' = mark
                    /\ UNCHANGED <<sealed, passed, dropped>>
  OBVIOUS
<1> USE DEF durable, history
<1>1. CASE CheckpointSave \/ FinishSave
  BY <1>1 DEF CheckpointSave, FinishSave
<1>2. CASE \/ FeedTop \/ FeedRead \/ FeedReadFails \/ FeedHandOut \/ FeedEnd
           \/ FeedSend \/ FeedSendStops
           \/ CheckpointMark \/ CheckpointSync \/ CheckpointSyncFails
           \/ CheckpointSaveFails \/ AwaitPool \/ AwaitWriters
           \/ Finish \/ FinishSyncFails \/ Close
  BY <1>2 DEF FeedTop, FeedRead, FeedReadFails, FeedHandOut, FeedEnd, FeedSend,
       FeedSendStops, CheckpointMark, CheckpointSync, CheckpointSyncFails,
       CheckpointSaveFails, AwaitPool, AwaitWriters, Finish, FinishSyncFails,
       Close
<1>3. CASE Start \/ Crash \/ Cancel \/ UNCHANGED vars
  BY <1>3 DEF Start, Crash, Cancel, vars
<1>4. ASSUME NEW w \in Workers, Work(w) PROVE UNCHANGED ck
  BY <1>4 DEF Work, Receive, Exit, Refuse, Abandon, Claim, Fetched, Queue,
       Report, Retire
<1>5. ASSUME NEW p \in Parts, Write(p) PROVE UNCHANGED ck
  BY <1>5 DEF Write, TakeJob, WriteRow, WriteFails, RetireRow
<1> QED BY <1>1, <1>2, <1>3, <1>4, <1>5 DEF Next, Feed, Halted

\* What is settled stays settled: no step takes a row out of a finished shard.
LEMMA RestingGrows == [Next]_vars => Resting \subseteq Resting'
<1> SUFFICES ASSUME [Next]_vars PROVE Resting \subseteq Resting'
  OBVIOUS
<1> USE DEF durable, history, Resting, Settled
<1>1. CASE \/ CheckpointSync \/ CheckpointSyncFails \/ Finish
           \/ FinishSyncFails \/ Close
  <2>1. sealed \subseteq sealed' /\ UNCHANGED <<passed, dropped>>
    BY <1>1 DEF CheckpointSync, CheckpointSyncFails, Finish, FinishSyncFails,
         Close, SealAll, SealSome
  <2> QED BY <2>1
<1>2. CASE FeedReadFails
  <2>1. dropped \subseteq dropped' /\ UNCHANGED <<sealed, passed>>
    BY <1>2 DEF FeedReadFails
  <2> QED BY <2>1
<1>3. CASE \/ FeedTop \/ FeedRead \/ FeedHandOut \/ FeedEnd
           \/ FeedSend \/ FeedSendStops
           \/ CheckpointMark \/ CheckpointSave \/ CheckpointSaveFails
           \/ AwaitPool \/ AwaitWriters \/ FinishSave
  <2>1. UNCHANGED <<sealed, passed, dropped>>
    BY <1>3 DEF FeedTop, FeedRead, FeedHandOut, FeedEnd, FeedSend,
         FeedSendStops, CheckpointMark, CheckpointSave, CheckpointSaveFails,
         AwaitPool, AwaitWriters, FinishSave
  <2> QED BY <2>1
<1>4. CASE Start \/ Crash \/ Cancel \/ UNCHANGED vars
  <2>1. UNCHANGED <<sealed, passed, dropped>>
    BY <1>4 DEF Start, Crash, Cancel, vars
  <2> QED BY <2>1
<1>5. ASSUME NEW w \in Workers, Work(w) PROVE Resting \subseteq Resting'
  <2>1. UNCHANGED <<sealed, dropped>> /\ passed \subseteq passed'
    BY <1>5 DEF Work, Receive, Exit, Refuse, Abandon, Claim, Fetched, Queue,
         Report, Retire
  <2> QED BY <2>1
<1>6. ASSUME NEW p \in Parts, Write(p) PROVE Resting \subseteq Resting'
  <2>1. UNCHANGED <<sealed, passed, dropped>>
    BY <1>6 DEF Write, TakeJob, WriteRow, WriteFails, RetireRow
  <2> QED BY <2>1
<1> QED BY <1>1, <1>2, <1>3, <1>4, <1>5, <1>6 DEF Next, Feed, Halted

\* The checkpoint file never moves back, whatever order the rows finish in and
\* however often the process is killed and started again.
THEOREM CheckpointOnlyAdvances == Spec => CheckpointNeverRetreats
<1>1. Inv /\ [Next]_vars => [ck'.row >= ck.row]_ck
  <2> SUFFICES ASSUME Inv, [Next]_vars, ck' # ck PROVE ck'.row >= ck.row
    OBVIOUS
  <2>1. pc \in {"save", "fsave"} /\ ck' = mark
    BY OnlySavesMoveCheckpoint
  <2>2. ck.row <= mark.row /\ ck.row \in 0 .. N /\ mark.row \in 0 .. N
    BY <2>1 DEF Inv, PositionsOrdered, TypeOK, Position
  <2>3. ck.row \in Nat /\ mark.row \in Nat
    BY <2>2, RecrawlAssumption
  <2> QED BY <2>1, <2>2, <2>3
<1> QED BY <1>1, Inductive, PTL DEF Spec, CheckpointNeverRetreats

\* The engine implements the abstract walk of LowWaterMark: every step of it,
\* restarts and failures included, settles rows, moves the mark forward to a
\* position with nothing unsettled behind it, or is invisible there.
THEOREM Refinement == Spec => ImplementsLowWaterMark
<1>1. Init => Walk!Init
  BY DEF Init, Walk!Init, Settled
<1>2. Inv /\ Inv' /\ [Next]_vars => [Walk!Next]_Walk!vars
  <2> SUFFICES ASSUME Inv, Inv', [Next]_vars PROVE [Walk!Next]_Walk!vars
    OBVIOUS
  <2>1. CASE UNCHANGED ck
    <3>1. Resting \subseteq Resting'
      BY RestingGrows
    <3>2. Resting' \subseteq Owned
      BY DEF Inv, TypeOK, Resting, Settled
    <3>3. UNCHANGED <<ck.row, ck.done>>
      BY <2>1
    <3>4. Walk!Settle
      BY <3>1, <3>2, <3>3 DEF Walk!Settle, Resting
    <3> QED BY <3>4 DEF Walk!Next
  <2>2. CASE /\ pc \in {"save", "fsave"} /\ ck' = mark
             /\ UNCHANGED <<sealed, passed, dropped>>
    <3>1. ck'.row = mark.row /\ ck'.done = mark.done
      BY <2>2
    <3>2. ~ck.done
      BY <2>2 DEF Inv, DoneStops
    <3>3. mark.row \in ck.row .. N
      <4>1. ck.row <= mark.row /\ ck.row \in 0 .. N /\ mark.row \in 0 .. N
        BY <2>2 DEF Inv, PositionsOrdered, TypeOK, Position
      <4> QED BY <4>1, RecrawlAssumption
    <3>4. Walk!Covered(mark.row)
      BY <2>2 DEF Inv, MarkCovered, Walk!Covered, Resting
    <3>5. mark.done \in BOOLEAN
      BY DEF Inv, TypeOK, Position
    <3>6. mark.done => Owned \subseteq Settled \cup dropped
      BY <2>2 DEF Inv, MarkCovered, Resting
    <3>7. (Settled \cup dropped)' = Settled \cup dropped
      BY <2>2 DEF Settled
    <3>8. Walk!Advance
      BY <3>1, <3>2, <3>3, <3>4, <3>5, <3>6, <3>7 DEF Walk!Advance
    <3> QED BY <3>8 DEF Walk!Next
  <2> QED BY <2>1, <2>2, OnlySavesMoveCheckpoint
<1> QED
  BY <1>1, <1>2, Inductive, PTL DEF ImplementsLowWaterMark, Walk!Spec, Spec
-----------------------------------------------------------------------------
(* The pages a run fetches: that a run which stops without an error has all   *)
(* of them in finished shards, and that the page limit is exact, however the  *)
(* workers race for it.  The invariant is PageInv of RecrawlInvariant; every  *)
(* part of it has a lemma that says what a step does to it.                   *)
\* The steps of the feeder between the start of a process and its end.
Feeds ==
  \/ FeedTop \/ FeedRead \/ FeedReadFails \/ FeedHandOut \/ FeedEnd
  \/ FeedSend \/ FeedSendStops
  \/ CheckpointMark \/ CheckpointSync \/ CheckpointSyncFails
  \/ CheckpointSave \/ CheckpointSaveFails
  \/ AwaitPool \/ AwaitWriters \/ Finish \/ FinishSyncFails \/ FinishSave

LEMMA Steps ==
  ASSUME [Next]_vars
  PROVE  \/ (Start \/ Crash \/ Close) /\ Fresh /\ pc' \in {"top", "down"}
         \/ Cancel \/ UNCHANGED vars \/ Feeds
         \/ \E w \in Workers : Work(w)
         \/ \E p \in Parts : Write(p)
<1>1. Start \/ Crash \/ Close => Fresh /\ pc' \in {"top", "down"}
  BY DEF Start, Crash, Close
<1> QED BY <1>1 DEF Next, Feed, Feeds, Halted

LEMMA PoolGoneStep == PoolIsGone /\ [Next]_vars => PoolIsGone'
<1> SUFFICES ASSUME PoolIsGone, [Next]_vars PROVE PoolIsGone'
  OBVIOUS
<1> USE DEF durable, history, reader, flight, pool, sink, flags, feeder, PoolIsGone
<1>1. CASE Fresh /\ pc' \in {"top", "down"}
  BY <1>1
<1>2. CASE Cancel \/ UNCHANGED vars
  BY <1>2 DEF Cancel, vars
<1>3. CASE Feeds
  BY <1>3 DEF Feeds, FeedTop, FeedRead, FeedReadFails, FeedHandOut, FeedEnd, FeedSend,
       FeedSendStops, CheckpointMark, CheckpointSync, CheckpointSyncFails, CheckpointSave,
       CheckpointSaveFails, AwaitPool, AwaitWriters, Finish, FinishSyncFails, FinishSave
<1>4. ASSUME NEW w \in Workers, Work(w) PROVE PoolIsGone'
  <2>1. at[w] # "exited" /\ pc' = pc
    BY <1>4 DEF Work, Receive, Exit, Refuse, Abandon, Claim, Fetched, Queue, Report, Retire
  <2> QED BY <2>1
<1>5. ASSUME NEW p \in Parts, Write(p) PROVE PoolIsGone'
  BY <1>5 DEF Write, TakeJob, WriteRow, WriteFails, RetireRow
<1> QED BY <1>1, <1>2, <1>3, <1>4, <1>5, Steps

LEMMA SinkQuietStep == TypeOK /\ PoolIsGone /\ SinkIsQuiet /\ [Next]_vars => SinkIsQuiet'
<1> SUFFICES ASSUME TypeOK, PoolIsGone, SinkIsQuiet, [Next]_vars PROVE SinkIsQuiet'
  OBVIOUS
<1> USE DEF durable, history, reader, flight, pool, sink, flags, feeder, SinkIsQuiet
<1>1. CASE Fresh /\ pc' \in {"top", "down"}
  BY <1>1
<1>2. CASE Cancel \/ UNCHANGED vars
  BY <1>2 DEF Cancel, vars
<1>3. CASE Feeds
  <2>1. CASE AwaitWriters
    BY <2>1 DEF AwaitWriters, TypeOK
  <2>2. CASE Finish
    BY <2>2 DEF Finish
  <2>3. pc' \notin {"finish", "fsave"} \/ AwaitWriters \/ Finish
    BY <1>3 DEF Feeds, FeedTop, FeedRead, FeedReadFails, FeedHandOut, FeedEnd, FeedSend,
         FeedSendStops, CheckpointMark, CheckpointSync, CheckpointSyncFails, CheckpointSave,
         CheckpointSaveFails, AwaitPool, FinishSyncFails, FinishSave
  <2> QED BY <2>1, <2>2, <2>3
<1>4. ASSUME NEW w \in Workers, Work(w) PROVE SinkIsQuiet'
  <2>1. at[w] # "exited" /\ pc' = pc
    BY <1>4 DEF Work, Receive, Exit, Refuse, Abandon, Claim, Fetched, Queue, Report, Retire
  <2> QED BY <2>1 DEF PoolIsGone
<1>5. ASSUME NEW p \in Parts, Write(p) PROVE SinkIsQuiet'
  <2>1. pc' = pc /\ ~ (wq[p] = <<>> /\ wr[p] = "take")
    BY <1>5 DEF Write, TakeJob, WriteRow, WriteFails, RetireRow
  <2> QED BY <2>1
<1> QED BY <1>1, <1>2, <1>3, <1>4, <1>5, Steps

LEMMA ModInRange ==
  ASSUME NEW a \in Nat, NEW b \in Nat \ {0}
  PROVE  a % b \in 0 .. b - 1
  OBVIOUS

\* The part a job goes to.
LEMMA PartOfJob == ASSUME NEW it \in Items PROVE it.seq % Writers \in Parts
<1>1. it.seq \in Nat /\ Writers \in Nat \ {0}
  BY RecrawlAssumption DEF Items
<1> QED BY <1>1, ModInRange DEF Parts

\* What a clean stop promises, with the invariant that leads to it.
PagesKept == FetchedIsKept /\ CleanStopKeepsPages

LEMMA PagesKeptStep ==
  Typed /\ ErrorEndsRun /\ PoolIsGone /\ SinkIsQuiet /\ PagesKept /\ [Next]_vars => PagesKept'
<1> SUFFICES ASSUME Typed, ErrorEndsRun, PoolIsGone, SinkIsQuiet, PagesKept, [Next]_vars PROVE PagesKept'
  OBVIOUS
<1> USE DEF durable, history, reader, flight, pool, sink, flags, feeder
<1>1. CASE Fresh /\ pc' \in {"top", "down"}
  BY <1>1 DEF Fresh, PagesKept, FetchedIsKept, CleanStopKeepsPages
<1>2. CASE Cancel \/ UNCHANGED vars
  BY <1>2 DEF Cancel, vars, PagesKept, FetchedIsKept, CleanStopKeepsPages, Sound, OpenRows, OnItsWay
<1>3. CASE Finish
  <2>1. \A r \in fetched : r \in sealed \cup OpenRows
    BY <1>3 DEF Finish, PagesKept, FetchedIsKept, Sound, SinkIsQuiet, PoolIsGone, OnItsWay
  <2>2. sealed' = sealed \cup OpenRows /\ UNCHANGED fetched
    BY <1>3 DEF Finish, SealAll
  <2> QED BY <2>1, <2>2 DEF PagesKept, FetchedIsKept, CleanStopKeepsPages
<1>4. CASE CheckpointSync
  <2>1. UNCHANGED <<fetched, job, at, wq, wr, wjob, errs, feedErr>> /\ pc' \in {"save", "top"}
    BY <1>4 DEF CheckpointSync
  <2>2. sealed' \cup OpenRows' = sealed \cup OpenRows
    BY <1>4 DEF CheckpointSync, SealAll, OpenRows
  <2> QED BY <1>4, <2>1, <2>2
          DEF CheckpointSync, PagesKept, FetchedIsKept, CleanStopKeepsPages, Sound, OnItsWay
<1>5. CASE CheckpointSyncFails \/ FinishSyncFails
  BY <1>5 DEF CheckpointSyncFails, FinishSyncFails, PagesKept, FetchedIsKept,
              CleanStopKeepsPages, Sound
<1>6. CASE /\ Feeds
           /\ ~ (Finish \/ CheckpointSync \/ CheckpointSyncFails \/ FinishSyncFails)
  <2>1. UNCHANGED <<sealed, open, fetched, job, at, wq, wr, wjob, errs>> /\ pc' # "fsave"
    BY <1>6 DEF Feeds, FeedTop, FeedRead, FeedReadFails, FeedHandOut, FeedEnd, FeedSend,
         FeedSendStops, CheckpointMark, CheckpointSave, CheckpointSaveFails, AwaitPool,
         AwaitWriters, FinishSave
  <2>2. pc # "close" /\ (feedErr' = feedErr \/ feedErr' = TRUE \/ FeedReadFails)
    BY <1>6 DEF Feeds, FeedTop, FeedRead, FeedHandOut, FeedEnd, FeedSend,
         FeedSendStops, CheckpointMark, CheckpointSave, CheckpointSaveFails, AwaitPool,
         AwaitWriters, FinishSave, FeedReadFails
  <2>3. FeedReadFails => ~feedErr
    BY DEF FeedReadFails, ErrorEndsRun
  <2>4. Sound' => Sound
    BY <2>2, <2>3 DEF Sound
  <2> QED BY <2>1, <2>4 DEF PagesKept, FetchedIsKept, CleanStopKeepsPages, OpenRows, OnItsWay
<1>7. ASSUME NEW w \in Workers, Work(w) PROVE PagesKept'
  <2>1. at[w] # "exited" /\ pc' = pc /\ UNCHANGED <<sealed, open, wr, wjob, feedErr>>
    BY <1>7 DEF Work, Receive, Exit, Refuse, Abandon, Claim, Fetched, Queue, Report, Retire
  <2>2. CleanStopKeepsPages'
    BY <2>1 DEF CleanStopKeepsPages, PoolIsGone
  <2>3. Sound' = Sound /\ OpenRows' = OpenRows
    BY <2>1 DEF Sound, OpenRows
  <2>4. at \in [Workers -> PoolPlaces] /\ job \in [Workers -> Items \cup {None}]
    BY DEF Typed, TypeOK
  <2>5. CASE Fetched(w)
    <3>1. fetched' = fetched \cup {job[w].row} /\ at' = [at EXCEPT ![w] = "queue"]
          /\ UNCHANGED <<job, wq, errs>> /\ at[w] = "fetch"
      BY <2>5 DEF Fetched, Goto
    <3>2. \A r : OnItsWay(r) => OnItsWay(r)'
      BY <2>1, <2>4, <3>1 DEF OnItsWay
    <3>3. OnItsWay(job[w].row)'
      BY <2>4, <3>1 DEF OnItsWay
    <3> QED BY <2>1, <2>2, <2>3, <3>1, <3>2, <3>3 DEF PagesKept, FetchedIsKept
  <2>6. CASE Queue(w)
    <3> DEFINE p == job[w].seq % Writers
    <3>1. p \in Parts /\ job[w] \in Items
      BY <2>6, PartOfJob DEF Queue, Typed, ItemsInPlace
    <3>2. /\ wq' = [wq EXCEPT ![p] = Append(@, job[w])]
          /\ at[w] = "queue" /\ UNCHANGED <<fetched, errs>>
          /\ \A v \in Workers \ {w} : at'[v] = at[v] /\ job'[v] = job[v]
      BY <2>4, <2>6 DEF Queue, Leave, Goto
    <3> HIDE DEF p
    <3>3. wq \in [Parts -> Seq(Items)]
      BY DEF Typed, TypeOK
    <3>4. /\ wq'[p] = Append(wq[p], job[w]) /\ wq[p] \in Seq(Items)
          /\ \A q \in Parts \ {p} : wq'[q] = wq[q]
      BY <3>1, <3>2, <3>3
    <3>5. /\ Len(wq[p]) + 1 \in DOMAIN wq'[p] /\ wq'[p][Len(wq[p]) + 1] = job[w]
          /\ \A i \in DOMAIN wq[p] : i \in DOMAIN wq'[p] /\ wq'[p][i] = wq[p][i]
      BY <3>1, <3>4
    <3>6. \A r : OnItsWay(r) => OnItsWay(r)'
      BY <2>1, <3>1, <3>2, <3>4, <3>5 DEF OnItsWay
    <3> QED BY <2>1, <2>2, <2>3, <3>2, <3>6 DEF PagesKept, FetchedIsKept
  <2>7. CASE Report(w)
    <3>1. errs' # 0
      BY <2>7 DEF Report, Typed, TypeOK
    <3> QED BY <2>2, <3>1 DEF PagesKept, FetchedIsKept
  <2>8. CASE ~ (Fetched(w) \/ Queue(w) \/ Report(w))
    <3>1. UNCHANGED <<fetched, wq, errs>>
      BY <1>7, <2>8 DEF Work, Receive, Exit, Refuse, Abandon, Claim, Retire
    <3>2. \A v \in Workers : at[v] = "queue" => at'[v] = "queue" /\ job'[v] = job[v]
      BY <1>7, <2>4, <2>8 DEF Work, Receive, Exit, Refuse, Abandon, Claim, Retire, Goto, Leave
    <3>3. \A r : OnItsWay(r) => OnItsWay(r)'
      BY <2>1, <3>1, <3>2 DEF OnItsWay
    <3> QED BY <2>1, <2>2, <2>3, <3>1, <3>3 DEF PagesKept, FetchedIsKept
  <2> QED BY <2>5, <2>6, <2>7, <2>8
<1>8. ASSUME NEW p \in Parts, Write(p) PROVE PagesKept'
  <2>1. /\ pc' = pc /\ UNCHANGED <<sealed, fetched, at, job, feedErr>>
        /\ ~ (wq[p] = <<>> /\ wr[p] = "take")
    BY <1>8 DEF Write, TakeJob, WriteRow, WriteFails, RetireRow
  <2>2. CleanStopKeepsPages' /\ Sound' = Sound
    BY <2>1 DEF CleanStopKeepsPages, SinkIsQuiet, Sound
  <2>3. /\ wr \in [Parts -> {"take", "write", "retire"}] /\ wq \in [Parts -> Seq(Items)]
        /\ wjob \in [Parts -> Items \cup {None}] /\ open \in [Parts -> SUBSET Owned]
    BY DEF Typed, TypeOK
  <2>4. CASE TakeJob(p)
    <3>1. /\ wr' = [wr EXCEPT ![p] = "write"] /\ wjob' = [wjob EXCEPT ![p] = Head(wq[p])]
          /\ wq' = [wq EXCEPT ![p] = Tail(@)] /\ wq[p] # <<>> /\ wr[p] = "take"
          /\ UNCHANGED <<open, errs>>
      BY <2>4 DEF TakeJob
    <3>2. ASSUME NEW i \in DOMAIN wq[p]
          PROVE  wq[p][i] = Head(wq[p]) \/ \E j \in DOMAIN wq'[p] : wq'[p][j] = wq[p][i]
      <4>1. wq'[p] = Tail(wq[p]) /\ wq[p] \in Seq(Items)
        BY <2>3, <3>1
      <4>2. CASE i = 1 BY <4>1, <4>2
      <4>3. CASE i # 1
        <5>1. i \in 2 .. Len(wq[p]) /\ Len(Tail(wq[p])) = Len(wq[p]) - 1
          BY <3>1, <4>1, <4>3
        <5>2. i - 1 \in DOMAIN wq'[p] /\ wq'[p][i - 1] = wq[p][i]
          BY <4>1, <5>1
        <5> QED BY <5>2
      <4> QED BY <4>2, <4>3
    <3>3. ASSUME NEW r, OnItsWay(r) PROVE OnItsWay(r)'
      <4>1. CASE \E i \in DOMAIN wq[p] : wq[p][i].row = r
        <5>1. PICK i \in DOMAIN wq[p] : wq[p][i].row = r
          BY <4>1
        <5>2. CASE wq[p][i] = Head(wq[p])
          <6>1. wr'[p] = "write" /\ wjob'[p].row = r
            BY <2>3, <3>1, <5>1, <5>2
          <6> QED BY <6>1 DEF OnItsWay
        <5>3. CASE \E j \in DOMAIN wq'[p] : wq'[p][j] = wq[p][i]
          BY <5>1, <5>3 DEF OnItsWay
        <5> QED BY <3>2, <5>2, <5>3
      <4>2. CASE ~ \E i \in DOMAIN wq[p] : wq[p][i].row = r
        BY <2>1, <2>3, <3>1, <3>3, <4>2 DEF OnItsWay
      <4> QED BY <4>1, <4>2
    <3> QED BY <2>1, <2>2, <3>1, <3>3 DEF PagesKept, FetchedIsKept, OpenRows
  <2>5. CASE WriteRow(p)
    <3>1. /\ wr' = [wr EXCEPT ![p] = "retire"]
          /\ open' = [open EXCEPT ![p] = @ \cup {wjob[p].row}]
          /\ UNCHANGED <<wq, wjob, errs>>
      BY <2>5 DEF WriteRow
    <3>2. \A r : OnItsWay(r) => OnItsWay(r)' \/ r = wjob[p].row
      BY <2>1, <2>3, <3>1 DEF OnItsWay
    <3>3. OpenRows' = OpenRows \cup {wjob[p].row}
      BY <2>3, <3>1 DEF OpenRows
    <3> QED BY <2>1, <2>2, <3>1, <3>2, <3>3 DEF PagesKept, FetchedIsKept
  <2>6. CASE WriteFails(p)
    <3>1. errs \in Nat /\ Cardinality(Workers) \in Nat /\ Cardinality(Workers) # 0
      BY WorkersCount, RecrawlAssumption, FS_EmptySet DEF Typed, TypeOK
    <3>2. errs' = Min({errs + 1, Cardinality(Workers)})
      BY <2>6 DEF WriteFails
    <3>3. errs' \in {errs + 1, Cardinality(Workers)}
      BY <3>1, <3>2, MinOfTwo
    <3>4. errs' # 0
      BY <3>1, <3>3
    <3> QED BY <2>2, <3>4 DEF PagesKept, FetchedIsKept
  <2>7. CASE RetireRow(p)
    <3>1. /\ wr[p] = "retire" /\ wr' = [wr EXCEPT ![p] = "take"]
          /\ wjob' = [wjob EXCEPT ![p] = None] /\ UNCHANGED <<wq, open, errs>>
      BY <2>7 DEF RetireRow
    <3>2. \A r : OnItsWay(r) => OnItsWay(r)'
      BY <2>1, <2>3, <3>1 DEF OnItsWay
    <3> QED BY <2>1, <2>2, <3>1, <3>2 DEF PagesKept, FetchedIsKept, OpenRows
  <2> QED BY <1>8, <2>4, <2>5, <2>6, <2>7 DEF Write
<1> QED BY <1>1, <1>2, <1>3, <1>4, <1>5, <1>6, <1>7, <1>8, Steps

LEMMA RowsAreOwned ==
  ASSUME Typed
  PROVE  /\ fetched \subseteq Owned
         /\ \A i \in DOMAIN work : work[i].row \in Owned
         /\ \A w \in Workers : Asking(w) => job[w].row \in Owned
<1>1. fetched \subseteq Owned /\ work \in Seq(Items)
  BY DEF Typed, TypeOK
<1>2. \A i \in DOMAIN work : work[i] \in Items
  BY <1>1
<1>3. \A w \in Workers : Asking(w) => job[w] \in Items
  BY DEF Typed, ItemsInPlace, Asking
<1>4. \A it \in Items : it.row \in Owned
  BY DEF Items
<1> QED BY <1>1, <1>2, <1>3, <1>4

\* A worker moves only what it has in hand, and leaves the feeder alone.
LEMMA RowsApartStep ==
  Typed /\ Typed' /\ HeldIsRead /\ RowsApart /\ [Next]_vars => RowsApart'
<1> SUFFICES ASSUME Typed, Typed', HeldIsRead, RowsApart, [Next]_vars PROVE RowsApart'
  OBVIOUS
<1> USE DEF durable, history, reader, flight, pool, sink, flags, feeder
<1>1. CASE Fresh /\ pc' \in {"top", "down"}
  BY <1>1 DEF Fresh, RowsApart, Asking
<1>2. CASE Cancel \/ UNCHANGED vars
  BY <1>2 DEF Cancel, vars, RowsApart, Asking, Taken
<1>n. N \in Nat /\ Owned \subseteq 0 .. N - 1 /\ wl.row \in 0 .. N /\ held \subseteq Owned
  BY RecrawlAssumption DEF Typed, TypeOK, Position
<1>t. /\ work \in Seq(Items) /\ at \in [Workers -> PoolPlaces]
      /\ job \in [Workers -> Items \cup {None}]
  BY DEF Typed, TypeOK
<1>3. CASE FeedRead
  <2> DEFINE end   == ReadEnd(wl.row)
             batch == Owned \cap (wl.row .. end - 1)
  <2>1. /\ wl'.row = end /\ held' = held \cup batch /\ pc = "fill"
        /\ UNCHANGED <<pc, hand, work, at, job, fetched>>
    BY <1>3 DEF FeedRead
  <2>2. end \in wl.row .. N
    BY <1>n, ReadEndInRange
  <2> HIDE DEF end
  <2>3. \A r \in Owned : r < wl.row => r < wl'.row /\ r \notin batch
    BY <1>n, <2>1, <2>2
  <2> HIDE DEF batch
  <2>4. /\ fetched \subseteq Owned /\ \A i \in DOMAIN work : work[i].row \in Owned
        /\ \A w \in Workers : Asking(w) => job[w].row \in Owned
    BY RowsAreOwned
  <2> QED BY <2>1, <2>3, <2>4 DEF RowsApart, Asking, Taken
<1>4. CASE FeedReadFails
  <2>1. PICK e \in {wl.row, N} \cup Refills :
          e >= wl.row /\ wl' = [wl EXCEPT !.row = e]
    BY <1>4 DEF FeedReadFails, Boundaries
  <2>2. pc = "fill" /\ pc' = "closed" /\ UNCHANGED <<held, hand, work, at, job, fetched>>
    BY <1>4 DEF FeedReadFails
  <2>3. wl \in Position /\ e \in 0 .. N
    BY <2>1, BoundaryInRange DEF Typed, TypeOK
  <2>4. wl'.row = e
    BY <2>1, <2>3 DEF Position
  <2>5. \A r \in Owned : r < wl.row => r < wl'.row
    BY <1>n, <2>1, <2>3, <2>4
  <2>6. /\ fetched \subseteq Owned /\ \A i \in DOMAIN work : work[i].row \in Owned
        /\ \A w \in Workers : Asking(w) => job[w].row \in Owned
    BY RowsAreOwned
  <2> QED BY <2>2, <2>5, <2>6 DEF RowsApart, Asking, Taken
<1>5. CASE FeedHandOut
  <2>1. PICK r \in held : held' = held \ {r} /\ hand' = [row |-> r, seq |-> seq]
    BY <1>5 DEF FeedHandOut
  <2>2. pc = "fill" /\ pc' = "send" /\ UNCHANGED <<wl, work, at, job, fetched>>
    BY <1>5 DEF FeedHandOut
  <2>3. hand'.row = r /\ r < wl.row
    BY <2>1 DEF HeldIsRead
  <2> QED BY <2>1, <2>2, <2>3 DEF RowsApart, Asking, Taken
<1>6. CASE FeedSend
  <2>1. work' = Append(work, hand) /\ pc = "send" /\ pc' # "send" /\ hand \in Items
    BY <1>6 DEF FeedSend, Typed, ItemsInPlace
  <2>2. UNCHANGED <<wl, held, fetched, at, job>>
    BY <1>6 DEF FeedSend
  <2>3. \A i \in DOMAIN work' : \/ i \in DOMAIN work /\ work'[i] = work[i]
                                \/ i = Len(work) + 1 /\ work'[i] = hand
    BY <1>t, <2>1
  <2> QED BY <2>1, <2>2, <2>3 DEF RowsApart, Asking, Taken
<1>7. CASE Feeds /\ ~ (FeedRead \/ FeedReadFails \/ FeedHandOut \/ FeedSend)
  <2>1. UNCHANGED <<wl, held, fetched, work, at, job>> /\ pc' # "send"
    BY <1>7 DEF Feeds, FeedTop, FeedEnd, FeedSendStops, CheckpointMark, CheckpointSync,
         CheckpointSyncFails, CheckpointSave, CheckpointSaveFails, AwaitPool, AwaitWriters,
         Finish, FinishSyncFails, FinishSave
  <2> QED BY <2>1 DEF RowsApart, Asking, Taken
<1>8. ASSUME NEW w \in Workers, Work(w) PROVE RowsApart'
  <2>1. UNCHANGED <<wl, held, pc, hand>>
    BY <1>8 DEF Work, Receive, Exit, Refuse, Abandon, Claim, Fetched, Queue, Report, Retire
  <2>2. CASE Receive(w)
    <3>1. work # <<>> /\ work' = Tail(work) /\ UNCHANGED fetched /\ ~Asking(w)
      BY <2>2 DEF Receive, Asking
    <3>2. /\ Head(work) = work[1] /\ 1 \in DOMAIN work
          /\ \A i \in DOMAIN work' : i + 1 \in DOMAIN work /\ i + 1 # 1 /\ work'[i] = work[i + 1]
          /\ \A i, j \in DOMAIN work' : i # j => i + 1 # j + 1
      BY <1>t, <3>1
    <3>3. CASE UNCHANGED <<at, job>>
      BY <2>1, <3>1, <3>2, <3>3 DEF RowsApart, Asking, Taken
    <3>4. CASE Goto(w, "ask") /\ job' = [job EXCEPT ![w] = Head(work)]
      <4>1. /\ at'[w] = "ask" /\ job'[w] = work[1]
            /\ \A v \in Workers \ {w} : at'[v] = at[v] /\ job'[v] = job[v]
        BY <1>t, <3>2, <3>4 DEF Goto
      <4> QED BY <2>1, <3>1, <3>2, <4>1 DEF RowsApart, Asking, Taken
    <3> QED BY <2>2, <3>3, <3>4 DEF Receive
  <2>3. CASE Fetched(w)
    <3>1. /\ fetched' = fetched \cup {job[w].row} /\ UNCHANGED <<work, job>>
          /\ Asking(w) /\ at' = [at EXCEPT ![w] = "queue"]
      BY <2>3 DEF Fetched, Goto, Asking
    <3>2. \A v \in Workers : Asking(v)' => Asking(v) /\ v # w
      BY <1>t, <3>1 DEF Asking
    <3> QED BY <2>1, <3>1, <3>2 DEF RowsApart, Taken
  <2>4. CASE ~ (Receive(w) \/ Fetched(w))
    <3>1. UNCHANGED <<work, fetched>>
      BY <1>8, <2>4 DEF Work, Exit, Refuse, Abandon, Claim, Queue, Report, Retire
    <3>2. \A v \in Workers : Asking(v)' => Asking(v) /\ job'[v] = job[v]
      BY <1>8, <1>t, <2>4 DEF Work, Exit, Refuse, Abandon, Claim, Queue, Report, Retire,
                              Goto, Leave, Asking
    <3> QED BY <2>1, <3>1, <3>2 DEF RowsApart, Taken
  <2> QED BY <2>2, <2>3, <2>4
<1>9. ASSUME NEW p \in Parts, Write(p) PROVE RowsApart'
  <2>1. UNCHANGED <<wl, held, pc, hand, work, at, job, fetched>>
    BY <1>9 DEF Write, TakeJob, WriteRow, WriteFails, RetireRow
  <2> QED BY <2>1 DEF RowsApart, Asking, Taken
<1> QED BY <1>1, <1>2, <1>3, <1>4, <1>5, <1>6, <1>7, <1>8, <1>9, Steps

LEMMA SetsAreFinite ==
  ASSUME Typed
  PROVE  /\ IsFiniteSet(fetched) /\ Cardinality(fetched) \in Nat
         /\ IsFiniteSet(Fetching) /\ Cardinality(Fetching) \in Nat
<1>1. fetched \subseteq 0 .. N - 1 /\ N \in Nat
  BY RecrawlAssumption DEF Typed, TypeOK
<1>2. IsFiniteSet(0 .. N - 1)
  BY <1>1, FS_Interval
<1>3. IsFiniteSet(fetched)
  BY <1>1, <1>2, FS_Subset
<1>4. IsFiniteSet(Fetching)
  BY RecrawlAssumption, FS_Subset DEF Fetching
<1> QED BY <1>3, <1>4, FS_CardinalityType

\* A claim takes a slot, the end of the fetch turns it into a page, and only a
\* stop gives it up.
LEMMA SlotsStep ==
  Typed /\ Typed' /\ RowsApart /\ SlotsAreCounted /\ [Next]_vars => SlotsAreCounted'
<1> SUFFICES ASSUME Typed, Typed', RowsApart, SlotsAreCounted, [Next]_vars, MaxPages > 0
             PROVE  SlotsAreCounted'
  BY DEF SlotsAreCounted
<1> USE DEF durable, history, reader, flight, pool, sink, flags, feeder
<1>m. MaxPages \in Nat /\ pages \in Nat /\ at \in [Workers -> PoolPlaces]
  BY RecrawlAssumption DEF Typed, TypeOK
<1>s. /\ Cardinality(fetched) + Cardinality(Fetching) <= Slots
      /\ ~cancelled => Cardinality(fetched) + Cardinality(Fetching) = Slots
      /\ full => pages > MaxPages
  BY DEF SlotsAreCounted
<1>1. CASE Fresh /\ pc' \in {"top", "down"}
  <2>1. fetched' = {} /\ Fetching' = {} /\ pages' = 0 /\ ~full'
    BY <1>1 DEF Fresh, Fetching
  <2>2. Cardinality({}) = 0
    BY FS_EmptySet
  <2> QED BY <1>m, <2>1, <2>2 DEF SlotsAreCounted, Slots
<1>2. CASE UNCHANGED <<fetched, at, pages, full>> /\ (cancelled' \/ UNCHANGED cancelled)
  BY <1>2 DEF SlotsAreCounted, Slots, Fetching
<1>3. CASE Cancel \/ UNCHANGED vars \/ Feeds
  <2>1. UNCHANGED <<fetched, at, pages, full>> /\ (cancelled' \/ UNCHANGED cancelled)
    BY <1>3 DEF Cancel, vars, Feeds, FeedTop, FeedRead, FeedReadFails, FeedHandOut, FeedEnd,
         FeedSend, FeedSendStops, CheckpointMark, CheckpointSync, CheckpointSyncFails,
         CheckpointSave, CheckpointSaveFails, AwaitPool, AwaitWriters, Finish,
         FinishSyncFails, FinishSave
  <2> QED BY <1>2, <2>1
<1>4. ASSUME NEW p \in Parts, Write(p) PROVE SlotsAreCounted'
  <2>1. UNCHANGED <<fetched, at, pages, full>> /\ (cancelled' \/ UNCHANGED cancelled)
    BY <1>4 DEF Write, TakeJob, WriteRow, WriteFails, RetireRow
  <2> QED BY <1>2, <2>1
<1>5. ASSUME NEW w \in Workers, Work(w) PROVE SlotsAreCounted'
  <2>1. CASE Claim(w)
    <3>1. at[w] = "ask" /\ pages' = pages + 1 /\ UNCHANGED <<fetched, cancelled>>
      BY <2>1 DEF Claim
    <3>2. CASE pages' <= MaxPages
      <4>1. at' = [at EXCEPT ![w] = "fetch"] /\ UNCHANGED full
        BY <2>1, <3>2 DEF Claim, Goto
      <4>2. Fetching' = Fetching \cup {w} /\ w \notin Fetching
        BY <1>m, <3>1, <4>1 DEF Fetching
      <4>3. Cardinality(Fetching') = Cardinality(Fetching) + 1
        BY <4>2, SetsAreFinite, FS_AddElement
      <4>4. Slots' = Slots + 1 /\ Slots = pages
        BY <1>m, <3>1, <3>2 DEF Slots
      <4> QED BY <1>m, <1>s, <3>1, <4>1, <4>3, <4>4, SetsAreFinite DEF SlotsAreCounted, Slots
    <3>3. CASE ~ (pages' <= MaxPages)
      <4>1. at' = [at EXCEPT ![w] = "idle"] /\ full' = TRUE
        BY <1>m, <2>1, <3>3 DEF Claim, Goto, Leave
      <4>2. Fetching' = Fetching
        BY <1>m, <3>1, <4>1 DEF Fetching
      <4>3. Slots' = Slots
        BY <1>m, <3>1, <3>3 DEF Slots
      <4> QED BY <1>m, <1>s, <3>1, <3>3, <4>1, <4>2, <4>3 DEF SlotsAreCounted
    <3> QED BY <3>2, <3>3
  <2>2. CASE Fetched(w)
    <3>1. /\ at[w] = "fetch" /\ at' = [at EXCEPT ![w] = "queue"]
          /\ fetched' = fetched \cup {job[w].row} /\ UNCHANGED <<pages, full, cancelled>>
      BY <2>2 DEF Fetched, Goto
    <3>2. job[w].row \notin fetched
      BY <3>1 DEF RowsApart, Asking, Taken
    <3>3. Fetching' = Fetching \ {w} /\ w \in Fetching
      BY <1>m, <3>1 DEF Fetching
    <3>4. Cardinality(fetched') = Cardinality(fetched) + 1
      BY <3>1, <3>2, SetsAreFinite, FS_AddElement
    <3>5. Cardinality(Fetching') = Cardinality(Fetching) - 1
      BY <3>3, SetsAreFinite, FS_RemoveElement
    <3>6. Cardinality(fetched') + Cardinality(Fetching')
            = Cardinality(fetched) + Cardinality(Fetching)
      BY <3>4, <3>5, SetsAreFinite
    <3> QED BY <1>s, <3>1, <3>6 DEF SlotsAreCounted, Slots
  <2>3. CASE Abandon(w)
    <3>1. UNCHANGED <<fetched, pages, full, cancelled>> /\ cancelled /\ at' = [at EXCEPT ![w] = "idle"]
      BY <2>3 DEF Abandon, Leave, Goto
    <3>2. Fetching' \subseteq Fetching
      BY <1>m, <3>1 DEF Fetching
    <3>3. Cardinality(Fetching') <= Cardinality(Fetching) /\ Cardinality(Fetching') \in Nat
      BY <3>2, SetsAreFinite, FS_Subset, FS_CardinalityType
    <3>4. Slots \in Nat /\ Slots' = Slots
      BY <1>m, <3>1 DEF Slots
    <3> QED BY <1>s, <3>1, <3>3, <3>4, SetsAreFinite DEF SlotsAreCounted
  <2>4. CASE ~ (Claim(w) \/ Fetched(w) \/ Abandon(w))
    <3>1. UNCHANGED <<fetched, pages, full>> /\ (cancelled' \/ UNCHANGED cancelled)
      BY <1>5, <2>4 DEF Work, Receive, Exit, Refuse, Queue, Report, Retire
    <3>2. at'[w] # "fetch" /\ at[w] # "fetch" /\ \A v \in Workers \ {w} : at'[v] = at[v]
      BY <1>5, <1>m, <2>4 DEF Work, Receive, Exit, Refuse, Queue, Report, Retire, Goto, Leave
    <3>3. Fetching' = Fetching
      BY <3>2 DEF Fetching
    <3> QED BY <1>s, <3>1, <3>3 DEF SlotsAreCounted, Slots
  <2> QED BY <2>1, <2>2, <2>3, <2>4
<1> QED BY <1>1, <1>3, <1>4, <1>5, Steps
-----------------------------------------------------------------------------
\* The invariant about pages holds for every pool, page limit and set of faults.
THEOREM PagesInductive == Spec => []PageInv
<1> DEFINE Parted == PoolIsGone /\ SinkIsQuiet /\ PagesKept /\ RowsApart /\ SlotsAreCounted
<1>1. Init => Parted
  <2> SUFFICES ASSUME Init PROVE Parted
    OBVIOUS
  <2>1. PoolIsGone /\ SinkIsQuiet /\ PagesKept /\ RowsApart
    BY DEF Init, PoolIsGone, SinkIsQuiet, PagesKept, FetchedIsKept, CleanStopKeepsPages,
           RowsApart, Asking
  <2>2. fetched = {} /\ Fetching = {} /\ pages = 0 /\ ~full
    BY DEF Init, Fetching
  <2>3. SlotsAreCounted
    BY <2>2, FS_EmptySet, RecrawlAssumption DEF SlotsAreCounted, Slots
  <2> QED BY <2>1, <2>3
<1>2. Inv /\ Inv' /\ Parted /\ [Next]_vars => Parted'
  <2>1. Inv => Typed /\ ErrorEndsRun /\ HeldIsRead
    BY DEF Inv, Typed
  <2>2. Inv' => Typed'
    BY DEF Inv, Typed
  <2> QED BY <2>1, <2>2, PoolGoneStep, SinkQuietStep, PagesKeptStep, RowsApartStep, SlotsStep
          DEF Typed
<1>3. Inv /\ Parted => PageInv
  BY DEF Inv, PageInv, PagesKept
<1> QED BY <1>1, <1>2, <1>3, Inductive, PTL DEF Spec

\* A run that stops without an error has every page it fetched in a finished
\* shard before its last checkpoint is written.
THEOREM CleanStopsKeepPages == Spec => []CleanStopKeepsPages
<1>1. PageInv => CleanStopKeepsPages
  BY DEF PageInv
<1> QED BY <1>1, PagesInductive, PTL

\* Workers racing for the last slot fetch no more pages than the limit, and a
\* run that the limit stopped fetched no fewer.
THEOREM PageLimitHolds == Spec => []PageLimitIsExact
<1>1. PageInv => PageLimitIsExact
  <2> SUFFICES ASSUME PageInv, MaxPages > 0
               PROVE  /\ Cardinality(fetched) <= MaxPages
                      /\ pc = "fsave" /\ full /\ ~cancelled => Cardinality(fetched) = MaxPages
    BY DEF PageLimitIsExact
  <2>1. Typed /\ MaxPages \in Nat /\ pages \in Nat
    BY RecrawlAssumption DEF PageInv, Typed, TypeOK
  <2>2. /\ Cardinality(fetched) + Cardinality(Fetching) <= Slots
        /\ ~cancelled => Cardinality(fetched) + Cardinality(Fetching) = Slots
        /\ full => pages > MaxPages
    BY DEF PageInv, SlotsAreCounted
  <2>3. Slots \in Nat /\ Slots <= MaxPages /\ (pages > MaxPages => Slots = MaxPages)
    BY <2>1 DEF Slots
  <2>4. pc = "fsave" => Fetching = {}
    BY DEF PageInv, PoolIsGone, Fetching
  <2>5. Cardinality({}) = 0
    BY FS_EmptySet
  <2> QED BY <2>1, <2>2, <2>3, <2>4, <2>5, SetsAreFinite
<1> QED BY <1>1, PagesInductive, PTL

\* With a checkpoint after every item no read can lose a row, and then a run
\* never resumes past a row that is not settled.
THEOREM NothingSkippedByOnes == ASSUME Batch = 1 PROVE Spec => []NoRowSkipped
<1> DEFINE NoneDropped == dropped = {}
<1>1. Init => NoneDropped
  BY DEF Init
<1>2. Inv /\ NoneDropped /\ [Next]_vars => NoneDropped'
  <2> SUFFICES ASSUME Inv, dropped = {}, [Next]_vars PROVE dropped' = {}
    OBVIOUS
  <2> USE DEF durable, history, reader, flight, pool, sink, flags, feeder
  <2>1. CASE FeedReadFails
    <3>1. PICK e \in Boundaries : /\ Cardinality(Owned \cap (wl.row .. e - 1)) < Batch
                                  /\ dropped' = dropped \cup (Owned \cap (wl.row .. e - 1))
      BY <2>1 DEF FeedReadFails
    <3> DEFINE lost == Owned \cap (wl.row .. e - 1)
    <3>2. IsFiniteSet(Owned)
      <4>1. IsFiniteSet(0 .. N - 1)
        BY RecrawlAssumption, FS_Interval
      <4> QED BY <4>1, RecrawlAssumption, FS_Subset
    <3>3. IsFiniteSet(lost) /\ Cardinality(lost) \in Nat
      BY <3>2, FS_Subset, FS_CardinalityType
    <3>4. Cardinality(lost) = 0
      BY <3>1, <3>3
    <3>5. lost = {}
      BY <3>3, <3>4, FS_EmptySet
    <3> QED BY <3>1, <3>5
  <2>2. CASE ~FeedReadFails
    <3>1. ASSUME NEW w \in Workers, Work(w) PROVE UNCHANGED dropped
      BY <3>1 DEF Work, Receive, Exit, Refuse, Abandon, Claim, Fetched, Queue, Report, Retire
    <3>2. ASSUME NEW p \in Parts, Write(p) PROVE UNCHANGED dropped
      BY <3>2 DEF Write, TakeJob, WriteRow, WriteFails, RetireRow
    <3>3. Start \/ Crash \/ Close \/ Cancel \/ UNCHANGED vars \/ Feeds => UNCHANGED dropped
      BY <2>2 DEF Start, Crash, Close, Cancel, vars, Feeds, FeedTop, FeedRead, FeedHandOut,
           FeedEnd, FeedSend, FeedSendStops, CheckpointMark, CheckpointSync,
           CheckpointSyncFails, CheckpointSave, CheckpointSaveFails, AwaitPool,
           AwaitWriters, Finish, FinishSyncFails, FinishSave
    <3> QED BY <3>1, <3>2, <3>3, Steps
  <2> QED BY <2>1, <2>2
<1>3. Inv /\ NoneDropped => NoRowSkipped
  BY DEF Inv, OnlyDroppedRowsSkipped, NoRowSkipped
<1> QED BY <1>1, <1>2, <1>3, Inductive, PTL DEF Spec
=============================================================================
