------------------------- MODULE PublishingProofs -------------------------
(***************************************************************************)
(* Proofs about the three publishers of the other datasets: how one commit *)
(* is sent to the hub, how a fleet of servers keeps its ledgers, and how a *)
(* file of news is taken from a stream that breaks.                        *)
(***************************************************************************)
EXTENDS HubUpload, FleetLedger, NewsStream, SumProofs

-----------------------------------------------------------------------------
(* The commit protocol of the hub: for any files, any number of pieces, and   *)
(* whatever is refused, unanswered or swept away, a commit names no object    *)
(* that is not stored whole, has no hole, and never holds more connections    *)
(* than the budget (CommitIsWhole).                                           *)
LEMMA ThereAreSlots == Slots \in Nat \ {0} /\ Pieces \in [UpFiles -> Nat \ {0}]
BY UploadAssumption

Phases == {"idle", "measure", "preupload", "batch", "upload", "body", "post", "ok", "error"}
PieceRecords == [at : {"todo", "put", "done", "failed"}, tries : Nat]
ObjectStates == {"todo", "parts", "complete", "verify", "stored"}

(* ------------------------------- the records ------------------------------ *)
LEMMA TalkFields ==
  ASSUME NEW t \in Talks
  PROVE  /\ t.phase \in Phases /\ t.tries \in Nat /\ t.attempt \in Nat /\ t.failed \in BOOLEAN
         /\ t.vanished \in SUBSET UpFiles /\ t.files \in SUBSET UpFiles /\ t.plan \in SUBSET UpFiles
         /\ t.mode \in [UpFiles -> Modes]
BY DEF Talks, Phases

\* The conversation is about the same files, and they travel as they did.
SameTalk(t, u) == t.vanished = u.vanished /\ t.files = u.files /\ t.plan = u.plan /\ t.mode = u.mode

LEMMA TalkGoesOn ==
  ASSUME NEW t \in Talks, NEW phase \in Phases, NEW u, u = [t EXCEPT !.phase = phase, !.tries = 0]
  PROVE  u \in Talks /\ u.phase = phase /\ SameTalk(u, t)
BY DEF Talks, Phases, SameTalk

LEMMA TalkTurns ==
  ASSUME NEW t \in Talks, NEW phase \in Phases, NEW u, u = [t EXCEPT !.phase = phase]
  PROVE  u \in Talks /\ u.phase = phase /\ SameTalk(u, t)
BY DEF Talks, Phases, SameTalk

LEMMA TalkRetries ==
  ASSUME NEW t \in Talks, NEW u, u = [t EXCEPT !.tries = @ + 1]
  PROVE  u \in Talks /\ u.phase = t.phase /\ SameTalk(u, t)
BY DEF Talks, Phases, SameTalk

LEMMA TalkFails ==
  ASSUME NEW t \in Talks, NEW u, u = [t EXCEPT !.failed = TRUE]
  PROVE  u \in Talks /\ u.phase = t.phase /\ SameTalk(u, t)
BY DEF Talks, Phases, SameTalk

LEMMA TalkIsNew ==
  ASSUME NEW n \in Nat
  PROVE  NewTalk(n) \in Talks /\ NewTalk(n).phase = "measure"
BY DEF NewTalk, Talks, Modes

\* A conversation that is given up starts again or ends in an error.
LEMMA GivenUp ==
  ASSUME UpTyped, GivesUp
  PROVE  up' \in Talks /\ up'.phase \in {"measure", "error"}
<1>1. up \in Talks /\ up.attempt + 1 \in Nat
  BY TalkFields DEF UpTyped
<1>2. CASE up.attempt < CommitTries
  <2>1. up' = NewTalk(up.attempt + 1)
    BY <1>2 DEF GivesUp
  <2> QED BY <2>1, <1>1, TalkIsNew
<1>3. CASE ~(up.attempt < CommitTries)
  <2>1. up' = [up EXCEPT !.phase = "error"]
    BY <1>3 DEF GivesUp
  <2>2. "error" \in Phases
    BY DEF Phases
  <2> QED BY <2>1, <2>2, <1>1, TalkTurns
<1> QED BY <1>2, <1>3

(* ------------------------------- the pieces ------------------------------- *)
LEMMA FlightOf ==
  \A f, i : <<f, i>> \in InFlight <=> f \in UpFiles /\ i \in DOMAIN piece[f] /\ piece[f][i].at = "put"
BY DEF InFlight

\* The pieces in flight are pairs, so that two of them are told apart by what they are.
LEMMA FlightIsPairs ==
  \A p \in InFlight : p = <<p[1], p[2]>>
BY DEF InFlight

\* One piece moves.
LEMMA OneMoves ==
  ASSUME UpTyped, NEW f \in UpFiles, NEW i \in DOMAIN piece[f], NEW r \in PieceRecords,
         piece' = [piece EXCEPT ![f] = [piece[f] EXCEPT ![i] = r]]
  PROVE  /\ piece' \in [UpFiles -> UNION {Parcels(g) : g \in UpFiles}]
         /\ \A g \in UpFiles : piece'[g] \in Parcels(g)
         /\ r.at = "put" => InFlight' \subseteq InFlight \union {<<f, i>>}
         /\ r.at # "put" => InFlight' \subseteq InFlight
<1> DEFINE q == [piece[f] EXCEPT ![i] = r]
<1>1. /\ \A g \in UpFiles : piece[g] \in Parcels(g)
      /\ piece \in [UpFiles -> UNION {Parcels(g) : g \in UpFiles}]
  BY DEF UpTyped
<1>2. piece[f] \in [1 .. Pieces[f] -> PieceRecords]
  BY <1>1 DEF Parcels, PieceRecords
<1>3. /\ q \in [1 .. Pieces[f] -> PieceRecords] /\ DOMAIN q = DOMAIN piece[f] /\ q[i] = r
      /\ \A j \in DOMAIN piece[f] : j # i => q[j] = piece[f][j]
  BY <1>2
<1>4. q \in Parcels(f)
  BY <1>3 DEF Parcels, PieceRecords
<1> HIDE DEF q
<1>5. /\ piece' \in [UpFiles -> UNION {Parcels(g) : g \in UpFiles}]
      /\ piece'[f] = q /\ \A g \in UpFiles : g # f => piece'[g] = piece[g]
  <2>1. piece' = [piece EXCEPT ![f] = q]
    BY DEF q
  <2>2. q \in UNION {Parcels(g) : g \in UpFiles}
    BY <1>4
  <2> QED BY <2>1, <2>2, <1>1
<1>6. \A g \in UpFiles : piece'[g] \in Parcels(g)
  BY <1>1, <1>4, <1>5
<1>7. \A p \in InFlight' : p \in InFlight \/ (p = <<f, i>> /\ r.at = "put")
  <2> SUFFICES ASSUME NEW g \in UpFiles, NEW j \in DOMAIN piece'[g], piece'[g][j].at = "put"
               PROVE  <<g, j>> \in InFlight \/ (<<g, j>> = <<f, i>> /\ r.at = "put")
    BY DEF InFlight
  <2> QED BY <1>3, <1>5, FlightOf
<1> QED BY <1>5, <1>6, <1>7

LEMMA PieceTypes ==
  ASSUME UpTyped, NEW f \in UpFiles
  PROVE  /\ DOMAIN piece[f] = 1 .. Pieces[f] /\ \A i \in DOMAIN piece[f] : piece[f][i] \in PieceRecords
BY DEF UpTyped, Parcels, PieceRecords

LEMMA Records ==
  /\ \A r \in PieceRecords, at \in {"todo", "put", "done", "failed"} :
       [r EXCEPT !.at = at] \in PieceRecords /\ [r EXCEPT !.at = at].at = at
  /\ \A r \in PieceRecords : \A n \in Nat :
       [r EXCEPT !.tries = n] \in PieceRecords /\ [r EXCEPT !.tries = n].at = r.at
  /\ \A r \in PieceRecords : r.tries + 1 \in Nat
BY DEF PieceRecords

LEMMA MoveOfOne ==
  ASSUME UpTyped, NEW f \in UpFiles, NEW i \in DOMAIN piece[f],
         NEW at \in {"todo", "put", "done", "failed"}, Moves(f, i, at)
  PROVE  /\ piece' \in [UpFiles -> UNION {Parcels(g) : g \in UpFiles}]
         /\ \A g \in UpFiles : piece'[g] \in Parcels(g)
         /\ at = "put" => InFlight' \subseteq InFlight \union {<<f, i>>}
         /\ at # "put" => InFlight' \subseteq InFlight
<1> DEFINE r == [piece[f][i] EXCEPT !.at = at]
<1>1. piece' = [piece EXCEPT ![f] = [piece[f] EXCEPT ![i] = r]]
  BY Zenon DEF Moves
<1>2. r \in PieceRecords /\ r.at = at
  <2>1. piece[f][i] \in PieceRecords
    BY PieceTypes
  <2> QED BY <2>1 DEF PieceRecords
<1> HIDE DEF r
<1> QED BY <1>1, <1>2, OneMoves

\* Nothing is in flight when the files are untouched.
LEMMA NothingInFlight ==
  ASSUME Anew
  PROVE  /\ object' \in [UpFiles -> ObjectStates] /\ object' = Quiet
         /\ piece' \in [UpFiles -> UNION {Parcels(f) : f \in UpFiles}]
         /\ \A f \in UpFiles : piece'[f] \in Parcels(f)
         /\ InFlight' = {}
<1>1. object' = Quiet /\ object' \in [UpFiles -> ObjectStates]
  BY DEF Anew, Quiet, ObjectStates
<1>2. \A f \in UpFiles : piece'[f] = [i \in 1 .. Pieces[f] |-> Apart] /\ piece'[f] \in Parcels(f)
  BY DEF Anew, Untouched, Apart, Parcels
<1>3. piece' \in [UpFiles -> UNION {Parcels(f) : f \in UpFiles}]
  BY <1>2 DEF Anew, Untouched
<1>4. InFlight' = {}
  <2> SUFFICES ASSUME NEW f \in UpFiles, NEW i \in DOMAIN piece'[f], piece'[f][i].at = "put"
               PROVE  FALSE
    BY DEF InFlight
  <2>1. piece'[f][i] = Apart
    BY <1>2
  <2> QED BY <2>1 DEF Apart
<1> QED BY <1>1, <1>2, <1>3, <1>4

(* ------------------------------- invariants ------------------------------- *)
\* The whole invariant follows from its parts that speak of the data.
LEMMA Parts ==
  ASSUME UpTyped, ObjectsAreWhole, UploadsArrive, NobodyIsForgotten, NoHole,
         IsFiniteSet(InFlight), OneBudget
  PROVE  UpInv
<1>1. UpTypeOK
  <2>1. \A c \in Range(commits) : c \subseteq UpFiles
    BY DEF UpTyped, Range
  <2>2. /\ up.phase \in Phases /\ up.files \in SUBSET UpFiles /\ up.plan \in SUBSET UpFiles
        /\ up.mode \in [UpFiles -> Modes]
    BY TalkFields DEF UpTyped
  <2>3. \A f \in UpFiles : \A i \in DOMAIN piece[f] : piece[f][i].at \in {"todo", "put", "done", "failed"}
    BY PieceTypes DEF PieceRecords
  <2> QED BY <2>1, <2>2, <2>3 DEF UpTypeOK, Phases, UpTyped
<1>2. NamedIsStored
  BY DEF UploadsArrive, NamedIsStored, Named, Large
<1> QED BY <1>1, <1>2 DEF UpInv, CommitIsWhole

LEMMA PartsNext ==
  ASSUME UpTyped', ObjectsAreWhole', UploadsArrive', NobodyIsForgotten', NoHole',
         IsFiniteSet(InFlight)', OneBudget'
  PROVE  UpInv'
BY Parts, PTL

\* Fewer pieces in flight, or one more where there is room.
LEMMA BudgetKept ==
  ASSUME IsFiniteSet(InFlight), OneBudget, InFlight' \subseteq InFlight
  PROVE  IsFiniteSet(InFlight)' /\ OneBudget'
<1>1. /\ IsFiniteSet(InFlight') /\ Cardinality(InFlight') <= Cardinality(InFlight)
      /\ Cardinality(InFlight') \in Nat /\ Cardinality(InFlight) \in Nat
  BY FS_Subset, FS_CardinalityType
<1> QED BY <1>1, ThereAreSlots DEF OneBudget

LEMMA BudgetTaken ==
  ASSUME IsFiniteSet(InFlight), NEW p, InFlight' \subseteq InFlight \union {p},
         Cardinality(InFlight) < Slots
  PROVE  IsFiniteSet(InFlight)' /\ OneBudget'
<1> DEFINE more == InFlight \union {p}
<1>1. /\ IsFiniteSet(more) /\ Cardinality(more) <= Cardinality(InFlight) + 1
      /\ Cardinality(InFlight) \in Nat /\ Cardinality(more) \in Nat
  <2>1. Cardinality(InFlight) \in Nat
    BY FS_CardinalityType
  <2>2. /\ IsFiniteSet(more)
        /\ Cardinality(more) = IF p \in InFlight THEN Cardinality(InFlight) ELSE Cardinality(InFlight) + 1
    BY FS_AddElement
  <2> QED BY <2>1, <2>2
<1> HIDE DEF more
<1>2. /\ IsFiniteSet(InFlight') /\ Cardinality(InFlight') <= Cardinality(more)
      /\ Cardinality(InFlight') \in Nat
  <2>1. InFlight' \subseteq more
    BY DEF more
  <2> QED BY <2>1, <1>1, FS_Subset, FS_CardinalityType
<1> QED BY <1>1, <1>2, ThereAreSlots DEF OneBudget

\* The conversation stays where it is: pieces move, files go away.
LEMMA StaysInPhase ==
  ASSUME UpInv, UpTyped', IsFiniteSet(InFlight)', OneBudget',
         up'.phase = up.phase, SameTalk(up', up), UNCHANGED <<store, commits, object>>
  PROVE  UpInv'
<1>1. ObjectsAreWhole'
  BY DEF UpInv, ObjectsAreWhole
<1>2. UploadsArrive'
  BY DEF UpInv, UploadsArrive, Large, SameTalk
<1>3. NobodyIsForgotten'
  BY DEF UpInv, NobodyIsForgotten, SameTalk
<1>4. NoHole'
  BY DEF UpInv, CommitIsWhole, NoHole, SameTalk
<1> QED BY <1>1, <1>2, <1>3, <1>4, PartsNext

\* It starts again or ends in an error, with nothing in flight or everything as it is.
LEMMA GivingUpKeeps ==
  ASSUME UpInv, GivesUp, Anew \/ UNCHANGED <<object, piece>>,
         UNCHANGED <<disk, store>>, commits' \in Seq(SUBSET UpFiles)
  PROVE  UpInv'
<1>1. up' \in Talks /\ up'.phase \in {"measure", "error"}
  BY GivenUp DEF UpInv
<1>2. CASE Anew
  <2>1. /\ object' \in [UpFiles -> ObjectStates] /\ object' = Quiet
        /\ piece' \in [UpFiles -> UNION {Parcels(f) : f \in UpFiles}]
        /\ \A f \in UpFiles : piece'[f] \in Parcels(f)
        /\ InFlight' = {}
    BY <1>2, NothingInFlight
  <2>2. UpTyped'
    BY <2>1, <1>1 DEF UpInv, UpTyped, ObjectStates
  <2>3. \A f \in UpFiles : object'[f] = "todo"
    BY <2>1 DEF Quiet
  <2>4. ObjectsAreWhole' /\ UploadsArrive' /\ NobodyIsForgotten' /\ NoHole'
    BY <1>1, <2>3 DEF ObjectsAreWhole, UploadsArrive, NobodyIsForgotten, NoHole
  <2>5. IsFiniteSet(InFlight)' /\ OneBudget'
    BY <2>1, BudgetKept DEF UpInv, CommitIsWhole
  <2> QED BY <2>2, <2>4, <2>5, PartsNext
<1>3. CASE UNCHANGED <<object, piece>>
  <2>1. UpTyped'
    BY <1>1, <1>3 DEF UpInv, UpTyped
  <2>2. ObjectsAreWhole' /\ UploadsArrive' /\ NobodyIsForgotten' /\ NoHole'
    BY <1>1, <1>3 DEF UpInv, ObjectsAreWhole, UploadsArrive, NobodyIsForgotten, NoHole
  <2>3. InFlight' = InFlight
    BY <1>3 DEF InFlight
  <2>4. IsFiniteSet(InFlight)' /\ OneBudget'
    BY <2>3, BudgetKept DEF UpInv, CommitIsWhole
  <2> QED BY <2>1, <2>2, <2>4, PartsNext
<1> QED BY <1>2, <1>3

(* ---------------------------- the pieces' steps --------------------------- *)
LEMMA TakeSlotKeeps ==
  ASSUME UpInv, NEW f \in UpFiles, NEW i \in 1 .. Pieces[f], TakeSlot(f, i)
  PROVE  UpInv'
<1>0. UpTyped /\ up \in Talks /\ i \in DOMAIN piece[f]
  BY PieceTypes DEF UpInv, UpTyped
<1>1. UNCHANGED <<disk, store, commits, object>> /\ Cardinality(InFlight) < Slots
  BY DEF TakeSlot, Free
<1>2. CASE f \in disk
  <2>1. Moves(f, i, "put") /\ UNCHANGED up
    BY <1>2 DEF TakeSlot
  <2>2. /\ piece' \in [UpFiles -> UNION {Parcels(g) : g \in UpFiles}]
        /\ \A g \in UpFiles : piece'[g] \in Parcels(g)
        /\ InFlight' \subseteq InFlight \union {<<f, i>>}
    BY <2>1, <1>0, MoveOfOne
  <2>3. UpTyped'
    BY <2>1, <2>2, <1>1 DEF UpInv, UpTyped
  <2>4. IsFiniteSet(InFlight)' /\ OneBudget'
    BY <2>2, <1>1, BudgetTaken DEF UpInv
  <2>5. up'.phase = up.phase /\ SameTalk(up', up)
    BY <2>1 DEF SameTalk
  <2> QED BY <2>3, <2>4, <2>5, <1>1, StaysInPhase
<1>3. CASE f \notin disk
  <2>1. Moves(f, i, "failed") /\ up' = [up EXCEPT !.failed = TRUE]
    BY <1>3 DEF TakeSlot, PieceFails
  <2>2. /\ piece' \in [UpFiles -> UNION {Parcels(g) : g \in UpFiles}]
        /\ \A g \in UpFiles : piece'[g] \in Parcels(g)
        /\ InFlight' \subseteq InFlight
    BY <2>1, <1>0, MoveOfOne
  <2>3. up' \in Talks /\ up'.phase = up.phase /\ SameTalk(up', up)
    BY <2>1, <1>0, TalkFails
  <2>4. UpTyped'
    BY <2>2, <2>3, <1>1 DEF UpInv, UpTyped
  <2>5. IsFiniteSet(InFlight)' /\ OneBudget'
    BY <2>2, BudgetKept DEF UpInv, CommitIsWhole
  <2> QED BY <2>3, <2>4, <2>5, <1>1, StaysInPhase
<1> QED BY <1>2, <1>3

\* A piece that arrived, or failed, or is tried again.
LEMMA PutKeeps ==
  ASSUME UpInv, NEW f \in UpFiles, NEW i \in 1 .. Pieces[f],
         PutBytes(f, i) \/ PutEnds(f, i) \/ PutFails(f, i) \/ PutRefused(f, i)
  PROVE  UpInv'
<1>0. UpTyped /\ up \in Talks /\ i \in DOMAIN piece[f] /\ piece[f][i] \in PieceRecords
  BY PieceTypes DEF UpInv, UpTyped
<1>1. UNCHANGED <<disk, store, commits, object>> /\ piece[f][i].at = "put"
  BY DEF PutBytes, PutEnds, PutFails, PutRefused
<1>2. up' \in Talks /\ up'.phase = up.phase /\ SameTalk(up', up)
  <2>1. up' = up \/ up' = [up EXCEPT !.failed = TRUE]
    BY DEF PutBytes, PutEnds, PutFails, PutRefused, PieceFails
  <2>2. CASE up' = up
    BY <2>2, <1>0 DEF SameTalk
  <2>3. CASE up' = [up EXCEPT !.failed = TRUE]
    BY <2>3, <1>0, TalkFails
  <2> QED BY <2>1, <2>2, <2>3
<1>3. /\ piece' \in [UpFiles -> UNION {Parcels(g) : g \in UpFiles}]
      /\ \A g \in UpFiles : piece'[g] \in Parcels(g)
      /\ InFlight' \subseteq InFlight
  <2>1. \/ Moves(f, i, "done") \/ Moves(f, i, "failed")
        \/ piece' = [piece EXCEPT ![f][i].tries = @ + 1]
    BY DEF PutBytes, PutEnds, PutFails, PutRefused, PieceFails
  <2>2. CASE Moves(f, i, "done") \/ Moves(f, i, "failed")
    BY <2>2, <1>0, MoveOfOne
  <2>3. CASE piece' = [piece EXCEPT ![f][i].tries = @ + 1]
    <3> DEFINE r == [piece[f][i] EXCEPT !.tries = @ + 1]
    <3>1. piece' = [piece EXCEPT ![f] = [piece[f] EXCEPT ![i] = r]]
      BY <2>3, Zenon
    <3>2. r \in PieceRecords /\ r.at = "put"
      BY <1>0, <1>1, Records, Zenon
    <3> HIDE DEF r
    <3>3. <<f, i>> \in InFlight
      BY <1>0, <1>1, FlightOf
    <3> QED BY <3>1, <3>2, <3>3, <1>0, OneMoves
  <2> QED BY <2>1, <2>2, <2>3
<1>4. UpTyped'
  BY <1>1, <1>2, <1>3 DEF UpInv, UpTyped
<1>5. IsFiniteSet(InFlight)' /\ OneBudget'
  BY <1>3, BudgetKept DEF UpInv, CommitIsWhole
<1> QED BY <1>1, <1>2, <1>4, <1>5, StaysInPhase

(* ------------------------- the conversation's steps ----------------------- *)
\* The pieces are where they were.
LEMMA FlightStays ==
  ASSUME UpInv, UNCHANGED piece
  PROVE  IsFiniteSet(InFlight)' /\ OneBudget'
<1>1. InFlight' = InFlight
  BY DEF InFlight
<1> QED BY <1>1, BudgetKept DEF UpInv, CommitIsWhole

LEMMA CommitBegins ==
  ASSUME UpInv, createCommitGo
  PROVE  UpInv'
<1>1. /\ up.phase = "idle" /\ up' = NewTalk(1) /\ UNCHANGED <<disk, commits, object, piece, upFaults>>
      /\ DOMAIN store' = UpFiles
  BY DEF createCommitGo
<1>2. up' \in Talks /\ up'.phase = "measure"
  BY <1>1, TalkIsNew
<1>3. UpTyped'
  BY <1>1, <1>2 DEF UpInv, UpTyped
<1>4. ObjectsAreWhole'
  <2>1. \A f \in UpFiles : object[f] = "todo"
    BY <1>1 DEF UpInv, ObjectsAreWhole, Quiet
  <2> QED BY <2>1, <1>1, <1>2 DEF ObjectsAreWhole
<1>5. UploadsArrive' /\ NobodyIsForgotten' /\ NoHole'
  BY <1>2 DEF UploadsArrive, NobodyIsForgotten, NoHole
<1> QED BY <1>1, <1>3, <1>4, <1>5, FlightStays, PartsNext

LEMMA VanishKeeps ==
  ASSUME UpInv, Vanish
  PROVE  UpInv'
<1>1. disk' \subseteq UpFiles /\ UNCHANGED <<store, commits, up, object, piece>>
  BY DEF Vanish, UpInv, UpTyped
<1>2. UpTyped'
  BY <1>1 DEF UpInv, UpTyped
<1> QED BY <1>1, <1>2, FlightStays, StaysInPhase DEF SameTalk

LEMMA MeasureKeeps ==
  ASSUME UpInv, measureFile
  PROVE  UpInv'
<1>1. /\ up \in Talks /\ up.phase = "measure" /\ commits \in Seq(SUBSET UpFiles)
      /\ UNCHANGED <<disk, store, commits, object, piece, upFaults>>
  BY DEF measureFile, UpInv, UpTyped
<1>2. CASE disk = {}
  BY <1>1, <1>2, GivingUpKeeps DEF measureFile
<1>3. CASE disk # {}
  <2>1. up' = [up EXCEPT !.phase = "preupload", !.files = disk, !.vanished = UpFiles \ disk]
    BY <1>3 DEF measureFile
  <2>2. up' \in Talks /\ up'.phase = "preupload" /\ UpFiles \ up'.files \subseteq up'.vanished
    BY <2>1, <1>1 DEF UpInv, UpTyped, Talks
  <2>3. UpTyped'
    BY <1>1, <2>2 DEF UpInv, UpTyped
  <2>4. ObjectsAreWhole' /\ UploadsArrive' /\ NobodyIsForgotten' /\ NoHole'
    BY <1>1, <2>2 DEF UpInv, ObjectsAreWhole, UploadsArrive, NobodyIsForgotten, NoHole
  <2> QED BY <1>1, <2>3, <2>4, FlightStays, PartsNext
<1> QED BY <1>2, <1>3

LEMMA PreuploadKeeps ==
  ASSUME UpInv, preupload
  PROVE  UpInv'
<1>1. /\ up \in Talks /\ up.phase = "preupload" /\ commits \in Seq(SUBSET UpFiles)
      /\ UNCHANGED <<disk, store, commits, object, piece>>
  BY DEF preupload, UpInv, UpTyped
<1>2. PICK answer \in [up.files -> Modes] :
        IF Accepted(answer)
        THEN up' = [up EXCEPT !.mode = [f \in UpFiles |-> IF f \in up.files THEN answer[f] ELSE @[f]],
                               !.tries = 0, !.phase =
                      IF \E f \in up.files : answer[f] = "lfs" THEN "batch" ELSE "body"]
        ELSE GivesUp
  BY DEF preupload
<1>3. CASE ~Accepted(answer)
  BY <1>1, <1>2, <1>3, GivingUpKeeps
<1>4. CASE Accepted(answer)
  <2> DEFINE mode == [f \in UpFiles |-> IF f \in up.files THEN answer[f] ELSE up.mode[f]]
             phase == IF \E f \in up.files : answer[f] = "lfs" THEN "batch" ELSE "body"
  <2>1. /\ up.files \in SUBSET UpFiles /\ up.mode \in [UpFiles -> Modes]
    BY <1>1, TalkFields
  <2>2. mode \in [UpFiles -> Modes] /\ \A f \in up.files : mode[f] = answer[f]
    BY <2>1
  <2>3. phase \in {"batch", "body"} /\ (phase = "body" => \A f \in up.files : mode[f] # "lfs")
    BY <2>2
  <2>4. up' = [up EXCEPT !.mode = mode, !.tries = 0, !.phase = phase]
    BY <1>2, <1>4, Zenon
  <2> HIDE DEF mode, phase
  <2>5. /\ up' \in Talks /\ up'.phase = phase /\ up'.mode = mode /\ up'.files = up.files
        /\ up'.vanished = up.vanished
    BY <2>2, <2>3, <2>4, <1>1 DEF Talks
  <2>6. UpTyped'
    BY <1>1, <2>5 DEF UpInv, UpTyped
  <2>7. ObjectsAreWhole' /\ NobodyIsForgotten' /\ NoHole'
    BY <1>1, <2>3, <2>5 DEF UpInv, ObjectsAreWhole, NobodyIsForgotten, NoHole
  <2>8. UploadsArrive'
    BY <2>3, <2>5 DEF UploadsArrive, Large
  <2> QED BY <1>1, <2>6, <2>7, <2>8, FlightStays, PartsNext
<1> QED BY <1>3, <1>4

LEMMA BatchKeeps ==
  ASSUME UpInv, lfsBatch
  PROVE  UpInv'
<1> DEFINE plan == {f \in Large : store[f] # Order(f)}
<1>1. /\ up \in Talks /\ up.phase = "batch" /\ UNCHANGED <<disk, store, commits, piece, upFaults>>
      /\ up' = [up EXCEPT !.phase = "upload", !.tries = 0, !.plan = plan]
      /\ object' = [f \in UpFiles |-> IF f \in up'.plan THEN "parts" ELSE "todo"]
  BY DEF lfsBatch, UpInv, UpTyped
<1>2. up.files \in SUBSET UpFiles
  BY <1>1, TalkFields
<1>3. plan \in SUBSET UpFiles /\ \A f \in Large : f \in plan \/ store[f] = Order(f)
  BY <1>2 DEF Large
<1> HIDE DEF plan
<1>4. /\ up' \in Talks /\ up'.phase = "upload" /\ up'.files = up.files /\ up'.mode = up.mode
      /\ up'.vanished = up.vanished /\ up'.plan = plan
  BY <1>1, <1>3 DEF Talks
<1>5. UpTyped'
  BY <1>1, <1>4 DEF UpInv, UpTyped
<1>6. \A f \in UpFiles : object'[f] \in {"parts", "todo"}
  BY <1>1
<1>7. ObjectsAreWhole' /\ NobodyIsForgotten' /\ NoHole'
  BY <1>1, <1>4, <1>6 DEF UpInv, ObjectsAreWhole, NobodyIsForgotten, NoHole
<1>8. UploadsArrive'
  BY <1>1, <1>3, <1>4 DEF UploadsArrive, Large
<1> QED BY <1>1, <1>5, <1>7, <1>8, FlightStays, PartsNext

\* An object whose parts are all there is the whole of it.
LEMMA MultipartKeeps ==
  ASSUME UpInv, NEW f \in UpFiles, uploadMultipart(f)
  PROVE  UpInv'
<1> DEFINE whole == [i \in {i \in DOMAIN piece[f] : piece[f][i].at = "done"} |-> i]
<1>0. UpTyped
  BY DEF UpInv
<1>1. /\ object[f] = "parts" /\ AllPut(f) /\ store' = [store EXCEPT ![f] = whole]
      /\ object' = [object EXCEPT ![f] = "verify"] /\ UNCHANGED <<disk, commits, up, piece, upFaults>>
  BY Zenon DEF uploadMultipart
<1>2. whole = Order(f)
  <2>1. {i \in DOMAIN piece[f] : piece[f][i].at = "done"} = 1 .. Pieces[f]
    BY <1>0, <1>1, PieceTypes DEF AllPut
  <2> QED BY <2>1, Zenon DEF Order
<1> HIDE DEF whole
<1>3. /\ DOMAIN store' = UpFiles /\ store'[f] = Order(f)
      /\ \A g \in UpFiles : g # f => store'[g] = store[g]
      /\ object' \in [UpFiles -> ObjectStates] /\ \A g \in UpFiles : g # f => object'[g] = object[g]
  BY <1>0, <1>1, <1>2 DEF UpTyped, ObjectStates
<1>4. UpTyped'
  BY <1>1, <1>3 DEF UpInv, UpTyped, ObjectStates
<1>5. ObjectsAreWhole'
  <2>1. up.phase # "idle"
    BY <1>1 DEF UpInv, ObjectsAreWhole, Quiet
  <2> QED BY <2>1, <1>1, <1>3 DEF UpInv, ObjectsAreWhole
<1>6. UploadsArrive'
  <2>1. \A g \in UpFiles : store[g] = Order(g) => store'[g] = Order(g)
    BY <1>3
  <2>2. Large' = Large /\ Large \subseteq UpFiles
    BY <1>0, <1>1, TalkFields DEF Large, UpTyped
  <2> QED BY <2>1, <2>2, <1>1 DEF UpInv, UploadsArrive, Order
<1>7. NobodyIsForgotten' /\ NoHole'
  BY <1>1 DEF UpInv, NobodyIsForgotten, CommitIsWhole, NoHole
<1> QED BY <1>1, <1>4, <1>5, <1>6, <1>7, FlightStays, PartsNext

LEMMA VerifyKeeps ==
  ASSUME UpInv, NEW f \in UpFiles, Verify(f)
  PROVE  UpInv'
<1>1. /\ object[f] = "verify" /\ object' = [object EXCEPT ![f] = "stored"]
      /\ UNCHANGED <<disk, store, commits, up, piece, upFaults>>
  BY DEF Verify
<1>2. UpTyped'
  BY <1>1 DEF UpInv, UpTyped
<1>3. ObjectsAreWhole'
  <2>1. up.phase # "idle" /\ store[f] = Order(f)
    BY <1>1 DEF UpInv, ObjectsAreWhole, Quiet
  <2> QED BY <2>1, <1>1 DEF UpInv, UpTyped, ObjectsAreWhole, Order
<1>4. UploadsArrive' /\ NobodyIsForgotten' /\ NoHole'
  BY <1>1 DEF UpInv, UploadsArrive, Large, NobodyIsForgotten, CommitIsWhole, NoHole
<1> QED BY <1>1, <1>2, <1>3, <1>4, FlightStays, PartsNext

\* A failure of the group, and a request that is sent again.
LEMMA RetriesKeep ==
  ASSUME UpInv, \/ up' = [up EXCEPT !.failed = TRUE] /\ UNCHANGED commits
                \/ up' = [up EXCEPT !.tries = @ + 1] /\ up.phase # "ok" /\ commits' \in Seq(SUBSET UpFiles),
         UNCHANGED <<disk, store, object, piece>>
  PROVE  UpInv'
<1>1. up' \in Talks /\ up'.phase = up.phase /\ SameTalk(up', up)
  <2>1. up \in Talks
    BY DEF UpInv, UpTyped
  <2> QED BY <2>1, TalkRetries, TalkFails
<1>2. UpTyped'
  BY <1>1 DEF UpInv, UpTyped
<1>3. ObjectsAreWhole' /\ UploadsArrive' /\ NobodyIsForgotten'
  BY <1>1 DEF UpInv, ObjectsAreWhole, UploadsArrive, Large, NobodyIsForgotten, SameTalk
<1>4. NoHole'
  BY <1>1 DEF UpInv, CommitIsWhole, NoHole, SameTalk
<1> QED BY <1>2, <1>3, <1>4, FlightStays, PartsNext

LEMMA UploadedKeeps ==
  ASSUME UpInv, Uploaded
  PROVE  UpInv'
<1>1. /\ up \in Talks /\ up.phase = "upload" /\ AllIn /\ GoesOn("body")
      /\ UNCHANGED <<disk, store, commits, object, piece, upFaults>>
  BY DEF Uploaded, UpInv, UpTyped
<1>2. up' \in Talks /\ up'.phase = "body" /\ SameTalk(up', up)
  <2>1. "body" \in Phases
    BY DEF Phases
  <2> QED BY <2>1, <1>1, TalkGoesOn DEF GoesOn
<1>3. UpTyped'
  BY <1>1, <1>2 DEF UpInv, UpTyped
<1>4. ObjectsAreWhole' /\ NobodyIsForgotten' /\ NoHole'
  BY <1>1, <1>2 DEF UpInv, ObjectsAreWhole, NobodyIsForgotten, NoHole, SameTalk
<1>5. UploadsArrive'
  <2>1. Large' = Large /\ up.plan \in SUBSET UpFiles
    BY <1>1, <1>2, TalkFields DEF Large, SameTalk
  <2>2. \A f \in Large : store[f] = Order(f)
    BY <2>1, <1>1 DEF UpInv, UploadsArrive, ObjectsAreWhole, AllIn
  <2> QED BY <2>1, <2>2, <1>1, <1>2 DEF UploadsArrive, Order
<1> QED BY <1>1, <1>3, <1>4, <1>5, FlightStays, PartsNext

LEMMA BodyKeeps ==
  ASSUME UpInv, commitNDJSON
  PROVE  UpInv'
<1>1. /\ up \in Talks /\ up.phase = "body" /\ commits \in Seq(SUBSET UpFiles)
      /\ UNCHANGED <<disk, store, commits, upFaults>>
  BY DEF commitNDJSON, UpInv, UpTyped
<1>2. CASE \E f \in up.files : Unreadable(f)
  BY <1>1, <1>2, GivingUpKeeps DEF commitNDJSON
<1>3. CASE ~ \E f \in up.files : Unreadable(f)
  <2>1. GoesOn("post") /\ UNCHANGED <<object, piece>>
    BY <1>3 DEF commitNDJSON
  <2>2. up' \in Talks /\ up'.phase = "post" /\ SameTalk(up', up)
    <3>1. "post" \in Phases
      BY DEF Phases
    <3> QED BY <3>1, <2>1, <1>1, TalkGoesOn DEF GoesOn
  <2>3. UpTyped'
    BY <1>1, <2>1, <2>2 DEF UpInv, UpTyped
  <2>4. ObjectsAreWhole' /\ NobodyIsForgotten' /\ NoHole'
    BY <1>1, <2>1, <2>2 DEF UpInv, ObjectsAreWhole, NobodyIsForgotten, NoHole, SameTalk
  <2>5. UploadsArrive'
    BY <1>1, <2>2 DEF UpInv, UploadsArrive, Large, SameTalk
  <2> QED BY <2>1, <2>3, <2>4, <2>5, FlightStays, PartsNext
<1> QED BY <1>2, <1>3

\* The commit names every file of the conversation that the hub does not ignore.
LEMMA CommitOf ==
  ASSUME UpInv
  PROVE  /\ Append(commits, Named) \in Seq(SUBSET UpFiles)
         /\ Last(Append(commits, Named)) = Named
<1>1. Named \in SUBSET UpFiles /\ commits \in Seq(SUBSET UpFiles)
  BY TalkFields DEF UpInv, UpTyped, Named
<1> QED BY <1>1 DEF Last

LEMMA PostKeeps ==
  ASSUME UpInv, Post
  PROVE  UpInv'
<1>1. /\ up \in Talks /\ up.phase = "post" /\ GoesOn("ok") /\ commits' = Append(commits, Named)
      /\ UNCHANGED <<disk, store, object, piece, upFaults>>
  BY DEF Post, UpInv, UpTyped
<1>2. up' \in Talks /\ up'.phase = "ok" /\ SameTalk(up', up)
  <2>1. "ok" \in Phases
    BY DEF Phases
  <2> QED BY <2>1, <1>1, TalkGoesOn DEF GoesOn
<1>3. UpTyped'
  BY <1>1, <1>2, CommitOf DEF UpInv, UpTyped
<1>4. ObjectsAreWhole' /\ UploadsArrive' /\ NobodyIsForgotten'
  BY <1>1, <1>2 DEF UpInv, ObjectsAreWhole, UploadsArrive, NobodyIsForgotten, SameTalk
<1>5. NoHole'
  <2> SUFFICES ASSUME NEW f \in UpFiles
               PROVE  f \in Last(commits') \/ f \in up'.vanished \/ up'.mode[f] = "ignore"
    BY DEF NoHole
  <2>1. f \in up.files \/ f \in up.vanished
    BY <1>1 DEF UpInv, NobodyIsForgotten
  <2>2. Last(commits') = Named
    BY <1>1, CommitOf
  <2> QED BY <2>1, <2>2, <1>2 DEF Named, SameTalk
<1> QED BY <1>1, <1>3, <1>4, <1>5, FlightStays, PartsNext

\* No answer, busy or refused: once more, or from the start.
LEMMA SendsKeep ==
  ASSUME UpInv, PostUnanswered \/ SendBusy \/ SendRefused
  PROVE  UpInv'
<1>1. /\ UNCHANGED <<disk, store>> /\ commits' \in Seq(SUBSET UpFiles) /\ up.phase # "ok"
  BY CommitOf DEF PostUnanswered, SendBusy, SendRefused, UpInv, UpTyped
<1>2. \/ up' = [up EXCEPT !.tries = @ + 1] /\ UNCHANGED <<object, piece>>
      \/ GivesUp /\ Anew
  BY DEF PostUnanswered, SendBusy, SendRefused
<1> QED BY <1>1, <1>2, RetriesKeep, GivingUpKeeps

LEMMA CompleteFailsKeeps ==
  ASSUME UpInv, NEW f \in UpFiles, CompleteFails(f)
  PROVE  UpInv'
BY RetriesKeep DEF CompleteFails

LEMMA UploadFailsKeeps ==
  ASSUME UpInv, UploadFails
  PROVE  UpInv'
BY GivingUpKeeps DEF UploadFails, UpInv, UpTyped

(* -------------------------------- theorems -------------------------------- *)
LEMMA UploadStarts ==
  ASSUME UpInit
  PROVE  UpInv
<1>1. /\ disk = UpFiles /\ commits = <<>> /\ store = [f \in UpFiles |-> <<>>] /\ object = Quiet
      /\ piece = Untouched /\ up = [NewTalk(1) EXCEPT !.phase = "idle"]
  BY DEF UpInit
<1>2. up \in Talks /\ up.phase = "idle"
  BY <1>1 DEF NewTalk, Talks, Modes
<1>3. /\ \A f \in UpFiles : piece[f] = [i \in 1 .. Pieces[f] |-> Apart] /\ piece[f] \in Parcels(f)
      /\ piece \in [UpFiles -> UNION {Parcels(f) : f \in UpFiles}]
  <2>1. \A f \in UpFiles : piece[f] = [i \in 1 .. Pieces[f] |-> Apart] /\ piece[f] \in Parcels(f)
    BY <1>1 DEF Untouched, Apart, Parcels
  <2> QED BY <2>1, <1>1 DEF Untouched
<1>4. UpTyped
  BY <1>1, <1>2, <1>3 DEF UpTyped, Quiet
<1>5. ObjectsAreWhole /\ UploadsArrive /\ NobodyIsForgotten /\ NoHole
  BY <1>1, <1>2 DEF ObjectsAreWhole, UploadsArrive, NobodyIsForgotten, NoHole, Quiet
<1>6. InFlight = {}
  <2> SUFFICES ASSUME NEW f \in UpFiles, NEW i \in DOMAIN piece[f], piece[f][i].at = "put"
               PROVE  FALSE
    BY DEF InFlight
  <2>1. piece[f][i] = Apart
    BY <1>3
  <2> QED BY <2>1 DEF Apart
<1>7. IsFiniteSet(InFlight) /\ OneBudget
  BY <1>6, FS_EmptySet, ThereAreSlots DEF OneBudget
<1> QED BY <1>4, <1>5, <1>7, Parts

LEMMA UploadSteps ==
  ASSUME UpInv, [UpNext]_upVars
  PROVE  UpInv'
<1>1. ASSUME createCommitGo \/ measureFile \/ preupload \/ lfsBatch \/ Uploaded \/ commitNDJSON \/ Post
      PROVE  UpInv'
  BY <1>1, CommitBegins, MeasureKeeps, PreuploadKeeps, BatchKeeps, UploadedKeeps, BodyKeeps, PostKeeps
<1>2. ASSUME Vanish \/ UploadFails \/ PostUnanswered \/ SendBusy \/ SendRefused
      PROVE  UpInv'
  BY <1>2, VanishKeeps, UploadFailsKeeps, SendsKeep
<1>3. ASSUME NEW f \in UpFiles, uploadMultipart(f) \/ Verify(f) \/ CompleteFails(f)
      PROVE  UpInv'
  BY <1>3, MultipartKeeps, VerifyKeeps, CompleteFailsKeeps
<1>4. ASSUME NEW f \in UpFiles, NEW i \in 1 .. Pieces[f],
             UpPiece(f, i) \/ PutFails(f, i) \/ PutRefused(f, i)
      PROVE  UpInv'
  BY <1>4, TakeSlotKeeps, PutKeeps DEF UpPiece
<1>5. ASSUME UNCHANGED upVars
      PROVE  UpInv'
  <2>1. UpTyped' /\ UNCHANGED <<store, commits, object, piece>> /\ up'.phase = up.phase /\ SameTalk(up', up)
    BY <1>5 DEF upVars, UpInv, UpTyped, SameTalk
  <2> QED BY <2>1, FlightStays, StaysInPhase
<1> QED BY <1>1, <1>2, <1>3, <1>4, <1>5 DEF UpNext, UpSure

(* The conversation keeps its invariant in every step.                         *)
THEOREM UploadInductive == UpSpec => []UpInv
<1>1. UpInit => UpInv
  BY UploadStarts
<1>2. UpInv /\ [UpNext]_upVars => UpInv'
  BY UploadSteps
<1> QED BY <1>1, <1>2, PTL DEF UpSpec

(* No commit names an object that is not stored whole, a commit that succeeds  *)
(* has no hole, and the connections stay under one budget.                     *)
THEOREM CommitsAreWhole == UpSpec => []CommitIsWhole
<1>1. UpInv => CommitIsWhole
  BY DEF UpInv
<1> QED BY <1>1, UploadInductive, PTL

-----------------------------------------------------------------------------
(* The ledgers of a fleet: each row counts what its server has on the hub,    *)
(* and the card counts what the rows do, by sums over any set of ledgers      *)
(* (LedgersHold).                                                             *)
\* What a ledger's row, and a publisher's look at another ledger, may be.
Row == [files : Nat, at : 0 .. FleetCommits]
SeenRow == [of : Ledgers, row : Row]

\* The states of a publisher.
PublisherState ==
  [at : {"down", "idle", "list", "peers", "commit"}, ledger : Ledgers, stat : Row,
   batch : 0 .. FleetBatch, todo : SUBSET Ledgers, seen : SUBSET SeenRow, landed : BOOLEAN]

\* The part that says of each piece of state what it may be.
HubTyped ==
  /\ DOMAIN repo = {"rows", "files", "card", "commits"} /\ repo.commits \in Nat
  /\ repo.rows \in [Ledgers -> Row] /\ repo.files \in [Ledgers -> Nat]
  /\ DOMAIN fleet = {"faults", "exact"} /\ fleet.exact \in BOOLEAN
  /\ publisher \in [Servers -> PublisherState]

\* A publisher is at work from its look at the ledgers to the commit.
AtWork(p) == p.at \in {"list", "peers", "commit"}

\* A publisher writes a ledger of its own server, and looks at each of the others once.
LooksOnce(s, p) ==
  /\ p.at # "down" => p.ledger.server = s
  /\ p.todo \subseteq Present
  /\ p.at = "list" => p.seen = {}
  /\ AtWork(p) =>
       /\ p.batch >= 1 /\ p.stat.at >= 1
       /\ \A r \in p.seen : r.of # p.ledger /\ r.of \in Present
       /\ \A q, r \in p.seen : q.of = r.of => q = r
       /\ p.at # "list" => p.ledger \notin p.todo /\ \A r \in p.seen : r.of \notin p.todo

\* Its row counts what its server has on the hub, with the batch once, and the rows it has
\* of the others are behind at most.
CountsRight(p) ==
  /\ p.at = "idle" => p.stat.files = repo.files[p.ledger]
  /\ AtWork(p) =>
       /\ p.stat.files = repo.files[p.ledger] + (IF p.landed THEN 0 ELSE p.batch)
       /\ \A r \in p.seen : r.row.files <= repo.files[r.of]

\* The inductive invariant: a row is as good as its server's account of itself.
FleetInv ==
  /\ HubTyped /\ CardUndercounts
  /\ \A s \in Servers : LooksOnce(s, publisher[s])
  /\ fleet.exact =>
       /\ LedgersAreExact
       /\ \A l \in Ledgers : repo.rows[l].at = 0 => repo.files[l] = 0
       /\ \A s \in Servers : CountsRight(publisher[s])
-----------------------------------------------------------------------------
\* Rows of different ledgers, each of which counts no more than there is, come to no more
\* than there is.
LEMMA RowsUndercount ==
  ASSUME NEW X, X \subseteq SeenRow, \A q, r \in X : q.of = r.of => q = r,
         NEW F \in [Ledgers -> Nat], \A r \in X : r.row.files <= F[r.of]
  PROVE  /\ IsFiniteSet(X)
         /\ TotalRecrawlStats(X) <= SumFunctionOnSet(F, Ledgers)
<1> DEFINE Of == {r.of : r \in X}
           h == [r \in X |-> r.of]
           f == [r \in X |-> r.row.files]
           f2 == [r \in X |-> F[r.of]]
<1>1. IsFiniteSet(Ledgers) /\ Of \in SUBSET Ledgers
  BY FleetAssumption DEF SeenRow
<1>2. h \in Bijection(X, Of)
  BY DEF Bijection, Injection, Surjection, IsInjective
<1>3. IsFiniteSet(X)
  <2>1. h \in Injection(X, Ledgers)
    BY DEF Injection, IsInjective, SeenRow
  <2> HIDE DEF h
  <2> QED BY <1>1, <2>1, FS_Injection
<1>4. \A r \in X : /\ f[r] \in Int /\ f2[r] \in Int /\ f[r] <= f2[r]
                   /\ F[h[r]] = f2[r]
  BY DEF SeenRow, Row
<1>5. \A l \in Ledgers : F[l] \in Nat
  OBVIOUS
<1>6. TotalRecrawlStats(X) = SumFunctionOnSet(f, X)
  BY DEF TotalRecrawlStats, SumFunction
<1> HIDE DEF f, f2, h, Of
<1>7. SumFunctionOnSet(f, X) <= SumFunctionOnSet(f2, X)
  BY <1>3, <1>4, SumGrows
<1>8. SumFunctionOnSet(F, Of) = SumFunctionOnSet(f2, X)
  BY <1>2, <1>3, <1>4, SumImage
<1>9. SumFunctionOnSet(F, Of) <= SumFunctionOnSet(F, Ledgers)
  BY <1>1, <1>5, SumOfPart
<1>10. /\ SumFunctionOnSet(f, X) \in Int /\ SumFunctionOnSet(f2, X) \in Int
       /\ SumFunctionOnSet(F, Ledgers) \in Int
  BY <1>1, <1>3, <1>4, <1>5, SumInt
<1> QED BY <1>3, <1>6, <1>7, <1>8, <1>9, <1>10

\* They come to all there is when each is exact and none that counts is left out.
LEMMA RowsAddUp ==
  ASSUME NEW X, X \subseteq SeenRow, \A q, r \in X : q.of = r.of => q = r,
         NEW F \in [Ledgers -> Nat], \A r \in X : r.row.files = F[r.of],
         \A l \in Ledgers : F[l] = 0 \/ \E r \in X : r.of = l
  PROVE  TotalRecrawlStats(X) = SumFunctionOnSet(F, Ledgers)
<1> DEFINE Of == {r.of : r \in X}
           h == [r \in X |-> r.of]
           f == [r \in X |-> r.row.files]
<1>1. /\ IsFiniteSet(Ledgers) /\ Of \in SUBSET Ledgers
      /\ IsFiniteSet(Of) /\ IsFiniteSet(Ledgers \ Of)
  <2>1. IsFiniteSet(Ledgers) /\ Of \in SUBSET Ledgers
    BY FleetAssumption DEF SeenRow
  <2> HIDE DEF Of
  <2> QED BY <2>1, FS_Subset
<1>2. h \in Bijection(X, Of)
  BY DEF Bijection, Injection, Surjection, IsInjective
<1>3. IsFiniteSet(X)
  <2>1. \A r \in X : r.row.files <= F[r.of]
    BY DEF SeenRow, Row
  <2> QED BY <2>1, RowsUndercount
<1>4. \A r \in X : f[r] \in Int /\ F[h[r]] = f[r]
  BY DEF SeenRow, Row
<1>5. /\ \A l \in Of \union (Ledgers \ Of) : F[l] \in Int
      /\ \A l \in Ledgers \ Of : F[l] = 0
      /\ Of \union (Ledgers \ Of) = Ledgers /\ Of \intersect (Ledgers \ Of) = {}
  BY <1>1
<1>6. TotalRecrawlStats(X) = SumFunctionOnSet(f, X)
  BY DEF TotalRecrawlStats, SumFunction
<1> HIDE DEF f, h, Of
<1>7. SumFunctionOnSet(F, Of) = SumFunctionOnSet(f, X)
  BY <1>2, <1>3, <1>4, SumImage
<1>8. SumFunctionOnSet(F, Ledgers \ Of) = 0
  BY <1>1, <1>5, SumZero
<1>9. SumFunctionOnSet(F, Of \union (Ledgers \ Of))
        = SumFunctionOnSet(F, Of) + SumFunctionOnSet(F, Ledgers \ Of)
  BY <1>1, <1>5, SumUnion, Zenon
<1>10. SumFunctionOnSet(F, Of) \in Int
  BY <1>1, <1>5, SumInt
<1>11. SumFunctionOnSet(F, Ledgers)
         = SumFunctionOnSet(F, Of) + SumFunctionOnSet(F, Ledgers \ Of)
  BY <1>5, <1>9, Zenon
<1> QED BY <1>6, <1>7, <1>8, <1>10, <1>11
-----------------------------------------------------------------------------
\* The invariant holds at first.
LEMMA FleetStarts == FleetInit => FleetInv
<1> SUFFICES ASSUME FleetInit PROVE FleetInv
  OBVIOUS
<1>1. Down.ledger \in Ledgers /\ NoRow \in Row /\ FleetBatch \in Nat /\ FleetCommits \in Nat
  BY FleetAssumption DEF Down, NoRow, Row
<1>2. Down \in PublisherState
  BY <1>1 DEF Down, PublisherState
<1>3. HubTyped
  BY <1>1, <1>2 DEF FleetInit, HubTyped
<1>4. \A s \in Servers : LooksOnce(s, publisher[s]) /\ CountsRight(publisher[s])
  BY DEF FleetInit, LooksOnce, CountsRight, AtWork, Down
<1>5. LedgersAreExact /\ \A l \in Ledgers : repo.rows[l].at = 0 => repo.files[l] = 0
  BY DEF FleetInit, LedgersAreExact, NoRow
<1>6. CardUndercounts
  <2>1. IsFiniteSet(Ledgers) /\ \A l \in Ledgers : repo.files[l] = 0
    BY FleetAssumption DEF FleetInit
  <2>2. HubFiles = 0
    BY <2>1, SumZero DEF HubFiles
  <2> QED BY <2>2 DEF FleetInit, CardUndercounts
<1> QED BY <1>3, <1>4, <1>5, <1>6 DEF FleetInv

\* A step of one server that the hub does not see.
LEMMA QuietFleetStep ==
  ASSUME FleetInv, NEW s \in Servers,
         Boot(s) \/ Pass(s) \/ ListRepoFiles(s) \/ fetchRecrawlLedger(s) \/ Gathered(s)
           \/ FleetDown(s)
  PROVE  FleetInv'
<1> DEFINE p == publisher[s]
           q == publisher'[s]
<1>1. /\ FleetBatch \in Nat \ {0} /\ FleetCommits \in Nat /\ Down.ledger \in Ledgers
      /\ NoRow \in Row
  BY FleetAssumption DEF Down, NoRow, Row
<1>2. /\ HubTyped /\ CardUndercounts /\ p \in PublisherState /\ LooksOnce(s, p)
      /\ fleet.exact => LedgersAreExact /\ CountsRight(p)
  BY DEF FleetInv, HubTyped
<1>3. repo' = repo /\ fleet'.exact = fleet.exact /\ DOMAIN fleet' = {"faults", "exact"}
  BY <1>2 DEF Boot, Pass, ListRepoFiles, fetchRecrawlLedger, Gathered, FleetDown, Wrong,
     HubTyped
<1>4. q \in PublisherState /\ LooksOnce(s, q) /\ (fleet.exact => CountsRight(q))
  <2> USE DEF PublisherState, LooksOnce, CountsRight, AtWork
  <2>1. CASE Boot(s)
    <3>1. PICK l \in Ledgers : l.server = s /\
            q = [Down EXCEPT !.at = "idle", !.ledger = l, !.stat = repo.rows[l]]
      BY <1>2, <2>1 DEF Boot, Seed, HubTyped
    <3>2. /\ q.at = "idle" /\ q.ledger = l /\ q.stat = repo.rows[l] /\ q.todo = {}
          /\ q \in PublisherState
      <4>1. repo.rows[l] \in Row
        BY <1>2 DEF HubTyped
      <4>2. q = [at |-> "idle", ledger |-> l, stat |-> repo.rows[l], batch |-> 0,
                 todo |-> {}, seen |-> {}, landed |-> FALSE]
        BY <3>1 DEF Down
      <4> QED BY <1>1, <4>1, <4>2
    <3> HIDE DEF q
    <3> QED BY <1>2, <3>1, <3>2 DEF LedgersAreExact
  <2>2. CASE Pass(s)
    <3>1. PICK n \in 1 .. FleetBatch :
            /\ p.at = "idle" /\ repo.commits < FleetCommits
            /\ q = [p EXCEPT !.at = "list", !.batch = n, !.landed = FALSE, !.seen = {},
                             !.stat = [files |-> p.stat.files + n, at |-> repo.commits + 1]]
      BY <1>2, <2>2 DEF Pass, HubTyped
    <3>2. [files |-> p.stat.files + n, at |-> repo.commits + 1] \in Row
      BY <1>1, <1>2, <3>1 DEF Row, HubTyped
    <3>3. /\ q.at = "list" /\ q.batch = n /\ ~q.landed /\ q.seen = {} /\ q.todo = p.todo
          /\ q.ledger = p.ledger /\ q.stat.files = p.stat.files + n
          /\ q.stat.at = repo.commits + 1 /\ q \in PublisherState
      <4> DEFINE row == [files |-> p.stat.files + n, at |-> repo.commits + 1]
      <4>1. row \in Row /\ row.files = p.stat.files + n /\ row.at = repo.commits + 1
        BY <3>2
      <4>2. q = [p EXCEPT !.at = "list", !.batch = n, !.landed = FALSE, !.seen = {}, !.stat = row]
        BY <3>1
      <4>3. n \in 0 .. FleetBatch
        BY <1>1
      <4> HIDE DEF row
      <4> QED BY <1>2, <4>1, <4>2, <4>3
    <3> HIDE DEF q
    <3> QED BY <1>2, <3>1, <3>3 DEF HubTyped
  <2>3. CASE ListRepoFiles(s)
    <3>1. /\ p.at = "list" /\ q = [p EXCEPT !.at = "peers", !.todo = Peers(s)]
      BY <1>2, <2>3 DEF ListRepoFiles, HubTyped
    <3>2. Peers(s) = Present \ {p.ledger} /\ Present \subseteq Ledgers
      BY DEF Peers, Present
    <3> QED BY <1>2, <3>1, <3>2
  <2>4. CASE fetchRecrawlLedger(s)
    <3>1. PICK l \in p.todo :
            /\ p.at = "peers"
            /\ q = [p EXCEPT !.todo = p.todo \ {l},
                             !.seen = p.seen \union {[of |-> l, row |-> repo.rows[l]]}]
      BY <1>2, <2>4 DEF fetchRecrawlLedger, HubTyped
    <3>2. [of |-> l, row |-> repo.rows[l]] \in SeenRow /\ l \in Present
      BY <1>2, <3>1 DEF SeenRow, HubTyped
    <3>3. /\ q.at = "peers" /\ q.todo = p.todo \ {l} /\ q.ledger = p.ledger
          /\ q.seen = p.seen \union {[of |-> l, row |-> repo.rows[l]]}
          /\ q.batch = p.batch /\ q.stat = p.stat /\ q.landed = p.landed
          /\ q \in PublisherState
      <4> DEFINE more == p.seen \union {[of |-> l, row |-> repo.rows[l]]}
      <4>1. more \in SUBSET SeenRow /\ p.todo \ {l} \in SUBSET Ledgers
        BY <1>2, <3>2
      <4>2. q = [p EXCEPT !.todo = p.todo \ {l}, !.seen = more]
        BY <3>1
      <4> HIDE DEF more
      <4>3. /\ q.at = p.at /\ q.todo = p.todo \ {l} /\ q.ledger = p.ledger /\ q.seen = more
            /\ q.batch = p.batch /\ q.stat = p.stat /\ q.landed = p.landed
            /\ q \in PublisherState
        BY <1>2, <4>1, <4>2
      <4> QED BY <3>1, <4>3 DEF more
    <3>4. LooksOnce(s, q)
      <4> HIDE DEF q
      <4> QED BY <1>2, <3>1, <3>2, <3>3
    <3>5. fleet.exact => CountsRight(q)
      <4>1. fleet.exact => repo.rows[l].files <= repo.files[l]
        BY <1>2, <3>2 DEF LedgersAreExact, HubTyped, SeenRow, Row
      <4> HIDE DEF q
      <4> QED BY <1>2, <3>1, <3>3, <4>1
    <3> QED BY <3>3, <3>4, <3>5
  <2>5. CASE Gathered(s)
    <3>1. p.at = "peers" /\ q = [p EXCEPT !.at = "commit"]
      BY <1>2, <2>5 DEF Gathered, HubTyped
    <3> QED BY <1>2, <3>1
  <2>6. CASE FleetDown(s)
    <3>1. q = Down
      BY <1>2, <2>6 DEF FleetDown, HubTyped
    <3> QED BY <1>1, <3>1 DEF Down
  <2> QED BY <2>1, <2>2, <2>3, <2>4, <2>5, <2>6
<1>5. publisher' = [publisher EXCEPT ![s] = q]
  BY <1>2 DEF Boot, Pass, ListRepoFiles, fetchRecrawlLedger, Gathered, FleetDown, HubTyped
<1>6. HubTyped' /\ \A t \in Servers : t # s => publisher'[t] = publisher[t]
  <2> HIDE DEF q
  <2> QED BY <1>2, <1>3, <1>4, <1>5 DEF HubTyped, PublisherState
<1>7. CardUndercounts' /\ LedgersAreExact' = LedgersAreExact
  BY <1>2, <1>3 DEF CardUndercounts, HubFiles, LedgersAreExact
<1>8. \A t \in Servers : LooksOnce(t, publisher[t])'
  BY <1>3, <1>4, <1>6 DEF FleetInv, LooksOnce, Present, AtWork
<1>9. fleet.exact => \A t \in Servers : CountsRight(publisher[t])'
  BY <1>3, <1>4, <1>6 DEF FleetInv, CountsRight, AtWork
<1> QED BY <1>3, <1>6, <1>7, <1>8, <1>9 DEF FleetInv

\* What a commit does to the repository: the server's own row and files, and a card that
\* counts no more than there is.
LEMMA LandsRight ==
  ASSUME FleetInv, NEW s \in Servers, publisher[s].at = "commit", NEW shards \in Nat,
         Lands(s, shards)
  PROVE  LET l == publisher[s].ledger IN
         /\ DOMAIN repo' = {"rows", "files", "card", "commits"} /\ repo'.commits \in Nat
         /\ repo'.rows \in [Ledgers -> Row] /\ repo'.files \in [Ledgers -> Nat]
         /\ \A k \in Ledgers : k # l => repo'.files[k] = repo.files[k]
         /\ \A k \in Ledgers : repo.files[k] <= repo'.files[k]
         /\ Present' = Present \union {l}
         /\ repo'.card = Card(s)
         /\ fleet.exact /\ shards = publisher[s].batch =>
              /\ \A k \in Ledgers : repo'.rows[k].files = repo'.files[k]
              /\ \A k \in Ledgers : repo'.rows[k].at = 0 => repo'.files[k] = 0
              /\ repo'.files[l] = publisher[s].stat.files
              /\ repo'.card <= HubFiles'
<1> DEFINE p == publisher[s]
           l == publisher[s].ledger
           more == IF p.landed THEN repo.files[l] ELSE repo.files[l] + shards
<1>1. /\ HubTyped /\ p \in PublisherState /\ LooksOnce(s, p) /\ AtWork(p)
      /\ fleet.exact => /\ LedgersAreExact /\ CountsRight(p)
                        /\ \A k \in Ledgers : repo.rows[k].at = 0 => repo.files[k] = 0
  BY DEF FleetInv, HubTyped, AtWork
<1>2. p.stat \in Row /\ l \in Ledgers /\ p.batch \in Nat /\ more \in Nat /\ more >= repo.files[l]
      /\ p.seen \subseteq SeenRow /\ p.landed \in BOOLEAN
  BY <1>1 DEF PublisherState, HubTyped
<1>3. repo' = [repo EXCEPT !.rows[l] = p.stat, !.card = Card(s), !.commits = @ + 1,
                           !.files[l] = IF p.landed THEN @ ELSE @ + shards]
  BY DEF Lands
<1>4. /\ DOMAIN repo' = {"rows", "files", "card", "commits"}
      /\ repo'.commits = repo.commits + 1 /\ repo'.card = Card(s)
      /\ repo'.rows = [repo.rows EXCEPT ![l] = p.stat]
      /\ repo'.files = [repo.files EXCEPT ![l] = more]
  BY <1>1, <1>3 DEF HubTyped
<1>5. /\ repo'.commits \in Nat /\ repo'.rows \in [Ledgers -> Row]
      /\ repo'.files \in [Ledgers -> Nat]
      /\ repo'.rows[l] = p.stat /\ repo'.files[l] = more
      /\ \A k \in Ledgers : k # l => repo'.files[k] = repo.files[k] /\ repo'.rows[k] = repo.rows[k]
      /\ \A k \in Ledgers : repo.files[k] <= repo'.files[k]
  <2> HIDE DEF more
  <2>1. /\ repo'.commits \in Nat /\ repo'.rows \in [Ledgers -> Row]
        /\ repo'.files \in [Ledgers -> Nat]
        /\ repo'.rows[l] = p.stat /\ repo'.files[l] = more
        /\ \A k \in Ledgers : k # l => repo'.files[k] = repo.files[k] /\ repo'.rows[k] = repo.rows[k]
    BY <1>1, <1>2, <1>4 DEF HubTyped
  <2>2. ASSUME NEW k \in Ledgers PROVE repo.files[k] <= repo'.files[k]
    <3>1. repo.files[k] \in Nat
      BY <1>1 DEF HubTyped
    <3> QED BY <1>2, <2>1, <3>1
  <2> QED BY <2>1, <2>2
<1>6. Present' = Present \union {l}
  <2>1. p.stat.at > 0
    BY <1>1, <1>2 DEF LooksOnce, Row
  <2> QED BY <1>2, <1>5, <2>1 DEF Present
<1>7. ASSUME fleet.exact, shards = p.batch
      PROVE  /\ \A k \in Ledgers : repo'.rows[k].files = repo'.files[k]
             /\ \A k \in Ledgers : repo'.rows[k].at = 0 => repo'.files[k] = 0
             /\ repo'.files[l] = p.stat.files
             /\ repo'.card <= HubFiles'
  <2>1. repo'.files[l] = p.stat.files
    BY <1>1, <1>2, <1>5, <1>7 DEF CountsRight, HubTyped
  <2>2. \A k \in Ledgers : repo'.rows[k].files = repo'.files[k]
    BY <1>1, <1>5, <1>7, <2>1 DEF LedgersAreExact
  <2>3. \A k \in Ledgers : repo'.rows[k].at = 0 => repo'.files[k] = 0
    <3>1. p.stat.at # 0
      BY <1>1, <1>2 DEF LooksOnce, Row
    <3> QED BY <1>1, <1>5, <1>7, <3>1
  <2>4. repo'.card <= HubFiles'
    <3> DEFINE all == p.seen \union {[of |-> l, row |-> p.stat]}
               X == MergeRecrawlStats(all)
    <3>1. all \subseteq SeenRow
      BY <1>2 DEF SeenRow
    <3>2. X \subseteq all
      BY DEF MergeRecrawlStats
    <3>3. \A q, r \in all : q.of = r.of => q = r
      BY <1>1 DEF LooksOnce
    <3>4. \A r \in all : r.row.files <= repo'.files[r.of]
      <4> TAKE r \in all
      <4>1. CASE r \in p.seen
        <5>1. r.row.files <= repo.files[r.of] /\ r \in SeenRow
          BY <1>1, <1>2, <1>7, <4>1 DEF CountsRight
        <5>2. r.of \in Ledgers /\ r.row.files \in Nat
          BY <5>1 DEF SeenRow, Row
        <5>3. repo.files[r.of] \in Nat /\ repo'.files[r.of] \in Nat
          BY <1>1, <1>5, <5>2 DEF HubTyped
        <5> QED BY <1>5, <5>1, <5>2, <5>3
      <4>2. CASE r = [of |-> l, row |-> p.stat]
        BY <1>2, <2>1, <4>2 DEF Row
      <4> QED BY <4>1, <4>2
    <3>5. TotalRecrawlStats(X) <= SumFunctionOnSet(repo'.files, Ledgers)
      <4> HIDE DEF all
      <4>1. X \subseteq SeenRow /\ \A q, r \in X : q.of = r.of => q = r
        BY <3>1, <3>2, <3>3
      <4>2. \A r \in X : r.row.files <= repo'.files[r.of]
        BY <3>2, <3>4
      <4> HIDE DEF X
      <4> QED BY <1>5, <4>1, <4>2, RowsUndercount
    <3> QED BY <1>4, <3>5 DEF Card, HubFiles
  <2> QED BY <2>1, <2>2, <2>3, <2>4
<1> QED BY <1>4, <1>5, <1>6, <1>7

LEMMA CommitFleetStep ==
  ASSUME FleetInv, NEW s \in Servers,
         FleetCommit(s) \/ FleetUnanswered(s) \/ FleetVanish(s)
  PROVE  FleetInv'
<1> DEFINE p == publisher[s]
           q == publisher'[s]
           l == publisher[s].ledger
<1>1. /\ HubTyped /\ p \in PublisherState /\ LooksOnce(s, p) /\ AtWork(p) /\ p.at = "commit"
      /\ fleet.exact => CountsRight(p)
  BY DEF FleetInv, HubTyped, AtWork, FleetCommit, FleetUnanswered, FleetVanish
<1>2. p.batch \in Nat /\ p.batch >= 1 /\ p.batch - 1 \in Nat /\ l \in Ledgers
      /\ 0 \in 0 .. FleetBatch /\ l.server = s
  BY <1>1, FleetAssumption DEF PublisherState, LooksOnce
<1>3. PICK shards \in Nat : Lands(s, shards) /\ (fleet'.exact => fleet.exact /\ shards = p.batch)
  BY <1>1, <1>2 DEF FleetCommit, FleetUnanswered, FleetVanish, HubTyped, Wrong
<1>4. /\ publisher' = [publisher EXCEPT ![s] = q]
      /\ DOMAIN fleet' = {"faults", "exact"} /\ fleet'.exact \in BOOLEAN
      /\ \/ q = [p EXCEPT !.at = "idle", !.batch = 0]
         \/ q = [p EXCEPT !.landed = TRUE]
  <2>1. DOMAIN fleet' = {"faults", "exact"} /\ fleet'.exact \in BOOLEAN
    <3>1. \/ fleet' = fleet
          \/ fleet' = [fleet EXCEPT !.faults = @ + 1]
          \/ fleet' = [faults |-> fleet.faults + 1, exact |-> FALSE]
      BY DEF FleetCommit, FleetUnanswered, FleetVanish, Wrong
    <3>2. DOMAIN fleet = {"faults", "exact"} /\ fleet.exact \in BOOLEAN
      BY <1>1 DEF HubTyped
    <3>3. CASE fleet' = [fleet EXCEPT !.faults = @ + 1]
      BY <3>2, <3>3
    <3>4. CASE fleet' = [faults |-> fleet.faults + 1, exact |-> FALSE]
      BY <3>4
    <3> QED BY <3>1, <3>2, <3>3, <3>4
  <2>2. \/ publisher' = [publisher EXCEPT ![s].at = "idle", ![s].batch = 0]
        \/ publisher' = [publisher EXCEPT ![s].landed = TRUE]
    BY DEF FleetCommit, FleetUnanswered, FleetVanish
  <2>3. CASE publisher' = [publisher EXCEPT ![s].at = "idle", ![s].batch = 0]
    <3>1. publisher' = [publisher EXCEPT ![s] = [p EXCEPT !.at = "idle", !.batch = 0]]
      BY <2>3, <1>1 DEF HubTyped
    <3> QED BY <1>1, <2>1, <3>1 DEF HubTyped
  <2>4. CASE publisher' = [publisher EXCEPT ![s].landed = TRUE]
    <3>1. publisher' = [publisher EXCEPT ![s] = [p EXCEPT !.landed = TRUE]]
      BY <2>4, <1>1 DEF HubTyped
    <3> QED BY <1>1, <2>1, <3>1 DEF HubTyped
  <2> QED BY <2>2, <2>3, <2>4
<1>5. /\ q \in PublisherState /\ q.ledger = l /\ q.todo = p.todo /\ q.seen = p.seen
      /\ q.stat = p.stat
      /\ q.at = "idle" \/ (q.at = p.at /\ q.landed /\ q.batch = p.batch)
  BY <1>1, <1>2, <1>4 DEF PublisherState
<1> HIDE DEF q
<1>6. /\ DOMAIN repo' = {"rows", "files", "card", "commits"} /\ repo'.commits \in Nat
      /\ repo'.rows \in [Ledgers -> Row] /\ repo'.files \in [Ledgers -> Nat]
      /\ \A k \in Ledgers : k # l => repo'.files[k] = repo.files[k]
      /\ \A k \in Ledgers : repo.files[k] <= repo'.files[k]
      /\ Present' = Present \union {l}
      /\ repo'.card = Card(s)
      /\ fleet'.exact =>
           /\ \A k \in Ledgers : repo'.rows[k].files = repo'.files[k]
           /\ \A k \in Ledgers : repo'.rows[k].at = 0 => repo'.files[k] = 0
           /\ repo'.files[l] = p.stat.files
           /\ repo'.card <= HubFiles'
  BY <1>1, <1>3, LandsRight
<1>7. HubTyped' /\ \A t \in Servers : t # s => publisher'[t] = publisher[t]
  BY <1>1, <1>4, <1>5, <1>6 DEF HubTyped
<1>8. publisher'[s] = q
  BY <1>1, <1>4 DEF HubTyped
<1>9. \A t \in Servers : LooksOnce(t, publisher[t])'
  BY <1>1, <1>5, <1>6, <1>7, <1>8 DEF FleetInv, LooksOnce, AtWork
<1>10. ASSUME fleet'.exact PROVE \A t \in Servers : CountsRight(publisher[t])'
  <2> TAKE t \in Servers
  <2>1. CASE t = s
    <3>1. repo'.files[l] = p.stat.files /\ p.stat.files \in Nat
      BY <1>1, <1>6, <1>10 DEF PublisherState, Row
    <3>2. \A r \in p.seen : r.row.files <= repo'.files[r.of]
      <4> TAKE r \in p.seen
      <4>1. r.row.files <= repo.files[r.of]
        BY <1>1, <1>3, <1>10 DEF CountsRight
      <4>2. r.of \in Ledgers /\ r.row.files \in Nat
        BY <1>1 DEF PublisherState, SeenRow, Row
      <4>3. repo.files[r.of] \in Nat /\ repo'.files[r.of] \in Nat
        BY <1>1, <1>6, <4>2 DEF HubTyped
      <4> QED BY <1>6, <4>1, <4>2, <4>3
    <3> QED BY <1>5, <1>8, <2>1, <3>1, <3>2 DEF CountsRight, AtWork
  <2>2. CASE t # s
    <3> DEFINE o == publisher[t]
    <3>1. o \in PublisherState /\ LooksOnce(t, o) /\ CountsRight(o)
      BY <1>1, <1>3, <1>10 DEF FleetInv, HubTyped
    <3>2. o.at # "down" => o.ledger # l /\ repo'.files[o.ledger] = repo.files[o.ledger]
      BY <1>2, <1>6, <2>2, <3>1 DEF LooksOnce, PublisherState
    <3>3. ASSUME NEW r \in o.seen, r.row.files <= repo.files[r.of]
          PROVE  r.row.files <= repo'.files[r.of]
      <4>2. r.of \in Ledgers /\ r.row.files \in Nat
        BY <3>1 DEF PublisherState, SeenRow, Row
      <4>3. repo.files[r.of] \in Nat /\ repo'.files[r.of] \in Nat
        BY <1>1, <1>6, <4>2 DEF HubTyped
      <4> QED BY <1>6, <3>3, <4>2, <4>3
    <3> QED BY <1>7, <2>2, <3>1, <3>2, <3>3 DEF CountsRight, AtWork
  <2> QED BY <2>1, <2>2
<1>11. CardUndercounts' /\ (fleet'.exact => LedgersAreExact')
  BY <1>6 DEF CardUndercounts, LedgersAreExact
<1> QED BY <1>6, <1>7, <1>9, <1>10, <1>11 DEF FleetInv

LEMMA FleetStep == FleetInv /\ [FleetNext]_fleetVars => FleetInv'
<1> SUFFICES ASSUME FleetInv, [FleetNext]_fleetVars PROVE FleetInv'
  OBVIOUS
<1>1. CASE FleetNext
  BY <1>1, QuietFleetStep, CommitFleetStep DEF FleetNext
<1>2. CASE UNCHANGED fleetVars
  BY <1>2 DEF fleetVars, FleetInv, HubTyped, CardUndercounts, HubFiles, LooksOnce, Present,
     AtWork, LedgersAreExact, CountsRight
<1> QED BY <1>1, <1>2

LEMMA FleetTypes == FleetInv => FleetTypeOK
<1> SUFFICES ASSUME FleetInv PROVE FleetTypeOK
  OBVIOUS
<1>1. \A l \in Ledgers : repo.rows[l].files \in Nat /\ repo.rows[l].at \in 0 .. FleetCommits
  <2>1. \A l \in Ledgers : repo.rows[l] \in Row
    BY DEF FleetInv, HubTyped
  <2> QED BY <2>1 DEF Row
<1>2. \A s \in Servers :
       /\ publisher[s].at \in {"down", "idle", "list", "peers", "commit"}
       /\ publisher[s].ledger \in Ledgers /\ publisher[s].batch \in 0 .. FleetBatch
       /\ publisher[s].todo \subseteq Present
  BY DEF FleetInv, HubTyped, PublisherState, LooksOnce
<1> QED BY <1>1, <1>2 DEF FleetTypeOK

\* A card made of what all the ledgers say now counts all the files.
LEMMA CardCatches ==
  ASSUME FleetInv, FleetInv', [FleetNext]_fleetVars
  PROVE  CardCatchesUp
<1> SUFFICES ASSUME NEW s \in Servers,
               publisher[s].at = "commit", repo' # repo, publisher'[s] # publisher[s], fleet'.exact,
               \A k \in Present \ {publisher[s].ledger} :
                 [of |-> k, row |-> repo.rows[k]] \in publisher[s].seen,
               \A k, m \in Present \union {publisher[s].ledger} :
                 k # m => k.server # m.server \/ k.shard # m.shard
             PROVE repo'.card = HubFiles'
  BY DEF CardCatchesUp
<1> DEFINE p == publisher[s]
           l == publisher[s].ledger
           own == [of |-> l, row |-> p.stat]
           all == p.seen \union {own}
<1>1. /\ HubTyped /\ p \in PublisherState /\ LooksOnce(s, p) /\ AtWork(p)
  BY DEF FleetInv, HubTyped, AtWork
<1>2. FleetCommit(s) \/ FleetUnanswered(s) \/ FleetVanish(s)
  <2>1. PICK t \in Servers :
          \/ Boot(t) \/ Pass(t) \/ ListRepoFiles(t) \/ fetchRecrawlLedger(t) \/ Gathered(t)
          \/ FleetCommit(t) \/ FleetUnanswered(t) \/ FleetVanish(t) \/ FleetDown(t)
    BY DEF FleetNext, fleetVars
  <2>2. FleetCommit(t) \/ FleetUnanswered(t) \/ FleetVanish(t)
    BY <2>1 DEF Boot, Pass, ListRepoFiles, fetchRecrawlLedger, Gathered, FleetDown
  <2>3. t = s
    BY <1>1, <2>2 DEF FleetCommit, FleetUnanswered, FleetVanish, HubTyped
  <2> QED BY <2>2, <2>3
<1>3. p.batch \in Nat /\ l \in Ledgers /\ fleet.exact
  <2>1. p.batch \in Nat /\ l \in Ledgers
    BY <1>1, FleetAssumption DEF PublisherState
  <2>2. fleet.exact
    BY <1>1, <1>2 DEF FleetCommit, FleetUnanswered, FleetVanish, Wrong, HubTyped
  <2> QED BY <2>1, <2>2
<1>4. Lands(s, p.batch)
  BY <1>1, <1>2 DEF FleetCommit, FleetUnanswered, FleetVanish, HubTyped
<1>5. /\ repo'.card = Card(s) /\ repo'.files \in [Ledgers -> Nat]
      /\ \A k \in Ledgers : k # l => repo'.files[k] = repo.files[k]
      /\ repo'.files[l] = p.stat.files
  BY <1>3, <1>4, LandsRight
<1>6. /\ \A r \in p.seen : r = [of |-> r.of, row |-> repo.rows[r.of]] /\ r.of \in Present /\ r.of # l
      /\ p.seen \subseteq SeenRow /\ p.stat \in Row
  <2>1. \A r \in p.seen : r.of \in Present /\ r.of # l
    BY <1>1 DEF LooksOnce
  <2>2. p.seen \subseteq SeenRow /\ p.stat \in Row
    BY <1>1 DEF PublisherState
  <2>3. ASSUME NEW r \in p.seen PROVE r = [of |-> r.of, row |-> repo.rows[r.of]]
    <3> DEFINE e == [of |-> r.of, row |-> repo.rows[r.of]]
    <3>1. e \in p.seen /\ e.of = r.of
      BY <2>1
    <3> HIDE DEF e
    <3>2. e = r
      BY <1>1, <3>1 DEF LooksOnce
    <3> QED BY <3>2 DEF e
  <2> QED BY <2>1, <2>2, <2>3
<1>7. all \subseteq SeenRow /\ \A q, r \in all : q.of = r.of => q = r
  BY <1>3, <1>6 DEF SeenRow
<1>8. MergeRecrawlStats(all) = all
  <2>1. \A r \in all : r.of \in Present \union {l} /\ r.row.at \in Int
    BY <1>6 DEF SeenRow, Row
  <2>2. \A q, r \in all : q.of.server = r.of.server /\ q.of.shard = r.of.shard => q = r
    <3> HIDE DEF all
    <3> QED BY <1>7, <2>1
  <2> HIDE DEF all
  <2> QED BY <2>1, <2>2 DEF MergeRecrawlStats
<1>9. \A r \in all : r.row.files = repo'.files[r.of]
  <2> TAKE r \in all
  <2>1. CASE r \in p.seen
    <3>1. r.row = repo.rows[r.of] /\ r.of \in Ledgers /\ r.of # l
      BY <1>6, <2>1 DEF SeenRow
    <3> QED BY <1>3, <1>5, <3>1 DEF FleetInv, LedgersAreExact
  <2>2. CASE r = own
    BY <1>5, <2>2
  <2> QED BY <2>1, <2>2
<1>10. \A k \in Ledgers : repo'.files[k] = 0 \/ \E r \in all : r.of = k
  <2> TAKE k \in Ledgers
  <2>1. CASE k = l
    <3>1. own \in all /\ own.of = k
      BY <2>1
    <3> QED BY <3>1
  <2>2. CASE k # l /\ k \in Present
    <3> DEFINE e == [of |-> k, row |-> repo.rows[k]]
    <3>1. e \in all /\ e.of = k
      BY <2>2
    <3> QED BY <3>1
  <2>3. CASE k # l /\ k \notin Present
    <3>1. repo.rows[k].at = 0
      <4>1. repo.rows[k] \in Row
        BY <1>1 DEF HubTyped
      <4> QED BY <2>3, <4>1 DEF Present, Row
    <3> QED BY <1>3, <1>5, <2>3, <3>1 DEF FleetInv
  <2> QED BY <2>1, <2>2, <2>3
<1>11. TotalRecrawlStats(all) = SumFunctionOnSet(repo'.files, Ledgers)
  <2> HIDE DEF all
  <2> QED BY <1>5, <1>7, <1>9, <1>10, RowsAddUp
<1> QED BY <1>5, <1>8, <1>11 DEF Card, HubFiles

\* Whatever the servers interleave, repeat or lose the answer to, each ledger says what its
\* server has on the hub, the card of the repository never counts more than is there, and it
\* counts all of it when nobody commits between the look at the ledgers and the commit.
THEOREM LedgersAlwaysHold == FleetInit /\ [][FleetNext]_fleetVars => LedgersHold
<1> DEFINE Hold == FleetTypeOK' /\ LedgersAreExact' /\ CardUndercounts' /\ CardCatchesUp
<1>1. FleetInv /\ FleetInv' /\ [FleetNext]_fleetVars => [Hold]_fleetVars
  BY FleetTypes, CardCatches, PTL DEF FleetInv, LedgersAreExact
<1>2. FleetInit /\ [][FleetNext]_fleetVars => [][Hold]_fleetVars
  <2> HIDE DEF Hold
  <2> QED BY <1>1, FleetStarts, FleetStep, PTL
<1> QED BY <1>2 DEF LedgersHold

-----------------------------------------------------------------------------
(* The stream of a news file: the rows written are those of the file up to    *)
(* the place the next stream starts at, the buffered ones those from there to *)
(* where this one has come (BreaksDoNotShow).                                 *)
\* The states of a stream.
NewsState ==
  [at : {"idle", "ask", "stream", "end", "ok", "error"}, file : Seq({"row", "other"}),
   next : Nat, total : Nat, attempt : 1 .. NewsAttempts, read : Nat, consumed : Nat,
   buffer : Seq(Nat), tally : Nat]

\* A sequence of positions, each after the one before.
Ordered(s) == \A j, k \in DOMAIN s : j < k => s[j] < s[k]

\* The rows of the file from one position to another.
RowsIn(a, b) == {i \in DOMAIN news.file : a < i /\ i <= b /\ news.file[i] = "row"}

\* The shard has the rows up to the place that the next stream starts at, and the buffer those
\* from there to where this one has come.
NewsInv ==
  /\ news \in NewsState /\ shardRows \in Seq(Nat)
  /\ Resume <= news.read /\ news.read <= Len(news.file)
  /\ Len(news.buffer) < BlockRows
  /\ news.total \in {0, Len(news.file)}
  /\ Ordered(shardRows) /\ Range(shardRows) = RowsIn(0, Resume)
  /\ Ordered(news.buffer) /\ Range(news.buffer) = RowsIn(Resume, news.read)
  /\ TallyIsRows
  /\ news.at = "idle" => shardRows = <<>>
  /\ news.at = "ok" => Complete

\* Two such sequences joined are one, when the second begins after the end of the first.
LEMMA JoinOrdered ==
  ASSUME NEW s \in Seq(Nat), NEW t \in Seq(Nat), Ordered(s), Ordered(t),
         \A x \in Range(s), y \in Range(t) : x < y
  PROVE  /\ s \o t \in Seq(Nat) /\ Len(s \o t) = Len(s) + Len(t)
         /\ Ordered(s \o t) /\ Range(s \o t) = Range(s) \union Range(t)
<1> DEFINE u == s \o t
<1>1. /\ u \in Seq(Nat) /\ Len(u) = Len(s) + Len(t) /\ Len(s) \in Nat /\ Len(t) \in Nat
      /\ DOMAIN s = 1 .. Len(s) /\ DOMAIN t = 1 .. Len(t) /\ DOMAIN u = 1 .. Len(s) + Len(t)
  OBVIOUS
<1>2. /\ \A i \in DOMAIN s : u[i] = s[i] /\ i \in DOMAIN u
      /\ \A i \in DOMAIN t : u[Len(s) + i] = t[i] /\ Len(s) + i \in DOMAIN u
      /\ \A i \in DOMAIN u : i \in DOMAIN s \/ (i - Len(s) \in DOMAIN t /\ u[i] = t[i - Len(s)])
  OBVIOUS
<1>3. \A i \in DOMAIN u : u[i] \in Range(s) \/ u[i] \in Range(t)
  BY <1>2 DEF Range
<1> HIDE DEF u
<1>4. Range(u) = Range(s) \union Range(t)
  BY <1>2, <1>3 DEF Range
<1>5. Ordered(u)
  <2> SUFFICES ASSUME NEW j \in DOMAIN u, NEW k \in DOMAIN u, j < k PROVE u[j] < u[k]
    BY DEF Ordered
  <2>1. CASE j \in DOMAIN s /\ k \in DOMAIN s
    BY <1>2, <2>1 DEF Ordered
  <2>2. CASE j \in DOMAIN s /\ k \notin DOMAIN s
    BY <1>2, <2>2 DEF Range
  <2>3. CASE j \notin DOMAIN s
    <3>1. k \notin DOMAIN s /\ j \in Int /\ k \in Int
      BY <1>1, <2>3
    <3>2. j - Len(s) < k - Len(s)
      BY <1>1, <3>1
    <3> QED BY <1>2, <2>3, <3>1, <3>2 DEF Ordered
  <2> QED BY <2>1, <2>2, <2>3
<1> QED BY <1>1, <1>4, <1>5 DEF u

\* One position is such a sequence, and so is none.
LEMMA OneOrdered ==
  ASSUME NEW i \in Nat
  PROVE  /\ <<i>> \in Seq(Nat) /\ Len(<<i>>) = 1 /\ Ordered(<<i>>) /\ Range(<<i>>) = {i}
BY DEF Ordered, Range

LEMMA EmptyOrdered ==
  ASSUME NEW S
  PROVE  <<>> \in Seq(S) /\ Len(<<>>) = 0 /\ Ordered(<<>>) /\ Range(<<>>) = {}
BY DEF Ordered, Range

LEMMA NewsStarts == NewsInit => NewsInv
<1> SUFFICES ASSUME NewsInit PROVE NewsInv
  OBVIOUS
<1>1. news = [at |-> "idle", file |-> <<>>, next |-> 0, total |-> 0, attempt |-> 1, read |-> 0,
              consumed |-> 0, buffer |-> <<>>, tally |-> 0] /\ shardRows = <<>>
  BY DEF NewsInit, NewFile
<1>2. /\ news.buffer = <<>> /\ news.file = <<>> /\ Resume = 0 /\ news.read = 0
      /\ BlockRows \in Nat \ {0} /\ 1 \in 1 .. NewsAttempts
  BY <1>1, NewsAssumption DEF Resume
<1>3. news \in NewsState
  <2>1. <<>> \in Seq(Nat) /\ <<>> \in Seq({"row", "other"})
    BY EmptyOrdered
  <2> QED BY <1>1, <1>2, <2>1 DEF NewsState
<1>4. RowsIn(0, 0) = {}
  BY <1>2 DEF RowsIn
<1>5. <<>> \in Seq(Nat) /\ Ordered(<<>>) /\ Range(<<>>) = {} /\ Len(<<>>) = 0
  BY EmptyOrdered
<1>6. TallyIsRows /\ news.at = "idle" /\ news.total = 0
  BY <1>1, <1>5 DEF TallyIsRows
<1>7. /\ Ordered(shardRows) /\ Range(shardRows) = RowsIn(0, Resume)
      /\ Ordered(news.buffer) /\ Range(news.buffer) = RowsIn(Resume, news.read)
  BY <1>1, <1>2, <1>4, <1>5
<1>8. Len(news.buffer) = 0 /\ Len(news.file) = 0 /\ shardRows \in Seq(Nat)
  BY <1>1, <1>2, <1>5
<1> QED BY <1>1, <1>2, <1>3, <1>6, <1>7, <1>8 DEF NewsInv

\* What is known of a file that is being streamed.
NewsKnown ==
  /\ news \in NewsState /\ shardRows \in Seq(Nat)
  /\ Resume \in Nat /\ news.read \in Nat /\ Len(news.file) \in Nat
  /\ Resume = news.next + news.consumed /\ news.next \in Nat /\ news.consumed \in Nat
  /\ Resume <= news.read /\ news.read <= Len(news.file)
  /\ news.buffer \in Seq(Nat) /\ Len(news.buffer) \in Nat /\ Len(news.buffer) < BlockRows
  /\ DOMAIN news.file = 1 .. Len(news.file)
  /\ news.total \in {0, Len(news.file)} /\ news.tally \in Nat
  /\ news.tally = Len(shardRows)
  /\ Len(shardRows) \in Nat
  /\ BlockRows \in Nat \ {0} /\ NewsAttempts \in Nat \ {0}

LEMMA NewsFacts == NewsInv => NewsKnown
BY NewsAssumption DEF NewsInv, NewsKnown, NewsState, Resume, TallyIsRows

\* A stream that gives way to the next takes nothing with it.
LEMMA RetriedKeeps ==
  ASSUME NewsInv, news' = Retried(news.attempt), shardRows' = shardRows
  PROVE  NewsInv'
<1>f. NewsKnown
  BY NewsFacts
<1>t. news \in NewsState
  BY <1>f DEF NewsKnown
<1>1. CASE news.attempt < NewsAttempts
  <2> DEFINE place == Resume
             again == news.attempt + 1
             none == <<>>
  <2>1. news' = [news EXCEPT !.at = "ask", !.next = place, !.read = place, !.consumed = 0,
                    !.buffer = none, !.attempt = again]
    BY <1>1, <1>t DEF Retried, NewsState
  <2>2. again \in 1 .. NewsAttempts
    BY <1>1, <1>f DEF NewsKnown, NewsState
  <2>3. none \in Seq(Nat) /\ Len(none) = 0 /\ Ordered(none) /\ Range(none) = {}
    BY EmptyOrdered
  <2>4. place \in Nat
    BY <1>f DEF NewsKnown
  <2> HIDE DEF place, again, none
  <2>5. /\ news'.at = "ask" /\ news'.next = place /\ news'.read = place /\ news'.consumed = 0
        /\ news'.buffer = none /\ news'.file = news.file /\ news'.total = news.total
        /\ news'.tally = news.tally /\ news' \in NewsState
    <3>1. /\ news'.at = "ask" /\ news'.next = place /\ news'.read = place /\ news'.consumed = 0
          /\ news'.buffer = none /\ news'.file = news.file /\ news'.total = news.total
          /\ news'.tally = news.tally
      BY <1>t, <2>1 DEF NewsState
    <3>2. none \in Seq(Nat)
      BY <2>3
    <3>3. news' \in NewsState
      <4>1. news' = [at |-> "ask", file |-> news.file, next |-> place, total |-> news.total,
                     attempt |-> again, read |-> place, consumed |-> 0, buffer |-> none,
                     tally |-> news.tally]
        BY <1>t, <2>1 DEF NewsState
      <4>2. news.file \in Seq({"row", "other"}) /\ news.total \in Nat /\ news.tally \in Nat
        BY <1>t DEF NewsState
      <4> QED BY <2>2, <2>4, <3>2, <4>1, <4>2 DEF NewsState
    <3> QED BY <3>1, <3>3
  <2>6. Resume' = place /\ place = Resume
    BY <2>4, <2>5 DEF Resume, place
  <2>7. RowsIn(Resume, news.read)' = {} /\ RowsIn(0, Resume)' = RowsIn(0, Resume)
    <3>1. RowsIn(0, Resume)' = RowsIn(0, Resume)
      BY <2>5, <2>6 DEF RowsIn
    <3>2. RowsIn(Resume, news.read)' = {}
      <4>1. ASSUME NEW i \in DOMAIN news.file, place < i, i <= place PROVE FALSE
        <5>1. i \in Nat
          BY <1>f DEF NewsKnown
        <5> QED BY <2>4, <4>1, <5>1
      <4> QED BY <2>5, <2>6, <4>1 DEF RowsIn
    <3> QED BY <3>1, <3>2
  <2>8. place <= place /\ place <= Len(news.file) /\ Len(none) < BlockRows
    BY <1>f, <2>3, <2>4, <2>6 DEF NewsKnown
  <2>9. TallyIsRows' /\ Ordered(news.buffer)' /\ Ordered(shardRows)'
    BY <2>3, <2>5 DEF NewsInv, TallyIsRows, Ordered
  <2> QED BY <2>3, <2>5, <2>6, <2>7, <2>8, <2>9 DEF NewsInv
<1>2. CASE ~(news.attempt < NewsAttempts)
  <2>1. news' = [news EXCEPT !.at = "error"]
    BY <1>2 DEF Retried
  <2>2. /\ news'.at = "error" /\ news' \in NewsState
        /\ news'.next = news.next /\ news'.read = news.read /\ news'.consumed = news.consumed
        /\ news'.buffer = news.buffer /\ news'.file = news.file /\ news'.total = news.total
        /\ news'.tally = news.tally
    BY <1>t, <2>1 DEF NewsState
  <2> QED BY <2>2 DEF NewsInv, Resume, RowsIn, TallyIsRows, Ordered
<1> QED BY <1>1, <1>2

\* A block that goes to the shard takes the place along.
LEMMA FlushKeeps ==
  ASSUME NewsInv, NEW rows \in Seq(Nat), NEW upto \in Nat, NEW at \in {"stream", "end"},
         news.read <= upto, upto <= Len(news.file),
         Ordered(rows), Range(rows) = RowsIn(Resume, upto),
         news' = [Flushed(rows, upto) EXCEPT !.at = at], shardRows' = shardRows \o rows
  PROVE  NewsInv'
<1>f. NewsKnown
  BY NewsFacts
<1>t. news \in NewsState
  BY <1>f DEF NewsKnown
<1> DEFINE none == <<>>
           sum == news.tally + Len(rows)
           far == upto - news.next
<1>1. news' = [news EXCEPT !.read = upto, !.buffer = none, !.tally = sum, !.consumed = far, !.at = at]
  BY <1>t DEF Flushed, Tallied, NewsState
<1>2. none \in Seq(Nat) /\ Len(none) = 0 /\ Ordered(none) /\ Range(none) = {}
  BY EmptyOrdered
<1>3. Len(rows) \in Nat /\ sum \in Nat
  <2>1. Len(rows) \in Nat
    OBVIOUS
  <2> QED BY <1>f, <2>1 DEF NewsKnown
<1>4. far \in Nat
  BY <1>f DEF NewsKnown
<1> HIDE DEF none, sum, far
<1>5. /\ news'.at = at /\ news'.next = news.next /\ news'.read = upto /\ news'.consumed = far
      /\ news'.buffer = none /\ news'.file = news.file /\ news'.total = news.total
      /\ news'.tally = sum /\ news'.attempt = news.attempt
  BY <1>t, <1>1 DEF NewsState
<1>6. news' \in NewsState
  <2>1. at \in {"idle", "ask", "stream", "end", "ok", "error"}
    OBVIOUS
  <2> QED BY <1>t, <1>1, <1>2, <1>3, <1>4, <2>1 DEF NewsState
<1>7. Resume' = upto
  BY <1>5, <1>f DEF Resume, NewsKnown, far
<1>8. \A x \in Range(shardRows), y \in Range(rows) : x < y
  BY <1>f DEF NewsInv, RowsIn, NewsKnown
<1>9. /\ shardRows' \in Seq(Nat) /\ Len(shardRows') = Len(shardRows) + Len(rows)
      /\ Ordered(shardRows') /\ Range(shardRows') = Range(shardRows) \union Range(rows)
  BY <1>8, JoinOrdered DEF NewsInv
<1>10. Range(shardRows') = RowsIn(0, Resume)'
  <2>1. RowsIn(0, Resume)' = {i \in DOMAIN news.file : 0 < i /\ i <= upto /\ news.file[i] = "row"}
    BY <1>5, <1>7 DEF RowsIn
  <2>2. RowsIn(0, Resume) \union RowsIn(Resume, upto)
          = {i \in DOMAIN news.file : 0 < i /\ i <= upto /\ news.file[i] = "row"}
    BY <1>f DEF RowsIn, NewsKnown
  <2> QED BY <1>9, <2>1, <2>2 DEF NewsInv
<1>11. RowsIn(Resume, news.read)' = {}
  <2>1. ASSUME NEW i \in DOMAIN news.file, upto < i, i <= upto PROVE FALSE
    <3>1. i \in Nat
      BY <1>f DEF NewsKnown
    <3> QED BY <2>1, <3>1
  <2> QED BY <1>5, <1>7, <2>1 DEF RowsIn
<1>12. TallyIsRows'
  BY <1>5, <1>9, <1>f DEF TallyIsRows, NewsKnown, sum
<1>13. /\ Ordered(news.buffer)' /\ Range(news.buffer)' = RowsIn(Resume, news.read)'
       /\ Len(news.buffer)' < BlockRows
  <2>1. news'.buffer = none
    BY <1>5
  <2>2. Ordered(news'.buffer) /\ Range(news'.buffer) = {} /\ Len(news'.buffer) = 0
    BY <1>2, <2>1
  <2>3. BlockRows \in Nat \ {0}
    BY <1>f DEF NewsKnown
  <2>4. Ordered(news.buffer)'
    BY <2>2 DEF Ordered
  <2>5. Range(news.buffer)' = RowsIn(Resume, news.read)'
    BY <1>11, <2>2
  <2>6. Len(news.buffer)' < BlockRows
    BY <2>2, <2>3
  <2> QED BY <2>4, <2>5, <2>6
<1>14. Ordered(shardRows)'
  BY <1>9 DEF Ordered
<1>15. /\ Resume' <= news'.read /\ news'.read <= Len(news'.file)
       /\ news'.total \in {0, Len(news'.file)}
  BY <1>5, <1>7, <1>f DEF NewsKnown
<1> QED BY <1>5, <1>6, <1>9, <1>10, <1>12, <1>13, <1>14, <1>15 DEF NewsInv

\* A new record, and the buffer with it.
LEMMA ReadKeeps ==
  ASSUME NewsInv, ReadRecord
  PROVE  NewsInv'
<1>f. NewsKnown
  BY NewsFacts
<1>t. news \in NewsState
  BY <1>f DEF NewsKnown
<1> DEFINE i == news.read + 1
           b == IF news.file[i] = "row" THEN Append(news.buffer, i) ELSE news.buffer
<1>1. /\ news.at = "stream" /\ news.read < Len(news.file)
      /\ IF Len(b) = BlockRows /\ news.file[i] = "row"
         THEN news' = Flushed(b, i) /\ shardRows' = shardRows \o b
         ELSE news' = [news EXCEPT !.read = i, !.buffer = b] /\ shardRows' = shardRows
  BY DEF ReadRecord
<1>2. i \in Nat /\ i <= Len(news.file) /\ i \in DOMAIN news.file /\ news.read <= i /\ news.read < i
  BY <1>1, <1>f DEF NewsKnown
<1>3. b \in Seq(Nat) /\ Ordered(b) /\ Range(b) = RowsIn(Resume, i) /\ Len(b) <= BlockRows
      /\ (news.file[i] # "row" => Len(b) < BlockRows)
  <2>1. CASE news.file[i] = "row"
    <3>1. b = Append(news.buffer, i) /\ news.buffer \in Seq(Nat)
      BY <1>f, <2>1 DEF NewsKnown
    <3>2. RowsIn(Resume, i) = RowsIn(Resume, news.read) \union {i}
      <4>1. ASSUME NEW k \in DOMAIN news.file
            PROVE  Resume < k /\ k <= i <=> (Resume < k /\ k <= news.read) \/ k = i
        BY <1>2, <1>f DEF NewsKnown
      <4> QED BY <1>2, <2>1, <4>1 DEF RowsIn
    <3>3. \A x \in RowsIn(Resume, news.read) : x < i
      BY <1>2, <1>f DEF RowsIn, NewsKnown
    <3> HIDE DEF b, i
    <3>4. Append(news.buffer, i) = news.buffer \o <<i>>
      BY <1>2, <3>1
    <3>5. <<i>> \in Seq(Nat) /\ Len(<<i>>) = 1 /\ Ordered(<<i>>) /\ Range(<<i>>) = {i}
      BY <1>2, OneOrdered
    <3>6. \A x \in Range(news.buffer), y \in Range(<<i>>) : x < y
      BY <3>3, <3>5 DEF NewsInv
    <3>7. /\ b \in Seq(Nat) /\ Len(b) = Len(news.buffer) + 1
          /\ Ordered(b) /\ Range(b) = Range(news.buffer) \union {i}
      BY <3>1, <3>4, <3>5, <3>6, JoinOrdered DEF NewsInv
    <3>8. Len(b) <= BlockRows
      BY <1>f, <3>7 DEF NewsKnown
    <3>9. Range(news.buffer) = RowsIn(Resume, news.read)
      BY DEF NewsInv
    <3> QED BY <2>1, <3>2, <3>7, <3>8, <3>9
  <2>2. CASE news.file[i] # "row"
    <3>1. RowsIn(Resume, i) = RowsIn(Resume, news.read)
      <4>1. ASSUME NEW k \in DOMAIN news.file
            PROVE  Resume < k /\ k <= i <=> (Resume < k /\ k <= news.read) \/ k = i
        BY <1>2, <1>f DEF NewsKnown
      <4> QED BY <1>2, <2>2, <4>1 DEF RowsIn
    <3> QED BY <1>f, <2>2, <3>1 DEF NewsInv, NewsKnown
  <2> QED BY <2>1, <2>2
<1> HIDE DEF b, i
<1>4. CASE Len(b) = BlockRows /\ news.file[i] = "row"
  <2>1. news' = Flushed(b, i) /\ shardRows' = shardRows \o b
    BY <1>1, <1>4
  <2>2. Flushed(b, i) = [Flushed(b, i) EXCEPT !.at = "stream"]
    BY <1>1, <1>t DEF Flushed, NewsState
  <2> QED BY <1>2, <1>3, <2>1, <2>2, FlushKeeps
<1>5. CASE ~(Len(b) = BlockRows /\ news.file[i] = "row")
  <2>1. news' = [news EXCEPT !.read = i, !.buffer = b] /\ shardRows' = shardRows
    BY <1>1, <1>5
  <2>2. /\ news'.at = "stream" /\ news' \in NewsState
        /\ news'.next = news.next /\ news'.read = i /\ news'.consumed = news.consumed
        /\ news'.buffer = b /\ news'.file = news.file
        /\ news'.total = news.total /\ news'.tally = news.tally
    BY <1>1, <1>2, <1>3, <1>t, <2>1 DEF NewsState
  <2>3. Resume' = Resume
    BY <2>2 DEF Resume
  <2>4. Len(b) < BlockRows
    <3>1. Len(b) \in Nat /\ BlockRows \in Nat
      BY <1>3, <1>f DEF NewsKnown
    <3> QED BY <1>3, <1>5, <3>1
  <2>5. RowsIn(0, Resume)' = RowsIn(0, Resume) /\ RowsIn(Resume, news.read)' = RowsIn(Resume, i)
    BY <2>2, <2>3 DEF RowsIn
  <2>6. TallyIsRows' /\ Ordered(news.buffer)' /\ Ordered(shardRows)'
    BY <1>3, <2>1, <2>2 DEF NewsInv, TallyIsRows, Ordered
  <2>7. Resume <= i
    BY <1>2, <1>f DEF NewsKnown
  <2> QED BY <1>2, <1>3, <2>1, <2>2, <2>3, <2>4, <2>5, <2>6, <2>7 DEF NewsInv
<1> QED BY <1>4, <1>5

LEMMA NewsStep == NewsInv /\ [NewsNext]_newsVars => NewsInv'
<1> SUFFICES ASSUME NewsInv, [NewsNext]_newsVars PROVE NewsInv'
  OBVIOUS
<1>f. NewsKnown
  BY NewsFacts
<1>t. news \in NewsState
  BY <1>f DEF NewsKnown
<1>1. CASE indexNewsFile
  <2>1. PICK file \in NewsFiles : news.at = "idle" /\ news' = NewFile(file) /\ shardRows' = shardRows
    BY <1>1 DEF indexNewsFile
  <2>2. file \in Seq({"row", "other"}) /\ shardRows = <<>>
    BY <2>1, NewsAssumption DEF NewsInv
  <2> DEFINE none == <<>>
  <2>3. none \in Seq(Nat) /\ Len(none) = 0 /\ Ordered(none) /\ Range(none) = {}
    BY EmptyOrdered
  <2>4. news' = [at |-> "ask", file |-> file, next |-> 0, total |-> 0, attempt |-> 1, read |-> 0,
                 consumed |-> 0, buffer |-> none, tally |-> 0] /\ shardRows = none
    BY <2>1, <2>2 DEF NewFile
  <2> HIDE DEF none
  <2>5. /\ news'.at = "ask" /\ news'.file = file /\ news'.next = 0 /\ news'.read = 0
        /\ news'.consumed = 0 /\ news'.total = 0 /\ news'.buffer = none /\ news'.tally = 0
    BY <2>4
  <2>6. news' \in NewsState
    <3>1. 1 \in 1 .. NewsAttempts
      BY <1>f DEF NewsKnown
    <3> QED BY <2>2, <2>3, <2>4, <3>1 DEF NewsState
  <2>7. Resume' = 0 /\ Len(file) \in Nat /\ RowsIn(0, 0)' = {}
    BY <2>2, <2>5 DEF Resume, RowsIn
  <2>8. /\ Ordered(shardRows)' /\ Range(shardRows)' = RowsIn(0, Resume)' /\ TallyIsRows'
        /\ Ordered(news.buffer)' /\ Range(news.buffer)' = RowsIn(Resume, news.read)'
    BY <2>1, <2>3, <2>4, <2>5, <2>7 DEF TallyIsRows, Ordered
  <2> QED BY <1>f, <2>1, <2>3, <2>4, <2>5, <2>6, <2>7, <2>8 DEF NewsInv, NewsKnown
<1>2. CASE Ask
  <2>1. /\ news.at = "ask" /\ shardRows' = shardRows
        /\ \/ news' = [news EXCEPT !.at = "stream"]
           \/ news' = [news EXCEPT !.at = "stream",
                         !.total = IF news.total > 0 THEN news.total ELSE Len(news.file)]
    BY <1>2 DEF Ask
  <2>2. /\ news'.at = "stream" /\ news' \in NewsState
        /\ news'.next = news.next /\ news'.read = news.read /\ news'.consumed = news.consumed
        /\ news'.buffer = news.buffer /\ news'.file = news.file
        /\ news'.total \in {0, Len(news.file)}
        /\ news'.tally = news.tally
    BY <1>f, <2>1 DEF NewsState, NewsKnown
  <2> QED BY <2>1, <2>2 DEF NewsInv, Resume, RowsIn, TallyIsRows, Ordered
<1>3. CASE ReadRecord
  BY <1>3, ReadKeeps
<1>4. CASE StreamBreaks
  BY <1>4, RetriedKeeps DEF StreamBreaks
<1>5. CASE StreamEnd
  <2>1. /\ news' = [Flushed(news.buffer, news.read) EXCEPT !.at = "end"]
        /\ shardRows' = shardRows \o news.buffer
    BY <1>5 DEF StreamEnd
  <2>2. /\ Ordered(news.buffer) /\ Range(news.buffer) = RowsIn(Resume, news.read)
        /\ news.buffer \in Seq(Nat) /\ news.read \in Nat /\ news.read <= news.read
        /\ news.read <= Len(news.file)
    BY <1>f DEF NewsInv, NewsKnown
  <2> QED BY <2>1, <2>2, FlushKeeps
<1>6. CASE StreamJudged
  <2>1. CASE Complete
    <3>1. news' = [news EXCEPT !.at = "ok"] /\ shardRows' = shardRows /\ news.at = "end"
      BY <1>6, <2>1 DEF StreamJudged
    <3>2. /\ news'.at = "ok" /\ news' \in NewsState
          /\ news'.next = news.next /\ news'.read = news.read /\ news'.consumed = news.consumed
          /\ news'.buffer = news.buffer /\ news'.file = news.file
          /\ news'.total = news.total /\ news'.tally = news.tally
      BY <1>t, <3>1 DEF NewsState
    <3>3. Complete'
      BY <2>1, <3>2 DEF Complete, Resume
    <3> QED BY <3>1, <3>2, <3>3 DEF NewsInv, Resume, RowsIn, TallyIsRows, Ordered
  <2>2. CASE ~Complete
    BY <1>6, <2>2, RetriedKeeps DEF StreamJudged
  <2> QED BY <2>1, <2>2
<1>7. CASE UNCHANGED newsVars
  BY <1>7 DEF newsVars, NewsInv, Resume, RowsIn, TallyIsRows, Ordered, Complete
<1> QED BY <1>1, <1>2, <1>3, <1>4, <1>5, <1>6, <1>7 DEF NewsNext

\* However often the stream of a news file breaks, ends early or is taken up again, the tally is
\* the number of the shard's rows, and a shard that is finished has each row of the file once
\* and in order, provided the server ever said how long the file is.
THEOREM NewsIsWhole == NewsInit /\ [][NewsNext]_newsVars => []BreaksDoNotShow
<1>1. NewsInv => BreaksDoNotShow
  <2> SUFFICES ASSUME NewsInv PROVE BreaksDoNotShow
    OBVIOUS
  <2>f. NewsKnown
    BY NewsFacts
  <2>1. NewsTypeOK
    BY <2>f DEF NewsTypeOK, NewsState, NewsKnown
  <2>2. TallyIsRows
    BY DEF NewsInv
  <2>3. EachRowOnce
    <3> SUFFICES ASSUME news.at = "ok", news.total > 0
                 PROVE  /\ Range(shardRows) = {i \in DOMAIN news.file : news.file[i] = "row"}
                        /\ \A j, k \in DOMAIN shardRows : j < k => shardRows[j] < shardRows[k]
      BY DEF EachRowOnce
    <3>1. Resume = Len(news.file)
      BY <2>f DEF NewsInv, Complete, NewsKnown
    <3>2. RowsIn(0, Resume) = {i \in DOMAIN news.file : news.file[i] = "row"}
      BY <2>f, <3>1 DEF RowsIn, NewsKnown
    <3> QED BY <3>2 DEF NewsInv, Ordered
  <2> QED BY <2>1, <2>2, <2>3 DEF BreaksDoNotShow
<1> QED BY <1>1, NewsStarts, NewsStep, PTL
=============================================================================
