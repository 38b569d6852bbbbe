----------------------------- MODULE HubUpload -----------------------------
(***************************************************************************)
(* The hub's commit protocol as ccrawl/hf_upload.go speaks it: measure the *)
(* files, ask how each travels, ask object storage what it lacks, put the  *)
(* bytes in pieces under one budget of connections, complete and verify    *)
(* each object, and post a commit that names the objects by their hash.    *)
(* CommitWithRetry (hf.go) sends the whole of it again when it fails.      *)
(*                                                                         *)
(* A file's bytes do not change while it is staged, so a file stands for   *)
(* its object; it may vanish, and the hub may not answer for it.  The hub  *)
(* and its store are external: they assemble an object from the pieces in  *)
(* the order they are told.                                                *)
(***************************************************************************)
EXTENDS Integers, Sequences, FiniteSets, FiniteSetsExt, SequencesExt

CONSTANTS
  UpFiles,      \* the operations of one commit
  Pieces,       \* parts of an object: 1 travels in one PUT, more in several
  Slots,        \* hfUploadConcurrency
  SendRetries,  \* hfRetries
  CommitTries,  \* maxAttempts of CommitWithRetry
  UpFaults      \* bound of the model

ASSUME UploadAssumption ==
  /\ {Slots, SendRetries, CommitTries} \subseteq Nat \ {0} /\ UpFaults \in Nat
  /\ Pieces \in [UpFiles -> Nat \ {0}]

VARIABLES
  disk,     \* the files still staged
  store,    \* object -> the piece at each of its places, <<>> if it is not stored
  commits,  \* history: the commits the hub applied, as sets of the files they name
  up,       \* the conversation: [phase, tries, attempt, failed, files, mode, plan]
  object,   \* file -> where its upload is
  piece,    \* file -> part -> [at, tries]
  upFaults

upVars == <<disk, store, commits, up, object, piece, upFaults>>

\* How a file travels: "none" is a file the hub did not answer for.
Modes == {"none", "lfs", "regular", "ignore"}
Order(f) == [i \in 1 .. Pieces[f] |-> i]
Apart == [at |-> "todo", tries |-> 0]
Untouched == [f \in UpFiles |-> [i \in 1 .. Pieces[f] |-> Apart]]
Quiet == [f \in UpFiles |-> "todo"]

UpTypeOK ==
  /\ disk \subseteq UpFiles /\ \A c \in Range(commits) : c \subseteq UpFiles
  /\ up.phase \in {"idle", "measure", "preupload", "batch", "upload", "body", "post", "ok", "error"}
  /\ up.mode \in [UpFiles -> Modes] /\ up.files \subseteq UpFiles /\ up.plan \subseteq UpFiles
  /\ object \in [UpFiles -> {"todo", "parts", "complete", "verify", "stored"}]
  /\ \A f \in UpFiles : \A i \in DOMAIN piece[f] :
       piece[f][i].at \in {"todo", "put", "done", "failed"}

NewTalk(attempt) ==
  [phase |-> "measure", tries |-> 0, attempt |-> attempt, failed |-> FALSE, vanished |-> {},
   files |-> {}, plan |-> {}, mode |-> [f \in UpFiles |-> "none"]]

UpInit ==
  /\ disk = UpFiles /\ commits = <<>> /\ upFaults = 0 /\ store = [f \in UpFiles |-> <<>>]
  /\ up = [NewTalk(1) EXCEPT !.phase = "idle"] /\ object = Quiet /\ piece = Untouched

UpFault == upFaults < UpFaults /\ upFaults' = upFaults + 1
\* What a failed conversation leaves: CommitWithRetry starts another one.
GivesUp == up' = IF up.attempt < CommitTries THEN NewTalk(up.attempt + 1)
                 ELSE [up EXCEPT !.phase = "error"]
Anew == object' = Quiet /\ piece' = Untouched
GoesOn(phase) == up' = [up EXCEPT !.phase = phase, !.tries = 0]

\* Some objects may be in the store from an earlier commit.
createCommitGo ==
  /\ up.phase = "idle" /\ up' = NewTalk(1)
  /\ \E held \in SUBSET UpFiles : store' = [f \in UpFiles |-> IF f \in held THEN Order(f) ELSE <<>>]
  /\ UNCHANGED <<disk, commits, object, piece, upFaults>>

\* A staged file is swept away under the commit.
Vanish ==
  /\ up.phase \notin {"idle", "ok", "error"} /\ UpFault
  /\ \E f \in disk : disk' = disk \ {f}
  /\ UNCHANGED <<store, commits, up, object, piece>>

\* A file that is gone is skipped with a warning; with none left there is no commit.
measureFile ==
  /\ up.phase = "measure"
  /\ IF disk = {} THEN GivesUp
     ELSE up' = [up EXCEPT !.phase = "preupload", !.files = disk, !.vanished = UpFiles \ disk]
  /\ UNCHANGED <<disk, store, commits, object, piece, upFaults>>

Accepted(answer) == \A f \in up.files : answer[f] # "none"

\* The hub may ignore a file, and leave one out of its answer.
preupload ==
  /\ up.phase = "preupload"
  /\ \E answer \in [up.files -> Modes] :
       /\ IF \E f \in up.files : answer[f] = "none" THEN UpFault ELSE UNCHANGED upFaults
       /\ IF Accepted(answer)
          THEN up' = [up EXCEPT !.mode = [f \in UpFiles |-> IF f \in up.files THEN answer[f] ELSE @[f]],
                                 !.tries = 0, !.phase =
                        IF \E f \in up.files : answer[f] = "lfs" THEN "batch" ELSE "body"]
          ELSE GivesUp
  /\ UNCHANGED <<disk, store, commits, object, piece>>

Large == {f \in up.files : up.mode[f] = "lfs"}

\* What is stored already comes back without an action: nothing to transfer.
lfsBatch ==
  /\ up.phase = "batch"
  /\ up' = [up EXCEPT !.phase = "upload", !.tries = 0,
                      !.plan = {f \in Large : store[f] # Order(f)}]
  /\ object' = [f \in UpFiles |-> IF f \in up'.plan THEN "parts" ELSE "todo"]
  /\ UNCHANGED <<disk, store, commits, piece, upFaults>>

InFlight == UNION {{f} \X {i \in DOMAIN piece[f] : piece[f][i].at = "put"} : f \in UpFiles}
Moves(f, i, at) == piece' = [piece EXCEPT ![f][i].at = at]

\* Mutant: the budget is each file's own.
FreePerFile(f) == Cardinality({p \in InFlight : p[1] = f}) < Slots
Free(f) == Cardinality(InFlight) < Slots

\* A piece that fails ends the group.
PieceFails(f, i) == Moves(f, i, "failed") /\ up' = [up EXCEPT !.failed = TRUE]

\* The connection is held through the retries; the file is opened for each of them.
TakeSlot(f, i) ==
  /\ up.phase = "upload" /\ ~up.failed /\ object[f] = "parts" /\ piece[f][i].at = "todo"
  /\ Free(f)
  /\ IF f \in disk THEN Moves(f, i, "put") /\ UNCHANGED up ELSE PieceFails(f, i)
  /\ UNCHANGED <<disk, store, commits, object, upFaults>>

PutBytes(f, i) ==
  /\ piece[f][i].at = "put" /\ ~up.failed /\ Moves(f, i, "done")
  /\ UNCHANGED <<disk, store, commits, up, object, upFaults>>

\* The context of the group is over.
PutEnds(f, i) ==
  /\ piece[f][i].at = "put" /\ up.failed /\ Moves(f, i, "failed")
  /\ UNCHANGED <<disk, store, commits, up, object, upFaults>>

PutFails(f, i) ==
  /\ piece[f][i].at = "put" /\ ~up.failed /\ UpFault
  /\ IF f \in disk /\ piece[f][i].tries + 1 < SendRetries
     THEN piece' = [piece EXCEPT ![f][i].tries = @ + 1] /\ UNCHANGED up
     ELSE PieceFails(f, i)
  /\ UNCHANGED <<disk, store, commits, object>>

\* A decision of the store, no ETag in its answer, or no answer until the deadline.
PutRefused(f, i) ==
  /\ piece[f][i].at = "put" /\ ~up.failed /\ UpFault /\ PieceFails(f, i)
  /\ UNCHANGED <<disk, store, commits, object>>

\* Mutant: an object is completed while a part of it is still on its way.
Early(f) == \E i \in DOMAIN piece[f] : piece[f][i].at = "done"
AllPut(f) == \A i \in DOMAIN piece[f] : piece[f][i].at = "done"

\* The last part done: one PUT is an object, several are put together.
uploadMultipart(f) ==
  /\ object[f] = "parts" /\ AllPut(f) /\ ~up.failed
  /\ store' = [store EXCEPT ![f] = [i \in {i \in DOMAIN piece[f] : piece[f][i].at = "done"} |-> i]]
  /\ object' = [object EXCEPT ![f] = "verify"]
  /\ UNCHANGED <<disk, commits, up, piece, upFaults>>

\* The hub asks for a verification, or not.
Verify(f) ==
  /\ object[f] = "verify" /\ ~up.failed /\ object' = [object EXCEPT ![f] = "stored"]
  /\ UNCHANGED <<disk, store, commits, up, piece, upFaults>>

CompleteFails(f) ==
  /\ object[f] \in {"parts", "verify"} /\ AllPut(f) /\ ~up.failed /\ UpFault
  /\ up' = [up EXCEPT !.failed = TRUE]
  /\ UNCHANGED <<disk, store, commits, object, piece>>

\* Mutant: the group is left at its first object.
FirstIn == \E f \in up.plan : object[f] = "stored"
\* Mutant: what was stored before is waited for as well.
LargeIn == \A f \in Large : object[f] = "stored"
AllIn == \A f \in up.plan : object[f] = "stored"

Uploaded ==
  /\ up.phase = "upload" /\ ~up.failed /\ AllIn /\ GoesOn("body")
  /\ UNCHANGED <<disk, store, commits, object, piece, upFaults>>

\* g.Wait: not before the connections are given back.
UploadFails ==
  /\ up.phase = "upload" /\ up.failed /\ InFlight = {} /\ GivesUp /\ Anew
  /\ UNCHANGED <<disk, store, commits, upFaults>>

\* Small files are read again, now: one that is gone by now fails the commit, and so
\* does one that is too large to be inlined.
Unreadable(f) == up.mode[f] = "regular" /\ (f \notin disk \/ Pieces[f] > 1)

commitNDJSON ==
  /\ up.phase = "body"
  /\ IF \E f \in up.files : Unreadable(f) THEN GivesUp /\ Anew
     ELSE GoesOn("post") /\ UNCHANGED <<object, piece>>
  /\ UNCHANGED <<disk, store, commits, upFaults>>

\* Mutant: the files that travel inline are left out.
NamedLarge == {f \in up.files : up.mode[f] = "lfs"}
Named == {f \in up.files : up.mode[f] # "ignore"}

Post ==
  /\ up.phase = "post" /\ commits' = Append(commits, Named) /\ GoesOn("ok")
  /\ UNCHANGED <<disk, store, object, piece, upFaults>>

PostUnanswered ==
  /\ up.phase = "post" /\ UpFault /\ commits' = Append(commits, Named)
  /\ IF up.tries + 1 < SendRetries
     THEN up' = [up EXCEPT !.tries = @ + 1] /\ UNCHANGED <<object, piece>>
     ELSE GivesUp /\ Anew
  /\ UNCHANGED <<disk, store>>

\* doJSON: busy is retried, anything else is a decision.
SendBusy ==
  /\ up.phase \in {"preupload", "batch", "post"} /\ UpFault
  /\ IF up.tries + 1 < SendRetries
     THEN up' = [up EXCEPT !.tries = @ + 1] /\ UNCHANGED <<object, piece>>
     ELSE GivesUp /\ Anew
  /\ UNCHANGED <<disk, store, commits>>

SendRefused ==
  /\ up.phase \in {"preupload", "batch", "post"} /\ UpFault /\ GivesUp /\ Anew
  /\ UNCHANGED <<disk, store, commits>>

UpPiece(f, i) == TakeSlot(f, i) \/ PutBytes(f, i) \/ PutEnds(f, i)
UpSure ==
  \/ measureFile \/ preupload \/ lfsBatch \/ Uploaded \/ UploadFails \/ commitNDJSON \/ Post
  \/ \E f \in UpFiles : \/ uploadMultipart(f) \/ Verify(f)
                        \/ \E i \in 1 .. Pieces[f] : UpPiece(f, i)

UpNext ==
  \/ createCommitGo \/ UpSure \/ Vanish \/ PostUnanswered \/ SendBusy \/ SendRefused
  \/ \E f \in UpFiles : \/ CompleteFails(f)
                        \/ \E i \in 1 .. Pieces[f] : PutFails(f, i) \/ PutRefused(f, i)

UpFair == WF_upVars(UpSure)

UpSpec == UpInit /\ [][UpNext]_upVars

(***************************************************************************)
(* Properties.                                                             *)
(***************************************************************************)

\* No commit names an object before object storage holds all of it: a reader of the
\* dataset never meets a pointer to nothing (hf_upload.go:727).
NamedIsStored ==
  up.phase = "post" => \A f \in Named : up.mode[f] = "lfs" => store[f] = Order(f)

\* A commit that succeeds has every file of the batch but those the hub ignores and
\* those gone before they were measured: "refuse rather than publish a hole in the
\* dataset" (hf_upload.go:328).
NoHole ==
  up.phase = "ok" =>
    \A f \in UpFiles : \/ f \in Last(commits) \/ f \in up.vanished
                       \/ up.mode[f] = "ignore"

\* "bounds the PUTs in flight across the whole commit, not per file" (hf_upload.go:480).
OneBudget == Cardinality(InFlight) <= Slots

\* A commit is whole, and its objects arrived under the budget.
CommitIsWhole == UpTypeOK /\ NamedIsStored /\ NoHole /\ OneBudget

\* The conversation ends, whatever is refused, unanswered or gone: no piece waits for
\* a connection that nobody gives back.
UploadEnds == up.phase = "measure" ~> up.phase \in {"ok", "error"}

(***************************************************************************)
(* The inductive invariant behind CommitIsWhole.                           *)
(***************************************************************************)

Talks ==
  [phase : {"idle", "measure", "preupload", "batch", "upload", "body", "post", "ok", "error"},
   tries : Nat, attempt : Nat, failed : BOOLEAN, vanished : SUBSET UpFiles, files : SUBSET UpFiles,
   plan : SUBSET UpFiles, mode : [UpFiles -> Modes]]

Parcels(f) == [1 .. Pieces[f] -> [at : {"todo", "put", "done", "failed"}, tries : Nat]]

UpTyped ==
  /\ disk \subseteq UpFiles /\ commits \in Seq(SUBSET UpFiles) /\ up \in Talks
  /\ DOMAIN store = UpFiles
  /\ object \in [UpFiles -> {"todo", "parts", "complete", "verify", "stored"}]
  /\ piece \in [UpFiles -> UNION {Parcels(f) : f \in UpFiles}]
  /\ \A f \in UpFiles : piece[f] \in Parcels(f)

\* An object that was put together has all its pieces, and nothing is put together
\* before the conversation begins.
ObjectsAreWhole ==
  /\ up.phase = "idle" => object = Quiet
  /\ \A f \in UpFiles : object[f] \in {"verify", "stored"} => store[f] = Order(f)

\* What is not to be uploaded is there; what was to be uploaded is, once the commit
\* itself is written.
UploadsArrive ==
  /\ up.phase = "upload" => \A f \in Large : f \in up.plan \/ store[f] = Order(f)
  /\ up.phase \in {"body", "post"} => \A f \in Large : store[f] = Order(f)

\* No file but those gone at the start is missing from the conversation.
NobodyIsForgotten ==
  up.phase \notin {"idle", "measure", "error"} => UpFiles \ up.files \subseteq up.vanished

UpInv ==
  /\ UpTyped /\ ObjectsAreWhole /\ UploadsArrive /\ NobodyIsForgotten
  /\ IsFiniteSet(InFlight) /\ CommitIsWhole
=============================================================================
