----------------------------- MODULE ShardPack ------------------------------
(***************************************************************************)
(* Inside one shard (ccrawl/markdown.go, markdown_locations.go,            *)
(* refetch.go): a source of pages, converters, one writer of the parquet   *)
(* file, and the two queues between them.  An export reads the pages in    *)
(* order and drops duplicates as it reads; a refetch asks for the pages    *)
(* live, gets them in any order, some of them failed, and drops duplicates *)
(* as it writes.                                                           *)
(*                                                                         *)
(* A page stands for its body, a number; what its text comes to and its    *)
(* language follow from the body.  Spreading the URLs over hosts is part   *)
(* of "in any order".  The fetch engine (FetchBatch) is external: it       *)
(* answers for every URL, or stops early when it is cancelled.             *)
(***************************************************************************)
EXTENDS Integers, Sequences, FiniteSets, SequencesExt

CONSTANTS
  Sources,       \* sequences of bodies, 0 for a record that is no page
  BlankBodies,   \* bodies whose text comes to nothing
  OtherLang,     \* bodies that the language filter, when it is on, drops
  Converters,
  QueueRoom,     \* of records and of rows
  RecordLimits,  \* MaxRecords, 0 for none
  ShardFaults    \* bound of the model

ASSUME ShardAssumption ==
  /\ \A s \in Sources : s \in Seq(Nat)
  /\ QueueRoom \in Nat \ {0} /\ RecordLimits \subseteq Nat /\ ShardFaults \in Nat
  /\ IsFiniteSet(Converters) /\ Converters # {}

VARIABLES
  shard,      \* the pipeline, see NewShard
  converter,  \* worker -> [at, page]
  parquet,    \* the rows written
  shardFaults

shardVars == <<shard, converter, parquet, shardFaults>>

NewShard(refetch, dedup, lang, limit, source) ==
  [refetch |-> refetch, dedup |-> dedup, lang |-> lang, limit |-> limit, source |-> source, left |-> DOMAIN source,
   reading |-> TRUE, records |-> <<>>, rows |-> <<>>, rowsOpen |-> TRUE, seen |-> {}, queued |-> 0,
   digestDropped |-> 0, langDropped |-> 0, failed |-> 0, counted |-> 0, readErr |-> FALSE,
   at |-> "write", cancelled |-> FALSE]
NoShard == [NewShard(FALSE, FALSE, FALSE, 0, <<>>) EXCEPT !.at = "idle"]
Off == [c \in Converters |-> [at |-> "gone", page |-> [body |-> 0, failed |-> FALSE]]]

ShardTypeOK ==
  /\ shard.at \in {"idle", "write", "drain", "ok", "error"}
  /\ shard.left \subseteq DOMAIN shard.source
  /\ Len(shard.records) <= QueueRoom /\ Len(shard.rows) <= QueueRoom
  /\ \A c \in Converters : converter[c].at \in {"take", "convert", "gone"}
  /\ shard.limit > 0 /\ ~shard.refetch => shard.queued <= shard.limit

ShardInit == shard = NoShard /\ converter = Off /\ parquet = <<>> /\ shardFaults = 0
ShardFault == shardFaults < ShardFaults /\ shardFaults' = shardFaults + 1

PackShard ==
  /\ shard.at = "idle"
  /\ \E refetch, dedup, lang \in BOOLEAN, limit \in RecordLimits, source \in Sources :
       /\ refetch => limit = 0 /\ 0 \notin ToSet(source)
       /\ shard' = NewShard(refetch, dedup, lang, limit, source)
  /\ converter' = [c \in Converters |-> [Off[c] EXCEPT !.at = "take"]]
  /\ UNCHANGED <<parquet, shardFaults>>

(***************************************************************************)
(* The source.                                                             *)
(***************************************************************************)

Reading == shard.at # "idle" /\ shard.reading
NextRecord == CHOOSE i \in shard.left : \A j \in shard.left : i <= j
Queued(page) == Append(shard.records, page)

\* Mutant: a body is known only when it is the last one.
SeenLast(body) == {body}
SeenToo(body) == shard.seen \union {body}

\* A page, or a record that is none; a duplicate costs a hash, not a conversion.
drainSource ==
  /\ Reading /\ ~shard.refetch /\ shard.left # {}
  /\ LET body == shard.source[NextRecord]
         read == [shard EXCEPT !.left = @ \ {NextRecord}]
     IN shard' = IF body = 0 THEN read
                 ELSE IF shard.dedup /\ body \in shard.seen THEN [read EXCEPT !.digestDropped = @ + 1]
                 ELSE [read EXCEPT !.records = Queued([body |-> body, failed |-> FALSE]), !.queued = @ + 1,
                                   !.seen = SeenToo(body),
                                   !.reading = shard.limit = 0 \/ shard.queued + 1 < shard.limit]
  /\ Len(shard'.records) <= QueueRoom
  /\ UNCHANGED <<converter, parquet, shardFaults>>

SourceEnds ==
  /\ Reading /\ shard.left = {} /\ shard' = [shard EXCEPT !.reading = FALSE]
  /\ UNCHANGED <<converter, parquet, shardFaults>>

\* A cancel ends an export with an error; of a refetch the error is dropped.
SourceFails ==
  /\ Reading /\ shard.left # {}
  /\ IF shard.cancelled THEN UNCHANGED shardFaults ELSE ~shard.refetch /\ ShardFault
  /\ shard' = [shard EXCEPT !.reading = FALSE, !.readErr = ~shard.refetch]
  /\ UNCHANGED <<converter, parquet>>

FetchPage ==
  /\ Reading /\ shard.refetch /\ Len(shard.records) < QueueRoom
  /\ \E i \in shard.left, failed \in BOOLEAN :
       /\ IF failed /\ ~shard.cancelled THEN ShardFault ELSE UNCHANGED shardFaults
       /\ shard' = [shard EXCEPT !.left = @ \ {i},
                      !.records = Queued([body |-> shard.source[i], failed |-> failed])]
  /\ UNCHANGED <<converter, parquet>>

(***************************************************************************)
(* The converters, the writer.                                             *)
(***************************************************************************)

TakePage(c) ==
  /\ converter[c].at = "take" /\ shard.records # <<>>
  /\ converter' = [converter EXCEPT ![c] = [at |-> "convert", page |-> Head(shard.records)]]
  /\ shard' = [shard EXCEPT !.records = Tail(@)]
  /\ UNCHANGED <<parquet, shardFaults>>

NoMorePages(c) ==
  /\ converter[c].at = "take" /\ shard.records = <<>> /\ ~shard.reading
  /\ converter' = [converter EXCEPT ![c].at = "gone"]
  /\ UNCHANGED <<shard, parquet, shardFaults>>

\* A page whose text is empty makes no row in an export; a refetch keeps one.
Convert(c) ==
  LET page == converter[c].page
      row == shard.refetch \/ page.body \notin BlankBodies
  IN /\ converter[c].at = "convert" /\ (row => Len(shard.rows) < QueueRoom)
     /\ converter' = [converter EXCEPT ![c] = [Off[c] EXCEPT !.at = "take"]]
     /\ shard' = IF row THEN [shard EXCEPT !.rows = Append(@, page)] ELSE shard
     /\ UNCHANGED <<parquet, shardFaults>>

\* Mutant: the rows are closed by the first converter to leave.
AnyGone == \E c \in Converters : converter[c].at = "gone"
EveryGone == \A c \in Converters : converter[c].at = "gone"

CloseRows ==
  /\ shard.at # "idle" /\ shard.rowsOpen /\ EveryGone
  /\ shard' = [shard EXCEPT !.rowsOpen = FALSE]
  /\ UNCHANGED <<converter, parquet, shardFaults>>

\* Mutant: one failure stands for them all.
DuplicateAny(row) == shard.refetch /\ shard.dedup /\ row.body \in shard.seen
Duplicate(row) == shard.refetch /\ shard.dedup /\ ~row.failed /\ row.body \in shard.seen
\* A failed fetch has no text, and so no language.
LangMatches(row) == shard.lang => ~row.failed /\ row.body \notin OtherLang
Says(row) == ~row.failed /\ row.body \notin BlankBodies

\* The whole attempt is counted, and then filtered: duplicates first, then the language.
WriteRow ==
  /\ shard.at = "write" /\ shard.rows # <<>>
  /\ LET row == Head(shard.rows)
         read == [shard EXCEPT !.rows = Tail(@), !.failed = @ + IF row.failed THEN 1 ELSE 0]
         new == [read EXCEPT !.seen = IF shard.refetch /\ ~row.failed THEN SeenToo(row.body) ELSE @]
     IN IF Duplicate(row)
        THEN shard' = [read EXCEPT !.digestDropped = @ + 1] /\ UNCHANGED parquet
        ELSE IF ~LangMatches(row)
        THEN shard' = [new EXCEPT !.langDropped = @ + 1] /\ UNCHANGED parquet
        ELSE shard' = [new EXCEPT !.counted = @ + IF Says(row) THEN 1 ELSE 0] /\ parquet' = Append(parquet, row)
  /\ UNCHANGED <<converter, shardFaults>>

\* The file is closed, and the rows are thrown away as they come.
WriteRowFails ==
  /\ shard.at = "write" /\ shard.rows # <<>> /\ ShardFault
  /\ ~Duplicate(Head(shard.rows)) /\ LangMatches(Head(shard.rows))
  /\ shard' = [shard EXCEPT !.rows = Tail(@), !.at = "drain"]
  /\ UNCHANGED <<converter, parquet>>

\* Mutant: nobody reads the rows of a failed file.
NotDrained == FALSE
Drains == shard.at = "drain"

DrainRow ==
  /\ Drains /\ shard.rows # <<>> /\ shard' = [shard EXCEPT !.rows = Tail(@)]
  /\ UNCHANGED <<converter, parquet, shardFaults>>

\* The rows are closed and read; the file is closed, and then the shard stands or fails.
ShardReturns ==
  /\ shard.at \in {"write", "drain"} /\ ~shard.rowsOpen /\ shard.rows = <<>>
  /\ \/ shard' = [shard EXCEPT !.at = IF shard.at = "drain" \/ shard.readErr THEN "error" ELSE "ok"]
        /\ UNCHANGED shardFaults
     \/ shard.at = "write" /\ ShardFault /\ shard' = [shard EXCEPT !.at = "error"]
  /\ UNCHANGED <<converter, parquet>>

CancelShard ==
  /\ shard.at = "write" /\ ~shard.cancelled /\ ShardFault /\ shard' = [shard EXCEPT !.cancelled = TRUE]
  /\ UNCHANGED <<converter, parquet>>

ShardSource == drainSource \/ SourceEnds \/ FetchPage \/ (shard.cancelled /\ SourceFails)
ShardWriter == CloseRows \/ WriteRow \/ DrainRow \/ ShardReturns
ShardWorker(c) == TakePage(c) \/ NoMorePages(c) \/ Convert(c)

ShardNext ==
  \/ PackShard \/ ShardSource \/ SourceFails \/ ShardWriter \/ WriteRowFails \/ CancelShard
  \/ \E c \in Converters : ShardWorker(c)

ShardFair ==
  /\ WF_shardVars(ShardSource) /\ WF_shardVars(ShardWriter)
  /\ \A c \in Converters : WF_shardVars(ShardWorker(c))

(***************************************************************************)
(* Properties.                                                             *)
(***************************************************************************)

Whole == shard.at = "ok" /\ ~shard.cancelled
Bodies == ToSet(shard.source) \ {0}
Rows(body) == Cardinality({k \in DOMAIN parquet : parquet[k].body = body /\ ~parquet[k].failed})

\* A shard that succeeds has a row for each page it was to keep, whatever order pages and
\* rows came in, and its counters add up: the filters drop what they should and the
\* queues, closed one after the other, drop nothing.
PagesKept ==
  Whole /\ shard.limit = 0 =>
    /\ \A body \in Bodies :
         LET wanted == (shard.lang => body \notin OtherLang) /\ (shard.refetch \/ body \notin BlankBodies)
             asked == Cardinality({i \in DOMAIN shard.source : shard.source[i] = body})
         IN wanted => Rows(body) + shard.failed >= IF shard.dedup THEN 1 ELSE asked
    /\ shard.refetch => Len(parquet) + shard.langDropped + shard.digestDropped = Len(shard.source)

\* "--dedup-digest" keeps one row for each body; failures are exempt, since "dropping all
\* but one of them would hide the dead hosts" (refetch.go:258).
OneOfEach ==
  shard.dedup =>
    /\ \A body \in ToSet(shard.source) : Rows(body) <= 1
    /\ Whole /\ ~shard.lang =>
         Cardinality({k \in DOMAIN parquet : parquet[k].failed}) = shard.failed

\* Each page is in the shard once, if it is to be there at all.
ShardIsWhole == ShardTypeOK /\ PagesKept /\ OneOfEach

\* The shard returns, and nobody is left behind: no queue stays full after a failure.
ShardEnds == shard.at # "idle" ~> shard.at \in {"ok", "error"}
=============================================================================
