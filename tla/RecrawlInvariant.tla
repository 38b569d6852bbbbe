--------------------------- MODULE RecrawlInvariant ---------------------------
(***************************************************************************)
(* Why the recrawl engine never resumes past a row it has not dealt with:  *)
(* the inductive invariant behind NoRowSkipped's weaker and true sibling,  *)
(* OnlyDroppedRowsSkipped, and behind ImplementsLowWaterMark.  TLC checks  *)
(* it on small instances, RecrawlProofs proves it for all of them.  Then   *)
(* the invariant behind what a run promises about the pages it fetched:    *)
(* that a clean stop keeps them and that there are no more than the limit. *)
(***************************************************************************)
EXTENDS Recrawl

\* An item is where the program counters say it is.
ItemsInPlace ==
  /\ pc = "send" => hand \in Items
  /\ \A w \in Workers : at[w] \notin {"idle", "exited"} => job[w] \in Items
  /\ \A p \in Parts : wr[p] # "take" => wjob[p] \in Items

\* No row that was written can have been lost with a shard.
Sound == ~feedErr /\ pc # "close"

\* An owned row behind the reader is in one of five places: the reorder buffer,
\* the flight set, an open shard, settled, or lost by a failed read.
Resting   == Settled \cup dropped
Accounted == held \cup LiveRows \cup OpenRows \cup Resting

ReadRowsAccounted ==
  Sound => \A r \in Owned : r < wl.row => r \in Accounted

\* A writer retires a row only after the row is in a shard.
WrittenBeforeRetired ==
  Sound => \A p \in Parts :
             wr[p] = "retire" => wjob[p].row \in OpenRows \cup sealed

\* From the moment a position is noted until it is written down, every row
\* behind it is at least in an open shard, and after the sync in a sealed one.
MarkCovered ==
  /\ pc = "sync" => \A r \in Owned : r < mark.row => r \in OpenRows \cup Resting
  /\ pc \in {"save", "fsave"} =>
       \A r \in Owned : r < mark.row => r \in Resting
  /\ pc \in {"sync", "save"} => ~mark.done
  /\ pc = "fsave" /\ mark.done => Owned \subseteq Resting

\* The buffer holds rows that were read, the reader is at the end only when it
\* has read everything, an error keeps the run from its final checkpoint, and
\* nothing runs on after `done'.
HeldIsRead == \A r \in held : r < wl.row

EndIsRead == wl.done => wl.row = N

ErrorEndsRun == feedErr => pc \in {"closed", "drain", "close"}

DoneStops == ck.done => pc \in {"down", "close"}

\* Position m is no later than anything the run has still to do.
NoLater(m) ==
  /\ m <= wl.row
  /\ \A r \in held : m <= r
  /\ \A it \in live : m <= it.row
  /\ live = {} /\ past > 0 => m <= past

PositionsOrdered ==
  /\ NoLater(ck.row)
  /\ pc \in {"sync", "save", "fsave"} => NoLater(mark.row) /\ ck.row <= mark.row

\* Until a first item is retired, every item on its way is in the flight set.
NothingRetiredYet ==
  past = 0 =>
    /\ hand \in live \cup {None}
    /\ \A i \in DOMAIN work : work[i] \in live
    /\ \A w \in Workers : job[w] \in live \cup {None}
    /\ \A p \in Parts : \A i \in DOMAIN wq[p] : wq[p][i] \in live
    /\ \A p \in Parts : wjob[p] \in live \cup {None}

\* The engine's inductive invariant: rows are accounted for wherever they are,
\* and the position that is noted, and the one that is on disk, are behind all
\* of them.
Inv ==
  /\ TypeOK /\ ItemsInPlace
  /\ ReadRowsAccounted /\ WrittenBeforeRetired /\ MarkCovered
  /\ HeldIsRead /\ EndIsRead /\ ErrorEndsRun /\ DoneStops
  /\ PositionsOrdered /\ NothingRetiredYet
  /\ OnlyDroppedRowsSkipped /\ DoneIsFinal
-----------------------------------------------------------------------------
(* Pages *)

\* Past the wait for the pool no worker is left, and past the wait for the
\* writers nothing is on its way to a shard and nothing went wrong.
PoolIsGone == pc \in {"drain", "finish", "fsave", "close"} => \A w \in Workers : at[w] = "exited"

SinkIsQuiet ==
  pc \in {"finish", "fsave"} =>
    /\ \A p \in Parts : wq[p] = <<>> /\ wr[p] = "take"
    /\ errs = 0 /\ ~feedErr

\* Where a fetched row can be on its way to a shard.
OnItsWay(r) ==
  \/ \E w \in Workers : at[w] = "queue" /\ job[w].row = r
  \/ \E p \in Parts : \E i \in DOMAIN wq[p] : wq[p][i].row = r
  \/ \E p \in Parts : wr[p] = "write" /\ wjob[p].row = r

\* While no error was reported, no page of this run is lost.
FetchedIsKept ==
  Sound /\ errs = 0 => \A r \in fetched : r \in sealed \cup OpenRows \/ OnItsWay(r)

\* A row nobody has: read by this run, not in the buffer and not fetched.
Taken(r) == r < wl.row /\ r \notin held /\ r \notin fetched

\* A row on its way to a fetch is in one place, so that it is fetched once.
Asking(w) == at[w] \in {"ask", "fetch"}

RowsApart ==
  /\ held \cap fetched = {} /\ \A r \in fetched : r < wl.row
  /\ pc = "send" => Taken(hand.row)
  /\ \A i \in DOMAIN work : Taken(work[i].row)
  /\ \A w \in Workers : Asking(w) => Taken(job[w].row)
  /\ pc = "send" => /\ \A i \in DOMAIN work : work[i].row # hand.row
                    /\ \A w \in Workers : Asking(w) => job[w].row # hand.row
  /\ \A i, j \in DOMAIN work : i # j => work[i].row # work[j].row
  /\ \A i \in DOMAIN work, w \in Workers : Asking(w) => job[w].row # work[i].row
  /\ \A v, w \in Workers : v # w /\ Asking(v) /\ Asking(w) => job[v].row # job[w].row

\* The slots given out are the pages fetched and those being fetched, but for
\* those a stop cut off.
Fetching == {w \in Workers : at[w] = "fetch"}
Slots    == IF pages <= MaxPages THEN pages ELSE MaxPages

SlotsAreCounted ==
  MaxPages > 0 =>
    /\ Cardinality(fetched) + Cardinality(Fetching) <= Slots
    /\ ~cancelled => Cardinality(fetched) + Cardinality(Fetching) = Slots
    /\ full => pages > MaxPages

\* The inductive invariant about pages.
PageInv ==
  /\ TypeOK /\ ItemsInPlace /\ HeldIsRead /\ ErrorEndsRun
  /\ PoolIsGone /\ SinkIsQuiet /\ FetchedIsKept /\ CleanStopKeepsPages
  /\ RowsApart /\ SlotsAreCounted
=============================================================================
