----------------------------- MODULE BatchFetch -----------------------------
(***************************************************************************)
(* Batched ranged fetches (ccrawl/batchfetch.go, keyledger.go, driven by   *)
(* cli/fetch.go): locations are sorted by file and offset, neighbours      *)
(* share one GET, a pool fetches the groups no further ahead of the writer *)
(* than a window of tokens, and one writer emits the records in file order *)
(* or, through a reorder buffer, in input order.  A ledger of keys,        *)
(* flushed once a group, makes the run resumable.                          *)
(***************************************************************************)
EXTENDS Integers, Sequences, FiniteSets, FiniteSetsExt, SequencesExt

CONSTANTS
  Inputs,        \* the lists of locations: sequences of [file, off, len]
  Gap, MaxSpan,
  Fetchers,      \* the pool
  Window,
  BatchRuns,     \* bound of the model
  BatchFaults    \* bound of the model

ASSUME BatchAssumption ==
  /\ {Window, MaxSpan, BatchRuns} \subseteq Nat \ {0} /\ {Gap, BatchFaults} \subseteq Nat
  /\ \A input \in Inputs : \A i \in DOMAIN input :
       input[i].file \in Nat /\ input[i].off \in Nat /\ input[i].len \in Nat \ {0}

VARIABLES
  fetch,      \* the run, see NewFetch
  slot,       \* group -> [full, bad]: what was fetched and not yet read
  fetcher,    \* worker -> [at, group]
  marks,      \* [disk, mem]: keys of the ledger, on disk and buffered
  emitted,    \* history: the keys emitted by any run
  batchLog    \* history: [runs, faults, exit]

batchVars == <<fetch, slot, fetcher, marks, emitted, batchLog>>

(***************************************************************************)
(* Grouping.                                                               *)
(***************************************************************************)

LocationKey(loc) == <<loc.file, loc.off>>
EndOf(loc) == loc.off + loc.len

\* Positions of the input by file, offset and, for equals, input order.
Sorted(input, todo) ==
  SetToSortSeq(todo, LAMBDA i, j :
    LET a == input[i] b == input[j]
    IN \/ a.file < b.file
       \/ a.file = b.file /\ (a.off < b.off \/ (a.off = b.off /\ i < j)))

Group(input, i) == [file |-> input[i].file, lo |-> input[i].off, hi |-> EndOf(input[i]), at |-> <<i>>]

\* Mutant: the span is that of the record alone.
JoinsAlone(g, loc) ==
  loc.file = g.file /\ loc.off - g.hi <= Gap /\ EndOf(loc) - loc.off <= MaxSpan

\* The hole is measured from the end of the group, and the span of all of it capped.
Joins(g, loc) ==
  loc.file = g.file /\ loc.off - g.hi <= Gap /\ Max({g.hi, EndOf(loc)}) - g.lo <= MaxSpan

GroupLocations(input, todo) ==
  FoldLeft(LAMBDA groups, i :
             IF groups # <<>> /\ Joins(Last(groups), input[i])
             THEN [groups EXCEPT ![Len(groups)].hi = Max({@, EndOf(input[i])}),
                                 ![Len(groups)].at = Append(@, i)]
             ELSE Append(groups, Group(input, i)),
           <<>>, Sorted(input, todo))

\* Under input order the groups run by their earliest member.
InInputOrder(groups) == SortSeq(groups, LAMBDA g, h : Min(ToSet(g.at)) < Min(ToSet(h.at)))

(***************************************************************************)
(* The run.                                                                *)
(***************************************************************************)

NotFetching == [up |-> FALSE, input |-> <<>>, inOrder |-> FALSE, todo |-> {}, groups |-> <<>>,
                next |-> 1, tokens |-> Window, cursor |-> 1, at |-> "read", pending |-> <<>>,
                out |-> <<>>, bad |-> {}, stopped |-> FALSE, err |-> FALSE]
Away == [w \in Fetchers |-> [at |-> "gone", group |-> 0]]

BatchTypeOK ==
  /\ fetch.tokens \in 0 .. Window /\ fetch.at \in {"read", "sync"}
  /\ fetch.cursor \in 1 .. Len(fetch.groups) + 1
  /\ ToSet(fetch.out) \union fetch.bad \subseteq DOMAIN fetch.input
  /\ \A w \in Fetchers : fetcher[w].at \in {"next", "token", "get", "gone"}
  /\ marks.disk \subseteq emitted

BatchInit ==
  /\ fetch = NotFetching /\ slot = <<>> /\ fetcher = Away
  /\ marks = [disk |-> {}, mem |-> {}] /\ emitted = {}
  /\ batchLog = [runs |-> 0, faults |-> 0, exit |-> "none"]

BatchFault == batchLog.faults < BatchFaults /\ batchLog' = [batchLog EXCEPT !.faults = @ + 1]

InLedger(loc) == LocationKey(loc) \in marks.disk

\* The locations of a run stay the same from one run to the next.
RunBatchFetch ==
  /\ ~fetch.up /\ batchLog.runs < BatchRuns
  /\ \E input \in Inputs, inOrder \in BOOLEAN :
       LET todo == {i \in DOMAIN input : ~InLedger(input[i])}
           groups == GroupLocations(input, todo)
       IN /\ fetch.input # <<>> => input = fetch.input
          /\ fetch' = [NotFetching EXCEPT !.up = TRUE, !.input = input, !.inOrder = inOrder, !.todo = todo,
                         !.groups = IF inOrder THEN InInputOrder(groups) ELSE groups,
                         !.pending = SetToSortSeq(todo, <)]
          /\ slot' = [i \in DOMAIN groups |-> [full |-> FALSE, bad |-> {}]]
  /\ fetcher' = [w \in Fetchers |-> [at |-> "next", group |-> 0]]
  /\ batchLog' = [batchLog EXCEPT !.runs = @ + 1, !.exit = "none"]
  /\ UNCHANGED <<marks, emitted>>

Steps(w, at) == fetcher' = [fetcher EXCEPT ![w].at = at]

\* The channel of group numbers has no buffer.
NextGroup(w) ==
  /\ fetcher[w].at = "next" /\ fetch.next <= Len(fetch.groups)
  /\ fetcher' = [fetcher EXCEPT ![w] = [at |-> "token", group |-> fetch.next]]
  /\ fetch' = [fetch EXCEPT !.next = @ + 1]
  /\ UNCHANGED <<slot, marks, emitted, batchLog>>

NoMoreGroups(w) ==
  /\ \/ fetcher[w].at = "next" /\ (fetch.next > Len(fetch.groups) \/ fetch.stopped)
     \/ fetcher[w].at = "token" /\ fetch.stopped
  /\ Steps(w, "gone")
  /\ UNCHANGED <<fetch, slot, marks, emitted, batchLog>>

TakeToken(w) ==
  /\ fetcher[w].at = "token" /\ fetch.tokens > 0 /\ Steps(w, "get")
  /\ fetch' = [fetch EXCEPT !.tokens = @ - 1]
  /\ UNCHANGED <<slot, marks, emitted, batchLog>>

\* Mutant: a token for each record.
FreedTokens == fetch.tokens + Len(fetch.groups[fetch.cursor].at)
\* The writer gives the token back.
FreedToken == fetch.tokens + 1

\* Every slot takes one result: a send never blocks.  Some locations, or all of them,
\* may come to nothing; all of them do once the context is over.
FetchGroup(w) ==
  LET g == fetcher[w].group
      all == ToSet(fetch.groups[g].at)
  IN /\ fetcher[w].at = "get"
     /\ \E bad \in SUBSET all :
          /\ IF fetch.stopped THEN bad = all /\ UNCHANGED batchLog
             ELSE IF bad = {} THEN UNCHANGED batchLog ELSE BatchFault
          /\ slot' = [slot EXCEPT ![g] = [full |-> TRUE, bad |-> bad]]
     /\ Steps(w, "next")
     /\ UNCHANGED <<fetch, marks, emitted>>

(***************************************************************************)
(* The writer.                                                             *)
(***************************************************************************)

\* Mutant: what is there is written, whatever it waits for.
Writable1(known) == SelectSeq(fetch.pending, LAMBDA i : i \in known)

\* The longest part of what is due that is known.
Writable(known) ==
  LET upto == {n \in 0 .. Len(fetch.pending) : \A k \in 1 .. n : fetch.pending[k] \in known}
  IN SubSeq(fetch.pending, 1, Max(upto))

\* What is known of the groups read so far.
Known(upto) == UNION {ToSet(fetch.groups[g].at) : g \in 1 .. upto}

\* Mutant: a failed location is as done as a fetched one.
MarkedAll(good, due) == due
Marked(good, due) == good

\* The records of a group, or under input order those whose turn has come; a callback
\* that fails ends the run where it stood.
WriteGroup ==
  LET g == fetch.cursor
      bad == fetch.bad \union slot[g].bad
      due == IF fetch.inOrder THEN Writable(Known(g)) ELSE fetch.groups[g].at
  IN /\ fetch.up /\ ~fetch.stopped /\ fetch.at = "read" /\ g <= Len(fetch.groups) /\ slot[g].full
     /\ \E n \in 0 .. Len(due) :
          LET done == SubSeq(due, 1, n)
              good == SelectSeq(done, LAMBDA i : i \notin bad)
              keys(s) == {LocationKey(fetch.input[i]) : i \in s}
          IN /\ IF n = Len(due) THEN UNCHANGED batchLog ELSE due[n + 1] \notin bad /\ BatchFault
             /\ emitted' = emitted \union keys(ToSet(good))
             /\ marks' = [marks EXCEPT !.mem = @ \union (keys(Marked(ToSet(good), ToSet(done))) \ marks.disk)]
             /\ fetch' = [fetch EXCEPT !.out = @ \o good, !.bad = bad, !.tokens = FreedToken,
                            !.pending = IF fetch.inOrder THEN SubSeq(@, n + 1, Len(@)) ELSE @,
                            !.at = "sync", !.stopped = n < Len(due), !.err = n < Len(due)]
     /\ slot' = [slot EXCEPT ![g].full = FALSE]
     /\ UNCHANGED fetcher

SyncLedger ==
  /\ fetch.up /\ ~fetch.stopped /\ fetch.at = "sync"
  /\ fetch' = [fetch EXCEPT !.at = "read", !.cursor = @ + 1]
  /\ marks' = [disk |-> marks.disk \union marks.mem, mem |-> {}]
  /\ UNCHANGED <<slot, fetcher, emitted, batchLog>>

SyncFails ==
  /\ fetch.up /\ ~fetch.stopped /\ fetch.at = "sync" /\ BatchFault
  /\ fetch' = [fetch EXCEPT !.stopped = TRUE, !.err = TRUE]
  /\ UNCHANGED <<slot, fetcher, marks, emitted>>

\* Mutant: the last group is left unread.
LastAhead == fetch.cursor >= Len(fetch.groups)
NoneAhead == fetch.cursor > Len(fetch.groups)

AllWritten ==
  /\ fetch.up /\ ~fetch.stopped /\ NoneAhead
  /\ fetch' = [fetch EXCEPT !.stopped = TRUE]
  /\ UNCHANGED <<slot, fetcher, marks, emitted, batchLog>>

\* The process goes; of the buffered lines, some or all or none are on disk.
Leaves(exit, faults, flushed) ==
  /\ marks' = [disk |-> marks.disk \union flushed, mem |-> {}]
  /\ fetch' = [NotFetching EXCEPT !.input = fetch.input] /\ fetcher' = Away /\ slot' = <<>>
  /\ batchLog' = [batchLog EXCEPT !.exit = exit, !.faults = faults]
  /\ UNCHANGED emitted

\* wg.Wait; closing the ledger flushes it.
BatchReturns ==
  /\ fetch.up /\ fetch.stopped /\ \A w \in Fetchers : fetcher[w].at = "gone"
  /\ Leaves(IF fetch.err THEN "error" ELSE "ok", batchLog.faults, marks.mem)

BatchCancel ==
  /\ fetch.up /\ ~fetch.stopped /\ BatchFault
  /\ fetch' = [fetch EXCEPT !.stopped = TRUE, !.err = TRUE]
  /\ UNCHANGED <<slot, fetcher, marks, emitted>>

BatchKill ==
  /\ fetch.up /\ batchLog.faults < BatchFaults
  /\ \E flushed \in SUBSET marks.mem : Leaves("killed", batchLog.faults + 1, flushed)

Fetcher(w) == NextGroup(w) \/ NoMoreGroups(w) \/ TakeToken(w) \/ FetchGroup(w)
Writer == WriteGroup \/ SyncLedger \/ AllWritten \/ BatchReturns

BatchNext ==
  \/ RunBatchFetch \/ Writer \/ SyncFails \/ BatchCancel \/ BatchKill
  \/ \E w \in Fetchers : Fetcher(w)

(***************************************************************************)
(* Properties.                                                             *)
(***************************************************************************)

\* Each location lies in one group, inside its span and its file; no group of several
\* spans more than allowed or holds a hole wider than the gap, and neighbours that were
\* allowed to share a GET do.
GroupsAreSound ==
  LET gs == fetch.groups
  IN /\ \A i \in fetch.todo : Cardinality({g \in DOMAIN gs : i \in ToSet(gs[g].at)}) = 1
     /\ \A g \in DOMAIN gs :
          /\ Len(gs[g].at) > 1 => gs[g].hi - gs[g].lo <= MaxSpan
          /\ \A i \in ToSet(gs[g].at) : LET loc == fetch.input[i]
               IN loc.file = gs[g].file /\ gs[g].lo <= loc.off /\ EndOf(loc) <= gs[g].hi
          /\ \A i \in ToSet(gs[g].at) : \/ EndOf(fetch.input[i]) + Gap >= gs[g].hi
               \/ \E j \in ToSet(gs[g].at) : /\ fetch.input[j].off <= EndOf(fetch.input[i]) + Gap
                                             /\ EndOf(fetch.input[j]) > EndOf(fetch.input[i])

\* "no more than window groups are ever in flight" (batchfetch.go:303), read or not.
WithinWindow ==
  Cardinality({w \in Fetchers : fetcher[w].at = "get"}) + Cardinality({g \in DOMAIN slot : slot[g].full})
    <= Window

\* "The output order is a promise" (batchfetch_test.go:268): input order, or file order,
\* less what failed, whatever order the GETs come back in.
OrderIsKept ==
  LET target == IF fetch.inOrder THEN SetToSortSeq(fetch.todo, <) ELSE Sorted(fetch.input, fetch.todo)
  IN IsPrefix(fetch.out, SelectSeq(target, LAMBDA i : i \notin fetch.bad))

\* "A kill loses at most the group in flight" (batchfetch.go:345), and never the other
\* way round: what the ledger holds was emitted, so that no run skips a record nobody has.
LedgerIsEmitted == marks.disk \union marks.mem \subseteq emitted

\* A run that succeeds has emitted all that did not fail, with the runs before it.
NothingMissing ==
  batchLog'.exit = "ok" /\ fetch.up /\ ~fetch'.up =>
    \A i \in DOMAIN fetch.input : LocationKey(fetch.input[i]) \in emitted \/ i \in fetch.bad

\* Records come out of shared requests in their order, and the ledger knows them:
\* a run that says it is done has them all.
BatchIsWhole ==
  [][/\ BatchTypeOK' /\ GroupsAreSound' /\ WithinWindow' /\ OrderIsKept' /\ LedgerIsEmitted'
     /\ NothingMissing]_batchVars
=============================================================================
