----------------------------- MODULE NativeScan -----------------------------
(* The native engine over the columnar index (ccrawl/columnar_native.go): the    *)
(* flags become predicates, row groups whose page bounds rule a predicate out    *)
(* are skipped, workers read one file each and hand rows to one sink, and a      *)
(* limit, a failing file, a failing sink or an interrupt cancels them all.       *)
(* A string is a sequence of characters, a character a number: 1 is ")", 2 is    *)
(* ",", 3 is "." and letters are larger, which is their order.  A host in a      *)
(* query is the sequence of its labels.  A null is NullValue.                    *)
(* Schemas, the range reads below the Parquet worker and the refusal of columns  *)
(* the engine does not know are left out.                                        *)
EXTENDS Integers, FiniteSetsExt, SequencesExt

CONSTANTS
  ScanFiles,      \* the lists of files: a file is a sequence of row groups, a group of rows
  ScanQueries,    \* the queries: sets of [flag, vals]
  Asked,          \* what is produced, "rows", "count" or "groups", and its limit or 0
  PageRows,       \* rows to a page, per column
  PrefixCap,      \* surtPrefixCap
  ScanWorkers,    \* workers
  ScanFaults,     \* bound on files and rows that fail
  NullValue

Columns == {"status", "domain", "host", "lang", "key", "path"}

ASSUME ScanAssumption ==
  /\ Asked \subseteq [aggregate: {"rows", "count", "groups"}, limit: Nat]
  /\ PrefixCap \in Nat /\ ScanFaults \in Nat
  /\ PageRows \in [Columns -> Nat \ {0}]

VARIABLES
  scan,      \* what is asked: [files, query, limit, aggregate, cut]
  offer,     \* [next, closed], the loop over the files and the channel's end
  worker,    \* per worker: [pc, file, group, rows, matched]
  gathered,  \* what the lock guards: [matched, emitted, done, refused]
  ended,     \* [cancelled, failed, interrupted]
  reported   \* "none", "ok" or "error"

nativeVars == <<scan, offer, worker, gathered, ended, reported>>

(* --------------------------------- strings -------------------------------- *)
Before(s, t) ==
  \E i \in 1..Len(t) : /\ i <= Len(s) + 1 /\ SubSeq(s, 1, i-1) = SubSeq(t, 1, i-1)
                       /\ i <= Len(s) => s[i] < t[i]
Smallest(S) == CHOOSE s \in S : \A t \in S : ~Before(t, s)
Largest(S) == CHOOSE s \in S : \A t \in S : ~Before(s, t)
clipTo(s, n) == IF Len(s) <= n THEN s ELSE SubSeq(s, 1, n)
Holds(s, part) == \E i \in 0..Len(s) - Len(part) : SubSeq(s, i+1, i+Len(part)) = part

(* ------------------------------- predicates ------------------------------- *)
Joined(parts, mark) ==
  FoldLeft(LAMBDA text, part : IF text = <<>> THEN part ELSE text \o <<mark>> \o part, <<>>, parts)
HostText(labels) == Joined(labels, 3)

(* "www.example" -> "example,www"                                               *)
surtHostKey(labels) == Joined(Reverse(labels), 2)

commonPrefix(S) ==
  LET one == CHOOSE s \in S : TRUE
      shared == {n \in 0..Len(one) : \A s \in S : IsPrefix(clipTo(one, n), s)}
  IN clipTo(one, Max(shared))

\* Mutant: one prefix that ends with the host covers what is below it too.
surtPrefixesApexOnly(vals, sub) ==
  LET out == {surtHostKey(v) \o <<1>> : v \in vals}
  IN IF Cardinality(out) <= PrefixCap THEN out
     ELSE IF commonPrefix(out) # <<>> THEN {commonPrefix(out)} ELSE {}

(* The stretches of the index that cover the hosts, or the domains with all     *)
(* below them; the one they share when they are many; none when one is blank.   *)
surtPrefixes(vals, sub) ==
  LET ends == IF sub THEN {<<1>>, <<2>>} ELSE {<<1>>}
      out == {surtHostKey(v) \o e : v \in vals, e \in ends}
  IN IF <<>> \in vals THEN {}
     ELSE IF Cardinality(out) <= PrefixCap THEN out
     ELSE IF commonPrefix(out) # <<>> THEN {commonPrefix(out)} ELSE {}

predicate(col, kind, vals, negate) == [col |-> col, kind |-> kind, vals |-> vals, negate |-> negate]

appendSurtPredicate(ps, prefixes) ==
  IF prefixes = {} THEN ps ELSE ps \union {predicate("key", "prefix", prefixes, FALSE)}

(* Equality is membership in a set of one, and so is a status.                  *)
predicatesFor(q) ==
  UNION {CASE f.flag = "domain" -> appendSurtPredicate(
            {predicate("domain", "in", {HostText(v) : v \in f.vals}, FALSE)}, surtPrefixes(f.vals, TRUE))
       [] f.flag = "host" -> appendSurtPredicate(
            {predicate("host", "in", {HostText(v) : v \in f.vals}, FALSE)}, surtPrefixes(f.vals, FALSE))
       [] f.flag = "status" -> {predicate("status", "in", f.vals, FALSE)}
       [] f.flag = "lang" -> {predicate("lang", "contains", f.vals, FALSE)}
       [] f.flag = "path" -> {predicate("path", "prefix", f.vals, FALSE)}
       [] f.flag = "notStatus" -> {predicate("status", "in", f.vals, TRUE)}
       [] f.flag = "notLang" -> {predicate("lang", "contains", f.vals, TRUE)}
         : f \in q}

matches(p, v) ==
  CASE p.kind = "in" -> v \in p.vals
    [] p.kind = "prefix" -> \E pre \in p.vals : IsPrefix(pre, v)
    [] p.kind = "contains" -> \A part \in p.vals : Holds(v, part)

(* A null fails a plain predicate and passes a negated one.                     *)
match(p, v) == IF v = NullValue THEN p.negate ELSE matches(p, v) # p.negate

(* --------------------------------- pruning -------------------------------- *)
\* Mutant: the bounds of a page are taken to speak for its nulls too.
canPruneNegated(p) == p.kind # "contains"

canPrune(p) == ~p.negate /\ p.kind # "contains"

\* Mutant: a bound longer than the prefix is compared whole.
excludesUnclipped(p, lo, hi) ==
  IF p.kind = "in" THEN Before(Largest(p.vals), lo) \/ Before(hi, Smallest(p.vals))
  ELSE \A pre \in p.vals : Before(hi, pre) \/ Before(pre, lo)

(* No value between lo and hi can match.  Of a set only its span is compared.   *)
excludes(p, lo, hi) ==
  IF p.kind = "in" THEN Before(Largest(p.vals), lo) \/ Before(hi, Smallest(p.vals))
  ELSE \A pre \in p.vals : Before(hi, pre) \/ Before(pre, clipTo(lo, Len(pre)))

(* The pages of a column of a row group, as the values they hold.  The bounds   *)
(* a file states of a page may be cut short: the upper one is then raised.      *)
Pages(group, col) ==
  {{group[i][col] : i \in {i \in 1..Len(group) : (i - 1) \div PageRows[col] = n}} \ {NullValue}
   : n \in 0..(Len(group) - 1) \div PageRows[col]}
MinValue(page) == IF scan.cut THEN clipTo(Smallest(page), 1) ELSE Smallest(page)
MaxValue(page) ==
  LET most == Largest(page)
  IN IF scan.cut /\ Len(most) > 1 THEN <<most[1] + 1>> ELSE most

chunkExcludes(p, group) ==
  \A page \in Pages(group, p.col) : page # {} => excludes(p, MinValue(page), MaxValue(page))

pruneRowGroup(group) ==
  \E p \in predicatesFor(scan.query) : canPrune(p) /\ chunkExcludes(p, group)

buildMask(group) ==
  {i \in 1..Len(group) : \A p \in predicatesFor(scan.query) : match(p, group[i][p.col])}

Masked(group) ==
  LET kept == IF pruneRowGroup(group) THEN {} ELSE buildMask(group)
  IN [k \in 1..Cardinality(kept) |->
        group[CHOOSE i \in kept : Cardinality({j \in kept : j <= i}) = k]]

(* -------------------------------- the workers ----------------------------- *)
NoRead == [pc |-> "idle", file |-> 0, group |-> 1, rows |-> <<>>, matched |-> <<>>]

ScanInit ==
  /\ \E asked \in Asked :
       scan \in [files: ScanFiles, query: ScanQueries, cut: BOOLEAN,
                limit: {asked.limit}, aggregate: {asked.aggregate}]
  /\ offer = [next |-> 1, closed |-> FALSE]
  /\ worker = [w \in ScanWorkers |-> NoRead]
  /\ gathered = [matched |-> <<>>, emitted |-> <<>>, done |-> FALSE, refused |-> FALSE]
  /\ ended = [cancelled |-> FALSE, failed |-> FALSE, interrupted |-> FALSE]
  /\ reported = "none"

ScanFails == Cardinality({x \in {ended.failed, gathered.refused} : x}) < ScanFaults

OfferFile(w) ==
  /\ ~offer.closed /\ offer.next <= Len(scan.files) /\ worker[w].pc = "idle"
  /\ worker' = [worker EXCEPT ![w] = [NoRead EXCEPT !.pc = "open", !.file = offer.next]]
  /\ offer' = [next |-> offer.next + 1, closed |-> ended.cancelled]
  /\ UNCHANGED <<scan, gathered, ended, reported>>

CloseJobs ==
  /\ ~offer.closed /\ (offer.next > Len(scan.files) \/ ended.cancelled)
  /\ offer' = [offer EXCEPT !.closed = TRUE]
  /\ UNCHANGED <<scan, worker, gathered, ended, reported>>

Groups(w) == scan.files[worker[w].file]

OpenFile(w) ==
  /\ worker[w].pc = "open"
  /\ worker' = [worker EXCEPT ![w].pc = "scan"]
  /\ UNCHANGED <<scan, offer, gathered, ended, reported>>

\* Mutant: a file that fails ends its worker and nothing else.
FileFailsAlone(w) ==
  /\ worker[w].pc \in {"open", "scan"}
  /\ ended.cancelled \/ ScanFails
  /\ worker' = [worker EXCEPT ![w].pc = "gone"]
  /\ ended' = [ended EXCEPT !.cancelled = TRUE]
  /\ UNCHANGED <<scan, offer, gathered, reported>>

(* A read that fails drops what its file came to.  The first one that no        *)
(* cancel explains is the error of the scan, and cancels the others.            *)
FileFails(w) ==
  /\ \/ worker[w].pc = "open"
     \/ worker[w].pc = "scan" /\ worker[w].group <= Len(Groups(w))
  /\ ended.cancelled \/ ScanFails
  /\ worker' = [worker EXCEPT ![w].pc = "gone"]
  /\ ended' = [ended EXCEPT !.cancelled = TRUE, !.failed = @ \/ ~ended.cancelled]
  /\ UNCHANGED <<scan, offer, gathered, reported>>

(* The next row group: its matches are counted, or lined up for the sink.       *)
ScanGroup(w) ==
  /\ worker[w].pc = "scan" /\ ~ended.cancelled /\ worker[w].group <= Len(Groups(w))
  /\ LET found == Masked(Groups(w)[worker[w].group])
     IN worker' = [worker EXCEPT
          ![w].group = @ + 1,
          ![w].pc = IF scan.aggregate = "rows" /\ found # <<>> THEN "emit" ELSE "scan",
          ![w].rows = IF scan.aggregate = "rows" THEN found ELSE <<>>,
          ![w].matched = IF scan.aggregate = "rows" THEN @ ELSE @ \o found]
  /\ UNCHANGED <<scan, offer, gathered, ended, reported>>

\* Mutant: the sink does not ask whether the scan is over.
EmitRowAlways(w) ==
  /\ worker[w].pc = "emit"
  /\ LET row == Head(worker[w].rows)
         over == scan.limit > 0 /\ Len(gathered.emitted) + 1 >= scan.limit
     IN /\ gathered' = [gathered EXCEPT !.emitted = Append(@, row.id), !.done = @ \/ over]
        /\ ended' = [ended EXCEPT !.cancelled = @ \/ over]
        /\ worker' = [worker EXCEPT ![w].rows = Tail(@),
                        ![w].pc = IF Len(worker[w].rows) = 1 \/ over THEN "scan" ELSE "emit"]
  /\ UNCHANGED <<scan, offer, reported>>

(* The sink, under the lock: the limit and a row that is refused are the last.  *)
EmitRow(w) ==
  /\ worker[w].pc = "emit" /\ ~gathered.done
  /\ LET row == Head(worker[w].rows)
         over == scan.limit > 0 /\ Len(gathered.emitted) + 1 >= scan.limit
     IN /\ gathered' = [gathered EXCEPT !.emitted = Append(@, row.id), !.done = over]
        /\ ended' = [ended EXCEPT !.cancelled = @ \/ over]
        /\ worker' = [worker EXCEPT ![w].rows = Tail(@),
                        ![w].pc = IF Len(worker[w].rows) = 1 \/ over THEN "scan" ELSE "emit"]
  /\ UNCHANGED <<scan, offer, reported>>

RowRefused(w) ==
  /\ worker[w].pc = "emit" /\ ~gathered.done /\ ScanFails
  /\ gathered' = [gathered EXCEPT !.done = TRUE, !.refused = TRUE]
  /\ ended' = [ended EXCEPT !.cancelled = TRUE]
  /\ worker' = [worker EXCEPT ![w].pc = "scan"]
  /\ UNCHANGED <<scan, offer, reported>>

TooLate(w) ==
  /\ worker[w].pc = "emit" /\ gathered.done
  /\ worker' = [worker EXCEPT ![w].pc = "scan", ![w].rows = <<>>]
  /\ UNCHANGED <<scan, offer, gathered, ended, reported>>

(* A file that was read to its end, or to a cancel, adds what it came to.       *)
FileEnds(w) ==
  /\ worker[w].pc = "scan" /\ (ended.cancelled \/ worker[w].group > Len(Groups(w)))
  /\ gathered' = [gathered EXCEPT !.matched = @ \o worker[w].matched]
  /\ worker' = [worker EXCEPT ![w] = NoRead]
  /\ UNCHANGED <<scan, offer, ended, reported>>

WorkerEnds(w) ==
  /\ worker[w].pc = "idle" /\ offer.closed
  /\ worker' = [worker EXCEPT ![w].pc = "gone"]
  /\ UNCHANGED <<scan, offer, gathered, ended, reported>>

Interrupt ==
  /\ reported = "none" /\ ~ended.cancelled
  /\ ended' = [ended EXCEPT !.cancelled = TRUE, !.interrupted = TRUE]
  /\ UNCHANGED <<scan, offer, worker, gathered, reported>>

(* -------------------------------- the answer ------------------------------ *)
nullGroup == <<0>>

\* Mutant: rows without a value are counted with the empty one.
GroupKeyOrEmpty(row) == IF row.lang = NullValue THEN <<>> ELSE row.lang

(* A null is a group of its own, apart from the empty string.                   *)
GroupKey(row) == IF row.lang = NullValue THEN nullGroup ELSE row.lang

CountOf(k, rows) == Len(SelectSeq(rows, LAMBDA row : GroupKey(row) = k))

(* The breakdown, largest first and then by value, up to the limit.             *)
emitGroups(rows) ==
  LET keys == {GroupKey(rows[i]) : i \in DOMAIN rows}
      Ahead(a, b) == \/ CountOf(a, rows) > CountOf(b, rows)
                     \/ CountOf(a, rows) = CountOf(b, rows) /\ Before(a, b)
      order == SetToSortSeq(keys, Ahead)
      shown == IF scan.limit > 0 /\ Len(order) > scan.limit
               THEN SubSeq(order, 1, scan.limit) ELSE order
  IN [i \in DOMAIN shown |-> [value |-> shown[i], n |-> CountOf(shown[i], rows)]]

\* Mutant: the error of a file is looked at for rows only.
AnswerRowsFirst ==
  /\ reported = "none" /\ offer.closed /\ \A w \in ScanWorkers : worker[w].pc = "gone"
  /\ IF gathered.refused \/ (ended.failed /\ scan.aggregate = "rows")
     THEN reported' = "error" /\ UNCHANGED gathered
     ELSE /\ reported' = "ok"
          /\ gathered' = [gathered EXCEPT !.emitted =
               CASE scan.aggregate = "rows" -> @
                 [] scan.aggregate = "count" -> <<Len(gathered.matched)>>
                 [] scan.aggregate = "groups" -> emitGroups(gathered.matched)]
  /\ UNCHANGED <<scan, offer, worker, ended>>

Answer ==
  /\ reported = "none" /\ offer.closed /\ \A w \in ScanWorkers : worker[w].pc = "gone"
  /\ \E refusing \in {FALSE, scan.aggregate # "rows" /\ ScanFails} :
     IF gathered.refused \/ ended.failed \/ refusing
     THEN reported' = "error" /\ UNCHANGED gathered
     ELSE /\ reported' = "ok"
          /\ gathered' = [gathered EXCEPT !.emitted =
               CASE scan.aggregate = "rows" -> @
                 [] scan.aggregate = "count" -> <<Len(gathered.matched)>>
                 [] scan.aggregate = "groups" -> emitGroups(gathered.matched)]
  /\ UNCHANGED <<scan, offer, worker, ended>>

NativeNext ==
  \/ CloseJobs \/ Interrupt \/ Answer
  \/ \E w \in ScanWorkers : \/ OfferFile(w) \/ OpenFile(w) \/ FileFails(w) \/ ScanGroup(w)
                            \/ EmitRow(w) \/ RowRefused(w) \/ TooLate(w) \/ FileEnds(w)
                            \/ WorkerEnds(w)

NativeSpec == ScanInit /\ [][NativeNext]_nativeVars

(* ------------------------------- properties ------------------------------- *)
NativeTypeOK ==
  /\ offer \in [next: 1..Len(scan.files) + 1, closed: BOOLEAN]
  /\ \A w \in ScanWorkers : worker[w].pc \in {"idle", "open", "scan", "emit", "gone"}
  /\ ended \in [cancelled: BOOLEAN, failed: BOOLEAN, interrupted: BOOLEAN]
  /\ reported \in {"none", "ok", "error"}

(* What the query means, with no word on pages, prefixes or workers.            *)
Meant(row, f) ==
  CASE f.flag = "domain" -> \E d \in f.vals : row.domain = HostText(d)
    [] f.flag = "host" -> \E h \in f.vals : row.host = HostText(h)
    [] f.flag = "status" -> row.status \in f.vals
    [] f.flag = "notStatus" -> row.status \notin f.vals
    [] f.flag = "lang" -> row.lang # NullValue /\ \A part \in f.vals : Holds(row.lang, part)
    [] f.flag = "notLang" -> row.lang = NullValue \/ \A part \in f.vals : ~Holds(row.lang, part)
    [] f.flag = "path" -> \E pre \in f.vals : IsPrefix(pre, row.path)
IndexRows == FlattenSeq(FlattenSeq(scan.files))
Wanted == {i \in DOMAIN IndexRows : \A f \in scan.query : Meant(IndexRows[i], f)}

WholeRows ==
  LET shown == ToSet(gathered.emitted)
      all == Cardinality(Wanted)
  IN /\ shown \subseteq {IndexRows[i].id : i \in Wanted}
     /\ Cardinality(shown) = Len(gathered.emitted)
     /\ Len(gathered.emitted) = IF scan.limit = 0 THEN all ELSE Min({all, scan.limit})

WholeGroups ==
  LET Having(lang) == Cardinality({i \in Wanted : IndexRows[i].lang = lang})
      langs == {IndexRows[i].lang : i \in Wanted}
      shown == gathered.emitted
      LangOf(e) == IF e.value = nullGroup THEN NullValue ELSE e.value
  IN /\ Len(shown) = IF scan.limit = 0 THEN Cardinality(langs)
                     ELSE Min({Cardinality(langs), scan.limit})
     /\ \A i \in DOMAIN shown : shown[i].n = Having(LangOf(shown[i])) /\ LangOf(shown[i]) \in langs
     /\ \A lang \in langs \ {LangOf(shown[i]) : i \in DOMAIN shown} :
          \A i \in DOMAIN shown : Having(lang) <= shown[i].n

(* A scan that reports success and was not interrupted gives what the query      *)
(* means, whatever was pruned, whichever worker came first and whatever failed:  *)
(* every matching row once or as many as the limit asks for, or the right        *)
(* numbers.                                                                      *)
ScanIsWhole ==
  /\ NativeTypeOK
  /\ reported = "ok" /\ ~ended.interrupted =>
    CASE scan.aggregate = "rows" -> WholeRows
      [] scan.aggregate = "count" -> gathered.emitted = <<Cardinality(Wanted)>>
      [] scan.aggregate = "groups" -> WholeGroups
=============================================================================
