------------------------------ MODULE CdxQuery ------------------------------
(* ccrawl search over several crawls (cli/ops.go, ccrawl/cdx.go, cdxspill.go): *)
(* the index answers a crawl in pages, each page sorted by urlkey, and the     *)
(* command answers with every capture once its content is new (--dedup), with  *)
(* the first capture of a URL (--latest-only), or with the one nearest a date  *)
(* (--at), holding at most MaxBuffer entries on the heap and the rest in files.*)
(* A capture is [url, digest, time]; its urlkey is url \div 10.  Left out: the  *)
(* row limit of the command framework, and errors of the temporary files.      *)
EXTENDS Integers, SequencesExt

CONSTANTS
  Indexes,        \* what the index may hold: a sequence of crawls, each a sequence of
                  \* pages, each a sequence of captures in urlkey order
  QueryModes,     \* among "all", "latest", "dedup", "both" and "at"
  MaxBuffers,     \* values of --max-buffer
  AtTime,         \* the date --at asks for
  PageRetries,    \* retries of a page that came back short
  QueryFaults     \* how many requests may fail or come back short

ASSUME QueryAssumption ==
  /\ PageRetries \in Nat /\ QueryFaults \in Nat
  /\ MaxBuffers \subseteq Nat \ {0}
  /\ QueryModes \subseteq {"all", "latest", "dedup", "both", "at"}

VARIABLES
  query,    \* [mode, max, strict, index, ended]: the command line, the index, how it ended
  reading,  \* [crawl, pages, page, rest, tries, faults]: where CDXStream is
  losses,   \* [pages, crawls, other, where]: pageLosses, and what it lost (history)
  urlLog,   \* CDXURLLog: [past, cur, mem, onDisk, group, groupID]
  picker,   \* CDXPicker: [runs, cur, mem, onDisk, group, groupID, recs, streaming]
  digests,  \* CDXDigestSet: [hot, cold, evicted]
  arrived,  \* every capture the stream handed out, in order (history)
  answer    \* every row the command emitted, in order

queryVars == <<query, reading, losses, urlLog, picker, digests, arrived, answer>>

KeyOf(r) == r.url \div 10

(* ------------------------------- CDXURLLog -------------------------------- *)
(* One crawl's log of emitted URLs, on the heap or in a file; a cursor over a   *)
(* sealed one has read i entries, the last of them still ahead when loaded.     *)
EmptyLog == [entries |-> <<>>, disk |-> FALSE]
CursorOf(l) == [entries |-> l.entries, disk |-> l.disk, i |-> 0, loaded |-> FALSE, group |-> {}]

Unread(c) == c.i - (IF c.loaded THEN 1 ELSE 0)

(* The cursor skips the smaller keys, collects the URLs of the key and parks   *)
(* on the first larger one, which stays loaded.                                *)
Seek(c, key) ==
  LET ahead == {n \in (Unread(c) + 1)..Len(c.entries) : c.entries[n] \div 10 > key}
      stop == IF ahead = {} THEN Len(c.entries) + 1 ELSE Min(ahead)
  IN [c EXCEPT !.i = IF ahead = {} THEN Len(c.entries) ELSE stop,
               !.loaded = ahead # {},
               !.group = {c.entries[n] : n \in {x \in (Unread(c) + 1)..(stop - 1) :
                                                    c.entries[x] \div 10 = key}}]

\* Mutant: the entry the cursor had looked ahead at is skipped with the others.
SpillCursorLosesHead(c) ==
  IF c.disk \/ c.entries = <<>> THEN c ELSE [c EXCEPT !.disk = TRUE, !.loaded = FALSE]

(* A cursor part way through a heap log moves to a file and skips to its place. *)
SpillCursor(c) ==
  IF c.disk \/ c.entries = <<>> THEN c
  ELSE LET parked == [c EXCEPT !.disk = TRUE, !.i = Unread(c), !.loaded = FALSE]
       IN IF c.loaded THEN [parked EXCEPT !.i = @ + 1, !.loaded = TRUE] ELSE parked

Rewind(c) == [c EXCEPT !.i = 0, !.loaded = FALSE, !.group = {}]

(* Seen moves every past cursor to a new key before it looks.                  *)
Sought(l, key) ==
  IF l.groupID = key THEN l
  ELSE [l EXCEPT !.groupID = key, !.group = {},
                 !.past = [n \in DOMAIN @ |-> Seek(@[n], key)]]

Seen(l, url) == url \in l.group \/ \E n \in DOMAIN l.past : url \in l.past[n].group

SpillLogs(l) ==
  [l EXCEPT !.past = [n \in DOMAIN @ |-> SpillCursor(@[n])],
            !.cur.disk = TRUE, !.mem = 0, !.onDisk = TRUE]

\* Mutant: a log on disk still counts what is written as held.
EmittedOverBudget(l, url) ==
  LET room == l.mem < query.max
      at == IF room \/ l.onDisk THEN [l EXCEPT !.mem = @ + 1] ELSE SpillLogs(l)
  IN [at EXCEPT !.group = @ \union {url}, !.cur.entries = Append(@, url)]

Emitted(l, url) ==
  LET room == ~l.onDisk /\ l.mem < query.max
      at == IF room THEN [l EXCEPT !.mem = @ + 1]
            ELSE IF l.onDisk THEN [l EXCEPT !.cur.disk = TRUE] ELSE SpillLogs(l)
  IN [at EXCEPT !.group = @ \union {url}, !.cur.entries = Append(@, url)]

\* Mutant: every crawl has the budget to itself.
EndCrawlNewBudget(l) ==
  LET back == [n \in DOMAIN l.past |-> Rewind(l.past[n])]
  IN [l EXCEPT !.groupID = 0, !.group = {}, !.cur = EmptyLog, !.mem = 0,
               !.past = IF l.cur.entries = <<>> THEN back ELSE Append(back, CursorOf(l.cur))]

\* Mutant: a sealed crawl joins the others, which stay where this crawl left them.
EndCrawlNoRewind(l) ==
  [l EXCEPT !.groupID = 0, !.group = {}, !.cur = EmptyLog,
            !.past = IF l.cur.entries = <<>> THEN @ ELSE Append(@, CursorOf(l.cur))]

EndCrawl(l) ==
  LET back == [n \in DOMAIN l.past |-> Rewind(l.past[n])]
  IN [l EXCEPT !.groupID = 0, !.group = {}, !.cur = EmptyLog,
               !.past = IF l.cur.entries = <<>> THEN back ELSE Append(back, CursorOf(l.cur))]

(* ------------------------------ CDXDigestSet ------------------------------ *)
(* Two generations: a full hot one becomes the cold one, which is forgotten.    *)
InSet(set, d) == d \in set.hot \union set.cold

\* Mutant: the set stops growing silently, and says nothing was forgotten.
AddDigestQuietly(set, d) ==
  IF InSet(set, d) \/ Cardinality(set.hot) < query.max
    THEN [set EXCEPT !.hot = @ \union {d}] ELSE set

AddDigest(set, d) ==
  LET full == ~InSet(set, d) /\ Cardinality(set.hot) >= query.max
      grown == [set EXCEPT !.cold = IF full THEN set.hot ELSE @,
                           !.hot = (IF full THEN {} ELSE @) \union {d}]
  IN [grown EXCEPT !.evicted = @ \/ ( /\ ~InSet(set, d)
                                      /\ Cardinality(grown.hot) + Cardinality(grown.cold)
                                            > query.max)]

(* -------------------------------- CDXPicker ------------------------------- *)
Distance(r) == IF r.time > AtTime THEN r.time - AtTime ELSE AtTime - r.time

\* Mutant: a tie goes to the later crawl.
BetterOrEqual(cand, cur) == Distance(cand) <= Distance(cur)

Better(cand, cur) == Distance(cand) < Distance(cur)

(* The winners of a group so far, in the order their URLs first appeared.      *)
Offer(winners, r) ==
  IF \E n \in DOMAIN winners : winners[n].url = r.url
    THEN [n \in DOMAIN winners |->
            IF winners[n].url = r.url /\ Better(r, winners[n]) THEN r ELSE winners[n]]
    ELSE Append(winners, r)

EmptyRun == [recs |-> <<>>, disk |-> FALSE]

SpillRuns(p) ==
  [p EXCEPT !.runs = [n \in DOMAIN @ |-> [@[n] EXCEPT !.disk = TRUE]],
            !.cur.disk = TRUE, !.mem = 0, !.onDisk = TRUE]

WriteWinner(p, r) ==
  LET room == ~p.onDisk /\ p.mem < query.max
      at == IF room THEN [p EXCEPT !.mem = @ + 1]
            ELSE IF p.onDisk THEN [p EXCEPT !.cur.disk = TRUE] ELSE SpillRuns(p)
  IN [at EXCEPT !.cur.recs = Append(@, r)]

CloseGroup(p) == [FoldLeft(WriteWinner, p, p.group) EXCEPT !.group = <<>>]

AddRecord(p, r) ==
  LET at == IF p.groupID = KeyOf(r) THEN p ELSE [CloseGroup(p) EXCEPT !.groupID = KeyOf(r)]
  IN [at EXCEPT !.group = Offer(@, r)]

EndStream(p) ==
  LET at == CloseGroup(p)
  IN [at EXCEPT !.groupID = 0, !.cur = EmptyRun,
                !.runs = IF at.cur.recs = <<>> THEN @ ELSE Append(@, at.cur)]

(* ------------------------------- the command ------------------------------ *)
QueryInit ==
  /\ query \in [mode : QueryModes, max : MaxBuffers, strict : BOOLEAN,
                index : Indexes, ended : {"no"}]
  /\ reading = [crawl |-> 1, page |-> 0, held |-> FALSE, rest |-> <<>>, tries |-> 0,
                faults |-> QueryFaults]
  /\ losses = [pages |-> 0, crawls |-> 0, other |-> 0, where |-> {}]
  /\ urlLog = [past |-> <<>>, cur |-> EmptyLog, mem |-> 0, onDisk |-> FALSE,
               group |-> {}, groupID |-> 0]
  /\ picker = [runs |-> <<>>, cur |-> EmptyRun, mem |-> 0, onDisk |-> FALSE,
               group |-> <<>>, groupID |-> 0, recs |-> <<>>, streaming |-> FALSE]
  /\ digests = [hot |-> {}, cold |-> {}, evicted |-> FALSE]
  /\ arrived = <<>> /\ answer = <<>>

CrawlCount == Len(query.index)
Crawl == query.index[reading.crawl]

(* A crawl without a page is still asked for one, which holds nothing.         *)
PageCount == IF Crawl = <<>> THEN 1 ELSE Len(Crawl)
PageRecords == IF Crawl = <<>> THEN <<>> ELSE Crawl[reading.page]

Streaming == query.ended = "no" /\ reading.crawl <= CrawlCount
Requesting == Streaming /\ ~reading.held /\ reading.page <= PageCount

(* A whole body: the page count (page 0), or a page whose records go out next. *)
RequestAnswered ==
  /\ Requesting
  /\ reading' = IF reading.page = 0 THEN [reading EXCEPT !.page = 1, !.tries = 0]
                ELSE [reading EXCEPT !.held = TRUE, !.rest = PageRecords, !.tries = 0]
  /\ UNCHANGED <<query, losses, urlLog, picker, digests, arrived, answer>>

(* What a page handed out before it was lost.                                   *)
WentOut == IF reading.held THEN Len(PageRecords) - Len(reading.rest) ELSE 0

(* OnPageError: without a page count the crawl is lost; a strict query fails.  *)
Lose(byTransport) ==
  /\ reading' = [reading EXCEPT !.faults = @ - 1, !.tries = 0, !.held = FALSE, !.rest = <<>>,
                                !.page = IF @ = 0 THEN PageCount + 1 ELSE @ + 1]
  /\ IF query.strict THEN query' = [query EXCEPT !.ended = "failed"] /\ UNCHANGED losses
     ELSE /\ losses' = [losses EXCEPT !.pages = @ + (IF reading.page = 0 THEN 0 ELSE 1),
                                  !.crawls = @ + (IF reading.page = 0 THEN 1 ELSE 0),
                                  !.other = @ + (IF byTransport THEN 0 ELSE 1),
                                  !.where = @ \union {<<reading.crawl, reading.page, WentOut>>}]
          /\ UNCHANGED query

\* Mutant: the records that did arrive go out before the page is asked for again.
CameShortAndWentOut ==
  /\ Requesting /\ reading.faults > 0
  /\ IF reading.tries < PageRetries
       THEN /\ reading' = [reading EXCEPT !.tries = @ + 1, !.faults = @ - 1]
            /\ arrived' = arrived \o (IF reading.page = 0 \/ PageRecords = <<>> THEN <<>>
                                      ELSE <<[crawl |-> reading.crawl] @@ Head(PageRecords)>>)
            /\ UNCHANGED <<query, losses>>
       ELSE Lose(FALSE) /\ UNCHANGED arrived
  /\ UNCHANGED <<urlLog, picker, digests, answer>>

(* A body that stopped early is read again, and nothing of it went out.        *)
CameShort ==
  /\ Requesting /\ reading.faults > 0
  /\ IF reading.tries < PageRetries
       THEN /\ reading' = [reading EXCEPT !.tries = @ + 1, !.faults = @ - 1]
            /\ UNCHANGED <<query, losses>>
       ELSE Lose(FALSE)
  /\ UNCHANGED <<urlLog, picker, digests, arrived, answer>>

PageRefused ==
  /\ Requesting /\ reading.faults > 0
  /\ \E byTransport \in BOOLEAN : Lose(byTransport)
  /\ UNCHANGED <<urlLog, picker, digests, arrived, answer>>

\* Mutant: the scanner is not asked why it stopped.
LineEndsPage ==
  /\ Streaming /\ reading.held /\ reading.faults > 0
  /\ reading' = [reading EXCEPT !.faults = @ - 1, !.held = FALSE, !.rest = <<>>, !.page = @ + 1]
  /\ UNCHANGED <<query, losses, urlLog, picker, digests, arrived, answer>>

(* A line longer than the scanner takes: what stands before it has gone out, and *)
(* the rest of the page is lost with it.                                        *)
LineTooLong ==
  /\ Streaming /\ reading.held /\ reading.faults > 0
  /\ Lose(FALSE)
  /\ UNCHANGED <<urlLog, picker, digests, arrived, answer>>

\* Mutant: the content is judged first, so a capture that is then dropped as seen
\* has already spent its digest.
SendContentFirst(r) ==
  LET sought == Sought(urlLog, KeyOf(r))
      copy == query.mode \in {"dedup", "both"} /\ InSet(digests, r.digest)
      later == query.mode \in {"latest", "both"} /\ ~copy /\ Seen(sought, r.url)
  IN /\ urlLog' = IF query.mode \notin {"latest", "both"} THEN urlLog
                  ELSE IF later \/ copy THEN sought ELSE Emitted(sought, r.url)
     /\ digests' = IF query.mode \notin {"dedup", "both"} THEN digests
                   ELSE AddDigest(digests, r.digest)
     /\ answer' = IF later \/ copy THEN answer ELSE Append(answer, r)

(* send: the URL is written down as emitted before its content is judged.      *)
Send(r) ==
  LET sought == Sought(urlLog, KeyOf(r))
      later == query.mode \in {"latest", "both"} /\ Seen(sought, r.url)
      copy == query.mode \in {"dedup", "both"} /\ InSet(digests, r.digest)
  IN /\ urlLog' = IF query.mode \notin {"latest", "both"} THEN urlLog
                  ELSE IF later THEN sought ELSE Emitted(sought, r.url)
     /\ digests' = IF later \/ query.mode \notin {"dedup", "both"} THEN digests
                   ELSE AddDigest(digests, r.digest)
     /\ answer' = IF later \/ copy THEN answer ELSE Append(answer, r)

HandOut ==
  /\ Streaming /\ reading.rest # <<>>
  /\ LET r == [crawl |-> reading.crawl] @@ Head(reading.rest)
     IN /\ arrived' = Append(arrived, r)
        /\ IF query.mode = "at"
             THEN picker' = AddRecord(picker, r) /\ UNCHANGED <<urlLog, digests, answer>>
             ELSE Send(r) /\ UNCHANGED picker
  /\ reading' = [reading EXCEPT !.rest = Tail(@)]
  /\ UNCHANGED <<query, losses>>

PageRead ==
  /\ Streaming /\ reading.held /\ reading.rest = <<>>
  /\ reading' = [reading EXCEPT !.held = FALSE, !.page = @ + 1]
  /\ UNCHANGED <<query, losses, urlLog, picker, digests, arrived, answer>>

\* Mutant: a result with nothing in it is an empty result.
OutcomeEmptyIsOk(rows) == "ok"

(* A run that emitted nothing and lost something did not find nothing.         *)
Outcome(rows) ==
  IF rows # <<>> \/ losses.pages + losses.crawls = 0 THEN "ok"
  ELSE IF losses.other = 0 THEN "network" ELSE "unread"

CrawlDone ==
  /\ Streaming /\ ~reading.held /\ reading.page > PageCount
  /\ reading' = [reading EXCEPT !.crawl = @ + 1, !.page = 0]
  /\ picker' = IF query.mode = "at" THEN EndStream(picker) ELSE picker
  /\ urlLog' = IF query.mode \in {"latest", "both"} /\ reading.crawl < CrawlCount
                 THEN EndCrawl(urlLog) ELSE urlLog
  /\ query' = IF query.mode = "at" \/ reading.crawl < CrawlCount THEN query
              ELSE [query EXCEPT !.ended = Outcome(answer)]
  /\ UNCHANGED <<losses, digests, arrived, answer>>

(* ---------------------------- --at: the merge ----------------------------- *)
Merging == query.mode = "at" /\ query.ended = "no" /\ reading.crawl > CrawlCount

Heads == {n \in DOMAIN picker.runs : picker.runs[n].recs # <<>>}

(* The smallest key is drained from every run, in crawl order.                 *)
MergeGroup ==
  /\ Merging /\ Heads # {}
  /\ LET key == Min({KeyOf(Head(picker.runs[n].recs)) : n \in Heads})
         OfKey(recs) == SelectSeq(recs, LAMBDA r : KeyOf(r) = key)
         OtherKeys(recs) == SelectSeq(recs, LAMBDA r : KeyOf(r) # key)
         drained == FlattenSeq([n \in DOMAIN picker.runs |-> OfKey(picker.runs[n].recs)])
         winners == picker.recs \o FoldLeft(Offer, <<>>, drained)
         goesOut == picker.streaming \/ Len(winners) >= query.max
     IN /\ picker' = [picker EXCEPT !.runs = [n \in DOMAIN @ |->
                                                [@[n] EXCEPT !.recs = OtherKeys(@)]],
                                    !.streaming = goesOut,
                                    !.recs = IF goesOut THEN <<>> ELSE winners]
        /\ answer' = IF goesOut THEN answer \o winners ELSE answer
  /\ UNCHANGED <<query, reading, losses, urlLog, digests, arrived>>

NewestFirst(rows) == \A n \in 2..Len(rows) : rows[n].time <= rows[n - 1].time

(* A result that fitted the buffer comes out newest first, ties in any order.  *)
MergeDone ==
  /\ Merging /\ Heads = {}
  /\ \E rows \in {s \in SetToSeqs(ToSet(picker.recs)) : NewestFirst(s)} :
       /\ answer' = answer \o rows
       /\ query' = [query EXCEPT !.ended = Outcome(answer \o rows)]
  /\ UNCHANGED <<reading, losses, urlLog, picker, digests, arrived>>

QueryNext ==
  \/ RequestAnswered \/ CameShort \/ PageRefused \/ LineTooLong \/ HandOut \/ PageRead \/ CrawlDone
  \/ MergeGroup \/ MergeDone

QuerySpec == QueryInit /\ [][QueryNext]_queryVars

(* -------------------------------- properties ------------------------------ *)
QueryTypeOK ==
  /\ query.ended \in {"no", "ok", "network", "unread", "failed"}
  /\ reading.crawl \in 1..(CrawlCount + 1) /\ reading.page \in Nat
  /\ reading.tries \in 0..PageRetries /\ reading.faults \in 0..QueryFaults
  /\ losses.other <= losses.pages + losses.crawls
  /\ urlLog.mem \in 0..query.max /\ picker.mem \in 0..query.max
  /\ \A n \in DOMAIN urlLog.past : urlLog.past[n].i \in 0..Len(urlLog.past[n].entries)

Firsts(rows) ==
  FoldLeft(LAMBDA acc, r : IF \E n \in DOMAIN acc : acc[n].url = r.url THEN acc
                           ELSE Append(acc, r), <<>>, rows)

(* The pages the query did read, and the beginnings of those it lost half way,  *)
(* laid end to end.                                                             *)
Kept ==
  LET Lost(c, p) == {l \in losses.where : l[1] = c /\ l[2] = p}
      Page(c, p) ==
        LET rows == [n \in DOMAIN query.index[c][p] |-> [crawl |-> c] @@ query.index[c][p][n]]
        IN IF Lost(c, p) = {} THEN rows ELSE SubSeq(rows, 1, Max({l[3] : l \in Lost(c, p)}))
  IN FlattenSeq([c \in 1..CrawlCount |->
       IF Lost(c, 0) # {} THEN <<>>
       ELSE FlattenSeq([p \in DOMAIN query.index[c] |-> Page(c, p)])])

(* Every page that was not given up hands its captures out once, in order, a   *)
(* page read again after a short body included (cdxPageBody, CDXStream).        *)
PagesArriveOnce ==
  /\ IsPrefix(arrived, Kept)
  /\ query.ended \notin {"no", "failed"} => arrived = Kept

(* "--latest-only keeps the first capture of a URL" (cli/ops.go:288): exactly the *)
(* first that the stream brings of every URL, whatever went to files and wherever *)
(* the cursors over the earlier crawls stood then.  It need not be the newest, as  *)
(* the flag's help has it (cli/ops.go:56): of two captures in one crawl the index  *)
(* has the older one first.                                                        *)
LatestIsFirst ==
  /\ query.mode = "latest" => answer = Firsts(arrived)
  /\ query.mode = "all" => answer = arrived

(* --dedup errs towards duplicates: no content is missing from the answer, the  *)
(* content of first captures when --latest-only is there as well.              *)
NothingUniqueDropped ==
  LET due == CASE query.mode = "dedup" -> arrived
               [] query.mode = "both" -> Firsts(arrived)
               [] OTHER -> <<>>
  IN {r.digest : r \in ToSet(due)} \subseteq {r.digest : r \in ToSet(answer)}

(* Until the digest set says it may forget, no content is in the answer twice. *)
ForgettingIsSaid ==
  query.mode \in {"dedup", "both"} /\ ~digests.evicted
    => \A n, k \in DOMAIN answer : answer[n].digest = answer[k].digest => n = k

(* --at answers with one capture of each URL, the earliest read of the nearest  *)
(* ones, newest first if it fitted the buffer and in index order if it did not. *)
NearestWins ==
  query.mode = "at" /\ query.ended \in {"ok", "network", "unread"} =>
    LET Nearest(u) ==
          LET of == SelectSeq(arrived, LAMBDA r : r.url = u)
          IN of[Min({n \in DOMAIN of : \A k \in DOMAIN of : Distance(of[n]) <= Distance(of[k])})]
    IN /\ ToSet(answer) = {Nearest(r.url) : r \in ToSet(arrived)}
       /\ IsInjective(answer)
       /\ IF Len(answer) < query.max THEN NewestFirst(answer)
          ELSE \A n \in 2..Len(answer) : KeyOf(answer[n - 1]) <= KeyOf(answer[n])

(* The logs and runs of every crawl together stay within --max-buffer entries   *)
(* on the heap, the ones already sealed and half read included.                *)
BudgetHolds ==
  LET OnHeap(parts) == FoldLeft(LAMBDA acc, x : acc + x, 0, parts)
      logs == Append(urlLog.past, urlLog.cur)
      runs == Append(picker.runs, picker.cur)
  IN /\ OnHeap([n \in DOMAIN logs |-> IF logs[n].disk THEN 0 ELSE Len(logs[n].entries)])
          <= query.max
     /\ OnHeap([n \in DOMAIN runs |-> IF runs[n].disk THEN 0 ELSE Len(runs[n].recs)])
          <= query.max

(* A query that says it found nothing read everything and there was nothing.   *)
EmptyMeansNone ==
  query.ended = "ok" /\ answer = <<>>
    => \A c \in 1..CrawlCount : FlattenSeq(query.index[c]) = <<>>

(* Under each flag the answer is what was asked for, at every point of a merge  *)
(* that moves to files as it goes, and what could not be read is not passed off *)
(* as what is not there.                                                       *)
AnswerIsAsked ==
  /\ QueryTypeOK /\ BudgetHolds /\ PagesArriveOnce /\ EmptyMeansNone
  /\ LatestIsFirst /\ NearestWins /\ NothingUniqueDropped /\ ForgettingIsSaid
=============================================================================
