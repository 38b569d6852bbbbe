----------------------------- MODULE NewsStream -----------------------------
(***************************************************************************)
(* Indexing one news file (indexNewsFile and streamNewsRange of            *)
(* ccrawl/publish_news.go): the file is streamed, its rows are buffered    *)
(* and written in blocks, and a stream that breaks is taken up again after *)
(* the last block, a limited number of times.  The server may not say how  *)
(* long the file is, and may end a stream early without a sign.            *)
(*                                                                         *)
(* A record has length one, so a position is a number of records.  A block *)
(* the parquet writer refuses is taken not to be in the file.              *)
(***************************************************************************)
EXTENDS Integers, Sequences, Functions

CONSTANTS
  NewsFiles,     \* sequences over {"row", "other"}: what the records are
  BlockRows,     \* rows in a block
  NewsAttempts,
  NewsFaults     \* bound of the model

ASSUME NewsAssumption ==
  /\ \A f \in NewsFiles : f \in Seq({"row", "other"}) /\ f # <<>>
  /\ {BlockRows, NewsAttempts} \subseteq Nat \ {0} /\ NewsFaults \in Nat

VARIABLES
  news,        \* [at, file, next, total, attempt, read, consumed, buffer, tally]
  shardRows,   \* positions of the records whose rows the shard has
  newsFaults

newsVars == <<news, shardRows, newsFaults>>

NewFile(file) ==
  [at |-> "ask", file |-> file, next |-> 0, total |-> 0, attempt |-> 1, read |-> 0, consumed |-> 0,
   buffer |-> <<>>, tally |-> 0]

NewsTypeOK ==
  /\ news.at \in {"idle", "ask", "stream", "end", "ok", "error"}
  /\ news.next + news.consumed <= news.read /\ news.read <= Len(news.file)
  /\ Len(news.buffer) <= BlockRows /\ news.attempt \in 1 .. NewsAttempts

NewsInit == news = [NewFile(<<>>) EXCEPT !.at = "idle"] /\ shardRows = <<>> /\ newsFaults = 0
NewsFault == newsFaults < NewsFaults /\ newsFaults' = newsFaults + 1

indexNewsFile ==
  /\ news.at = "idle" /\ \E file \in NewsFiles : news' = NewFile(file)
  /\ UNCHANGED <<shardRows, newsFaults>>

\* Mutant: the next stream starts where this one broke.
ResumeAtRead == news.read
Resume == news.next + news.consumed

\* What one stream leaves to the next: the place after the last block, and the attempts.
Retried(attempts) ==
  IF attempts < NewsAttempts
  THEN [news EXCEPT !.at = "ask", !.next = Resume, !.read = Resume, !.consumed = 0,
                    !.buffer = <<>>, !.attempt = @ + 1]
  ELSE [news EXCEPT !.at = "error"]

\* The server says how much is left, or, as a fault, does not.
Ask ==
  /\ news.at = "ask"
  /\ \/ news' = [news EXCEPT !.at = "stream", !.total = IF @ > 0 THEN @ ELSE Len(news.file)]
        /\ UNCHANGED newsFaults
     \/ NewsFault /\ news' = [news EXCEPT !.at = "stream"]
  /\ UNCHANGED shardRows

\* Mutant: the tally counts a row when it is parsed.
TalliedEarly(rows) == Len(news.buffer) - Len(rows) + 1
Tallied(rows) == Len(rows)

\* A block goes to the shard, and then the place and the tally follow it.
Flushed(rows, upto) ==
  [news EXCEPT !.read = upto, !.buffer = <<>>, !.tally = @ + Tallied(rows),
               !.consumed = upto - news.next]

\* Every record moves the place that the next block ends at.
ReadRecord ==
  /\ news.at = "stream" /\ news.read < Len(news.file)
  /\ LET i == news.read + 1
         buffer == IF news.file[i] = "row" THEN Append(news.buffer, i) ELSE news.buffer
     IN IF Len(buffer) = BlockRows /\ news.file[i] = "row"
        THEN news' = Flushed(buffer, i) /\ shardRows' = shardRows \o buffer
        ELSE news' = [news EXCEPT !.read = i, !.buffer = buffer]
             /\ UNCHANGED shardRows
  /\ UNCHANGED newsFaults

\* The stream breaks, or the block is refused.
StreamBreaks ==
  /\ news.at \in {"ask", "stream"} /\ NewsFault /\ news' = Retried(news.attempt)
  /\ UNCHANGED shardRows

\* The stream ends tidily: at the end of the file, or by a fault before it.
StreamEnd ==
  /\ news.at = "stream"
  /\ IF news.read = Len(news.file) THEN UNCHANGED newsFaults ELSE NewsFault
  /\ news' = [Flushed(news.buffer, news.read) EXCEPT !.at = "end"]
  /\ shardRows' = shardRows \o news.buffer

\* Mutant: a tidy end is the end.
TidyEnd == TRUE
Complete == news.total = 0 \/ Resume >= news.total

StreamJudged ==
  /\ news.at = "end"
  /\ news' = IF Complete THEN [news EXCEPT !.at = "ok"] ELSE Retried(news.attempt)
  /\ UNCHANGED <<shardRows, newsFaults>>

NewsNext == indexNewsFile \/ Ask \/ ReadRecord \/ StreamBreaks \/ StreamEnd \/ StreamJudged

(***************************************************************************)
(* Properties.                                                             *)
(***************************************************************************)

\* "Resumed from the last complete record rather than restarted" (publish_news.go:437): a
\* shard that is finished has each row of the file once, in order, however often the
\* stream broke, as long as the server ever said how long the file is.
EachRowOnce ==
  news.at = "ok" /\ news.total > 0 =>
    /\ Range(shardRows) = {i \in DOMAIN news.file : news.file[i] = "row"}
    /\ \A j, k \in DOMAIN shardRows : j < k => shardRows[j] < shardRows[k]

\* "A published month came out with more 2xx rows than rows" (publish_news.go:526): never
\* again, at any moment of any attempt.
TallyIsRows == news.tally = Len(shardRows)

\* The shard, and what is counted of it, do not know how often the stream broke.
BreaksDoNotShow == NewsTypeOK /\ EachRowOnce /\ TallyIsRows
=============================================================================
