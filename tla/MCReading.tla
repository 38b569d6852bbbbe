------------------------------ MODULE MCReading ------------------------------
(* The recrawl of MCRecrawl and, beside it, the components that read from the  *)
(* network or keep what was read: subject picks the component that runs, the   *)
(* others keep the quiescent state they start in.  The recrawl runs as it does *)
(* on its own.                                                                 *)
EXTENDS MCRecrawl, RobotsRules, CdxQuery, HttpAccess, HostResolver, Library, NativeScan

VARIABLE subject

(* Robots files of four lines; every pattern of up to four characters.         *)
Tuples(S, n) == UNION {[1..k -> S] : k \in 0..n}
Line(key, values) == {[key |-> key, value |-> v] : v \in values}
MCToken == <<"c", "r">>
MCLines == Line("user-agent", {<<>>, <<"*">>, <<"c">>, <<"c", "r">>})
           \union Line("allow", {<<"a", "*">>})
           \union Line("disallow", {<<>>, <<"a">>, <<"a", "b">>})
           \union Line("crawl-delay", {1}) \union Line("sitemap", {<<"a">>})
MCPaths == Tuples({"a", "b"}, 3) \union {<<"$">>, <<"a", "$">>}
MCPatterns == Tuples({"a", "b", "*", "$"}, 4) \ {<<>>}

(* Crawls of one to two pages, each urlkey in the order of its captures; URLs   *)
(* 11 and 12 share the urlkey 1, and so on.                                    *)
R(u, d, t) == [url |-> u, digest |-> d, time |-> t]
CrawlA == <<<<R(12,2,2), R(11,3,4), R(11,1,6)>>, <<R(31,2,4)>>>>
CrawlB == <<<<R(12,1,3), R(21,3,6), R(31,1,6)>>>>
CrawlC == <<<<R(21,1,2)>>, <<R(32,3,5), R(31,4,7)>>>>
NoCrawl == <<<<>>, <<>>>>
MCIndexes == {<<CrawlA, CrawlB, CrawlC>>, <<CrawlC, CrawlB, CrawlA>>, <<CrawlA, CrawlC, CrawlA>>,
              <<CrawlB, <<>>, CrawlC>>, <<CrawlB, CrawlC, CrawlC>>, <<CrawlA, CrawlC, CrawlB>>,
              NoCrawl}

(* Two requests of one process, or of a process each.                          *)
MCHomes == {[c \in {1, 2} |-> 1], [c \in {1, 2} |-> c]}

MCKnownBy == {[n \in {"a", "b"} |-> IF n = "a" THEN {1} ELSE {}],
              [n \in {"a", "b"} |-> IF n = "a" THEN {1, 2} ELSE {2}]}

(* Process 1 downloads two archives, twice; 2 scans and 3 collects, twice.     *)
MCLists == <<{"x", "y"}>>
MCLibraryRuns == <<2, 1, 2>>

(* Rows in the order of their keys: a host that is a suffix itself, a host, the  *)
(* same with a sub-domain, one that only begins alike, another top level.       *)
IndexRow(id, labels, domain, status, lang, path) ==
  [id |-> id, host |-> HostText(labels), domain |-> domain, status |-> status, lang |-> lang,
   path |-> path, key |-> surtHostKey(labels) \o <<1>> \o path]
DomA == <<<<5>>, <<4>>>>
DomAA == <<<<5, 5>>, <<4>>>>
DomC == <<<<4>>, <<5>>>>
MCIndexRows == <<
  IndexRow(1, <<<<4>>>>, NullValue, <<7>>, <<>>, <<5>>),
  IndexRow(2, DomA, HostText(DomA), <<9>>, <<5, 4>>, <<>>),
  IndexRow(3, DomA, HostText(DomA), <<7>>, NullValue, <<5, 4>>),
  IndexRow(4, <<<<4>>>> \o DomA, HostText(DomA), <<7>>, <<4>>, <<5>>),
  IndexRow(5, DomAA, HostText(DomAA), <<9>>, <<>>, <<4>>),
  IndexRow(6, DomC, HostText(DomC), NullValue, <<4>>, <<5, 5>>)>>
Picked(ids) == SelectSeq(MCIndexRows, LAMBDA row : row.id \in ids)
Again(ids) == [i \in DOMAIN Picked(ids) |-> [Picked(ids)[i] EXCEPT !.id = @ + 10]]
MCScanFiles == {<<<<Picked(ids), Picked({4})>>, <<Again({2, 6})>>>> : ids \in {{1, 3, 5}, {3, 6}}}
Flag(flag, vals) == [flag |-> flag, vals |-> vals]
MCScanQueries == {
  {Flag("domain", {DomA})}, {Flag("host", {DomA, <<<<4>>>>, DomAA})},
  {Flag("host", {<<>>, DomA})}, {Flag("notStatus", {<<7>>})}, {Flag("notLang", {<<4>>})},
  {Flag("lang", {<<4>>}), Flag("path", {<<5>>})},
  {Flag("path", {<<5, 4>>}), Flag("status", {<<7>>})}}
MCAsked == {[aggregate |-> "rows", limit |-> 0], [aggregate |-> "rows", limit |-> 2],
            [aggregate |-> "count", limit |-> 0], [aggregate |-> "groups", limit |-> 1]}
MCPageRows == [col \in Columns |-> IF col \in {"key", "lang"} THEN 1 ELSE 2]

readingVars ==
  <<subject, vars, rulesVars, queryVars, httpVars, resolverVars, libraryVars, nativeVars>>

ReadingInit ==
  /\ subject \in {"recrawl", "rules", "query", "http", "resolver", "library", "native"}
  /\ Init /\ RulesInit /\ LibraryInit
  /\ QueryInit
  /\ subject # "query" => /\ query.mode = "at" /\ query.max = 1 /\ query.strict
                          /\ query.index = NoCrawl
  /\ HttpInit
  /\ subject # "http" => /\ \A c \in Callers : call[c].home = 1 /\ ~call[c].cc
                         /\ \A p \in Processes : ~client[p].shut
  /\ ResolverInit
  /\ subject # "resolver" => /\ knownBy["b"] = {}
                             /\ \A d \in Dialers : dial[d].host = "a"
  /\ ScanInit
  /\ subject # "native" => /\ scan.query = {Flag("domain", {DomA})} /\ ~scan.cut
                           /\ scan.aggregate = "count" /\ scan.files[1][1] = Picked({3, 6})

ReadingNext ==
  /\ UNCHANGED subject
  /\ \/ /\ subject = "recrawl" /\ Next
        /\ UNCHANGED <<rulesVars, queryVars, httpVars, resolverVars, libraryVars, nativeVars>>
     \/ /\ subject = "rules" /\ RulesNext
        /\ UNCHANGED <<vars, queryVars, httpVars, resolverVars, libraryVars, nativeVars>>
     \/ /\ subject = "query" /\ QueryNext
        /\ UNCHANGED <<vars, rulesVars, httpVars, resolverVars, libraryVars, nativeVars>>
     \/ /\ subject = "http" /\ HttpNext
        /\ UNCHANGED <<vars, rulesVars, queryVars, resolverVars, libraryVars, nativeVars>>
     \/ /\ subject = "resolver" /\ ResolverNext
        /\ UNCHANGED <<vars, rulesVars, queryVars, httpVars, libraryVars, nativeVars>>
     \/ /\ subject = "library" /\ LibraryNext
        /\ UNCHANGED <<vars, rulesVars, queryVars, httpVars, resolverVars, nativeVars>>
     \/ /\ subject = "native" /\ NativeNext
        /\ UNCHANGED <<vars, rulesVars, queryVars, httpVars, resolverVars, libraryVars>>
     \/ subject # "recrawl" /\ UNCHANGED readingVars    \* these may stop, the recrawl may not

ReadingSpec == ReadingInit /\ [][ReadingNext]_readingVars
=============================================================================
