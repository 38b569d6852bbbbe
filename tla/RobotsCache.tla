----------------------------- MODULE RobotsCache -----------------------------
(***************************************************************************)
(* The robots.txt cache of ccrawl/robots.go: an entry per host in an       *)
(* intrusive doubly linked list in order of use, bounded in entries and in *)
(* bytes, filled by fetches that concurrent misses of a host share.  The   *)
(* mutex is given up between the lookup, the registration of a fetch, the  *)
(* fetch, the store and the end of the registration.                       *)
(*                                                                         *)
(* A verdict is its lifetime and its size; what the rules say is the       *)
(* business of RobotsRules.                                                *)
(***************************************************************************)
EXTENDS Integers, Sequences, FiniteSets, FiniteSetsExt, SequencesExt

CONSTANTS
  Sites,         \* hosts
  Visitors,      \* workers
  MaxEntries, MaxBytes,
  CacheTTL, ErrorTTL,
  Sizes,         \* what a robots.txt may weigh
  Visits,        \* bound of the model: lookups of one worker
  NoSite, NoVisitor

ASSUME RobotsAssumption ==
  /\ {MaxEntries, MaxBytes, CacheTTL, ErrorTTL, Visits} \subseteq Nat \ {0}
  /\ Sizes \subseteq Nat \ {0} /\ ErrorTTL <= CacheTTL
  /\ NoSite \notin Sites /\ NoVisitor \notin Visitors

VARIABLES
  cache,     \* [nodes, prev, next, head, tail, size, ttl, bytes]
  inflight,  \* host -> the worker that owns its channel
  visitor,   \* worker -> [at, host, on, left, verdict]
  stopped    \* the run's context is over

robotsVars == <<cache, inflight, visitor, stopped>>

Verdicts == {[ttl |-> CacheTTL, size |-> s] : s \in Sizes} \union
            {[ttl |-> ErrorTTL, size |-> Min(Sizes)]}

RobotsTypeOK ==
  /\ cache.nodes \subseteq Sites /\ {cache.head, cache.tail} \subseteq Sites \union {NoSite}
  /\ cache.bytes \in Nat /\ cache.ttl \in [Sites -> 0 .. CacheTTL]
  /\ inflight \in [Sites -> Visitors \union {NoVisitor}]
  /\ \A w \in Visitors :
       visitor[w].at \in {"idle", "get", "lock", "wait", "fetch", "store", "clear", "close"}

RobotsInit ==
  /\ cache = [nodes |-> {}, head |-> NoSite, tail |-> NoSite, bytes |-> 0,
              prev |-> [s \in Sites |-> NoSite], next |-> [s \in Sites |-> NoSite],
              size |-> [s \in Sites |-> 0], ttl |-> [s \in Sites |-> 0]]
  /\ inflight = [s \in Sites |-> NoVisitor] /\ stopped = FALSE
  /\ visitor = [w \in Visitors |-> [at |-> "idle", host |-> NoSite, on |-> NoVisitor,
                                    left |-> Visits, verdict |-> [ttl |-> 0, size |-> 0]]]

(***************************************************************************)
(* The list.                                                               *)
(***************************************************************************)

\* Mutant: the tail stays behind when the last node goes.
UnlinkedHeadOnly(c, n) ==
  LET p == c.prev[n] q == c.next[n]
  IN [c EXCEPT !.prev = [s \in Sites |-> IF s = n THEN NoSite ELSE IF s = q THEN p ELSE @[s]],
               !.next = [s \in Sites |-> IF s = n THEN NoSite ELSE IF s = p THEN q ELSE @[s]],
               !.head = IF p = NoSite /\ @ = n THEN q ELSE @]

unlink(c, n) ==
  LET p == c.prev[n] q == c.next[n]
  IN [c EXCEPT !.prev = [s \in Sites |-> IF s = n THEN NoSite ELSE IF s = q THEN p ELSE @[s]],
               !.next = [s \in Sites |-> IF s = n THEN NoSite ELSE IF s = p THEN q ELSE @[s]],
               !.head = IF p = NoSite /\ @ = n THEN q ELSE @,
               !.tail = IF q = NoSite /\ @ = n THEN p ELSE @]

pushFront(c, n) ==
  [c EXCEPT !.prev = [s \in Sites |-> IF s = n THEN NoSite ELSE IF s = c.head THEN n ELSE @[s]],
            !.next[n] = c.head, !.head = n, !.tail = IF @ = NoSite THEN n ELSE @]

touch(c, n) == IF c.head = n THEN c ELSE pushFront(unlink(c, n), n)

\* Mutant: the bytes go with the unlink and once more with the node.
RemovedTwice(c, n) ==
  [unlink(c, n) EXCEPT !.nodes = @ \ {n}, !.bytes = @ - 2 * c.size[n], !.size[n] = 0, !.ttl[n] = 0]

remove(c, n) ==
  [unlink(c, n) EXCEPT !.nodes = @ \ {n}, !.bytes = @ - c.size[n], !.size[n] = 0, !.ttl[n] = 0]

OverLimits(c) == Cardinality(c.nodes) > MaxEntries \/ c.bytes > MaxBytes

\* Mutant: one entry makes room for one.
EvictedOne(c) == IF c.tail # c.head /\ OverLimits(c) THEN remove(c, c.tail) ELSE c

\* From the tail, never the entry just added.
evictLocked(c) ==
  LET left[n \in 0 .. Cardinality(Sites)] ==
        IF n = 0 THEN c
        ELSE LET d == left[n - 1]
             IN IF d.tail # NoSite /\ d.tail # d.head /\ OverLimits(d) THEN remove(d, d.tail) ELSE d
  IN left[Cardinality(Sites)]

Put(c, h, verdict) ==
  LET cleared == IF h \in c.nodes THEN remove(c, h) ELSE c
      added == [cleared EXCEPT !.nodes = @ \union {h}, !.bytes = @ + verdict.size,
                               !.size[h] = verdict.size, !.ttl[h] = verdict.ttl]
  IN evictLocked(pushFront(added, h))

(***************************************************************************)
(* Fetch.                                                                  *)
(***************************************************************************)

At(w, at) == visitor' = [visitor EXCEPT ![w].at = at]
Answered(w) == visitor' = [visitor EXCEPT ![w].at = "idle", ![w].host = NoSite]

Ask(w) ==
  /\ visitor[w].at = "idle" /\ visitor[w].left > 0 /\ ~stopped
  /\ \E h \in Sites :
       visitor' = [visitor EXCEPT ![w].at = "get", ![w].host = h, ![w].left = @ - 1]
  /\ UNCHANGED <<cache, inflight, stopped>>

\* What has expired is dropped on sight.
Get(w) ==
  LET h == visitor[w].host
  IN /\ visitor[w].at = "get"
     /\ IF h \notin cache.nodes THEN At(w, "lock") /\ UNCHANGED cache
        ELSE IF cache.ttl[h] = 0 THEN At(w, "lock") /\ cache' = remove(cache, h)
        ELSE Answered(w) /\ cache' = touch(cache, h)
     /\ UNCHANGED <<inflight, stopped>>

\* Mutant: nobody looks whether the host is being asked.
NobodyAsking(h) == TRUE
Unasked(h) == inflight[h] = NoVisitor

Register(w) ==
  LET h == visitor[w].host
  IN /\ visitor[w].at = "lock"
     /\ IF Unasked(h)
        THEN inflight' = [inflight EXCEPT ![h] = w] /\ At(w, "fetch")
        ELSE /\ visitor' = [visitor EXCEPT ![w].at = "wait", ![w].on = inflight[h]]
             /\ UNCHANGED inflight
     /\ UNCHANGED <<cache, stopped>>

\* A cancelled wait is answered as unreachable, and not remembered.
WaitCancelled(w) ==
  /\ visitor[w].at = "wait" /\ stopped /\ Answered(w)
  /\ UNCHANGED <<cache, inflight, stopped>>

\* Parsed, open, or unreachable: 5xx, no answer, or the context.
FetchRobots(w) ==
  /\ visitor[w].at = "fetch"
  /\ \E verdict \in Verdicts :
       /\ stopped => verdict.ttl = ErrorTTL
       /\ visitor' = [visitor EXCEPT ![w].at = "store", ![w].verdict = verdict]
  /\ UNCHANGED <<cache, inflight, stopped>>

StoreVerdict(w) ==
  /\ visitor[w].at = "store" /\ At(w, "clear")
  /\ cache' = Put(cache, visitor[w].host, visitor[w].verdict)
  /\ UNCHANGED <<inflight, stopped>>

\* Mutant: the channel stays registered.
Lingering(h) == inflight
Landed(h) == [inflight EXCEPT ![h] = NoVisitor]

Unregister(w) ==
  /\ visitor[w].at = "clear" /\ At(w, "close") /\ inflight' = Landed(visitor[w].host)
  /\ UNCHANGED <<cache, stopped>>

\* Those who wait look again: the entry may be gone already.
CloseDone(w) ==
  /\ visitor[w].at = "close"
  /\ visitor' = [v \in Visitors |->
       IF v = w THEN [visitor[v] EXCEPT !.at = "idle", !.host = NoSite]
       ELSE IF visitor[v].at = "wait" /\ visitor[v].on = w
            THEN [visitor[v] EXCEPT !.at = "get", !.on = NoVisitor] ELSE visitor[v]]
  /\ UNCHANGED <<cache, inflight, stopped>>

RobotsTick ==
  /\ \E h \in Sites : cache.ttl[h] > 0
  /\ cache' = [cache EXCEPT !.ttl = [h \in Sites |-> Max({0, @[h] - 1})]]
  /\ UNCHANGED <<inflight, visitor, stopped>>

StopRun == ~stopped /\ stopped' = TRUE /\ UNCHANGED <<cache, inflight, visitor>>

Visitor(w) ==
  \/ Get(w) \/ Register(w) \/ WaitCancelled(w) \/ FetchRobots(w) \/ StoreVerdict(w)
  \/ Unregister(w) \/ CloseDone(w)

RobotsNext == (\E w \in Visitors : Ask(w) \/ Visitor(w)) \/ RobotsTick \/ StopRun

(***************************************************************************)
(* Properties.                                                             *)
(***************************************************************************)

\* The hosts from the head on.
Walk ==
  LET path[n \in 0 .. Cardinality(Sites)] ==
        IF n = 0 THEN <<>>
        ELSE LET sofar == path[n - 1]
                 site == IF sofar = <<>> THEN cache.head ELSE cache.next[Last(sofar)]
             IN IF site = NoSite THEN sofar ELSE Append(sofar, site)
  IN path[Cardinality(Sites)]

\* The list and the map hold the same hosts, both ways through it agree, and the bytes
\* are those of the entries, so that eviction always finds what weighs.
ListIsMap ==
  LET walk == Walk
  IN /\ ToSet(walk) = cache.nodes /\ Len(walk) = Cardinality(cache.nodes)
     /\ cache.tail = IF walk = <<>> THEN NoSite ELSE Last(walk)
     /\ \A i \in DOMAIN walk : cache.prev[walk[i]] = IF i = 1 THEN NoSite ELSE walk[i - 1]
     /\ cache.bytes = MapThenSumSet(LAMBDA h : cache.size[h], cache.nodes)

\* The linked list, its touches and its evictions keep what a least recently used
\* cache bounded both ways keeps (robots.go:540-640).
LRU == INSTANCE LruCache WITH
         LruKeys <- Sites, LruEntries <- MaxEntries, LruBytes <- MaxBytes, LruSizes <- Sizes,
         recent <- Walk, weight <- cache.size
KeepsRecent == LRU!LruSpec

\* "the first caller goes to the network and the rest wait for it" (robots.go:641).
OneAsking ==
  \A v, w \in Visitors :
    v # w /\ visitor[v].at = "fetch" /\ visitor[w].at = "fetch" => visitor[v].host # visitor[w].host

\* Whoever waits is answered: the worker it waits for is still on its way to close the
\* channel, and no host stays registered without a worker that will take it out.
WaitersAreServed ==
  \A w \in Visitors :
    /\ visitor[w].at = "wait" =>
         LET owner == visitor[visitor[w].on]
         IN owner.at \in {"fetch", "store", "clear", "close"} /\ owner.host = visitor[w].host
    /\ \A h \in Sites :
         inflight[h] = w => visitor[w].at \in {"fetch", "store", "clear"} /\ visitor[w].host = h

\* Lookups share the requests, and the list under the cache survives all they do to it.
LookupsShare == RobotsTypeOK /\ ListIsMap /\ OneAsking /\ WaitersAreServed
=============================================================================
