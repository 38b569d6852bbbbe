--------------------------- MODULE ReadingProofs ---------------------------
(***************************************************************************)
(* Proofs about what stands between a command and the network: the request *)
(* client, the resolver, and the library that keeps what was downloaded.   *)
(***************************************************************************)
EXTENDS HttpAccess, HostResolver, Library, FiniteSetTheorems, TLAPS

-----------------------------------------------------------------------------
(* Requests: for any number of processes, callers, retries, kills and         *)
(* cancelled waits, the slots handed out are an interval apart, no site is    *)
(* asked faster than its rate, and no request goes out before the answer      *)
(* before it allows (RequestsArePolite).                                      *)
(* ------------------------- minimum and maximum ---------------------------- *)
LEMMA LaterOfTwo ==
  ASSUME NEW a \in Int, NEW b \in Int
  PROVE  Max({a, b}) \in {a, b} /\ Max({a, b}) >= a /\ Max({a, b}) >= b
<1>1. \E x \in {a, b} : \A y \in {a, b} : x >= y
  OBVIOUS
<1> QED BY <1>1 DEF Max

LEMMA SoonerOfTwo == ASSUME NEW a \in Int, NEW b \in Int PROVE Min({a, b}) \in Int
<1>1. \E x \in {a, b} : \A y \in {a, b} : x =< y
  OBVIOUS
<1> QED BY <1>1 DEF Min

LEMMA LeastOfOne == ASSUME NEW a \in Int PROVE Min({a}) = a
BY DEF Min

LEMMA LeastOfRange ==
  ASSUME NEW a \in Int, NEW b \in Int, NEW x \in a .. b
  PROVE  Min(a .. b) \in Int /\ Min(a .. b) <= x
<1>1. a \in a .. b /\ \A y \in a .. b : a =< y
  OBVIOUS
<1>2. Min(a .. b) \in a .. b /\ \A y \in a .. b : Min(a .. b) =< y
  BY <1>1 DEF Min
<1> QED BY <1>2

\* The wait before the next attempt is never shorter than the shortest one the
\* answer allows.
LEMMA WaitsAreEnough ==
  ASSUME NEW attempt \in Int, NEW advised \in Nat \cup {-1}, NEW wait \in Waits(attempt, advised)
  PROVE  /\ wait \in Int /\ Min(Waits(attempt, advised)) \in Int
         /\ Min(Waits(attempt, advised)) <= wait
<1>1. CASE advised >= 0
  <2>1. Min({advised, BackoffMax}) \in Int
    BY HttpAssumption, SoonerOfTwo
  <2>2. Waits(attempt, advised) = {Min({advised, BackoffMax})}
    BY <1>1 DEF Waits
  <2> HIDE DEF Waits
  <2> QED BY <2>1, <2>2, LeastOfOne
<1>2. CASE ~ (advised >= 0)
  <2>1. 2 ^ (attempt - 1) \in Int
    BY Z3
  <2>2. Backoff * 2 ^ (attempt - 1) \in Int
    BY <2>1, HttpAssumption
  <2>3. RetryWindow(attempt) \in Int
    BY <2>2, HttpAssumption, SoonerOfTwo DEF RetryWindow
  <2> DEFINE half == RetryWindow(attempt) \div 2
  <2>4. half \in Int /\ 2 * half \in Int
    BY <2>3
  <2>5. Waits(attempt, advised) = half .. 2 * half
    BY <1>2 DEF Waits
  <2> HIDE DEF half
  <2> QED BY <2>4, <2>5, LeastOfRange
<1> QED BY <1>1, <1>2

(* -------------------------- requests at a distance ------------------------ *)

\* One more waits for a slot that is not before the next free time.
LEMMA PacedWait ==
  ASSUME NEW waiters, NEW wake, NEW wake2, NEW c, NEW next \in Nat, NEW slot \in Nat,
         NEW gap \in Nat \ {0}, NEW now \in Nat, NEW n \in Nat,
         Paced(waiters, wake, next, gap, now, n), slot >= next,
         wake2[c] = slot, \A d \in waiters : d # c /\ wake2[d] = wake[d]
  PROVE  Paced(waiters \cup {c}, wake2, slot + gap, gap, now, n)
<1>1. PICK used \in SUBSET (0 .. now) :
        /\ Cardinality(used) = n
        /\ \A u, v \in used : u # v => Distant(u, v, gap)
        /\ \A u \in used : u + gap <= next
        /\ \A u \in used, d \in waiters : Distant(u, wake[d], gap)
  BY DEF Paced
<1>2. \A d \in waiters : wake[d] \in Nat /\ wake[d] + gap <= next
  BY DEF Paced
<1>3. \A d, e \in waiters : d # e => Distant(wake[d], wake[e], gap)
  BY DEF Paced
<1>4. \A d \in waiters \cup {c} : wake2[d] \in Nat /\ wake2[d] + gap <= slot + gap
  BY <1>2
<1>5. \A d, e \in waiters \cup {c} : d # e => Distant(wake2[d], wake2[e], gap)
  BY <1>2, <1>3 DEF Distant
<1>6. \A u \in used : u + gap <= slot + gap
  BY <1>1
<1>7. \A u \in used, d \in waiters \cup {c} : Distant(u, wake2[d], gap)
  BY <1>1 DEF Distant
<1> QED BY <1>1, <1>4, <1>5, <1>6, <1>7 DEF Paced

\* Some stop waiting, and time passes.
LEMMA PacedLess ==
  ASSUME NEW waiters, NEW fewer, NEW wake, NEW wake2, NEW next \in Nat,
         NEW gap \in Nat \ {0}, NEW now \in Nat, NEW later \in Nat, NEW n \in Nat,
         Paced(waiters, wake, next, gap, now, n), now <= later,
         \A d \in fewer : d \in waiters /\ wake2[d] = wake[d]
  PROVE  Paced(fewer, wake2, next, gap, later, n)
<1>1. PICK used \in SUBSET (0 .. now) :
        /\ Cardinality(used) = n
        /\ \A u, v \in used : u # v => Distant(u, v, gap)
        /\ \A u \in used : u + gap <= next
        /\ \A u \in used, d \in waiters : Distant(u, wake[d], gap)
  BY DEF Paced
<1>2. used \in SUBSET (0 .. later)
  OBVIOUS
<1> QED BY <1>1, <1>2 DEF Paced

\* One of those who wait sends, once it is its time.
LEMMA PacedSend ==
  ASSUME NEW waiters, NEW c \in waiters, NEW wake, NEW wake2, NEW next \in Nat,
         NEW gap \in Nat \ {0}, NEW now \in Nat, NEW n \in Nat,
         Paced(waiters, wake, next, gap, now, n), wake[c] <= now,
         \A d \in waiters \ {c} : wake2[d] = wake[d]
  PROVE  Paced(waiters \ {c}, wake2, next, gap, now, n + 1)
<1>1. PICK used \in SUBSET (0 .. now) :
        /\ Cardinality(used) = n
        /\ \A u, v \in used : u # v => Distant(u, v, gap)
        /\ \A u \in used : u + gap <= next
        /\ \A u \in used, d \in waiters : Distant(u, wake[d], gap)
  BY DEF Paced
<1>2. \A d \in waiters : wake[d] \in Nat /\ wake[d] + gap <= next
  BY DEF Paced
<1>3. \A d, e \in waiters : d # e => Distant(wake[d], wake[e], gap)
  BY DEF Paced
<1> DEFINE more == used \cup {wake[c]}
<1>4. more \in SUBSET (0 .. now) /\ wake[c] \notin used
  <2>1. wake[c] \in Nat
    BY <1>2
  <2>2. \A u \in used : u \in Nat /\ Distant(u, wake[c], gap)
    BY <1>1
  <2>3. wake[c] \in 0 .. now
    BY <2>1
  <2>4. ~ Distant(wake[c], wake[c], gap)
    BY <2>1 DEF Distant
  <2> QED BY <2>2, <2>3, <2>4
<1>5. IsFiniteSet(used)
  <2>1. IsFiniteSet(0 .. now)
    BY FS_Interval
  <2> QED BY <2>1, FS_Subset
<1>6. Cardinality(more) = n + 1
  BY <1>1, <1>4, <1>5, FS_AddElement
<1>7. \A u, v \in more : u # v => Distant(u, v, gap)
  BY <1>1, <1>2 DEF Distant
<1>8. \A u \in more : u + gap <= next
  BY <1>1, <1>2
<1>9. \A u \in more, d \in waiters \ {c} : Distant(u, wake2[d], gap)
  BY <1>1, <1>3
<1>10. \A d, e \in waiters \ {c} : d # e => Distant(wake2[d], wake2[e], gap)
  BY <1>3
<1>11. \A d \in waiters \ {c} : wake2[d] \in Nat /\ wake2[d] + gap <= next
  BY <1>2
<1> HIDE DEF more
<1> QED BY <1>4, <1>6, <1>7, <1>8, <1>9, <1>10, <1>11 DEF Paced

LEMMA QuotientsOfDistant ==
  ASSUME NEW gap \in Nat \ {0}, NEW u \in Nat, NEW v \in Nat, u + gap <= v
  PROVE  u \div gap < v \div gap
BY SMT

LEMMA QuotientBounds ==
  ASSUME NEW gap \in Nat \ {0}, NEW now \in Nat, NEW u \in 0 .. now
  PROVE  u \div gap \in 0 .. (now \div gap) /\ now \div gap \in Nat
OBVIOUS

\* Requests at a distance are no more than the rate allows: each falls into an
\* interval of its own.
LEMMA PacedCount ==
  ASSUME NEW waiters, NEW wake, NEW next, NEW gap \in Nat \ {0}, NEW now \in Nat,
         NEW n \in Nat, Paced(waiters, wake, next, gap, now, n)
  PROVE  n <= 1 + now \div gap
<1>1. PICK used \in SUBSET (0 .. now) :
        /\ Cardinality(used) = n
        /\ \A u, v \in used : u # v => Distant(u, v, gap)
  BY DEF Paced
<1> DEFINE last == now \div gap
           turns == 0 .. last
           f == [u \in used |-> u \div gap]
<1>2. last \in Nat
  BY QuotientBounds
<1>3. IsFiniteSet(turns) /\ Cardinality(turns) = last + 1
  <2> HIDE DEF last
  <2> QED BY <1>2, FS_Interval
<1>4. f \in [used -> turns]
  BY QuotientBounds
<1>5. \A u, v \in used : u # v => f[u] # f[v]
  <2> SUFFICES ASSUME NEW u \in used, NEW v \in used, u # v PROVE f[u] # f[v]
    OBVIOUS
  <2>1. u \in Nat /\ v \in Nat /\ u \div gap \in Int /\ v \div gap \in Int
    OBVIOUS
  <2>2. u + gap <= v \/ v + gap <= u
    BY <1>1 DEF Distant
  <2>3. u \div gap < v \div gap \/ v \div gap < u \div gap
    BY <2>1, <2>2, QuotientsOfDistant
  <2> QED BY <2>1, <2>3
<1>6. f \in Injection(used, turns)
  BY <1>4, <1>5 DEF Injection, IsInjective
<1>7. Cardinality(used) <= Cardinality(turns)
  BY <1>3, <1>6, FS_Injection
<1> QED BY <1>1, <1>2, <1>3, <1>7

(* ---------------------- the steps and the invariant ----------------------- *)
Answers == [outcome : {"transport", "status"}, advised : Nat \cup {-1}]

LEMMA HttpSteps ==
  ASSUME [HttpNext]_httpVars
  PROVE  \/ \E c \in Callers :
              \/ Lock(c) \/ Stamp(c) \/ ThrottleAlone(c) \/ LockFails(c) \/ SendRequest(c)
              \/ Succeeds(c) \/ BackoffEnds(c) \/ CallCancelled(c)
              \/ \E a \in Answers : /\ a.outcome = "transport" => a.advised = -1
                                   /\ Fails(c, a.outcome, a.advised)
         \/ \E p \in Processes : ProcessKilled(p)
         \/ HttpTick
         \/ UNCHANGED httpVars
<1>1. ASSUME NEW c \in Callers, NEW o \in {"transport", "status"}, NEW d \in Nat \cup {-1},
             Fails(c, o, d), o = "transport" => d = -1
      PROVE  \E a \in Answers : /\ a.outcome = "transport" => a.advised = -1
                               /\ Fails(c, a.outcome, a.advised)
  <2>1. [outcome |-> o, advised |-> d] \in Answers
    BY DEF Answers
  <2> QED BY <1>1, <2>1
<1>2. Advice \subseteq Nat
  BY HttpAssumption
<1> QED BY <1>1, <1>2 DEF HttpNext

\* The record of one call is replaced, the others stay.
Becomes(c, r) ==
  /\ call' \in [Callers -> CallRecords] /\ call'[c] = r
  /\ \A d \in Callers : d # c => call'[d] = call[d]

LEMMA CallBecomes ==
  ASSUME HttpTyped, NEW c \in Callers, NEW r \in CallRecords, call' = [call EXCEPT ![c] = r]
  PROVE  Becomes(c, r)
BY DEF HttpTyped, Becomes

\* What a record is after each change made to it.
LEMMA RecordsOfCalls ==
  ASSUME NEW r \in CallRecords, NEW wake \in Int, NEW floor \in Int,
         NEW shared \in BOOLEAN, NEW attempt \in 0 .. HttpRetries, NEW advised \in Nat \cup {-1}
  PROVE  /\ [r EXCEPT !.at = "locked", !.wake = wake] \in CallRecords
         /\ [r EXCEPT !.at = "waiting", !.wake = wake, !.shared = shared] \in CallRecords
         /\ [r EXCEPT !.at = "sent", !.wake = wake, !.shared = shared, !.floor = floor] \in CallRecords
         /\ [r EXCEPT !.at = "throttle", !.wake = wake, !.advised = advised] \in CallRecords
         /\ [r EXCEPT !.at = "backoff", !.attempt = attempt, !.wake = wake,
                      !.advised = advised, !.floor = floor] \in CallRecords
         /\ [r EXCEPT !.at = "over", !.cc = shared, !.attempt = attempt, !.wake = wake,
                      !.shared = shared, !.advised = advised, !.floor = floor] \in CallRecords
<1>1. [r EXCEPT !.at = "locked", !.wake = wake] \in CallRecords
  BY DEF CallRecords
<1>2. [r EXCEPT !.at = "waiting", !.wake = wake, !.shared = shared] \in CallRecords
  BY DEF CallRecords
<1>3. [r EXCEPT !.at = "sent", !.wake = wake, !.shared = shared, !.floor = floor] \in CallRecords
  BY DEF CallRecords
<1>4. [r EXCEPT !.at = "throttle", !.wake = wake, !.advised = advised] \in CallRecords
  BY DEF CallRecords
<1>5. [r EXCEPT !.at = "backoff", !.attempt = attempt, !.wake = wake,
                !.advised = advised, !.floor = floor] \in CallRecords
  BY DEF CallRecords
<1>6. [r EXCEPT !.at = "over", !.cc = shared, !.attempt = attempt, !.wake = wake,
                !.shared = shared, !.advised = advised, !.floor = floor] \in CallRecords
  BY DEF CallRecords
<1> QED BY <1>1, <1>2, <1>3, <1>4, <1>5, <1>6

\* The values a call starts and ends with.
LEMMA ZeroRecord ==
  0 \in Int /\ 0 \in 0 .. HttpRetries /\ FALSE \in BOOLEAN /\ TRUE \in BOOLEAN /\ -1 \in Nat \cup {-1}
BY HttpAssumption

LEMMA LockCall ==
  ASSUME HttpTyped, NEW c \in Callers, Lock(c)
  PROVE  Becomes(c, [call[c] EXCEPT !.at = "locked", !.wake = slotFile.next])
<1> DEFINE r == [call[c] EXCEPT !.at = "locked", !.wake = slotFile.next]
<1>1. r \in CallRecords
  <2>1. call[c] \in CallRecords /\ slotFile.next \in Int
    BY DEF HttpTyped
  <2> QED BY <2>1, ZeroRecord, RecordsOfCalls, Zenon
<1>2. call' = [call EXCEPT ![c] = r]
  BY Zenon DEF Lock
<1> QED BY <1>1, <1>2, CallBecomes

\* The slot of the one who holds the lock is neither past nor taken.
LEMMA StampCall ==
  ASSUME HttpTyped, LockIsHeld, NEW c \in Callers, Stamp(c)
  PROVE  \E slot \in Nat :
           /\ slot >= slotFile.next /\ slot >= clock.now
           /\ slotFile' = [next |-> slot + Interval, granted |-> slotFile.granted + 1,
                           holder |-> NoCaller]
           /\ Becomes(c, [call[c] EXCEPT !.at = "waiting", !.wake = slot, !.shared = TRUE])
           /\ grants' = grants \cup {slot}
<1> DEFINE next == slotFile.next
           now == clock.now
           slot == Max({call[c].wake, now})
           r == [call[c] EXCEPT !.at = "waiting", !.wake = slot, !.shared = TRUE]
<1>1. next \in Nat /\ now \in Nat
  BY DEF HttpTyped
<1>2. call[c].wake = next
  BY DEF Stamp, LockIsHeld
<1>3. slot \in Nat /\ slot >= next /\ slot >= now
  <2> HIDE DEF next, now
  <2>1. slot = Max({next, now})
    BY <1>2
  <2> HIDE DEF slot
  <2> QED BY <1>1, <2>1, LaterOfTwo
<1>4. slotFile' = [slotFile EXCEPT !.next = slot + Interval, !.granted = @ + 1, !.holder = NoCaller]
  BY DEF Stamp
<1>5. call' = [call EXCEPT ![c] = r] /\ grants' = grants \cup {slot}
  BY Zenon DEF Stamp
<1> HIDE DEF slot
<1>6. r \in CallRecords
  <2>1. call[c] \in CallRecords /\ slot \in Int
    BY <1>3 DEF HttpTyped
  <2> QED BY <2>1, ZeroRecord, RecordsOfCalls, Zenon
<1>7. slotFile' = [next |-> slot + Interval, granted |-> slotFile.granted + 1, holder |-> NoCaller]
  BY <1>4 DEF HttpTyped
<1>8. Becomes(c, r)
  BY <1>5, <1>6, CallBecomes
<1> QED BY <1>3, <1>5, <1>7, <1>8

\* The delay of a process gives out a time that is neither past nor taken.
LEMMA OwnCall ==
  ASSUME HttpTyped, NEW c \in Callers, OwnSlot(c)
  PROVE  \E slot \in Nat :
           /\ slot >= client[call[c].home].next /\ slot >= clock.now
           /\ client' \in [Processes -> [shut : BOOLEAN, next : Nat]]
           /\ \A p \in Processes :
                client'[p].next = IF p = call[c].home THEN slot + OwnDelay ELSE client[p].next
           /\ Becomes(c, [call[c] EXCEPT !.at = "waiting", !.wake = slot, !.shared = FALSE])
<1> DEFINE home == call[c].home
           next == client[home].next
           now == clock.now
           slot == Max({next, now})
           r == [call[c] EXCEPT !.at = "waiting", !.wake = slot, !.shared = FALSE]
<1>1. next \in Nat /\ now \in Nat /\ home \in Processes /\ OwnDelay \in Nat
  <2>1. call[c] \in CallRecords
    BY DEF HttpTyped
  <2>2. home \in Processes
    BY <2>1 DEF CallRecords
  <2> QED BY <2>2, HttpAssumption DEF HttpTyped
<1>2. slot \in Nat /\ slot >= next /\ slot >= now
  <2>1. slot = Max({next, now})
    OBVIOUS
  <2> HIDE DEF slot, next, now
  <2> QED BY <1>1, <2>1, LaterOfTwo
<1>3. client' = [client EXCEPT ![home].next = slot + OwnDelay]
  BY DEF OwnSlot
<1>4. call' = [call EXCEPT ![c] = r]
  BY Zenon DEF OwnSlot
<1> HIDE DEF slot
<1>5. r \in CallRecords
  <2>1. call[c] \in CallRecords /\ slot \in Int
    BY <1>2 DEF HttpTyped
  <2> QED BY <2>1, ZeroRecord, RecordsOfCalls, Zenon
<1>6. Becomes(c, r)
  BY <1>4, <1>5, CallBecomes
<1> HIDE DEF home
<1>7. /\ client' \in [Processes -> [shut : BOOLEAN, next : Nat]]
      /\ \A p \in Processes : client'[p].next = IF p = home THEN slot + OwnDelay ELSE client[p].next
  BY <1>1, <1>2, <1>3 DEF HttpTyped
<1> QED BY <1>2, <1>6, <1>7 DEF home

LEMMA SendCall ==
  ASSUME HttpTyped, NEW c \in Callers, SendRequest(c)
  PROVE  Becomes(c, [call[c] EXCEPT !.at = "sent", !.wake = 0, !.shared = FALSE, !.floor = 0])
<1> DEFINE r == [call[c] EXCEPT !.at = "sent", !.wake = 0, !.shared = FALSE, !.floor = 0]
<1>1. r \in CallRecords
  <2>1. call[c] \in CallRecords /\ slotFile.next \in Int
    BY DEF HttpTyped
  <2> QED BY <2>1, ZeroRecord, RecordsOfCalls, Zenon
<1>2. call' = [call EXCEPT ![c] = r]
  BY Zenon DEF SendRequest
<1> QED BY <1>1, <1>2, CallBecomes

LEMMA OverRecord ==
  ASSUME HttpTyped, NEW c \in Callers
  PROVE  Over(c) \in CallRecords /\ Over(c).at = "over" /\ Over(c).advised = -1
<1>1. call[c] \in CallRecords
  BY DEF HttpTyped
<1>2. Over(c) \in CallRecords
  BY <1>1, ZeroRecord, RecordsOfCalls, Zenon DEF Over
<1>3. Over(c).at = "over" /\ Over(c).advised = -1
  BY <1>1 DEF CallRecords, Over
<1> QED BY <1>2, <1>3

LEMMA OverCall ==
  ASSUME HttpTyped, NEW c \in Callers, Succeeds(c) \/ CallCancelled(c)
  PROVE  Becomes(c, Over(c))
BY OverRecord, CallBecomes DEF Succeeds, CallCancelled

LEMMA BackoffCall ==
  ASSUME HttpTyped, NEW c \in Callers, BackoffEnds(c)
  PROVE  Becomes(c, [call[c] EXCEPT !.at = "throttle", !.wake = 0, !.advised = -1])
<1> DEFINE r == [call[c] EXCEPT !.at = "throttle", !.wake = 0, !.advised = -1]
<1>1. r \in CallRecords
  <2>1. call[c] \in CallRecords /\ slotFile.next \in Int
    BY DEF HttpTyped
  <2> QED BY <2>1, ZeroRecord, RecordsOfCalls, Zenon
<1>2. call' = [call EXCEPT ![c] = r]
  BY Zenon DEF BackoffEnds
<1> QED BY <1>1, <1>2, CallBecomes

\* A failed attempt ends the call, or is followed by a wait that is not shorter
\* than the answer asked for.
LEMMA FailsCall ==
  ASSUME HttpTyped, AdviceIsTaken, NEW c \in Callers, NEW a \in Answers,
         a.outcome = "transport" => a.advised = -1, Fails(c, a.outcome, a.advised)
  PROVE  \/ Becomes(c, Over(c))
         \/ \E attempt \in 0 .. HttpRetries, wake \in Int, floor \in Int :
              /\ floor <= wake
              /\ Becomes(c, [call[c] EXCEPT !.at = "backoff", !.attempt = attempt, !.wake = wake,
                                           !.advised = a.advised, !.floor = floor])
<1> DEFINE attempt == call[c].attempt + 1
<1>1. call[c].advised = -1
  BY DEF AdviceIsTaken, Fails
<1>2. a.advised \in Nat \cup {-1} /\ a.outcome \in {"transport", "status"}
  BY DEF Answers
<1>3. (IF a.outcome = "status" THEN a.advised ELSE call[c].advised) = a.advised
  BY <1>1, <1>2
<1>4. CASE attempt > HttpRetries
  <2>1. call' = [call EXCEPT ![c] = Over(c)]
    BY <1>4 DEF Fails
  <2> QED BY <2>1, OverRecord, CallBecomes
<1>5. CASE ~ (attempt > HttpRetries)
  <2>1. clock.now \in Int /\ attempt \in 0 .. HttpRetries
    BY <1>5, HttpAssumption DEF HttpTyped, CallRecords
  <2>2. PICK wait \in Waits(attempt, a.advised) :
          call' = [call EXCEPT ![c].at = "backoff", ![c].attempt = attempt,
                               ![c].wake = clock.now + wait, ![c].advised = a.advised,
                               ![c].floor = clock.now + Min(Waits(attempt, a.advised))]
    BY <1>3, <1>5, Zenon DEF Fails
  <2> HIDE DEF attempt
  <2>3. wait \in Int /\ Min(Waits(attempt, a.advised)) \in Int /\ Min(Waits(attempt, a.advised)) <= wait
    BY <1>2, <2>1, <2>2, WaitsAreEnough
  <2> DEFINE wake == clock.now + wait
             floor == clock.now + Min(Waits(attempt, a.advised))
             r == [call[c] EXCEPT !.at = "backoff", !.attempt = attempt, !.wake = wake,
                                  !.advised = a.advised, !.floor = floor]
  <2>4. wake \in Int /\ floor \in Int /\ floor <= wake
    BY <2>1, <2>3
  <2>5. call' = [call EXCEPT ![c] = r]
    BY <2>2, Zenon
  <2> HIDE DEF wake, floor
  <2>6. r \in CallRecords
    <3>1. call[c] \in CallRecords
      BY DEF HttpTyped
    <3> QED BY <1>2, <2>1, <2>4, <3>1, ZeroRecord, RecordsOfCalls, Zenon
  <2>7. Becomes(c, r)
    BY <2>5, <2>6, CallBecomes
  <2> QED BY <2>1, <2>4, <2>7
<1> QED BY <1>4, <1>5

LEMMA KilledCalls ==
  ASSUME HttpTyped, NEW p \in Processes, ProcessKilled(p)
  PROVE  /\ call' \in [Callers -> CallRecords]
         /\ \A c \in Callers : IF call[c].home = p THEN call'[c] = Over(c) ELSE call'[c] = call[c]
         /\ slotFile' \in [next : Nat, granted : Nat, holder : Callers \cup {NoCaller}]
         /\ slotFile'.next = slotFile.next /\ slotFile'.granted = slotFile.granted
         /\ slotFile'.holder = IF \E c \in Callers : call[c].home = p /\ c = slotFile.holder
                               THEN NoCaller ELSE slotFile.holder
<1>1. \A c \in Callers : IF call[c].home = p THEN call'[c] = Over(c) ELSE call'[c] = call[c]
  BY DEF ProcessKilled
<1>2. call' \in [Callers -> CallRecords]
  BY OverRecord DEF ProcessKilled, HttpTyped
<1>3. slotFile' = [slotFile EXCEPT !.holder = IF @ \in {c \in Callers : call[c].home = p}
                                             THEN NoCaller ELSE @]
  BY DEF ProcessKilled
<1> QED BY <1>1, <1>2, <1>3 DEF HttpTyped

LEMMA HttpTypedStep ==
  HttpTyped /\ LockIsHeld /\ AdviceIsTaken /\ [HttpNext]_httpVars => HttpTyped'
<1> SUFFICES ASSUME HttpTyped, LockIsHeld, AdviceIsTaken, [HttpNext]_httpVars PROVE HttpTyped'
  OBVIOUS
<1>0. Interval \in Nat /\ OwnDelay \in Nat /\ LastTick \in Nat
  BY HttpAssumption
<1>1. ASSUME NEW c \in Callers, Lock(c) PROVE HttpTyped'
  <2>1. call' \in [Callers -> CallRecords]
    BY <1>1, LockCall DEF Becomes
  <2> QED BY <1>1, <2>1 DEF Lock, HttpTyped
<1>2. ASSUME NEW c \in Callers, Stamp(c) PROVE HttpTyped'
  <2>1. PICK slot \in Nat :
          /\ slotFile' = [next |-> slot + Interval, granted |-> slotFile.granted + 1,
                          holder |-> NoCaller]
          /\ call' \in [Callers -> CallRecords]
          /\ grants' = grants \cup {slot}
    BY <1>2, StampCall DEF Becomes
  <2>2. slotFile' \in [next : Nat, granted : Nat, holder : Callers \cup {NoCaller}]
    BY <1>0, <2>1 DEF HttpTyped
  <2> QED BY <1>2, <2>1, <2>2 DEF Stamp, HttpTyped
<1>3. ASSUME NEW c \in Callers, ThrottleAlone(c) \/ LockFails(c) PROVE HttpTyped'
  <2>1. /\ call' \in [Callers -> CallRecords]
        /\ client' \in [Processes -> [shut : BOOLEAN, next : Nat]]
    BY <1>3, OwnCall DEF ThrottleAlone, LockFails, Becomes
  <2>2. /\ slotFile' \in [next : Nat, granted : Nat, holder : Callers \cup {NoCaller}]
        /\ clock' \in [now : 0..LastTick, faults : Nat]
    BY <1>3 DEF ThrottleAlone, LockFails, HttpFault, HttpTyped
  <2> QED BY <1>3, <2>1, <2>2 DEF ThrottleAlone, LockFails, HttpTyped
<1>4. ASSUME NEW c \in Callers, SendRequest(c) PROVE HttpTyped'
  <2>1. call' \in [Callers -> CallRecords]
    BY <1>4, SendCall DEF Becomes
  <2>2. sent' \in [shared : Nat, own : [Processes -> Nat]]
    BY <1>4 DEF SendRequest, HttpTyped
  <2> QED BY <1>4, <2>1, <2>2 DEF SendRequest, HttpTyped
<1>5. ASSUME NEW c \in Callers, Succeeds(c) \/ BackoffEnds(c) \/ CallCancelled(c) PROVE HttpTyped'
  <2>1. call' \in [Callers -> CallRecords]
    BY <1>5, OverCall, BackoffCall DEF Becomes
  <2> QED BY <1>5, <2>1 DEF Succeeds, BackoffEnds, CallCancelled, HttpTyped
<1>6. ASSUME NEW c \in Callers, NEW a \in Answers, a.outcome = "transport" => a.advised = -1,
             Fails(c, a.outcome, a.advised)
      PROVE  HttpTyped'
  <2>1. call' \in [Callers -> CallRecords]
    BY <1>6, FailsCall DEF Becomes
  <2> QED BY <1>6, <2>1 DEF Fails, HttpTyped
<1>7. ASSUME NEW p \in Processes, ProcessKilled(p) PROVE HttpTyped'
  <2>1. clock' \in [now : 0..LastTick, faults : Nat]
    BY <1>7 DEF ProcessKilled, HttpFault, HttpTyped
  <2> QED BY <1>7, <2>1, KilledCalls DEF ProcessKilled, HttpTyped
<1>8. CASE HttpTick
  BY <1>0, <1>8 DEF HttpTick, HttpTyped
<1>9. CASE UNCHANGED httpVars
  BY <1>9 DEF httpVars, HttpTyped
<1> QED BY <1>1, <1>2, <1>3, <1>4, <1>5, <1>6, <1>7, <1>8, <1>9, HttpSteps

LEMMA LockIsHeldStep ==
  HttpTyped /\ LockIsHeld /\ AdviceIsTaken /\ [HttpNext]_httpVars => LockIsHeld'
<1> SUFFICES ASSUME HttpTyped, LockIsHeld, AdviceIsTaken, [HttpNext]_httpVars PROVE LockIsHeld'
  OBVIOUS
<1>0. NoCaller \notin Callers /\ \A c \in Callers : call[c] \in CallRecords
  BY HttpAssumption DEF HttpTyped
<1>a. ASSUME NEW c \in Callers, NEW r, Becomes(c, r), r.at # "locked",
             slotFile'.next = slotFile.next, 
             slotFile'.holder = IF call[c].at = "locked" THEN NoCaller ELSE slotFile.holder
      PROVE  LockIsHeld'
  BY <1>0, <1>a DEF Becomes, LockIsHeld
<1>1. ASSUME NEW c \in Callers, Lock(c) PROVE LockIsHeld'
  <2>1. call'[c].at = "locked" /\ call'[c].wake = slotFile.next
    BY <1>0, <1>1, LockCall DEF Becomes, CallRecords
  <2>2. \A d \in Callers : d # c => call'[d] = call[d]
    BY <1>1, LockCall DEF Becomes
  <2>3. slotFile'.holder = c /\ slotFile'.next = slotFile.next /\ slotFile.holder = NoCaller
    BY <1>1 DEF Lock, LockFree, HttpTyped
  <2> QED BY <1>0, <2>1, <2>2, <2>3 DEF LockIsHeld
<1>2. ASSUME NEW c \in Callers, Stamp(c) PROVE LockIsHeld'
  <2>0. PICK slot \in Nat :
          Becomes(c, [call[c] EXCEPT !.at = "waiting", !.wake = slot, !.shared = TRUE])
    BY <1>2, StampCall
  <2>1. call'[c].at # "locked" /\ slotFile'.holder = NoCaller
    BY <1>0, <1>2, <2>0 DEF Stamp, HttpTyped, Becomes, CallRecords
  <2>2. \A d \in Callers : d # c => call'[d] = call[d]
    BY <1>2, StampCall DEF Becomes
  <2>3. \A d \in Callers : d # c => call[d].at # "locked"
    BY <1>2 DEF Stamp, LockIsHeld
  <2> QED BY <1>0, <2>1, <2>2, <2>3 DEF LockIsHeld
<1>3. ASSUME NEW c \in Callers, ThrottleAlone(c) \/ LockFails(c) PROVE LockIsHeld'
  <2>1. PICK slot \in Nat :
          Becomes(c, [call[c] EXCEPT !.at = "waiting", !.wake = slot, !.shared = FALSE])
    BY <1>3, OwnCall DEF ThrottleAlone, LockFails
  <2>2. [call[c] EXCEPT !.at = "waiting", !.wake = slot, !.shared = FALSE].at # "locked"
    BY <1>0 DEF CallRecords
  <2>3. /\ slotFile'.next = slotFile.next
        /\ slotFile'.holder = IF call[c].at = "locked" THEN NoCaller ELSE slotFile.holder
    BY <1>3 DEF ThrottleAlone, LockFails, HttpTyped
  <2> QED BY <1>a, <2>1, <2>2, <2>3
<1>4. ASSUME NEW c \in Callers, SendRequest(c) PROVE LockIsHeld'
  <2>1. [call[c] EXCEPT !.at = "sent", !.wake = 0, !.shared = FALSE, !.floor = 0].at # "locked"
    BY <1>0 DEF CallRecords
  <2>2. slotFile' = slotFile /\ call[c].at # "locked"
    BY <1>4 DEF SendRequest
  <2> QED BY <1>a, <1>4, <2>1, <2>2, SendCall
<1>5. ASSUME NEW c \in Callers, Succeeds(c) \/ CallCancelled(c) PROVE LockIsHeld'
  <2>1. slotFile' = slotFile /\ call[c].at # "locked"
    BY <1>5 DEF Succeeds, CallCancelled
  <2> QED BY <1>a, <1>5, <2>1, OverCall, OverRecord
<1>6. ASSUME NEW c \in Callers, BackoffEnds(c) PROVE LockIsHeld'
  <2>1. [call[c] EXCEPT !.at = "throttle", !.wake = 0, !.advised = -1].at # "locked"
    BY <1>0 DEF CallRecords
  <2>2. slotFile' = slotFile /\ call[c].at # "locked"
    BY <1>6 DEF BackoffEnds
  <2> QED BY <1>a, <1>6, <2>1, <2>2, BackoffCall
<1>7. ASSUME NEW c \in Callers, NEW a \in Answers, a.outcome = "transport" => a.advised = -1,
             Fails(c, a.outcome, a.advised)
      PROVE  LockIsHeld'
  <2>1. slotFile' = slotFile /\ call[c].at # "locked"
    BY <1>7 DEF Fails
  <2>2. CASE Becomes(c, Over(c))
    BY <1>a, <2>1, <2>2, OverRecord
  <2>3. CASE ~ Becomes(c, Over(c))
    <3>1. PICK attempt \in 0 .. HttpRetries, wake \in Int, floor \in Int :
            Becomes(c, [call[c] EXCEPT !.at = "backoff", !.attempt = attempt, !.wake = wake,
                                       !.advised = a.advised, !.floor = floor])
      BY <1>7, <2>3, FailsCall
    <3>2. [call[c] EXCEPT !.at = "backoff", !.attempt = attempt, !.wake = wake,
                          !.advised = a.advised, !.floor = floor].at # "locked"
      BY <1>0 DEF CallRecords
    <3> QED BY <1>a, <2>1, <3>1, <3>2
  <2> QED BY <2>2, <2>3
<1>8. ASSUME NEW p \in Processes, ProcessKilled(p) PROVE LockIsHeld'
  <2>1. \A c \in Callers : Over(c).at # "locked"
    BY OverRecord
  <2> QED BY <1>0, <1>8, <2>1, KilledCalls DEF LockIsHeld
<1>9. CASE HttpTick \/ UNCHANGED httpVars
  BY <1>9 DEF HttpTick, httpVars, LockIsHeld
<1> QED BY <1>1, <1>2, <1>3, <1>4, <1>5, <1>6, <1>7, <1>8, <1>9, HttpSteps

\* The slots handed out change only when the one who holds the lock takes one.
LEMMA SlotsStep ==
  HttpTyped /\ LockIsHeld /\ SlotsBehind /\ [HttpNext]_httpVars => SlotsBehind'
<1> SUFFICES ASSUME HttpTyped, LockIsHeld, SlotsBehind, [HttpNext]_httpVars PROVE SlotsBehind'
  OBVIOUS
<1>1. ASSUME NEW c \in Callers, Stamp(c) PROVE SlotsBehind'
  <2>1. PICK slot \in Nat :
          /\ slot >= slotFile.next
          /\ slotFile' = [next |-> slot + Interval, granted |-> slotFile.granted + 1,
                          holder |-> NoCaller]
          /\ grants' = grants \cup {slot}
    BY <1>1, StampCall
  <2>2. slotFile'.next = slot + Interval /\ slotFile'.granted = slotFile.granted + 1
    BY <2>1
  <2>3. grants \subseteq Nat /\ Interval \in Nat \ {0} /\ slotFile.next \in Nat
    BY HttpAssumption DEF HttpTyped
  <2>4. \A g \in grants : g + Interval <= slot
    BY <2>1, <2>3 DEF SlotsBehind
  <2>5. slot \notin grants
    BY <2>3, <2>4
  <2>6. Cardinality(grants') = slotFile'.granted /\ IsFiniteSet(grants')
    BY <2>1, <2>2, <2>5, FS_AddElement DEF SlotsBehind, SlotsApart
  <2>7. \A a, b \in grants' : a < b => b - a >= Interval
    BY <2>1, <2>3, <2>4 DEF SlotsBehind, SlotsApart
  <2>8. \A g \in grants' : g + Interval <= slotFile'.next
    BY <2>1, <2>2, <2>3, <2>4
  <2> QED BY <2>6, <2>7, <2>8 DEF SlotsBehind, SlotsApart
<1>2. CASE /\ grants' = grants /\ slotFile'.next = slotFile.next
           /\ slotFile'.granted = slotFile.granted
  BY <1>2 DEF SlotsBehind, SlotsApart
<1>3. ASSUME NEW c \in Callers, Lock(c) \/ ThrottleAlone(c) \/ LockFails(c) \/ SendRequest(c)
                                \/ Succeeds(c) \/ BackoffEnds(c) \/ CallCancelled(c)
      PROVE  /\ grants' = grants /\ slotFile'.next = slotFile.next
             /\ slotFile'.granted = slotFile.granted
  BY <1>3 DEF Lock, ThrottleAlone, LockFails, SendRequest, Succeeds, BackoffEnds, CallCancelled,
              HttpTyped
<1>4. ASSUME NEW c \in Callers, NEW a \in Answers, Fails(c, a.outcome, a.advised)
      PROVE  grants' = grants /\ slotFile' = slotFile
  BY <1>4 DEF Fails
<1>5. ASSUME NEW p \in Processes, ProcessKilled(p)
      PROVE  /\ grants' = grants /\ slotFile'.next = slotFile.next
             /\ slotFile'.granted = slotFile.granted
  BY <1>5, KilledCalls DEF ProcessKilled
<1>6. HttpTick \/ UNCHANGED httpVars => grants' = grants /\ slotFile' = slotFile
  BY DEF HttpTick, httpVars
<1> QED BY <1>1, <1>2, <1>3, <1>4, <1>5, <1>6, HttpSteps

\* The advice is kept for one wait, and nobody is past a wait too early.
LEMMA AdviceStep ==
  HttpTyped /\ LockIsHeld /\ AdviceIsTaken /\ [HttpNext]_httpVars => AdviceIsTaken'
<1> SUFFICES ASSUME HttpTyped, LockIsHeld, AdviceIsTaken, [HttpNext]_httpVars PROVE AdviceIsTaken'
  OBVIOUS
<1> DEFINE Taken(r, now) == /\ r.at # "backoff" => r.advised = -1
                            /\ r.at = "backoff" => r.floor <= r.wake
                            /\ r.at \in {"throttle", "locked", "waiting"} => r.floor <= now
<1>0. /\ \A c \in Callers : /\ call[c] \in CallRecords /\ Taken(call[c], clock.now)
                            /\ call[c].floor \in Int /\ call[c].wake \in Int
      /\ clock.now \in Nat
  BY DEF HttpTyped, AdviceIsTaken, CallRecords
<1>a. ASSUME NEW c \in Callers, NEW r, Becomes(c, r), clock'.now = clock.now, Taken(r, clock.now)
      PROVE  AdviceIsTaken'
  BY <1>0, <1>a DEF Becomes, AdviceIsTaken
<1> HIDE DEF Taken
<1>1. ASSUME NEW c \in Callers, Lock(c) PROVE AdviceIsTaken'
  <2>1. call[c].at = "throttle" /\ clock' = clock
    BY <1>1 DEF Lock
  <2>2. Taken([call[c] EXCEPT !.at = "locked", !.wake = slotFile.next], clock.now)
    BY <1>0, <2>1 DEF CallRecords, Taken
  <2> QED BY <1>a, <1>1, <2>1, <2>2, LockCall
<1>2. ASSUME NEW c \in Callers, Stamp(c) PROVE AdviceIsTaken'
  <2>1. call[c].at = "locked" /\ clock' = clock
    BY <1>2 DEF Stamp
  <2>2. PICK slot \in Nat :
          Becomes(c, [call[c] EXCEPT !.at = "waiting", !.wake = slot, !.shared = TRUE])
    BY <1>2, StampCall
  <2>3. Taken([call[c] EXCEPT !.at = "waiting", !.wake = slot, !.shared = TRUE], clock.now)
    BY <1>0, <2>1 DEF CallRecords, Taken
  <2> QED BY <1>a, <2>1, <2>2, <2>3
<1>3. ASSUME NEW c \in Callers, ThrottleAlone(c) \/ LockFails(c) PROVE AdviceIsTaken'
  <2>1. call[c].at \in {"throttle", "locked"} /\ clock'.now = clock.now
    BY <1>3 DEF ThrottleAlone, LockFails, HttpFault, HttpTyped
  <2>2. PICK slot \in Nat :
          Becomes(c, [call[c] EXCEPT !.at = "waiting", !.wake = slot, !.shared = FALSE])
    BY <1>3, OwnCall DEF ThrottleAlone, LockFails
  <2>3. Taken([call[c] EXCEPT !.at = "waiting", !.wake = slot, !.shared = FALSE], clock.now)
    BY <1>0, <2>1 DEF CallRecords, Taken
  <2> QED BY <1>a, <2>1, <2>2, <2>3
<1>4. ASSUME NEW c \in Callers, SendRequest(c) PROVE AdviceIsTaken'
  <2>1. call[c].at = "waiting" /\ clock' = clock
    BY <1>4 DEF SendRequest
  <2>2. Taken([call[c] EXCEPT !.at = "sent", !.wake = 0, !.shared = FALSE, !.floor = 0], clock.now)
    BY <1>0, <2>1 DEF CallRecords, Taken
  <2> QED BY <1>a, <1>4, <2>1, <2>2, SendCall
<1>5. \A c \in Callers : Taken(Over(c), clock.now)
  BY OverRecord DEF Taken
<1>6. ASSUME NEW c \in Callers, Succeeds(c) \/ CallCancelled(c) PROVE AdviceIsTaken'
  BY <1>a, <1>5, <1>6, OverCall DEF Succeeds, CallCancelled
<1>7. ASSUME NEW c \in Callers, BackoffEnds(c) PROVE AdviceIsTaken'
  <2>1. call[c].at = "backoff" /\ clock' = clock /\ call[c].floor <= clock.now
    BY <1>0, <1>7 DEF BackoffEnds, Taken
  <2>2. Taken([call[c] EXCEPT !.at = "throttle", !.wake = 0, !.advised = -1], clock.now)
    BY <1>0, <2>1 DEF CallRecords, Taken
  <2> QED BY <1>a, <1>7, <2>1, <2>2, BackoffCall
<1>8. ASSUME NEW c \in Callers, NEW a \in Answers, a.outcome = "transport" => a.advised = -1,
             Fails(c, a.outcome, a.advised)
      PROVE  AdviceIsTaken'
  <2>1. clock' = clock
    BY <1>8 DEF Fails
  <2>2. CASE Becomes(c, Over(c))
    BY <1>a, <1>5, <2>1, <2>2
  <2>3. CASE ~ Becomes(c, Over(c))
    <3>1. PICK attempt \in 0 .. HttpRetries, wake \in Int, floor \in Int :
            /\ floor <= wake
            /\ Becomes(c, [call[c] EXCEPT !.at = "backoff", !.attempt = attempt, !.wake = wake,
                                         !.advised = a.advised, !.floor = floor])
      BY <1>8, <2>3, FailsCall
    <3>2. Taken([call[c] EXCEPT !.at = "backoff", !.attempt = attempt, !.wake = wake,
                                !.advised = a.advised, !.floor = floor], clock.now)
      BY <1>0, <3>1 DEF CallRecords, Taken
    <3> QED BY <1>a, <2>1, <3>1, <3>2
  <2> QED BY <2>2, <2>3
<1>9. ASSUME NEW p \in Processes, ProcessKilled(p) PROVE AdviceIsTaken'
  <2>1. clock'.now = clock.now
    BY <1>9 DEF ProcessKilled, HttpFault, HttpTyped
  <2>2. \A c \in Callers : Taken(call'[c], clock.now)
    BY <1>0, <1>5, <1>9, KilledCalls
  <2> QED BY <2>1, <2>2 DEF Taken, AdviceIsTaken
<1>10. CASE HttpTick
  <2>1. call' = call /\ clock'.now = clock.now + 1
    BY <1>10 DEF HttpTick, HttpTyped
  <2> QED BY <1>0, <2>1 DEF Taken, AdviceIsTaken
<1>11. CASE UNCHANGED httpVars
  BY <1>11 DEF httpVars, AdviceIsTaken
<1> QED BY <1>1, <1>2, <1>3, <1>4, <1>6, <1>7, <1>8, <1>9, <1>10, <1>11, HttpSteps

\* The constants and the state as the lemmas about distances need them.
LEMMA PacedTypes ==
  ASSUME HttpTyped
  PROVE  /\ Interval \in Nat \ {0} /\ OwnDelay \in Nat \ {0}
         /\ slotFile.next \in Nat /\ clock.now \in Nat /\ sent.shared \in Nat
         /\ \A p \in Processes : client[p].next \in Nat /\ sent.own[p] \in Nat
         /\ \A c \in Callers : call[c] \in CallRecords /\ call[c].home \in Processes
BY HttpAssumption DEF HttpTyped, CallRecords

\* A step that lets nobody new wait, and sends nothing.
LEMMA QuietStep ==
  ASSUME HttpTyped, SendsArePaced, sent' = sent, slotFile'.next = slotFile.next,
         clock'.now \in Nat, clock.now <= clock'.now, \A p \in Processes : client'[p] = client[p],
         \A c \in Callers : call'[c] = call[c] \/ call'[c].at # "waiting"
  PROVE  SendsArePaced'
<1>1. Paced(SharedWaiters', Wakes', slotFile'.next, Interval, clock'.now, sent'.shared)
  <2>1. \A c \in SharedWaiters' : c \in SharedWaiters /\ Wakes'[c] = Wakes[c]
    BY DEF SharedWaiters, Wakes
  <2>2. Paced(SharedWaiters, Wakes, slotFile.next, Interval, clock.now, sent.shared)
    BY DEF SendsArePaced
  <2>3. Paced(SharedWaiters', Wakes', slotFile.next, Interval, clock'.now, sent.shared)
    BY <2>1, <2>2, PacedTypes, PacedLess
  <2> QED BY <2>3
<1>2. ASSUME NEW p \in Processes
      PROVE  Paced(OwnWaiters(p)', Wakes', client'[p].next, OwnDelay, clock'.now, sent'.own[p])
  <2>1. \A c \in OwnWaiters(p)' : c \in OwnWaiters(p) /\ Wakes'[c] = Wakes[c]
    BY DEF OwnWaiters, Wakes
  <2>2. Paced(OwnWaiters(p), Wakes, client[p].next, OwnDelay, clock.now, sent.own[p])
    BY DEF SendsArePaced
  <2>3. Paced(OwnWaiters(p)', Wakes', client[p].next, OwnDelay, clock'.now, sent.own[p])
    BY <2>1, <2>2, PacedTypes, PacedLess
  <2> QED BY <2>3
<1> QED BY <1>1, <1>2 DEF SendsArePaced

\* The holder of the lock begins to wait for its slot.
LEMMA StampPaced ==
  ASSUME HttpTyped, LockIsHeld, SendsArePaced, NEW c \in Callers, Stamp(c)
  PROVE  SendsArePaced'
<1>1. PICK slot \in Nat :
        /\ slot >= slotFile.next
        /\ slotFile' = [next |-> slot + Interval, granted |-> slotFile.granted + 1,
                        holder |-> NoCaller]
        /\ Becomes(c, [call[c] EXCEPT !.at = "waiting", !.wake = slot, !.shared = TRUE])
  BY StampCall
<1>2. /\ call'[c].at = "waiting" /\ call'[c].wake = slot /\ call'[c].shared = TRUE
      /\ \A d \in Callers : d # c => call'[d] = call[d]
      /\ call[c].at # "waiting"
  <2>1. call[c] \in CallRecords /\ call[c].at # "waiting"
    BY PacedTypes DEF Stamp
  <2>2. /\ call'[c] = [call[c] EXCEPT !.at = "waiting", !.wake = slot, !.shared = TRUE]
        /\ \A d \in Callers : d # c => call'[d] = call[d]
    BY <1>1 DEF Becomes
  <2>3. call'[c].at = "waiting" /\ call'[c].wake = slot
    BY <2>1, <2>2 DEF CallRecords
  <2>4. call'[c].shared = TRUE
    BY <2>1, <2>2 DEF CallRecords
  <2> QED BY <2>1, <2>2, <2>3, <2>4
<1>3. UNCHANGED <<clock, client, sent>> /\ slotFile'.next = slot + Interval
  <2>1. slotFile'.next = slot + Interval
    BY <1>1
  <2> QED BY <2>1 DEF Stamp
<1>4. Paced(SharedWaiters', Wakes', slotFile'.next, Interval, clock'.now, sent'.shared)
  <2>1. SharedWaiters' = SharedWaiters \cup {c}
    BY <1>2 DEF SharedWaiters
  <2>2. Wakes'[c] = slot /\ \A d \in SharedWaiters : d # c /\ Wakes'[d] = Wakes[d]
    BY <1>2 DEF SharedWaiters, Wakes
  <2>3. Paced(SharedWaiters, Wakes, slotFile.next, Interval, clock.now, sent.shared)
    BY DEF SendsArePaced
  <2>4. Paced(SharedWaiters \cup {c}, Wakes', slot + Interval, Interval, clock.now, sent.shared)
    BY <1>1, <2>2, <2>3, PacedTypes, PacedWait
  <2> QED BY <1>3, <2>1, <2>4
<1>5. ASSUME NEW p \in Processes
      PROVE  Paced(OwnWaiters(p)', Wakes', client'[p].next, OwnDelay, clock'.now, sent'.own[p])
  <2>1. \A d \in OwnWaiters(p)' : d \in OwnWaiters(p) /\ Wakes'[d] = Wakes[d]
    BY <1>2 DEF OwnWaiters, Wakes
  <2>2. Paced(OwnWaiters(p), Wakes, client[p].next, OwnDelay, clock.now, sent.own[p])
    BY DEF SendsArePaced
  <2>3. Paced(OwnWaiters(p)', Wakes', client[p].next, OwnDelay, clock.now, sent.own[p])
    BY <2>1, <2>2, PacedTypes, PacedLess
  <2> QED BY <1>3, <2>3
<1> QED BY <1>4, <1>5 DEF SendsArePaced

\* A caller begins to wait for the delay of its process.
LEMMA OwnPaced ==
  ASSUME HttpTyped, SendsArePaced, NEW c \in Callers, OwnSlot(c), call[c].at # "waiting",
         sent' = sent, slotFile'.next = slotFile.next, clock'.now = clock.now
  PROVE  SendsArePaced'
<1> DEFINE home == call[c].home
<1>1. PICK slot \in Nat :
        /\ slot >= client[home].next
        /\ \A p \in Processes :
             client'[p].next = IF p = home THEN slot + OwnDelay ELSE client[p].next
        /\ Becomes(c, [call[c] EXCEPT !.at = "waiting", !.wake = slot, !.shared = FALSE])
  BY OwnCall
<1>2. /\ call'[c].at = "waiting" /\ call'[c].wake = slot /\ ~call'[c].shared /\ call'[c].home = home
      /\ \A d \in Callers : d # c => call'[d] = call[d]
  BY <1>1, PacedTypes DEF Becomes, CallRecords
<1>3. home \in Processes
  BY PacedTypes
<1> HIDE DEF home
<1>4. Paced(SharedWaiters', Wakes', slotFile'.next, Interval, clock'.now, sent'.shared)
  <2>1. \A d \in SharedWaiters' : d \in SharedWaiters /\ Wakes'[d] = Wakes[d]
    BY <1>2 DEF SharedWaiters, Wakes
  <2>2. Paced(SharedWaiters, Wakes, slotFile.next, Interval, clock.now, sent.shared)
    BY DEF SendsArePaced
  <2>3. Paced(SharedWaiters', Wakes', slotFile.next, Interval, clock.now, sent.shared)
    BY <2>1, <2>2, PacedTypes, PacedLess
  <2> QED BY <2>3
<1>5. ASSUME NEW p \in Processes, p # home
      PROVE  Paced(OwnWaiters(p)', Wakes', client'[p].next, OwnDelay, clock'.now, sent'.own[p])
  <2>1. \A d \in OwnWaiters(p)' : d \in OwnWaiters(p) /\ Wakes'[d] = Wakes[d]
    BY <1>2, <1>5 DEF OwnWaiters, Wakes
  <2>2. Paced(OwnWaiters(p), Wakes, client[p].next, OwnDelay, clock.now, sent.own[p])
    BY DEF SendsArePaced
  <2>3. Paced(OwnWaiters(p)', Wakes', client[p].next, OwnDelay, clock.now, sent.own[p])
    BY <2>1, <2>2, PacedTypes, PacedLess
  <2>4. client'[p].next = client[p].next
    BY <1>1, <1>5
  <2> QED BY <2>3, <2>4
<1>6. ASSUME NEW p \in Processes, p = home
      PROVE  Paced(OwnWaiters(p)', Wakes', client'[p].next, OwnDelay, clock'.now, sent'.own[p])
  <2>1. OwnWaiters(p)' = OwnWaiters(p) \cup {c}
    BY <1>2, <1>6 DEF OwnWaiters
  <2>2. Wakes'[c] = slot /\ \A d \in OwnWaiters(p) : d # c /\ Wakes'[d] = Wakes[d]
    BY <1>2 DEF OwnWaiters, Wakes
  <2>3. Paced(OwnWaiters(p), Wakes, client[p].next, OwnDelay, clock.now, sent.own[p])
    BY DEF SendsArePaced
  <2>4. Paced(OwnWaiters(p) \cup {c}, Wakes', slot + OwnDelay, OwnDelay, clock.now, sent.own[p])
    <3>1. /\ client[p].next \in Nat /\ slot \in Nat /\ slot >= client[p].next
          /\ OwnDelay \in Nat \ {0} /\ clock.now \in Nat /\ sent.own[p] \in Nat
      BY <1>1, <1>6, PacedTypes
    <3> QED BY <3>1, <2>2, <2>3, PacedWait
  <2>5. client'[p].next = slot + OwnDelay
    BY <1>1, <1>6
  <2> QED BY <2>1, <2>4, <2>5
<1> QED BY <1>4, <1>5, <1>6 DEF SendsArePaced

\* One that waited for a slot, or for the delay of its process, sends.
LEMMA SendPaced ==
  ASSUME HttpTyped, SendsArePaced, NEW c \in Callers, SendRequest(c)
  PROVE  SendsArePaced'
<1> DEFINE home == call[c].home
<1>1. /\ call'[c].at = "sent" /\ \A d \in Callers : d # c => call'[d] = call[d]
      /\ call[c].at = "waiting" /\ call[c].wake <= clock.now /\ home \in Processes
  <2>1. /\ call'[c] = [call[c] EXCEPT !.at = "sent", !.wake = 0, !.shared = FALSE, !.floor = 0]
        /\ \A d \in Callers : d # c => call'[d] = call[d]
    BY SendCall DEF Becomes
  <2>2. call'[c].at = "sent"
    BY <2>1, PacedTypes DEF CallRecords
  <2>3. call[c].at = "waiting" /\ call[c].wake <= clock.now
    <3>1. call[c].wake \in Int /\ clock.now \in Int
      BY PacedTypes DEF CallRecords
    <3> QED BY <3>1 DEF SendRequest
  <2> QED BY <2>1, <2>2, <2>3, PacedTypes
<1>2. UNCHANGED <<clock, slotFile, client>>
  BY DEF SendRequest
<1>3. CASE call[c].shared
  <2>1. sent'.shared = sent.shared + 1 /\ sent'.own = sent.own
    BY <1>3 DEF SendRequest, HttpTyped
  <2>2. Paced(SharedWaiters', Wakes', slotFile'.next, Interval, clock'.now, sent'.shared)
    <3>1. c \in SharedWaiters /\ SharedWaiters' = SharedWaiters \ {c}
      BY <1>1, <1>3 DEF SharedWaiters
    <3>2. Wakes[c] <= clock.now /\ \A d \in SharedWaiters \ {c} : Wakes'[d] = Wakes[d]
      BY <1>1 DEF SharedWaiters, Wakes
    <3>3. Paced(SharedWaiters, Wakes, slotFile.next, Interval, clock.now, sent.shared)
      BY DEF SendsArePaced
    <3>4. Paced(SharedWaiters \ {c}, Wakes', slotFile.next, Interval, clock.now, sent.shared + 1)
      BY <3>1, <3>2, <3>3, PacedTypes, PacedSend
    <3> QED BY <1>2, <2>1, <3>1, <3>4
  <2>3. ASSUME NEW p \in Processes
        PROVE  Paced(OwnWaiters(p)', Wakes', client'[p].next, OwnDelay, clock'.now, sent'.own[p])
    <3>1. \A d \in OwnWaiters(p)' : d \in OwnWaiters(p) /\ Wakes'[d] = Wakes[d]
      BY <1>1 DEF OwnWaiters, Wakes
    <3>2. Paced(OwnWaiters(p), Wakes, client[p].next, OwnDelay, clock.now, sent.own[p])
      BY DEF SendsArePaced
    <3>3. Paced(OwnWaiters(p)', Wakes', client[p].next, OwnDelay, clock.now, sent.own[p])
      BY <3>1, <3>2, PacedTypes, PacedLess
    <3> QED BY <1>2, <2>1, <3>3
  <2> QED BY <2>2, <2>3 DEF SendsArePaced
<1>4. CASE ~ call[c].shared
  <2>1. /\ sent'.shared = sent.shared
        /\ \A p \in Processes : sent'.own[p] = IF p = home THEN sent.own[p] + 1 ELSE sent.own[p]
    BY <1>4 DEF SendRequest, HttpTyped
  <2> HIDE DEF home
  <2>2. Paced(SharedWaiters', Wakes', slotFile'.next, Interval, clock'.now, sent'.shared)
    <3>1. \A d \in SharedWaiters' : d \in SharedWaiters /\ Wakes'[d] = Wakes[d]
      BY <1>1 DEF SharedWaiters, Wakes
    <3>2. Paced(SharedWaiters, Wakes, slotFile.next, Interval, clock.now, sent.shared)
      BY DEF SendsArePaced
    <3>3. Paced(SharedWaiters', Wakes', slotFile.next, Interval, clock.now, sent.shared)
      BY <3>1, <3>2, PacedTypes, PacedLess
    <3> QED BY <1>2, <2>1, <3>3
  <2>3. ASSUME NEW p \in Processes, p # home
        PROVE  Paced(OwnWaiters(p)', Wakes', client'[p].next, OwnDelay, clock'.now, sent'.own[p])
    <3>1. \A d \in OwnWaiters(p)' : d \in OwnWaiters(p) /\ Wakes'[d] = Wakes[d]
      BY <1>1 DEF OwnWaiters, Wakes
    <3>2. Paced(OwnWaiters(p), Wakes, client[p].next, OwnDelay, clock.now, sent.own[p])
      BY DEF SendsArePaced
    <3>3. Paced(OwnWaiters(p)', Wakes', client[p].next, OwnDelay, clock.now, sent.own[p])
      BY <3>1, <3>2, PacedTypes, PacedLess
    <3>4. sent'.own[p] = sent.own[p]
      BY <2>1, <2>3
    <3> QED BY <1>2, <3>3, <3>4
  <2>4. ASSUME NEW p \in Processes, p = home
        PROVE  Paced(OwnWaiters(p)', Wakes', client'[p].next, OwnDelay, clock'.now, sent'.own[p])
    <3>1. c \in OwnWaiters(p) /\ OwnWaiters(p)' = OwnWaiters(p) \ {c}
      BY <1>1, <1>4, <2>4 DEF OwnWaiters, home
    <3>2. Wakes[c] <= clock.now /\ \A d \in OwnWaiters(p) \ {c} : Wakes'[d] = Wakes[d]
      BY <1>1 DEF OwnWaiters, Wakes
    <3>3. Paced(OwnWaiters(p), Wakes, client[p].next, OwnDelay, clock.now, sent.own[p])
      BY DEF SendsArePaced
    <3>4. Paced(OwnWaiters(p) \ {c}, Wakes', client[p].next, OwnDelay, clock.now, sent.own[p] + 1)
      BY <3>1, <3>2, <3>3, PacedTypes, PacedSend
    <3>5. sent'.own[p] = sent.own[p] + 1
      BY <2>1, <2>4
    <3> QED BY <1>2, <3>1, <3>4, <3>5
  <2> QED BY <2>2, <2>3, <2>4 DEF SendsArePaced
<1> QED BY <1>3, <1>4

LEMMA PacedStep ==
  HttpTyped /\ LockIsHeld /\ AdviceIsTaken /\ SendsArePaced /\ [HttpNext]_httpVars => SendsArePaced'
<1> SUFFICES ASSUME HttpTyped, LockIsHeld, AdviceIsTaken, SendsArePaced, [HttpNext]_httpVars
             PROVE SendsArePaced'
  OBVIOUS
<1>0. clock.now \in Nat
  BY PacedTypes
<1>a. ASSUME NEW c \in Callers, NEW r, Becomes(c, r), r.at # "waiting", sent' = sent,
             slotFile'.next = slotFile.next, clock' = clock, client' = client
      PROVE  SendsArePaced'
  <2>1. \A d \in Callers : call'[d] = call[d] \/ call'[d].at # "waiting"
    BY <1>a DEF Becomes
  <2> QED BY <1>0, <1>a, <2>1, QuietStep
<1>1. ASSUME NEW c \in Callers, Lock(c) PROVE SendsArePaced'
  <2>1. [call[c] EXCEPT !.at = "locked", !.wake = slotFile.next].at # "waiting"
    BY PacedTypes DEF CallRecords
  <2>2. UNCHANGED <<clock, client, sent>> /\ slotFile'.next = slotFile.next
    BY <1>1 DEF Lock, HttpTyped
  <2> QED BY <1>a, <1>1, <2>1, <2>2, LockCall
<1>2. ASSUME NEW c \in Callers, ThrottleAlone(c) \/ LockFails(c) PROVE SendsArePaced'
  <2>1. /\ OwnSlot(c) /\ call[c].at # "waiting" /\ sent' = sent
        /\ slotFile'.next = slotFile.next /\ clock'.now = clock.now
    BY <1>2 DEF ThrottleAlone, LockFails, HttpFault, HttpTyped
  <2> QED BY <2>1, OwnPaced
<1>3. ASSUME NEW c \in Callers, Succeeds(c) \/ CallCancelled(c) PROVE SendsArePaced'
  <2>1. Over(c).at # "waiting" /\ UNCHANGED <<clock, slotFile, client, sent>>
    BY <1>3, OverRecord DEF Succeeds, CallCancelled
  <2> QED BY <1>a, <1>3, <2>1, OverCall
<1>4. ASSUME NEW c \in Callers, BackoffEnds(c) PROVE SendsArePaced'
  <2>1. [call[c] EXCEPT !.at = "throttle", !.wake = 0, !.advised = -1].at # "waiting"
    BY PacedTypes DEF CallRecords
  <2>2. UNCHANGED <<clock, slotFile, client, sent>>
    BY <1>4 DEF BackoffEnds
  <2> QED BY <1>a, <1>4, <2>1, <2>2, BackoffCall
<1>5. ASSUME NEW c \in Callers, NEW a \in Answers, a.outcome = "transport" => a.advised = -1,
             Fails(c, a.outcome, a.advised)
      PROVE  SendsArePaced'
  <2>1. UNCHANGED <<clock, slotFile, client, sent>>
    BY <1>5 DEF Fails
  <2>2. CASE Becomes(c, Over(c))
    BY <1>a, <2>1, <2>2, OverRecord
  <2>3. CASE ~ Becomes(c, Over(c))
    <3>1. PICK attempt \in 0 .. HttpRetries, wake \in Int, floor \in Int :
            Becomes(c, [call[c] EXCEPT !.at = "backoff", !.attempt = attempt, !.wake = wake,
                                       !.advised = a.advised, !.floor = floor])
      BY <1>5, <2>3, FailsCall
    <3>2. [call[c] EXCEPT !.at = "backoff", !.attempt = attempt, !.wake = wake,
                          !.advised = a.advised, !.floor = floor].at # "waiting"
      BY PacedTypes DEF CallRecords
    <3> QED BY <1>a, <2>1, <3>1, <3>2
  <2> QED BY <2>2, <2>3
<1>6. ASSUME NEW p \in Processes, ProcessKilled(p) PROVE SendsArePaced'
  <2>1. sent' = sent /\ client' = client /\ clock'.now = clock.now
    BY <1>6 DEF ProcessKilled, HttpFault, HttpTyped
  <2>2. \A c \in Callers : call'[c] = call[c] \/ call'[c].at # "waiting"
    BY <1>6, KilledCalls, OverRecord
  <2>3. slotFile'.next = slotFile.next
    BY <1>6, KilledCalls
  <2> QED BY <1>0, <2>1, <2>2, <2>3, QuietStep
<1>7. CASE HttpTick
  <2>1. UNCHANGED <<slotFile, client, call, sent>> /\ clock'.now = clock.now + 1
    BY <1>7 DEF HttpTick, HttpTyped
  <2> QED BY <1>0, <2>1, QuietStep
<1>8. CASE UNCHANGED httpVars
  BY <1>0, <1>8, QuietStep DEF httpVars
<1> QED BY <1>1, <1>2, <1>3, <1>4, <1>5, <1>6, <1>7, <1>8, StampPaced, SendPaced, HttpSteps

(* ------------------------------ the theorems ------------------------------ *)
LEMMA HttpInvInit == HttpInit => HttpInv
<1> SUFFICES ASSUME HttpInit PROVE HttpInv
  OBVIOUS
<1>0. /\ HttpRetries \in Nat /\ HttpFaults \in Nat /\ LastTick \in Nat
      /\ Homes \subseteq [Callers -> Processes] /\ NoCaller \notin Callers
  BY HttpAssumption
<1>1. PICK home \in Homes, cc \in [Callers -> BOOLEAN] :
        call = [c \in Callers |-> [at |-> "throttle", home |-> home[c], cc |-> cc[c], attempt |-> 0,
                                   wake |-> 0, shared |-> FALSE, advised |-> -1, floor |-> 0]]
  BY DEF HttpInit
<1>2. \A c \in Callers : home[c] \in Processes /\ cc[c] \in BOOLEAN
  BY <1>0
<1>3. \A c \in Callers : [at |-> "throttle", home |-> home[c], cc |-> cc[c], attempt |-> 0,
                           wake |-> 0, shared |-> FALSE, advised |-> -1, floor |-> 0] \in CallRecords
  BY <1>2, ZeroRecord DEF CallRecords
<1>4. call \in [Callers -> CallRecords]
  BY <1>1, <1>3
<1>5. \A c \in Callers : call[c].at = "throttle" /\ call[c].advised = -1 /\ call[c].floor = 0
  BY <1>1
<1>6. /\ client \in [Processes -> [shut : BOOLEAN, next : Nat]]
      /\ \A p \in Processes : client[p].next = 0
  BY DEF HttpInit
<1>7. /\ clock \in [now : 0..LastTick, faults : Nat] /\ clock.now = 0
      /\ slotFile \in [next : Nat, granted : Nat, holder : Callers \cup {NoCaller}]
      /\ slotFile.next = 0 /\ slotFile.granted = 0 /\ slotFile.holder = NoCaller
      /\ grants = {}
  BY <1>0 DEF HttpInit
<1>8. /\ sent \in [shared : Nat, own : [Processes -> Nat]]
      /\ sent.shared = 0 /\ \A p \in Processes : sent.own[p] = 0
  BY DEF HttpInit
<1>9. HttpTyped
  BY <1>4, <1>6, <1>7, <1>8 DEF HttpTyped
<1>10. LockIsHeld
  BY <1>0, <1>5, <1>7 DEF LockIsHeld
<1>11. SlotsBehind
  BY <1>7, FS_EmptySet DEF SlotsBehind, SlotsApart
<1>12. \A next, gap : Paced({}, Wakes, next, gap, 0, 0)
  <2>1. {} \in SUBSET (0 .. 0) /\ Cardinality({}) = 0
    BY FS_EmptySet
  <2> QED BY <2>1 DEF Paced
<1>13. SharedWaiters = {} /\ \A p \in Processes : OwnWaiters(p) = {}
  BY <1>5 DEF SharedWaiters, OwnWaiters
<1>14. SendsArePaced
  BY <1>7, <1>8, <1>12, <1>13 DEF SendsArePaced
<1>15. AdviceIsTaken
  BY <1>5, <1>7 DEF AdviceIsTaken
<1> QED BY <1>9, <1>10, <1>11, <1>14, <1>15 DEF HttpInv

(* The invariant of the polite client holds of every run: the file of slots is *)
(* stamped by its holder alone, slots and delays keep their distance, and the   *)
(* advice of an answer is for one wait.                                        *)
THEOREM HttpInductive == HttpSpec => []HttpInv
<1>1. HttpInit => HttpInv
  BY HttpInvInit
<1>2. HttpInv /\ [HttpNext]_httpVars => HttpInv'
  BY HttpTypedStep, LockIsHeldStep, SlotsStep, PacedStep, AdviceStep DEF HttpInv
<1> QED BY <1>1, <1>2, PTL DEF HttpSpec

LEMMA PacedIsPolite == HttpInv => RequestsArePolite
<1> SUFFICES ASSUME HttpInv PROVE RequestsArePolite
  OBVIOUS
<1>1. HttpTyped /\ SlotsBehind /\ SendsArePaced /\ AdviceIsTaken
  BY DEF HttpInv
<1>2. HttpTypeOK
  BY <1>1 DEF HttpTyped, HttpTypeOK, CallRecords
<1>3. sent.shared <= 1 + clock.now \div Interval
  <2>1. Paced(SharedWaiters, Wakes, slotFile.next, Interval, clock.now, sent.shared)
    BY <1>1 DEF SendsArePaced
  <2> QED BY <1>1, <2>1, PacedTypes, PacedCount
<1>4. ASSUME NEW p \in Processes PROVE sent.own[p] <= 1 + clock.now \div OwnDelay
  <2>1. Paced(OwnWaiters(p), Wakes, client[p].next, OwnDelay, clock.now, sent.own[p])
    BY <1>1 DEF SendsArePaced
  <2> QED BY <1>1, <2>1, PacedTypes, PacedCount
<1>5. AdviceHeld
  <2>1. \A c \in Callers : call[c].floor \in Int
    BY <1>1, PacedTypes DEF CallRecords
  <2>2. clock.now \in Int
    BY <1>1, PacedTypes
  <2> QED BY <1>1, <2>1, <2>2 DEF AdviceHeld, AdviceIsTaken
<1> QED BY <1>1, <1>2, <1>3, <1>4, <1>5 DEF RequestsArePolite, RateHeld, SlotsBehind

(* For any number of processes, callers, retries, kills and cancelled waits: no *)
(* two slots of the shared file are less than an interval apart, neither the    *)
(* processes together nor one of them alone exceed their rate, and no request   *)
(* goes out before the answer to the attempt before it allows.                 *)
THEOREM RequestsStayPolite == HttpSpec => []RequestsArePolite
BY HttpInductive, PacedIsPolite, PTL

-----------------------------------------------------------------------------
(* Names: for any number of dialers and resolvers, a name is written off only *)
(* when every resolver said that it is gone, and nobody asks for what is      *)
(* known (LookupsAreSound).                                                   *)
\* The states of a dialer, and of the counters.
DialStates ==
  [at : {"idle", "queued", "again", "racing", "resolved", "unresolved"}, host : Names,
   asked : SUBSET Resolvers, allNX : BOOLEAN, left : Int]
TallyState == [hits : Nat, lookups : Nat, failed : Nat, nx : Nat, dropped : Nat]

\* The dialers whose lookup is open.
Racing == {d \in Dialers : dial[d].at = "racing"}

\* A race that has only heard that the name is gone has heard it from all but those it
\* still asks; a name that has an address is known to somebody.
ResolverInv ==
  /\ knownBy \in [Names -> SUBSET Resolvers]
  /\ names \in [cache : SUBSET Names, dead : SUBSET Names]
  /\ dial \in [Dialers -> DialStates] /\ tally \in TallyState
  /\ slots \subseteq Dialers /\ IsFiniteSet(slots) /\ Cardinality(slots) <= MaxLookups
  /\ \A d \in Dialers : dial[d].at \in {"again", "racing"} => d \in slots
  /\ \A d \in Racing : dial[d].allNX =>
       \A r \in Resolvers \ dial[d].asked : r \notin knownBy[dial[d].host]
  /\ \A host \in names.dead : knownBy[host] = {}
  /\ \A host \in names.cache : knownBy[host] # {}
  /\ tally.failed + Cardinality(Racing) <= tally.lookups
  /\ tally.nx <= tally.failed

\* A race holds a slot, so that there are no more than slots.
LEMMA RacesAreFinite ==
  ASSUME ResolverInv
  PROVE  Racing \subseteq slots /\ IsFiniteSet(Racing) /\ Cardinality(Racing) \in Nat
         /\ Cardinality(Racing) <= Cardinality(slots)
<1>1. Racing \subseteq slots /\ IsFiniteSet(slots)
  BY DEF ResolverInv, Racing
<1> QED BY <1>1, FS_Subset, FS_CardinalityType

LEMMA ResolverInvInit ==
  ASSUME ResolverInit
  PROVE  ResolverInv
<1>1. PICK host \in Names : dial = [d \in Dialers |-> [at |-> "idle", host |-> host, asked |-> {}, allNX |-> TRUE, left |-> Dials]]
  BY DEF ResolverInit
<1>2. dial \in [Dialers -> DialStates] /\ \A d \in Dialers : dial[d].at = "idle"
  BY <1>1, ResolverAssumption DEF DialStates
<1>3. Racing = {}
  BY <1>2 DEF Racing
<1>4. Cardinality({}) = 0 /\ IsFiniteSet({})
  BY FS_EmptySet
<1>5. tally \in TallyState /\ tally.failed = 0 /\ tally.lookups = 0 /\ tally.nx = 0
  BY DEF ResolverInit, TallyState
<1>6. Cardinality(Racing) = 0
  BY <1>3, <1>4
<1>7. names = [cache |-> {}, dead |-> {}] /\ slots = {} /\ knownBy \in [Names -> SUBSET Resolvers]
  BY ResolverAssumption DEF ResolverInit
<1>8. Cardinality(slots) = 0 /\ IsFiniteSet(slots)
  BY <1>4, <1>7
<1>9. tally.failed + Cardinality(Racing) <= tally.lookups /\ tally.nx <= tally.failed
  BY <1>5, <1>6
<1>10. names \in [cache : SUBSET Names, dead : SUBSET Names] /\ names.dead = {} /\ names.cache = {}
  BY <1>7
<1> QED BY <1>2, <1>3, <1>5, <1>7, <1>8, <1>9, <1>10, ResolverAssumption DEF ResolverInv

\* One dialer moves: what the others do stays.
Moves(d, state) == dial' = [dial EXCEPT ![d] = state]

\* How many race changes with the one dialer that moves.
LEMMA RacingChanges ==
  ASSUME ResolverInv, NEW d \in Dialers, NEW state \in DialStates, Moves(d, state)
  PROVE  /\ dial' \in [Dialers -> DialStates] /\ dial'[d] = state
         /\ \A e \in Dialers : e # d => dial'[e] = dial[e]
         /\ IsFiniteSet(Racing') /\ Cardinality(Racing') \in Nat
         /\ Cardinality(Racing') + (IF d \in Racing THEN 1 ELSE 0)
              = Cardinality(Racing) + (IF state.at = "racing" THEN 1 ELSE 0)
<1>1. /\ dial' \in [Dialers -> DialStates] /\ dial'[d] = state
      /\ \A e \in Dialers : e # d => dial'[e] = dial[e]
  BY DEF ResolverInv, Moves
<1>2. Racing' = IF state.at = "racing" THEN Racing \union {d} ELSE Racing \ {d}
  BY <1>1 DEF Racing
<1>3. IsFiniteSet(Racing) /\ Cardinality(Racing) \in Nat
  BY RacesAreFinite
<1>4. CASE state.at = "racing"
  <2>1. Racing' = Racing \union {d}
    BY <1>2, <1>4
  <2>2. IsFiniteSet(Racing \union {d}) /\ Cardinality(Racing \union {d}) =
          IF d \in Racing THEN Cardinality(Racing) ELSE Cardinality(Racing) + 1
    BY <1>3, FS_AddElement
  <2> QED BY <1>1, <1>3, <1>4, <2>1, <2>2
<1>5. CASE state.at # "racing"
  <2>1. Racing' = Racing \ {d}
    BY <1>2, <1>5
  <2>2. IsFiniteSet(Racing \ {d}) /\ Cardinality(Racing \ {d}) =
          IF d \in Racing THEN Cardinality(Racing) - 1 ELSE Cardinality(Racing)
    BY <1>3, FS_RemoveElement
  <2>3. d \in Racing => Cardinality(Racing) > 0
    BY <1>3, FS_EmptySet
  <2> QED BY <1>1, <1>3, <1>5, <2>1, <2>2, <2>3
<1> QED BY <1>4, <1>5

\* A step that leaves the races alone.
LEMMA NoRaceTouched ==
  ASSUME ResolverInv, NEW d \in Dialers, NEW state \in DialStates, Moves(d, state),
         dial[d].at # "racing", state.at # "racing",
         state.at = "again" => d \in slots',
         knownBy' = knownBy, names' = names,
         slots' \subseteq Dialers, slots \ {d} \subseteq slots',
         IsFiniteSet(slots'), Cardinality(slots') <= MaxLookups,
         tally' \in TallyState, tally'.failed = tally.failed, tally'.lookups = tally.lookups,
         tally'.nx = tally.nx
  PROVE  ResolverInv'
<1>1. /\ dial' \in [Dialers -> DialStates] /\ dial'[d] = state
      /\ \A e \in Dialers : e # d => dial'[e] = dial[e]
  BY RacingChanges
<1>2. Racing' = Racing
  BY <1>1 DEF Racing
<1>3. Cardinality(Racing') = Cardinality(Racing)
  BY <1>2, Zenon
<1>4. \A e \in Racing' : e # d /\ dial'[e] = dial[e] /\ e \in Racing
  BY <1>1, <1>2 DEF Racing
<1>5. \A e \in Dialers : dial'[e].at \in {"again", "racing"} => e \in slots'
  BY <1>1 DEF ResolverInv
<1>6. tally'.failed + Cardinality(Racing') <= tally'.lookups /\ tally'.nx <= tally'.failed
  BY <1>3 DEF ResolverInv
<1>7. \A e \in Racing' : dial'[e].allNX =>
        \A r \in Resolvers \ dial'[e].asked : r \notin knownBy[dial'[e].host]
  BY <1>4 DEF ResolverInv
<1> QED BY <1>1, <1>5, <1>6, <1>7 DEF ResolverInv

LEMMA LookupKeeps ==
  ASSUME ResolverInv, NEW d \in Dialers,
         (\E host \in Names : Lookup(d, host)) \/ TakeSlot(d) \/ GiveUp(d) \/ Dial(d)
  PROVE  ResolverInv'
<1>0. tally \in TallyState /\ dial \in [Dialers -> DialStates] /\ slots \subseteq Dialers
      /\ IsFiniteSet(slots) /\ Cardinality(slots) <= MaxLookups /\ Cardinality(slots) \in Nat
  BY FS_CardinalityType DEF ResolverInv
<1>1. ASSUME NEW host \in Names, Lookup(d, host) PROVE ResolverInv'
  <2> DEFINE place == IF KnownName(host) THEN Verdict(host) ELSE "queued"
             state == [dial[d] EXCEPT !.host = host, !.left = @ - 1, !.at = place]
  <2>1. Moves(d, state) /\ knownBy' = knownBy /\ names' = names /\ slots' = slots
        /\ dial[d].at = "idle"
    BY <1>0, <1>1 DEF Lookup, Moves
  <2>2. place \in {"resolved", "unresolved", "queued"}
    BY DEF Verdict
  <2> HIDE DEF place
  <2>3. state \in DialStates /\ state.at = place
    <3>a. dial[d] \in DialStates /\ dial[d].left - 1 \in Int
      BY DEF ResolverInv, DialStates
    <3> QED BY <2>2, <3>a DEF DialStates
  <2>4. tally' \in TallyState /\ tally'.failed = tally.failed /\ tally'.lookups = tally.lookups
        /\ tally'.nx = tally.nx
    <3>1. tally.hits + 1 \in Nat
      BY <1>0 DEF TallyState
    <3>2. tally' = tally \/ tally' = [tally EXCEPT !.hits = @ + 1]
      BY <1>1 DEF Lookup
    <3> QED BY <1>0, <3>1, <3>2 DEF TallyState
  <2> HIDE DEF state
  <2> QED BY <1>0, <2>1, <2>2, <2>3, <2>4, NoRaceTouched
<1>2. CASE TakeSlot(d)
  <2> DEFINE state == [dial[d] EXCEPT !.at = "again"]
  <2>1. Moves(d, state) /\ knownBy' = knownBy /\ names' = names /\ slots' = slots \union {d}
        /\ dial[d].at = "queued" /\ tally' = tally /\ Cardinality(slots) < MaxLookups
    BY <1>0, <1>2 DEF TakeSlot, Moves
  <2>2. state \in DialStates /\ state.at = "again"
    <3>a. dial[d] \in DialStates /\ dial[d].left - 1 \in Int
      BY DEF ResolverInv, DialStates
    <3> QED BY <3>a DEF DialStates
  <2>3. IsFiniteSet(slots \union {d}) /\ Cardinality(slots \union {d}) <= Cardinality(slots) + 1
        /\ Cardinality(slots \union {d}) \in Nat
    <3>1. IsFiniteSet(slots \union {d}) /\ Cardinality(slots \union {d}) =
            IF d \in slots THEN Cardinality(slots) ELSE Cardinality(slots) + 1
      BY <1>0, FS_AddElement
    <3> QED BY <1>0, <3>1
  <2>4. IsFiniteSet(slots') /\ Cardinality(slots') <= MaxLookups
    BY <1>0, <2>1, <2>3, ResolverAssumption
  <2> HIDE DEF state
  <2> QED BY <1>0, <2>1, <2>2, <2>4, NoRaceTouched
<1>3. CASE GiveUp(d)
  <2> DEFINE state == [dial[d] EXCEPT !.at = "unresolved"]
  <2>1. Moves(d, state) /\ knownBy' = knownBy /\ names' = names /\ slots' = slots
        /\ dial[d].at = "queued" /\ tally' = [tally EXCEPT !.dropped = @ + 1]
    BY <1>0, <1>3 DEF GiveUp, Moves
  <2>2. state \in DialStates /\ state.at = "unresolved"
    <3>a. dial[d] \in DialStates /\ dial[d].left - 1 \in Int
      BY DEF ResolverInv, DialStates
    <3> QED BY <3>a DEF DialStates
  <2>3. tally' \in TallyState /\ tally'.failed = tally.failed /\ tally'.lookups = tally.lookups
        /\ tally'.nx = tally.nx
    <3>1. tally.dropped + 1 \in Nat
      BY <1>0 DEF TallyState
    <3> QED BY <1>0, <2>1, <3>1 DEF TallyState
  <2> HIDE DEF state
  <2> QED BY <1>0, <2>1, <2>2, <2>3, NoRaceTouched
<1>4. CASE Dial(d)
  <2> DEFINE state == [dial[d] EXCEPT !.at = "idle"]
  <2>1. Moves(d, state) /\ knownBy' = knownBy /\ names' = names /\ slots' = slots
        /\ dial[d].at # "racing" /\ tally' = tally
    BY <1>0, <1>4 DEF Dial, Moves
  <2>2. state \in DialStates /\ state.at = "idle"
    <3>a. dial[d] \in DialStates /\ dial[d].left - 1 \in Int
      BY DEF ResolverInv, DialStates
    <3> QED BY <3>a DEF DialStates
  <2> HIDE DEF state
  <2> QED BY <1>0, <2>1, <2>2, NoRaceTouched
<1> QED BY <1>1, <1>2, <1>3, <1>4

\* A race begins, for a name that nobody had answered.
LEMMA LookAgainKeeps ==
  ASSUME ResolverInv, NEW d \in Dialers, LookAgain(d)
  PROVE  ResolverInv'
<1>0. tally \in TallyState /\ dial \in [Dialers -> DialStates] /\ slots \subseteq Dialers
      /\ IsFiniteSet(slots) /\ Cardinality(slots) <= MaxLookups /\ Cardinality(slots) \in Nat
      /\ d \in slots /\ MaxLookups \in Nat
  BY FS_CardinalityType, ResolverAssumption DEF ResolverInv, LookAgain
<1>1. CASE KnownName(dial[d].host)
  <2> DEFINE state == [dial[d] EXCEPT !.at = Verdict(dial[d].host)]
  <2>1. Moves(d, state) /\ knownBy' = knownBy /\ names' = names /\ slots' = slots \ {d}
        /\ dial[d].at = "again" /\ tally' = [tally EXCEPT !.hits = @ + 1]
    BY <1>0, <1>1 DEF LookAgain, Moves
  <2>2. state \in DialStates /\ state.at \in {"resolved", "unresolved"}
    <3>1. Verdict(dial[d].host) \in {"resolved", "unresolved"}
      BY DEF Verdict
    <3>2. dial[d] \in DialStates
      BY DEF ResolverInv
    <3> QED BY <3>1, <3>2 DEF DialStates
  <2>3. tally' \in TallyState /\ tally'.failed = tally.failed /\ tally'.lookups = tally.lookups
        /\ tally'.nx = tally.nx
    <3>1. tally.hits + 1 \in Nat
      BY <1>0 DEF TallyState
    <3> QED BY <1>0, <2>1, <3>1 DEF TallyState
  <2>4. IsFiniteSet(slots \ {d}) /\ Cardinality(slots \ {d}) = Cardinality(slots) - 1
    BY <1>0, FS_RemoveElement
  <2>5. IsFiniteSet(slots') /\ Cardinality(slots') <= MaxLookups
    BY <1>0, <2>1, <2>4
  <2> HIDE DEF state
  <2> QED BY <1>0, <2>1, <2>2, <2>3, <2>5, NoRaceTouched
<1>2. CASE ~KnownName(dial[d].host)
  <2> DEFINE state == [dial[d] EXCEPT !.at = "racing", !.asked = Resolvers, !.allNX = TRUE]
  <2>1. Moves(d, state) /\ knownBy' = knownBy /\ names' = names /\ slots' = slots
        /\ dial[d].at = "again" /\ tally' = [tally EXCEPT !.lookups = @ + 1]
    BY <1>0, <1>2 DEF LookAgain, Moves
  <2>2. state \in DialStates /\ state.at = "racing" /\ state.asked = Resolvers
    <3>a. dial[d] \in DialStates /\ dial[d].left - 1 \in Int
      BY DEF ResolverInv, DialStates
    <3> QED BY <3>a DEF DialStates
  <2>3. tally' \in TallyState /\ tally'.failed = tally.failed /\ tally'.lookups = tally.lookups + 1
        /\ tally'.nx = tally.nx
    <3>1. tally.lookups + 1 \in Nat
      BY <1>0 DEF TallyState
    <3> QED BY <1>0, <2>1, <3>1 DEF TallyState
  <2> HIDE DEF state
  <2>4. /\ dial' \in [Dialers -> DialStates] /\ dial'[d] = state
        /\ \A e \in Dialers : e # d => dial'[e] = dial[e]
        /\ Cardinality(Racing') + (IF d \in Racing THEN 1 ELSE 0)
              = Cardinality(Racing) + (IF state.at = "racing" THEN 1 ELSE 0)
        /\ Cardinality(Racing') \in Nat
    BY <2>1, <2>2, RacingChanges
  <2>5. Cardinality(Racing') = Cardinality(Racing) + 1 /\ Cardinality(Racing) \in Nat
    BY <2>1, <2>2, <2>4, RacesAreFinite DEF Racing
  <2>6. tally'.failed + Cardinality(Racing') <= tally'.lookups /\ tally'.nx <= tally'.failed
    BY <1>0, <2>3, <2>5 DEF ResolverInv, TallyState
  <2>7. \A e \in Racing' : dial'[e].allNX =>
          \A r \in Resolvers \ dial'[e].asked : r \notin knownBy[dial'[e].host]
    BY <2>2, <2>4 DEF ResolverInv, Racing
  <2>8. \A e \in Dialers : dial'[e].at \in {"again", "racing"} => e \in slots
    BY <1>0, <2>4 DEF ResolverInv
  <2> QED BY <1>0, <2>1, <2>3, <2>4, <2>6, <2>7, <2>8 DEF ResolverInv
<1> QED BY <1>1, <1>2

\* A race ends, and gives its slot back.
LEMMA RaceEnds ==
  ASSUME ResolverInv, NEW d \in Dialers, NEW state \in DialStates, Moves(d, state),
         dial[d].at = "racing", state.at \in {"resolved", "unresolved"},
         knownBy' = knownBy, slots' = slots \ {d},
         names' \in [cache : SUBSET Names, dead : SUBSET Names],
         \A host \in names'.dead : knownBy[host] = {},
         \A host \in names'.cache : knownBy[host] # {},
         tally' \in TallyState, tally'.lookups = tally.lookups, tally'.failed <= tally.failed + 1,
         tally'.nx <= tally'.failed
  PROVE  ResolverInv'
<1>0. tally \in TallyState /\ slots \subseteq Dialers
      /\ IsFiniteSet(slots) /\ Cardinality(slots) <= MaxLookups /\ Cardinality(slots) \in Nat
      /\ d \in slots /\ MaxLookups \in Nat /\ d \in Racing
  BY FS_CardinalityType, ResolverAssumption DEF ResolverInv, Racing
<1>1. /\ dial' \in [Dialers -> DialStates] /\ dial'[d] = state
      /\ \A e \in Dialers : e # d => dial'[e] = dial[e]
      /\ Cardinality(Racing') + (IF d \in Racing THEN 1 ELSE 0)
            = Cardinality(Racing) + (IF state.at = "racing" THEN 1 ELSE 0)
      /\ Cardinality(Racing') \in Nat
  BY RacingChanges
<1>2. Cardinality(Racing') + 1 = Cardinality(Racing) /\ Cardinality(Racing) \in Nat
  BY <1>0, <1>1, RacesAreFinite
<1>3. tally'.failed + Cardinality(Racing') <= tally'.lookups
  BY <1>0, <1>1, <1>2 DEF ResolverInv, TallyState
<1>4. IsFiniteSet(slots \ {d}) /\ Cardinality(slots \ {d}) = Cardinality(slots) - 1
  BY <1>0, FS_RemoveElement
<1>5. IsFiniteSet(slots') /\ Cardinality(slots') <= MaxLookups
  BY <1>0, <1>4
<1>6. \A e \in Racing' : dial'[e].allNX =>
        \A r \in Resolvers \ dial'[e].asked : r \notin knownBy[dial'[e].host]
  BY <1>1 DEF ResolverInv, Racing
<1>7. \A e \in Dialers : dial'[e].at \in {"again", "racing"} => e \in slots'
  BY <1>1 DEF ResolverInv
<1> QED BY <1>0, <1>1, <1>3, <1>5, <1>6, <1>7 DEF ResolverInv

\* An answer with addresses makes the name a known one.
LEMMA AddressesKeep ==
  ASSUME ResolverInv, NEW d \in Dialers, NEW r \in Resolvers, Addresses(d, r)
  PROVE  ResolverInv'
<1> DEFINE state == [dial[d] EXCEPT !.at = "resolved", !.asked = {}]
<1>1. /\ Moves(d, state) /\ knownBy' = knownBy /\ slots' = slots \ {d} /\ tally' = tally
      /\ dial[d].at = "racing" /\ r \in knownBy[dial[d].host]
      /\ names' = [names EXCEPT !.cache = @ \union {dial[d].host}]
  BY DEF Addresses, Moves, ResolverInv
<1>2. state \in DialStates /\ state.at = "resolved" /\ dial[d].host \in Names
  <2>a. dial[d] \in DialStates /\ dial[d].left - 1 \in Int
    BY DEF ResolverInv, DialStates
  <2> QED BY <2>a DEF DialStates
<1> HIDE DEF state
<1>3. /\ names' \in [cache : SUBSET Names, dead : SUBSET Names]
      /\ names'.dead = names.dead /\ names'.cache = names.cache \union {dial[d].host}
  BY <1>1, <1>2 DEF ResolverInv
<1>4. /\ \A host \in names'.dead : knownBy[host] = {}
      /\ \A host \in names'.cache : knownBy[host] # {}
  BY <1>1, <1>3 DEF ResolverInv
<1>5. tally \in TallyState /\ tally.failed <= tally.failed + 1 /\ tally.nx <= tally.failed
  BY DEF ResolverInv, TallyState
<1> QED BY <1>1, <1>2, <1>3, <1>4, <1>5, RaceEnds

\* An answer without them ends the race only when it is the last, and makes the name a dead
\* one only when all of them were that it is gone.
LEMMA NoAddressKeeps ==
  ASSUME ResolverInv, NEW d \in Dialers, NEW r \in Resolvers, NEW nx \in BOOLEAN,
         NoAddress(d, r, nx)
  PROVE  ResolverInv'
<1>0. /\ tally \in TallyState /\ dial[d].at = "racing" /\ d \in Racing /\ knownBy' = knownBy
      /\ r \in dial[d].asked /\ (nx => r \notin knownBy[dial[d].host])
      /\ dial[d] \in DialStates /\ dial[d].host \in Names /\ names \in [cache : SUBSET Names, dead : SUBSET Names]
  BY DEF ResolverInv, NoAddress, Racing, DialStates
<1>1. CASE dial[d].asked # {r}
  <2> DEFINE state == [dial[d] EXCEPT !.asked = @ \ {r}, !.allNX = @ /\ nx]
  <2>1. Moves(d, state) /\ names' = names /\ slots' = slots /\ tally' = tally
    BY <1>0, <1>1 DEF NoAddress, Moves, ResolverInv
  <2>2. /\ state \in DialStates /\ state.at = "racing" /\ state.host = dial[d].host
        /\ state.asked = dial[d].asked \ {r} /\ (state.allNX => dial[d].allNX /\ nx)
    BY <1>0 DEF DialStates
  <2> HIDE DEF state
  <2>3. /\ dial' \in [Dialers -> DialStates] /\ dial'[d] = state
        /\ \A e \in Dialers : e # d => dial'[e] = dial[e]
    BY <2>1, <2>2, RacingChanges
  <2>4. Racing' = Racing
    BY <1>0, <2>2, <2>3 DEF Racing
  <2>5. Cardinality(Racing') = Cardinality(Racing)
    BY <2>4, Zenon
  <2>6. ASSUME NEW e \in Racing', dial'[e].allNX, NEW x \in Resolvers \ dial'[e].asked
        PROVE  x \notin knownBy[dial'[e].host]
    <3>1. CASE e # d
      <4>1. e \in Racing /\ dial'[e] = dial[e]
        BY <2>3, <2>4, <2>6, <3>1 DEF Racing
      <4>2. dial[e].allNX /\ x \in Resolvers \ dial[e].asked
        BY <2>6, <4>1
      <4>3. x \notin knownBy[dial[e].host]
        BY <4>1, <4>2 DEF ResolverInv
      <4> QED BY <4>1, <4>3
    <3>2. CASE e = d
      <4>1. dial[d].allNX /\ nx /\ (x = r \/ x \in Resolvers \ dial[d].asked)
        BY <2>2, <2>3, <2>6, <3>2
      <4> QED BY <1>0, <2>2, <2>3, <3>2, <4>1 DEF ResolverInv
    <3> QED BY <3>1, <3>2
  <2>7. \A e \in Dialers : dial'[e].at \in {"again", "racing"} => e \in slots
    BY <1>0, <2>3 DEF ResolverInv
  <2>8. tally'.failed + Cardinality(Racing') <= tally'.lookups
    BY <2>1, <2>5 DEF ResolverInv
  <2> QED BY <1>0, <2>1, <2>3, <2>6, <2>7, <2>8 DEF ResolverInv
<1>2. CASE dial[d].asked = {r}
  <2> DEFINE state == [dial[d] EXCEPT !.at = "unresolved", !.asked = {}]
             gone == Gone(d, nx)
  <2>1. /\ Moves(d, state) /\ slots' = slots \ {d}
        /\ names' = IF gone THEN [names EXCEPT !.dead = @ \union {dial[d].host}] ELSE names
        /\ tally' = [tally EXCEPT !.failed = @ + 1, !.nx = @ + (IF gone THEN 1 ELSE 0)]
    BY <1>0, <1>2 DEF NoAddress, Moves, ResolverInv
  <2>2. state \in DialStates /\ state.at = "unresolved"
    <3>a. dial[d] \in DialStates /\ dial[d].left - 1 \in Int
      BY DEF ResolverInv, DialStates
    <3> QED BY <3>a DEF DialStates
  <2>3. gone => knownBy[dial[d].host] = {}
    <3>1. gone => dial[d].allNX /\ nx
      BY DEF Gone
    <3>2. knownBy[dial[d].host] \subseteq Resolvers
      BY <1>0 DEF ResolverInv
    <3>3. gone => \A x \in Resolvers : x \notin knownBy[dial[d].host]
      BY <1>0, <1>2, <3>1 DEF ResolverInv
    <3> QED BY <3>2, <3>3
  <2> HIDE DEF state, gone
  <2>4. /\ names' \in [cache : SUBSET Names, dead : SUBSET Names]
        /\ names'.cache = names.cache
        /\ names'.dead = IF gone THEN names.dead \union {dial[d].host} ELSE names.dead
    BY <1>0, <2>1
  <2>5. /\ \A host \in names'.dead : knownBy[host] = {}
        /\ \A host \in names'.cache : knownBy[host] # {}
    BY <2>3, <2>4 DEF ResolverInv
  <2>6. tally.failed + 1 \in Nat /\ tally.nx + (IF gone THEN 1 ELSE 0) \in Nat
        /\ tally.nx <= tally.failed
    BY <1>0 DEF TallyState, ResolverInv
  <2>7. /\ tally' \in TallyState /\ tally'.lookups = tally.lookups /\ tally'.failed = tally.failed + 1
        /\ tally'.nx = tally.nx + (IF gone THEN 1 ELSE 0)
    BY <1>0, <2>1, <2>6 DEF TallyState
  <2>8. tally'.failed <= tally.failed + 1 /\ tally'.nx <= tally'.failed
    BY <1>0, <2>6, <2>7 DEF TallyState
  <2> QED BY <1>0, <2>1, <2>2, <2>4, <2>5, <2>7, <2>8, RaceEnds
<1> QED BY <1>1, <1>2

\* Every step keeps the invariant, and none asks what is known.
LEMMA ResolverInvNext ==
  ASSUME ResolverInv, [ResolverNext]_resolverVars
  PROVE  ResolverInv' /\ AnsweredIsNotAsked
<1>1. CASE UNCHANGED resolverVars
  BY <1>1 DEF resolverVars, ResolverInv, Racing, AnsweredIsNotAsked
<1>2. CASE ResolverNext
  <2>1. PICK d \in Dialers :
          \/ \E host \in Names : Lookup(d, host)
          \/ TakeSlot(d) \/ GiveUp(d) \/ LookAgain(d) \/ Dial(d)
          \/ \E r \in Resolvers : Addresses(d, r) \/ NoAddress(d, r, TRUE) \/ NoAddress(d, r, FALSE)
    BY <1>2 DEF ResolverNext
  <2>2. ResolverInv'
    BY <2>1, LookupKeeps, LookAgainKeeps, AddressesKeep, NoAddressKeeps
  <2>3. ASSUME NEW e \in Dialers, dial[e].at # "racing", dial'[e].at = "racing"
        PROVE  ~KnownName(dial[e].host)
    <3>0. dial \in [Dialers -> DialStates] /\ dial[d] \in DialStates
      BY DEF ResolverInv
    <3>1. CASE \E host \in Names : Lookup(d, host)
      <4>1. \A host : Verdict(host) # "racing"
        BY DEF Verdict
      <4> QED BY <2>3, <3>0, <3>1, <4>1 DEF Lookup, DialStates
    <3>2. CASE TakeSlot(d) \/ GiveUp(d) \/ Dial(d)
      BY <2>3, <3>0, <3>2 DEF TakeSlot, GiveUp, Dial, DialStates
    <3>3. CASE LookAgain(d)
      <4>1. Verdict(dial[d].host) # "racing"
        BY DEF Verdict
      <4> QED BY <2>3, <3>0, <3>3, <4>1 DEF LookAgain, DialStates
    <3>4. CASE \E r \in Resolvers : Addresses(d, r) \/ NoAddress(d, r, TRUE) \/ NoAddress(d, r, FALSE)
      <4>1. PICK state : dial[d].at = "racing" /\ dial' = [dial EXCEPT ![d] = state]
        BY <3>0, <3>4 DEF Addresses, NoAddress
      <4> QED BY <2>3, <3>0, <4>1
    <3> QED BY <2>1, <3>1, <3>2, <3>3, <3>4
  <2> QED BY <2>2, <2>3 DEF AnsweredIsNotAsked
<1> QED BY <1>1, <1>2

\* The invariant says what is asked of a state.
LEMMA ResolverInvIsEnough ==
  ASSUME ResolverInv
  PROVE  ResolverTypeOK /\ DeadIsGone /\ LookupsBounded
<1>1. Cardinality(Racing) \in Nat /\ Cardinality(Racing) <= Cardinality(slots)
      /\ Cardinality(slots) \in Nat
  BY RacesAreFinite, FS_CardinalityType DEF ResolverInv
<1>2. Cardinality({d \in Dialers : dial[d].at = "racing"}) <= MaxLookups
  BY <1>1, ResolverAssumption DEF ResolverInv, Racing
<1>3. tally.failed <= tally.lookups /\ tally.nx <= tally.failed
  BY <1>1 DEF ResolverInv, TallyState
<1>4. ResolverTypeOK
  BY DEF ResolverTypeOK, ResolverInv, DialStates
<1>5. DeadIsGone
  BY DEF DeadIsGone, ResolverInv
<1> QED BY <1>2, <1>3, <1>4, <1>5 DEF LookupsBounded

\* For any number of dialers, names and resolvers, and whichever of them answers first, late or
\* not at all: no name that a resolver knows is written off, no more lookups are open than the
\* bound, and none is begun for a name that was answered in the meantime.
THEOREM LookupsSound == ResolverSpec => LookupsAreSound
<1>1. ResolverInit => ResolverInv
  BY ResolverInvInit
<1>2. ResolverInv /\ [ResolverNext]_resolverVars => ResolverInv'
  BY ResolverInvNext
<1>3. ResolverInv /\ [ResolverNext]_resolverVars => [AnsweredIsNotAsked]_resolverVars
  BY ResolverInvNext
<1>4. ResolverInv => ResolverTypeOK /\ DeadIsGone /\ LookupsBounded
  BY ResolverInvIsEnough
<1> QED BY <1>1, <1>2, <1>3, <1>4, PTL DEF ResolverSpec, LookupsAreSound

-----------------------------------------------------------------------------
(* The dataset library: for any archives, any number of downloads at once,    *)
(* and kills and cancellations anywhere, an archive is in its place whole or  *)
(* not at all, no record is lost, and a record without a file is the trace of *)
(* a collection that was cut off (ManifestIsTrue).                            *)
Places == {"idle", "fetching", "record", "recording", "scan", "scanning", "collect", "collecting",
           "saving"}
JobKinds == {"none", "todo", "writing", "landed", "skipped", "failed", "doomed"}
Pieces == {"file", "tmp"} \X Archives

\* A record of a process with these fields.
IsTask(t, at, job, copy, todo, cut) ==
  /\ t \in TaskRecords
  /\ t.at = at /\ t.job = job /\ t.copy = copy /\ t.todo = todo /\ t.cut = cut

\* The record of one process gets these fields, the others stay.
TurnsInto(p, at, job, copy, todo, cut) ==
  /\ task' \in [LibProcesses -> TaskRecords]
  /\ IsTask(task'[p], at, job, copy, todo, cut)
  /\ \A q \in LibProcesses : q # p => task'[q] = task[q]

LEMMA OneTask ==
  ASSUME LibraryTyped, NEW p \in LibProcesses, NEW at, NEW job, NEW copy, NEW todo, NEW cut,
         NEW r, IsTask(r, at, job, copy, todo, cut), task' = [task EXCEPT ![p] = r]
  PROVE  TurnsInto(p, at, job, copy, todo, cut)
<1>1. r \in TaskRecords
  BY DEF IsTask
<1>2. /\ task' \in [LibProcesses -> TaskRecords] /\ task'[p] = r
      /\ \A q \in LibProcesses : q # p => task'[q] = task[q]
  BY <1>1 DEF LibraryTyped
<1> QED BY <1>2 DEF TurnsInto

\* Every change that is made to a record leaves it a record.
LEMMA Turns ==
  ASSUME NEW r \in TaskRecords, NEW at \in Places
  PROVE  IsTask([r EXCEPT !.at = at], at, r.job, r.copy, r.todo, r.cut)
BY DEF TaskRecords, IsTask, Places

LEMMA TurnsToJobs ==
  ASSUME NEW r \in TaskRecords, NEW job \in [Archives -> JobKinds]
  PROVE  /\ IsTask([r EXCEPT !.job = job], r.at, job, r.copy, r.todo, r.cut)
         /\ \A at \in Places, runs \in Int :
              IsTask([r EXCEPT !.at = at, !.runs = runs, !.job = job], at, job, r.copy, r.todo, r.cut)
<1>1. IsTask([r EXCEPT !.job = job], r.at, job, r.copy, r.todo, r.cut)
  BY DEF TaskRecords, IsTask, Places, JobKinds
<1>2. ASSUME NEW at \in Places, NEW runs \in Int
      PROVE  IsTask([r EXCEPT !.at = at, !.runs = runs, !.job = job], at, job, r.copy, r.todo, r.cut)
  BY DEF TaskRecords, IsTask, Places, JobKinds
<1> QED BY <1>1, <1>2

LEMMA TurnsToCopies ==
  ASSUME NEW r \in TaskRecords, NEW copy \in [Archives -> Amounts], NEW at \in Places
  PROVE  /\ IsTask([r EXCEPT !.at = at, !.copy = copy], at, r.job, copy, r.todo, r.cut)
         /\ \A own \in SUBSET Archives :
              IsTask([r EXCEPT !.at = at, !.copy = copy, !.strays = own], at, r.job, copy, r.todo, r.cut)
BY DEF TaskRecords, IsTask, Places

LEMMA TurnsToScan ==
  ASSUME NEW r \in TaskRecords, NEW at \in Places, NEW runs \in Int, NEW todo \in SUBSET Pieces
  PROVE  IsTask([r EXCEPT !.at = at, !.runs = runs, !.todo = todo], at, r.job, r.copy, todo, r.cut)
BY DEF TaskRecords, IsTask, Places, Pieces

LEMMA TurnsToCollect ==
  ASSUME NEW r \in TaskRecords, NEW at \in Places, NEW runs \in Int, NEW todo \in SUBSET Pieces,
         NEW job \in [Archives -> JobKinds]
  PROVE  IsTask([r EXCEPT !.runs = runs, !.todo = todo, !.job = job, !.at = at],
                at, job, r.copy, todo, r.cut)
BY DEF TaskRecords, IsTask, Places, Pieces, JobKinds

LEMMA TurnsFromPiece ==
  ASSUME NEW r \in TaskRecords, NEW todo \in SUBSET Pieces, NEW copy \in [Archives -> Amounts],
         NEW own \in SUBSET Archives, NEW cut \in BOOLEAN
  PROVE  /\ IsTask([r EXCEPT !.todo = todo, !.copy = copy, !.strays = own],
                   r.at, r.job, copy, todo, r.cut)
         /\ IsTask([r EXCEPT !.todo = todo, !.cut = cut, !.copy = copy, !.strays = own],
                   r.at, r.job, copy, todo, cut)
BY DEF TaskRecords, IsTask, Pieces

LEMMA IdleRecord ==
  ASSUME NEW runs \in Int, NEW cut \in BOOLEAN
  PROVE  IsTask(Idle(runs, cut), "idle", NoFiles, NoFiles, {}, cut)
BY DEF Idle, NoFiles, TaskRecords, IsTask, Amounts

\* The state as the steps below need it.
LEMMA LibraryTypes ==
  ASSUME LibraryTyped
  PROVE  /\ \A p \in LibProcesses : task[p] \in TaskRecords
         /\ \A p \in LibProcesses :
              /\ task[p].runs \in Int /\ task[p].runs - 1 \in Int /\ task[p].cut \in BOOLEAN
              /\ task[p].job \in [Archives -> JobKinds]
              /\ task[p].copy \in [Archives -> Amounts] /\ task[p].strays \in SUBSET Archives
              /\ task[p].todo \in SUBSET Pieces
         /\ manifest \in [Archives -> Amounts] /\ strays \in SUBSET Archives
         /\ tree.file \in [Archives -> Amounts] /\ tree.tmp \in [Archives -> {"none", "half"}]
<1>1. \A p \in LibProcesses : task[p] \in TaskRecords
  BY DEF LibraryTyped
<1>2. \A t \in TaskRecords :
        /\ t.runs \in Int /\ t.runs - 1 \in Int /\ t.cut \in BOOLEAN
        /\ t.job \in [Archives -> JobKinds]
        /\ t.copy \in [Archives -> Amounts] /\ t.strays \in SUBSET Archives
        /\ t.todo \in SUBSET Pieces
  BY DEF TaskRecords, JobKinds, Pieces
<1>3. /\ manifest \in [Archives -> Amounts] /\ strays \in SUBSET Archives
      /\ tree.file \in [Archives -> Amounts] /\ tree.tmp \in [Archives -> {"none", "half"}]
  BY DEF LibraryTyped, LibraryTypeOK, Amounts
<1> QED BY <1>1, <1>2, <1>3

LEMMA Kinds ==
  /\ Scanner # Collector /\ Scanner \notin Downloaders /\ Collector \notin Downloaders
  /\ Scanner \in LibProcesses /\ Collector \in LibProcesses /\ Downloaders \subseteq LibProcesses
  /\ NoProcess \notin LibProcesses /\ Collected \subseteq Archives
BY LibraryAssumption DEF LibProcesses

LEMMA PlaceNames ==
  /\ {"idle", "fetching", "record", "recording", "scan", "scanning", "collect", "collecting",
      "saving"} \subseteq Places
  /\ {"none", "todo", "writing", "landed", "skipped", "failed", "doomed"} \subseteq JobKinds
  /\ {"none", "half", "whole"} \subseteq Amounts
BY DEF Places, JobKinds, Amounts

(* ------------------------------- downloads -------------------------------- *)
\* A download that does not update the manifest: it may bring an archive whole.
Downloading(d) ==
  /\ task[d].at \notin Updating
  /\ \E at \in {"idle", "fetching", "record"}, job \in [Archives -> JobKinds] :
       TurnsInto(d, at, job, task[d].copy, task[d].todo, task[d].cut)
  /\ tree'.file \in [Archives -> Amounts]
  /\ tree' \in [file : [Archives -> Amounts], tmp : [Archives -> {"none", "half"}]]
  /\ \A a \in Archives : tree'.file[a] \in {tree.file[a], "whole"}
  /\ UNCHANGED <<manifest, strays, locked, recorded>>

LEMMA TreeStays ==
  ASSUME LibraryTyped, UNCHANGED tree
  PROVE  /\ tree'.file \in [Archives -> Amounts]
         /\ tree' \in [file : [Archives -> Amounts], tmp : [Archives -> {"none", "half"}]]
         /\ \A a \in Archives : tree'.file[a] \in {tree.file[a], "whole"}
BY DEF LibraryTyped, LibraryTypeOK, Amounts

LEMMA TmpChanges ==
  ASSUME LibraryTyped, NEW tmp \in [Archives -> {"none", "half"}], tree' = [tree EXCEPT !.tmp = tmp]
  PROVE  /\ tree'.file \in [Archives -> Amounts] /\ tree'.file = tree.file
         /\ tree' \in [file : [Archives -> Amounts], tmp : [Archives -> {"none", "half"}]]
         /\ \A a \in Archives : tree'.file[a] \in {tree.file[a], "whole"}
BY DEF LibraryTyped, LibraryTypeOK, Amounts

LEMMA StartDownloads ==
  ASSUME LibraryTyped, NEW d \in Downloaders, StartDownload(d)
  PROVE  Downloading(d)
<1> DEFINE job == [a \in Archives |-> IF a \in Lists[d] THEN "todo" ELSE "none"]
           r == [task[d] EXCEPT !.at = "fetching", !.runs = @ - 1, !.job = job]
<1>1. job \in [Archives -> JobKinds]
  BY DEF JobKinds
<1>2. task' = [task EXCEPT ![d] = r] /\ task[d].at = "idle"
  BY Zenon DEF StartDownload, Startable
<1> HIDE DEF job
<1>3. IsTask(r, "fetching", job, task[d].copy, task[d].todo, task[d].cut)
  BY <1>1, Kinds, LibraryTypes, TurnsToJobs, PlaceNames
<1> HIDE DEF r
<1>4. TurnsInto(d, "fetching", job, task[d].copy, task[d].todo, task[d].cut)
  BY <1>2, <1>3, Kinds, OneTask
<1>5. UNCHANGED <<tree, manifest, strays, locked, recorded>>
  BY DEF StartDownload
<1> QED BY <1>1, <1>2, <1>4, <1>5, TreeStays DEF Downloading, Updating

\* The job of one file changes.
LEMMA JobChanges ==
  ASSUME LibraryTyped, NEW d \in Downloaders, NEW a \in Archives, NEW k \in JobKinds,
         task[d].at = "fetching", task' = [task EXCEPT ![d].job[a] = k]
  PROVE  /\ task[d].at \notin Updating
         /\ \E at \in {"idle", "fetching", "record"}, job \in [Archives -> JobKinds] :
              TurnsInto(d, at, job, task[d].copy, task[d].todo, task[d].cut)
<1> DEFINE job == [task[d].job EXCEPT ![a] = k]
           r == [task[d] EXCEPT !.job = job]
<1>1. job \in [Archives -> JobKinds]
  BY Kinds, LibraryTypes
<1>2. task' = [task EXCEPT ![d] = r]
  BY Zenon
<1> HIDE DEF job
<1>3. IsTask(r, "fetching", job, task[d].copy, task[d].todo, task[d].cut)
  BY <1>1, Kinds, LibraryTypes, TurnsToJobs
<1> HIDE DEF r
<1>4. TurnsInto(d, "fetching", job, task[d].copy, task[d].todo, task[d].cut)
  BY <1>2, <1>3, Kinds, OneTask
<1> QED BY <1>1, <1>4 DEF Updating

LEMMA Fetches ==
  ASSUME LibraryTyped, NEW d \in Downloaders, NEW a \in Archives, Fetch(d, a)
  PROVE  Downloading(d)
<1>1. task[d].at = "fetching" /\ UNCHANGED <<manifest, strays, locked, recorded>>
  BY DEF Fetch
<1>2. CASE tree.file[a] # "none"
  <2>1. task' = [task EXCEPT ![d].job[a] = "skipped"] /\ UNCHANGED tree
    BY <1>2 DEF Fetch
  <2> QED BY <1>1, <2>1, JobChanges, PlaceNames, TreeStays DEF Downloading
<1>3. CASE tree.file[a] = "none"
  <2> DEFINE tmp == [tree.tmp EXCEPT ![a] = "half"]
  <2>1. task' = [task EXCEPT ![d].job[a] = "writing"] /\ tree' = [tree EXCEPT !.tmp = tmp]
    BY <1>3, Zenon DEF Fetch
  <2>2. tmp \in [Archives -> {"none", "half"}]
    BY LibraryTypes
  <2> HIDE DEF tmp
  <2> QED BY <1>1, <2>1, <2>2, JobChanges, PlaceNames, TmpChanges DEF Downloading
<1> QED BY <1>2, <1>3

LEMMA Lands ==
  ASSUME LibraryTyped, NEW d \in Downloaders, NEW a \in Archives, Land(d, a)
  PROVE  Downloading(d)
<1>1. task[d].at = "fetching" /\ UNCHANGED <<manifest, strays, locked, recorded>>
  BY DEF Land
<1>2. CASE tree.tmp[a] = "none"
  <2>1. task' = [task EXCEPT ![d].job[a] = "failed"] /\ UNCHANGED tree
    BY <1>2 DEF Land
  <2> QED BY <1>1, <2>1, JobChanges, PlaceNames, TreeStays DEF Downloading
<1>3. CASE tree.tmp[a] # "none"
  <2>1. task' = [task EXCEPT ![d].job[a] = "landed"]
    BY <1>3 DEF Land
  <2>2. tree' = [file |-> [tree.file EXCEPT ![a] = "whole"], tmp |-> [tree.tmp EXCEPT ![a] = "none"]]
    BY <1>3 DEF Land
  <2>3. /\ tree'.file \in [Archives -> Amounts]
        /\ tree' \in [file : [Archives -> Amounts], tmp : [Archives -> {"none", "half"}]]
        /\ \A b \in Archives : tree'.file[b] \in {tree.file[b], "whole"}
    BY <2>2, LibraryTypes, PlaceNames
  <2> QED BY <1>1, <2>1, <2>3, JobChanges, PlaceNames DEF Downloading
<1> QED BY <1>2, <1>3

LEMMA BodiesFail ==
  ASSUME LibraryTyped, NEW d \in Downloaders, NEW a \in Archives, BodyFails(d, a)
  PROVE  Downloading(d)
<1> DEFINE tmp == [tree.tmp EXCEPT ![a] = "none"]
<1>1. /\ task[d].at = "fetching" /\ UNCHANGED <<manifest, strays, locked, recorded>>
      /\ task' = [task EXCEPT ![d].job[a] = "failed"] /\ tree' = [tree EXCEPT !.tmp = tmp]
  BY Zenon DEF BodyFails
<1>2. tmp \in [Archives -> {"none", "half"}]
  BY LibraryTypes
<1> HIDE DEF tmp
<1> QED BY <1>1, <1>2, JobChanges, PlaceNames, TmpChanges DEF Downloading

LEMMA DownloadsAreCancelled ==
  ASSUME LibraryTyped, NEW d \in Downloaders, DownloadCancelled(d)
  PROVE  Downloading(d)
<1> DEFINE job == [a \in Archives |-> CASE task[d].job[a] = "todo" -> "none"
                                        [] task[d].job[a] = "writing" -> "failed"
                                        [] OTHER -> task[d].job[a]]
           tmp == [a \in Archives |-> IF task[d].job[a] = "writing" THEN "none" ELSE tree.tmp[a]]
           r == [task[d] EXCEPT !.job = job]
<1>1. job \in [Archives -> JobKinds] /\ tmp \in [Archives -> {"none", "half"}]
  BY Kinds, LibraryTypes, PlaceNames
<1>2. /\ task[d].at = "fetching" /\ UNCHANGED <<manifest, strays, locked, recorded>>
      /\ task' = [task EXCEPT ![d] = r] /\ tree' = [tree EXCEPT !.tmp = tmp]
  BY Zenon DEF DownloadCancelled
<1> HIDE DEF job, tmp
<1>3. IsTask(r, "fetching", job, task[d].copy, task[d].todo, task[d].cut)
  BY <1>1, <1>2, Kinds, LibraryTypes, TurnsToJobs
<1> HIDE DEF r
<1>4. TurnsInto(d, "fetching", job, task[d].copy, task[d].todo, task[d].cut)
  BY <1>2, <1>3, Kinds, OneTask
<1> QED BY <1>1, <1>2, <1>4, TmpChanges DEF Downloading, Updating

LEMMA DownloadsEnd ==
  ASSUME LibraryTyped, NEW d \in Downloaders, DownloadDone(d)
  PROVE  Downloading(d)
<1> DEFINE at == IF Jobs(d, {"landed", "skipped"}) = {} THEN "idle" ELSE "record"
           r == [task[d] EXCEPT !.at = at]
<1>1. at \in {"idle", "fetching", "record"} /\ at \in Places
  BY PlaceNames
<1>2. /\ task[d].at = "fetching" /\ UNCHANGED <<tree, manifest, strays, locked, recorded>>
      /\ task' = [task EXCEPT ![d] = r]
  BY Zenon DEF DownloadDone
<1> HIDE DEF at
<1>3. IsTask(r, at, task[d].job, task[d].copy, task[d].todo, task[d].cut)
  BY <1>1, Kinds, LibraryTypes, Turns
<1> HIDE DEF r
<1>4. TurnsInto(d, at, task[d].job, task[d].copy, task[d].todo, task[d].cut)
  BY <1>2, <1>3, Kinds, OneTask
<1>5. task[d].job \in [Archives -> JobKinds]
  BY Kinds, LibraryTypes
<1> QED BY <1>1, <1>2, <1>4, <1>5, TreeStays DEF Downloading, Updating

\* What the invariant needs to know of the types.
LEMMA TypedNext ==
  ASSUME tree' \in [file : [Archives -> Amounts], tmp : [Archives -> {"none", "half"}]],
         manifest' \in [Archives -> Amounts], strays' \subseteq Archives,
         locked' \in LibProcesses \union {NoProcess}, task' \in [LibProcesses -> TaskRecords],
         recorded' \subseteq Archives
  PROVE  LibraryTyped'
BY DEF LibraryTyped, LibraryTypeOK, Amounts

LEMMA DownloadingKeeps ==
  ASSUME LibraryInv, NEW d \in Downloaders, Downloading(d)
  PROVE  LibraryInv'
<1>1. PICK at \in {"idle", "fetching", "record"}, job \in [Archives -> JobKinds] :
        TurnsInto(d, at, job, task[d].copy, task[d].todo, task[d].cut)
  BY DEF Downloading
<1>2. /\ task' \in [LibProcesses -> TaskRecords] /\ task'[d].at = at
      /\ \A q \in LibProcesses : q # d => task'[q] = task[q]
  BY <1>1 DEF TurnsInto, IsTask
<1>3. /\ task[d].at \notin Updating /\ at \notin Updating
      /\ tree'.file \in [Archives -> Amounts]
      /\ tree' \in [file : [Archives -> Amounts], tmp : [Archives -> {"none", "half"}]]
      /\ \A a \in Archives : tree'.file[a] \in {tree.file[a], "whole"}
      /\ UNCHANGED <<manifest, strays, locked, recorded>>
  BY DEF Downloading, Updating
<1>4. LibraryTyped'
  BY <1>2, <1>3, TypedNext, LibraryTypes DEF LibraryInv, LibraryTyped, LibraryTypeOK
<1>5. /\ d # Scanner /\ d # Collector /\ d \in LibProcesses
      /\ task'[Scanner] = task[Scanner] /\ task'[Collector] = task[Collector]
  BY <1>2, Kinds
<1>6. PlacesApart'
  BY <1>2, <1>5, Kinds DEF LibraryInv, PlacesApart
<1>7. LockGuards'
  <2> SUFFICES ASSUME NEW p \in LibProcesses PROVE task'[p].at \in Updating <=> locked' = p
    BY DEF LockGuards, Updating
  <2>1. task[p].at \in Updating <=> locked = p
    BY DEF LibraryInv, LockGuards
  <2> QED BY <2>1, <1>2, <1>3
<1>8. CopiesAreTrue'
  <2> SUFFICES ASSUME NEW p \in LibProcesses, task'[p].at \in Updating, NEW a \in Archives
               PROVE  /\ task'[p].copy[a] # "half"
                      /\ manifest'[a] # "none" => task'[p].copy[a] # "none" \/ (p = Collector /\ Doomed(a)')
                      /\ task'[p].copy[a] # "none" => manifest'[a] # "none" \/ tree'.file[a] # "none"
    BY DEF CopiesAreTrue, Updating
  <2>1. p # d /\ task'[p] = task[p]
    BY <1>2, <1>3
  <2>2. /\ task[p].copy[a] # "half"
        /\ manifest[a] # "none" => task[p].copy[a] # "none" \/ (p = Collector /\ Doomed(a))
        /\ task[p].copy[a] # "none" => manifest[a] # "none" \/ tree.file[a] # "none"
    BY <2>1 DEF LibraryInv, CopiesAreTrue
  <2>3. Doomed(a)' <=> Doomed(a)
    BY <1>5 DEF Doomed
  <2>4. tree.file[a] # "none" => tree'.file[a] # "none"
    BY <1>3
  <2> QED BY <2>1, <2>2, <2>3, <2>4, <1>3
<1>9. CollectionClears'
  <2>2. Lapsed(manifest)' \subseteq Lapsed(manifest)
    BY <1>3 DEF Lapsed
  <2>3. Lapsed(task[Collector].copy)' \subseteq Lapsed(task[Collector].copy)
    BY <1>3, <1>5 DEF Lapsed
  <2>4. \A a \in Archives : Doomed(a)' <=> Doomed(a)
    BY <1>5 DEF Doomed
  <2> QED BY <2>2, <2>3, <2>4, <1>5 DEF LibraryInv, CollectionClears
<1>10. ManifestIsTrue'
  <2>1. LibraryTypeOK'
    BY <1>4 DEF LibraryTyped
  <2>2. ArchivesAreWhole'
    BY <1>3 DEF LibraryInv, ManifestIsTrue, ArchivesAreWhole
  <2>3. NoLostRecord'
    BY <1>3 DEF LibraryInv, ManifestIsTrue, NoLostRecord
  <2>4. MissingOnlyAfterCut'
    <3> SUFFICES ASSUME NEW a \in Archives, manifest'[a] # "none", tree'.file[a] = "none"
                 PROVE  task'[Collector].cut
      BY DEF MissingOnlyAfterCut
    <3>1. manifest[a] # "none" /\ tree.file[a] = "none"
      BY <1>3
    <3>2. task[Collector].cut
      BY <3>1 DEF LibraryInv, ManifestIsTrue, MissingOnlyAfterCut
    <3> QED BY <3>2, <1>5, Zenon
  <2> QED BY <2>1, <2>2, <2>3, <2>4 DEF ManifestIsTrue
<1> QED BY <1>4, <1>6, <1>7, <1>8, <1>9, <1>10 DEF LibraryInv

(* ----------------------------- UpdateManifest ----------------------------- *)
LEMMA LoadBecomes ==
  ASSUME LibraryTyped, NEW p \in LibProcesses, Load(p)
  PROVE  \E at \in {"recording", "scanning", "collecting"} :
           /\ at = (CASE task[p].at = "record" -> "recording" [] task[p].at = "scan" -> "scanning"
                      [] OTHER -> "collecting")
           /\ TurnsInto(p, at, task[p].job, manifest, task[p].todo, task[p].cut)
<1> DEFINE at == CASE task[p].at = "record" -> "recording" [] task[p].at = "scan" -> "scanning"
                   [] OTHER -> "collecting"
           r == [task[p] EXCEPT !.at = at, !.copy = manifest, !.strays = strays]
<1>1. at \in {"recording", "scanning", "collecting"} /\ at \in Places
  BY PlaceNames
<1>2. task' = [task EXCEPT ![p] = r]
  BY Zenon DEF Load
<1> HIDE DEF at
<1>3. IsTask(r, at, task[p].job, manifest, task[p].todo, task[p].cut)
  BY <1>1, LibraryTypes, TurnsToCopies
<1> HIDE DEF r
<1>4. TurnsInto(p, at, task[p].job, manifest, task[p].todo, task[p].cut)
  BY <1>2, <1>3, OneTask
<1> QED BY <1>1, <1>4 DEF at

LEMMA LoadKeeps ==
  ASSUME LibraryInv, NEW p \in LibProcesses, Load(p)
  PROVE  LibraryInv'
<1>0. LibraryTyped
  BY DEF LibraryInv
<1>1. PICK at \in {"recording", "scanning", "collecting"} :
        /\ at = (CASE task[p].at = "record" -> "recording" [] task[p].at = "scan" -> "scanning"
                   [] OTHER -> "collecting")
        /\ TurnsInto(p, at, task[p].job, manifest, task[p].todo, task[p].cut)
  BY <1>0, LoadBecomes
<1>2. /\ task' \in [LibProcesses -> TaskRecords] /\ task'[p].at = at /\ task'[p].copy = manifest
      /\ task'[p].job = task[p].job /\ task'[p].todo = task[p].todo /\ task'[p].cut = task[p].cut
      /\ \A q \in LibProcesses : q # p => task'[q] = task[q]
  BY <1>1 DEF TurnsInto, IsTask
<1>3. /\ task[p].at \in {"record", "scan", "collect"} /\ locked = NoProcess /\ locked' = p
      /\ UNCHANGED <<tree, manifest, strays, recorded>>
  BY DEF Load, LockAsked
<1>4. LibraryTyped'
  BY <1>0, <1>2, <1>3, TypedNext DEF LibraryTyped, LibraryTypeOK, Amounts
<1>5. /\ task'[Collector].job = task[Collector].job /\ task'[Collector].todo = task[Collector].todo
      /\ task'[Collector].cut = task[Collector].cut
  BY <1>2, Kinds
<1>6. PlacesApart'
  <2>1. \A d \in Downloaders : task'[d].at \in {"idle", "fetching", "record", "recording", "saving"}
    BY <1>1, <1>2, <1>3, Kinds DEF LibraryInv, PlacesApart
  <2>2. task'[Scanner].at \in {"idle", "scan", "scanning", "saving"}
    BY <1>1, <1>2, <1>3, Kinds DEF LibraryInv, PlacesApart
  <2>3. task'[Collector].at \in {"idle", "collect", "collecting", "saving"}
    BY <1>1, <1>2, <1>3, Kinds DEF LibraryInv, PlacesApart
  <2> QED BY <2>1, <2>2, <2>3 DEF PlacesApart
<1>7. \A q \in LibProcesses : task[q].at \notin Updating
  BY <1>3, Kinds DEF LibraryInv, LockGuards
<1>8. LockGuards'
  <2> SUFFICES ASSUME NEW q \in LibProcesses PROVE task'[q].at \in Updating <=> locked' = q
    BY DEF LockGuards, Updating
  <2>1. at \in Updating
    BY DEF Updating
  <2> QED BY <2>1, <1>2, <1>3, <1>7
<1>9. CopiesAreTrue'
  <2> SUFFICES ASSUME NEW q \in LibProcesses, task'[q].at \in Updating, NEW a \in Archives
               PROVE  /\ task'[q].copy[a] # "half"
                      /\ manifest'[a] # "none" => task'[q].copy[a] # "none" \/ (q = Collector /\ Doomed(a)')
                      /\ task'[q].copy[a] # "none" => manifest'[a] # "none" \/ tree'.file[a] # "none"
    BY DEF CopiesAreTrue, Updating
  <2>1. q = p
    BY <1>2, <1>7
  <2>2. manifest[a] # "half"
    BY DEF LibraryInv, ManifestIsTrue, ArchivesAreWhole
  <2> QED BY <2>1, <2>2, <1>2, <1>3
<1>10. CollectionClears'
  <2>1. Lapsed(manifest)' = Lapsed(manifest)
    BY <1>3 DEF Lapsed
  <2>2. \A a \in Archives : Doomed(a)' <=> Doomed(a)
    BY <1>5 DEF Doomed
  <2>3. task'[Collector].at = "collect" => task[Collector].at = "collect"
    BY <1>1, <1>2, Kinds
  <2>4. ASSUME task'[Collector].at = "collecting"
        PROVE  \A a \in Lapsed(task[Collector].copy)' : <<"file", a>> \in task'[Collector].todo
    <3>1. p = Collector
      BY <2>4, <1>2, <1>7, Kinds DEF Updating
    <3>2. Lapsed(task[Collector].copy)' = Lapsed(manifest)
      BY <3>1, <1>2, <1>3 DEF Lapsed
    <3>3. task[Collector].at = "collect"
      BY <3>1, <1>3, Kinds DEF LibraryInv, PlacesApart
    <3> QED BY <3>2, <3>3, <1>5 DEF LibraryInv, CollectionClears
  <2>5. task'[Collector].at # "saving"
    BY <1>2, <1>7, Kinds DEF Updating
  <2> QED BY <2>1, <2>2, <2>3, <2>4, <2>5, <1>5 DEF LibraryInv, CollectionClears
<1>11. ManifestIsTrue'
  <2>1. LibraryTypeOK'
    BY <1>4 DEF LibraryTyped
  <2>2. ArchivesAreWhole' /\ NoLostRecord'
    BY <1>3 DEF LibraryInv, ManifestIsTrue, ArchivesAreWhole, NoLostRecord
  <2>3. MissingOnlyAfterCut'
    BY <1>3, <1>5 DEF LibraryInv, ManifestIsTrue, MissingOnlyAfterCut
  <2> QED BY <2>1, <2>2, <2>3 DEF ManifestIsTrue
<1> QED BY <1>4, <1>6, <1>8, <1>9, <1>10, <1>11 DEF LibraryInv

LEMMA SaveKeeps ==
  ASSUME LibraryInv, NEW p \in LibProcesses, Save(p)
  PROVE  LibraryInv'
<1>0. LibraryTyped
  BY DEF LibraryInv
<1>1. TurnsInto(p, "idle", NoFiles, NoFiles, {}, FALSE)
  <2> DEFINE r == Idle(task[p].runs, FALSE)
  <2>1. task' = [task EXCEPT ![p] = r]
    BY Zenon DEF Save
  <2>2. IsTask(r, "idle", NoFiles, NoFiles, {}, FALSE)
    BY <1>0, LibraryTypes, IdleRecord
  <2> HIDE DEF r
  <2> QED BY <2>1, <2>2, <1>0, OneTask
<1>2. /\ task' \in [LibProcesses -> TaskRecords] /\ task'[p].at = "idle" /\ task'[p].todo = {}
      /\ \A q \in LibProcesses : q # p => task'[q] = task[q]
  BY <1>1 DEF TurnsInto, IsTask
<1>3. /\ task[p].at = "saving" /\ manifest' = task[p].copy /\ strays' = task[p].strays
      /\ locked' = NoProcess /\ UNCHANGED tree
      /\ p = Collector => recorded' = recorded \ Jobs(p, {"doomed"})
      /\ p # Collector => recorded' = recorded \union {a \in Archives : task[p].copy[a] # "none"}
  BY DEF Save
<1>4. LibraryTyped'
  <2>1. task[p].copy \in [Archives -> Amounts] /\ task[p].strays \in SUBSET Archives
    BY <1>0, LibraryTypes
  <2>2. recorded' \subseteq Archives
    BY <1>0, <1>3 DEF LibraryTyped
  <2>3. tree' \in [file : [Archives -> Amounts], tmp : [Archives -> {"none", "half"}]]
    BY <1>0, <1>3 DEF LibraryTyped, LibraryTypeOK, Amounts
  <2> QED BY <2>1, <2>2, <2>3, <1>2, <1>3, TypedNext
<1>5. /\ task[p].at \in Updating /\ locked = p
      /\ \A q \in LibProcesses : q # p => task[q].at \notin Updating
  BY <1>3 DEF LibraryInv, LockGuards, Updating
<1>6. \A q \in LibProcesses : task'[q].at \notin Updating
  BY <1>2, <1>5 DEF Updating
<1>7. PlacesApart'
  BY <1>2, Kinds DEF LibraryInv, PlacesApart
<1>8. LockGuards'
  BY <1>3, <1>6, Kinds DEF LockGuards, Updating
<1>9. CopiesAreTrue'
  BY <1>6 DEF CopiesAreTrue, Updating
<1>10. \A a \in Archives :
         /\ task[p].copy[a] # "half"
         /\ manifest[a] # "none" => task[p].copy[a] # "none" \/ (p = Collector /\ Doomed(a))
         /\ task[p].copy[a] # "none" => manifest[a] # "none" \/ tree.file[a] # "none"
  BY <1>5 DEF LibraryInv, CopiesAreTrue
<1>11. Lapsed(manifest)' \subseteq Lapsed(manifest)
  BY <1>3, <1>10 DEF Lapsed
<1>12. CollectionClears'
  <2>1. CASE p = Collector
    BY <2>1, <1>2, <1>11 DEF LibraryInv, CollectionClears
  <2>2. CASE p # Collector
    <3>1. task'[Collector] = task[Collector] /\ \A a \in Archives : Doomed(a)' <=> Doomed(a)
      BY <2>2, <1>2, Kinds DEF Doomed
    <3>2. task'[Collector].at \notin Updating
      BY <1>6, Kinds
    <3> QED BY <3>1, <3>2, <1>11 DEF LibraryInv, CollectionClears, Updating
  <2> QED BY <2>1, <2>2
<1>13. ManifestIsTrue'
  <2>1. LibraryTypeOK'
    BY <1>4 DEF LibraryTyped
  <2>2. ArchivesAreWhole'
    BY <1>3, <1>10 DEF LibraryInv, ManifestIsTrue, ArchivesAreWhole
  <2>3. NoLostRecord'
    <3>1. CASE p = Collector
      BY <3>1, <1>3, <1>10 DEF LibraryInv, ManifestIsTrue, NoLostRecord, Jobs, Doomed
    <3>2. CASE p # Collector
      BY <3>2, <1>3, <1>10 DEF LibraryInv, ManifestIsTrue, NoLostRecord
    <3> QED BY <3>1, <3>2
  <2>4. MissingOnlyAfterCut'
    <3>1. CASE p = Collector
      <4>1. Lapsed(manifest)' = {}
        BY <3>1, <1>3 DEF LibraryInv, CollectionClears, Lapsed
      <4> QED BY <4>1 DEF MissingOnlyAfterCut, Lapsed
    <3>2. CASE p # Collector
      <4>1. task'[Collector].cut = task[Collector].cut
        BY <3>2, <1>2, Kinds
      <4> QED BY <4>1, <1>11 DEF LibraryInv, ManifestIsTrue, MissingOnlyAfterCut, Lapsed
    <3> QED BY <3>1, <3>2
  <2> QED BY <2>1, <2>2, <2>3, <2>4 DEF ManifestIsTrue
<1> QED BY <1>4, <1>7, <1>8, <1>9, <1>12, <1>13 DEF LibraryInv

\* A process that updates is alone in it: the others' records stay.
LEMMA OneUpdates ==
  ASSUME LibraryInv, NEW p \in LibProcesses, task[p].at \in Updating
  PROVE  \A q \in LibProcesses : q # p => task[q].at \notin Updating
BY DEF LibraryInv, LockGuards

LEMMA RecordKeeps ==
  ASSUME LibraryInv, NEW d \in Downloaders, Record(d)
  PROVE  LibraryInv'
<1> DEFINE here == {a \in Jobs(d, {"landed", "skipped"}) : tree.file[a] # "none"}
           kept == {a \in Jobs(d, {"skipped"}) : task[d].copy[a] # "none"}
           copy == [a \in Archives |-> IF a \in here \ kept THEN tree.file[a] ELSE task[d].copy[a]]
           r == [task[d] EXCEPT !.at = "saving", !.copy = copy]
<1>0. LibraryTyped
  BY DEF LibraryInv
<1>1. copy \in [Archives -> Amounts]
  BY <1>0, LibraryTypes, Kinds
<1>2. \A a \in Archives : copy[a] = task[d].copy[a] \/ (copy[a] = tree.file[a] /\ tree.file[a] # "none")
  OBVIOUS
<1>3. /\ task' = [task EXCEPT ![d] = r] /\ task[d].at = "recording"
      /\ UNCHANGED <<tree, manifest, strays, locked, recorded>>
  BY Zenon DEF Record
<1> HIDE DEF copy, here, kept
<1>4. TurnsInto(d, "saving", task[d].job, copy, task[d].todo, task[d].cut)
  <2>1. IsTask(r, "saving", task[d].job, copy, task[d].todo, task[d].cut)
    BY <1>0, <1>1, LibraryTypes, TurnsToCopies, Kinds, PlaceNames
  <2> HIDE DEF r
  <2> QED BY <2>1, <1>0, <1>3, OneTask, Kinds
<1>5. /\ task' \in [LibProcesses -> TaskRecords] /\ task'[d].at = "saving" /\ task'[d].copy = copy
      /\ \A q \in LibProcesses : q # d => task'[q] = task[q]
  BY <1>4 DEF TurnsInto, IsTask
<1>6. /\ d # Scanner /\ d # Collector /\ d \in LibProcesses
      /\ task'[Scanner] = task[Scanner] /\ task'[Collector] = task[Collector]
  BY <1>5, Kinds
<1>7. LibraryTyped'
  BY <1>0, <1>3, <1>5, TypedNext DEF LibraryTyped, LibraryTypeOK, Amounts
<1>8. PlacesApart'
  BY <1>5, <1>6, Kinds DEF LibraryInv, PlacesApart
<1>9. LockGuards'
  BY <1>3, <1>5, <1>6 DEF LibraryInv, LockGuards, Updating
<1>10. CopiesAreTrue'
  <2> SUFFICES ASSUME NEW q \in LibProcesses, task'[q].at \in Updating, NEW a \in Archives
               PROVE  /\ task'[q].copy[a] # "half"
                      /\ manifest'[a] # "none" => task'[q].copy[a] # "none" \/ (q = Collector /\ Doomed(a)')
                      /\ task'[q].copy[a] # "none" => manifest'[a] # "none" \/ tree'.file[a] # "none"
    BY DEF CopiesAreTrue, Updating
  <2>1. task[d].at \in Updating
    BY <1>3 DEF Updating
  <2>2. q = d
    BY <2>1, <1>5, <1>6, OneUpdates
  <2>3. /\ task[d].copy[a] # "half"
        /\ manifest[a] # "none" => task[d].copy[a] # "none"
        /\ task[d].copy[a] # "none" => manifest[a] # "none" \/ tree.file[a] # "none"
    BY <2>1, <1>6 DEF LibraryInv, CopiesAreTrue
  <2>4. tree.file[a] # "half"
    BY DEF LibraryInv, ManifestIsTrue, ArchivesAreWhole
  <2> QED BY <2>2, <2>3, <2>4, <1>2, <1>3, <1>5
<1>11. CollectionClears'
  BY <1>3, <1>6 DEF LibraryInv, CollectionClears, Doomed, Lapsed
<1>12. ManifestIsTrue'
  BY <1>3, <1>6 DEF LibraryInv, ManifestIsTrue, LibraryTypeOK, ArchivesAreWhole, NoLostRecord, MissingOnlyAfterCut
<1> QED BY <1>7, <1>8, <1>9, <1>10, <1>11, <1>12 DEF LibraryInv

(* ---------------------------- scans and collections ------------------------ *)
LEMMA ScanStarts ==
  ASSUME LibraryInv, StartScan
  PROVE  LibraryInv'
<1> DEFINE r == [task[Scanner] EXCEPT !.at = "scan", !.runs = @ - 1, !.todo = Pieces]
<1>0. LibraryTyped
  BY DEF LibraryInv
<1>1. /\ task' = [task EXCEPT ![Scanner] = r] /\ task[Scanner].at = "idle"
      /\ UNCHANGED <<tree, manifest, strays, locked, recorded>>
  BY Zenon DEF StartScan, Startable, Pieces
<1>2. TurnsInto(Scanner, "scan", task[Scanner].job, task[Scanner].copy, Pieces, task[Scanner].cut)
  <2>1. IsTask(r, "scan", task[Scanner].job, task[Scanner].copy, Pieces, task[Scanner].cut)
    BY <1>0, LibraryTypes, TurnsToScan, Kinds, PlaceNames
  <2> HIDE DEF r
  <2> QED BY <2>1, <1>0, <1>1, OneTask, Kinds
<1>3. /\ task' \in [LibProcesses -> TaskRecords] /\ task'[Scanner].at = "scan"
      /\ \A q \in LibProcesses : q # Scanner => task'[q] = task[q]
  BY <1>2 DEF TurnsInto, IsTask
<1>4. task'[Collector] = task[Collector]
  BY <1>3, Kinds
<1>5. LibraryTyped'
  BY <1>0, <1>1, <1>3, TypedNext DEF LibraryTyped, LibraryTypeOK, Amounts
<1>6. PlacesApart'
  BY <1>3, <1>4, Kinds DEF LibraryInv, PlacesApart
<1>7. LockGuards'
  BY <1>1, <1>3, Kinds DEF LibraryInv, LockGuards, Updating
<1>8. CopiesAreTrue'
  BY <1>1, <1>3, <1>4, Kinds DEF LibraryInv, CopiesAreTrue, Updating, Doomed
<1>9. CollectionClears'
  BY <1>1, <1>4 DEF LibraryInv, CollectionClears, Doomed, Lapsed
<1>10. ManifestIsTrue'
  BY <1>1, <1>4 DEF LibraryInv, ManifestIsTrue, LibraryTypeOK, ArchivesAreWhole, NoLostRecord, MissingOnlyAfterCut
<1> QED BY <1>5, <1>6, <1>7, <1>8, <1>9, <1>10 DEF LibraryInv

LEMMA VisitKeeps ==
  ASSUME LibraryInv, NEW f \in {"file", "tmp"} \X Archives, Visit(f)
  PROVE  LibraryInv'
<1> DEFINE present == tree[f[1]][f[2]]
           todo == task[Scanner].todo \ {f}
           copy == [task[Scanner].copy EXCEPT
                      ![f[2]] = IF f[1] = "file" /\ present # "none" THEN present ELSE @]
           own == IF f[1] = "tmp" /\ present # "none" THEN task[Scanner].strays \union {f[2]}
                  ELSE task[Scanner].strays
           r == [task[Scanner] EXCEPT !.todo = todo, !.copy = copy, !.strays = own]
<1>0. LibraryTyped /\ f[2] \in Archives
  BY DEF LibraryInv
<1>1. /\ task' = [task EXCEPT ![Scanner] = r] /\ task[Scanner].at = "scanning"
      /\ UNCHANGED <<tree, manifest, strays, locked, recorded>>
  BY Zenon DEF Visit
<1>2. copy \in [Archives -> Amounts] /\ own \in SUBSET Archives /\ todo \in SUBSET Pieces
  <2>1. tree["file"] \in [Archives -> Amounts]
    BY <1>0, LibraryTypes
  <2>2. copy \in [Archives -> Amounts]
    BY <2>1, <1>0, LibraryTypes, Kinds
  <2> QED BY <2>2, <1>0, LibraryTypes, Kinds
<1>3. \A a \in Archives : copy[a] = task[Scanner].copy[a] \/ (copy[a] = tree.file[a] /\ tree.file[a] # "none")
  <2>1. task[Scanner].copy \in [Archives -> Amounts]
    BY <1>0, LibraryTypes, Kinds
  <2> QED BY <2>1, <1>0
<1> HIDE DEF copy, own, todo
<1>4. TurnsInto(Scanner, "scanning", task[Scanner].job, copy, todo, task[Scanner].cut)
  <2>1. task[Scanner] \in TaskRecords /\ task[Scanner].cut \in BOOLEAN
    BY <1>0, LibraryTypes, Kinds
  <2>2. IsTask(r, task[Scanner].at, task[Scanner].job, copy, todo, task[Scanner].cut)
    BY <2>1, <1>2, TurnsFromPiece
  <2> HIDE DEF r
  <2> QED BY <2>2, <1>0, <1>1, OneTask, Kinds
<1>5. /\ task' \in [LibProcesses -> TaskRecords] /\ task'[Scanner].at = "scanning"
      /\ task'[Scanner].copy = copy
      /\ \A q \in LibProcesses : q # Scanner => task'[q] = task[q]
  BY <1>4 DEF TurnsInto, IsTask
<1>6. task'[Collector] = task[Collector]
  BY <1>5, Kinds
<1>7. LibraryTyped'
  BY <1>0, <1>1, <1>5, TypedNext DEF LibraryTyped, LibraryTypeOK, Amounts
<1>8. PlacesApart'
  BY <1>5, <1>6, Kinds DEF LibraryInv, PlacesApart
<1>9. LockGuards'
  BY <1>1, <1>5, Kinds DEF LibraryInv, LockGuards, Updating
<1>10. CopiesAreTrue'
  <2> SUFFICES ASSUME NEW q \in LibProcesses, task'[q].at \in Updating, NEW a \in Archives
               PROVE  /\ task'[q].copy[a] # "half"
                      /\ manifest'[a] # "none" => task'[q].copy[a] # "none" \/ (q = Collector /\ Doomed(a)')
                      /\ task'[q].copy[a] # "none" => manifest'[a] # "none" \/ tree'.file[a] # "none"
    BY DEF CopiesAreTrue, Updating
  <2>1. task[Scanner].at \in Updating
    BY <1>1 DEF Updating
  <2>2. q = Scanner
    BY <2>1, <1>5, Kinds, OneUpdates
  <2>3. /\ task[Scanner].copy[a] # "half"
        /\ manifest[a] # "none" => task[Scanner].copy[a] # "none"
        /\ task[Scanner].copy[a] # "none" => manifest[a] # "none" \/ tree.file[a] # "none"
    BY <2>1, Kinds DEF LibraryInv, CopiesAreTrue
  <2>4. tree.file[a] # "half"
    BY DEF LibraryInv, ManifestIsTrue, ArchivesAreWhole
  <2> QED BY <2>2, <2>3, <2>4, <1>1, <1>3, <1>5
<1>11. CollectionClears'
  BY <1>1, <1>6 DEF LibraryInv, CollectionClears, Doomed, Lapsed
<1>12. ManifestIsTrue'
  BY <1>1, <1>6 DEF LibraryInv, ManifestIsTrue, LibraryTypeOK, ArchivesAreWhole, NoLostRecord, MissingOnlyAfterCut
<1> QED BY <1>7, <1>8, <1>9, <1>10, <1>11, <1>12 DEF LibraryInv

\* A scan or a collection that has nothing left is about to save.
LEMMA EndsKeep ==
  ASSUME LibraryInv, ScanDone \/ CollectDone
  PROVE  LibraryInv'
<1>0. LibraryTyped
  BY DEF LibraryInv
<1>1. PICK p \in {Scanner, Collector} :
        /\ task[p].at \in {"scanning", "collecting"} /\ task[p].todo = {}
        /\ p = Collector => task[p].at = "collecting"
        /\ task' = [task EXCEPT ![p] = [task[p] EXCEPT !.at = "saving"]]
        /\ UNCHANGED <<tree, manifest, strays, locked, recorded>>
  BY Kinds, Zenon DEF ScanDone, CollectDone
<1> DEFINE r == [task[p] EXCEPT !.at = "saving"]
<1>2. TurnsInto(p, "saving", task[p].job, task[p].copy, task[p].todo, task[p].cut)
  <2>1. IsTask(r, "saving", task[p].job, task[p].copy, task[p].todo, task[p].cut)
    BY <1>0, LibraryTypes, Turns, Kinds, PlaceNames
  <2>2. task' = [task EXCEPT ![p] = r]
    BY <1>1
  <2> HIDE DEF r
  <2> QED BY <2>1, <2>2, <1>0, OneTask, Kinds
<1>3. /\ task' \in [LibProcesses -> TaskRecords] /\ task'[p].at = "saving"
      /\ task'[p].copy = task[p].copy /\ task'[p].job = task[p].job /\ task'[p].todo = task[p].todo
      /\ task'[p].cut = task[p].cut
      /\ \A q \in LibProcesses : q # p => task'[q] = task[q]
  BY <1>2 DEF TurnsInto, IsTask
<1>4. /\ task'[Collector].copy = task[Collector].copy /\ task'[Collector].job = task[Collector].job
      /\ task'[Collector].todo = task[Collector].todo /\ task'[Collector].cut = task[Collector].cut
  BY <1>3, Kinds
<1>5. LibraryTyped'
  BY <1>0, <1>1, <1>3, TypedNext DEF LibraryTyped, LibraryTypeOK, Amounts
<1>6. PlacesApart'
  BY <1>3, Kinds DEF LibraryInv, PlacesApart
<1>7. LockGuards'
  BY <1>1, <1>3, Kinds DEF LibraryInv, LockGuards, Updating
<1>8. CopiesAreTrue'
  <2> SUFFICES ASSUME NEW q \in LibProcesses, task'[q].at \in Updating, NEW a \in Archives
               PROVE  /\ task'[q].copy[a] # "half"
                      /\ manifest'[a] # "none" => task'[q].copy[a] # "none" \/ (q = Collector /\ Doomed(a)')
                      /\ task'[q].copy[a] # "none" => manifest'[a] # "none" \/ tree'.file[a] # "none"
    BY DEF CopiesAreTrue, Updating
  <2>1. task[q].at \in Updating /\ task'[q].copy = task[q].copy
    BY <1>1, <1>3 DEF Updating
  <2>2. Doomed(a)' <=> Doomed(a)
    BY <1>4 DEF Doomed
  <2> QED BY <2>1, <2>2, <1>1 DEF LibraryInv, CopiesAreTrue
<1>9. CollectionClears'
  <2>1. /\ Lapsed(manifest)' = Lapsed(manifest) /\ Lapsed(task[Collector].copy)' = Lapsed(task[Collector].copy)
        /\ \A a \in Archives : Doomed(a)' <=> Doomed(a)
    BY <1>1, <1>4 DEF Lapsed, Doomed
  <2>2. CASE p = Collector
    <3>1. Lapsed(task[Collector].copy) = {}
      BY <2>2, <1>1 DEF LibraryInv, CollectionClears
    <3> QED BY <2>1, <2>2, <3>1, <1>3, <1>4 DEF LibraryInv, CollectionClears
  <2>3. CASE p # Collector
    <3>1. task'[Collector].at = task[Collector].at
      BY <2>3, <1>3, Kinds
    <3> QED BY <2>1, <3>1, <1>4 DEF LibraryInv, CollectionClears
  <2> QED BY <2>2, <2>3
<1>10. ManifestIsTrue'
  BY <1>1, <1>4 DEF LibraryInv, ManifestIsTrue, LibraryTypeOK, ArchivesAreWhole, NoLostRecord, MissingOnlyAfterCut
<1> QED BY <1>5, <1>6, <1>7, <1>8, <1>9, <1>10 DEF LibraryInv

LEMMA CollectStarts ==
  ASSUME LibraryInv, StartCollect
  PROVE  LibraryInv'
<1> DEFINE doomed == {f \in {"file", "tmp"} \X Collected :
                        IF f[1] = "file" THEN manifest[f[2]] # "none" ELSE f[2] \in strays}
           job == [a \in Archives |-> IF <<"file", a>> \in doomed THEN "doomed" ELSE "none"]
           at == IF doomed = {} THEN "idle" ELSE "collect"
           r == [task[Collector] EXCEPT !.runs = @ - 1, !.todo = doomed, !.job = job, !.at = at]
<1>0. LibraryTyped
  BY DEF LibraryInv
<1>1. /\ task' = [task EXCEPT ![Collector] = r] /\ task[Collector].at = "idle"
      /\ UNCHANGED <<tree, manifest, strays, locked, recorded>>
  BY Zenon DEF StartCollect, Startable
<1>2. doomed \in SUBSET Pieces /\ job \in [Archives -> JobKinds] /\ at \in {"idle", "collect"}
  BY Kinds, PlaceNames DEF Pieces
<1>3. /\ \A a \in Archives : <<"file", a>> \in doomed <=> a \in Collected /\ manifest[a] # "none"
      /\ \A a \in Archives : job[a] = "doomed" <=> <<"file", a>> \in doomed
  OBVIOUS
<1> HIDE DEF doomed, job, at
<1>4. TurnsInto(Collector, at, job, task[Collector].copy, doomed, task[Collector].cut)
  <2>1. IsTask(r, at, job, task[Collector].copy, doomed, task[Collector].cut)
    BY <1>0, <1>2, LibraryTypes, TurnsToCollect, Kinds, PlaceNames
  <2> HIDE DEF r
  <2> QED BY <2>1, <1>0, <1>1, OneTask, Kinds
<1>5. /\ task' \in [LibProcesses -> TaskRecords] /\ task'[Collector].at = at
      /\ task'[Collector].job = job /\ task'[Collector].todo = doomed
      /\ task'[Collector].cut = task[Collector].cut
      /\ \A q \in LibProcesses : q # Collector => task'[q] = task[q]
  BY <1>4 DEF TurnsInto, IsTask
<1>6. LibraryTyped'
  BY <1>0, <1>1, <1>5, TypedNext DEF LibraryTyped, LibraryTypeOK, Amounts
<1>7. PlacesApart'
  BY <1>2, <1>5, Kinds DEF LibraryInv, PlacesApart
<1>8. task[Collector].at \notin Updating /\ task'[Collector].at \notin Updating
  BY <1>1, <1>2, <1>5 DEF Updating
<1>9. LockGuards'
  <2> SUFFICES ASSUME NEW q \in LibProcesses PROVE task'[q].at \in Updating <=> locked' = q
    BY DEF LockGuards, Updating
  <2>1. task[q].at \in Updating <=> locked = q
    BY DEF LibraryInv, LockGuards
  <2> QED BY <2>1, <1>1, <1>5, <1>8
<1>10. CopiesAreTrue'
  <2> SUFFICES ASSUME NEW q \in LibProcesses, task'[q].at \in Updating, NEW a \in Archives
               PROVE  /\ task'[q].copy[a] # "half"
                      /\ manifest'[a] # "none" => task'[q].copy[a] # "none" \/ (q = Collector /\ Doomed(a)')
                      /\ task'[q].copy[a] # "none" => manifest'[a] # "none" \/ tree'.file[a] # "none"
    BY DEF CopiesAreTrue, Updating
  <2>1. q # Collector /\ task'[q] = task[q]
    BY <1>5, <1>8
  <2> QED BY <2>1, <1>1 DEF LibraryInv, CopiesAreTrue
<1>11. CollectionClears'
  <2>1. Lapsed(manifest)' = Lapsed(manifest)
    BY <1>1 DEF Lapsed
  <2>2. \A a \in Archives : Doomed(a)' <=> <<"file", a>> \in doomed
    BY <1>3, <1>5 DEF Doomed
  <2>3. \A a \in Lapsed(manifest) : <<"file", a>> \in doomed
    BY <1>3 DEF LibraryInv, CollectionClears, Lapsed
  <2>4. \A a \in Archives : <<"file", a>> \in task'[Collector].todo => Doomed(a)' /\ a \in Collected
    BY <2>2, <1>3, <1>5
  <2>5. task'[Collector].at \notin {"collecting", "saving"}
    BY <1>8 DEF Updating
  <2> QED BY <2>1, <2>3, <2>4, <2>5, <1>5 DEF LibraryInv, CollectionClears
<1>12. ManifestIsTrue'
  BY <1>1, <1>5 DEF LibraryInv, ManifestIsTrue, LibraryTypeOK, ArchivesAreWhole, NoLostRecord, MissingOnlyAfterCut
<1> QED BY <1>6, <1>7, <1>9, <1>10, <1>11, <1>12 DEF LibraryInv

LEMMA DeleteKeeps ==
  ASSUME LibraryInv, NEW f \in {"file", "tmp"} \X Archives, Delete(f)
  PROVE  LibraryInv'
<1> DEFINE todo == task[Collector].todo \ {f}
           copy == IF f[1] = "file" THEN Drop(task[Collector].copy, f) ELSE task[Collector].copy
           own == IF f[1] = "tmp" THEN task[Collector].strays \ {f[2]} ELSE task[Collector].strays
           r == [task[Collector] EXCEPT !.todo = todo, !.cut = TRUE, !.copy = copy, !.strays = own]
<1>0. LibraryTyped /\ f[2] \in Archives /\ f[1] \in {"file", "tmp"} /\ f = <<f[1], f[2]>>
  BY DEF LibraryInv
<1>1. /\ task' = [task EXCEPT ![Collector] = r] /\ task[Collector].at = "collecting"
      /\ f \in task[Collector].todo /\ tree' = [tree EXCEPT ![f[1]][f[2]] = "none"]
      /\ UNCHANGED <<manifest, strays, locked, recorded>>
  BY Zenon DEF Delete
<1>2. task[Collector].copy \in [Archives -> Amounts]
  BY <1>0, LibraryTypes, Kinds
<1>3. copy \in [Archives -> Amounts] /\ own \in SUBSET Archives /\ todo \in SUBSET Pieces
  <2>1. copy \in [Archives -> Amounts]
    BY <1>0, <1>2, PlaceNames DEF Drop
  <2> QED BY <2>1, <1>0, LibraryTypes, Kinds
<1>4. \A a \in Archives : copy[a] = IF f = <<"file", a>> THEN "none" ELSE task[Collector].copy[a]
  BY <1>0, <1>2 DEF Drop
<1>5. \A g \in todo : g \in task[Collector].todo
  OBVIOUS
<1>6. \A a \in Archives : <<"file", a>> \in task[Collector].todo /\ f # <<"file", a>> => <<"file", a>> \in todo
  OBVIOUS
<1> HIDE DEF copy, own, todo
<1>7. TurnsInto(Collector, "collecting", task[Collector].job, copy, todo, TRUE)
  <2>1. task[Collector] \in TaskRecords /\ TRUE \in BOOLEAN
    BY <1>0, LibraryTypes, Kinds
  <2>2. IsTask(r, task[Collector].at, task[Collector].job, copy, todo, TRUE)
    BY <2>1, <1>3, TurnsFromPiece
  <2> HIDE DEF r
  <2> QED BY <2>2, <1>0, <1>1, OneTask, Kinds
<1>8. /\ task' \in [LibProcesses -> TaskRecords] /\ task'[Collector].at = "collecting"
      /\ task'[Collector].copy = copy /\ task'[Collector].job = task[Collector].job
      /\ task'[Collector].todo = todo
      /\ \A q \in LibProcesses : q # Collector => task'[q] = task[q]
  BY <1>7 DEF TurnsInto, IsTask
<1>9. task'[Collector].cut
  BY <1>7, Zenon DEF TurnsInto, IsTask
<1>10. /\ tree' \in [file : [Archives -> Amounts], tmp : [Archives -> {"none", "half"}]]
       /\ \A a \in Archives : tree'.file[a] = IF f = <<"file", a>> THEN "none" ELSE tree.file[a]
  <2>1. tree \in [file : [Archives -> Amounts], tmp : [Archives -> {"none", "half"}]]
    BY <1>0 DEF LibraryTyped, LibraryTypeOK, Amounts
  <2>2. CASE f[1] = "file"
    <3>1. tree' = [tree EXCEPT !.file = [tree.file EXCEPT ![f[2]] = "none"]]
      BY <2>2, <1>1, Zenon
    <3> QED BY <3>1, <2>1, <2>2, <1>0, PlaceNames
  <2>3. CASE f[1] = "tmp"
    <3>1. tree' = [tree EXCEPT !.tmp = [tree.tmp EXCEPT ![f[2]] = "none"]]
      BY <2>3, <1>1, Zenon
    <3> QED BY <3>1, <2>1, <2>3, <1>0
  <2> QED BY <2>2, <2>3, <1>0
<1>11. LibraryTyped'
  BY <1>0, <1>1, <1>8, <1>10, TypedNext DEF LibraryTyped, LibraryTypeOK, Amounts
<1>12. PlacesApart'
  BY <1>8, Kinds DEF LibraryInv, PlacesApart
<1>13. LockGuards'
  BY <1>1, <1>8, Kinds DEF LibraryInv, LockGuards, Updating
<1>14. \A a \in Archives : Doomed(a)' <=> Doomed(a)
  BY <1>8 DEF Doomed
<1>15. CopiesAreTrue'
  <2> SUFFICES ASSUME NEW q \in LibProcesses, task'[q].at \in Updating, NEW a \in Archives
               PROVE  /\ task'[q].copy[a] # "half"
                      /\ manifest'[a] # "none" => task'[q].copy[a] # "none" \/ (q = Collector /\ Doomed(a)')
                      /\ task'[q].copy[a] # "none" => manifest'[a] # "none" \/ tree'.file[a] # "none"
    BY DEF CopiesAreTrue, Updating
  <2>1. task[Collector].at \in Updating
    BY <1>1 DEF Updating
  <2>2. q = Collector
    BY <2>1, <1>8, Kinds, OneUpdates
  <2>3. /\ task[Collector].copy[a] # "half"
        /\ manifest[a] # "none" => task[Collector].copy[a] # "none" \/ Doomed(a)
        /\ task[Collector].copy[a] # "none" => manifest[a] # "none" \/ tree.file[a] # "none"
    BY <2>1, Kinds DEF LibraryInv, CopiesAreTrue
  <2>4. f = <<"file", a>> => Doomed(a)
    BY <1>1 DEF LibraryInv, CollectionClears
  <2> QED BY <2>2, <2>3, <2>4, <1>1, <1>4, <1>8, <1>10, <1>14
<1>16. CollectionClears'
  <2>1. Lapsed(manifest)' \subseteq Collected
    <3> SUFFICES ASSUME NEW a \in Archives, manifest[a] # "none", tree'.file[a] = "none"
                 PROVE  a \in Collected
      BY <1>1 DEF Lapsed
    <3>1. f = <<"file", a>> \/ a \in Lapsed(manifest)
      BY <1>10 DEF Lapsed
    <3> QED BY <3>1, <1>1 DEF LibraryInv, CollectionClears
  <2>2. \A a \in Archives : <<"file", a>> \in task'[Collector].todo => Doomed(a)' /\ a \in Collected
    BY <1>5, <1>8, <1>14 DEF LibraryInv, CollectionClears
  <2>3. \A a \in Lapsed(task[Collector].copy)' : <<"file", a>> \in task'[Collector].todo
    <3> SUFFICES ASSUME NEW a \in Archives, copy[a] # "none", tree'.file[a] = "none"
                 PROVE  <<"file", a>> \in todo
      BY <1>8 DEF Lapsed
    <3>1. f # <<"file", a>> /\ a \in Lapsed(task[Collector].copy)
      BY <1>4, <1>10 DEF Lapsed
    <3> QED BY <3>1, <1>1, <1>6 DEF LibraryInv, CollectionClears
  <2> QED BY <2>1, <2>2, <2>3, <1>8 DEF CollectionClears
<1>17. ManifestIsTrue'
  <2>1. LibraryTypeOK'
    BY <1>11 DEF LibraryTyped
  <2>2. ArchivesAreWhole' /\ NoLostRecord'
    BY <1>1, <1>10 DEF LibraryInv, ManifestIsTrue, ArchivesAreWhole, NoLostRecord
  <2>3. MissingOnlyAfterCut'
    BY <1>9, Zenon DEF MissingOnlyAfterCut
  <2> QED BY <2>1, <2>2, <2>3 DEF ManifestIsTrue
<1> QED BY <1>11, <1>12, <1>13, <1>15, <1>16, <1>17 DEF LibraryInv

\* Cut off or killed, a process drops its copy and the lock, and saves nothing.
LEMMA CutKeeps ==
  ASSUME LibraryInv, NEW p \in LibProcesses, UpdateCut(p) \/ LibraryKilled(p)
  PROVE  LibraryInv'
<1> DEFINE r == Idle(task[p].runs, task[p].cut)
<1>0. LibraryTyped
  BY DEF LibraryInv
<1>1. task' = [task EXCEPT ![p] = r] /\ UNCHANGED <<tree, manifest, strays, recorded>>
  BY Zenon DEF UpdateCut, LibraryKilled
<1>2. locked' = IF locked = p THEN NoProcess ELSE locked
  BY DEF UpdateCut, LibraryKilled, LibraryInv, LockGuards, Updating
<1>3. TurnsInto(p, "idle", NoFiles, NoFiles, {}, task[p].cut)
  <2>1. IsTask(r, "idle", NoFiles, NoFiles, {}, task[p].cut)
    BY <1>0, LibraryTypes, IdleRecord
  <2> HIDE DEF r
  <2> QED BY <2>1, <1>0, <1>1, OneTask
<1>4. /\ task' \in [LibProcesses -> TaskRecords] /\ task'[p].at = "idle" /\ task'[p].todo = {}
      /\ task'[p].cut = task[p].cut
      /\ \A q \in LibProcesses : q # p => task'[q] = task[q]
  BY <1>3 DEF TurnsInto, IsTask
<1>5. LibraryTyped'
  BY <1>0, <1>1, <1>2, <1>4, TypedNext DEF LibraryTyped, LibraryTypeOK, Amounts
<1>6. PlacesApart'
  BY <1>4, Kinds DEF LibraryInv, PlacesApart
<1>7. LockGuards'
  <2> SUFFICES ASSUME NEW q \in LibProcesses PROVE task'[q].at \in Updating <=> locked' = q
    BY DEF LockGuards, Updating
  <2>1. task[q].at \in Updating <=> locked = q
    BY DEF LibraryInv, LockGuards
  <2>2. "idle" \notin Updating /\ q # NoProcess
    BY Kinds DEF Updating
  <2> QED BY <2>1, <2>2, <1>2, <1>4
<1>8. CopiesAreTrue'
  <2> SUFFICES ASSUME NEW q \in LibProcesses, task'[q].at \in Updating, NEW a \in Archives
               PROVE  /\ task'[q].copy[a] # "half"
                      /\ manifest'[a] # "none" => task'[q].copy[a] # "none" \/ (q = Collector /\ Doomed(a)')
                      /\ task'[q].copy[a] # "none" => manifest'[a] # "none" \/ tree'.file[a] # "none"
    BY DEF CopiesAreTrue, Updating
  <2>1. q # p /\ task'[q] = task[q]
    BY <1>4 DEF Updating
  <2>2. q = Collector => (Doomed(a)' <=> Doomed(a))
    BY <2>1 DEF Doomed
  <2> QED BY <2>1, <2>2, <1>1 DEF LibraryInv, CopiesAreTrue
<1>9. CollectionClears'
  <2>1. Lapsed(manifest)' = Lapsed(manifest)
    BY <1>1 DEF Lapsed
  <2>2. CASE p = Collector
    BY <2>1, <2>2, <1>4 DEF LibraryInv, CollectionClears
  <2>3. CASE p # Collector
    <3>1. task'[Collector] = task[Collector]
      BY <2>3, <1>4, Kinds
    <3> QED BY <2>1, <3>1, <1>1 DEF LibraryInv, CollectionClears, Doomed, Lapsed
  <2> QED BY <2>2, <2>3
<1>10. ManifestIsTrue'
  <2>1. LibraryTypeOK'
    BY <1>5 DEF LibraryTyped
  <2>2. ArchivesAreWhole' /\ NoLostRecord'
    BY <1>1 DEF LibraryInv, ManifestIsTrue, ArchivesAreWhole, NoLostRecord
  <2>3. task'[Collector].cut = task[Collector].cut
    BY <1>4, Kinds
  <2>4. MissingOnlyAfterCut'
    BY <2>3, <1>1 DEF LibraryInv, ManifestIsTrue, MissingOnlyAfterCut
  <2> QED BY <2>1, <2>2, <2>4 DEF ManifestIsTrue
<1> QED BY <1>5, <1>6, <1>7, <1>8, <1>9, <1>10 DEF LibraryInv

(* -------------------------------- theorems -------------------------------- *)
LEMMA LibraryStarts ==
  ASSUME LibraryInit
  PROVE  LibraryInv
<1>1. /\ tree = [file |-> NoFiles, tmp |-> NoFiles] /\ manifest = NoFiles /\ strays = {}
      /\ locked = NoProcess /\ recorded = {} /\ NoFiles \in [Archives -> {"none"}]
  BY DEF LibraryInit, NoFiles
<1>2. \A p \in LibProcesses : IsTask(Idle(LibraryRuns[p], FALSE), "idle", NoFiles, NoFiles, {}, FALSE)
  <2> TAKE p \in LibProcesses
  <2>1. LibraryRuns[p] \in Int /\ FALSE \in BOOLEAN
    BY LibraryAssumption DEF LibProcesses
  <2> QED BY <2>1, IdleRecord
<1>3. /\ task \in [LibProcesses -> TaskRecords]
      /\ \A p \in LibProcesses : task[p].at = "idle" /\ task[p].todo = {}
  BY <1>2 DEF LibraryInit, IsTask
<1>4. LibraryTyped
  <2>1. LibraryTypeOK
    BY <1>1 DEF LibraryTypeOK
  <2> QED BY <1>1, <1>3, <2>1 DEF LibraryTyped
<1>5. PlacesApart /\ LockGuards /\ CopiesAreTrue
  BY <1>1, <1>3, Kinds DEF PlacesApart, LockGuards, CopiesAreTrue, Updating
<1>6. CollectionClears
  BY <1>1, <1>3, Kinds DEF CollectionClears, Lapsed
<1>7. ManifestIsTrue
  BY <1>1, <1>4 DEF LibraryTyped, ManifestIsTrue, ArchivesAreWhole, NoLostRecord, MissingOnlyAfterCut
<1> QED BY <1>4, <1>5, <1>6, <1>7 DEF LibraryInv

LEMMA LibraryStutters ==
  ASSUME LibraryInv, UNCHANGED libraryVars
  PROVE  LibraryInv'
BY DEF libraryVars, LibraryInv, LibraryTyped, LibraryTypeOK, PlacesApart, LockGuards, CopiesAreTrue,
       CollectionClears, Doomed, Lapsed, ManifestIsTrue, ArchivesAreWhole, NoLostRecord, MissingOnlyAfterCut

LEMMA LibrarySteps ==
  ASSUME LibraryInv, [LibraryNext]_libraryVars
  PROVE  LibraryInv'
<1>0. LibraryTyped
  BY DEF LibraryInv
<1>1. ASSUME NEW d \in Downloaders,
             StartDownload(d) \/ DownloadCancelled(d) \/ DownloadDone(d)
      PROVE  LibraryInv'
  BY <1>0, <1>1, StartDownloads, DownloadsAreCancelled, DownloadsEnd, DownloadingKeeps
<1>2. ASSUME NEW d \in Downloaders, NEW a \in Archives, Fetch(d, a) \/ Land(d, a) \/ BodyFails(d, a)
      PROVE  LibraryInv'
  BY <1>0, <1>2, Fetches, Lands, BodiesFail, DownloadingKeeps
<1>3. ASSUME NEW d \in Downloaders, Record(d)
      PROVE  LibraryInv'
  BY <1>3, RecordKeeps
<1>4. ASSUME NEW p \in LibProcesses, Load(p) \/ Save(p) \/ UpdateCut(p) \/ LibraryKilled(p)
      PROVE  LibraryInv'
  BY <1>4, LoadKeeps, SaveKeeps, CutKeeps
<1>5. ASSUME NEW f \in {"file", "tmp"} \X Archives, Visit(f) \/ Delete(f)
      PROVE  LibraryInv'
  BY <1>5, VisitKeeps, DeleteKeeps
<1>6. ASSUME StartScan \/ ScanDone \/ StartCollect \/ CollectDone
      PROVE  LibraryInv'
  BY <1>6, ScanStarts, EndsKeep, CollectStarts
<1> QED BY <1>1, <1>2, <1>3, <1>4, <1>5, <1>6, LibraryStutters DEF LibraryNext

(* The state of the library and of the processes at it keeps the invariant.     *)
THEOREM LibraryInductive == LibrarySpec => []LibraryInv
<1>1. LibraryInit => LibraryInv
  BY LibraryStarts
<1>2. LibraryInv /\ [LibraryNext]_libraryVars => LibraryInv'
  BY LibrarySteps
<1> QED BY <1>1, <1>2, PTL DEF LibrarySpec

(* Whatever is killed or cancelled, and whoever updates at the same time, an    *)
(* archive is in place whole or not at all, no record is lost, and only a      *)
(* collection that was cut off leaves a record without its file.               *)
THEOREM ManifestStaysTrue == LibrarySpec => []ManifestIsTrue
<1>1. LibraryInv => ManifestIsTrue
  BY DEF LibraryInv
<1> QED BY <1>1, LibraryInductive, PTL
=============================================================================
