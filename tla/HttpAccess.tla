----------------------------- MODULE HttpAccess -----------------------------
(* How a request goes out (ccrawl/client.go, ratelimit.go): several processes  *)
(* share one file that hands out request slots to Common Crawl, one interval   *)
(* apart; a process that cannot use it, and a request to any other site, falls *)
(* back on the delay of the process; a failed attempt is made again after a    *)
(* backoff, or after the wait the server asked for.  Left out: signing for S3, *)
(* and a wall clock that is set back.                                          *)
EXTENDS Integers, FiniteSets, FiniteSetsExt

CONSTANTS
  Callers,          \* the requests made at once
  Processes,        \* the processes that make them
  Homes,            \* which process makes which: functions from Callers to Processes
  Interval, OwnDelay,  \* of the shared slots, and between the requests of one process
  HttpRetries,
  Backoff, BackoffMax,
  Advice,           \* values of Retry-After a server may send
  HttpFaults,       \* failures of the shared file, and kills
  LastTick          \* how far the clock runs

CONSTANT NoCaller   \* nobody

ASSUME HttpAssumption ==
  /\ Interval \in Nat \ {0} /\ OwnDelay \in Nat \ {0} /\ HttpRetries \in Nat /\ Advice \subseteq Nat
  /\ Backoff \in Nat \ {0} /\ BackoffMax \in Nat \ {0} /\ HttpFaults \in Nat
  /\ Homes \subseteq [Callers -> Processes] /\ LastTick \in Nat /\ NoCaller \notin Callers

VARIABLES
  clock,     \* [now, faults]
  slotFile,  \* [next, granted, holder]: the file, how many slots it gave, who locked it
  client,    \* per process: [shut, next]: it could not open the file, its own next time
  call,      \* per caller: [at, home, cc, attempt, wake, shared, advised, floor], the last
             \* one (history) the earliest time the answer before allows the next attempt
  grants,    \* the slots handed out so far (history)
  sent       \* [shared, own]: requests that went out by slot, by delay per process (history)

httpVars == <<clock, slotFile, client, call, grants, sent>>

HttpInit ==
  /\ clock = [now |-> 0, faults |-> HttpFaults]
  /\ slotFile = [next |-> 0, granted |-> 0, holder |-> NoCaller]
  /\ \E shut \in SUBSET Processes :
       client = [p \in Processes |-> [shut |-> p \in shut, next |-> 0]]
  /\ \E home \in Homes, cc \in [Callers -> BOOLEAN] :
       call = [c \in Callers |-> [at |-> "throttle", home |-> home[c], cc |-> cc[c], attempt |-> 0,
                                  wake |-> 0, shared |-> FALSE, advised |-> -1, floor |-> 0]]
  /\ grants = {}
  /\ sent = [shared |-> 0, own |-> [p \in Processes |-> 0]]

(* A call that is over keeps nothing.                                          *)
Over(c) == [call[c] EXCEPT !.at = "over", !.cc = FALSE, !.attempt = 0, !.wake = 0,
                           !.shared = FALSE, !.advised = -1, !.floor = 0]

HttpFault == clock.faults > 0 /\ clock' = [clock EXCEPT !.faults = @ - 1]

(* Only Common Crawl is asked by slots; the rest pays the delay of the process.*)
Slotted(c) == call[c].cc /\ ~client[call[c].home].shut

\* Mutant: the file is read without its lock.
NobodyHolds == TRUE

LockFree == slotFile.holder = NoCaller

Lock(c) ==
  /\ call[c].at = "throttle" /\ Slotted(c) /\ LockFree
  /\ slotFile' = [slotFile EXCEPT !.holder = c]
  /\ call' = [call EXCEPT ![c].at = "locked", ![c].wake = slotFile.next]
  /\ UNCHANGED <<clock, client, grants, sent>>

(* The slot is the time read or now; the file is pushed forward by an interval.*)
Stamp(c) ==
  /\ call[c].at = "locked"
  /\ LET slot == Max({call[c].wake, clock.now})
     IN /\ slotFile' = [slotFile EXCEPT !.next = slot + Interval, !.granted = @ + 1,
                                        !.holder = NoCaller]
        /\ call' = [call EXCEPT ![c].at = "waiting", ![c].wake = slot, ![c].shared = TRUE]
        /\ grants' = grants \union {slot}
  /\ UNCHANGED <<clock, client, sent>>

(* The delay of the process: its next free time, pushed forward in one step.   *)
OwnSlot(c) ==
  LET slot == Max({client[call[c].home].next, clock.now})
  IN /\ client' = [client EXCEPT ![call[c].home].next = slot + OwnDelay]
     /\ call' = [call EXCEPT ![c].at = "waiting", ![c].wake = slot, ![c].shared = FALSE]

ThrottleAlone(c) ==
  /\ call[c].at = "throttle" /\ ~Slotted(c)
  /\ OwnSlot(c)
  /\ UNCHANGED <<clock, slotFile, grants, sent>>

(* The file cannot be locked or written: this request falls back, the next one *)
(* of the process tries again.                                                 *)
LockFails(c) ==
  /\ HttpFault
  /\ (call[c].at = "throttle" /\ Slotted(c)) \/ call[c].at = "locked"
  /\ OwnSlot(c)
  /\ slotFile' = IF call[c].at = "locked" THEN [slotFile EXCEPT !.holder = NoCaller] ELSE slotFile
  /\ UNCHANGED <<grants, sent>>

SendRequest(c) ==
  /\ call[c].at = "waiting" /\ clock.now >= call[c].wake
  /\ call' = [call EXCEPT ![c].at = "sent", ![c].wake = 0, ![c].shared = FALSE,
                          ![c].floor = 0]
  /\ sent' = IF call[c].shared THEN [sent EXCEPT !.shared = @ + 1]
             ELSE [sent EXCEPT !.own[call[c].home] = @ + 1]
  /\ UNCHANGED <<clock, slotFile, client, grants>>

Succeeds(c) ==
  /\ call[c].at = "sent" /\ call' = [call EXCEPT ![c] = Over(c)]
  /\ UNCHANGED <<clock, slotFile, client, grants, sent>>

(* backoffDelay: the wait the server asked for, capped, or a doubling window    *)
(* whose first half is always waited out.                                      *)
RetryWindow(attempt) == Min({BackoffMax, Backoff * 2 ^ (attempt - 1)})
Waits(attempt, advised) ==
  IF advised >= 0 THEN {Min({advised, BackoffMax})}
  ELSE (RetryWindow(attempt) \div 2)..(2 * (RetryWindow(attempt) \div 2))

(* No answer, or a status worth another attempt; a status replaces the advice   *)
(* kept for the next wait, a lost connection leaves it as it was.              *)
Fails(c, outcome, advised) ==
  /\ call[c].at = "sent"
  /\ LET attempt == call[c].attempt + 1
         kept == IF outcome = "status" THEN advised ELSE call[c].advised
     IN IF attempt > HttpRetries THEN call' = [call EXCEPT ![c] = Over(c)]
        ELSE \E wait \in Waits(attempt, kept) :
               call' = [call EXCEPT ![c].at = "backoff", ![c].attempt = attempt,
                                    ![c].wake = clock.now + wait, ![c].advised = kept,
                                    ![c].floor = clock.now + Min(Waits(attempt, advised))]
  /\ UNCHANGED <<clock, slotFile, client, grants, sent>>

\* Mutant: the advice outlives the wait it was for.
BackoffEndsAdvised(c) ==
  /\ call[c].at = "backoff" /\ clock.now >= call[c].wake
  /\ call' = [call EXCEPT ![c].at = "throttle", ![c].wake = 0]
  /\ UNCHANGED <<clock, slotFile, client, grants, sent>>

\* Mutant: a retry goes out without asking for a slot.
BackoffEndsUnpaced(c) ==
  /\ call[c].at = "backoff" /\ clock.now >= call[c].wake
  /\ call' = [call EXCEPT ![c].at = "waiting", ![c].advised = -1]
  /\ UNCHANGED <<clock, slotFile, client, grants, sent>>

BackoffEnds(c) ==
  /\ call[c].at = "backoff" /\ clock.now >= call[c].wake
  /\ call' = [call EXCEPT ![c].at = "throttle", ![c].wake = 0, ![c].advised = -1]
  /\ UNCHANGED <<clock, slotFile, client, grants, sent>>

(* A cancelled wait gives up its slot, which nobody else gets.                 *)
CallCancelled(c) ==
  /\ call[c].at \in {"waiting", "backoff"}
  /\ call' = [call EXCEPT ![c] = Over(c)]
  /\ UNCHANGED <<clock, slotFile, client, grants, sent>>

(* A process is killed; the system drops its lock on the file.                 *)
ProcessKilled(p) ==
  LET theirs == {c \in Callers : call[c].home = p}
  IN /\ HttpFault
     /\ \E c \in theirs : call[c].at # "over"
     /\ call' = [c \in Callers |-> IF c \in theirs THEN Over(c) ELSE call[c]]
     /\ slotFile' = [slotFile EXCEPT !.holder = IF @ \in theirs THEN NoCaller ELSE @]
     /\ UNCHANGED <<client, grants, sent>>

HttpTick ==
  /\ clock.now < LastTick /\ clock' = [clock EXCEPT !.now = @ + 1]
  /\ UNCHANGED <<slotFile, client, call, grants, sent>>

HttpNext ==
  \/ \E c \in Callers : \/ Lock(c) \/ Stamp(c) \/ ThrottleAlone(c) \/ LockFails(c) \/ SendRequest(c)
                        \/ Succeeds(c) \/ BackoffEnds(c) \/ CallCancelled(c)
                        \/ Fails(c, "transport", -1) \/ Fails(c, "status", -1)
                        \/ \E advised \in Advice : Fails(c, "status", advised)
  \/ \E p \in Processes : ProcessKilled(p)
  \/ HttpTick

HttpSpec == HttpInit /\ [][HttpNext]_httpVars

(* -------------------------------- properties ------------------------------ *)
HttpTypeOK ==
  /\ clock.now \in 0..LastTick /\ slotFile.holder \in Callers \union {NoCaller}
  /\ \A c \in Callers : /\ call[c].attempt \in 0..HttpRetries
                        /\ call[c].at \in {"throttle", "locked", "waiting", "sent", "backoff", "over"}
  /\ slotFile.granted \in Nat /\ grants \subseteq Nat

(* No two slots are less than an interval apart, whichever processes they went  *)
(* to and whoever was killed or cancelled in between.                          *)
SlotsApart ==
  /\ Cardinality(grants) = slotFile.granted
  /\ \A a, b \in grants : a < b => b - a >= Interval

(* The processes that use the file never exceed the shared rate between them,   *)
(* retries included, and no process exceeds its own rate on what it sends by    *)
(* its delay.                                                                  *)
RateHeld ==
  /\ sent.shared <= 1 + clock.now \div Interval
  /\ \A p \in Processes : sent.own[p] <= 1 + clock.now \div OwnDelay

(* No request may go out sooner than the answer before it allows: the wait that *)
(* answer asked for up to the cap, else at least half of the backoff window.    *)
AdviceHeld ==
  \A c \in Callers :
    call[c].at = "waiting" /\ clock.now >= call[c].wake => clock.now >= call[c].floor

(* Requests go out at the rate the site allows, however many processes and      *)
(* retries they are.                                                           *)
RequestsArePolite == HttpTypeOK /\ SlotsApart /\ RateHeld /\ AdviceHeld

(* -------------------------- the inductive invariant ----------------------- *)
CallRecords ==
  [at : {"throttle", "locked", "waiting", "sent", "backoff", "over"},
   home : Processes, cc : BOOLEAN, attempt : 0..HttpRetries, wake : Int,
   shared : BOOLEAN, advised : Nat \union {-1}, floor : Int]

HttpTyped ==
  /\ clock \in [now : 0..LastTick, faults : Nat]
  /\ slotFile \in [next : Nat, granted : Nat, holder : Callers \union {NoCaller}]
  /\ client \in [Processes -> [shut : BOOLEAN, next : Nat]]
  /\ call \in [Callers -> CallRecords]
  /\ grants \in SUBSET Nat /\ sent \in [shared : Nat, own : [Processes -> Nat]]

(* The one who locked the file is the one between its read and its write, and  *)
(* the time it read is still there.                                            *)
LockIsHeld ==
  /\ \A c \in Callers : call[c].at = "locked" <=> slotFile.holder = c
  /\ \A c \in Callers : call[c].at = "locked" => call[c].wake = slotFile.next

(* A slot keeps its distance from those before it and from the next free time. *)
SlotsBehind ==
  /\ IsFiniteSet(grants) /\ SlotsApart
  /\ \A g \in grants : g + Interval <= slotFile.next

(* Slots that were used, as many as n, and slots that are waited for, are all   *)
(* a gap apart, and a gap before the next free time.                           *)
Distant(a, b, gap) == a + gap <= b \/ b + gap <= a

Paced(waiters, wake, next, gap, now, n) ==
  /\ \A c \in waiters : wake[c] \in Nat /\ wake[c] + gap <= next
  /\ \A c, d \in waiters : c # d => Distant(wake[c], wake[d], gap)
  /\ \E used \in SUBSET (0..now) :
       /\ Cardinality(used) = n
       /\ \A u, v \in used : u # v => Distant(u, v, gap)
       /\ \A u \in used : u + gap <= next
       /\ \A u \in used, c \in waiters : Distant(u, wake[c], gap)

Wakes         == [c \in Callers |-> call[c].wake]
SharedWaiters == {c \in Callers : call[c].at = "waiting" /\ call[c].shared}
OwnWaiters(p) == {c \in Callers : call[c].at = "waiting" /\ ~call[c].shared /\ call[c].home = p}

SendsArePaced ==
  /\ Paced(SharedWaiters, Wakes, slotFile.next, Interval, clock.now, sent.shared)
  /\ \A p \in Processes :
       Paced(OwnWaiters(p), Wakes, client[p].next, OwnDelay, clock.now, sent.own[p])

(* The advice of an answer is for the wait after it and is gone by the next     *)
(* attempt; a call that is past its wait is past what was asked for.           *)
AdviceIsTaken ==
  \A c \in Callers :
    /\ call[c].at # "backoff" => call[c].advised = -1
    /\ call[c].at = "backoff" => call[c].floor <= call[c].wake
    /\ call[c].at \in {"throttle", "locked", "waiting"} => call[c].floor <= clock.now

HttpInv == HttpTyped /\ LockIsHeld /\ SlotsBehind /\ SendsArePaced /\ AdviceIsTaken
=============================================================================
