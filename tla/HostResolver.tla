---------------------------- MODULE HostResolver ----------------------------
(* The resolver under the connections of a recrawl (ccrawl/resolver.go,        *)
(* webpool.go): a run-long cache of names, a bound on the lookups open at once, *)
(* and a race between several resolvers for each of them.                      *)
EXTENDS Integers, FiniteSets

CONSTANTS
  Dialers,       \* the connections being opened at once
  Names,         \* the host names they go to
  Resolvers,     \* the system's own and the public ones
  KnownBy,       \* which resolvers know which name: functions Names -> SUBSET Resolvers
  MaxLookups,    \* the bound on open lookups
  Dials          \* how many connections each dialer opens

ASSUME ResolverAssumption ==
  /\ MaxLookups \in Nat \ {0} /\ Dials \in Nat
  /\ KnownBy \subseteq [Names -> SUBSET Resolvers]

VARIABLES
  knownBy,   \* the resolvers that know each name
  names,     \* [cache, dead]: answered names, names every resolver said are gone
  slots,     \* the dialers that hold a lookup slot
  dial,      \* per dialer: [at, host, asked, allNX, left]
  tally      \* [hits, lookups, failed, nx, dropped]

resolverVars == <<knownBy, names, slots, dial, tally>>

ResolverInit ==
  /\ knownBy \in KnownBy
  /\ names = [cache |-> {}, dead |-> {}] /\ slots = {}
  /\ \E host \in Names :
       dial = [d \in Dialers |-> [at |-> "idle", host |-> host, asked |-> {}, allNX |-> TRUE,
                                  left |-> Dials]]
  /\ tally = [hits |-> 0, lookups |-> 0, failed |-> 0, nx |-> 0, dropped |-> 0]

KnownName(host) == host \in names.cache \union names.dead
Verdict(host) == IF host \in names.dead THEN "unresolved" ELSE "resolved"

(* A name already answered costs nothing; a dead one is answered first.        *)
Lookup(d, host) ==
  /\ dial[d].at = "idle" /\ dial[d].left > 0
  /\ dial' = [dial EXCEPT ![d].host = host, ![d].left = @ - 1,
                          ![d].at = IF KnownName(host) THEN Verdict(host) ELSE "queued"]
  /\ tally' = IF KnownName(host) THEN [tally EXCEPT !.hits = @ + 1] ELSE tally
  /\ UNCHANGED <<knownBy, names, slots>>

TakeSlot(d) ==
  /\ dial[d].at = "queued" /\ Cardinality(slots) < MaxLookups
  /\ slots' = slots \union {d}
  /\ dial' = [dial EXCEPT ![d].at = "again"]
  /\ UNCHANGED <<knownBy, names, tally>>

GiveUp(d) ==
  /\ dial[d].at = "queued"
  /\ dial' = [dial EXCEPT ![d].at = "unresolved"]
  /\ tally' = [tally EXCEPT !.dropped = @ + 1]
  /\ UNCHANGED <<knownBy, names, slots>>

\* Mutant: the wait for a slot is taken to have changed nothing.
LookAgainNever(d) ==
  /\ dial[d].at = "again"
  /\ dial' = [dial EXCEPT ![d].at = "racing", ![d].asked = Resolvers, ![d].allNX = TRUE]
  /\ tally' = [tally EXCEPT !.lookups = @ + 1]
  /\ UNCHANGED <<knownBy, names, slots>>

(* Another dialer may have answered the question while this one waited.        *)
LookAgain(d) ==
  /\ dial[d].at = "again"
  /\ IF KnownName(dial[d].host)
       THEN /\ dial' = [dial EXCEPT ![d].at = Verdict(dial[d].host)]
            /\ slots' = slots \ {d}
            /\ tally' = [tally EXCEPT !.hits = @ + 1]
       ELSE /\ dial' = [dial EXCEPT ![d].at = "racing", ![d].asked = Resolvers,
                                    ![d].allNX = TRUE]
            /\ tally' = [tally EXCEPT !.lookups = @ + 1]
            /\ UNCHANGED slots
  /\ UNCHANGED <<knownBy, names>>

(* The first addresses win the race and the others are no longer listened to.  *)
Addresses(d, r) ==
  /\ dial[d].at = "racing" /\ r \in dial[d].asked /\ r \in knownBy[dial[d].host]
  /\ names' = [names EXCEPT !.cache = @ \union {dial[d].host}]
  /\ dial' = [dial EXCEPT ![d].at = "resolved", ![d].asked = {}]
  /\ slots' = slots \ {d}
  /\ UNCHANGED <<knownBy, tally>>

\* Mutant: a lookup that came to nothing is a name that is gone.
GoneIfNothing(d, nx) == TRUE

Gone(d, nx) == dial[d].allNX /\ nx

(* A resolver says the name is gone, or nothing at all.  Only when the last one *)
(* has answered, and all said it is gone, is it remembered as gone.            *)
NoAddress(d, r, nx) ==
  /\ dial[d].at = "racing" /\ r \in dial[d].asked
  /\ nx => r \notin knownBy[dial[d].host]
  /\ IF dial[d].asked # {r}
       THEN /\ dial' = [dial EXCEPT ![d].asked = @ \ {r}, ![d].allNX = @ /\ nx]
            /\ UNCHANGED <<names, slots, tally>>
       ELSE /\ dial' = [dial EXCEPT ![d].at = "unresolved", ![d].asked = {}]
            /\ slots' = slots \ {d}
            /\ names' = IF Gone(d, nx) THEN [names EXCEPT !.dead = @ \union {dial[d].host}]
                        ELSE names
            /\ tally' = [tally EXCEPT !.failed = @ + 1,
                                      !.nx = @ + (IF Gone(d, nx) THEN 1 ELSE 0)]
  /\ UNCHANGED knownBy

\* Mutant: the dialer asks the system resolver itself about an unresolved name.
DialAsksAgain(d) ==
  /\ dial[d].at \in {"resolved", "unresolved"}
  /\ dial' = IF dial[d].at = "resolved" THEN [dial EXCEPT ![d].at = "idle"]
             ELSE [dial EXCEPT ![d].at = "racing", ![d].asked = Resolvers]
  /\ UNCHANGED <<knownBy, names, slots, tally>>

(* The addresses are dialled in turn; an unresolved name is an error at once.  *)
Dial(d) ==
  /\ dial[d].at \in {"resolved", "unresolved"}
  /\ dial' = [dial EXCEPT ![d].at = "idle"]
  /\ UNCHANGED <<knownBy, names, slots, tally>>

ResolverNext ==
  \E d \in Dialers :
    \/ \E host \in Names : Lookup(d, host)
    \/ TakeSlot(d) \/ GiveUp(d) \/ LookAgain(d) \/ Dial(d)
    \/ \E r \in Resolvers : Addresses(d, r) \/ NoAddress(d, r, TRUE) \/ NoAddress(d, r, FALSE)

ResolverSpec == ResolverInit /\ [][ResolverNext]_resolverVars

(* -------------------------------- properties ------------------------------ *)
ResolverTypeOK ==
  /\ names.cache \subseteq Names /\ names.dead \subseteq Names /\ slots \subseteq Dialers
  /\ \A d \in Dialers : dial[d].at \in {"idle", "queued", "again", "racing", "resolved",
                                        "unresolved"}

(* A name some resolver knows is never written off for the run, whatever was    *)
(* dropped or timed out; a name is never both answered and gone.               *)
DeadIsGone ==
  /\ \A host \in names.dead : knownBy[host] = {}
  /\ names.dead \intersect names.cache = {}

(* No more than the bound of lookups are ever open, the dialer's own included,  *)
(* and only a race can fail.                                                   *)
LookupsBounded ==
  /\ Cardinality({d \in Dialers : dial[d].at = "racing"}) <= MaxLookups
  /\ tally.failed <= tally.lookups
  /\ tally.nx <= tally.failed

(* No race begins for a name that was answered while the dialer waited.        *)
AnsweredIsNotAsked ==
  \A d \in Dialers : dial[d].at # "racing" /\ dial'[d].at = "racing"
                       => ~KnownName(dial[d].host)

(* Every lookup asks what is not known, within the bound, and settles what it   *)
(* may settle.                                                                 *)
LookupsAreSound ==
  [][ResolverTypeOK' /\ DeadIsGone' /\ LookupsBounded' /\ AnsweredIsNotAsked]_resolverVars
=============================================================================
