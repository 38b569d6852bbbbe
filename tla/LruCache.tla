------------------------------ MODULE LruCache ------------------------------
(***************************************************************************)
(* What a bounded cache promises: the entries in order of their last use,  *)
(* the one just stored always kept, and of the others as many of the most  *)
(* recent as fit in both bounds.                                           *)
(***************************************************************************)
EXTENDS Integers, Sequences, FiniteSetsExt, SequencesExt

CONSTANTS LruKeys, LruEntries, LruBytes, LruSizes

VARIABLES recent, weight

\* The longest part of the order, from the front, that fits; the first always does.
Fits(order, size) ==
  LET load[n \in 0 .. Len(order)] == IF n = 0 THEN 0 ELSE load[n - 1] + size[order[n]]
      whole == {n \in 1 .. Len(order) : n <= LruEntries /\ load[n] <= LruBytes}
  IN SubSeq(order, 1, Max({1} \union whole))

LruInit == recent = <<>> /\ weight = [k \in LruKeys |-> 0]

Used(k, now, then) == k \in ToSet(now) /\ then = <<k>> \o Remove(now, k)
Forgotten(k, now, then) == k \in ToSet(now) /\ then = Remove(now, k)

\* What a new entry displaces.
Stored(k, now, then, w, wthen) ==
  \E s \in LruSizes :
    LET size == [w EXCEPT ![k] = s]
        order == Fits(<<k>> \o Remove(now, k), size)
    IN then = order /\ wthen = [x \in LruKeys |-> IF x \in ToSet(order) THEN size[x] ELSE 0]

LruStep(now, then, w, wthen) ==
  /\ <<now, w>> # <<then, wthen>>
  /\ \E k \in LruKeys :
       \/ Used(k, now, then) /\ wthen = w
       \/ Forgotten(k, now, then) /\ wthen = [w EXCEPT ![k] = 0]
       \/ Stored(k, now, then, w, wthen)

LruNext == LruStep(recent, recent', weight, weight')

LruSpec == LruInit /\ [][LruNext]_<<recent, weight>>
=============================================================================
