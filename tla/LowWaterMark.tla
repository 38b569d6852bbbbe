---------------------------- MODULE LowWaterMark ----------------------------
(***************************************************************************)
(* What a resumable walk of a list promises, whatever runs underneath      *)
(* (ccrawl/recrawl_flight.go, the comment at its head): rows are settled   *)
(* in any order, a mark names where a resume starts, the mark only moves   *)
(* forward and never past a row that is not settled, and the walk is       *)
(* called done only when every row is.                                     *)
(***************************************************************************)
EXTENDS Integers

CONSTANTS
  End,    \* the end of the list, one past its last row
  Owned   \* the rows to settle

VARIABLES settled, mark, done

vars == <<settled, mark, done>>

Init == settled = {} /\ mark = 0 /\ done = FALSE

Settle ==
  /\ settled' \in SUBSET Owned /\ settled \subseteq settled'
  /\ UNCHANGED <<mark, done>>

\* Every row below position m is settled.
Covered(m) == \A r \in Owned : r < m => r \in settled

\* The mark may be written again where it is, never behind that.
Advance ==
  /\ ~done
  /\ \E m \in mark .. End : Covered(m) /\ mark' = m
  /\ done' \in {d \in BOOLEAN : d => Owned \subseteq settled}
  /\ UNCHANGED settled

Next == Settle \/ Advance

Spec == Init /\ [][Next]_vars
=============================================================================
