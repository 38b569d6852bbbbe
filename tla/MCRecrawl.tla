------------------------------ MODULE MCRecrawl ------------------------------
(* Small instances of Recrawl for TLC. *)
EXTENDS RecrawlInvariant, TLC

\* Two hosts, the first with most of the rows at the head of the list: the
\* shape of a list sorted by host.
SortedHosts == [r \in Rows |-> IF r < N - 1 THEN "a" ELSE "b"]

\* Hosts that alternate.
MixedHosts == [r \in Rows |-> IF r % 2 = 0 THEN "a" ELSE "b"]

AllRows == Rows

\* One machine of a fleet of two owns every other row.
EvenRows == {r \in Rows : r % 2 = 0}

PoolSymmetry == Permutations(Workers)
=============================================================================
