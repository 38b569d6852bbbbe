--------------------------- MODULE MCRecrawlPublish ---------------------------
(* Small instances of RecrawlPublish for TLC. *)
EXTENDS HandoffInvariant

\* The fleet's units start every run with the same flags.
SamePrefix == [r \in Runs |-> 1]

\* An operator who names every run.
OwnPrefix == [r \in Runs |-> r]
=============================================================================
