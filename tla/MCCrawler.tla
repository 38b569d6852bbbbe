------------------------------ MODULE MCCrawler ------------------------------
(* A seed page that links to a page of another host, and a second seed of its host. *)
EXTENDS Crawler

CONSTANTS u1, u2, u3, a, b, w1, w2

MCHostOf == u1 :> a @@ u2 :> a @@ u3 :> b
MCRank == u1 :> 3 @@ u2 :> 2 @@ u3 :> 1
MCLinks == u1 :> {u2, u3} @@ u2 :> {} @@ u3 :> {}
MCSeeds == <<u1, u2>>
TwoWorkers == Permutations({w1, w2})
SlowOrNot == a :> "slow" @@ b :> "refuse"
AllOpen == a :> "open" @@ b :> "open"
=============================================================================
