----------------------------- MODULE FleetLedger -----------------------------
(***************************************************************************)
(* Three machines, one repository (ccrawl/recrawl_ledger.go, the side car  *)
(* of publish_recrawl.go, recrawl_readme.go): every server writes a ledger *)
(* file of its own, and with every commit a card made from the ledgers it  *)
(* found on the hub some time before.  The hub has no compare and set.     *)
(***************************************************************************)
EXTENDS Integers, FiniteSets, Functions

CONSTANTS
  Servers,
  Ledgers,       \* the ledger paths: [server, shard, of]
  FleetBatch,    \* shards of one commit, at most
  FleetCommits,  \* bound of the model: commits on the hub
  FleetFaults    \* bound of the model

ASSUME FleetAssumption ==
  /\ Ledgers \subseteq [server : Servers, shard : Nat, of : Nat \ {0}]
  /\ IsFiniteSet(Ledgers) /\ Ledgers # {}
  /\ FleetBatch \in Nat \ {0} /\ {FleetCommits, FleetFaults} \subseteq Nat

VARIABLES
  repo,        \* [rows: ledger -> [files, at], files: ledger -> Nat, card, commits]
  publisher,   \* server -> [at, ledger, stat, batch, todo, seen, landed]
  fleet        \* history: [faults, exact]

fleetVars == <<repo, publisher, fleet>>

\* A ledger that is not there is a row without a commit time.
NoRow == [files |-> 0, at |-> 0]
Down == [at |-> "down", ledger |-> CHOOSE l \in Ledgers : TRUE, stat |-> NoRow, batch |-> 0,
         todo |-> {}, seen |-> {}, landed |-> FALSE]
Present == {l \in Ledgers : repo.rows[l].at > 0}
HubFiles == SumFunctionOnSet(repo.files, Ledgers)

FleetTypeOK ==
  /\ \A l \in Ledgers : repo.rows[l].files \in Nat /\ repo.rows[l].at \in 0 .. FleetCommits
  /\ \A s \in Servers :
       /\ publisher[s].at \in {"down", "idle", "list", "peers", "commit"}
       /\ publisher[s].ledger \in Ledgers /\ publisher[s].batch \in 0 .. FleetBatch
       /\ publisher[s].todo \subseteq Present

FleetInit ==
  /\ repo = [rows |-> [l \in Ledgers |-> NoRow], files |-> [l \in Ledgers |-> 0],
             card |-> 0, commits |-> 0]
  /\ publisher = [s \in Servers |-> Down] /\ fleet = [faults |-> 0, exact |-> TRUE]

FleetFault == fleet.faults < FleetFaults
Wrong == fleet' = [fleet EXCEPT !.faults = @ + 1]

\* Mutant: a publisher starts counting from zero.
SeedAnew(l) == NoRow
\* "Resume from the hub rather than from anything local".
Seed(l) == repo.rows[l]

Boot(s) ==
  /\ publisher[s].at = "down"
  /\ \E l \in {l \in Ledgers : l.server = s} :
       publisher' = [publisher EXCEPT ![s] = [Down EXCEPT !.at = "idle", !.ledger = l,
                                                          !.stat = Seed(l)]]
  /\ UNCHANGED <<repo, fleet>>

\* New shards: the row says at once what it will be with them.
Pass(s) ==
  /\ publisher[s].at = "idle" /\ repo.commits < FleetCommits
  /\ \E n \in 1 .. FleetBatch : publisher' =
       [publisher EXCEPT ![s].at = "list", ![s].batch = n, ![s].landed = FALSE, ![s].seen = {},
                         ![s].stat = [files |-> @.files + n, at |-> repo.commits + 1]]
  /\ UNCHANGED <<repo, fleet>>

Peers(s) == Present \ {publisher[s].ledger}

ListRepoFiles(s) ==
  /\ publisher[s].at = "list"
  /\ publisher' = [publisher EXCEPT ![s].at = "peers", ![s].todo = Peers(s)]
  /\ UNCHANGED <<repo, fleet>>

\* One file after the other: the snapshot has no single time.
fetchRecrawlLedger(s) ==
  /\ publisher[s].at = "peers" /\ publisher[s].todo # {}
  /\ \E l \in publisher[s].todo :
       publisher' = [publisher EXCEPT ![s].todo = @ \ {l},
                                      ![s].seen = @ \union {[of |-> l, row |-> repo.rows[l]]}]
  /\ UNCHANGED <<repo, fleet>>

Gathered(s) ==
  /\ publisher[s].at = "peers" /\ publisher[s].todo = {}
  /\ publisher' = [publisher EXCEPT ![s].at = "commit"]
  /\ UNCHANGED <<repo, fleet>>

\* Mutant: one row for a shard.
MergedByShard(rows) ==
  {r \in rows : \A q \in rows : q.of.shard = r.of.shard => q.row.at <= r.row.at}

\* The newest row of a server and a shard, whatever files they come from.
MergeRecrawlStats(rows) ==
  {r \in rows : \A q \in rows : q.of.server = r.of.server /\ q.of.shard = r.of.shard
                                  => q.row.at <= r.row.at}

TotalRecrawlStats(rows) == SumFunction([r \in rows |-> r.row.files])

\* Mutant: the batch is in the row and is added once more.
CardAhead(s) ==
  publisher[s].batch + TotalRecrawlStats(MergeRecrawlStats(
    publisher[s].seen \union {[of |-> publisher[s].ledger, row |-> publisher[s].stat]}))

Card(s) ==
  TotalRecrawlStats(MergeRecrawlStats(
    publisher[s].seen \union {[of |-> publisher[s].ledger, row |-> publisher[s].stat]}))

\* The shards, the row and the card, in one commit; paths say what is in a shard, so
\* that it is the same when it is sent twice.
Lands(s, shards) ==
  LET l == publisher[s].ledger
  IN repo' = [repo EXCEPT !.rows[l] = publisher[s].stat, !.card = Card(s), !.commits = @ + 1,
                          !.files[l] = IF publisher[s].landed THEN @ ELSE @ + shards]

FleetCommit(s) ==
  /\ publisher[s].at = "commit" /\ repo.commits < FleetCommits
  /\ Lands(s, publisher[s].batch)
  /\ publisher' = [publisher EXCEPT ![s].at = "idle", ![s].batch = 0]
  /\ UNCHANGED fleet

FleetUnanswered(s) ==
  /\ publisher[s].at = "commit" /\ repo.commits < FleetCommits /\ FleetFault /\ Wrong
  /\ Lands(s, publisher[s].batch)
  /\ publisher' = [publisher EXCEPT ![s].landed = TRUE]

\* A shard swept away while it waits: the commit goes without it, the row counts it.
FleetVanish(s) ==
  /\ publisher[s].at = "commit" /\ repo.commits < FleetCommits /\ FleetFault
  /\ ~publisher[s].landed
  /\ Lands(s, publisher[s].batch - 1)
  /\ publisher' = [publisher EXCEPT ![s].at = "idle", ![s].batch = 0]
  /\ fleet' = [faults |-> fleet.faults + 1, exact |-> FALSE]

\* An error, a kill: the next start finds on the hub what landed.
FleetDown(s) ==
  /\ publisher[s].at # "down" /\ FleetFault /\ Wrong
  /\ publisher' = [publisher EXCEPT ![s] = Down]
  /\ UNCHANGED repo

FleetNext ==
  \E s \in Servers :
    \/ Boot(s) \/ Pass(s) \/ ListRepoFiles(s) \/ fetchRecrawlLedger(s) \/ Gathered(s)
    \/ FleetCommit(s) \/ FleetUnanswered(s) \/ FleetVanish(s) \/ FleetDown(s)

(***************************************************************************)
(* Properties.                                                             *)
(***************************************************************************)

\* "there is nothing to lose" (recrawl_ledger.go:23): whatever the servers interleave,
\* repeat or lose the answer to, a ledger says what its server has on the hub.
LedgersAreExact == fleet.exact => \A l \in Ledgers : repo.rows[l].files = repo.files[l]

\* "until then it undercounts rather than overcounts" (recrawl_ledger.go:27).
CardUndercounts == fleet.exact => repo.card <= HubFiles

\* "corrected by the next commit from any server" (recrawl_ledger.go:26), when nobody
\* commits between its look at the ledgers and its commit, and no server has two of one
\* shard: then the newer hides the older for good.
CardCatchesUp ==
  \A s \in Servers :
       /\ publisher[s].at = "commit" /\ repo' # repo /\ publisher'[s] # publisher[s] /\ fleet'.exact
       /\ \A l \in Present \ {publisher[s].ledger} :
            [of |-> l, row |-> repo.rows[l]] \in publisher[s].seen
       /\ \A k, l \in Present \union {publisher[s].ledger} :
            k # l => k.server # l.server \/ k.shard # l.shard
       => repo'.card = HubFiles'

\* In every step of every server: exact ledgers, and a card that is behind at most.
LedgersHold == [][FleetTypeOK' /\ LedgersAreExact' /\ CardUndercounts' /\ CardCatchesUp]_fleetVars
=============================================================================
