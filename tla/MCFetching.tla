----------------------------- MODULE MCFetching -----------------------------
(* The fetching side, component by component, as MCPublishing has the          *)
(* publishing side: subject picks the component that runs, the others keep the *)
(* quiescent state they start in.                                              *)
EXTENDS RobotsCache, PackRun, ShardPack, BatchFetch, WARCFiles

CONSTANTS h1, h2, h3, w1, w2

VARIABLE subject

MCShards == 1..3
MCPast == {{}, {3}}
MCSources == {<<1,2,1,3>>, <<0,1,2,1>>, <<1,1,2>>}
L(f, o, n) == [file |-> f, off |-> o, len |-> n]
MCInputs == {<<L(1,8,1), L(1,0,2), L(2,0,1), L(1,3,2)>>,
             <<L(1,0,6), L(1,1,1), L(1,7,1)>>,
             <<L(1,2,1), L(1,2,1), L(1,0,1), L(2,5,3)>>,
             <<L(1,0,2), L(1,3,2), L(2,0,2), L(3,0,1), L(4,0,1)>>}

fetchingVars == <<subject, robotsVars, packVars, shardVars, batchVars, archiveVars>>

FetchingInit ==
  /\ subject \in {"robots", "pack", "shard", "batch", "archive"}
  /\ RobotsInit /\ PackInit /\ ShardInit /\ BatchInit /\ ArchiveInit
  /\ subject # "pack" => export.mode = "export" /\ export.push /\ kept.ledger = {}

FetchingNext ==
  /\ UNCHANGED subject
  /\ \/ /\ subject = "robots" /\ RobotsNext
        /\ UNCHANGED <<packVars, shardVars, batchVars, archiveVars>>
     \/ /\ subject = "pack" /\ PackNext
        /\ UNCHANGED <<robotsVars, shardVars, batchVars, archiveVars>>
     \/ /\ subject = "shard" /\ ShardNext
        /\ UNCHANGED <<robotsVars, packVars, batchVars, archiveVars>>
     \/ /\ subject = "batch" /\ BatchNext
        /\ UNCHANGED <<robotsVars, packVars, shardVars, archiveVars>>
     \/ /\ subject = "archive" /\ ArchiveNext
        /\ UNCHANGED <<robotsVars, packVars, shardVars, batchVars>>

FetchingSpec == FetchingInit /\ [][FetchingNext]_fetchingVars /\ PackFair /\ ShardFair

(* Runs and shards come to an end, see the two parts.                          *)
RunEnds == PackEnds /\ ShardEnds
=============================================================================
