---------------------------- MODULE MCPublishing ----------------------------
(* The publishing side, component by component: the initial state says which   *)
(* subject this behaviour is about, that component runs, and the others keep   *)
(* the state they start in, in which none of their fair actions is enabled.    *)
(* One run checks them together because they share the hub and nothing else.   *)
EXTENDS UnitPublish, HubUpload, FleetLedger, NewsStream

CONSTANTS w1, w2, fa, fb, s1, s2

VARIABLE subject

MCParts == 1..4
MCUnitFaults == [k \in {"urls", "news", "domains"} |-> IF k = "urls" THEN 2 ELSE 1]
MCPieces == (fa :> 2 @@ fb :> 1)
MCLedgers == {[server |-> s1, shard |-> 0, of |-> 2], [server |-> s2, shard |-> 1, of |-> 2],
              [server |-> s2, shard |-> 0, of |-> 2], [server |-> s1, shard |-> 0, of |-> 3]}
MCNewsFiles == {<<"row","other","row","row","other">>, <<"other","row","row">>}

publishingVars == <<subject, unitVars, upVars, fleetVars, newsVars>>

PublishingInit ==
  /\ subject \in {"units", "upload", "fleet", "news"}
  /\ UnitInit /\ UpInit /\ FleetInit /\ NewsInit
  /\ subject # "units" => kind = "urls"

PublishingNext ==
  /\ UNCHANGED subject
  /\ \/ subject = "units" /\ UnitNext /\ UNCHANGED <<upVars, fleetVars, newsVars>>
     \/ subject = "upload" /\ UpNext /\ UNCHANGED <<unitVars, fleetVars, newsVars>>
     \/ subject = "fleet" /\ FleetNext /\ UNCHANGED <<unitVars, upVars, newsVars>>
     \/ subject = "news" /\ NewsNext /\ UNCHANGED <<unitVars, upVars, fleetVars>>

PublishingSpec == PublishingInit /\ [][PublishingNext]_publishingVars /\ UnitFair /\ UpFair

(* Units and commits come to an end, see the two parts.                        *)
RunEnds == UnitEnds /\ UploadEnds
=============================================================================
