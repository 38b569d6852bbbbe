------------------------------ MODULE MCPackRun ------------------------------
(* The pack run of the markdown export alone, for the run that shows where it  *)
(* does not end.                                                               *)
EXTENDS PackRun

CONSTANT w1

MCShards == 1..4
MCPast == {{}}

PackFairSpec == PackSpec /\ PackFair
=============================================================================
