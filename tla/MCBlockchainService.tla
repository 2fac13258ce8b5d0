------------------------ MODULE MCBlockchainService ------------------------
(***************************************************************************)
(* Small instances of BlockchainService: three calls of the service and a  *)
(* contract that was deployed before and holds one reward, as the seeder   *)
(* leaves each of its contracts; or two rewards, so that no payout of two  *)
(* lacks money.                                                            *)
(***************************************************************************)
EXTENDS BlockchainService

CONSTANT c1

MCPriorContracts == {c1}
OneReward        == [c \in MCPriorContracts |-> 1]
TwoRewards       == [c \in MCPriorContracts |-> 2]
=============================================================================
