---------------------------- MODULE MCRewardFlow ----------------------------
(***************************************************************************)
(* Small instances of RewardFlow: one open event whose contract holds more *)
(* than one reward, so that paying a reviewer twice would not fail for     *)
(* want of money, and two reviewers, one with an application still PENDING. *)
(***************************************************************************)
EXTENDS RewardFlow, TLC

CONSTANTS u1, u2, e1, p1

MCUsers      == {u1, u2}
MCEvents     == {e1}
MCPriorRows  ==
    {[id |-> p1, event |-> e1, reviewer |-> u1, status |-> "PENDING"]}
MCPriorVault == [e \in MCEvents |-> 2]

RequestSymmetry == Permutations(Requests)
=============================================================================
