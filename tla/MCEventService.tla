--------------------------- MODULE MCEventService ---------------------------
(***************************************************************************)
(* Small instances of EventService: two owners, of whom u1 has a store s1  *)
(* with an event e1 when the run starts, with a contract c1.               *)
(***************************************************************************)
EXTENDS EventService, TLC

CONSTANTS u1, u2, s1, e1, c1

MCOwners      == {u1, u2}
MCPriorStores == {[id |-> s1, owner |-> u1]}
MCPriorEvents == {[id |-> e1, store |-> s1, contract |-> c1]}

RequestSymmetry == Permutations(Requests)
=============================================================================
