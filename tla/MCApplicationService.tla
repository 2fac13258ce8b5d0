------------------------ MODULE MCApplicationService ------------------------
(***************************************************************************)
(* Small instances of ApplicationService for TLC.  e1 is open and has a    *)
(* contract; e2 is open without one; e3 is closed.  One application is     *)
(* stored at the start, still PENDING (the column's default): only such a  *)
(* row can be cancelled.                                                   *)
(***************************************************************************)
EXTENDS ApplicationService, TLC

CONSTANTS u1, u2, e1, e2, e3, p1

MCUsers          == {u1, u2}
MCEvents         == {e1, e2, e3}
MCOpenEvents     == {e1, e2}
MCContractEvents == {e1}
MCPriorRows      ==
    {[id |-> p1, event |-> e1, reviewer |-> u1, status |-> "PENDING"]}

\* Requests do the same things in any order; users and events differ through
\* the row stored at the start.
RequestSymmetry == Permutations(Requests)
=============================================================================
