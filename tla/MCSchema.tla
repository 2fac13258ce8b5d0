------------------------------ MODULE MCSchema ------------------------------
(***************************************************************************)
(* Schema has no constants: every sequence of commands on either database, *)
(* interrupted at any statement, has finitely many states.                 *)
(***************************************************************************)
EXTENDS Schema
=============================================================================
