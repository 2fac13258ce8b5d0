------------------------------ MODULE MCSeeder ------------------------------
(***************************************************************************)
(* Small instances of Seeder: two event_specs and two starts, so that the  *)
(* second start meets what the first one left pending or deployed.         *)
(***************************************************************************)
EXTENDS Seeder
=============================================================================
