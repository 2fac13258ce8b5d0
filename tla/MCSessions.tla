----------------------------- MODULE MCSessions -----------------------------
(***************************************************************************)
(* Three requests share two connections.  One operation of each sort: with *)
(* a payout after the response, with a flush before the commit, with a     *)
(* statement after the commit, with a service awaited inside and outside   *)
(* of a transaction.                                                       *)
(***************************************************************************)
EXTENDS Sessions

MCServed ==
    {"createApplication", "submitReview", "cancelApplication", "resetPassword"}
=============================================================================
