----------------------------- MODULE MCListing -----------------------------
(***************************************************************************)
(* Three reviewers of one event, one of whom has a pending application     *)
(* from before and one of whom applied for a second event too: pages of    *)
(* two rows leave a remainder, the status filter leaves rows out, and my   *)
(* applications have two pages of one.                                     *)
(***************************************************************************)
EXTENDS Listing

CONSTANTS s1, s2, e1, e2, a1, a2, a3, a4, u1, u2, u3

MCStores       == {s1, s2}
MCEvents       == {e1, e2}
MCApplications == {a1, a2, a3, a4}
MCUsers        == {u1, u2, u3}
MCOwnerOf      == [s \in MCStores |-> IF s = s1 THEN u3 ELSE u1]
MCStoreOf      == [e \in MCEvents |-> s1]
MCEventOf      == [a \in MCApplications |-> IF a = a4 THEN e2 ELSE e1]
MCReviewerOf   ==
    [a \in MCApplications |-> CASE a = a2 -> u2 [] a = a3 -> u3 [] OTHER -> u1]
MCCategoryOf   == [s \in MCStores |-> IF s = s1 THEN "CAFE" ELSE "ETC"]
MCStatusOf     == [a \in MCApplications |-> IF a = a2 THEN "PENDING" ELSE "APPROVED"]
=============================================================================
