--------------------------- MODULE RewardPromise ---------------------------
(***************************************************************************)
(* What the platform promises about rewards, with no request, table or     *)
(* transaction in sight: a reviewer whose application to an event was      *)
(* approved is paid the event's reward at most once, nobody else is paid,  *)
(* and an approval is never taken back.                                    *)
(*                                                                         *)
(* A pair is an event with a reviewer.  A payment carries a token of its   *)
(* own (the request that ordered it, or its place in the chain), so that   *)
(* paying a pair twice is not the same as paying it once.                  *)
(***************************************************************************)
CONSTANTS Pairs, Tokens

VARIABLES
    approved,   \* the pairs approved so far
    payments    \* <<pair, token>> for every payment made

vars == <<approved, payments>>

Paid(p) == \E t \in Tokens : <<p, t>> \in payments

Init ==
    /\ approved \in SUBSET Pairs
    /\ payments = {}

Approve(p) ==
    /\ p \notin approved
    /\ approved' = approved \union {p}
    /\ UNCHANGED payments

Pay(p, t) ==
    /\ p \in approved
    /\ ~Paid(p)
    /\ payments' = payments \union {<<p, t>>}
    /\ UNCHANGED approved

Next == \E p \in Pairs : Approve(p) \/ \E t \in Tokens : Pay(p, t)

Spec == Init /\ [][Next]_vars

-----------------------------------------------------------------------------
\* Approvals and payments are of pairs.
TypeOK ==
    /\ approved \subseteq Pairs
    /\ payments \subseteq Pairs \X Tokens

\* No pair is paid twice: create_application hands payout_safe to the
\* background tasks at most once for an event and a reviewer.
PaidOnce ==
    \A x, y \in payments : x[1] = y[1] => x = y

\* Only approved pairs are paid: payout_safe follows the commit of the row.
PaidIfApproved ==
    \A x \in payments : x[1] \in approved

\* Every statement above at once; it is inductive as it stands.
Inv == TypeOK /\ PaidOnce /\ PaidIfApproved
=============================================================================
