--------------------------- MODULE MCAuthService ---------------------------
(***************************************************************************)
(* Small instances of AuthService: two addresses, of which a1 has an       *)
(* account p1 with the password pw1 when the run starts.                   *)
(***************************************************************************)
EXTENDS AuthService, TLC

CONSTANTS a1, a2, pw1, pw2, p1

MCEmails     == {a1, a2}
MCPasswords  == {pw1, pw2}
BothRoles    == {"OWNER", "REVIEWER"}
MCPriorUsers ==
    {[id |-> p1, email |-> a1, role |-> "OWNER", hash |-> Hash(pw1)]}

RequestSymmetry == Permutations(Requests)
=============================================================================
