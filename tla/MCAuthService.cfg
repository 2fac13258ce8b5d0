CONSTANTS
    Requests = {r1, r2, r3}
    a1 = a1
    a2 = a2
    pw1 = pw1
    pw2 = pw2
    p1 = p1
    Emails <- MCEmails
    Passwords <- MCPasswords
    Roles <- BothRoles
    Codes = {k1}
    PriorUsers <- MCPriorUsers

SYMMETRY RequestSymmetry
SPECIFICATION Spec

INVARIANTS
    AuthInv
    AnswersTellTheTruth
    MailedPasswordsWork
PROPERTY PasswordsAreProven
