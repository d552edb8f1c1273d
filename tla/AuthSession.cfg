CONSTANTS
    ada = ada
    Ada = Ada
    Calls = {c1, c2, c3, c4}
    Spellings = {ada, Ada}
    Lower <- MCLower
    Passwords = {p1}
    Second = 2
    Lifetime = 3
    Horizon = 1
SPECIFICATION Spec
SYMMETRY Symmetric
INVARIANTS
    OneUserPerEmail
    RevocationOutlivesToken
    AuthInv
PROPERTIES
    RevokedIsRefused
\* Every call is answered and every revocation pruned: nothing is left to do.
CHECK_DEADLOCK FALSE
