---------------------------- MODULE MCRateLimit -----------------------------
(***************************************************************************)
(* An instance of RateLimit for TLC: POST /auth/login, and                 *)
(* POST /accounts/{id}/funding of two accounts.                            *)
(***************************************************************************)
EXTENDS RateLimit, TLC

CONSTANTS login, fund, login_path, fund_1, fund_2

MCPaths == [route \in Routes |-> IF route = login THEN {login_path} ELSE {fund_1, fund_2}]

MCLimit == [route \in Routes |-> IF route = login THEN 2 ELSE 1]

Symmetric ==
    Permutations(Replicas) \cup Permutations(Users) \cup Permutations(Addresses)
      \cup Permutations({fund_1, fund_2})

=============================================================================
