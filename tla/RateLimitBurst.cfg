CONSTANTS
    login = login
    fund = fund
    login_path = login_path
    fund_1 = fund_1
    fund_2 = fund_2
    Replicas = {r1, r2}
    Users = {u1, u2}
    Addresses = {home, mobile}
    Routes = {login, fund}
    Public = {login}
    Paths <- MCPaths
    Limit <- MCLimit
    Window = 2
    MaxRestarts = 1
    MaxActive = 2
SPECIFICATION Spec
SYMMETRY Symmetric
INVARIANTS
    RateInv
    BurstIsBounded
    RefusedForOwnCalls
PROPERTIES
    RetryAfterSuffices
