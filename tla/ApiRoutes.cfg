CONSTANTS
    alice = alice
    bob = bob
    eve = eve
    a1 = a1
    a2 = a2
    a3 = a3
    a4 = a4
    b1 = b1
    bank = bank
    EUR = EUR
    USD = USD
    k1 = k1
    k2 = k2
    Calls = {c1, c2, c3}
    Requests <- MCRequests
    Accounts <- MCAccounts
    AccountType <- MCAccountType
    AccountCurrency <- MCAccountCurrency
    AccountOwner <- MCAccountOwner
    OpeningFunds <- MCOneAccount
    Supported = {EUR}
    PageSize = 1
    MaxPage = 2
    Horizon = 2
SPECIFICATION Spec
SYMMETRY Symmetric
INVARIANTS
    RoutesInv
    SpendsOnlyWhatWasAsked
    ResendingIsSafe
    RefusedIsFinal
    PartiesRead
    WalkMissesNothing
    BalanceIsNotBehind
\* Every call has been answered and the clock is at its bound.
CHECK_DEADLOCK FALSE
