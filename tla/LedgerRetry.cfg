CONSTANTS
    alice = alice
    bob = bob
    bank = bank
    till = till
    EUR = EUR
    USD = USD
    k1 = k1
    k2 = k2
    Requests = {r1, r2, r3}
    Currencies = {EUR, USD}
    Keys = {k1, k2}
    Accounts <- MCAccounts
    AccountType <- MCAccountType
    AccountCurrency <- MCAccountCurrency
    Calls <- RetryCalls
    OpeningFunds <- MCBothOpen
    Restrictable = {}
SPECIFICATION Spec
SYMMETRY Symmetric
INVARIANTS
    OnceForEachKey
    EntriesArePairs
    RejectedWritesNothing
    CreatedIsInTheLedger
    DuplicateMeansApplied
PROPERTIES
    GrowsByWholeTransfers
\* Every request has been answered: nothing is left to do.
CHECK_DEADLOCK FALSE
