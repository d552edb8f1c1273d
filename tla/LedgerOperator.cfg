CONSTANTS
    alice = alice
    bob = bob
    bank = bank
    till = till
    EUR = EUR
    USD = USD
    k1 = k1
    k2 = k2
    Requests = {r1, r2}
    Currencies = {EUR, USD}
    Keys = {k1, k2}
    Accounts <- MCAccounts
    AccountType <- MCAccountType
    AccountCurrency <- MCAccountCurrency
    Calls <- WrongCalls
    OpeningFunds <- MCOpeningFunds
    Restrictable = {alice}
SPECIFICATION Spec
PROPERTIES
    FrozenIsNotDebited
    ImplementsLedger
    RequestIsAnswered
INVARIANTS
    IInv
    BooksInv
\* Every request has been answered: nothing is left to do.
CHECK_DEADLOCK FALSE
