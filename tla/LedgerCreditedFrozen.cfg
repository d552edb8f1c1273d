CONSTANTS
    alice = alice
    bob = bob
    bank = bank
    till = till
    EUR = EUR
    USD = USD
    k1 = k1
    k2 = k2
    Requests = {r1}
    Currencies = {EUR, USD}
    Keys = {k1, k2}
    Accounts <- MCAccounts
    AccountType <- MCAccountType
    AccountCurrency <- MCAccountCurrency
    Calls <- RaceCalls
    OpeningFunds <- MCBothOpen
    Restrictable = {bob}
SPECIFICATION Spec
PROPERTIES
    CreditedIsActive
\* Every request has been answered: nothing is left to do.
CHECK_DEADLOCK FALSE
