CONSTANTS
    alice = alice
    carol = carol
    bank = bank
    till = till
    nobody = nobody
    EUR = EUR
    USD = USD
    t1 = t1
    t2 = t2
    t3 = t3
    stray = stray
    Reports = {r1}
    Accounts <- MCAccounts
    Opened <- MCOpened
    Currencies = {EUR, USD}
    Transfers <- MCTransfers
    StrayIds = {stray}
    Amounts = {1, 2}
    MaxWrites = 1
SPECIFICATION Spec
INVARIANTS
    RewriteIsFound
\* Every transfer has committed and the report is made.
CHECK_DEADLOCK FALSE
