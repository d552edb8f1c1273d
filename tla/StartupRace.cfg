CONSTANTS
    r1 = r1
    r2 = r2
    EUR = EUR
    USD = USD
    Replicas = {r1, r2}
    Version <- SameVersion
    Supported <- BothCurrencies
    Collections <- MCCollections
    Validated <- MCValidated
    Indexes <- MCIndexes
    BoundaryIndex = "uq_system_account_per_currency"
    Deployments <- MCDeployments
    MaxStops = 2
    MaxElections = 1
SPECIFICATION Spec
INVARIANTS
    OneBoundary
    ServingMeansReady
    SetupInv
PROPERTIES
    EveryReplicaServes
\* Every replica serves, and no stop or election is left.
CHECK_DEADLOCK FALSE
