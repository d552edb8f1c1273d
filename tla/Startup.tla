------------------------------ MODULE Startup ------------------------------
(***************************************************************************)
(* The start of the API's replicas: lifespan (app/main.py), the schema     *)
(* setup (app/core/db.py) and the provisioning of the boundary accounts    *)
(* (app/services/account_service.py).                                      *)
(*                                                                         *)
(* Nothing coordinates the replicas: a Deployment starts, restarts and     *)
(* upgrades them side by side, each reads what is there and creates what   *)
(* it misses, one database operation a step, and any of them may stop      *)
(* between two steps.                                                      *)
(***************************************************************************)
EXTENDS Naturals, FiniteSets, SequencesExt

CONSTANTS
    Replicas,
    Version,        \* [Replicas -> Nat]: the schema version each one deploys
    Supported,      \* [Replicas -> Seq(currencies)]: SUPPORTED_CURRENCIES
    Collections,    \* ALL_COLLECTIONS, in order
    Validated,      \* those with a validator
    Indexes,        \* the unique indexes, in order of creation
    BoundaryIndex,  \* uq_system_account_per_currency, one of them
    Deployments,    \* the databases the replicas may find
    MaxStops,       \* bound: replicas that stop or fail
    MaxElections    \* bound: losses of the primary

\* The currencies that are supported, and those that were before.
Currencies ==
    UNION {ToSet(Supported[r]) : r \in Replicas}
        \cup {a.currency : a \in UNION {d.accounts : d \in Deployments}}

ASSUME StartupAssumption ==
    /\ Version \in [Replicas -> Nat \ {0}]
    /\ DOMAIN Supported = Replicas
    /\ \A r \in Replicas : Supported[r] \in Seq(ToSet(Supported[r]))
    /\ Collections \in Seq(ToSet(Collections)) /\ Indexes \in Seq(ToSet(Indexes))
    /\ Validated \subseteq ToSet(Collections)
    /\ BoundaryIndex \in ToSet(Indexes)
    /\ MaxStops \in Nat /\ MaxElections \in Nat

\* What an earlier version may have left: some of the collections and indexes,
\* and no currency with two boundary accounts.
ASSUME DeploymentsAssumption ==
    \A d \in Deployments :
        /\ DOMAIN d.collections \subseteq ToSet(Collections)
        /\ d.indexes \subseteq ToSet(Indexes)
        /\ IsFiniteSet(d.accounts) /\ d.accounts \subseteq [id : Nat \ {0}, currency : Currencies]
        /\ \A a, b \in d.accounts : a.currency = b.currency => a = b

VARIABLES
    collections,        \* the collections that exist -> their validator's version
    indexes,            \* the unique indexes that exist
    accounts,           \* the SYSTEM accounts
    primary,            \* a writable primary answers
    stage,              \* replica -> where its startup is
    todo,               \* replica -> what is left of the stage's loop
    existing,           \* replica -> list_collection_names, as it was read
    system_account_ids, \* replica -> currency -> id
    stops, elections

database == <<collections, indexes, accounts>>
replica  == <<stage, todo, existing, system_account_ids>>
counters == <<stops, elections>>
vars     == <<database, primary, replica, counters>>

\* A collection without a validator has version 0.
ValidatorOf(r, name) == IF name \in Validated THEN Version[r] ELSE 0

BoundariesOf(currency) == {a \in accounts : a.currency = currency}

Stages == {"stopped", "connected", "collections", "create", "indexes",
           "boundaries", "insert", "adopt", "serving"}

\* An empty database, or one that an earlier version set up completely.
Init ==
    /\ \E d \in Deployments :
         collections = d.collections /\ indexes = d.indexes /\ accounts = d.accounts
    /\ primary = TRUE
    /\ stage = [r \in Replicas |-> "stopped"]
    /\ todo = [r \in Replicas |-> <<>>]
    /\ existing = [r \in Replicas |-> {}]
    /\ system_account_ids = [r \in Replicas |-> <<>>]
    /\ stops = 0 /\ elections = 0

-----------------------------------------------------------------------------
(* Moving through the stages. *)

Enter(r, next, list) ==
    /\ stage' = [stage EXCEPT ![r] = next]
    /\ todo'  = [todo EXCEPT ![r] = list]

\* The loop goes on with the next item.
Continue(r) ==
    Enter(r, IF stage[r] = "create" THEN "collections"
             ELSE IF stage[r] \in {"insert", "adopt"} THEN "boundaries"
             ELSE stage[r], Tail(todo[r]))

Halt(r) == Enter(r, "stopped", <<>>)

\* connect_to_mongo with _verify_transaction_support: without a writable
\* primary of a replica set the process exits, and is started again.
Connect(r) ==
    /\ stage[r] = "stopped" /\ primary
    /\ Enter(r, "connected", <<>>)
    /\ system_account_ids' = [system_account_ids EXCEPT ![r] = <<>>]
    /\ UNCHANGED <<database, primary, existing, counters>>

\* ensure_collections_and_validators reads the names once, before its loop.
ListCollections(r) ==
    /\ stage[r] = "connected" /\ primary
    /\ existing' = [existing EXCEPT ![r] = DOMAIN collections]
    /\ Enter(r, "collections", Collections)
    /\ UNCHANGED <<database, primary, system_account_ids, counters>>

Handling(r, name) ==
    stage[r] = "collections" /\ todo[r] # <<>> /\ Head(todo[r]) = name /\ primary

\* A collection that was listed gets this version's validator by collMod.
ApplyValidator(r) ==
    \E name \in existing[r] :
        /\ Handling(r, name)
        /\ collections' = IF name \in Validated
                          THEN [collections EXCEPT ![name] = Version[r]]
                          ELSE collections
        /\ Continue(r)
        /\ UNCHANGED <<indexes, accounts, primary, existing, system_account_ids, counters>>

\* create_collection first lists the name itself; when it is there by now it
\* raises CollectionInvalid, which is caught.
CheckAbsent(r) ==
    \E name \in ToSet(Collections) \ existing[r] :
        /\ Handling(r, name)
        /\ IF name \in DOMAIN collections
           THEN Continue(r)
           ELSE Enter(r, "create", todo[r])
        /\ UNCHANGED <<database, primary, existing, system_account_ids, counters>>

\* The server creates it with its validator.
Create(r) ==
    LET name == Head(todo[r]) IN
    /\ stage[r] = "create" /\ primary /\ name \notin DOMAIN collections
    /\ collections' = [n \in DOMAIN collections \cup {name} |->
                          IF n = name THEN ValidatorOf(r, name) ELSE collections[n]]
    /\ Continue(r)
    /\ UNCHANGED <<indexes, accounts, primary, existing, system_account_ids, counters>>

\* Another replica created it after the check.  The server accepts the command
\* if the options agree, or refuses it, and that error is not caught.
CreateTooLate(r) ==
    /\ stage[r] = "create" /\ primary /\ Head(todo[r]) \in DOMAIN collections
    /\ \/ Continue(r) /\ collections[Head(todo[r])] = ValidatorOf(r, Head(todo[r]))
       \/ Halt(r)
    /\ UNCHANGED <<database, primary, existing, system_account_ids, counters>>

\* The duplicates that keep the index i from being built.
Duplicates(i) ==
    i = BoundaryIndex /\ \E a, b \in accounts : a # b /\ a.currency = b.currency

\* A unique index is built, or is there already; over duplicates the build
\* fails, and the application "will not continue without them".
CreateIndex(r) ==
    /\ stage[r] = "indexes" /\ todo[r] # <<>> /\ primary
    /\ IF Duplicates(Head(todo[r]))
       THEN Halt(r) /\ UNCHANGED indexes
       ELSE Continue(r) /\ indexes' = indexes \cup {Head(todo[r])}
    /\ UNCHANGED <<collections, accounts, primary, existing, system_account_ids, counters>>

-----------------------------------------------------------------------------
(* ensure_system_accounts. *)

Adopt(r, id) ==
    system_account_ids' =
        [system_account_ids EXCEPT ![r] =
            [c \in DOMAIN @ \cup {Head(todo[r])} |-> IF c = Head(todo[r]) THEN id ELSE @[c]]]

\* get_system_account: there is one, or it has to be inserted.
FindBoundary(r) ==
    /\ stage[r] = "boundaries" /\ todo[r] # <<>> /\ primary
    /\ LET found == BoundariesOf(Head(todo[r])) IN
       \/ \E a \in found : Adopt(r, a.id) /\ Continue(r)
       \/ found = {} /\ Enter(r, "insert", todo[r]) /\ UNCHANGED system_account_ids
    /\ UNCHANGED <<database, primary, existing, counters>>

Insert(r) ==
    LET account == [id |-> Cardinality(accounts) + 1, currency |-> Head(todo[r])]
    IN  /\ accounts' = accounts \cup {account}
        /\ Adopt(r, account.id) /\ Continue(r)

\* Fault: the index is not unique.
InsertBoundaryUnindexed(r) ==
    /\ stage[r] = "insert" /\ primary
    /\ Insert(r)
    /\ UNCHANGED <<collections, indexes, primary, existing, counters>>

\* Fault: the loser keeps the id it generated.
InsertBoundaryKeepingItsId(r) ==
    /\ stage[r] = "insert" /\ primary
    /\ IF BoundaryIndex \in indexes /\ BoundariesOf(Head(todo[r])) # {}
       THEN /\ Adopt(r, Cardinality(accounts) + 1) /\ Continue(r)
            /\ UNCHANGED accounts
       ELSE Insert(r)
    /\ UNCHANGED <<collections, indexes, primary, existing, counters>>

\* The insert succeeds, or the unique index refuses it.
InsertBoundary(r) ==
    /\ stage[r] = "insert" /\ primary
    /\ IF BoundaryIndex \in indexes /\ BoundariesOf(Head(todo[r])) # {}
       THEN Enter(r, "adopt", todo[r]) /\ UNCHANGED <<accounts, system_account_ids>>
       ELSE Insert(r)
    /\ UNCHANGED <<collections, indexes, primary, existing, counters>>

\* The loser of the race reads the winner's.
AdoptWinner(r) ==
    /\ stage[r] = "adopt" /\ primary
    /\ \E a \in BoundariesOf(Head(todo[r])) : Adopt(r, a.id) /\ Continue(r)
    /\ UNCHANGED <<database, primary, existing, counters>>

-----------------------------------------------------------------------------

\* Fault: the accounts are provisioned before the indexes.
StageDoneAccountsFirst(r) ==
    /\ todo[r] = <<>>
    /\ \/ stage[r] = "collections" /\ Enter(r, "boundaries", Supported[r])
       \/ stage[r] = "boundaries"  /\ Enter(r, "indexes", Indexes)
       \/ stage[r] = "indexes"     /\ Enter(r, "serving", <<>>)
    /\ UNCHANGED <<database, primary, existing, system_account_ids, counters>>

\* The order of initialise_database and lifespan.
StageDone(r) ==
    /\ todo[r] = <<>>
    /\ \/ stage[r] = "collections" /\ Enter(r, "indexes", Indexes)
       \/ stage[r] = "indexes"     /\ Enter(r, "boundaries", Supported[r])
       \/ stage[r] = "boundaries"  /\ Enter(r, "serving", <<>>)
    /\ UNCHANGED <<database, primary, existing, system_account_ids, counters>>

\* An operation fails, or the process is killed or shut down.
Stop(r) ==
    /\ stage[r] # "stopped" /\ stops < MaxStops
    /\ Halt(r) /\ stops' = stops + 1
    /\ UNCHANGED <<database, primary, existing, system_account_ids, elections>>

\* No primary is found within serverSelectionTimeoutMS.
SelectionTimeout(r) ==
    /\ ~primary /\ stage[r] \notin {"stopped", "serving"}
    /\ Halt(r)
    /\ UNCHANGED <<database, primary, existing, system_account_ids, counters>>

LosePrimary ==
    /\ primary /\ elections < MaxElections
    /\ primary' = FALSE /\ elections' = elections + 1
    /\ UNCHANGED <<database, replica, stops>>

ElectPrimary ==
    /\ ~primary /\ primary' = TRUE
    /\ UNCHANGED <<database, replica, counters>>

Startup(r) ==
    \/ Connect(r) \/ ListCollections(r)
    \/ ApplyValidator(r) \/ CheckAbsent(r) \/ Create(r) \/ CreateTooLate(r)
    \/ CreateIndex(r)
    \/ FindBoundary(r) \/ InsertBoundary(r) \/ AdoptWinner(r)
    \/ StageDone(r)

Next ==
    \/ \E r \in Replicas : Startup(r) \/ Stop(r) \/ SelectionTimeout(r)
    \/ LosePrimary \/ ElectPrimary

\* A replica that is up goes on, one that stopped is started again, and a
\* primary is elected.
Fairness == WF_vars(ElectPrimary) /\ \A r \in Replicas : WF_vars(Startup(r))

Spec == Init /\ [][Next]_vars /\ Fairness

-----------------------------------------------------------------------------
\* What the stages, loops and documents of a startup are.
TypeOK ==
    /\ DOMAIN collections \subseteq ToSet(Collections)
    /\ indexes \subseteq ToSet(Indexes)
    /\ \A a \in accounts : a.id \in Nat \ {0} /\ a.currency \in Currencies
    /\ primary \in BOOLEAN
    /\ stage \in [Replicas -> Stages]
    /\ \A r \in Replicas :
         /\ stage[r] \in {"create", "insert", "adopt"} => todo[r] # <<>>
         /\ DOMAIN system_account_ids[r] \subseteq Currencies
         /\ existing[r] \subseteq DOMAIN collections
    /\ stops \in 0..MaxStops /\ elections \in 0..MaxElections

\* "exactly one SYSTEM boundary account per currency": a second one would be an
\* untracked source of money, whoever raced or stopped when.
OneBoundary == \A a, b \in accounts : a.currency = b.currency => a = b

\* A replica that serves finds every collection, its validators, every unique
\* index and its boundary accounts, and knows the boundary accounts that are
\* in the database, whoever created them.
ServingMeansReady ==
    \A r \in Replicas : stage[r] = "serving" =>
        /\ DOMAIN collections = ToSet(Collections)
        /\ \A name \in Validated : collections[name] = Version[r]
        /\ indexes = ToSet(Indexes)
        /\ \A c \in ToSet(Supported[r]) :
             /\ c \in DOMAIN system_account_ids[r]
             /\ [id |-> system_account_ids[r][c], currency |-> c] \in accounts

\* Lost races, restarts and elections delay a replica and never lock it out.
EveryReplicaServes == \A r \in Replicas : <>[](stage[r] = "serving")

\* app/core/db.py: "upgrading a deployment picks up a tightened schema".  Once
\* a replica of the newest version serves, its validators are in force.
UpgradeSticks ==
    \A r \in Replicas :
        stage[r] = "serving" /\ (\A s \in Replicas : Version[s] <= Version[r]) =>
            \A name \in Validated : collections[name] = Version[r]

-----------------------------------------------------------------------------
(* Why: what a replica has done of a loop stays done, whoever else runs.       *)

Preparing    == {"collections", "create"}
Provisioning == {"boundaries", "insert", "adopt"}

\* What the loop of the stage runs over, and what is left of it.
LoopOver(r) ==
    IF stage[r] \in Preparing THEN Collections
    ELSE IF stage[r] = "indexes" THEN Indexes
    ELSE IF stage[r] \in Provisioning THEN Supported[r]
    ELSE <<>>

Left(r) == ToSet(todo[r])

\* r has the id of the account in the database that is the boundary of c.
Knows(r, c) ==
    /\ c \in DOMAIN system_account_ids[r]
    /\ [id |-> system_account_ids[r][c], currency |-> c] \in accounts

\* The collections, the indexes and the boundary accounts that r has gone past
\* are there.
Progress(r) ==
    /\ todo[r] \in Seq(ToSet(LoopOver(r)))
    /\ stage[r] \in Preparing => ToSet(Collections) \subseteq DOMAIN collections \cup Left(r)
    /\ stage[r] \in {"indexes", "serving"} \cup Provisioning =>
         ToSet(Collections) \subseteq DOMAIN collections
    /\ stage[r] = "indexes" => ToSet(Indexes) \subseteq indexes \cup Left(r)
    /\ stage[r] \in {"serving"} \cup Provisioning => ToSet(Indexes) \subseteq indexes
    /\ stage[r] \in Provisioning => \A c \in ToSet(Supported[r]) \ Left(r) : Knows(r, c)
    /\ stage[r] = "serving" => \A c \in ToSet(Supported[r]) : Knows(r, c)

\* The inductive invariant, whatever the versions.
SetupInv ==
    /\ TypeOK
    /\ DOMAIN todo = Replicas /\ DOMAIN existing = Replicas
    /\ DOMAIN system_account_ids = Replicas
    /\ IsFiniteSet(accounts) /\ accounts \subseteq [id : Nat \ {0}, currency : Currencies]
    /\ OneBoundary
    /\ \A r \in Replicas : Progress(r)

\* Nothing is being upgraded.
OneVersion == \A q, r \in Replicas : Version[q] = Version[r]

\* Then a collection that r has gone past has its validator, and so
\* has one that was created after r read which there were.
ValidatorsInv ==
    \A r \in Replicas : \A name \in Validated \cap DOMAIN collections :
        \/ stage[r] \in {"stopped", "connected"}
        \/ stage[r] \in Preparing /\ name \in existing[r] \cap Left(r)
        \/ collections[name] = Version[r]

=============================================================================
