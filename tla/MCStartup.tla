----------------------------- MODULE MCStartup -----------------------------
(***************************************************************************)
(* Instances of Startup for TLC: the five collections and five unique      *)
(* indexes of app/core/db.py, an empty database and one that version 1 set *)
(* up for one currency.                                                    *)
(***************************************************************************)
EXTENDS Startup

CONSTANTS r1, r2, EUR, USD

MCCollections == <<"users", "revoked_tokens", "accounts", "transactions", "ledger_entries">>
MCValidated   == {"transactions", "ledger_entries"}
MCIndexes     == <<"uq_email", "uq_jti", "uq_system_account_per_currency",
                   "uq_idempotency_key", "uq_one_entry_per_direction_per_transaction">>

Empty == [collections |-> [n \in {} |-> 0], indexes |-> {}, accounts |-> {}]

SetUp(version) ==
    [collections |-> [n \in ToSet(MCCollections) |-> IF n \in MCValidated THEN version ELSE 0],
     indexes     |-> ToSet(MCIndexes),
     accounts    |-> {[id |-> 1, currency |-> EUR]}]

MCDeployments == {Empty, SetUp(1)}

\* Both replicas run version 2, with the currencies in either order.
SameVersion    == [r \in {r1, r2} |-> 2]
BothCurrencies == (r1 :> <<EUR, USD>>) @@ (r2 :> <<USD, EUR>>)

\* A rolling upgrade: r1 is of the version that set up the database.
RollingUpgrade == (r1 :> 1) @@ (r2 :> 2)

=============================================================================
