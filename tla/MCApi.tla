------------------------------- MODULE MCApi --------------------------------
(***************************************************************************)
(* Instances of Api for TLC: alice, who has money and opens accounts, bob, *)
(* whom she pays, and eve, who has no account.                             *)
(***************************************************************************)
EXTENDS Api, TLC

CONSTANTS alice, bob, eve,
          a1, a2, a3, a4, b1, bank,   \* a1 and b1 are open; bank is the boundary
          EUR, USD,                   \* USD, the currency of a4, is not supported
          k1, k2

MCAccounts        == {a1, a2, a3, a4, b1, bank}
MCAccountType     == [a \in MCAccounts |-> IF a = bank THEN "SYSTEM" ELSE "USER"]
MCAccountCurrency == [a \in MCAccounts |-> IF a = a4 THEN USD ELSE EUR]
MCAccountOwner    == a1 :> alice @@ a2 :> alice @@ a3 :> alice @@ a4 :> alice @@ b1 :> bob @@ bank :> "None"

MCOneAccount  == a1 :> 2 @@ b1 :> 0 @@ bank :> -2
\* alice owns more accounts than fit in a page of one.
MCTwoAccounts == a1 :> 2 @@ a2 :> 0 @@ b1 :> 0 @@ bank :> -2

OpenAccount(user, currency) == [endpoint |-> "open", user |-> user, currency |-> currency]

Transfer(user, key, source, destination, amount) ==
    [endpoint |-> "transfer", user |-> user, idempotency_key |-> key,
     source_account_id |-> source, destination_account_id |-> destination,
     amount_minor |-> amount, currency |-> EUR]

Fund(user, key, account, currency) ==
    [endpoint |-> "fund", user |-> user, idempotency_key |-> key,
     account_id |-> account, amount_minor |-> 1, currency |-> currency]

ReadTransaction(user, id) ==
    [endpoint |-> "read_transaction", user |-> user, transaction_id |-> id]

ReadBalance(user, account) ==
    [endpoint |-> "read_balance", user |-> user, account_id |-> account]

List(user) == [endpoint |-> "list", user |-> user]

\* Two payments that a1 cannot both make, one to an account that may not be there
\* yet; deposits, one under a used key; and what is wrong in each endpoint.
MCRequests ==
    {OpenAccount(alice, EUR), OpenAccount(alice, USD),
     Transfer(alice, k1, a1, b1, 2), Transfer(alice, k2, a1, a2, 1),
     Transfer(bob, k2, a1, b1, 1), Transfer(alice, k2, bank, a1, 1),
     Transfer(alice, k2, a2, b1, 1), Transfer(alice, NoKey, a1, b1, 1),
     Fund(alice, k1, a1, EUR), Fund(alice, k2, a1, USD), Fund(bob, k2, a1, EUR),
     ReadBalance(alice, a1), ReadBalance(eve, a1), List(alice)}
    \cup {ReadTransaction(u, c) : u \in {alice, bob, eve}, c \in Calls}

\* One payment, and its payer asks for it.
PayAndRead == {Transfer(alice, k1, a1, b1, 1)} \cup {ReadTransaction(alice, c) : c \in Calls}

Symmetric == Permutations(Calls)

=============================================================================
