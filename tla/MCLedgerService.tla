-------------------------- MODULE MCLedgerService --------------------------
(***************************************************************************)
(* Instances of LedgerService for TLC.  Amounts are small: what matters is *)
(* which sets of transfers an account can pay for together.                *)
(***************************************************************************)
EXTENDS LedgerRefinement, LedgerInvariant, TLC

CONSTANTS alice, bob, bank, till,   \* bank and till: the boundary of each currency
          EUR, USD, k1, k2

MCAccounts        == {alice, bob, bank, till}
MCAccountType     == [a \in MCAccounts |-> IF a \in {alice, bob} THEN "USER" ELSE "SYSTEM"]
MCAccountCurrency == [a \in MCAccounts |-> IF a = till THEN USD ELSE EUR]

Pay(key, source, destination, amount, currency) ==
    [idempotency_key        |-> key,
     source_account_id      |-> source,
     destination_account_id |-> destination,
     amount_minor           |-> amount,
     currency               |-> currency]

\* alice holds 3: she can pay for one transfer of 2, not for two of them.
MCOpeningFunds == alice :> 3
\* Both USER accounts are open.
MCBothOpen == alice :> 3 @@ bob :> 0

\* Two debits of alice that she cannot both pay, each under two keys, and a
\* deposit that may arrive in between.
RaceCalls ==
    {Pay(k1, alice, bob, 2, EUR), Pay(k2, alice, bob, 2, EUR), Pay(k2, bank, alice, 1, EUR)}

\* One key, sent again and again: a debit, which its lock serialises, and a
\* deposit, which nothing does but the key.
RetryCalls == {Pay(k1, alice, bob, 2, EUR), Pay(k1, bank, bob, 1, EUR)}

\* Every way a call can be wrong, and one that is right.
WrongCalls ==
    {Pay(k1, alice, alice, 1, EUR), Pay(k1, alice, bob, 4, EUR),
     Pay(k1, alice, bob, 1, USD), Pay(k2, till, alice, 1, USD),
     Pay(k2, bank, alice, 1, EUR), Pay(k2, alice, bob, 1, EUR)}

Symmetric == Permutations(Requests)

=============================================================================
