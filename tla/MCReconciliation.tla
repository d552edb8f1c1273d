-------------------------- MODULE MCReconciliation --------------------------
(***************************************************************************)
(* Instances of Reconciliation for TLC: a deposit and a payment in EUR, a  *)
(* deposit in USD, and one report.  The id "nobody" is of no account.      *)
(***************************************************************************)
EXTENDS Reconciliation

CONSTANTS alice, carol, bank, till, nobody, EUR, USD, t1, t2, t3, stray

MCAccounts == {alice, carol, bank, till, nobody}

Account(id, account_type, currency) ==
    [id |-> id, account_type |-> account_type, currency |-> currency]

MCOpened ==
    {Account(alice, "USER", EUR), Account(carol, "USER", USD),
     Account(bank, "SYSTEM", EUR), Account(till, "SYSTEM", USD)}

Settled(id, source, destination, amount, currency) ==
    [id                     |-> id,
     source_account_id      |-> source,
     destination_account_id |-> destination,
     amount_minor           |-> amount,
     currency               |-> currency]

MCTransfers ==
    {Settled(t1, bank, alice, 2, EUR), Settled(t2, alice, bank, 1, EUR),
     Settled(t3, till, carol, 1, USD)}

=============================================================================
