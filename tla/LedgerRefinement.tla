-------------------------- MODULE LedgerRefinement --------------------------
(***************************************************************************)
(* LedgerService implements Ledger: a balance is the sum of the committed  *)
(* entries, a settled transfer is a committed transaction, and a commit is *)
(* the one step in which a transfer takes effect.                          *)
(***************************************************************************)
EXTENDS LedgerService

statusOfAccounts  == [a \in DOMAIN accounts |-> accounts[a].status]
balanceOfAccounts == [a \in Accounts |-> Balance(ledger_entries, a)]

Books == INSTANCE Ledger WITH status  <- statusOfAccounts,
                              balance <- balanceOfAccounts,
                              settled <- transactions

\* Whatever the requests do concurrently, the committed ledger moves as if each
\* created transfer had been executed alone, on a table of balances, at the
\* moment its commit is applied.
ImplementsLedger == Books!Spec

=============================================================================
