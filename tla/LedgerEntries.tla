--------------------------- MODULE LedgerEntries ---------------------------
(***************************************************************************)
(* The data of the ledger: entries, and the sums every balance is computed *)
(* from.  No balance is stored anywhere in the system: compute_balance     *)
(* (app/services/balance_service.py) sums the signed amounts of an         *)
(* account's entries each time it is asked, and the integrity checks       *)
(* (app/services/reconciliation.py) are sums over other groupings of the   *)
(* same entries.                                                           *)
(*                                                                         *)
(* The sum is a recursive function on subsets, not a RECURSIVE operator,   *)
(* so that SumsProofs can prove facts about it.                            *)
(***************************************************************************)
EXTENDS Integers, FiniteSets

\* +amount for a CREDIT, -amount for a DEBIT.
SignedAmountFor(direction, amount) ==
    IF direction = "CREDIT" THEN amount ELSE -amount

\* LedgerEntryDocument.create: the caller gives no sign, it is derived.
Entry(transaction, account, direction, amount, currency) ==
    [transaction_id      |-> transaction,
     account_id          |-> account,
     direction           |-> direction,
     amount_minor        |-> amount,
     signed_amount_minor |-> SignedAmountFor(direction, amount),
     currency            |-> currency]

DebitEntry(t) ==
    Entry(t.id, t.source_account_id, "DEBIT", t.amount_minor, t.currency)

CreditEntry(t) ==
    Entry(t.id, t.destination_account_id, "CREDIT", t.amount_minor, t.currency)

\* The two documents of a transfer's insert_many (services/ledger_service.py).
EntriesOf(t) == {DebitEntry(t), CreditEntry(t)}

\* What {"$group": {"_id": None, "n": {"$sum": "$signed_amount_minor"}}}
\* returns for the set of documents E: their sum, and 0 for no documents.
SumSigned(E) ==
    LET Sum[T \in SUBSET E] ==
          IF T = {} THEN 0
          ELSE LET e == CHOOSE e \in T : TRUE
               IN  e.signed_amount_minor + Sum[T \ {e}]
    IN  Sum[E]

\* {"$match": {"account_id": account}} followed by that group; an account
\* without entries has ZERO_BALANCE.
Balance(E, account) == SumSigned({e \in E : e.account_id = account})

=============================================================================
