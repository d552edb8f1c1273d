------------------------------- MODULE Ledger -------------------------------
(***************************************************************************)
(* What the ledger promises, with no requests, sessions or snapshots: a    *)
(* table of balances on which each transfer is one atomic step, taken at   *)
(* most once per idempotency key and only if the source can pay.           *)
(*                                                                         *)
(* LedgerRefinement shows that LedgerService, which stores no balance at   *)
(* all, implements it.                                                     *)
(***************************************************************************)
EXTENDS Integers

CONSTANTS Accounts, AccountType, AccountCurrency

VARIABLES
    status,     \* account -> its status, for the accounts that exist
    balance,    \* account -> its balance
    settled     \* the transfers that took effect

ledger == <<status, balance, settled>>

CanOverdraw(a) == AccountType[a] = "SYSTEM"

\* Any sound set of books.
Init ==
    /\ \A a \in DOMAIN status : status[a] = "ACTIVE"
    /\ \A a \in Accounts : balance[a] \in Int /\ (balance[a] >= 0 \/ CanOverdraw(a))
    /\ \A s, t \in settled : s.idempotency_key = t.idempotency_key => s = t

\* The transfer t takes effect.  That the destination is active is not promised:
\* it was when the request looked, and may have been frozen since.
Transfer(t) ==
    LET source == t.source_account_id
        destination == t.destination_account_id
    IN  /\ {source, destination} \subseteq DOMAIN status
        /\ source # destination
        /\ AccountCurrency[source] = t.currency
        /\ AccountCurrency[destination] = t.currency
        /\ \A s \in settled : s.idempotency_key # t.idempotency_key
        /\ CanOverdraw(source) \/ ( /\ status[source] = "ACTIVE"
                                    /\ balance[source] >= t.amount_minor )
        /\ balance' = [balance EXCEPT ![source] = @ - t.amount_minor,
                                      ![destination] = @ + t.amount_minor]
        /\ settled' = settled \cup {t}
        /\ UNCHANGED status

\* An account is opened, empty.
Open(a) ==
    /\ a \in Accounts \ DOMAIN status
    /\ balance[a] = 0
    /\ status' = [b \in DOMAIN status \cup {a} |->
                    IF b = a THEN "ACTIVE" ELSE status[b]]
    /\ UNCHANGED <<balance, settled>>

\* Once not active, never active again.
Restrict(a, s) ==
    /\ a \in DOMAIN status
    /\ status[a] \in {"ACTIVE", "FROZEN"} \ {s}
    /\ status' = [status EXCEPT ![a] = s]
    /\ UNCHANGED <<balance, settled>>

Next ==
    \/ \E t \in settled' : Transfer(t)
    \/ \E a \in Accounts : Open(a)
    \/ \E a \in Accounts : \E s \in {"FROZEN", "CLOSED"} : Restrict(a, s)

Spec == Init /\ [][Next]_ledger

=============================================================================
