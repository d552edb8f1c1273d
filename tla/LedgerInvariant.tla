-------------------------- MODULE LedgerInvariant --------------------------
(***************************************************************************)
(* The inductive invariant of LedgerService: why no account is overdrawn   *)
(* and no key takes effect twice, in every state and not only at the end   *)
(* of a request.  LedgerSafetyProofs proves it; TLC checks it too.         *)
(*                                                                         *)
(* The argument for NoOverdraft is in SnapshotInv and LockInv.  Between    *)
(* its write to the source document and its commit a request owns that     *)
(* document, so no other debit of the account can commit; and the write    *)
(* succeeds only if the document is still as the snapshot has it, so none  *)
(* had committed since the snapshot either.  What the ledger has more than *)
(* the snapshot is therefore credits, and the balance that was enough in   *)
(* the snapshot is enough at the commit.                                   *)
(***************************************************************************)
EXTENDS LedgerService

Source(r)      == call[r].source_account_id
Destination(r) == call[r].destination_account_id
Own(r)         == Transaction(r, call[r])

Drafting == InTransaction \ {"await_commit"}

\* The step of the handler and the state of its transaction go together.
SessionOf(r) ==
    /\ pc[r] \in {"idle", "pre_check"} => txn[r] = "none"
    /\ pc[r] \in Drafting => txn[r] \in {"open", "aborted"}
    /\ pc[r] = "await_commit" => txn[r] \in {"committing", "committed", "aborted"}
    /\ pc[r] = "answered" => txn[r] # "open"
    /\ pc[r] \notin {"idle", "answered"} \/ InFlight(r) => Source(r) # Destination(r)
    /\ answer[r] # "NONE" => pc[r] = "answered"
    /\ answer[r] \in Rejections => txn[r] = "none"
    /\ answer[r] = "CREATED" => txn[r] = "committed"

SessionInv == \A r \in Requests : SessionOf(r)

\* A transaction past one of these steps and not yet ended.
Past(r, labels) == (txn[r] = "open" /\ pc[r] \in labels) \/ txn[r] = "committing"

\* What a transaction has written, by how far its handler got.
WritesInv ==
    \A r \in Requests :
        /\ ~InFlight(r) => writes[r] = NoWrites
        /\ writes[r].accounts \subseteq {Source(r)} \cap UserAccounts
        /\ writes[r].transactions \subseteq {Own(r)}
        /\ writes[r].ledger_entries \subseteq EntriesOf(Own(r))
        /\ pc[r] \in {"load_accounts", "lock_source"} => writes[r] = NoWrites
        /\ pc[r] \in {"check_funds", "insert_transaction"} => writes[r].transactions = {}
        /\ pc[r] \in {"check_funds", "insert_transaction", "insert_entries"} =>
             writes[r].ledger_entries = {}
        /\ Past(r, {"insert_entries", "send_commit"}) => writes[r].transactions = {Own(r)}
        /\ Past(r, {"send_commit"}) => writes[r].ledger_entries = EntriesOf(Own(r))

\* A USER source is locked before the balance is read, and covers the amount in
\* the snapshot once it has been.
FundsInv ==
    \A r \in Requests :
        /\ pc[r] \in {"lock_source", "check_funds"} => Source(r) \in UserAccounts
        /\ Source(r) \in UserAccounts =>
             /\ Past(r, {"check_funds", "insert_transaction", "insert_entries", "send_commit"})
                  => writes[r].accounts = {Source(r)}
             /\ Past(r, {"insert_transaction", "insert_entries", "send_commit"})
                  => Balance(snapshot[r].ledger_entries, Source(r)) >= call[r].amount_minor

Counter(docs, a) == docs[a].debit_serialisation_counter

\* The ledger only moves forward from a snapshot, and while the counter of a
\* USER account stands still only credits reach the account.
SnapshotOf(r) ==
    /\ snapshot[r].ledger_entries \subseteq ledger_entries
    /\ DOMAIN snapshot[r].accounts \subseteq DOMAIN accounts
    /\ Past(r, Drafting \ {"load_accounts"}) =>
         /\ Source(r) \in DOMAIN snapshot[r].accounts
         /\ snapshot[r].accounts[Source(r)].status = "ACTIVE"
    /\ \A a \in DOMAIN snapshot[r].accounts :
         /\ Counter(snapshot[r].accounts, a) <= Counter(accounts, a)
         /\ a \in UserAccounts /\ Counter(snapshot[r].accounts, a) = Counter(accounts, a) =>
              \A e \in ledger_entries \ snapshot[r].ledger_entries :
                  e.account_id = a => e.direction = "CREDIT"

SnapshotInv == \A r \in Requests : InFlight(r) => SnapshotOf(r)

\* A written account document is still as the snapshot has it, and nobody
\* else's.
LockInv ==
    \A r \in Requests : \A a \in writes[r].accounts :
        /\ a \in DOMAIN snapshot[r].accounts
        /\ accounts[a] = snapshot[r].accounts[a]
        /\ \A q \in Requests \ {r} : a \notin writes[q].accounts

\* The committed entries: finitely many, each with the sign of its direction.
EntriesInv ==
    /\ IsFiniteSet(ledger_entries)
    /\ \A e \in ledger_entries :
         e.signed_amount_minor = SignedAmountFor(e.direction, e.amount_minor)

\* A request's documents are in the ledger when its transaction has committed,
\* all of them, and at no other time.
OwnInv ==
    \A r \in Requests :
        IF txn[r] = "committed"
        THEN Own(r) \in transactions /\ EntriesOf(Own(r)) \subseteq ledger_entries
        ELSE /\ \A t \in transactions : t.id # r
             /\ \A e \in ledger_entries : e.transaction_id # r

\* A key that a transaction has written is in no other one and not committed.
KeyInv ==
    \A r \in Requests : \A t \in writes[r].transactions :
        /\ ~HasKey(transactions, t.idempotency_key)
        /\ \A q \in Requests \ {r} : ~HasKey(writes[q].transactions, t.idempotency_key)

\* The inductive invariant.
IInv ==
    /\ TypeOK /\ SessionInv /\ WritesInv /\ FundsInv /\ SnapshotInv /\ LockInv
    /\ EntriesInv /\ OwnInv /\ KeyInv
    /\ NoOverdraft /\ OnceForEachKey

-----------------------------------------------------------------------------
(* What is in the committed collections together, on top of IInv. *)

\* The entries are those of the transactions, which have different ids, and
\* different accounts on their two sides.
PairsInv ==
    /\ ledger_entries = UNION {EntriesOf(t) : t \in transactions}
    /\ \A t \in transactions : t.source_account_id # t.destination_account_id
    /\ \A s, t \in transactions : s.id = t.id => s = t

DebitedBy(ts, a) == {t \in ts : t.source_account_id = a}

\* The counters of the USER accounts there are; no transaction debits another.
CounterInv ==
    /\ IsFiniteSet(transactions)
    /\ \A a \in UserAccounts :
         Cardinality(DebitedBy(transactions, a)) =
           IF a \in DOMAIN accounts THEN Counter(accounts, a) ELSE 0

\* The two accounts of the transfer c are among docs, and in its currency.
Fits(docs, c) ==
    /\ {c.source_account_id, c.destination_account_id} \subseteq DOMAIN docs
    /\ AccountCurrency[c.source_account_id] = c.currency
    /\ AccountCurrency[c.destination_account_id] = c.currency

\* The transfer of a request was validated in its transaction.
HasValidated(r) == Past(r, Drafting \ {"load_accounts"})

\* It fits the snapshot then, and the ledger once it is committed.
SidesInv ==
    /\ \A r \in Requests : HasValidated(r) => Fits(snapshot[r].accounts, call[r])
    /\ \A t \in transactions : Fits(accounts, t)

\* The transactions, the entries, the counters and the accounts agree with each
\* other in every state, whatever is under way.
BooksInv == PairsInv /\ CounterInv /\ SidesInv

=============================================================================
