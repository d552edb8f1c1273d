--------------------------- MODULE LedgerService ---------------------------
(***************************************************************************)
(* app/services/ledger_service.py: concurrent calls of create_transfer,    *)
(* each running _apply_transfer inside a MongoDB transaction under         *)
(* with_transaction.                                                       *)
(*                                                                         *)
(* A request is one call.  Its handler awaits the database at every        *)
(* operation, so each operation is an action of its own and the requests   *)
(* interleave at any of them, in one API process or in several.  What the  *)
(* database does is modelled from how the code uses it:                    *)
(*                                                                         *)
(*   - the first operation of an attempt fixes a snapshot; every read of   *)
(*     the attempt sees that snapshot and the attempt's own writes;        *)
(*   - a write to a document that another open transaction has written, or *)
(*     that changed after the snapshot, is refused with a WriteConflict,   *)
(*     and the attempt starts again from the top;                          *)
(*   - a commit publishes all the writes at once; the server may have done *)
(*     so although the client did not hear of it;                          *)
(*   - the server may abort an open transaction at any time (failover,     *)
(*     expired session), and keeps the one of a dead client until then.    *)
(***************************************************************************)
EXTENDS LedgerEntries

CONSTANTS
    Requests,        \* calls of create_transfer
    Accounts,        \* account ids, of documents that exist or will exist
    Currencies,
    Keys,            \* idempotency keys
    AccountType,     \* [Accounts -> {"USER", "SYSTEM"}]
    AccountCurrency, \* [Accounts -> Currencies]
    Calls,           \* the arguments a request may be called with
    OpeningFunds,    \* what earlier funding left in the USER accounts open at the start
    Restrictable     \* the accounts an operator may freeze or close (a bound of the model)

UserAccounts   == {a \in Accounts : AccountType[a] = "USER"}
SystemAccounts == {a \in Accounts : AccountType[a] = "SYSTEM"}

CallRecords ==
    [idempotency_key        : Keys,
     source_account_id      : Accounts,
     destination_account_id : Accounts,
     amount_minor           : Nat \ {0},
     currency               : Currencies]

ASSUME ConstantsAssumption ==
    /\ IsFiniteSet(Requests) /\ IsFiniteSet(Accounts)
    /\ AccountType \in [Accounts -> {"USER", "SYSTEM"}]
    /\ AccountCurrency \in [Accounts -> Currencies]
    /\ Calls \subseteq CallRecords
    /\ DOMAIN OpeningFunds \subseteq UserAccounts
    /\ \A a \in DOMAIN OpeningFunds : OpeningFunds[a] \in Nat

\* initialise_database and ensure_system_accounts ran before the service
\* answers: every currency has exactly one boundary account.
ASSUME BoundaryAssumption ==
    \A c \in Currencies : \E s \in SystemAccounts :
        \A t \in SystemAccounts : AccountCurrency[t] = c <=> t = s

\* Ids and keys of the opening transactions are the accounts they fund; they
\* clash with no later one.
ASSUME FreshAssumption ==
    Requests \cap Accounts = {} /\ Keys \cap Accounts = {}

Statuses == {"ACTIVE", "FROZEN", "CLOSED"}

Rejections ==
    {"SAME_ACCOUNT_TRANSFER", "DUPLICATE_SUBMISSION", "ACCOUNT_NOT_FOUND",
     "ACCOUNT_NOT_ACTIVE", "CURRENCY_MISMATCH", "INSUFFICIENT_FUNDS",
     "WRITE_CONFLICT"}

VARIABLES
    accounts,        \* the committed documents of the collections
    transactions,
    ledger_entries,
    call,            \* request -> its arguments
    pc,              \* request -> the operation its handler does next
    answer,          \* request -> what its handler returned or raised
    overdue,         \* request -> with_transaction's deadline has passed
    txn,             \* request -> its MongoDB transaction, as the server has it
    snapshot,        \* request -> the database its transaction reads
    writes           \* request -> what its transaction has written

database == <<accounts, transactions, ledger_entries>>
session  == <<txn, snapshot, writes>>
vars     == <<database, call, pc, answer, overdue, session>>

-----------------------------------------------------------------------------
(* Documents. *)

Transaction(id, c) ==
    [id                     |-> id,
     idempotency_key        |-> c.idempotency_key,
     source_account_id      |-> c.source_account_id,
     destination_account_id |-> c.destination_account_id,
     amount_minor           |-> c.amount_minor,
     currency               |-> c.currency]

NewAccount == [status |-> "ACTIVE", debit_serialisation_counter |-> 0]

SystemAccountOf(c) == CHOOSE s \in SystemAccounts : AccountCurrency[s] = c

OpeningTransaction(a) ==
    Transaction(a, [idempotency_key        |-> a,
                    source_account_id      |-> SystemAccountOf(AccountCurrency[a]),
                    destination_account_id |-> a,
                    amount_minor           |-> OpeningFunds[a],
                    currency               |-> AccountCurrency[a]])

OpeningTransactions ==
    {OpeningTransaction(a) : a \in {b \in DOMAIN OpeningFunds : OpeningFunds[b] > 0}}

NoDocuments == [accounts |-> <<>>, transactions |-> {}, ledger_entries |-> {}]
NoWrites    == [accounts |-> {}, transactions |-> {}, ledger_entries |-> {}]

Init ==
    /\ accounts = [a \in SystemAccounts \cup DOMAIN OpeningFunds |-> NewAccount]
    /\ transactions = OpeningTransactions
    /\ ledger_entries = {DebitEntry(t) : t \in OpeningTransactions}
                          \cup {CreditEntry(t) : t \in OpeningTransactions}
    /\ call \in [Requests -> Calls]
    /\ pc = [r \in Requests |-> "idle"]
    /\ answer = [r \in Requests |-> "NONE"]
    /\ overdue = [r \in Requests |-> FALSE]
    /\ txn = [r \in Requests |-> "none"]
    /\ snapshot = [r \in Requests |-> NoDocuments]
    /\ writes = [r \in Requests |-> NoWrites]

-----------------------------------------------------------------------------
(* The server's side of a transaction. *)

InFlight(r) == txn[r] \in {"open", "committing"}

\* An account document that an unfinished transaction other than r's wrote.
LockedByOther(r, a) ==
    \E q \in Requests \ {r} : InFlight(q) /\ a \in writes[q].accounts

\* WiredTiger refuses r's write to the document of a.
WriteConflict(r, a) ==
    \/ LockedByOther(r, a)
    \/ accounts[a] # snapshot[r].accounts[a]

HasKey(docs, key) == \E t \in docs : t.idempotency_key = key

\* uq_idempotency_key, against unfinished transactions and committed ones.
KeyInFlight(r) ==
    \E q \in Requests \ {r} :
        InFlight(q) /\ HasKey(writes[q].transactions, call[r].idempotency_key)

KeyTaken(r) == HasKey(transactions, call[r].idempotency_key)

\* The transaction ends and its writes, unless a commit published them, are gone.
EndTransaction(r, state) ==
    /\ txn' = [txn EXCEPT ![r] = state]
    /\ snapshot' = [snapshot EXCEPT ![r] = NoDocuments]
    /\ writes' = [writes EXCEPT ![r] = NoWrites]

-----------------------------------------------------------------------------
(* How a handler leaves an operation. *)

Goto(r, label) == pc' = [pc EXCEPT ![r] = label]

Return(r, result) ==
    /\ Goto(r, "answered")
    /\ answer' = [answer EXCEPT ![r] = result]

\* An exception of the callback: with_transaction aborts and lets it through.
Raise(r, code) ==
    /\ Return(r, code)
    /\ EndTransaction(r, "none")
    /\ UNCHANGED <<database, call, overdue>>

\* Fault: the callback is retried whatever the clock says.
RetryForEver(r) ==
    /\ EndTransaction(r, "none")
    /\ Goto(r, "pre_check")
    /\ UNCHANGED <<database, call, answer, overdue>>

\* A transient error: the callback runs again from the top, unless the
\* deadline has passed, which create_transfer reports as WRITE_CONFLICT.
Retry(r) ==
    /\ EndTransaction(r, "none")
    /\ IF overdue[r]
       THEN Return(r, "WRITE_CONFLICT")
       ELSE Goto(r, "pre_check") /\ UNCHANGED answer
    /\ UNCHANGED <<database, call, overdue>>

\* The operation succeeded and changed nothing the server keeps.
Continue(r, label) ==
    /\ Goto(r, label)
    /\ UNCHANGED <<database, call, answer, overdue, session>>

\* The operation wrote inside the transaction.
ContinueWriting(r, w, label) ==
    /\ Goto(r, label)
    /\ writes' = [writes EXCEPT ![r] = w]
    /\ UNCHANGED <<database, call, answer, overdue, txn, snapshot>>

At(r, label) == pc[r] = label /\ txn[r] = "open"

-----------------------------------------------------------------------------
(* create_transfer and _apply_transfer, in the order of the code. *)

\* The self-transfer check comes before any transaction is opened.
Submit(r) ==
    /\ pc[r] = "idle"
    /\ IF call[r].source_account_id = call[r].destination_account_id
       THEN Return(r, "SAME_ACCOUNT_TRANSFER")
       ELSE Goto(r, "pre_check") /\ UNCHANGED answer
    /\ UNCHANGED <<database, call, overdue, session>>

\* Fault: the insert alone is left to find duplicates.
PreCheckOmitted(r) ==
    /\ pc[r] = "pre_check"
    /\ Goto(r, "load_accounts")
    /\ txn' = [txn EXCEPT ![r] = "open"]
    /\ snapshot' = [snapshot EXCEPT ![r] =
                      [accounts       |-> accounts,
                       transactions   |-> transactions,
                       ledger_entries |-> ledger_entries]]
    /\ UNCHANGED <<database, call, answer, overdue, writes>>

\* 1. The idempotency check; its read opens the transaction's snapshot.
PreCheck(r) ==
    /\ pc[r] = "pre_check"
    /\ \/ /\ KeyTaken(r)
          /\ Raise(r, "DUPLICATE_SUBMISSION")
       \/ /\ ~KeyTaken(r)
          /\ Goto(r, "load_accounts")
          /\ txn' = [txn EXCEPT ![r] = "open"]
          /\ snapshot' = [snapshot EXCEPT ![r] =
                            [accounts       |-> accounts,
                             transactions   |-> transactions,
                             ledger_entries |-> ledger_entries]]
          /\ UNCHANGED <<database, call, answer, overdue, writes>>

\* Fault: the currency of the destination is not compared.
ValidatedIgnoringCurrency(docs, c) ==
    LET sides == {c.source_account_id, c.destination_account_id}
    IN  IF ~ (sides \subseteq DOMAIN docs) THEN "ACCOUNT_NOT_FOUND"
        ELSE IF \E x \in sides : docs[x].status # "ACTIVE" THEN "ACCOUNT_NOT_ACTIVE"
        ELSE IF AccountCurrency[c.source_account_id] # c.currency THEN "CURRENCY_MISMATCH"
        ELSE "OK"

\* _validate_participants on the documents docs: the error it raises, or "OK".
Validated(docs, c) ==
    LET sides == {c.source_account_id, c.destination_account_id}
    IN  IF ~ (sides \subseteq DOMAIN docs) THEN "ACCOUNT_NOT_FOUND"
        ELSE IF \E x \in sides : docs[x].status # "ACTIVE" THEN "ACCOUNT_NOT_ACTIVE"
        ELSE IF \E x \in sides : AccountCurrency[x] # c.currency THEN "CURRENCY_MISMATCH"
        ELSE "OK"

\* 2. Load and validate both accounts.  Only a USER source has a balance to
\* guard; a SYSTEM source goes straight to the writes.
LoadAccounts(r) ==
    /\ At(r, "load_accounts")
    /\ LET verdict == Validated(snapshot[r].accounts, call[r])
       IN  \/ verdict # "OK" /\ Raise(r, verdict)
           \/ /\ verdict = "OK"
              /\ Continue(r, IF call[r].source_account_id \in UserAccounts
                             THEN "lock_source" ELSE "insert_transaction")

\* Fault: a transaction boundary alone, without the write on the source.
LockSourceOmitted(r) ==
    At(r, "lock_source") /\ Continue(r, "check_funds")

\* Fault: update_one without the session.
LockSourceOutsideSession(r) ==
    LET a == call[r].source_account_id
    IN  /\ At(r, "lock_source")
        /\ accounts' = [accounts EXCEPT ![a].debit_serialisation_counter = @ + 1]
        /\ Goto(r, "check_funds")
        /\ UNCHANGED <<transactions, ledger_entries, call, answer, overdue, session>>

\* 3. {"$inc": {debit_serialisation_counter: 1}} on the source document.
LockSource(r) ==
    LET a == call[r].source_account_id
    IN  /\ At(r, "lock_source")
        /\ \/ WriteConflict(r, a) /\ Retry(r)
           \/ /\ ~WriteConflict(r, a)
              /\ ContinueWriting(r, [writes[r] EXCEPT !.accounts = {a}], "check_funds")

\* Fault: total_credited_minor is compared instead of balance_minor.
CreditsSeen(r, a) ==
    SumSigned({e \in snapshot[r].ledger_entries :
                 e.account_id = a /\ e.direction = "CREDIT"})

\* compute_balance with the session: the snapshot and the attempt's own writes.
BalanceSeen(r, a) ==
    Balance(snapshot[r].ledger_entries \cup writes[r].ledger_entries, a)

CheckFunds(r) ==
    LET c == call[r]
    IN  /\ At(r, "check_funds")
        /\ \/ /\ BalanceSeen(r, c.source_account_id) < c.amount_minor
              /\ Raise(r, "INSUFFICIENT_FUNDS")
           \/ /\ BalanceSeen(r, c.source_account_id) >= c.amount_minor
              /\ Continue(r, "insert_transaction")

\* Fault: uq_idempotency_key does not exist, the pre-check stands alone.
InsertTransactionUnindexed(r) ==
    /\ At(r, "insert_transaction")
    /\ ContinueWriting(r,
         [writes[r] EXCEPT !.transactions = {Transaction(r, call[r])}],
         "insert_entries")

\* Fault: a write conflict on the key is taken for a duplicate.
InsertTransactionConflictIsDuplicate(r) ==
    /\ At(r, "insert_transaction")
    /\ \/ (KeyTaken(r) \/ KeyInFlight(r)) /\ Raise(r, "DUPLICATE_SUBMISSION")
       \/ /\ ~KeyTaken(r) /\ ~KeyInFlight(r)
          /\ ContinueWriting(r,
               [writes[r] EXCEPT !.transactions = {Transaction(r, call[r])}],
               "insert_entries")

\* 4. The transaction header.  A key committed after the snapshot was taken
\* shows up as a duplicate key or as a write conflict.
InsertTransaction(r) ==
    /\ At(r, "insert_transaction")
    /\ \/ KeyTaken(r) /\ Raise(r, "DUPLICATE_SUBMISSION")
       \/ (KeyTaken(r) \/ KeyInFlight(r)) /\ Retry(r)
       \/ /\ ~KeyTaken(r) /\ ~KeyInFlight(r)
          /\ ContinueWriting(r,
               [writes[r] EXCEPT !.transactions = {Transaction(r, call[r])}],
               "insert_entries")

\* Fault: only the first document of the insert_many is written.
InsertDebitOnly(r) ==
    /\ At(r, "insert_entries")
    /\ ContinueWriting(r,
         [writes[r] EXCEPT !.ledger_entries = {DebitEntry(Transaction(r, call[r]))}],
         "send_commit")

\* Fault: insert_many without the session.
InsertEntriesOutsideSession(r) ==
    /\ At(r, "insert_entries")
    /\ ledger_entries' = ledger_entries \cup EntriesOf(Transaction(r, call[r]))
    /\ Goto(r, "send_commit")
    /\ UNCHANGED <<accounts, transactions, call, answer, overdue, session>>

\* 5. Both entries, in one call.
InsertEntries(r) ==
    /\ At(r, "insert_entries")
    /\ ContinueWriting(r,
         [writes[r] EXCEPT !.ledger_entries = EntriesOf(Transaction(r, call[r]))],
         "send_commit")

\* Fault: the answer does not wait for the commit's acknowledgement.
SendCommitWithoutWaiting(r) ==
    /\ At(r, "send_commit")
    /\ Return(r, "CREATED")
    /\ txn' = [txn EXCEPT ![r] = "committing"]
    /\ UNCHANGED <<database, call, overdue, snapshot, writes>>

\* The callback returned; with_transaction sends the commit.
SendCommit(r) ==
    /\ At(r, "send_commit")
    /\ Goto(r, "await_commit")
    /\ txn' = [txn EXCEPT ![r] = "committing"]
    /\ UNCHANGED <<database, call, answer, overdue, snapshot, writes>>

\* The commit was acknowledged, at once or when it was sent again.
CommitAcknowledged(r) ==
    /\ pc[r] = "await_commit" /\ txn[r] = "committed"
    /\ Return(r, "CREATED")
    /\ UNCHANGED <<database, call, overdue, session>>

\* Fault: every driver error is reported as WRITE_CONFLICT.
GiveUpAsConflict(r) ==
    /\ pc[r] = "await_commit" /\ overdue[r]
    /\ Return(r, "WRITE_CONFLICT")
    /\ UNCHANGED <<database, call, overdue, session>>

\* The deadline passed while the result of the commit was unknown: the driver's
\* error is not one create_transfer handles, and it says nothing of the outcome.
GiveUpOnCommit(r) ==
    /\ pc[r] = "await_commit" /\ overdue[r]
    /\ Return(r, "INTERNAL_ERROR")
    /\ UNCHANGED <<database, call, overdue, session>>

InTransaction ==
    {"load_accounts", "lock_source", "check_funds", "insert_transaction",
     "insert_entries", "send_commit", "await_commit"}

\* The next operation finds the transaction aborted by the server: a transient
\* error, which past the deadline is WRITE_CONFLICT when the server reported it
\* and an unhandled connection error when the network did.
NoticeAbort(r) ==
    /\ pc[r] \in InTransaction /\ txn[r] = "aborted"
    /\ \/ Retry(r)
       \/ overdue[r] /\ Raise(r, "INTERNAL_ERROR")

Running(r) == pc[r] \notin {"idle", "answered", "dead"}

Handler(r) ==
    \/ PreCheck(r) \/ LoadAccounts(r) \/ LockSource(r) \/ CheckFunds(r)
    \/ InsertTransaction(r) \/ InsertEntries(r) \/ SendCommit(r)
    \/ CommitAcknowledged(r) \/ GiveUpOnCommit(r) \/ NoticeAbort(r)

-----------------------------------------------------------------------------
(* The server and the world. *)

\* Every write of the transaction becomes visible at once.
Commit(r) ==
    /\ txn[r] = "committing"
    /\ accounts' = [a \in DOMAIN accounts |->
                      IF a \in writes[r].accounts
                      THEN [accounts[a] EXCEPT !.debit_serialisation_counter = @ + 1]
                      ELSE accounts[a]]
    /\ transactions' = transactions \cup writes[r].transactions
    /\ ledger_entries' = ledger_entries \cup writes[r].ledger_entries
    /\ EndTransaction(r, "committed")
    /\ UNCHANGED <<call, pc, answer, overdue>>

ServerAbort(r) ==
    /\ InFlight(r)
    /\ EndTransaction(r, "aborted")
    /\ UNCHANGED <<database, call, pc, answer, overdue>>

Server(r) == Commit(r) \/ ServerAbort(r)

\* with_transaction's 120 seconds are over.
Deadline(r) ==
    /\ Running(r) /\ ~overdue[r]
    /\ overdue' = [overdue EXCEPT ![r] = TRUE]
    /\ UNCHANGED <<database, call, pc, answer, session>>

\* The API process dies: the client has no answer, the server keeps the session.
Die(r) ==
    /\ Running(r)
    /\ Goto(r, "dead")
    /\ UNCHANGED <<database, call, answer, overdue, session>>

\* account_service.create_account.
CreateAccount(a) ==
    /\ a \in UserAccounts \ DOMAIN accounts
    /\ accounts' = [b \in DOMAIN accounts \cup {a} |->
                      IF b = a THEN NewAccount ELSE accounts[b]]
    /\ UNCHANGED <<transactions, ledger_entries, call, pc, answer, overdue, session>>

\* No code of the service changes a status: an operator does, on the database.
\* The write waits for a transaction that has written the document.  A freeze is
\* not lifted: documents carry no version here, so that WriteConflict would not
\* notice a document that was changed and changed back.
SetStatus(a, status) ==
    /\ a \in Restrictable \cap DOMAIN accounts
    /\ <<accounts[a].status, status>> \in
         {<<"ACTIVE", "FROZEN">>, <<"ACTIVE", "CLOSED">>, <<"FROZEN", "CLOSED">>}
    /\ \A r \in Requests : InFlight(r) => a \notin writes[r].accounts
    /\ accounts' = [accounts EXCEPT ![a].status = status]
    /\ UNCHANGED <<transactions, ledger_entries, call, pc, answer, overdue, session>>

Next ==
    \/ \E r \in Requests : Submit(r) \/ Handler(r) \/ Server(r)
                             \/ Deadline(r) \/ Die(r)
    \/ \E a \in Accounts : CreateAccount(a)
    \/ \E a \in Accounts, status \in Statuses : SetStatus(a, status)

\* A submitted request keeps being served while its process lives, its deadline
\* passes, and the server does not leave a transaction open for ever
\* (transactionLifetimeLimitSeconds).
Fairness ==
    \A r \in Requests : /\ WF_vars(Handler(r))
                        /\ WF_vars(Server(r))
                        /\ WF_vars(Deadline(r))

Spec == Init /\ [][Next]_vars /\ Fairness

\* The system when the server does not fail and no deadline passes: what can
\* keep a request from its answer is contention, and locks that a dead process
\* left behind until its session expires.
ExpireSession(r) == pc[r] = "dead" /\ ServerAbort(r)

ContentionNext ==
    \E r \in Requests : Submit(r) \/ Handler(r) \/ Commit(r) \/ Die(r) \/ ExpireSession(r)

ContentionSpec ==
    /\ Init /\ [][ContentionNext]_vars
    /\ \A r \in Requests : WF_vars(Handler(r)) /\ WF_vars(Commit(r) \/ ExpireSession(r))

-----------------------------------------------------------------------------
(* Types. *)

TransactionIds == Requests \cup Accounts

TransactionRecords ==
    [id                     : TransactionIds,
     idempotency_key        : Keys \cup Accounts,
     source_account_id      : Accounts,
     destination_account_id : Accounts,
     amount_minor           : Nat \ {0},
     currency               : Currencies]

EntryRecords ==
    [transaction_id      : TransactionIds,
     account_id          : Accounts,
     direction           : {"DEBIT", "CREDIT"},
     amount_minor        : Nat \ {0},
     signed_amount_minor : Int,
     currency            : Currencies]

AccountRecords == [status : Statuses, debit_serialisation_counter : Nat]

AccountTable(docs) ==
    /\ DOMAIN docs \subseteq Accounts
    /\ \A a \in DOMAIN docs : docs[a] \in AccountRecords

\* A database, or a transaction's view of it.
Documents(docs) ==
    /\ AccountTable(docs.accounts)
    /\ docs.transactions \subseteq TransactionRecords
    /\ docs.ledger_entries \subseteq EntryRecords

WriteRecords == [accounts       : SUBSET Accounts,
                 transactions   : SUBSET TransactionRecords,
                 ledger_entries : SUBSET EntryRecords]

Labels  == {"idle", "pre_check", "answered", "dead"} \cup InTransaction
Answers == {"NONE", "CREATED", "INTERNAL_ERROR"} \cup Rejections
TransactionStates == {"none", "open", "committing", "committed", "aborted"}

DatabaseType == /\ AccountTable(accounts)
                /\ transactions \subseteq TransactionRecords
                /\ ledger_entries \subseteq EntryRecords

HandlerType == /\ call \in [Requests -> Calls]
               /\ pc \in [Requests -> Labels]
               /\ answer \in [Requests -> Answers]
               /\ overdue \in [Requests -> BOOLEAN]

SessionType == /\ txn \in [Requests -> TransactionStates]
               /\ DOMAIN snapshot = Requests
               /\ \A r \in Requests : Documents(snapshot[r])
               /\ writes \in [Requests -> WriteRecords]

\* Each variable holds what the code or the database can put there.
TypeOK == DatabaseType /\ HandlerType /\ SessionType

-----------------------------------------------------------------------------
(* Safety. *)

\* No USER account ever goes below zero, although the check is a read of a
\* snapshot and the entries are inserts that conflict with nobody's: the write
\* skew the module docstring of ledger_service.py sets out to rule out.
NoOverdraft ==
    \A a \in UserAccounts : Balance(ledger_entries, a) >= 0

\* An idempotency key takes effect once, however many requests carry it and in
\* whatever order they check, insert, fail and retry.
OnceForEachKey ==
    \A s, t \in transactions : s.idempotency_key = t.idempotency_key => s = t

\* The entries are those of the committed transactions, one DEBIT and one CREDIT
\* each, never half a pair and never a pair without its header.
EntriesArePairs ==
    /\ ledger_entries = UNION {EntriesOf(t) : t \in transactions}
    /\ \A t \in transactions :
         LET mine == {e \in ledger_entries : e.transaction_id = t.id}
         IN  /\ Cardinality(mine) = 2
             /\ SumSigned(mine) = 0
             /\ \E e \in mine : e.account_id = t.source_account_id
                                  /\ e.signed_amount_minor = -t.amount_minor

\* "the total value currently held across all USER accounts in that currency"
\* (models/account.py on SYSTEM accounts): what a boundary account lacks is what
\* the USER accounts of its currency hold, whatever crossed or stayed inside.
BoundaryBacksHoldings ==
    \A s \in SystemAccounts :
        Balance(ledger_entries, s) =
          -SumSigned({e \in ledger_entries :
                        /\ e.account_id \in UserAccounts
                        /\ AccountCurrency[e.account_id] = AccountCurrency[s]})

\* "Raises, and writes nothing at all" (create_transfer): a request answered
\* with a rejection has no transaction and no entry in the ledger, then or
\* later, WRITE_CONFLICT after several attempts included; so a client that is
\* told to try again does not pay twice.
RejectedWritesNothing ==
    \A r \in Requests : answer[r] \in Rejections =>
        /\ \A t \in transactions : t.id # r
        /\ \A e \in ledger_entries : e.transaction_id # r
        /\ txn[r] # "committing"

\* A 201 is never taken back and was never premature: the transaction and both
\* entries of that very request are in the ledger.
CreatedIsInTheLedger ==
    \A r \in Requests : answer[r] = "CREATED" =>
        /\ Transaction(r, call[r]) \in transactions
        /\ EntriesOf(Transaction(r, call[r])) \subseteq ledger_entries

\* A request is called a duplicate only once the transfer it duplicates has
\* taken effect; while that one is still unfinished the key is not "used".
DuplicateMeansApplied ==
    \A r \in Requests : answer[r] = "DUPLICATE_SUBMISSION" =>
        \E t \in transactions : t.idempotency_key = call[r].idempotency_key /\ t.id # r

\* The counter of a USER account moves with the debits that committed: aborted
\* attempts leave no trace in it, so equal counters mean that no debit came
\* between.
CounterCountsDebits ==
    \A a \in UserAccounts \cap DOMAIN accounts :
        accounts[a].debit_serialisation_counter =
          Cardinality({t \in transactions : t.source_account_id = a})

-----------------------------------------------------------------------------
(* What a step may not do. *)

Debits(entries, a) == {e \in entries : e.account_id = a /\ e.direction = "DEBIT"}

\* When a debit of a USER account is published, its balance check had seen every
\* debit of that account published before: debits of an account are serial.
DebitSawEveryDebit ==
    [][\A r \in Requests : Commit(r) =>
          LET a == call[r].source_account_id
          IN  a \in UserAccounts =>
                Debits(ledger_entries, a) = Debits(snapshot[r].ledger_entries, a)]_vars

\* No USER account is debited after it was frozen or closed, even when that
\* happened between the status check and the commit: taking the lock would have
\* failed, or the operator's write would have waited for it.
FrozenIsNotDebited ==
    [][\A e \in ledger_entries' \ ledger_entries :
          e.direction = "DEBIT" /\ e.account_id \in UserAccounts =>
            accounts[e.account_id].status = "ACTIVE"]_vars

\* The ledger only grows, by one whole transfer at a time.
GrowsByWholeTransfers ==
    [][/\ transactions \subseteq transactions' /\ ledger_entries \subseteq ledger_entries'
       /\ ledger_entries' # ledger_entries =>
            \E t \in transactions' \ transactions :
                /\ transactions' = transactions \cup {t}
                /\ ledger_entries' \ ledger_entries = EntriesOf(t)]_vars

\* The docstring of _validate_participants: "the state it validates is the same
\* state the write will be applied to", for the account that is credited.
CreditedIsActive ==
    [][\A e \in ledger_entries' \ ledger_entries :
          e.direction = "CREDIT" => accounts[e.account_id].status = "ACTIVE"]_vars

-----------------------------------------------------------------------------
(* Liveness. *)

\* A submitted request is answered, or its process died: no request waits for
\* ever on a lock, on a key, on a lost acknowledgement or in its retry loop.
RequestIsAnswered ==
    \A r \in Requests : Running(r) ~> ~Running(r)

=============================================================================
