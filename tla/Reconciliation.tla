--------------------------- MODULE Reconciliation ---------------------------
(***************************************************************************)
(* app/services/reconciliation.py: the integrity report of the ledger.     *)
(*                                                                         *)
(* A report is six reads, one after the other, inside one read-only        *)
(* transaction with read concern "snapshot".  Transfers go on committing   *)
(* between the reads.  The ledger service appears here as what it promises *)
(* (LedgerService): a whole transfer at a time, that its source can pay.   *)
(*                                                                         *)
(* The other writers are those the documentation weighs: someone with      *)
(* unrestricted credentials who changes single documents directly.  The    *)
(* collection validators and unique indexes hold for them too.             *)
(***************************************************************************)
EXTENDS LedgerEntries, Sequences

CONSTANTS
    Reports,     \* calls of reconcile
    Accounts,    \* the ids of accounts
    Opened,      \* the account documents there are
    Currencies,
    Transfers,   \* the transactions that may commit
    StrayIds,    \* ids, of no transfer, that a direct write may use
    Amounts,     \* amounts a direct write may use
    MaxWrites    \* bound: the direct writes of a behaviour

IdsOf(D) == {d.id : d \in D}

\* The documents that the validators admit, of the fields that matter here.
TransactionRecords ==
    [id : IdsOf(Transfers) \cup StrayIds,
     source_account_id : Accounts, destination_account_id : Accounts,
     amount_minor : Nat \ {0}, currency : Currencies]

\* Accounts have no validator; a type that is neither is, to every read, like SYSTEM.
AccountRecords ==
    [id : Accounts, account_type : {"USER", "SYSTEM"}, currency : Currencies]

\* No two documents have one _id.
OneEach(D) == \A c, d \in D : c.id = d.id => c = d

ASSUME ReconciliationAssumption ==
    /\ Opened \subseteq AccountRecords /\ OneEach(Opened)
    /\ Transfers \subseteq TransactionRecords /\ OneEach(Transfers)
    /\ Amounts \subseteq Nat \ {0}
    /\ MaxWrites \in Nat

VARIABLES
    transactions,   \* committed documents
    ledger_entries,
    accounts,
    directly,       \* the kinds of direct writes made so far, in order
    next_read,      \* report -> the read it does next
    view,           \* report -> the snapshot of its transaction
    report          \* report -> what it has found so far

ledger == <<transactions, ledger_entries, accounts>>
scan   == <<next_read, view, report>>
vars   == <<ledger, directly, scan>>

Documents(T, E, A, w) ==
    [transactions |-> T, ledger_entries |-> E, accounts |-> A, directly |-> w]

\* What is committed.
Committed == Documents(transactions, ledger_entries, accounts, directly)

EmptyReport ==
    [net_signed_minor |-> 0, total_entries |-> 0, total_transactions |-> 0,
     entries_without_transaction |-> 0, unbalanced_transaction_groups |-> 0,
     negative_user_accounts |-> {}, per_currency_net_minor |-> <<>>]

Init ==
    /\ transactions = {} /\ ledger_entries = {} /\ accounts = Opened /\ directly = <<>>
    /\ next_read = [r \in Reports |-> "net"]
    /\ view = [r \in Reports |-> Documents({}, {}, Opened, <<>>)]
    /\ report = [r \in Reports |-> EmptyReport]

-----------------------------------------------------------------------------
(* The reads. *)

\* Fault: the reads are not given the session; each sees what is committed.
SeenWithoutSession(r) == Committed

\* Every read of the report sees the snapshot that its transaction opened with.
Seen(r) == view[r]

Group(E, i) == {e \in E : e.transaction_id = i}
Side(E, d)  == {e \in E : e.direction = d}
Ids(E)      == {e.transaction_id : e \in E}

Balanced(G) ==
    /\ Cardinality(G) = 2
    /\ Cardinality(Side(G, "DEBIT")) = 1
    /\ Cardinality(Side(G, "CREDIT")) = 1
    /\ SumSigned(G) = 0

\* _count_unbalanced_transaction_groups: entries are grouped by transaction_id.
Unbalanced(E) == {i \in Ids(E) : ~Balanced(Group(E, i))}

\* _count_entries_without_transaction.
WithoutTransaction(T, E) == {e \in E : e.transaction_id \notin IdsOf(T)}

\* Fault: the net is computed over all currencies at once.
PerCurrencyTogether(E) ==
    [c \in {e.currency : e \in E} |-> SumSigned(E)]

InCurrency(E, c) == {e \in E : e.currency = c}

\* _net_per_currency.
PerCurrency(E) ==
    [c \in {e.currency : e \in E} |-> SumSigned(InCurrency(E, c))]

\* The accounts whose document says that a user owns them.
UserIds(A) == IdsOf({a \in A : a.account_type = "USER"})

\* Fault: only what came in is summed.
NegativeByCredits(A, E) ==
    {a \in {e.account_id : e \in E} : Balance(Side(E, "CREDIT"), a) < 0 /\ a \in UserIds(A)}

\* _find_negative_user_accounts: an account without a document is left out.
NegativeUsers(A, E) ==
    {a \in {e.account_id : e \in E} : Balance(E, a) < 0 /\ a \in UserIds(A)}

Read(r, now, then, found) ==
    /\ next_read[r] = now
    /\ next_read' = [next_read EXCEPT ![r] = then]
    /\ report' = [report EXCEPT ![r] = found]
    /\ UNCHANGED <<ledger, directly>>

\* The first read opens the snapshot.
NetAndCount(r) ==
    /\ Read(r, "net", "per_currency",
            [report[r] EXCEPT !.net_signed_minor = SumSigned(ledger_entries),
                              !.total_entries = Cardinality(ledger_entries)])
    /\ view' = [view EXCEPT ![r] = Committed]

NetPerCurrency(r) ==
    /\ Read(r, "per_currency", "without_transaction",
            [report[r] EXCEPT !.per_currency_net_minor = PerCurrency(Seen(r).ledger_entries)])
    /\ UNCHANGED view

CountWithoutTransaction(r) ==
    /\ Read(r, "without_transaction", "groups",
            [report[r] EXCEPT !.entries_without_transaction =
                Cardinality(WithoutTransaction(Seen(r).transactions, Seen(r).ledger_entries))])
    /\ UNCHANGED view

CountUnbalancedGroups(r) ==
    /\ Read(r, "groups", "negative",
            [report[r] EXCEPT !.unbalanced_transaction_groups =
                Cardinality(Unbalanced(Seen(r).ledger_entries))])
    /\ UNCHANGED view

FindNegativeUsers(r) ==
    /\ Read(r, "negative", "total",
            [report[r] EXCEPT !.negative_user_accounts =
                NegativeUsers(Seen(r).accounts, Seen(r).ledger_entries)])
    /\ UNCHANGED view

CountTransactions(r) ==
    /\ Read(r, "total", "done",
            [report[r] EXCEPT !.total_transactions = Cardinality(Seen(r).transactions)])
    /\ UNCHANGED view

\* A read fails: the transaction is aborted and no report is returned.
Fail(r) ==
    /\ next_read[r] \notin {"net", "done", "failed"}
    /\ next_read' = [next_read EXCEPT ![r] = "failed"]
    /\ UNCHANGED <<ledger, directly, view, report>>

Reading(r) ==
    \/ NetAndCount(r) \/ NetPerCurrency(r) \/ CountWithoutTransaction(r)
    \/ CountUnbalancedGroups(r) \/ FindNegativeUsers(r) \/ CountTransactions(r) \/ Fail(r)

balanced(p) ==
    /\ p.net_signed_minor = 0
    /\ \A c \in DOMAIN p.per_currency_net_minor : p.per_currency_net_minor[c] = 0

healthy(p) ==
    /\ balanced(p)
    /\ p.entries_without_transaction = 0
    /\ p.unbalanced_transaction_groups = 0
    /\ p.negative_user_accounts = {}

-----------------------------------------------------------------------------
(* The ledger meanwhile. *)

\* A transfer commits, whole, if its source can pay for it.  The transaction has
\* written to the source's document, so that what it read there still holds.  What
\* it read of the destination may be outdated, and is left out.
Commit(t) ==
    /\ t.id \notin IdsOf(transactions) \cup Ids(ledger_entries)
    /\ \E source \in accounts :
         /\ source.id = t.source_account_id /\ source.currency = t.currency
         /\ \/ source.account_type = "SYSTEM"
            \/ Balance(ledger_entries, source.id) >= t.amount_minor
    /\ transactions' = transactions \cup {t}
    /\ ledger_entries' = ledger_entries \cup EntriesOf(t)
    /\ UNCHANGED <<accounts, directly, scan>>

\* A direct write.  It may also change fields that no definition here looks at
\* (a status, a key, a description, an owner): an update to what was there.
Write(kind, T, E, A) ==
    /\ Len(directly) < MaxWrites
    /\ directly' = Append(directly, kind)
    /\ transactions' = T /\ ledger_entries' = E /\ accounts' = A
    /\ UNCHANGED scan

\* The shape, the sign and the unique index that the database enforces on an
\* entry e next to the entries E.
Admissible(e, E) ==
    /\ e.signed_amount_minor = SignedAmountFor(e.direction, e.amount_minor)
    /\ \A d \in E : ~ (d.transaction_id = e.transaction_id /\ d.direction = e.direction)

WriteEntries(kind, E) == Write(kind, transactions, E, accounts)

KnownIds == IdsOf(transactions) \cup StrayIds

InsertEntry ==
    \E i \in KnownIds, a \in Accounts, d \in {"DEBIT", "CREDIT"}, n \in Amounts, c \in Currencies :
        LET e == Entry(i, a, d, n, c)
        IN  Admissible(e, ledger_entries) /\ WriteEntries("insert_entry", ledger_entries \cup {e})

DeleteEntry ==
    \E e \in ledger_entries : WriteEntries("delete_entry", ledger_entries \ {e})

\* An update of one field of an entry, its sign following its amount.
UpdateEntry(field, values) ==
    \E e \in ledger_entries, v \in values :
        LET new == [e EXCEPT ![field] = v]
            signed == [new EXCEPT !.signed_amount_minor =
                                     SignedAmountFor(new.direction, new.amount_minor)]
        IN  /\ signed # e /\ Admissible(signed, ledger_entries \ {e})
            /\ WriteEntries(field, (ledger_entries \ {e}) \cup {signed})

\* Of an entry's fields only its date is not among the above.
UpdateDate ==
    ledger_entries # {} /\ WriteEntries("created_at", ledger_entries)

WriteTransactions(kind, T) == Write(kind, T, ledger_entries, accounts)

InsertTransaction ==
    \E t \in Transfers, i \in IdsOf(Transfers) \cup StrayIds :
        /\ i \notin IdsOf(transactions)
        /\ WriteTransactions("insert_transaction", transactions \cup {[t EXCEPT !.id = i]})

DeleteTransaction ==
    \E t \in transactions : WriteTransactions("delete_transaction", transactions \ {t})

UpdateTransaction(field, values) ==
    \E t \in transactions, v \in values :
        WriteTransactions("update_transaction", (transactions \ {t}) \cup {[t EXCEPT ![field] = v]})

\* The index that the database enforces on accounts: one boundary per currency.
WriteAccounts(kind, A) ==
    /\ \A a, b \in A : a.account_type = "SYSTEM" /\ b.account_type = "SYSTEM"
                         /\ a.currency = b.currency => a = b
    /\ Write(kind, transactions, ledger_entries, A)

InsertAccount ==
    \E a \in AccountRecords :
        a.id \notin IdsOf(accounts) /\ WriteAccounts("insert_account", accounts \cup {a})

DeleteAccount ==
    \E a \in accounts : WriteAccounts("delete_account", accounts \ {a})

UpdateAccount ==
    \E a \in accounts, new \in AccountRecords :
        new.id = a.id /\ WriteAccounts("update_account", (accounts \ {a}) \cup {new})

DirectWrite ==
    \/ InsertEntry \/ DeleteEntry \/ UpdateDate
    \/ UpdateEntry("amount_minor", Amounts)
    \/ UpdateEntry("currency", Currencies)
    \/ UpdateEntry("account_id", Accounts)
    \/ UpdateEntry("transaction_id", KnownIds)
    \/ UpdateEntry("direction", {"DEBIT", "CREDIT"})
    \/ InsertTransaction \/ DeleteTransaction
    \/ UpdateTransaction("amount_minor", Amounts)
    \/ UpdateTransaction("currency", Currencies)
    \/ UpdateTransaction("source_account_id", Accounts)
    \/ UpdateTransaction("destination_account_id", Accounts)
    \/ InsertAccount \/ DeleteAccount \/ UpdateAccount

Next ==
    \/ \E r \in Reports : Reading(r)
    \/ \E t \in Transfers : Commit(t)
    \/ DirectWrite

Spec == Init /\ [][Next]_vars /\ \A r \in Reports : WF_vars(Reading(r))

-----------------------------------------------------------------------------
(* What a report is worth. *)

ReadSteps ==
    {"net", "per_currency", "without_transaction", "groups", "negative", "total",
     "done", "failed"}

WriteKinds ==
    {"insert_entry", "delete_entry",
     "amount_minor", "currency", "account_id", "transaction_id", "direction", "created_at",
     "insert_transaction", "delete_transaction", "update_transaction",
     "insert_account", "delete_account", "update_account"}

EntryRecords ==
    [transaction_id : IdsOf(Transfers) \cup StrayIds, account_id : Accounts,
     direction : {"DEBIT", "CREDIT"}, amount_minor : Nat \ {0},
     signed_amount_minor : Int, currency : Currencies]

DocumentsType(docs) ==
    /\ docs.transactions \subseteq TransactionRecords /\ IsFiniteSet(docs.transactions)
    /\ docs.accounts \subseteq AccountRecords
    /\ OneEach(docs.transactions) /\ OneEach(docs.accounts)
    /\ docs.ledger_entries \subseteq EntryRecords /\ IsFiniteSet(docs.ledger_entries)
    /\ \A e \in docs.ledger_entries :
         e.signed_amount_minor = SignedAmountFor(e.direction, e.amount_minor)
    /\ docs.directly \in Seq(WriteKinds)

ReportType(p) ==
    /\ DOMAIN p = DOMAIN EmptyReport
    /\ p.net_signed_minor \in Int
    /\ p.total_entries \in Nat /\ p.total_transactions \in Nat
    /\ p.entries_without_transaction \in Nat /\ p.unbalanced_transaction_groups \in Nat
    /\ p.negative_user_accounts \subseteq Accounts
    /\ DOMAIN p.per_currency_net_minor \subseteq Currencies

\* The collections hold what the validators admit, and the report what the
\* fields of ReconciliationReport do.
TypeOK ==
    /\ DocumentsType(Committed)
    /\ next_read \in [Reports -> ReadSteps]
    /\ DOMAIN view = Reports /\ DOMAIN report = Reports
    /\ \A r \in Reports : DocumentsType(view[r]) /\ ReportType(report[r])

\* "A checker that raises false alarms under load is worse than useless": while
\* only the service writes, every report is healthy and counts two entries for
\* each transaction, however many transfers commit between its reads.
NoFalseAlarm ==
    \A r \in Reports : next_read[r] = "done" /\ view[r].directly = <<>> =>
        /\ healthy(report[r])
        /\ report[r].total_entries = 2 * report[r].total_transactions

\* What no read of the report looks at: the account and the date of an entry,
\* all of a header but its id, all of an account but whether a user owns it; and
\* a header without entries is only counted.
Unseen ==
    {"account_id", "created_at", "insert_transaction", "update_transaction",
     "insert_account", "delete_account", "update_account"}

\* One entry added or removed by hand, or changed in its amount, sign, currency
\* or transaction, and one header removed, is found by the next report, whatever
\* commits around it.  What may escape it is in Unseen.
OneWriteIsFound ==
    \A r \in Reports :
        next_read[r] = "done" /\ Len(view[r].directly) = 1 /\ healthy(report[r]) =>
            view[r].directly[1] \in Unseen

\* What a healthy report says of the ledger it saw, however it came about.
HealthyMeansPaid ==
    \A r \in Reports : next_read[r] = "done" /\ healthy(report[r]) =>
        LET E == view[r].ledger_entries
        IN  /\ \A e \in E : \E d \in E : /\ d.transaction_id = e.transaction_id
                                         /\ d.signed_amount_minor = -e.signed_amount_minor
                                         /\ d.transaction_id \in IdsOf(view[r].transactions)
            /\ \A a \in UserIds(view[r].accounts) : Balance(E, a) >= 0

\* README.md on an entry rewritten so that it stays self-consistent:
\* "Reconciliation still detects such a tamper".
RewriteIsFound ==
    \A r \in Reports :
        next_read[r] = "done" /\ Len(view[r].directly) = 1
          /\ view[r].directly[1] \in {"amount_minor", "direction", "account_id"} =>
            ~healthy(report[r])

-----------------------------------------------------------------------------
(* Why it is worth that: the inductive invariant. *)

\* What the service leaves behind on its own: entries that are whole pairs of
\* the transactions, add up to zero in each currency, and overdraw no user.
Whole(T, E, A) ==
    /\ Ids(E) = IdsOf(T) /\ \A i \in Ids(E) : Balanced(Group(E, i))
    /\ Cardinality(E) = 2 * Cardinality(T)
    /\ SumSigned(E) = 0 /\ \A c \in Currencies : SumSigned(InCurrency(E, c)) = 0
    /\ \A a \in UserIds(A) : Balance(E, a) >= 0

\* What no later transfer repairs, and a report finds.
Damaged(T, E) ==
    \/ Unbalanced(E) # {}
    \/ WithoutTransaction(T, E) # {}
    \/ \E c \in Currencies : SumSigned(InCurrency(E, c)) # 0

HistoryInv(docs) ==
    /\ docs.directly = <<>> => Whole(docs.transactions, docs.ledger_entries, docs.accounts)
    /\ Len(docs.directly) = 1 =>
         docs.directly[1] \in Unseen \/ Damaged(docs.transactions, docs.ledger_entries)

\* All that the report p has found before the read next, it found in docs.
OneSnapshot(docs, p, next) ==
    LET T == docs.transactions
        E == docs.ledger_entries
        Past(reads) == next \notin reads \cup {"failed"}
    IN  /\ Past({"net"}) =>
             p.net_signed_minor = SumSigned(E) /\ p.total_entries = Cardinality(E)
        /\ Past({"net", "per_currency"}) => p.per_currency_net_minor = PerCurrency(E)
        /\ Past({"net", "per_currency", "without_transaction"}) =>
             p.entries_without_transaction = Cardinality(WithoutTransaction(T, E))
        /\ Past({"net", "per_currency", "without_transaction", "groups"}) =>
             p.unbalanced_transaction_groups = Cardinality(Unbalanced(E))
        /\ next \in {"total", "done"} => p.negative_user_accounts = NegativeUsers(docs.accounts, E)
        /\ next = "done" => p.total_transactions = Cardinality(T)

ReportInv ==
    /\ TypeOK
    /\ HistoryInv(Committed)
    /\ \A r \in Reports : HistoryInv(view[r]) /\ OneSnapshot(view[r], report[r], next_read[r])

=============================================================================
