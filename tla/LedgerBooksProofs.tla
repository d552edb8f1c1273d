-------------------------- MODULE LedgerBooksProofs --------------------------
(***************************************************************************)
(* What holds of the committed collections together.  Their entries are    *)
(* pairs, the counters count them, a duplicate is one of them, the         *)
(* boundary accounts mirror the USER accounts; and the whole moves like    *)
(* the table of balances of module Ledger.                                 *)
(*                                                                         *)
(* All of it follows from IInv, proved in LedgerSafetyProofs, and BooksInv *)
(* (LedgerInvariant), whose three parts are proved here.                   *)
(***************************************************************************)
EXTENDS LedgerSafetyProofs, LedgerRefinement

-----------------------------------------------------------------------------

\* A pair adds up to nothing.
LEMMA PairAddsToZero ==
    ASSUME NEW t \in TransactionRecords, t.source_account_id # t.destination_account_id
    PROVE  Cardinality(EntriesOf(t)) = 2 /\ SumSigned(EntriesOf(t)) = 0
BY PairOfEntries DEF TransactionRecords

\* Earlier funding left pairs.
LEMMA InitPairs == Init => PairsInv
<1> SUFFICES ASSUME Init PROVE PairsInv
    OBVIOUS
<1>1. ledger_entries = UNION {EntriesOf(t) : t \in transactions}
    BY DEF Init, EntriesOf
<1>2. \A t \in transactions : t.source_account_id # t.destination_account_id
  <2> SUFFICES ASSUME NEW t \in OpeningTransactions
               PROVE  t.source_account_id # t.destination_account_id
    BY DEF Init
  <2>1. PICK a \in DOMAIN OpeningFunds : t = OpeningTransaction(a)
    BY DEF OpeningTransactions
  <2>2. t.destination_account_id = a
    BY <2>1 DEF OpeningTransaction, Transaction
  <2>3. a \in UserAccounts
    BY ConstantsAssumption
  <2> QED
    BY <2>2, <2>3, OpeningFacts DEF UserAccounts, SystemAccounts
<1>3. \A s, t \in transactions : s.id = t.id => s = t
    BY OpeningFacts DEF Init
<1> QED
    BY <1>1, <1>2, <1>3 DEF PairsInv

\* A commit adds one.
LEMMA NextPairs == IInv /\ PairsInv /\ [Next]_vars => PairsInv'
<1> SUFFICES ASSUME IInv, PairsInv, [Next]_vars PROVE PairsInv'
    OBVIOUS
<1>1. CASE UNCHANGED <<transactions, ledger_entries>>
    BY <1>1 DEF PairsInv
<1>2. ASSUME NEW r \in Requests, Commit(r) PROVE PairsInv'
  <2>1. /\ transactions' = transactions \cup {Own(r)}
        /\ ledger_entries' = ledger_entries \cup EntriesOf(Own(r))
        /\ Source(r) # Destination(r) /\ txn[r] # "committed"
    BY <1>2, Published
  <2>2. \A t \in transactions : t.id # r
    BY <2>1 DEF IInv, OwnInv
  <2>3. /\ Own(r).id = r
        /\ Own(r).source_account_id = Source(r)
        /\ Own(r).destination_account_id = Destination(r)
    BY DEF Own, Transaction, Source, Destination
  <2> QED
    BY <2>1, <2>2, <2>3 DEF PairsInv
<1> QED
    BY <1>1, <1>2, OnlyCommitWrites DEF vars, database

\* The entries of a transaction are those that carry its id.
LEMMA PairsSuffice == IInv /\ PairsInv => EntriesArePairs
<1> SUFFICES ASSUME IInv, PairsInv, NEW t \in transactions
             PROVE  LET mine == {e \in ledger_entries : e.transaction_id = t.id}
                    IN  /\ Cardinality(mine) = 2
                        /\ SumSigned(mine) = 0
                        /\ \E e \in mine : e.account_id = t.source_account_id
                                             /\ e.signed_amount_minor = -t.amount_minor
    BY DEF PairsInv, EntriesArePairs
<1>1. \A s \in transactions : \A e \in EntriesOf(s) : e.transaction_id = s.id
    BY DEF EntriesOf, DebitEntry, CreditEntry, Entry
<1>2. {e \in ledger_entries : e.transaction_id = t.id} = EntriesOf(t)
    BY <1>1 DEF PairsInv
<1>3. t \in TransactionRecords
    BY DEF IInv, TypeOK, DatabaseType
<1>4. /\ DebitEntry(t) \in EntriesOf(t)
      /\ DebitEntry(t).account_id = t.source_account_id
      /\ DebitEntry(t).signed_amount_minor = -t.amount_minor
    BY DEF EntriesOf, DebitEntry, Entry, SignedAmountFor
<1>5. Cardinality(EntriesOf(t)) = 2 /\ SumSigned(EntriesOf(t)) = 0
    BY <1>3, PairAddsToZero DEF PairsInv
<1> QED
    BY <1>2, <1>4, <1>5

\* The entries are one DEBIT and one CREDIT of each committed transaction, for any
\* number of concurrent requests.
THEOREM PairsAreWhole == Spec => []EntriesArePairs
<1> QED
    BY InitPairs, NextPairs, PairsSuffice, Invariance, PTL DEF Spec

-----------------------------------------------------------------------------

\* Earlier funding debits no USER account.
LEMMA InitCounter == Init => CounterInv
<1> SUFFICES ASSUME Init PROVE CounterInv
    OBVIOUS
<1>1. IsFiniteSet(transactions)
  <2> DEFINE Funded == {a \in DOMAIN OpeningFunds : OpeningFunds[a] > 0}
             opening == [a \in Funded |-> OpeningTransaction(a)]
  <2>1. IsFiniteSet(Funded)
    BY ConstantsAssumption, FS_Subset DEF UserAccounts
  <2>2. OpeningTransactions = {opening[a] : a \in Funded}
    BY DEF OpeningTransactions
  <2>3. /\ opening \in [Funded -> OpeningTransactions]
        /\ \A t \in OpeningTransactions : \E a \in Funded : opening[a] = t
    BY <2>2
  <2> HIDE DEF Funded, opening
  <2>4. opening \in Surjection(Funded, OpeningTransactions)
    BY <2>3, Fun_IsSurj
  <2>5. IsFiniteSet(OpeningTransactions)
    BY <2>1, <2>4, FS_Surjection
  <2> QED
    BY <2>5 DEF Init
<1>2. \A a \in UserAccounts : DebitedBy(transactions, a) = {}
    BY OpeningFacts DEF Init, DebitedBy, UserAccounts, SystemAccounts
<1>3. \A a \in DOMAIN accounts : Counter(accounts, a) = 0
    BY DEF Init, Counter, NewAccount
<1> QED
    BY <1>1, <1>2, <1>3, FS_EmptySet DEF CounterInv

\* A commit counts one debit of its source, and nothing else counts.
LEMMA CommitCounter ==
    ASSUME IInv, CounterInv, NEW r \in Requests, Commit(r)
    PROVE  CounterInv'
<1> DEFINE t == Own(r)
<1>1. /\ transactions' = transactions \cup {t} /\ DOMAIN accounts' = DOMAIN accounts
      /\ txn[r] = "committing" /\ txn[r] # "committed"
      /\ Source(r) \in UserAccounts => writes[r].accounts = {Source(r)}
      /\ \A a \in DOMAIN accounts :
           /\ a \notin writes[r].accounts => accounts'[a] = accounts[a]
           /\ a \in writes[r].accounts => Counter(accounts', a) = Counter(accounts, a) + 1
    BY Published
<1>2. t.id = r /\ t.source_account_id = Source(r) /\ t \notin transactions
    BY <1>1 DEF IInv, OwnInv, Own, Transaction, Source
<1>3. IsFiniteSet(transactions')
    BY <1>1, FS_AddElement DEF CounterInv
<1>4. writes[r].accounts \subseteq {Source(r)} \cap UserAccounts
    BY DEF IInv, WritesInv
<1>5. Source(r) \in UserAccounts => Source(r) \in DOMAIN accounts
    BY <1>1 DEF IInv, LockInv, SnapshotInv, SnapshotOf, InFlight
<1> HIDE DEF t
<1>6. ASSUME NEW a \in UserAccounts
      PROVE  Cardinality(DebitedBy(transactions', a)) =
               IF a \in DOMAIN accounts' THEN Counter(accounts', a) ELSE 0
  <2>1. IsFiniteSet(DebitedBy(transactions, a))
    BY FS_Subset DEF CounterInv, DebitedBy
  <2>2. CASE a = Source(r)
    <3>1. DebitedBy(transactions', a) = DebitedBy(transactions, a) \cup {t}
      BY <1>1, <1>2, <2>2 DEF DebitedBy
    <3>2. Cardinality(DebitedBy(transactions', a)) = Cardinality(DebitedBy(transactions, a)) + 1
      BY <1>2, <2>1, <3>1, FS_AddElement DEF DebitedBy
    <3> QED
      BY <1>1, <1>5, <2>2, <3>2 DEF CounterInv
  <2>3. CASE a # Source(r)
    <3>1. DebitedBy(transactions', a) = DebitedBy(transactions, a)
      BY <1>1, <1>2, <2>3 DEF DebitedBy
    <3>2. a \in DOMAIN accounts => accounts'[a] = accounts[a]
      BY <1>1, <1>4, <2>3
    <3> QED
      BY <1>1, <3>1, <3>2 DEF CounterInv, Counter
  <2> QED
    BY <2>2, <2>3
<1> QED
    BY <1>3, <1>6 DEF CounterInv

\* No other step touches a counter, and a new account starts at none.
LEMMA NextCounter == IInv /\ CounterInv /\ [Next]_vars => CounterInv'
<1> SUFFICES ASSUME IInv, CounterInv, [Next]_vars PROVE CounterInv'
    OBVIOUS
<1>1. CASE UNCHANGED <<accounts, transactions>>
    BY <1>1 DEF CounterInv, DebitedBy, Counter
<1>2. ASSUME NEW r \in Requests, Submit(r) \/ Deadline(r) \/ Die(r) \/ ServerAbort(r)
      PROVE  UNCHANGED <<accounts, transactions>>
    BY <1>2 DEF Submit, Deadline, Die, ServerAbort, database
<1>3. ASSUME NEW r \in Requests, Handler(r)
      PROVE  UNCHANGED <<accounts, transactions>>
    BY <1>3 DEF Handler, PreCheck, LoadAccounts, LockSource, CheckFunds, InsertTransaction,
       InsertEntries, SendCommit, CommitAcknowledged, GiveUpOnCommit, NoticeAbort,
       Raise, Retry, Continue, ContinueWriting, database
<1>4. ASSUME NEW a \in Accounts, CreateAccount(a)
      PROVE  CounterInv'
  <2>1. /\ transactions' = transactions /\ a \notin DOMAIN accounts
        /\ DOMAIN accounts' = DOMAIN accounts \cup {a}
        /\ \A b \in DOMAIN accounts : accounts'[b] = accounts[b]
        /\ Counter(accounts', a) = 0
    BY <1>4 DEF CreateAccount, Counter, NewAccount
  <2> QED
    BY <2>1 DEF CounterInv, DebitedBy, Counter
<1>5. ASSUME NEW a \in Accounts, NEW status \in Statuses, SetStatus(a, status)
      PROVE  CounterInv'
  <2>1. \A b \in DOMAIN accounts : accounts[b] \in AccountRecords
    BY DEF IInv, TypeOK, DatabaseType, AccountTable
  <2>2. /\ transactions' = transactions /\ DOMAIN accounts' = DOMAIN accounts
        /\ \A b \in DOMAIN accounts : Counter(accounts', b) = Counter(accounts, b)
    BY <1>5, <2>1 DEF SetStatus, Counter, AccountRecords
  <2> QED
    BY <2>2 DEF CounterInv, DebitedBy
<1> QED
    BY <1>1, <1>2, <1>3, <1>4, <1>5, CommitCounter DEF Next, Server, vars, database

\* The counter of a USER account is the number of its committed debits, whatever
\* was attempted, retried or aborted.
THEOREM CountersAreExact == Spec => []CounterCountsDebits
<1>1. CounterInv => CounterCountsDebits
    BY DEF CounterInv, CounterCountsDebits, Counter, DebitedBy
<1> QED
    BY <1>1, InitCounter, NextCounter, Invariance, PTL DEF Spec

-----------------------------------------------------------------------------

\* A request that gets a new answer and none of it is DUPLICATE_SUBMISSION.
LEMMA OtherAnswer ==
    ASSUME IInv, DuplicateMeansApplied, NEW r \in Requests, NEW code,
           code # "DUPLICATE_SUBMISSION", Return(r, code) \/ UNCHANGED answer,
           transactions \subseteq transactions', UNCHANGED call
    PROVE  DuplicateMeansApplied'
<1>1. \A q \in Requests : answer'[q] = "DUPLICATE_SUBMISSION" => answer[q] = answer'[q]
    BY MovingAnswer
<1> QED
    BY <1>1 DEF DuplicateMeansApplied

\* A duplicate is found by its committed key, which is not the request's own.
LEMMA DuplicateAnswer ==
    ASSUME IInv, DuplicateMeansApplied, NEW r \in Requests, KeyTaken(r), txn[r] # "committed",
           Raise(r, "DUPLICATE_SUBMISSION")
    PROVE  DuplicateMeansApplied'
<1>1. PICK t \in transactions : t.idempotency_key = call[r].idempotency_key
    BY DEF KeyTaken, HasKey
<1>2. t.id # r
    BY DEF IInv, OwnInv
<1>3. \A q \in Requests : answer'[q] = IF q = r THEN "DUPLICATE_SUBMISSION" ELSE answer[q]
    BY MovingAnswer DEF Raise
<1> QED
    BY <1>1, <1>2, <1>3 DEF DuplicateMeansApplied, Raise, database

\* Every operation of a handler.
LEMMA HandlerDuplicate ==
    ASSUME IInv, DuplicateMeansApplied, NEW r \in Requests, Handler(r)
    PROVE  DuplicateMeansApplied'
<1>1. ASSUME NEW code, code # "DUPLICATE_SUBMISSION", Raise(r, code)
      PROVE  DuplicateMeansApplied'
    BY <1>1, OtherAnswer DEF Raise, database
<1>2. CASE Retry(r)
    BY <1>2, OtherAnswer DEF Retry, database
<1>3. CASE UNCHANGED <<transactions, call, answer>>
    BY <1>3 DEF DuplicateMeansApplied
<1>4. CASE PreCheck(r)
  <2>1. txn[r] # "committed"
    BY <1>4 DEF PreCheck, IInv, SessionInv, SessionOf
  <2> QED
    BY <1>3, <1>4, <2>1, DuplicateAnswer DEF PreCheck, database
<1>5. CASE InsertTransaction(r)
    BY <1>2, <1>3, <1>5, DuplicateAnswer DEF InsertTransaction, At, ContinueWriting, database
<1>6. CASE LoadAccounts(r)
  <2>1. Validated(snapshot[r].accounts, call[r]) # "DUPLICATE_SUBMISSION"
    BY DEF Validated
  <2> QED
    BY <1>1, <1>3, <1>6, <2>1 DEF LoadAccounts, Continue, database
<1>7. CASE LockSource(r) \/ CheckFunds(r) \/ InsertEntries(r) \/ SendCommit(r) \/ NoticeAbort(r)
    BY <1>1, <1>2, <1>3, <1>7
    DEF LockSource, CheckFunds, InsertEntries, SendCommit, NoticeAbort, Continue,
        ContinueWriting, database
<1>8. CASE CommitAcknowledged(r) \/ GiveUpOnCommit(r)
    BY <1>8, OtherAnswer DEF CommitAcknowledged, GiveUpOnCommit, database
<1> QED
    BY <1>4, <1>5, <1>6, <1>7, <1>8 DEF Handler

\* Nothing that is committed goes away.
LEMMA NextDuplicate == IInv /\ DuplicateMeansApplied /\ [Next]_vars => DuplicateMeansApplied'
<1> SUFFICES ASSUME IInv, DuplicateMeansApplied, [Next]_vars PROVE DuplicateMeansApplied'
    OBVIOUS
<1>1. ASSUME NEW r \in Requests, Submit(r)
      PROVE  DuplicateMeansApplied'
    BY <1>1, OtherAnswer DEF Submit, database
<1>2. CASE transactions \subseteq transactions' /\ UNCHANGED <<call, answer>>
    BY <1>2 DEF DuplicateMeansApplied
<1>3. ASSUME NEW r \in Requests, Server(r) \/ Deadline(r) \/ Die(r)
      PROVE  transactions \subseteq transactions' /\ UNCHANGED <<call, answer>>
    BY <1>3 DEF Server, Commit, ServerAbort, Deadline, Die, database
<1>4. ASSUME NEW a \in Accounts, CreateAccount(a) \/ \E s \in Statuses : SetStatus(a, s)
      PROVE  transactions \subseteq transactions' /\ UNCHANGED <<call, answer>>
    BY <1>4 DEF CreateAccount, SetStatus
<1> QED
    BY <1>1, <1>2, <1>3, <1>4, HandlerDuplicate DEF Next, vars, database

\* A client that is told its submission is a duplicate can rely on another one
\* being in the ledger, committed and for good.
THEOREM DuplicatesAreReal == Spec => []DuplicateMeansApplied
<1>1. Init => DuplicateMeansApplied
    BY DEF Init, DuplicateMeansApplied
<1> QED
    BY <1>1, NextDuplicate, Invariance, PTL DEF Spec

-----------------------------------------------------------------------------

\* No account document is ever removed.
LEMMA AccountsStay ==
    ASSUME Next
    PROVE  DOMAIN accounts \subseteq DOMAIN accounts'
<1>1. ASSUME NEW r \in Requests, Submit(r) \/ Deadline(r) \/ Die(r) \/ Server(r)
      PROVE  DOMAIN accounts \subseteq DOMAIN accounts'
    BY <1>1 DEF Submit, Deadline, Die, Server, Commit, ServerAbort, database
<1>2. ASSUME NEW r \in Requests, Handler(r)
      PROVE  DOMAIN accounts \subseteq DOMAIN accounts'
    BY <1>2 DEF Handler, PreCheck, LoadAccounts, LockSource, CheckFunds, InsertTransaction,
       InsertEntries, SendCommit, CommitAcknowledged, GiveUpOnCommit, NoticeAbort,
       Raise, Retry, Continue, ContinueWriting, database
<1>3. ASSUME NEW a \in Accounts, CreateAccount(a) \/ \E s \in Statuses : SetStatus(a, s)
      PROVE  DOMAIN accounts \subseteq DOMAIN accounts'
    BY <1>3 DEF CreateAccount, SetStatus
<1> QED
    BY <1>1, <1>2, <1>3 DEF Next

\* Earlier funding was in the currency of both its accounts, which are open.
LEMMA InitSides == Init => SidesInv
<1> SUFFICES ASSUME Init PROVE SidesInv
    OBVIOUS
<1>1. \A r \in Requests : ~Past(r, Drafting \ {"load_accounts"})
    BY DEF Init, Past
<1>2. ASSUME NEW t \in transactions PROVE Fits(accounts, t)
  <2>1. PICK a \in DOMAIN OpeningFunds : t = OpeningTransaction(a)
    BY DEF Init, OpeningTransactions
  <2>2. a \in Accounts /\ AccountCurrency[a] \in Currencies
    BY ConstantsAssumption DEF UserAccounts
  <2>3. /\ SystemAccountOf(AccountCurrency[a]) \in SystemAccounts
        /\ AccountCurrency[SystemAccountOf(AccountCurrency[a])] = AccountCurrency[a]
    BY <2>2, BoundaryType
  <2>4. DOMAIN accounts = SystemAccounts \cup DOMAIN OpeningFunds
    BY DEF Init
  <2>5. /\ t.source_account_id = SystemAccountOf(AccountCurrency[a])
        /\ t.destination_account_id = a /\ t.currency = AccountCurrency[a]
    BY <2>1 DEF OpeningTransaction, Transaction
  <2> QED
    BY <2>3, <2>4, <2>5 DEF Fits
<1> QED
    BY <1>1, <1>2 DEF SidesInv, HasValidated

\* A step of r that leaves the others alone, and r's transaction ended, where it
\* was or just validated.
LEMMA SnapshotsStillFit ==
    ASSUME NEW r \in Requests, UNCHANGED call,
           \A q \in Requests : HasValidated(q) => Fits(snapshot[q].accounts, call[q]),
           \A q \in Requests \ {r} :
               pc'[q] = pc[q] /\ txn'[q] = txn[q] /\ snapshot'[q] = snapshot[q],
           \/ ~HasValidated(r)'
           \/ HasValidated(r) /\ snapshot'[r] = snapshot[r]
           \/ Fits(snapshot'[r].accounts, call[r])
    PROVE  (\A q \in Requests : HasValidated(q) => Fits(snapshot[q].accounts, call[q]))'
<1> SUFFICES ASSUME NEW q \in Requests, HasValidated(q)'
             PROVE  Fits(snapshot'[q].accounts, call'[q])
    OBVIOUS
<1>1. CASE q # r
  <2>1. HasValidated(q)
    BY <1>1 DEF HasValidated, Past
  <2> QED
    BY <1>1, <2>1
<1>2. CASE q = r
    BY <1>2
<1> QED
    BY <1>1, <1>2

\* A step that moves r within its transaction, and no further than it validated.
LEMMA MovingFits ==
    ASSUME IInv, SidesInv, NEW r \in Requests, NEW label, Goto(r, label),
           UNCHANGED <<call, txn, snapshot>>,
           HasValidated(r)' => HasValidated(r) \/ Fits(snapshot[r].accounts, call[r])
    PROVE  (\A q \in Requests : HasValidated(q) => Fits(snapshot[q].accounts, call[q]))'
BY MovingPc, SnapshotsStillFit DEF SidesInv

\* A transaction that ends has validated nothing.
LEMMA EndingFits ==
    ASSUME IInv, SidesInv, NEW r \in Requests, NEW label, Goto(r, label) \/ UNCHANGED pc,
           NEW s \in TransactionStates \ {"open", "committing"}, EndTransaction(r, s),
           UNCHANGED call
    PROVE  (\A q \in Requests : HasValidated(q) => Fits(snapshot[q].accounts, call[q]))'
<1>1. ~HasValidated(r)'
    BY EndedWrites DEF HasValidated, Past
<1> QED
    BY <1>1, MovingPc, EndedWrites, SnapshotsStillFit DEF SidesInv

\* A handler loads and validates before anything else, in the snapshot.
LEMMA HandlerFits ==
    ASSUME IInv, SidesInv, NEW r \in Requests, Handler(r)
    PROVE  (\A q \in Requests : HasValidated(q) => Fits(snapshot[q].accounts, call[q]))'
<1> DEFINE Fit == \A q \in Requests : HasValidated(q) => Fits(snapshot[q].accounts, call[q])
<1>1. ASSUME NEW code, Raise(r, code) PROVE Fit'
    BY <1>1, EndingFits DEF Raise, Return, TransactionStates
<1>2. CASE Retry(r)
    BY <1>2, EndingFits DEF Retry, Return, TransactionStates
<1>3. ASSUME NEW label, Goto(r, label), UNCHANGED <<call, txn, snapshot>>,
             txn[r] = "open", pc[r] \in Drafting \ {"load_accounts"}
      PROVE  Fit'
  <2>1. HasValidated(r)
    BY <1>3 DEF HasValidated, Past
  <2> QED
    BY <1>3, <2>1, MovingFits
<1>4. CASE PreCheck(r)
  <2>1. CASE Goto(r, "load_accounts") /\ txn' = [txn EXCEPT ![r] = "open"]
             /\ \E docs : snapshot' = [snapshot EXCEPT ![r] = docs]
    <3>1. /\ \A q \in Requests : pc'[q] = IF q = r THEN "load_accounts" ELSE pc[q]
          /\ \A q \in Requests : txn'[q] = IF q = r THEN "open" ELSE txn[q]
          /\ \A q \in Requests \ {r} : snapshot'[q] = snapshot[q]
          /\ call' = call
      BY <1>4, <2>1, MovingPc DEF PreCheck, Raise, IInv, TypeOK, SessionType
    <3>2. ~HasValidated(r)'
      BY <3>1 DEF HasValidated, Past
    <3> QED
      BY <3>1, <3>2, SnapshotsStillFit DEF SidesInv
  <2> QED
    BY <1>1, <1>4, <2>1 DEF PreCheck
<1>5. CASE LoadAccounts(r)
  <2>1. ASSUME NEW label, Continue(r, label), Validated(snapshot[r].accounts, call[r]) = "OK"
        PROVE  Fit'
    <3>1. Fits(snapshot[r].accounts, call[r])
      BY <2>1 DEF Validated, Fits
    <3> QED
      BY <2>1, <3>1, MovingFits DEF Continue, session
  <2> QED
    BY <1>1, <1>5, <2>1 DEF LoadAccounts
<1>6. CASE LockSource(r) \/ CheckFunds(r) \/ InsertTransaction(r) \/ InsertEntries(r)
    BY <1>1, <1>2, <1>3, <1>6
    DEF LockSource, CheckFunds, InsertTransaction, InsertEntries, At, Continue,
        ContinueWriting, session, Drafting, InTransaction
<1>7. CASE SendCommit(r)
  <2>1. /\ \A q \in Requests : pc'[q] = IF q = r THEN "await_commit" ELSE pc[q]
        /\ \A q \in Requests : txn'[q] = IF q = r THEN "committing" ELSE txn[q]
        /\ UNCHANGED <<call, snapshot>> /\ HasValidated(r)
    BY <1>7, MovingPc
    DEF SendCommit, At, HasValidated, Past, Drafting, InTransaction, IInv, TypeOK, SessionType
  <2> QED
    BY <2>1, SnapshotsStillFit DEF SidesInv
<1>8. CASE CommitAcknowledged(r) \/ GiveUpOnCommit(r)
  <2>1. HasValidated(r)' => HasValidated(r)
    BY <1>8, MovingPc
    DEF CommitAcknowledged, GiveUpOnCommit, Return, session, HasValidated, Past, Drafting,
        InTransaction
  <2> QED
    BY <1>8, <2>1, MovingFits DEF CommitAcknowledged, GiveUpOnCommit, Return, session
<1>9. CASE NoticeAbort(r)
    BY <1>1, <1>2, <1>9 DEF NoticeAbort
<1> QED
    BY <1>4, <1>5, <1>6, <1>7, <1>8, <1>9 DEF Handler

\* Every step keeps the sides in place.
LEMMA NextSides == IInv /\ SidesInv /\ [Next]_vars => SidesInv'
<1> SUFFICES ASSUME IInv, SidesInv, [Next]_vars PROVE SidesInv'
    OBVIOUS
<1> DEFINE Fit == \A q \in Requests : HasValidated(q) => Fits(snapshot[q].accounts, call[q])
           Fitted == \A t \in transactions : Fits(accounts, t)
<1>1. CASE UNCHANGED vars
    BY <1>1 DEF vars, database, session, SidesInv, HasValidated, Past
<1>2. CASE Next
  <2>1. Fit'
    <3>1. CASE UNCHANGED <<call, pc, txn, snapshot>>
      BY <3>1 DEF SidesInv, HasValidated, Past
    <3>2. ASSUME NEW r \in Requests, Submit(r)
          PROVE  Fit'
      <4>1. txn[r] = "none" /\ UNCHANGED <<call, txn, snapshot>>
        BY <3>2 DEF Submit, session, IInv, SessionInv, SessionOf
      <4>2. ~HasValidated(r)'
        BY <4>1 DEF HasValidated, Past
      <4> QED
        BY <3>2, <4>1, <4>2, MovingFits DEF Submit, Return
    <3>3. ASSUME NEW r \in Requests, Die(r)
          PROVE  Fit'
      <4>1. HasValidated(r)' => HasValidated(r)
        BY <3>3, MovingPc DEF Die, session, HasValidated, Past, Drafting, InTransaction
      <4> QED
        BY <3>3, <4>1, MovingFits DEF Die, session
    <3>4. ASSUME NEW r \in Requests, Server(r)
          PROVE  Fit'
      BY <3>4, EndingFits DEF Server, Commit, ServerAbort, TransactionStates
    <3>5. ASSUME NEW r \in Requests, Deadline(r)
          PROVE  UNCHANGED <<call, pc, txn, snapshot>>
      BY <3>5 DEF Deadline, session
    <3>6. ASSUME NEW a \in Accounts, CreateAccount(a) \/ \E s \in Statuses : SetStatus(a, s)
          PROVE  UNCHANGED <<call, pc, txn, snapshot>>
      BY <3>6 DEF CreateAccount, SetStatus, session
    <3> QED
      BY <1>2, <3>1, <3>2, <3>3, <3>4, <3>5, <3>6, HandlerFits DEF Next
  <2>2. Fitted'
    <3>1. DOMAIN accounts \subseteq DOMAIN accounts'
      BY <1>2, AccountsStay
    <3>2. CASE UNCHANGED transactions
      BY <3>1, <3>2 DEF SidesInv, Fits
    <3>3. ASSUME NEW r \in Requests, Commit(r) PROVE Fitted'
      <4>1. transactions' = transactions \cup {Own(r)} /\ HasValidated(r) /\ InFlight(r)
        BY <3>3, Published DEF HasValidated, Past, InFlight
      <4>2. Fits(snapshot[r].accounts, call[r])
        BY <4>1 DEF SidesInv
      <4>3. DOMAIN snapshot[r].accounts \subseteq DOMAIN accounts
        BY <4>1 DEF IInv, SnapshotInv, SnapshotOf
      <4>4. Fits(accounts', Own(r))
        BY <3>1, <4>2, <4>3 DEF Fits, Own, Transaction
      <4> QED
        BY <3>1, <4>1, <4>4 DEF SidesInv, Fits
    <3> QED
      BY <1>2, <3>2, <3>3, OnlyCommitWrites
  <2> QED
    BY <2>1, <2>2 DEF SidesInv
<1> QED
    BY <1>1, <1>2

\* The committed collections agree with each other, for any number of requests.
THEOREM BooksAgree == Spec => []BooksInv
<1>1. Init => BooksInv
    BY InitPairs, InitCounter, InitSides DEF BooksInv
<1>2. IInv /\ BooksInv /\ [Next]_vars => BooksInv'
    BY NextPairs, NextCounter, NextSides DEF BooksInv
<1> QED
    BY <1>1, <1>2, Invariance, PTL DEF Spec

-----------------------------------------------------------------------------
(* Boundary accounts. *)

EntriesOfAll(ts) == UNION {EntriesOf(t) : t \in ts}

InCurrency(E, c) == {e \in E : AccountCurrency[e.account_id] = c}

\* The entries of transactions are signed, and finitely many.
LEMMA EntriesAreSigned ==
    ASSUME IInv, PairsInv, NEW ts \in SUBSET transactions
    PROVE  /\ EntriesOfAll(ts) \subseteq ledger_entries
           /\ IsFiniteSet(EntriesOfAll(ts)) /\ Signed(EntriesOfAll(ts))
<1>1. EntriesOfAll(ts) \subseteq ledger_entries
    BY DEF EntriesOfAll, PairsInv
<1>2. IsFiniteSet(ledger_entries) /\ \A e \in ledger_entries : e.signed_amount_minor \in Int
    BY SignedLedger DEF IInv, EntriesInv
<1> QED
    BY <1>1, <1>2, FS_Subset DEF Signed

\* One transfer more leaves the sum over each currency as it was.
LEMMA PairKeepsCurrencySum ==
    ASSUME IInv, PairsInv, SidesInv, NEW c, NEW ts \in SUBSET transactions,
           NEW t \in transactions \ ts
    PROVE  SumSigned(InCurrency(EntriesOfAll(ts \cup {t}), c)) =
             SumSigned(InCurrency(EntriesOfAll(ts), c))
<1> DEFINE E == InCurrency(EntriesOfAll(ts), c)
           N == InCurrency(EntriesOf(t), c)
<1>1. InCurrency(EntriesOfAll(ts \cup {t}), c) = E \cup N
    BY DEF InCurrency, EntriesOfAll
<1>2. IsFiniteSet(E) /\ Signed(E)
    BY EntriesAreSigned, FS_Subset DEF InCurrency, Signed
<1>3. \A e \in EntriesOf(t) : e.transaction_id = t.id /\ AccountCurrency[e.account_id] = t.currency
    BY DEF EntriesOf, DebitEntry, CreditEntry, Entry, SidesInv, Fits
<1>4. CASE t.currency # c
    BY <1>1, <1>3, <1>4 DEF InCurrency
<1>5. CASE t.currency = c
  <2>1. N = EntriesOf(t)
    BY <1>3, <1>5 DEF InCurrency
  <2>2. t \in TransactionRecords /\ SumSigned(EntriesOf(t)) = 0
    BY PairAddsToZero DEF IInv, TypeOK, DatabaseType, PairsInv
  <2>3. IsFiniteSet(EntriesOf(t)) /\ Signed(EntriesOf(t))
    BY <2>2, PairIsFinite, EntriesType DEF EntriesOf, Signed, EntryRecords
  <2>4. E \cap EntriesOf(t) = {}
    <3>1. \A s \in ts : \A e \in EntriesOf(s) : e.transaction_id = s.id /\ s.id # t.id
      BY DEF PairsInv, EntriesOf, DebitEntry, CreditEntry, Entry
    <3> QED
      BY <1>3, <3>1 DEF InCurrency, EntriesOfAll
  <2> HIDE DEF E, N
  <2>5. SumSigned(E \cup EntriesOf(t)) = SumSigned(E) + SumSigned(EntriesOf(t))
    BY <1>2, <2>3, <2>4, SumSignedDisjoint
  <2>6. SumSigned(E) \in Int
    BY <1>2, SumSignedType
  <2>7. SumSigned(E \cup N) = SumSigned(E)
    BY <2>1, <2>2, <2>5, <2>6
  <2> QED
    BY <1>1, <2>7 DEF E
<1> QED
    BY <1>4, <1>5

\* So the entries of a currency add up to nothing: by induction on the number of
\* transactions.
LEMMA CurrencyAddsToZero ==
    ASSUME IInv, BooksInv, NEW c
    PROVE  SumSigned(InCurrency(ledger_entries, c)) = 0
<1> USE DEF BooksInv
<1> DEFINE Zero(ts) == SumSigned(InCurrency(EntriesOfAll(ts), c)) = 0
           S == {n \in Nat : \A ts \in SUBSET transactions : Cardinality(ts) = n => Zero(ts)}
<1>0. \A ts \in SUBSET transactions : IsFiniteSet(ts) /\ Cardinality(ts) \in Nat
    BY FS_Subset, FS_CardinalityType DEF CounterInv
<1>1. 0 \in S
  <2>1. \A ts \in SUBSET transactions : Cardinality(ts) = 0 => ts = {}
    BY <1>0, FS_EmptySet
  <2>2. InCurrency(EntriesOfAll({}), c) = {}
    BY DEF InCurrency, EntriesOfAll
  <2>3. Zero({})
    BY <2>2, SumSignedEmpty
  <2> QED
    BY <2>1, <2>3
<1>2. ASSUME NEW n \in S PROVE n + 1 \in S
  <2> SUFFICES ASSUME NEW ts \in SUBSET transactions, Cardinality(ts) = n + 1
               PROVE  Zero(ts)
    OBVIOUS
  <2>1. n \in Nat /\ IsFiniteSet(ts)
    BY <1>0
  <2>2. PICK t \in ts : TRUE
    BY <2>1, FS_EmptySet
  <2> DEFINE us == ts \ {t}
  <2>3. Cardinality(us) = Cardinality(ts) - 1
    BY <2>1, FS_RemoveElement
  <2>4. Cardinality(us) = n
    <3> HIDE DEF S, us
    <3> QED
      BY <2>1, <2>3
  <2>5. Zero(us)
    BY <2>4
  <2>6. ts = us \cup {t} /\ us \in SUBSET transactions /\ t \in transactions \ us
    OBVIOUS
  <2> HIDE DEF us, S
  <2>7. SumSigned(InCurrency(EntriesOfAll(us \cup {t}), c)) =
          SumSigned(InCurrency(EntriesOfAll(us), c))
    BY <2>6, PairKeepsCurrencySum
  <2> QED
    BY <2>5, <2>6, <2>7
<1>3. S = Nat
    BY <1>1, <1>2, NatInductionOnSets
<1>4. EntriesOfAll(transactions) = ledger_entries
    BY DEF PairsInv, EntriesOfAll
<1>5. Zero(transactions)
    BY <1>0, <1>3
<1> QED
    BY <1>4, <1>5

\* A currency has one boundary account; what is not on it is on USER accounts.
LEMMA BoundarySuffices == IInv /\ BooksInv => BoundaryBacksHoldings
<1> SUFFICES ASSUME IInv, BooksInv, NEW s \in SystemAccounts
             PROVE  Balance(ledger_entries, s) =
                      -SumSigned({e \in ledger_entries :
                                    /\ e.account_id \in UserAccounts
                                    /\ AccountCurrency[e.account_id] = AccountCurrency[s]})
    BY DEF BoundaryBacksHoldings
<1> DEFINE Mine == {e \in ledger_entries : e.account_id = s}
           Held == {e \in ledger_entries :
                      /\ e.account_id \in UserAccounts
                      /\ AccountCurrency[e.account_id] = AccountCurrency[s]}
<1>1. IsFiniteSet(Mine) /\ Signed(Mine) /\ IsFiniteSet(Held) /\ Signed(Held)
  <2>1. IsFiniteSet(ledger_entries) /\ \A e \in ledger_entries : e.signed_amount_minor \in Int
    BY SignedLedger DEF IInv, EntriesInv
  <2> QED
    BY <2>1, FS_Subset DEF Signed
<1>2. Mine \cap Held = {}
    BY DEF UserAccounts, SystemAccounts
<1>3. InCurrency(ledger_entries, AccountCurrency[s]) = Mine \cup Held
  <2>1. \A e \in ledger_entries : e.account_id \in Accounts
    BY DEF IInv, TypeOK, DatabaseType, EntryRecords
  <2>2. \A a \in Accounts : a \in UserAccounts \/ a \in SystemAccounts
    BY ConstantsAssumption DEF UserAccounts, SystemAccounts
  <2>3. AccountCurrency[s] \in Currencies
    BY ConstantsAssumption DEF SystemAccounts
  <2>4. \A a \in SystemAccounts : AccountCurrency[a] = AccountCurrency[s] => a = s
    BY <2>3, BoundaryAssumption
  <2> QED
    BY <2>1, <2>2, <2>4 DEF InCurrency
<1> HIDE DEF Mine, Held
<1>4. SumSigned(Mine \cup Held) = SumSigned(Mine) + SumSigned(Held)
    BY <1>1, <1>2, SumSignedDisjoint
<1>5. SumSigned(Mine \cup Held) = 0
    BY <1>3, CurrencyAddsToZero
<1>6. SumSigned(Mine) \in Int /\ SumSigned(Held) \in Int
    BY <1>1, SumSignedType
<1>7. SumSigned(Mine) = -SumSigned(Held)
    BY <1>4, <1>5, <1>6
<1> QED
    BY <1>7 DEF Mine, Held, Balance

\* What a boundary account lacks is what the USER accounts of its currency hold,
\* for any number of accounts, currencies and requests.
THEOREM BoundariesBack == Spec => []BoundaryBacksHoldings
<1> QED
    BY BoundarySuffices, BooksAgree, Invariance, PTL

-----------------------------------------------------------------------------
(* Refinement. *)

\* An entry added to the ledger counts for its account, and for no other.
LEMMA BalanceAdds ==
    ASSUME NEW E, IsFiniteSet(E), Signed(E), NEW a,
           NEW x, x \notin E, x.signed_amount_minor \in Int
    PROVE  Balance(E \cup {x}, a) =
             Balance(E, a) + IF x.account_id = a THEN x.signed_amount_minor ELSE 0
<1> DEFINE Of(F) == {e \in F : e.account_id = a}
<1>1. IsFiniteSet(Of(E)) /\ Signed(Of(E)) /\ x \notin Of(E)
    BY FS_Subset DEF Signed
<1>2. SumSigned(Of(E)) \in Int
    BY <1>1, SumSignedType
<1>3. CASE x.account_id = a
  <2>1. Of(E \cup {x}) = Of(E) \cup {x}
    BY <1>3
  <2> HIDE DEF Of
  <2>2. SumSigned(Of(E \cup {x})) = SumSigned(Of(E)) + x.signed_amount_minor
    BY <1>1, <2>1, SumSignedAdd
  <2> QED
    BY <1>3, <2>2 DEF Balance, Of
<1>4. CASE x.account_id # a
  <2>1. Of(E \cup {x}) = Of(E)
    BY <1>4
  <2> HIDE DEF Of
  <2>2. SumSigned(Of(E \cup {x})) = SumSigned(Of(E)) + 0
    BY <1>2, <2>1
  <2> QED
    BY <1>4, <2>2 DEF Balance, Of
<1> QED
    BY <1>3, <1>4

\* A balance is an integer.
LEMMA BalanceType ==
    ASSUME IInv, NEW a
    PROVE  Balance(ledger_entries, a) \in Int
<1>1. IsFiniteSet(ledger_entries) /\ \A e \in ledger_entries : e.signed_amount_minor \in Int
    BY SignedLedger DEF IInv, EntriesInv
<1> QED
    BY <1>1, FS_Subset, SumSignedType DEF Signed, Balance

\* A commit takes the amount from the source and gives it to the destination.
LEMMA CommitMovesBalances ==
    ASSUME IInv, NEW r \in Requests, Commit(r), NEW a \in Accounts
    PROVE  Balance(ledger_entries', a) =
             IF a = Source(r) THEN Balance(ledger_entries, a) - call[r].amount_minor
             ELSE IF a = Destination(r)
             THEN Balance(ledger_entries, a) + call[r].amount_minor
             ELSE Balance(ledger_entries, a)
<1> DEFINE debit  == DebitEntry(Own(r))
           credit == CreditEntry(Own(r))
           E == ledger_entries
           F == ledger_entries \cup {debit}
           amount == call[r].amount_minor
<1>1. /\ debit.account_id = Source(r) /\ debit.signed_amount_minor = -amount
      /\ credit.account_id = Destination(r) /\ credit.signed_amount_minor = amount
      /\ debit.transaction_id = r /\ credit.transaction_id = r
      /\ amount \in Nat /\ Source(r) # Destination(r)
    BY OwnEntries, Published
    DEF Own, DebitEntry, CreditEntry, Entry, Transaction, Source, Destination, SignedAmountFor
<1>2. \A e \in E : e.transaction_id # r
    BY Published DEF IInv, OwnInv
<1>3. ledger_entries' = F \cup {credit}
    BY Published DEF EntriesOf
<1>4. IsFiniteSet(E) /\ Signed(E)
    BY SignedLedger DEF Signed, IInv, EntriesInv
<1> HIDE DEF debit, credit, amount
<1>5. debit \notin E /\ credit \notin F
    BY <1>1, <1>2
<1>6. -amount \in Int /\ amount \in Int
    BY <1>1
<1>7. Balance(F, a) = Balance(E, a) + IF a = Source(r) THEN -amount ELSE 0
    BY <1>1, <1>4, <1>5, <1>6, BalanceAdds
<1>8. IsFiniteSet(F) /\ Signed(F)
    BY <1>1, <1>4, <1>6, FS_AddElement DEF Signed
<1>9. Balance(F \cup {credit}, a) = Balance(F, a) + IF a = Destination(r) THEN amount ELSE 0
    BY <1>1, <1>5, <1>6, <1>8, BalanceAdds
<1>10. Balance(E, a) \in Int
    BY BalanceType
<1> HIDE DEF E, F
<1>11. /\ a = Source(r) => Balance(F \cup {credit}, a) = Balance(E, a) - amount
       /\ a = Destination(r) => Balance(F \cup {credit}, a) = Balance(E, a) + amount
       /\ a # Source(r) /\ a # Destination(r) => Balance(F \cup {credit}, a) = Balance(E, a)
    BY <1>1, <1>7, <1>9, <1>10
<1> QED
    BY <1>1, <1>3, <1>11 DEF E, amount

\* The opening books are sound.
LEMMA InitBooks == Init => Books!Init
<1> SUFFICES ASSUME Init PROVE Books!Init
    OBVIOUS
<1>1. IInv
    BY InitIInv
<1>2. \A a \in DOMAIN statusOfAccounts : statusOfAccounts[a] = "ACTIVE"
    BY DEF Init, NewAccount, statusOfAccounts
<1>3. ASSUME NEW a \in Accounts
      PROVE  /\ balanceOfAccounts[a] \in Int
             /\ balanceOfAccounts[a] >= 0 \/ Books!CanOverdraw(a)
  <2>1. a \in UserAccounts \/ AccountType[a] = "SYSTEM"
    BY ConstantsAssumption DEF UserAccounts
  <2> QED
    BY <1>1, <2>1, BalanceType DEF balanceOfAccounts, Books!CanOverdraw, IInv, NoOverdraft
<1> QED
    BY <1>1, <1>2, <1>3 DEF Books!Init, IInv, OnceForEachKey

\* A commit is a transfer.
LEMMA CommitTransfers ==
    ASSUME IInv, BooksInv, NEW r \in Requests, Commit(r)
    PROVE  Books!Transfer(Own(r)) /\ Own(r) \in transactions'
<1> DEFINE t == Own(r)
<1>1. /\ t.source_account_id = Source(r) /\ t.destination_account_id = Destination(r)
      /\ t.amount_minor = call[r].amount_minor /\ t.currency = call[r].currency
      /\ t.idempotency_key = call[r].idempotency_key
    BY DEF Own, Transaction, Source, Destination
<1>2. InFlight(r) /\ HasValidated(r) /\ Source(r) # Destination(r)
    BY Published DEF InFlight, HasValidated, Past
<1>3. DOMAIN snapshot[r].accounts \subseteq DOMAIN accounts
    BY <1>2 DEF IInv, SnapshotInv, SnapshotOf
<1>4. /\ {Source(r), Destination(r)} \subseteq DOMAIN accounts
      /\ AccountCurrency[Source(r)] = t.currency
      /\ AccountCurrency[Destination(r)] = t.currency
    BY <1>1, <1>2, <1>3 DEF BooksInv, SidesInv, Fits, Source, Destination
<1>5. DOMAIN statusOfAccounts = DOMAIN accounts
    BY DEF statusOfAccounts
<1>6. \A s \in transactions : s.idempotency_key # t.idempotency_key
  <2>1. t \in writes[r].transactions
    BY Published
  <2> QED
    BY <2>1 DEF IInv, KeyInv, HasKey
<1>7. Source(r) \in Accounts /\ Destination(r) \in Accounts
    BY <1>4 DEF IInv, TypeOK, DatabaseType, AccountTable
<1>8. call[r].amount_minor \in Nat
    BY OwnEntries, Published
<1>9. Source(r) \in UserAccounts =>
        /\ statusOfAccounts[Source(r)] = "ACTIVE"
        /\ balanceOfAccounts[Source(r)] >= call[r].amount_minor
  <2> SUFFICES ASSUME Source(r) \in UserAccounts
               PROVE  /\ statusOfAccounts[Source(r)] = "ACTIVE"
                      /\ balanceOfAccounts[Source(r)] >= call[r].amount_minor
    OBVIOUS
  <2>1. Source(r) \in writes[r].accounts
    BY Published
  <2>2. accounts[Source(r)].status = "ACTIVE"
    BY <1>2, <2>1 DEF HasValidated, IInv, LockInv, SnapshotInv, SnapshotOf
  <2>3. Balance(ledger_entries', Source(r)) =
          Balance(ledger_entries, Source(r)) - call[r].amount_minor
    BY <1>7, CommitMovesBalances
  <2>4. Balance(ledger_entries', Source(r)) >= 0
    BY CommitNoOverdraft DEF NoOverdraft
  <2>5. Balance(ledger_entries, Source(r)) \in Int
    BY BalanceType
  <2>6. Balance(ledger_entries, Source(r)) >= call[r].amount_minor
    BY <1>8, <2>3, <2>4, <2>5
  <2> QED
    BY <1>4, <1>7, <2>2, <2>6 DEF statusOfAccounts, balanceOfAccounts
<1>10. Books!CanOverdraw(Source(r)) \/ Source(r) \in UserAccounts
    BY <1>7, ConstantsAssumption DEF Books!CanOverdraw, UserAccounts
<1>11. balanceOfAccounts' =
         [balanceOfAccounts EXCEPT ![Source(r)] = @ - call[r].amount_minor,
                                   ![Destination(r)] = @ + call[r].amount_minor]
    BY <1>2, <1>7, CommitMovesBalances DEF balanceOfAccounts
<1>12. statusOfAccounts' = statusOfAccounts
  <2>1. \A a \in DOMAIN accounts : accounts'[a].status = accounts[a].status
    BY DEF Commit, IInv, TypeOK, DatabaseType, AccountTable, AccountRecords
  <2>2. DOMAIN accounts' = DOMAIN accounts
    BY DEF Commit
  <2> QED
    BY <2>1, <2>2 DEF statusOfAccounts
<1>13. transactions' = transactions \cup {t}
    BY Published
<1> HIDE DEF t
<1>14. Books!Transfer(t)
    BY <1>1, <1>2, <1>4, <1>5, <1>6, <1>9, <1>10, <1>11, <1>12, <1>13 DEF Books!Transfer
<1> QED
    BY <1>13, <1>14 DEF t

\* Creating an account opens it: it is in no transfer yet.
LEMMA CreationOpens ==
    ASSUME IInv, BooksInv, NEW a \in Accounts, CreateAccount(a)
    PROVE  Books!Open(a)
<1>1. a \notin DOMAIN accounts /\ UNCHANGED <<transactions, ledger_entries>>
    BY DEF CreateAccount
<1>2. \A e \in ledger_entries : e.account_id # a
    BY <1>1
    DEF BooksInv, PairsInv, SidesInv, Fits, EntriesOf, DebitEntry, CreditEntry, Entry
<1>3. {e \in ledger_entries : e.account_id = a} = {}
    BY <1>2
<1>4. balanceOfAccounts[a] = 0
    BY <1>3, SumSignedEmpty DEF balanceOfAccounts, Balance
<1>5. statusOfAccounts' = [b \in DOMAIN statusOfAccounts \cup {a} |->
                             IF b = a THEN "ACTIVE" ELSE statusOfAccounts[b]]
    BY DEF CreateAccount, NewAccount, statusOfAccounts
<1>6. balanceOfAccounts' = balanceOfAccounts
    BY <1>1 DEF balanceOfAccounts
<1> QED
    BY <1>1, <1>4, <1>5, <1>6 DEF Books!Open, statusOfAccounts

\* An operator's change of a status is a restriction.
LEMMA StatusRestricts ==
    ASSUME IInv, NEW a \in Accounts, NEW s \in Statuses, SetStatus(a, s)
    PROVE  s \in {"FROZEN", "CLOSED"} /\ Books!Restrict(a, s)
<1>1. /\ a \in DOMAIN accounts /\ s \in {"FROZEN", "CLOSED"}
      /\ accounts[a].status \in {"ACTIVE", "FROZEN"} \ {s}
    BY DEF SetStatus
<1>2. statusOfAccounts' = [statusOfAccounts EXCEPT ![a] = s]
    BY <1>1
    DEF SetStatus, statusOfAccounts, IInv, TypeOK, DatabaseType, AccountTable, AccountRecords
<1>3. balanceOfAccounts' = balanceOfAccounts /\ UNCHANGED transactions
    BY DEF SetStatus, balanceOfAccounts
<1> QED
    BY <1>1, <1>2, <1>3 DEF Books!Restrict, statusOfAccounts

\* No other step moves the books.
LEMMA OthersStutter ==
    ASSUME NEW r \in Requests,
           Submit(r) \/ Handler(r) \/ ServerAbort(r) \/ Deadline(r) \/ Die(r)
    PROVE  UNCHANGED <<accounts, transactions, ledger_entries>>
<1>1. CASE Submit(r) \/ Deadline(r) \/ Die(r) \/ ServerAbort(r)
    BY <1>1 DEF Submit, Deadline, Die, ServerAbort, database
<1>2. CASE Handler(r)
    BY <1>2 DEF Handler, PreCheck, LoadAccounts, LockSource, CheckFunds, InsertTransaction,
       InsertEntries, SendCommit, CommitAcknowledged, GiveUpOnCommit, NoticeAbort,
       Raise, Retry, Continue, ContinueWriting, database
<1> QED
    BY <1>1, <1>2

\* Every step of the service is a step of the books or none.
LEMMA NextBooks == IInv /\ BooksInv /\ [Next]_vars => [Books!Next]_Books!ledger
<1> SUFFICES ASSUME IInv, BooksInv, [Next]_vars PROVE [Books!Next]_Books!ledger
    OBVIOUS
<1>1. CASE UNCHANGED <<accounts, transactions, ledger_entries>>
    BY <1>1 DEF Books!ledger, statusOfAccounts, balanceOfAccounts
<1>2. ASSUME NEW r \in Requests, Commit(r) PROVE Books!Next
    BY <1>2, CommitTransfers DEF Books!Next
<1>3. ASSUME NEW a \in Accounts, CreateAccount(a) PROVE Books!Next
    BY <1>3, CreationOpens DEF Books!Next
<1>4. ASSUME NEW a \in Accounts, NEW s \in Statuses, SetStatus(a, s) PROVE Books!Next
    BY <1>4, StatusRestricts DEF Books!Next
<1>5. CASE UNCHANGED vars
    BY <1>1, <1>5 DEF vars, database
<1> QED
    BY <1>1, <1>2, <1>3, <1>4, <1>5, OthersStutter DEF Next, Server

\* The concurrent service implements the table of balances: the committed
\* ledger moves as if each transfer were executed alone, when it commits.
THEOREM Refinement == Spec => ImplementsLedger
<1> QED
    BY InitBooks, NextBooks, BooksAgree, Invariance, PTL
    DEF Spec, ImplementsLedger, Books!Spec

=============================================================================
