------------------------- MODULE LedgerSafetyProofs -------------------------
(***************************************************************************)
(* LedgerInvariant!IInv is inductive, for any number of requests, accounts *)
(* and keys; what follows from it about balances, keys, answers and the    *)
(* growth of the ledger.                                                   *)
(*                                                                         *)
(* The steps are grouped by what they touch: those that end a transaction  *)
(* (an exception, a retry, an abort by the server), those that only move   *)
(* the handler, those that write inside the transaction, the commit, and   *)
(* the steps of the world around.  CommitNoOverdraft is the heart of it.   *)
(***************************************************************************)
EXTENDS LedgerInvariant, SumsProofs, FunctionTheorems

-----------------------------------------------------------------------------
(* Types: one lemma per way an operation can end, then one case per action. *)

\* A request writes a transaction record.
LEMMA TransactionType ==
    ASSUME NEW r \in Requests, NEW c \in Calls
    PROVE  Transaction(r, c) \in TransactionRecords
BY ConstantsAssumption DEF Transaction, TransactionRecords, CallRecords, TransactionIds

\* Its two entries are entry records.
LEMMA EntriesType ==
    ASSUME NEW t \in TransactionRecords
    PROVE  DebitEntry(t) \in EntryRecords /\ CreditEntry(t) \in EntryRecords
BY DEF TransactionRecords, EntryRecords, DebitEntry, CreditEntry, Entry, SignedAmountFor

\* Every currency has its boundary account.
LEMMA BoundaryType ==
    ASSUME NEW c \in Currencies
    PROVE  SystemAccountOf(c) \in SystemAccounts /\ AccountCurrency[SystemAccountOf(c)] = c
BY BoundaryAssumption DEF SystemAccountOf

\* The empty snapshot and the empty writes.
LEMMA NothingType == Documents(NoDocuments) /\ NoWrites \in WriteRecords
BY DEF Documents, NoDocuments, NoWrites, WriteRecords, AccountTable

\* Earlier funding left transaction records.
LEMMA OpeningType == OpeningTransactions \subseteq TransactionRecords
<1> SUFFICES ASSUME NEW a \in DOMAIN OpeningFunds, OpeningFunds[a] > 0
             PROVE  OpeningTransaction(a) \in TransactionRecords
    BY DEF OpeningTransactions
<1>1. a \in Accounts /\ AccountCurrency[a] \in Currencies /\ OpeningFunds[a] \in Nat \ {0}
    BY ConstantsAssumption DEF UserAccounts
<1>2. SystemAccountOf(AccountCurrency[a]) \in Accounts
    BY <1>1, BoundaryType DEF SystemAccounts
<1> QED
    BY <1>1, <1>2 DEF OpeningTransaction, Transaction, TransactionRecords, TransactionIds

\* The initial states are typed.
THEOREM InitType == Init => TypeOK
<1> SUFFICES ASSUME Init PROVE TypeOK
    OBVIOUS
<1>1. DatabaseType
  <2>1. AccountTable(accounts)
    BY ConstantsAssumption DEF Init, AccountTable, AccountRecords, NewAccount, Statuses,
       UserAccounts, SystemAccounts
  <2>2. transactions \subseteq TransactionRecords /\ ledger_entries \subseteq EntryRecords
    BY OpeningType, EntriesType DEF Init
  <2> QED
    BY <2>1, <2>2 DEF DatabaseType
<1>2. HandlerType
    BY DEF Init, HandlerType, Labels, Answers
<1>3. SessionType
    BY NothingType DEF Init, SessionType, TransactionStates
<1> QED
    BY <1>1, <1>2, <1>3 DEF TypeOK

-----------------------------------------------------------------------------

\* A transaction that ends keeps the sessions typed.
LEMMA EndTransactionType ==
    ASSUME SessionType, NEW r \in Requests, NEW s \in TransactionStates,
           EndTransaction(r, s)
    PROVE  SessionType'
<1>1. txn' \in [Requests -> TransactionStates] /\ writes' \in [Requests -> WriteRecords]
    BY NothingType DEF SessionType, EndTransaction
<1>2. \A q \in Requests : Documents(snapshot'[q])
    BY NothingType DEF SessionType, EndTransaction
<1>3. DOMAIN snapshot' = Requests
    BY DEF SessionType, EndTransaction
<1> QED
    BY <1>1, <1>2, <1>3 DEF SessionType

\* An answer keeps the handlers typed.
LEMMA ReturnType ==
    ASSUME HandlerType, NEW r \in Requests, NEW result \in Answers, Return(r, result),
           UNCHANGED <<call, overdue>>
    PROVE  HandlerType'
BY DEF HandlerType, Return, Goto, Labels

\* So does moving on.
LEMMA GotoType ==
    ASSUME HandlerType, NEW r \in Requests, NEW label \in Labels, Goto(r, label),
           UNCHANGED <<call, answer, overdue>>
    PROVE  HandlerType'
BY DEF HandlerType, Goto

\* So does an exception.
LEMMA RaiseType ==
    ASSUME TypeOK, NEW r \in Requests, NEW code \in Answers, Raise(r, code)
    PROVE  TypeOK'
<1>1. SessionType'
    BY EndTransactionType DEF TypeOK, Raise, TransactionStates
<1>2. HandlerType'
    BY ReturnType DEF TypeOK, Raise
<1>3. DatabaseType'
    BY DEF TypeOK, DatabaseType, Raise, database
<1> QED
    BY <1>1, <1>2, <1>3 DEF TypeOK

\* So does a retry, before and after the deadline.
LEMMA RetryType ==
    ASSUME TypeOK, NEW r \in Requests, Retry(r)
    PROVE  TypeOK'
<1>1. SessionType'
    BY EndTransactionType DEF TypeOK, Retry, TransactionStates
<1>2. HandlerType'
  <2>1. CASE overdue[r]
    BY <2>1, ReturnType DEF TypeOK, Retry, Answers, Rejections
  <2>2. CASE ~overdue[r]
    BY <2>2, GotoType DEF TypeOK, Retry, Labels
  <2> QED
    BY <2>1, <2>2
<1>3. DatabaseType'
    BY DEF TypeOK, DatabaseType, Retry, database
<1> QED
    BY <1>1, <1>2, <1>3 DEF TypeOK

\* So does an operation that writes nothing.
LEMMA ContinueType ==
    ASSUME TypeOK, NEW r \in Requests, NEW label \in Labels, Continue(r, label)
    PROVE  TypeOK'
<1>1. HandlerType'
    BY GotoType DEF TypeOK, Continue
<1> QED
    BY <1>1 DEF TypeOK, Continue, DatabaseType, SessionType, database, session

\* So does one that writes in the transaction.
LEMMA ContinueWritingType ==
    ASSUME TypeOK, NEW r \in Requests, NEW label \in Labels, NEW w \in WriteRecords,
           ContinueWriting(r, w, label)
    PROVE  TypeOK'
<1>1. HandlerType'
    BY GotoType DEF TypeOK, ContinueWriting
<1>2. SessionType'
    BY DEF TypeOK, SessionType, ContinueWriting
<1>3. DatabaseType'
    BY DEF TypeOK, DatabaseType, ContinueWriting, database
<1> QED
    BY <1>1, <1>2, <1>3 DEF TypeOK


\* Every operation of a handler keeps the types.
LEMMA HandlerStepType ==
    ASSUME TypeOK, NEW r \in Requests, Handler(r)
    PROVE  TypeOK'
<1> USE DEF TypeOK
<1>0. call[r] \in Calls /\ Transaction(r, call[r]) \in TransactionRecords
    BY TransactionType DEF HandlerType
<1>1. CASE PreCheck(r)
  <2>1. CASE KeyTaken(r)
    BY <1>1, <2>1, RaiseType DEF PreCheck, Answers, Rejections
  <2>2. CASE ~KeyTaken(r)
    <3> DEFINE view == [accounts       |-> accounts,
                        transactions   |-> transactions,
                        ledger_entries |-> ledger_entries]
    <3>1. Documents(view)
      BY DEF Documents, DatabaseType
    <3>2. snapshot' = [snapshot EXCEPT ![r] = view] /\ txn' = [txn EXCEPT ![r] = "open"]
          /\ UNCHANGED <<database, call, answer, overdue, writes>>
          /\ Goto(r, "load_accounts")
      BY <1>1, <2>2 DEF PreCheck
    <3> HIDE DEF view
    <3>3. SessionType'
      BY <3>1, <3>2 DEF SessionType, TransactionStates
    <3>4. HandlerType'
      BY <3>2, GotoType DEF Labels, InTransaction
    <3> QED
      BY <3>2, <3>3, <3>4 DEF DatabaseType, database
  <2> QED
    BY <2>1, <2>2
<1>2. CASE LoadAccounts(r)
  <2>1. Validated(snapshot[r].accounts, call[r]) # "OK" =>
          Validated(snapshot[r].accounts, call[r]) \in Answers
    BY DEF Validated, Answers, Rejections
  <2> QED
    BY <1>2, <2>1, RaiseType, ContinueType DEF LoadAccounts, Labels, InTransaction
<1>3. CASE LockSource(r)
  <2>1. [writes[r] EXCEPT !.accounts = {call[r].source_account_id}] \in WriteRecords
    BY <1>0, ConstantsAssumption DEF SessionType, WriteRecords, CallRecords
  <2> QED
    BY <1>3, <2>1, RetryType, ContinueWritingType DEF LockSource, Labels, InTransaction
<1>4. CASE CheckFunds(r)
    BY <1>4, RaiseType, ContinueType DEF CheckFunds, Labels, InTransaction, Answers, Rejections
<1>5. CASE InsertTransaction(r)
  <2>1. [writes[r] EXCEPT !.transactions = {Transaction(r, call[r])}] \in WriteRecords
    BY <1>0 DEF SessionType, WriteRecords
  <2> QED
    BY <1>5, <2>1, RaiseType, RetryType, ContinueWritingType
    DEF InsertTransaction, Labels, InTransaction, Answers, Rejections
<1>6. CASE InsertEntries(r)
  <2>1. [writes[r] EXCEPT !.ledger_entries = EntriesOf(Transaction(r, call[r]))] \in WriteRecords
    BY <1>0, EntriesType DEF SessionType, WriteRecords, EntriesOf
  <2> QED
    BY <1>6, <2>1, ContinueWritingType DEF InsertEntries, Labels, InTransaction
<1>7. CASE SendCommit(r)
  <2>1. HandlerType'
    BY <1>7, GotoType DEF SendCommit, Labels, InTransaction
  <2> QED
    BY <1>7, <2>1 DEF SendCommit, DatabaseType, SessionType, database, TransactionStates
<1>8. CASE CommitAcknowledged(r)
  <2>1. HandlerType'
    BY <1>8, ReturnType DEF CommitAcknowledged, Answers
  <2> QED
    BY <1>8, <2>1 DEF CommitAcknowledged, DatabaseType, SessionType, database, session
<1>9. CASE GiveUpOnCommit(r)
  <2>1. HandlerType'
    BY <1>9, ReturnType DEF GiveUpOnCommit, Answers
  <2> QED
    BY <1>9, <2>1 DEF GiveUpOnCommit, DatabaseType, SessionType, database, session
<1>10. CASE NoticeAbort(r)
    BY <1>10, RaiseType, RetryType DEF NoticeAbort, Answers
<1> QED
    BY <1>1, <1>2, <1>3, <1>4, <1>5, <1>6, <1>7, <1>8, <1>9, <1>10 DEF Handler

\* A commit publishes typed documents.
LEMMA CommitType ==
    ASSUME TypeOK, NEW r \in Requests, Commit(r)
    PROVE  TypeOK'
<1>1. AccountTable(accounts')
    BY DEF TypeOK, DatabaseType, AccountTable, AccountRecords, Commit
<1>2. writes[r] \in WriteRecords
    BY DEF TypeOK, SessionType
<1>3. DatabaseType'
    BY <1>1, <1>2 DEF TypeOK, DatabaseType, WriteRecords, Commit
<1>4. SessionType'
    BY EndTransactionType DEF TypeOK, Commit, TransactionStates
<1> QED
    BY <1>3, <1>4 DEF TypeOK, HandlerType, Commit

\* A step keeps every variable in its type.
THEOREM NextType == TypeOK /\ [Next]_vars => TypeOK'
<1> SUFFICES ASSUME TypeOK, [Next]_vars PROVE TypeOK'
    OBVIOUS
<1> USE DEF TypeOK
<1>1. ASSUME NEW r \in Requests, Submit(r) PROVE TypeOK'
  <2>1. HandlerType'
    BY <1>1, ReturnType, GotoType DEF Submit, Answers, Rejections, Labels
  <2> QED
    BY <1>1, <2>1 DEF Submit, DatabaseType, SessionType, database, session
<1>2. ASSUME NEW r \in Requests, Handler(r) PROVE TypeOK'
    BY <1>2, HandlerStepType
<1>3. ASSUME NEW r \in Requests, Commit(r) PROVE TypeOK'
    BY <1>3, CommitType
<1>4. ASSUME NEW r \in Requests, ServerAbort(r) PROVE TypeOK'
    BY <1>4, EndTransactionType
    DEF ServerAbort, DatabaseType, HandlerType, database, TransactionStates
<1>5. ASSUME NEW r \in Requests, Deadline(r) PROVE TypeOK'
    BY <1>5 DEF Deadline, DatabaseType, HandlerType, SessionType, database, session
<1>6. ASSUME NEW r \in Requests, Die(r) PROVE TypeOK'
  <2>1. HandlerType'
    BY <1>6, GotoType DEF Die, Labels
  <2> QED
    BY <1>6, <2>1 DEF Die, DatabaseType, SessionType, database, session
<1>7. ASSUME NEW a \in Accounts, CreateAccount(a) PROVE TypeOK'
  <2>1. AccountTable(accounts')
    BY <1>7 DEF CreateAccount, DatabaseType, AccountTable, AccountRecords, NewAccount, Statuses
  <2> QED
    BY <1>7, <2>1 DEF CreateAccount, DatabaseType, HandlerType, SessionType, session
<1>8. ASSUME NEW a \in Accounts, NEW status \in Statuses, SetStatus(a, status) PROVE TypeOK'
  <2>1. AccountTable(accounts')
    BY <1>8 DEF SetStatus, DatabaseType, AccountTable, AccountRecords
  <2> QED
    BY <1>8, <2>1 DEF SetStatus, DatabaseType, HandlerType, SessionType, session
<1>9. CASE UNCHANGED vars
    BY <1>9 DEF vars, database, session, DatabaseType, HandlerType, SessionType
<1> QED
    BY <1>1, <1>2, <1>3, <1>4, <1>5, <1>6, <1>7, <1>8, <1>9 DEF Next, Server

\* Type correctness, for any number of requests, accounts, currencies and keys.
THEOREM TypeCorrect == Spec => []TypeOK
<1> QED
    BY InitType, NextType, PTL DEF Spec

-----------------------------------------------------------------------------
(* The inductive invariant. *)

\* What is said of the committed documents alone needs them only.
LEMMA FrameLedger ==
    ASSUME IInv, UNCHANGED database
    PROVE  EntriesInv' /\ NoOverdraft' /\ OnceForEachKey'
BY DEF IInv, EntriesInv, NoOverdraft, OnceForEachKey, database

\* A transaction that ends leaves nothing of itself behind.
LEMMA EndedWrites ==
    ASSUME IInv, NEW r \in Requests, NEW s \in TransactionStates \ {"open", "committing"},
           EndTransaction(r, s)
    PROVE  /\ \A q \in Requests : writes'[q] = IF q = r THEN NoWrites ELSE writes[q]
           /\ \A q \in Requests : txn'[q] = IF q = r THEN s ELSE txn[q]
           /\ \A q \in Requests : snapshot'[q] = IF q = r THEN NoDocuments ELSE snapshot[q]
           /\ ~InFlight(r)'
BY DEF IInv, TypeOK, SessionType, EndTransaction, InFlight

\* An exception, a retry and an abort by the server: the transaction is gone
\* unpublished, and a rejection is answered only when it is.
LEMMA EndingStep ==
    ASSUME IInv, TypeOK', NEW r \in Requests,
           NEW s \in TransactionStates \ {"open", "committing", "committed"},
           EndTransaction(r, s), txn[r] # "committed",
           NEW label, pc' = [pc EXCEPT ![r] = label], 
           \/ label = "answered" /\ s = "none"
           \/ label = "pre_check" /\ s = "none" /\ Source(r) # Destination(r)
           \/ label = pc[r] /\ s = "aborted" /\ InFlight(r),
           answer'[r] \in Rejections => s = "none",
           answer'[r] # "CREATED",
           answer'[r] # "NONE" => label = "answered",
           \A q \in Requests \ {r} : answer'[q] = answer[q],
           UNCHANGED <<database, call>>
    PROVE  IInv'
<1>0. /\ \A q \in Requests : writes'[q] = IF q = r THEN NoWrites ELSE writes[q]
      /\ \A q \in Requests : txn'[q] = IF q = r THEN s ELSE txn[q]
      /\ \A q \in Requests : snapshot'[q] = IF q = r THEN NoDocuments ELSE snapshot[q]
      /\ ~InFlight(r)'
      /\ \A q \in Requests : pc'[q] = IF q = r THEN label ELSE pc[q]
      /\ UNCHANGED <<accounts, transactions, ledger_entries, call>>
    BY EndedWrites DEF IInv, TypeOK, HandlerType, database
<1>1. SessionInv'
  <2> SUFFICES ASSUME NEW q \in Requests PROVE SessionOf(q)'
    BY DEF SessionInv, SessionOf
  <2> QED
    BY <1>0 DEF IInv, SessionInv, SessionOf, Source, Destination, InFlight, Drafting,
                InTransaction, Rejections
<1>2. WritesInv'
    BY <1>0 DEF IInv, WritesInv, Past, Source, Own, InFlight, NoWrites
<1>3. FundsInv'
    BY <1>0 DEF IInv, FundsInv, Past, Source
<1>4. SnapshotInv'
    BY <1>0 DEF IInv, SnapshotInv, SnapshotOf, Past, Source, InFlight, Counter
<1>5. LockInv'
    BY <1>0 DEF IInv, LockInv, NoWrites
<1>6. OwnInv'
    BY <1>0 DEF IInv, OwnInv, Own
<1>7. KeyInv'
    BY <1>0 DEF IInv, KeyInv, HasKey, NoWrites
<1> QED
    BY <1>1, <1>2, <1>3, <1>4, <1>5, <1>6, <1>7, FrameLedger DEF IInv

\* Locks, own documents and keys depend on the transactions, not on the handler.
LEMMA FrameSession ==
    ASSUME IInv, UNCHANGED <<database, call, txn, writes, snapshot>>
    PROVE  LockInv' /\ OwnInv' /\ KeyInv'
<1> USE DEF database
<1>1. LockInv'
    BY DEF IInv, LockInv
<1>2. OwnInv'
    BY DEF IInv, OwnInv, Own
<1>3. KeyInv'
    BY DEF IInv, KeyInv, HasKey
<1> QED
    BY <1>1, <1>2, <1>3

\* Only the handler of r moves.
LEMMA MovingPc ==
    ASSUME IInv, NEW r \in Requests, NEW label, Goto(r, label)
    PROVE  \A q \in Requests : pc'[q] = IF q = r THEN label ELSE pc[q]
BY DEF IInv, TypeOK, HandlerType, Goto

\* Only the request r is answered.
LEMMA MovingAnswer ==
    ASSUME IInv, NEW r \in Requests, NEW code, Return(r, code)
    PROVE  /\ \A q \in Requests : pc'[q] = IF q = r THEN "answered" ELSE pc[q]
           /\ \A q \in Requests : answer'[q] = IF q = r THEN code ELSE answer[q]
BY MovingPc DEF IInv, TypeOK, HandlerType, Return

\* A step that moves r to a place where the invariant asks no more of it.
LEMMA RestingStep ==
    ASSUME IInv, TypeOK', NEW r \in Requests, NEW label \in {"pre_check", "answered", "dead"},
           \A q \in Requests : pc'[q] = IF q = r THEN label ELSE pc[q],
           SessionInv',
           UNCHANGED <<database, call, txn, writes, snapshot>>
    PROVE  IInv'
<1>1. WritesInv'
    BY DEF IInv, WritesInv, Past, Source, Own, InFlight, NoWrites
<1>2. FundsInv'
    BY DEF IInv, FundsInv, Past, Source
<1>3. SnapshotInv'
    BY DEF IInv, SnapshotInv, SnapshotOf, Past, Source, InFlight, Counter, Drafting,
           InTransaction, database
<1> QED
    BY <1>1, <1>2, <1>3, FrameSession, FrameLedger DEF IInv

\* create_transfer, up to the first operation of the transaction.
LEMMA SubmitStep ==
    ASSUME IInv, TypeOK', NEW r \in Requests, Submit(r)
    PROVE  IInv'
<1>1. CASE Source(r) = Destination(r)
  <2>1. Return(r, "SAME_ACCOUNT_TRANSFER") /\ UNCHANGED <<database, call, session>>
    BY <1>1 DEF Submit, Source, Destination
  <2>2. SessionInv'
    BY <2>1, MovingAnswer
    DEF IInv, SessionInv, SessionOf, Submit, Source, Destination, InFlight, Drafting,
        InTransaction, session
  <2> QED
    BY <2>1, <2>2, MovingAnswer, RestingStep DEF session
<1>2. CASE Source(r) # Destination(r)
  <2>1. Goto(r, "pre_check") /\ UNCHANGED <<database, call, answer, session>>
    BY <1>2 DEF Submit, Source, Destination
  <2>2. SessionInv'
    BY <1>2, <2>1, MovingPc
    DEF IInv, SessionInv, SessionOf, Submit, Source, Destination, InFlight, Drafting,
        InTransaction, session
  <2> QED
    BY <2>1, <2>2, MovingPc, RestingStep DEF session
<1> QED
    BY <1>1, <1>2

\* The commit acknowledged, or given up on.
LEMMA AnsweringStep ==
    ASSUME IInv, TypeOK', NEW r \in Requests, CommitAcknowledged(r) \/ GiveUpOnCommit(r)
    PROVE  IInv'
<1>1. PICK code \in {"CREATED", "INTERNAL_ERROR"} :
        Return(r, code) /\ (code = "CREATED" => txn[r] = "committed")
    BY DEF CommitAcknowledged, GiveUpOnCommit
<1>2. pc[r] = "await_commit" /\ UNCHANGED <<database, call, session>>
    BY DEF CommitAcknowledged, GiveUpOnCommit
<1>3. SessionInv'
    BY <1>1, <1>2, MovingAnswer
    DEF IInv, SessionInv, SessionOf, Source, Destination, InFlight, Drafting,
        InTransaction, session, Rejections
<1> QED
    BY <1>1, <1>2, <1>3, MovingAnswer, RestingStep DEF session

\* A process that dies leaves its transaction as it was.
LEMMA DieStep ==
    ASSUME IInv, TypeOK', NEW r \in Requests, Die(r)
    PROVE  IInv'
<1>1. SessionInv'
    BY MovingPc
    DEF Die, Running, IInv, SessionInv, SessionOf, Source, Destination, InFlight, Drafting,
        InTransaction, session
<1> QED
    BY <1>1, MovingPc, RestingStep DEF Die, session

\* An exception that leaves the callback.
LEMMA RaiseStep ==
    ASSUME IInv, TypeOK', NEW r \in Requests, pc[r] \notin {"idle", "answered"},
           txn[r] # "committed", NEW code \in Rejections \cup {"INTERNAL_ERROR"}, Raise(r, code)
    PROVE  IInv'
<1>1. \A q \in Requests : answer'[q] = IF q = r THEN code ELSE answer[q]
    BY MovingAnswer DEF Raise
<1> QED
    BY <1>1, EndingStep
    DEF Raise, Return, Goto, Rejections, database, TransactionStates

\* A transient error, before and after the deadline.
LEMMA RetryStep ==
    ASSUME IInv, TypeOK', NEW r \in Requests, pc[r] \in InTransaction,
           txn[r] # "committed", Retry(r)
    PROVE  IInv'
<1>1. CASE overdue[r]
    BY <1>1, RaiseStep DEF Retry, Raise, InTransaction, Rejections
<1>2. CASE ~overdue[r]
  <2>1. Source(r) # Destination(r) /\ answer[r] = "NONE"
    BY DEF IInv, SessionInv, SessionOf, InTransaction
  <2> QED
    BY <1>2, <2>1, EndingStep DEF Retry, Goto, Rejections, database, TransactionStates
<1> QED
    BY <1>1, <1>2

\* The server aborts, whatever the handler is doing.
LEMMA ServerAbortStep ==
    ASSUME IInv, TypeOK', NEW r \in Requests, ServerAbort(r)
    PROVE  IInv'
<1>1. /\ answer[r] # "CREATED" /\ answer[r] \notin Rejections /\ txn[r] # "committed"
      /\ answer[r] # "NONE" => pc[r] = "answered"
    BY DEF IInv, SessionInv, SessionOf, ServerAbort, InFlight
<1>2. pc' = [pc EXCEPT ![r] = pc[r]]
    BY DEF ServerAbort, IInv, TypeOK, HandlerType
<1> QED
    BY <1>1, <1>2, EndingStep DEF ServerAbort, database, TransactionStates

\* The idempotency check: a rejection, or a fresh snapshot equal to the database.
LEMMA OpeningStep ==
    ASSUME IInv, TypeOK', NEW r \in Requests, PreCheck(r)
    PROVE  IInv'
<1>0. /\ txn[r] = "none" /\ Source(r) # Destination(r)
      /\ answer[r] = "NONE" /\ writes[r] = NoWrites
    BY DEF PreCheck, IInv, SessionInv, SessionOf, WritesInv, InFlight
<1>1. CASE Raise(r, "DUPLICATE_SUBMISSION")
    BY <1>0, <1>1, RaiseStep DEF PreCheck, Rejections
<1>2. CASE ~Raise(r, "DUPLICATE_SUBMISSION")
  <2>1. /\ UNCHANGED <<database, call, answer, writes>>
        /\ UNCHANGED <<accounts, transactions, ledger_entries>>
        /\ \A q \in Requests : pc'[q] = IF q = r THEN "load_accounts" ELSE pc[q]
        /\ \A q \in Requests : txn'[q] = IF q = r THEN "open" ELSE txn[q]
        /\ \A q \in Requests : q # r => snapshot'[q] = snapshot[q]
        /\ snapshot'[r] = [accounts |-> accounts, transactions |-> transactions,
                           ledger_entries |-> ledger_entries]
    BY <1>2, MovingPc DEF PreCheck, IInv, TypeOK, SessionType, database
  <2>2. SessionInv'
    BY <1>0, <2>1
    DEF IInv, SessionInv, SessionOf, Source, Destination, InFlight, Drafting,
        InTransaction, Rejections
  <2>3. WritesInv'
    BY <1>0, <2>1 DEF IInv, WritesInv, Past, Source, Own, InFlight, NoWrites
  <2>4. FundsInv'
    BY <1>0, <2>1 DEF IInv, FundsInv, Past, Source
  <2>5. SnapshotInv'
    <3>1. \A a \in DOMAIN accounts : Counter(accounts, a) \in Nat
      BY DEF IInv, TypeOK, DatabaseType, AccountTable, AccountRecords, Counter
    <3> QED
      BY <1>0, <2>1, <3>1
      DEF IInv, SnapshotInv, SnapshotOf, Past, Source, InFlight, Counter, Drafting,
          InTransaction
  <2>6. LockInv'
    BY <1>0, <2>1 DEF IInv, LockInv, NoWrites
  <2>7. OwnInv'
    BY <1>0, <2>1 DEF IInv, OwnInv, Own
  <2>8. KeyInv'
    BY <1>0, <2>1 DEF IInv, KeyInv, HasKey, NoWrites
  <2> QED
    BY <2>1, <2>2, <2>3, <2>4, <2>5, <2>6, <2>7, <2>8, FrameLedger DEF IInv
<1> QED
    BY <1>1, <1>2

\* A step inside an open transaction that writes nothing.
LEMMA ContinuingStep ==
    ASSUME IInv, TypeOK', NEW r \in Requests, txn[r] = "open", pc[r] \in Drafting,
           NEW label \in {"lock_source", "insert_transaction"}, Continue(r, label),
           FundsInv', WritesInv', SnapshotInv'
    PROVE  IInv'
<1>0. /\ UNCHANGED <<database, call, answer, txn, writes, snapshot>>
      /\ \A q \in Requests : pc'[q] = IF q = r THEN label ELSE pc[q]
    BY MovingPc DEF Continue, session
<1>1. SessionInv'
    BY <1>0
    DEF IInv, SessionInv, SessionOf, Source, Destination, InFlight, Drafting,
        InTransaction, Rejections
<1> QED
    BY <1>0, <1>1, FrameSession, FrameLedger DEF IInv

\* Validation leaves an active source that the snapshot knows.
LEMMA LoadAccountsStep ==
    ASSUME IInv, TypeOK', NEW r \in Requests, LoadAccounts(r)
    PROVE  IInv'
<1> DEFINE verdict == Validated(snapshot[r].accounts, call[r])
           label   == IF Source(r) \in UserAccounts THEN "lock_source" ELSE "insert_transaction"
<1>1. CASE verdict # "OK"
  <2>1. verdict \in Rejections
    BY <1>1 DEF Validated, Rejections
  <2> HIDE DEF verdict
  <2>2. Raise(r, verdict)
    BY <1>1 DEF LoadAccounts, verdict
  <2> QED
    BY <2>1, <2>2, RaiseStep DEF LoadAccounts, At
<1>2. CASE verdict = "OK"
  <2>1. Continue(r, label)
    BY <1>2 DEF LoadAccounts, Source
  <2>2. /\ UNCHANGED <<call, txn, writes, snapshot>>
        /\ UNCHANGED <<accounts, transactions, ledger_entries>>
        /\ \A q \in Requests : pc'[q] = IF q = r THEN label ELSE pc[q]
    BY <2>1, MovingPc DEF Continue, session, database
  <2>3. /\ Source(r) \in DOMAIN snapshot[r].accounts
        /\ snapshot[r].accounts[Source(r)].status = "ACTIVE"
    BY <1>2 DEF Validated, Source
  <2>4. pc[r] = "load_accounts" /\ txn[r] = "open" /\ writes[r] = NoWrites
    BY DEF LoadAccounts, At, IInv, WritesInv
  <2>5. WritesInv'
    BY <2>2, <2>4 DEF IInv, WritesInv, Past, Source, Own, InFlight, NoWrites
  <2>6. FundsInv'
    BY <2>2, <2>4 DEF IInv, FundsInv, Past, Source
  <2>7. SnapshotInv'
    BY <2>2, <2>3, <2>4
    DEF IInv, SnapshotInv, SnapshotOf, Past, Source, InFlight, Counter, Drafting, InTransaction
  <2> QED
    BY <2>1, <2>4, <2>5, <2>6, <2>7, ContinuingStep DEF Drafting, InTransaction
<1> QED
    BY <1>1, <1>2

\* The balance check, on a source that is locked.
LEMMA CheckFundsStep ==
    ASSUME IInv, TypeOK', NEW r \in Requests, CheckFunds(r)
    PROVE  IInv'
<1>1. CASE Raise(r, "INSUFFICIENT_FUNDS")
    BY <1>1, RaiseStep DEF CheckFunds, At, Rejections
<1>2. CASE ~Raise(r, "INSUFFICIENT_FUNDS")
  <2>1. /\ Continue(r, "insert_transaction")
        /\ BalanceSeen(r, Source(r)) >= call[r].amount_minor
        /\ pc[r] = "check_funds" /\ txn[r] = "open"
    BY <1>2 DEF CheckFunds, Source, At
  <2>2. /\ UNCHANGED <<call, txn, writes, snapshot>>
        /\ UNCHANGED <<accounts, transactions, ledger_entries>>
        /\ \A q \in Requests : pc'[q] = IF q = r THEN "insert_transaction" ELSE pc[q]
    BY <2>1, MovingPc DEF Continue, session, database
  <2>3. BalanceSeen(r, Source(r)) = Balance(snapshot[r].ledger_entries, Source(r))
    <3>1. writes[r].ledger_entries = {}
      BY <2>1 DEF IInv, WritesInv
    <3>2. snapshot[r].ledger_entries \cup writes[r].ledger_entries = snapshot[r].ledger_entries
      BY <3>1
    <3> QED
      BY <3>2 DEF BalanceSeen
  <2>4. WritesInv'
    BY <2>1, <2>2 DEF IInv, WritesInv, Past, Source, Own, InFlight
  <2>5. FundsInv'
    BY <2>1, <2>2, <2>3 DEF IInv, FundsInv, Past, Source
  <2>6. SnapshotInv'
    BY <2>1, <2>2
    DEF IInv, SnapshotInv, SnapshotOf, Past, Source, InFlight, Counter, Drafting, InTransaction
  <2> QED
    BY <2>1, <2>4, <2>5, <2>6, ContinuingStep DEF Drafting, InTransaction
<1> QED
    BY <1>1, <1>2

\* Only the writes of r and its handler change.
LEMMA WrittenBy ==
    ASSUME IInv, NEW r \in Requests, NEW w, NEW label, ContinueWriting(r, w, label)
    PROVE  /\ UNCHANGED <<database, call, answer, txn, snapshot>>
           /\ UNCHANGED <<accounts, transactions, ledger_entries>>
           /\ \A q \in Requests : pc'[q] = IF q = r THEN label ELSE pc[q]
           /\ \A q \in Requests : writes'[q] = IF q = r THEN w ELSE writes[q]
BY MovingPc DEF ContinueWriting, IInv, TypeOK, SessionType, database

\* A step that writes inside an open transaction.
LEMMA WritingStep ==
    ASSUME IInv, TypeOK', NEW r \in Requests, txn[r] = "open", pc[r] \in Drafting,
           NEW w, NEW label \in Drafting \ {"load_accounts", "lock_source"},
           pc[r] # "load_accounts", ContinueWriting(r, w, label),
           WritesInv', FundsInv', LockInv', KeyInv'
    PROVE  IInv'
<1>1. SessionInv'
    BY WrittenBy
    DEF IInv, SessionInv, SessionOf, Source, Destination, InFlight, Drafting,
        InTransaction, Rejections
<1>2. SnapshotInv'
    BY WrittenBy
    DEF IInv, SnapshotInv, SnapshotOf, Past, Source, InFlight, Counter, Drafting, InTransaction
<1>3. OwnInv'
    BY WrittenBy DEF IInv, OwnInv, Own
<1> QED
    BY <1>1, <1>2, <1>3, WrittenBy, FrameLedger DEF IInv

\* The lock is taken only on a document that is free and unchanged.
LEMMA LockSourceStep ==
    ASSUME IInv, TypeOK', NEW r \in Requests, LockSource(r)
    PROVE  IInv'
<1>1. CASE Retry(r)
    BY <1>1, RetryStep DEF LockSource, At, InTransaction
<1>2. CASE ~Retry(r)
  <2> DEFINE w == [writes[r] EXCEPT !.accounts = {Source(r)}]
  <2>1. /\ ~WriteConflict(r, Source(r))
        /\ ContinueWriting(r, w, "check_funds")
        /\ pc[r] = "lock_source" /\ txn[r] = "open"
    BY <1>2 DEF LockSource, Source, At
  <2>2. writes[r] = NoWrites /\ Source(r) \in UserAccounts
    BY <2>1 DEF IInv, WritesInv, FundsInv
  <2>3. /\ w.accounts = {Source(r)} /\ w.transactions = {} /\ w.ledger_entries = {}
    BY <2>2 DEF NoWrites
  <2> HIDE DEF w
  <2>4. /\ UNCHANGED <<call, txn, snapshot>>
        /\ UNCHANGED <<accounts, transactions, ledger_entries>>
        /\ \A q \in Requests : pc'[q] = IF q = r THEN "check_funds" ELSE pc[q]
        /\ \A q \in Requests : writes'[q] = IF q = r THEN w ELSE writes[q]
    BY <2>1, WrittenBy
  <2>5. WritesInv'
    BY <2>1, <2>2, <2>3, <2>4 DEF IInv, WritesInv, Past, Source, Own, InFlight
  <2>6. FundsInv'
    BY <2>1, <2>2, <2>3, <2>4 DEF IInv, FundsInv, Past, Source
  <2>7. LockInv'
    <3>1. \A q \in Requests \ {r} : Source(r) \notin writes[q].accounts
      BY <2>1 DEF WriteConflict, LockedByOther, IInv, WritesInv, NoWrites
    <3>2. /\ Source(r) \in DOMAIN snapshot[r].accounts
          /\ accounts[Source(r)] = snapshot[r].accounts[Source(r)]
      BY <2>1 DEF WriteConflict, IInv, SnapshotInv, SnapshotOf, InFlight, Past, Drafting,
                  InTransaction
    <3> QED
      BY <2>3, <2>4, <3>1, <3>2 DEF IInv, LockInv
  <2>8. KeyInv'
    BY <2>3, <2>4 DEF IInv, KeyInv, HasKey
  <2> QED
    BY <2>1, <2>5, <2>6, <2>7, <2>8, WritingStep DEF Drafting, InTransaction
<1> QED
    BY <1>1, <1>2

\* The header is written only under a key that is free.
LEMMA InsertTransactionStep ==
    ASSUME IInv, TypeOK', NEW r \in Requests, InsertTransaction(r)
    PROVE  IInv'
<1>1. CASE Raise(r, "DUPLICATE_SUBMISSION")
    BY <1>1, RaiseStep DEF InsertTransaction, At, Rejections
<1>2. CASE Retry(r)
    BY <1>2, RetryStep DEF InsertTransaction, At, InTransaction
<1>3. CASE ~Raise(r, "DUPLICATE_SUBMISSION") /\ ~Retry(r)
  <2> DEFINE w == [writes[r] EXCEPT !.transactions = {Own(r)}]
  <2>1. /\ ~KeyTaken(r) /\ ~KeyInFlight(r)
        /\ ContinueWriting(r, w, "insert_entries")
        /\ pc[r] = "insert_transaction" /\ txn[r] = "open"
    BY <1>3 DEF InsertTransaction, Own, At
  <2>2. writes[r].transactions = {} /\ writes[r].ledger_entries = {}
    BY <2>1 DEF IInv, WritesInv
  <2>3. /\ w.accounts = writes[r].accounts /\ w.transactions = {Own(r)} /\ w.ledger_entries = {}
    BY <2>2 DEF IInv, TypeOK, SessionType, WriteRecords
  <2> HIDE DEF w
  <2>4. /\ UNCHANGED <<call, txn, snapshot>>
        /\ UNCHANGED <<accounts, transactions, ledger_entries>>
        /\ \A q \in Requests : pc'[q] = IF q = r THEN "insert_entries" ELSE pc[q]
        /\ \A q \in Requests : writes'[q] = IF q = r THEN w ELSE writes[q]
    BY <2>1, WrittenBy
  <2>5. WritesInv'
    BY <2>1, <2>2, <2>3, <2>4 DEF IInv, WritesInv, Past, Source, Own, InFlight
  <2>6. FundsInv'
    BY <2>1, <2>2, <2>3, <2>4 DEF IInv, FundsInv, Past, Source
  <2>7. LockInv'
    BY <2>3, <2>4 DEF IInv, LockInv
  <2>8. KeyInv'
    <3>1. Own(r).idempotency_key = call[r].idempotency_key
      BY DEF Own, Transaction
    <3>2. \A q \in Requests \ {r} : ~HasKey(writes[q].transactions, Own(r).idempotency_key)
      BY <2>1, <3>1 DEF KeyInFlight, HasKey, IInv, WritesInv, NoWrites
    <3>3. ~HasKey(transactions, Own(r).idempotency_key)
      BY <2>1, <3>1 DEF KeyTaken
    <3> QED
      BY <2>3, <2>4, <3>2, <3>3 DEF IInv, KeyInv, HasKey
  <2> QED
    BY <2>1, <2>5, <2>6, <2>7, <2>8, WritingStep DEF Drafting, InTransaction
<1> QED
    BY <1>1, <1>2, <1>3

\* Both entries are written together.
LEMMA InsertEntriesStep ==
    ASSUME IInv, TypeOK', NEW r \in Requests, InsertEntries(r)
    PROVE  IInv'
<1> DEFINE w == [writes[r] EXCEPT !.ledger_entries = EntriesOf(Own(r))]
<1>1. /\ ContinueWriting(r, w, "send_commit")
      /\ pc[r] = "insert_entries" /\ txn[r] = "open"
    BY DEF InsertEntries, Own, At
<1>2. /\ w.accounts = writes[r].accounts /\ w.transactions = writes[r].transactions
      /\ w.ledger_entries = EntriesOf(Own(r))
    BY DEF IInv, TypeOK, SessionType, WriteRecords
<1> HIDE DEF w
<1>3. /\ UNCHANGED <<call, txn, snapshot>>
      /\ UNCHANGED <<accounts, transactions, ledger_entries>>
      /\ \A q \in Requests : pc'[q] = IF q = r THEN "send_commit" ELSE pc[q]
      /\ \A q \in Requests : writes'[q] = IF q = r THEN w ELSE writes[q]
    BY <1>1, WrittenBy
<1>4. WritesInv'
    BY <1>1, <1>2, <1>3 DEF IInv, WritesInv, Past, Source, Own, InFlight
<1>5. FundsInv'
    BY <1>1, <1>2, <1>3 DEF IInv, FundsInv, Past, Source
<1>6. LockInv'
    BY <1>2, <1>3 DEF IInv, LockInv
<1>7. KeyInv'
    BY <1>2, <1>3 DEF IInv, KeyInv, HasKey
<1> QED
    BY <1>1, <1>4, <1>5, <1>6, <1>7, WritingStep DEF Drafting, InTransaction

\* From here on the server alone decides.
LEMMA SendCommitStep ==
    ASSUME IInv, TypeOK', NEW r \in Requests, SendCommit(r)
    PROVE  IInv'
<1>0. /\ UNCHANGED <<call, answer, writes, snapshot>>
      /\ UNCHANGED <<accounts, transactions, ledger_entries>>
      /\ \A q \in Requests : pc'[q] = IF q = r THEN "await_commit" ELSE pc[q]
      /\ \A q \in Requests : txn'[q] = IF q = r THEN "committing" ELSE txn[q]
      /\ pc[r] = "send_commit" /\ txn[r] = "open"
    BY MovingPc DEF SendCommit, At, IInv, TypeOK, SessionType, database
<1>1. SessionInv'
    BY <1>0
    DEF IInv, SessionInv, SessionOf, Source, Destination, InFlight, Drafting,
        InTransaction, Rejections
<1>2. WritesInv'
    BY <1>0 DEF IInv, WritesInv, Past, Source, Own, InFlight
<1>3. FundsInv'
    BY <1>0 DEF IInv, FundsInv, Past, Source
<1>4. SnapshotInv'
    BY <1>0 DEF IInv, SnapshotInv, SnapshotOf, Past, Source, InFlight, Counter, Drafting,
                InTransaction
<1>5. LockInv'
    BY <1>0 DEF IInv, LockInv
<1>6. OwnInv'
    BY <1>0 DEF IInv, OwnInv, Own
<1>7. KeyInv'
    BY <1>0 DEF IInv, KeyInv, HasKey
<1> QED
    BY <1>0, <1>1, <1>2, <1>3, <1>4, <1>5, <1>6, <1>7, FrameLedger DEF IInv, database

\* An operator cannot touch a document that is locked.
LEMMA SetStatusStep ==
    ASSUME IInv, TypeOK', NEW a \in Accounts, NEW status \in Statuses, SetStatus(a, status)
    PROVE  IInv'
<1>0. /\ UNCHANGED <<transactions, ledger_entries, call, pc, answer, txn, snapshot, writes>>
      /\ DOMAIN accounts' = DOMAIN accounts
      /\ \A b \in DOMAIN accounts : b # a => accounts'[b] = accounts[b]
      /\ \A b \in DOMAIN accounts : Counter(accounts', b) = Counter(accounts, b)
      /\ \A r \in Requests : a \notin writes[r].accounts
  <2>1. accounts' = [accounts EXCEPT ![a].status = status] /\ a \in DOMAIN accounts
    BY DEF SetStatus
  <2>2. \A b \in DOMAIN accounts : accounts[b] \in AccountRecords
    BY DEF IInv, TypeOK, DatabaseType, AccountTable
  <2>3. \A b \in DOMAIN accounts : Counter(accounts', b) = Counter(accounts, b)
    BY <2>1, <2>2 DEF Counter, AccountRecords
  <2>4. \A r \in Requests : a \notin writes[r].accounts
    BY DEF SetStatus, IInv, WritesInv, NoWrites
  <2> QED
    BY <2>1, <2>3, <2>4 DEF SetStatus, session
<1>1. SessionInv'
    BY <1>0 DEF IInv, SessionInv, SessionOf, Source, Destination, InFlight
<1>2. WritesInv'
    BY <1>0 DEF IInv, WritesInv, Past, Source, Own, InFlight
<1>3. FundsInv'
    BY <1>0 DEF IInv, FundsInv, Past, Source
<1>4. SnapshotInv'
  <2> SUFFICES ASSUME NEW r \in Requests, InFlight(r)
               PROVE  \A b \in DOMAIN snapshot[r].accounts :
                        Counter(accounts', b) = Counter(accounts, b)
    BY <1>0 DEF IInv, SnapshotInv, SnapshotOf, Past, Source, InFlight
  <2> QED
    BY <1>0 DEF IInv, SnapshotInv, SnapshotOf
<1>5. LockInv'
  <2>1. \A r \in Requests : \A b \in writes[r].accounts : accounts'[b] = accounts[b]
    BY <1>0 DEF IInv, LockInv, WritesInv, SnapshotInv, SnapshotOf, NoWrites
  <2> QED
    BY <1>0, <2>1 DEF IInv, LockInv
<1>6. OwnInv'
    BY <1>0 DEF IInv, OwnInv, Own
<1>7. KeyInv'
    BY <1>0 DEF IInv, KeyInv, HasKey
<1>8. EntriesInv' /\ NoOverdraft' /\ OnceForEachKey'
    BY <1>0 DEF IInv, EntriesInv, NoOverdraft, OnceForEachKey
<1> QED
    BY <1>1, <1>2, <1>3, <1>4, <1>5, <1>6, <1>7, <1>8 DEF IInv

\* A new account is in no snapshot.
LEMMA CreateAccountStep ==
    ASSUME IInv, TypeOK', NEW a \in Accounts, CreateAccount(a)
    PROVE  IInv'
<1>0. /\ UNCHANGED <<transactions, ledger_entries, call, pc, answer, txn, snapshot, writes>>
      /\ DOMAIN accounts' = DOMAIN accounts \cup {a}
      /\ \A b \in DOMAIN accounts : accounts'[b] = accounts[b]
    BY DEF CreateAccount, session
<1>1. SessionInv'
    BY <1>0 DEF IInv, SessionInv, SessionOf, Source, Destination, InFlight
<1>2. WritesInv'
    BY <1>0 DEF IInv, WritesInv, Past, Source, Own, InFlight
<1>3. FundsInv'
    BY <1>0 DEF IInv, FundsInv, Past, Source
<1>4. SnapshotInv'
  <2> SUFFICES ASSUME NEW r \in Requests, InFlight(r)
               PROVE  /\ DOMAIN snapshot[r].accounts \subseteq DOMAIN accounts
                      /\ \A b \in DOMAIN snapshot[r].accounts :
                           Counter(accounts', b) = Counter(accounts, b)
    BY <1>0 DEF IInv, SnapshotInv, SnapshotOf, Past, Source, InFlight
  <2> QED
    BY <1>0 DEF IInv, SnapshotInv, SnapshotOf, Counter
<1>5. LockInv'
  <2>1. \A r \in Requests : \A b \in writes[r].accounts : accounts'[b] = accounts[b]
    BY <1>0 DEF IInv, LockInv, WritesInv, SnapshotInv, SnapshotOf, NoWrites
  <2> QED
    BY <1>0, <2>1 DEF IInv, LockInv
<1>6. OwnInv'
    BY <1>0 DEF IInv, OwnInv, Own
<1>7. KeyInv'
    BY <1>0 DEF IInv, KeyInv, HasKey
<1>8. EntriesInv' /\ NoOverdraft' /\ OnceForEachKey'
    BY <1>0 DEF IInv, EntriesInv, NoOverdraft, OnceForEachKey
<1> QED
    BY <1>1, <1>2, <1>3, <1>4, <1>5, <1>6, <1>7, <1>8 DEF IInv

\* A step the invariant does not see.
LEMMA UnseenStep ==
    ASSUME IInv, TypeOK',
           UNCHANGED <<accounts, transactions, ledger_entries, call, pc, answer,
                       txn, snapshot, writes>>
    PROVE  IInv'
<1>1. SessionInv' /\ WritesInv' /\ FundsInv' /\ SnapshotInv'
    BY DEF IInv, SessionInv, SessionOf, WritesInv, FundsInv, SnapshotInv, SnapshotOf,
           Source, Destination, Own,
           InFlight, Past
<1> QED
    BY <1>1, FrameSession, FrameLedger DEF IInv, database

\* What a commit publishes.
LEMMA Published ==
    ASSUME IInv, NEW r \in Requests, Commit(r)
    PROVE  /\ txn[r] = "committing" /\ Source(r) # Destination(r)
           /\ writes[r].transactions = {Own(r)}
           /\ writes[r].ledger_entries = EntriesOf(Own(r))
           /\ Source(r) \in UserAccounts => writes[r].accounts = {Source(r)}
           /\ transactions' = transactions \cup {Own(r)}
           /\ ledger_entries' = ledger_entries \cup EntriesOf(Own(r))
           /\ DOMAIN accounts' = DOMAIN accounts
           /\ \A a \in DOMAIN accounts :
                /\ a \notin writes[r].accounts => accounts'[a] = accounts[a]
                /\ a \in writes[r].accounts =>
                     Counter(accounts', a) = Counter(accounts, a) + 1
           /\ UNCHANGED <<call, pc, answer>>
           /\ \A q \in Requests : writes'[q] = IF q = r THEN NoWrites ELSE writes[q]
           /\ \A q \in Requests : txn'[q] = IF q = r THEN "committed" ELSE txn[q]
           /\ \A q \in Requests : snapshot'[q] = IF q = r THEN NoDocuments ELSE snapshot[q]
<1>1. txn[r] = "committing" /\ Source(r) # Destination(r)
    BY DEF Commit, IInv, SessionInv, SessionOf, InFlight
<1>2. /\ writes[r].transactions = {Own(r)}
      /\ writes[r].ledger_entries = EntriesOf(Own(r))
      /\ Source(r) \in UserAccounts => writes[r].accounts = {Source(r)}
    BY <1>1 DEF IInv, WritesInv, FundsInv, Past
<1>3. \A a \in DOMAIN accounts : accounts[a] \in AccountRecords
    BY DEF IInv, TypeOK, DatabaseType, AccountTable
<1>4. /\ DOMAIN accounts' = DOMAIN accounts
      /\ \A a \in DOMAIN accounts :
           /\ a \notin writes[r].accounts => accounts'[a] = accounts[a]
           /\ a \in writes[r].accounts => Counter(accounts', a) = Counter(accounts, a) + 1
    BY <1>3 DEF Commit, Counter, AccountRecords
<1>5. /\ \A q \in Requests : writes'[q] = IF q = r THEN NoWrites ELSE writes[q]
      /\ \A q \in Requests : txn'[q] = IF q = r THEN "committed" ELSE txn[q]
      /\ \A q \in Requests : snapshot'[q] = IF q = r THEN NoDocuments ELSE snapshot[q]
    BY EndedWrites DEF Commit, TransactionStates
<1> QED
    BY <1>1, <1>2, <1>4, <1>5 DEF Commit

\* A commit moves the ledger forward from every other snapshot.
LEMMA CommitSnapshot ==
    ASSUME IInv, NEW r \in Requests, Commit(r)
    PROVE  SnapshotInv'
<1> SUFFICES ASSUME NEW q \in Requests, InFlight(q)'
             PROVE  SnapshotOf(q)'
    BY DEF SnapshotInv
<1>1. q # r /\ InFlight(q) /\ snapshot'[q] = snapshot[q] /\ txn'[q] = txn[q]
    BY Published DEF InFlight
<1>2. /\ snapshot'[q].ledger_entries \subseteq ledger_entries'
      /\ DOMAIN snapshot'[q].accounts \subseteq DOMAIN accounts'
      /\ Past(q, Drafting \ {"load_accounts"})' =>
           /\ Source(q)' \in DOMAIN snapshot'[q].accounts
           /\ snapshot'[q].accounts[Source(q)'].status = "ACTIVE"
    BY <1>1, Published DEF IInv, SnapshotInv, SnapshotOf, Past, Source
<1>3. ASSUME NEW a \in DOMAIN snapshot[q].accounts
      PROVE  /\ Counter(snapshot[q].accounts, a) <= Counter(accounts', a)
             /\ a \in UserAccounts /\ Counter(snapshot[q].accounts, a) = Counter(accounts', a) =>
                  \A e \in ledger_entries' \ snapshot[q].ledger_entries :
                      e.account_id = a => e.direction = "CREDIT"
  <2>1. /\ a \in DOMAIN accounts
        /\ Counter(snapshot[q].accounts, a) <= Counter(accounts, a)
        /\ a \in UserAccounts /\ Counter(snapshot[q].accounts, a) = Counter(accounts, a) =>
             \A e \in ledger_entries \ snapshot[q].ledger_entries :
                 e.account_id = a => e.direction = "CREDIT"
    BY <1>1 DEF IInv, SnapshotInv, SnapshotOf
  <2>2. Counter(snapshot[q].accounts, a) \in Nat /\ Counter(accounts, a) \in Nat
    BY <2>1 DEF IInv, TypeOK, DatabaseType, SessionType, Documents, AccountTable,
       AccountRecords, Counter
  <2>3. CASE a \in writes[r].accounts
    BY <2>1, <2>2, <2>3, Published
  <2>4. CASE a \notin writes[r].accounts
    <3>1. Counter(accounts', a) = Counter(accounts, a)
      BY <2>1, <2>4, Published DEF Counter
    <3>2. ASSUME a \in UserAccounts, NEW e \in EntriesOf(Own(r)), e.account_id = a
          PROVE  e.direction = "CREDIT"
      BY <2>4, <3>2, Published
      DEF EntriesOf, Own, DebitEntry, CreditEntry, Entry, Transaction, Source
    <3> QED
      BY <2>1, <3>1, <3>2, Published
  <2> QED
    BY <2>3, <2>4
<1> QED
    BY <1>1, <1>2, <1>3 DEF SnapshotOf, Counter

\* Two entries are finitely many.
LEMMA PairIsFinite ==
    ASSUME NEW x, NEW y
    PROVE  IsFiniteSet({x, y})
<1>1. IsFiniteSet({x}) /\ IsFiniteSet({y})
    BY FS_Singleton
<1>2. {x, y} = {x} \cup {y}
    OBVIOUS
<1> QED
    BY <1>1, <1>2, FS_Union

\* The entries of a request: finitely many, its own, signed by direction.
LEMMA OwnEntries ==
    ASSUME IInv, NEW r \in Requests
    PROVE  /\ IsFiniteSet(EntriesOf(Own(r)))
           /\ \A e \in EntriesOf(Own(r)) :
                /\ e.signed_amount_minor = SignedAmountFor(e.direction, e.amount_minor)
                /\ e.transaction_id = r /\ e.amount_minor = call[r].amount_minor
           /\ call[r].amount_minor \in Nat
<1>1. IsFiniteSet({DebitEntry(Own(r)), CreditEntry(Own(r))})
    BY PairIsFinite
<1>2. call[r].amount_minor \in Nat
    BY ConstantsAssumption DEF IInv, TypeOK, HandlerType, CallRecords
<1> QED
    BY <1>1, <1>2 DEF EntriesOf, Own, DebitEntry, CreditEntry, Entry, Transaction

\* Committed credits are not negative.
LEMMA SignedLedger ==
    ASSUME IInv
    PROVE  \A e \in ledger_entries :
             /\ e.signed_amount_minor \in Int
             /\ e.direction = "CREDIT" => e.signed_amount_minor >= 0
BY DEF IInv, EntriesInv, TypeOK, DatabaseType, EntryRecords, SignedAmountFor

\* What a commit finds in its source account beyond its snapshot is credits.
LEMMA LaterAreCredits ==
    ASSUME IInv, NEW r \in Requests, Commit(r), Source(r) \in UserAccounts
    PROVE  /\ snapshot[r].ledger_entries \subseteq ledger_entries
           /\ \A e \in ledger_entries \ snapshot[r].ledger_entries :
                e.account_id = Source(r) => e.direction = "CREDIT"
<1>1. Source(r) \in writes[r].accounts /\ InFlight(r)
    BY Published DEF InFlight
<1>2. /\ Source(r) \in DOMAIN snapshot[r].accounts
      /\ accounts[Source(r)] = snapshot[r].accounts[Source(r)]
    BY <1>1 DEF IInv, LockInv
<1>3. Counter(snapshot[r].accounts, Source(r)) = Counter(accounts, Source(r))
    BY <1>2 DEF Counter
<1> QED
    BY <1>1, <1>2, <1>3 DEF IInv, SnapshotInv, SnapshotOf

\* The step the invariant is for: the balance that was enough in the snapshot is
\* enough in the ledger the commit finds.
LEMMA CommitNoOverdraft ==
    ASSUME IInv, NEW r \in Requests, Commit(r)
    PROVE  NoOverdraft'
<1> SUFFICES ASSUME NEW a \in UserAccounts PROVE Balance(ledger_entries', a) >= 0
    BY DEF NoOverdraft
<1> DEFINE Of(E) == {e \in E : e.account_id = a}
           debit  == DebitEntry(Own(r))
           credit == CreditEntry(Own(r))
<1>0. IsFiniteSet(ledger_entries) /\ ledger_entries' = ledger_entries \cup {debit, credit}
    BY Published DEF IInv, EntriesInv, EntriesOf
<1>1. IsFiniteSet(Of(ledger_entries)) /\ Signed(Of(ledger_entries))
    BY <1>0, FS_Subset, SignedLedger DEF Signed
<1>2. SumSigned(Of(ledger_entries)) >= 0 /\ SumSigned(Of(ledger_entries)) \in Int
    BY <1>1, SumSignedType DEF IInv, NoOverdraft, Balance
<1>3. /\ debit.account_id = Source(r) /\ debit.signed_amount_minor = -call[r].amount_minor
      /\ credit.account_id = Destination(r) /\ credit.signed_amount_minor = call[r].amount_minor
      /\ debit.transaction_id = r /\ credit.transaction_id = r
      /\ call[r].amount_minor \in Nat /\ Source(r) # Destination(r)
    BY OwnEntries, Published
    DEF Own, DebitEntry, CreditEntry, Entry, Transaction, Source, Destination, SignedAmountFor
<1>4. \A e \in ledger_entries : e.transaction_id # r
    BY Published DEF IInv, OwnInv
<1>5. Balance(ledger_entries', a) = SumSigned(Of(ledger_entries'))
    BY DEF Balance
<1> HIDE DEF debit, credit
<1>6. CASE a = Source(r)
  <2>1. /\ Of(ledger_entries') = Of(ledger_entries) \cup {debit}
        /\ debit \notin Of(ledger_entries)
    BY <1>0, <1>3, <1>4, <1>6
  <2>2. SumSigned(Of(ledger_entries')) = SumSigned(Of(ledger_entries)) - call[r].amount_minor
    BY <1>1, <1>2, <1>3, <2>1, SumSignedAdd
  <2>3. SumSigned(Of(snapshot[r].ledger_entries)) >= call[r].amount_minor
    BY <1>6, Published DEF IInv, FundsInv, Past, Balance
  <2>4. /\ snapshot[r].ledger_entries \subseteq ledger_entries
        /\ \A e \in ledger_entries \ snapshot[r].ledger_entries :
             e.account_id = a => e.direction = "CREDIT"
    BY <1>6, LaterAreCredits
  <2> DEFINE Later == Of(ledger_entries) \ Of(snapshot[r].ledger_entries)
  <2>5. /\ IsFiniteSet(Of(snapshot[r].ledger_entries)) /\ IsFiniteSet(Later)
        /\ Signed(Of(snapshot[r].ledger_entries))
        /\ Of(ledger_entries) = Of(snapshot[r].ledger_entries) \cup Later
        /\ \A e \in Later : e.signed_amount_minor \in Int /\ e.signed_amount_minor >= 0
    BY <1>1, <2>4, FS_Subset, SignedLedger DEF Signed
  <2> HIDE DEF Later
  <2>6. SumSigned(Of(ledger_entries)) >= SumSigned(Of(snapshot[r].ledger_entries))
    BY <2>5, SumSignedGrows
  <2>7. SumSigned(Of(snapshot[r].ledger_entries)) \in Int
    BY <2>5, SumSignedType
  <2> HIDE DEF Of
  <2> QED
    BY <1>2, <1>3, <1>5, <2>2, <2>3, <2>6, <2>7
<1>7. CASE a # Source(r)
  <2> DEFINE New == IF a = Destination(r) THEN {credit} ELSE {}
  <2>1. Of(ledger_entries') = Of(ledger_entries) \cup New
    BY <1>0, <1>3, <1>7
  <2>2. /\ IsFiniteSet(New)
        /\ \A e \in New : e.signed_amount_minor \in Int /\ e.signed_amount_minor >= 0
    <3>1. IsFiniteSet({credit}) /\ IsFiniteSet({})
      BY FS_Singleton, FS_EmptySet
    <3>2. IsFiniteSet(New)
      BY <3>1
    <3> QED
      BY <1>3, <3>2
  <2> HIDE DEF New
  <2>3. SumSigned(Of(ledger_entries')) >= SumSigned(Of(ledger_entries))
    BY <1>1, <2>1, <2>2, SumSignedGrows
  <2>4. SumSigned(Of(ledger_entries')) \in Int
    <3>1. IsFiniteSet(Of(ledger_entries')) /\ Signed(Of(ledger_entries'))
      BY <1>1, <2>1, <2>2, FS_Union DEF Signed
    <3> QED
      BY <3>1, SumSignedType
  <2> HIDE DEF Of
  <2> QED
    BY <1>2, <1>5, <2>3, <2>4
<1> QED
    BY <1>6, <1>7

\* A commit keeps the invariant.
LEMMA CommitStep ==
    ASSUME IInv, TypeOK', NEW r \in Requests, Commit(r)
    PROVE  IInv'
<1>1. SessionInv'
    BY Published
    DEF IInv, SessionInv, SessionOf, Source, Destination, InFlight, Drafting,
        InTransaction, Rejections
<1>2. WritesInv'
    BY Published DEF IInv, WritesInv, Past, Source, Own, InFlight, NoWrites
<1>3. FundsInv'
    BY Published DEF IInv, FundsInv, Past, Source
<1>4. SnapshotInv'
    BY CommitSnapshot
<1>5. LockInv'
  <2> SUFFICES ASSUME NEW q \in Requests, NEW a \in writes'[q].accounts
               PROVE  /\ a \in DOMAIN snapshot'[q].accounts
                      /\ accounts'[a] = snapshot'[q].accounts[a]
                      /\ \A p \in Requests \ {q} : a \notin writes'[p].accounts
    BY DEF LockInv
  <2>1. q # r /\ writes'[q] = writes[q] /\ snapshot'[q] = snapshot[q]
    BY Published DEF NoWrites
  <2>2. a \notin writes[r].accounts /\ a \in DOMAIN accounts
    BY <2>1 DEF IInv, LockInv, SnapshotInv, SnapshotOf, WritesInv, NoWrites
  <2> QED
    BY <2>1, <2>2, Published DEF IInv, LockInv, NoWrites
<1>6. EntriesInv'
  <2>1. IsFiniteSet(ledger_entries')
    <3>1. IsFiniteSet(ledger_entries) /\ IsFiniteSet(EntriesOf(Own(r)))
      BY OwnEntries DEF IInv, EntriesInv
    <3>2. ledger_entries' = ledger_entries \cup EntriesOf(Own(r))
      BY Published
    <3> QED
      BY <3>1, <3>2, FS_Union
  <2> QED
    BY <2>1, OwnEntries, Published DEF IInv, EntriesInv
<1>7. OwnInv'
  <2>1. Own(r).id = r
    BY DEF Own, Transaction
  <2> QED
    BY <2>1, OwnEntries, Published DEF IInv, OwnInv, Own
<1>8. KeyInv'
    BY Published DEF IInv, KeyInv, HasKey, NoWrites
<1>9. OnceForEachKey'
    BY Published DEF IInv, OnceForEachKey, KeyInv, HasKey
<1> QED
    BY <1>1, <1>2, <1>3, <1>4, <1>5, <1>6, <1>7, <1>8, <1>9, CommitNoOverdraft DEF IInv

\* Earlier funding left finitely many entries.
LEMMA OpeningFinite ==
    Init => IsFiniteSet(ledger_entries)
<1> SUFFICES ASSUME Init PROVE IsFiniteSet(ledger_entries)
    OBVIOUS
<1> DEFINE Funded == {a \in DOMAIN OpeningFunds : OpeningFunds[a] > 0}
           D == {DebitEntry(t) : t \in OpeningTransactions}
           C == {CreditEntry(t) : t \in OpeningTransactions}
           d == [a \in Funded |-> DebitEntry(OpeningTransaction(a))]
           c == [a \in Funded |-> CreditEntry(OpeningTransaction(a))]
<1>1. IsFiniteSet(Funded)
    BY ConstantsAssumption, FS_Subset DEF UserAccounts
<1>2. D = {d[a] : a \in Funded} /\ C = {c[a] : a \in Funded}
    BY DEF OpeningTransactions
<1>3. d \in [Funded -> D] /\ c \in [Funded -> C]
    BY <1>2
<1>4. (\A x \in D : \E a \in Funded : d[a] = x) /\ (\A x \in C : \E a \in Funded : c[a] = x)
    BY <1>2
<1>5. ledger_entries = D \cup C
    BY DEF Init
<1> HIDE DEF Funded, D, C, d, c
<1>6. d \in Surjection(Funded, D) /\ c \in Surjection(Funded, C)
    BY <1>3, <1>4, Fun_IsSurj
<1>7. IsFiniteSet(D) /\ IsFiniteSet(C)
    BY <1>1, <1>6, FS_Surjection
<1> QED
    BY <1>5, <1>7, FS_Union

\* Earlier funding took money from boundary accounts only.
LEMMA OpeningFacts ==
    ASSUME NEW t \in OpeningTransactions
    PROVE  /\ t.id \in Accounts /\ t.idempotency_key = t.id
           /\ t = OpeningTransaction(t.id)
           /\ t.source_account_id \in SystemAccounts
           /\ t \in TransactionRecords
<1>1. PICK a \in DOMAIN OpeningFunds : OpeningFunds[a] > 0 /\ t = OpeningTransaction(a)
    BY DEF OpeningTransactions
<1>2. a \in Accounts /\ AccountCurrency[a] \in Currencies
    BY ConstantsAssumption DEF UserAccounts
<1> QED
    BY <1>1, <1>2, OpeningType, BoundaryType DEF OpeningTransaction, Transaction

\* Earlier funding leaves a ledger the invariant holds of.
LEMMA InitIInv == Init => IInv
<1> SUFFICES ASSUME Init PROVE IInv
    OBVIOUS
<1>1. SessionInv
    BY DEF Init, SessionInv, SessionOf, Drafting, InTransaction, InFlight, Rejections
<1>2. WritesInv /\ FundsInv /\ SnapshotInv /\ LockInv /\ KeyInv
    BY DEF Init, WritesInv, FundsInv, SnapshotInv, SnapshotOf, LockInv, KeyInv, InFlight,
           Past, NoWrites
<1>3. \A e \in ledger_entries :
        \E t \in OpeningTransactions : e = DebitEntry(t) \/ e = CreditEntry(t)
    BY DEF Init
<1>4. \A e \in ledger_entries :
        /\ e.signed_amount_minor = SignedAmountFor(e.direction, e.amount_minor)
        /\ e.transaction_id \in Accounts
        /\ e.amount_minor \in Nat
        /\ e.account_id \in UserAccounts => e.direction = "CREDIT"
  <2> SUFFICES ASSUME NEW t \in OpeningTransactions,
                      NEW e \in {DebitEntry(t), CreditEntry(t)}
               PROVE  /\ e.signed_amount_minor = SignedAmountFor(e.direction, e.amount_minor)
                      /\ e.transaction_id \in Accounts
                      /\ e.amount_minor \in Nat
                      /\ e.account_id \in UserAccounts => e.direction = "CREDIT"
    BY <1>3
  <2> QED
    BY OpeningFacts
    DEF DebitEntry, CreditEntry, Entry, UserAccounts, SystemAccounts, TransactionRecords
<1>5. EntriesInv
    BY <1>4, OpeningFinite DEF EntriesInv
<1>6. OwnInv
    BY <1>4, OpeningFacts, FreshAssumption DEF Init, OwnInv
<1>7. NoOverdraft
  <2> SUFFICES ASSUME NEW a \in UserAccounts PROVE Balance(ledger_entries, a) >= 0
    BY DEF NoOverdraft
  <2> DEFINE Of == {e \in ledger_entries : e.account_id = a}
  <2>1. IsFiniteSet(Of)
    BY OpeningFinite, FS_Subset
  <2>2. \A e \in Of : e.signed_amount_minor \in Int /\ e.signed_amount_minor >= 0
    BY <1>4 DEF SignedAmountFor
  <2>3. Balance(ledger_entries, a) = SumSigned({} \cup Of)
    BY DEF Balance
  <2> HIDE DEF Of
  <2>4. SumSigned({} \cup Of) >= SumSigned({})
    BY <2>1, <2>2, FS_EmptySet, SumSignedGrows DEF Signed
  <2> QED
    BY <2>3, <2>4, SumSignedEmpty
<1>8. OnceForEachKey
    BY OpeningFacts DEF Init, OnceForEachKey
<1> QED
    BY <1>1, <1>2, <1>5, <1>6, <1>7, <1>8, InitType DEF IInv

-----------------------------------------------------------------------------

\* Every operation of a handler keeps the invariant.
LEMMA HandlerStep ==
    ASSUME IInv, TypeOK', NEW r \in Requests, Handler(r)
    PROVE  IInv'
<1>1. CASE NoticeAbort(r)
  <2>1. pc[r] \in InTransaction /\ txn[r] # "committed" /\ pc[r] \notin {"idle", "answered"}
    BY <1>1 DEF NoticeAbort, InTransaction
  <2> QED
    BY <1>1, <2>1, RetryStep, RaiseStep DEF NoticeAbort
<1> QED
    BY <1>1, OpeningStep, LoadAccountsStep, LockSourceStep, CheckFundsStep, InsertTransactionStep,
       InsertEntriesStep, SendCommitStep, AnsweringStep DEF Handler

\* Every step keeps the invariant.
THEOREM NextIInv == IInv /\ [Next]_vars => IInv'
<1> SUFFICES ASSUME IInv, [Next]_vars PROVE IInv'
    OBVIOUS
<1>0. TypeOK'
    BY NextType DEF IInv
<1>1. ASSUME NEW r \in Requests, Submit(r) \/ Handler(r) \/ Server(r) \/ Deadline(r) \/ Die(r)
      PROVE  IInv'
  <2>1. CASE Deadline(r)
    BY <1>0, <2>1, UnseenStep DEF Deadline, database, session
  <2> QED
    BY <1>0, <1>1, <2>1, SubmitStep, HandlerStep, CommitStep, ServerAbortStep, DieStep
    DEF Server
<1>2. CASE UNCHANGED vars
    BY <1>0, <1>2, UnseenStep DEF vars, database, session
<1> QED
    BY <1>0, <1>1, <1>2, CreateAccountStep, SetStatusStep DEF Next

\* The invariant holds of every behaviour.
THEOREM Invariance == Spec => []IInv
<1> QED
    BY InitIInv, NextIInv, PTL DEF Spec

\* No USER account is ever overdrawn, for any number of concurrent requests.
THEOREM Solvency == Spec => []NoOverdraft
<1>1. IInv => NoOverdraft
    BY DEF IInv
<1> QED
    BY <1>1, Invariance, PTL

\* No idempotency key ever takes effect twice.
THEOREM Idempotency == Spec => []OnceForEachKey
<1>1. IInv => OnceForEachKey
    BY DEF IInv
<1> QED
    BY <1>1, Invariance, PTL

\* A rejected request has left nothing in the ledger and never will.
THEOREM RejectionIsFinal == Spec => []RejectedWritesNothing
<1>1. IInv => RejectedWritesNothing
    BY DEF IInv, RejectedWritesNothing, SessionInv, SessionOf, OwnInv
<1> QED
    BY <1>1, Invariance, PTL

\* A created transfer is in the ledger with both its entries.
THEOREM CreationIsFinal == Spec => []CreatedIsInTheLedger
<1>1. IInv => CreatedIsInTheLedger
    BY DEF IInv, CreatedIsInTheLedger, SessionInv, SessionOf, OwnInv, Own
<1> QED
    BY <1>1, Invariance, PTL

\* The committed collections change in no other action.
LEMMA OnlyCommitWrites ==
    ASSUME Next
    PROVE  UNCHANGED <<transactions, ledger_entries>> \/ \E r \in Requests : Commit(r)
<1>1. ASSUME NEW r \in Requests, Submit(r) \/ Deadline(r) \/ Die(r) \/ ServerAbort(r)
      PROVE  UNCHANGED <<transactions, ledger_entries>>
    BY <1>1 DEF Submit, Deadline, Die, ServerAbort, database
<1>2. ASSUME NEW r \in Requests, Handler(r)
      PROVE  UNCHANGED <<transactions, ledger_entries>>
    BY <1>2 DEF Handler, PreCheck, LoadAccounts, LockSource, CheckFunds, InsertTransaction,
       InsertEntries, SendCommit, CommitAcknowledged, GiveUpOnCommit, NoticeAbort,
       Raise, Retry, Continue, ContinueWriting, database
<1>3. ASSUME NEW a \in Accounts, CreateAccount(a)
      PROVE  UNCHANGED <<transactions, ledger_entries>>
    BY <1>3 DEF CreateAccount
<1>4. ASSUME NEW a \in Accounts, NEW status \in Statuses, SetStatus(a, status)
      PROVE  UNCHANGED <<transactions, ledger_entries>>
    BY <1>4 DEF SetStatus
<1> QED
    BY <1>1, <1>2, <1>3, <1>4 DEF Next, Server

\* Debits of an account are serial: each was checked against all before it.
THEOREM DebitsAreSerial == Spec => DebitSawEveryDebit
<1> DEFINE Saw == \A r \in Requests : Commit(r) =>
                    LET a == call[r].source_account_id
                    IN  a \in UserAccounts =>
                          Debits(ledger_entries, a) = Debits(snapshot[r].ledger_entries, a)
<1>1. IInv /\ [Next]_vars => [Saw]_vars
  <2> SUFFICES ASSUME IInv, NEW r \in Requests, Commit(r), Source(r) \in UserAccounts
               PROVE  Debits(ledger_entries, Source(r))
                        = Debits(snapshot[r].ledger_entries, Source(r))
    BY DEF Source
  <2> QED
    BY LaterAreCredits DEF Debits
<1> QED
    BY <1>1, Invariance, PTL DEF Spec, DebitSawEveryDebit

\* Nobody's debit lands on an account that is no longer active.
THEOREM FrozenIsSafe == Spec => FrozenIsNotDebited
<1> DEFINE New    == ledger_entries' \ ledger_entries
           Active == \A e \in New :
                       e.direction = "DEBIT" /\ e.account_id \in UserAccounts =>
                         accounts[e.account_id].status = "ACTIVE"
<1>1. IInv /\ [Next]_vars => [Active]_vars
  <2> SUFFICES ASSUME IInv, Next, NEW e \in New,
                      e.direction = "DEBIT", e.account_id \in UserAccounts
               PROVE  accounts[e.account_id].status = "ACTIVE"
    OBVIOUS
  <2>1. PICK r \in Requests : Commit(r)
    BY OnlyCommitWrites
  <2>2. e = DebitEntry(Own(r))
    BY <2>1, Published DEF EntriesOf, DebitEntry, CreditEntry, Entry
  <2>3. e.account_id = Source(r)
    BY <2>2 DEF Own, Transaction, DebitEntry, Entry, Source
  <2>4. Source(r) \in writes[r].accounts /\ Past(r, Drafting \ {"load_accounts"}) /\ InFlight(r)
    BY <2>1, <2>3, Published DEF Past, InFlight
  <2> QED
    BY <2>3, <2>4 DEF IInv, LockInv, SnapshotInv, SnapshotOf
<1> QED
    BY <1>1, Invariance, PTL DEF Spec, FrozenIsNotDebited

\* The ledger is append-only, and what is appended is one whole transfer.
THEOREM AppendOnly == Spec => GrowsByWholeTransfers
<1> DEFINE Grows ==
             /\ transactions \subseteq transactions' /\ ledger_entries \subseteq ledger_entries'
             /\ ledger_entries' # ledger_entries =>
                  \E t \in transactions' \ transactions :
                      /\ transactions' = transactions \cup {t}
                      /\ ledger_entries' \ ledger_entries = EntriesOf(t)
<1>1. IInv /\ [Next]_vars => [Grows]_vars
  <2> SUFFICES ASSUME IInv, Next PROVE Grows
    OBVIOUS
  <2>1. CASE UNCHANGED <<transactions, ledger_entries>>
    BY <2>1
  <2>2. ASSUME NEW r \in Requests, Commit(r) PROVE Grows
    <3>1. Own(r) \notin transactions /\ \A e \in EntriesOf(Own(r)) : e \notin ledger_entries
      BY <2>2, OwnEntries, Published DEF IInv, OwnInv, Own, Transaction
    <3> QED
      BY <2>2, <3>1, Published
  <2> QED
    BY <2>1, <2>2, OnlyCommitWrites
<1> QED
    BY <1>1, Invariance, PTL DEF Spec, GrowsByWholeTransfers

=============================================================================
