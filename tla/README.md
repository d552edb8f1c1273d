# Ledgerlock in TLA+

Ledgerlock is a double-entry bookkeeping API: a FastAPI application (`src/app`)
on MongoDB. Money moves by writing, in one multi-document transaction, a header
and a matched pair of entries; no balance is stored, every balance is a sum over
entries. What makes the system hard is that any number of requests do this at
once, in one process or in several replicas, against snapshots, with retries,
lost acknowledgements and processes that die in between.

This directory specifies that system, model-checks it with TLC and proves its
central guarantees with TLAPS. `PROJECT.json` ties every definition to the lines
it models, lists the runs, the faulty variants each property has been seen to
catch, the hazards and the theorems.

- [The system](#the-system): the inventory
- [Modules](#modules): what models what, and how it corresponds to the code
- [The database as modelled](#the-database-as-modelled)
- [Runs](#runs): what is checked, on which instances, and why those suffice
- [Fairness](#fairness)
- [Proofs](#proofs)
- [Where code and documentation differ](#where-code-and-documentation-differ)
- [Not modelled](#not-modelled)
- [Plan](#plan)

## The system

| Component | Code | State it keeps | Operations | Correct when |
|---|---|---|---|---|
| Ledger service | `services/ledger_service.py` | none of its own; `accounts.debit_serialisation_counter`, `transactions`, `ledger_entries` | `create_transfer` / `_apply_transfer` | no USER account below zero; one effect per idempotency key; all writes of a transfer or none; the answer tells the truth |
| Balance service | `services/balance_service.py` | none | `compute_balance` | a balance is the signed sum of the account's entries, in the caller's snapshot |
| Account service | `services/account_service.py` | `accounts` | `create_account`, `ensure_system_accounts`, reads | one boundary account per currency, the same for all replicas |
| Reconciliation | `services/reconciliation.py`, its route | none | `reconcile`: six reads in one snapshot | no false alarm, no missed damage |
| Startup, schema | `main.py`, `core/db.py` | collections, validators, unique indexes | `lifespan`, `ensure_collections_and_validators`, `ensure_indexes` | nobody serves before everything is in place; everybody serves in the end |
| Authentication | `core/security.py`, `routes/auth.py` | `users`, `revoked_tokens` | register, login, logout, the check on each request | one user per e-mail; a revoked token stays revoked as long as it is valid |
| Rate limiting | `core/rate_limit.py` | counters in each process | count, refuse, expire | a bound on what a caller gets through; nobody is refused for the calls of others; waiting as told is enough |
| HTTP routes | `routes/transactions.py`, `routes/accounts.py` | none | idempotency header, ownership, funding, paginated reads | only owners debit; a client can conclude from its answers what became of its money; reads show each caller what is theirs |
| Errors, configuration, logging, manifests | `core/errors.py`, `core/config.py`, `core/logging_config.py`, `k8s/`, compose files | settings | formatting, validation, deployment | presentation; the restarts and rolling upgrades they cause are in Startup |

How they interact: the routes call the services; the services share nothing but
the database, so they interact through documents, unique indexes and the
conflicts of MongoDB transactions. Every `await` on the database is a point where
another request, another replica, an operator or a failure may come in between.
There are no messages and no callbacks except one: `with_transaction` calls
`_apply_transfer`, and calls it again after every transient error.

The behaviours that are hard, and where they bite (each is a hazard in
`PROJECT.json`):

- *write skew*: two debits read the same sufficient balance and insert entries
  that conflict with nobody's. The code rules it out by incrementing a counter
  on the source document, in the session, before the read;
- *one key, several submissions*: both pass the pre-check; the unique index
  stops one, with an error that depends on when the other commits;
- *retries and unknown outcomes*: a callback runs several times, a commit is
  sent several times, and the deadline may pass between a commit's application
  and its acknowledgement;
- *stale reads*: a status read in the snapshot and used later, while an operator
  freezes or closes the account;
- *crashes*: a dead process leaves its transaction, its lock and its key with
  the server until the session expires;
- *reports under load*: a report made of several reads beside running transfers;
- *check, then check again*: a token's expiry and its revocation are looked at in
  two steps, and the revocation is pruned when the token expires;
- *resending*: a client that hears nothing sends a payment again while the first
  submission is under way, applied, or about to be applied;
- *reads beside writes*: a balance summed outside any transaction, a list read in
  pages while accounts are inserted out of order, a page of accounts taken for
  all of them;
- *counters per process*: windows that do not align, replicas that restart;
- *replicas starting side by side*: list-then-create, find-then-insert, partial
  setups left by a replica that stopped, two versions at once.

## Modules

| Module | Models | Lines of code |
|---|---|---|
| `LedgerEntries` | entries, their sign, sums, balances | `models/ledger_entry.py`, `balance_service.py` |
| `LedgerService` | concurrent `create_transfer` calls, operation by operation | `ledger_service.py` |
| `Ledger` | abstract: a table of balances, each transfer one atomic step | what the docstrings promise |
| `LedgerRefinement` | the mapping from `LedgerService` to `Ledger` | |
| `LedgerInvariant` | the inductive invariants `IInv` and, on top of it, `BooksInv` | |
| `Reconciliation` | a report's six reads, beside commits and direct writes | `reconciliation.py` |
| `Startup` | replicas that set up schema and boundary accounts | `main.py`, `db.py`, `account_service.py` |
| `Auth` | users, tokens, logout, the pruning of revocations | `security.py`, `routes/auth.py`, `models/user.py` |
| `RateLimit` | callers, windows and restarts of the replicas | `rate_limit.py`, slowapi |
| `Api` | the routes that move or show money, over the books of `Ledger` | `routes/transactions.py`, `routes/accounts.py`, `account_service.py` |
| `MCLedgerService`, `MCReconciliation`, `MCStartup`, `MCAuth`, `MCRateLimit`, `MCApi` | instances for TLC | |
| `SumsProofs`, `LedgerSafetyProofs`, `LedgerBooksProofs`, `ReconciliationProofs`, `StartupProofs`, `AuthProofs`, `RateLimitProofs`, `ApiProofs` | proofs | |

`LedgerService` uses `LedgerEntries` and promises `Ledger`; `Reconciliation` uses
`LedgerEntries` and takes of the service only the promise (a whole transfer at a
time, that its source can pay). `Startup` establishes what `LedgerService`
assumes as `BoundaryAssumption`, one boundary account per currency, and the
unique index behind `KeyTaken`. `Api` is the layer above: it instantiates `Ledger`
(`Books == INSTANCE Ledger`) and takes its `Transfer` and `Open` as steps of its
own, so that what `LedgerService` is shown to implement is what the routes build
on. A call of `Api` has passed `Auth` (its user is known) and `RateLimit`.

**LedgerService.** A request is one call of `create_transfer`. `pc[r]` is the
operation its handler does next, `txn[r]`, `snapshot[r]` and `writes[r]` are its
MongoDB transaction as the server has it, and `accounts`, `transactions` and
`ledger_entries` are what is committed. The actions are in the order of the code:

| Action | Code | What may come of it |
|---|---|---|
| `Submit` | self-transfer check, before any transaction | `SAME_ACCOUNT_TRANSFER` or on |
| `PreCheck` | `find_one` on the key; opens the snapshot | `DUPLICATE_SUBMISSION` or on |
| `LoadAccounts` | both `find_one`s and `_validate_participants`; chooses the path of a SYSTEM source | a rejection or on |
| `LockSource` | `$inc` of `debit_serialisation_counter` | write conflict and retry, or on |
| `CheckFunds` | `compute_balance` in the session | `INSUFFICIENT_FUNDS` or on |
| `InsertTransaction` | the header, under `uq_idempotency_key` | duplicate, write conflict and retry, or on |
| `InsertEntries` | `insert_many` of the pair | on |
| `SendCommit`, `CommitAcknowledged` | `with_transaction` sends the commit and hears of it | 201 |
| `Retry`, `Raise`, `NoticeAbort`, `GiveUpOnCommit` | `with_transaction` and the `except` clauses of `create_transfer` | again from the top, a rejection, `WRITE_CONFLICT`, 500 |

The two account reads of `LoadAccounts` are one action: both read the same
snapshot, so nothing can be told apart between them. `Commit`, `ServerAbort`,
`Deadline`, `Die`, `CreateAccount` and `SetStatus` are the surroundings. The
attempt counter, log lines, the transaction's `kind` and all descriptions are
left out. The id of a transaction, a fresh ObjectId in the code, is the request
that writes it; a retried callback would use a new ObjectId, and as the aborted
attempt leaves nothing the difference is not visible.

**Reconciliation.** `NetAndCount` ... `CountTransactions` are the six reads in
order, `view[r]` is the snapshot that the first one opens, `report[r]` what has
been found so far. `Commit` is a transfer by the service. `DirectWrite` is a
change of one document with unrestricted credentials, the case the repository's
README and `tests/concurrency/test_immutability.py` weigh: an entry, a header or
an account document inserted, deleted or updated, within what the validators and
unique indexes of `db.py` admit (`accounts` has no validator, only its index). An
entry or a header is updated in any one field that a definition looks at; a change
of any other field (a header's status, key or description, an account's owner) is an
update that leaves the record here as it was, and an entry's date is `UpdateDate`.
`accounts` holds the account documents, which a report reads to tell who is a USER.

**Startup.** `stage[r]` and `todo[r]` are where a replica is in `lifespan` and
what is left of the loop it is in; `existing[r]` is the list of collections as it
was read before the loop, possibly stale when used. `CheckAbsent` and `Create`
are the two halves of the driver's `create_collection`: the first raises
`CollectionInvalid`, which the code catches; when another replica creates the
collection between them, the server may accept the command (equal options) or
refuse it with an error the code does not catch (`CreateTooLate`), after which
the container is started again.

**Auth.** A call is one HTTP request; `kind` is its endpoint, `pc[c]` the step its
handler is at. `register` is `InsertUser`, `IssueToNew`; `login` is `FindUser`,
`Verify` (on the document that was read); whatever carries a token goes through
`Decode`, `CheckRevoked`, `FindOwner`, which are `get_current_user`, to `Revoke`
(logout) or `ReadUser` (me). `late[c]` remembers that the call arrived after the
logout of its token had been confirmed. Time is in fractions of a second, because
`exp` is rounded down to whole seconds and the clock is not. `Prune` is MongoDB's
TTL monitor, `DeleteUser` an operator. The API's and the database's clock are
taken to agree: a database clock that runs ahead would prune revocations of
tokens that the API still accepts.

**RateLimit.** `counters[r][s]` is what replica `r` has counted for scope `s`, and
how much of its window is left. A scope is a caller, a URL path and a limit: the
`Limiter` is built without a `key_style`, and slowapi's default, `"url"`, scopes a
counter by the path of the request and not by its route. So `/accounts/{id}/funding`
has a counter for each id, whether there is such an account or not, and two routes
with one path and one limit (`GET` and `POST` on `/accounts`) have one between them.
`Routes` and `Paths` (the paths of each route) are constants. `Key` is
`rate_limit_key` and this scope, `Hit` the fixed window of slowapi, `Call` the
decorator, which runs after the dependencies of a route (so a checked token is
known) and before its body. `admitted`, `restarted` and `told` are what an observer remembers of the
last `Window` instants; all times are relative to now, so the state space is
finite without a bound on the clock.

**Api.** A call is one request, or one walk through the pages of a list. The
actions are the awaits of the handlers:

| Endpoint | Actions |
|---|---|
| `POST /transactions` | `Submit` (the key must be there), `ReadSource` (exists, is the caller's), `ReadDestination` (exists), then the ledger |
| `POST /accounts/{id}/funding` | `Submit`, `FindOwned`, `FindBoundary`, then the ledger |
| the ledger | `Settle` (the transfer takes effect), `Duplicate`, `Refuse` (any other rejection), `LoseTrack` (500, outcome unknown); `Reply` after `Settle` |
| `GET /transactions/{id}` | `FindTransaction`, `ListOwned` (the page of 200) |
| `POST /accounts` | `CheckCurrency` (and the timestamp), `InsertAccount` |
| `GET /accounts` | `ReadPage`, as often as there are full pages |
| `GET /accounts/{id}/balance` | `FindOwned`, `Aggregate` (which sees an arbitrary part of what settles while it runs) |

`Refuse` is always possible, because a rejection of the ledger may be due to a
stale snapshot or to contention; which one it is no property needs.
`unknown` is a payment whose client has its answer (or never will) and whose
commit may still be applied. `known[c]` is what was there, or known to some
client (confirmed to it, or counted in a balance it was shown), when the call was
submitted, and `shown[c]` what it has been shown.
Accounts that are equally old come in any order, a different one each time.

## The database as modelled

The database is not under `src/`; it is modelled from how the code uses it, and
marked external in the map.

- The first operation of an attempt fixes the snapshot; reads see it and the
  attempt's own writes.
- A write to a document that another unfinished transaction has written, or
  that changed since the snapshot, is refused and the attempt starts again.
- A unique key written by an unfinished transaction gives a write conflict; one
  committed before the snapshot gives a duplicate key; one committed after the
  snapshot gives either (a nondeterministic choice).
- A commit publishes everything at once. The client may not hear of it, and the
  driver sends it again, which changes nothing the second time.
- The server may abort an unfinished transaction at any time (failover, expired
  lifetime) and keeps the one of a dead client until it does.
- An abort sent by a live client is taken to arrive at once. If it is lost, the
  server keeps the locks a while longer; `Die` already covers that for others.
- Committed data is not rolled back: the client asks for majority write concern
  with journalling.
- An operator's status change is a single-document write: it waits for a
  transaction that has written the document.

## Runs

| Run | Specification | Instance | Distinct states | Checks |
|---|---|---|---|---|
| `ledger_race` | `ContentionSpec` | three requests, debits that an account can pay one by one but not together, a deposit | 90,783 | `NoOverdraft`, `BoundaryBacksHoldings`, `CounterCountsDebits`, `DebitSawEveryDebit`, `ImplementsLedger`, `RequestIsAnswered` |
| `ledger_retry` | `Spec` | three submissions of one key, debits that a lock serialises and deposits that only the key does, every failure | 114,436 | `OnceForEachKey`, `EntriesArePairs`, `RejectedWritesNothing`, `CreatedIsInTheLedger`, `DuplicateMeansApplied`, `GrowsByWholeTransfers` |
| `ledger_operator` | `Spec` | two requests, six kinds of call, five of them wrong in some state, accounts opened, frozen, closed, every failure | 216,959 | `IInv`, `BooksInv`, `FrozenIsNotDebited`, `ImplementsLedger`, `RequestIsAnswered` |
| `ledger_credited_frozen` | `Spec` | one request, one operator | violation | `CreditedIsActive` |
| `reconciliation_snapshot` | `Spec` | one report, three transfers in two currencies, one direct write to an entry, a header or an account | 30,771 | `ReportInv`, `NoFalseAlarm`, `OneWriteIsFound`, `HealthyMeansPaid` |
| `reconciliation_rewrite` | `Spec` | the same | violation | `RewriteIsFound` |
| `startup_race` | `Spec` | two replicas, five collections, five unique indexes, two currencies, two stops, one election | 386,414 | `SetupInv`, `OneBoundary`, `ServingMeansReady`, `EveryReplicaServes` |
| `startup_upgrade` | `Spec` | one replica of each of two versions | violation | `UpgradeSticks` |
| `auth_session` | `Spec` | four calls, one address in two spellings, tokens that live for three half-seconds | 61,702 | `AuthInv`, `OneUserPerEmail`, `RevocationOutlivesToken`, `RevokedIsRefused` |
| `rate_limit` | `Spec` | two replicas, two users, two addresses, a public route with one path (limit 2) and another with two paths (limit 1), windows of two instants, one restart in a window | 374,768 | `RateInv`, `BurstIsBounded`, `RefusedForOwnCalls`, `RetryAfterSuffices` |
| `api_routes` | `Spec` | three calls out of twenty-three kinds, two users with accounts and one without, two keys | 329,908 | `RoutesInv`, `SpendsOnlyWhatWasAsked`, `BalanceIsNotBehind`, `ResendingIsSafe`, `RefusedIsFinal`, `PartiesRead`, `WalkMissesNothing` |
| `api_many_accounts` | `Spec` | a payer with two accounts, pages of one | violation | `PartyIsShownTransaction` |

What the properties say is in the comment above each of them. What they are for:

- `NoOverdraft` is the guarantee; `DebitSawEveryDebit` says why it holds (debits
  of an account are serial); `CounterCountsDebits` ties the counter to the debits
  that committed, so that an increment outside the session shows.
- `RejectedWritesNothing`, `CreatedIsInTheLedger` and `DuplicateMeansApplied` are
  about what a client may conclude from an answer. A deadline that passes while a
  commit's outcome is unknown must not be reported as a rejection; the code lets
  the exception through as a 500, and the model shows that this is what keeps the
  property. Nothing is promised to a client that is told `INTERNAL_ERROR` or
  hears nothing.
- `ImplementsLedger` is the refinement: the committed ledger moves like the
  abstract table of balances in `Ledger`.
- `NoFalseAlarm` and `OneWriteIsFound` are the two ways a checker fails. The second
  is about what the reads look at: an entry added or removed, or changed in its
  amount, sign, currency or transaction, and a header removed. `Unseen` names the
  other single writes, which may escape a report: an entry's account or date, a
  header inserted or changed in any field but its id, and account documents.
- `ServingMeansReady` is what every other module takes for granted.
- `RevokedIsRefused` has an exception in it that the code needs: a call may be
  decoded just before its token expires, and look for the revocation after that
  was pruned. With the exception removed TLC shows the call being let in.
- `BurstIsBounded` says what the limit is worth to one caller at one URL path: per
  replica almost twice the limit within one window's length (the end of one window
  and the start of the next), and once more for each restart. Of a whole route it
  is this times the number of its paths: who has ten accounts, or makes up ten
  ids, has ten budgets for `/accounts/{id}/funding`.
- `ResendingIsSafe` and `RefusedIsFinal` are the two conclusions a client may
  draw. They are about all submissions of a key together: one refusal says
  nothing while an earlier submission of the same key is unanswered.
- `SpendsOnlyWhatWasAsked` bounds the loss of an account by what its owner asked
  for, whoever else is at work, and says the same of every balance that is shown.
- `BalanceIsNotBehind` is what is left of consistency for a balance that is summed
  outside any transaction: it may count a later transfer and miss an earlier one,
  but counts all that a client knew of before it asked, by a confirmed payment or
  by a balance that had counted it. It takes the reads from the primary (`db.py`
  asks for that); from a secondary TLC finds it violated.
- `WalkMissesNothing` needs the order by age: an account that is inserted with
  an older timestamp shifts the pages towards the end, never over an account.

Each property of a passing run has a mutant, a faulty variant of one definition
that stands beside it ("Fault: ..."), and TLC finds the property violated with it.

**Bounds.** *Requests*: a debit race needs two debits, and a third request to
come between them (a deposit that makes the stale balance differ from the fresh
one, or a third submission of a key while the first two conflict). *Amounts*: an
account holds 3 and pays 2, so one debit fits and two do not; what matters is
which sets of transfers can be paid together. `OpeningFunds` is the result of
earlier funding, with its transactions and entries. *Keys*: two, so that requests
share one or not. *Restrictable* bounds whom the operator touches. Attempts are
not bounded: the deadline is an event, not a number. *MaxWrites* = 1 bounds the
direct writes; with 2 the same properties hold (1.3 million states; kept out for
its length). One report is enough, as reports do not write. *MaxStops*,
*MaxElections* bound the replicas' failures; each collection and index is one
step, so that any two replicas interleave in any way.

*RateLimit*: the two limits of 1 and 2, and windows of two instants, are the
smallest in which a burst can straddle the edge of a window. *MaxActive* bounds
the callers of whom anything is remembered at a time; two are needed for one to
use up the other's budget. The route with an id has two paths. That two routes
share a path is part of the specification and of the proofs and not of this
instance, which would grow too large. There are two addresses, so that a caller can change them, and
two users, so that they can share one. *MaxRestarts* = 1 in the last window, over all replicas.

*Api*: three calls are a payment, its resend and what another does in between, or
a walk and two opened accounts. *PageSize* is 1, so that walks have several pages;
*MaxPage* is 2, and alice can come to own three accounts, so that the page of 200
of `read_transaction` is sometimes enough and sometimes not. *Horizon* is 2: two
timestamps, so that accounts can be inserted out of their order.

*Auth*: a registration, a login or logout, and two uses of the token need four
calls; *Horizon* bounds the clock, which in any case runs on until every
revocation has expired.

`LedgerRetry.cfg`, `AuthSession.cfg`, `RateLimitBurst.cfg` and the two `Api`
configurations take requests, calls, replicas or users as symmetric; they check no
liveness. The specifications stop when everything is answered, read or serving, so deadlock is
not checked; that nothing stops earlier is what `RequestIsAnswered` and
`EveryReplicaServes` say.

## Fairness

`LedgerService!Spec`: weak fairness of each handler (the event loop resumes a
coroutine whose operation completed), of the server's step on each transaction
(a commit is applied or the transaction is ended by its lifetime limit) and of
the deadline (the clock moves). A dead process takes no step. Nothing is assumed
of submissions, operators or crashes.

`ContentionSpec` removes deadline and server failures: what remains is
contention, and `RequestIsAnswered` then says that contention alone starves
nobody, as a conflict needs another transaction that in its turn makes progress
and there are finitely many of them. The model's instances are finite; under an
endless stream of new requests a request may lose every time until its deadline,
and then is answered `WRITE_CONFLICT`.

`Startup!Spec`: a replica that is up goes on and one that stopped is started
again (the Deployment's restart policy), and a primary is elected in the end.
`Reconciliation!Spec`: a report goes on; `Auth!Spec`,
`RateLimit!Spec` and `Api!Spec` assume nothing. Their properties are all safety. That the TTL monitor prunes every revocation in the
end is MongoDB's promise and not checked.

## Proofs

A theorem holds for every value of the constants: any finite number of requests,
replicas or calls, any accounts, keys, addresses, lists and lifetimes. What is
assumed of the constants is named in the module that declares them, and TLC
evaluates it on each run:

- `LedgerService`: `ConstantsAssumption` (types, finite sets), `BoundaryAssumption`
  (exactly one boundary account per currency, which `OneBoundary` of `Startup`
  establishes), `FreshAssumption` (ids and keys of the opening transactions clash
  with no later one);
- `Startup`: `StartupAssumption` (the collections, indexes and currencies are
  lists, the boundary index is one of the indexes), `DeploymentsAssumption` (what
  an earlier deployment left has no currency with two boundary accounts, as its
  unique index saw to it);
- `Auth`: `AuthAssumption` (spelling an address in lower case twice changes
  nothing more, as `EmailStr` and `.lower()` do; positive lifetimes);
- `Reconciliation`: `ReconciliationAssumption` (the service's transfers are between
  accounts, in positive amounts, and they and the account documents have ids of
  their own, as `_id` is);
- `RateLimit`: `RateAssumption` (finitely many replicas, and paths of each route,
  positive limits and window);
- `Api`: `ApiAssumption` (finitely many calls and accounts; the endpoints there are;
  payments are of positive amounts, as `AmountMinor` sees to; what is open at the
  start is in a supported currency).

| Theorem | States |
|---|---|
| `TypeCorrect` | `Spec => []TypeOK` |
| `Invariance` | `Spec => []IInv` |
| `Solvency` | `Spec => []NoOverdraft` |
| `Idempotency` | `Spec => []OnceForEachKey` |
| `RejectionIsFinal` | `Spec => []RejectedWritesNothing` |
| `CreationIsFinal` | `Spec => []CreatedIsInTheLedger` |
| `DebitsAreSerial` | `Spec => DebitSawEveryDebit` |
| `FrozenIsSafe` | `Spec => FrozenIsNotDebited` |
| `AppendOnly` | `Spec => GrowsByWholeTransfers` |
| `PairsAreWhole` | `Spec => []EntriesArePairs` |
| `CountersAreExact` | `Spec => []CounterCountsDebits` |
| `DuplicatesAreReal` | `Spec => []DuplicateMeansApplied` |
| `BooksAgree` | `Spec => []BooksInv` |
| `BoundariesBack` | `Spec => []BoundaryBacksHoldings` |
| `Refinement` | `Spec => ImplementsLedger` |
| `Invariance`, `TypeCorrect` (`ReconciliationProofs`) | `Reconciliation!Spec => []ReportInv`, `[]TypeOK` |
| `NoAlarmUnderLoad` | `Reconciliation!Spec => []NoFalseAlarm` |
| `OneWriteAlarms` | `Reconciliation!Spec => []OneWriteIsFound` |
| `HealthIsWorthIt` | `Reconciliation!Spec => []HealthyMeansPaid` |
| `Setup`, `TypeCorrect` (`StartupProofs`) | `Startup!Spec => []SetupInv`, `[]TypeOK` |
| `BoundaryIsUnique` | `Startup!Spec => []OneBoundary` |
| `Readiness` | `OneVersion` implies `Startup!Spec => []ServingMeansReady` |
| `Invariance`, `TypeCorrect` (`AuthProofs`) | `Auth!Spec => []AuthInv`, `[]TypeOK` |
| `AddressIsUnique` | `Auth!Spec => []OneUserPerEmail` |
| `RevocationLasts` | `Auth!Spec => []RevocationOutlivesToken` |
| `RefusedOnceRevoked` | `Auth!Spec => RevokedIsRefused` |
| `Invariance` (`ApiProofs`) | `Api!Spec => []RoutesInv` |
| `ResendingSafety` | `Api!Spec => []ResendingIsSafe` |
| `RefusalIsFinal` | `Api!Spec => []RefusedIsFinal` |
| `ReadByParties` | `Api!Spec => []PartiesRead` |
| `BalancesKeepUp` | `Api!Spec => []BalanceIsNotBehind` |
| `WalksAreWhole` | `Api!Spec => []WalkMissesNothing` |
| `SpendingIsAsked` | `Api!Spec => []SpendsOnlyWhatWasAsked` |
| `Invariance`, `TypeCorrect` (`RateLimitProofs`) | `RateLimit!Spec => []RateInv`, `[]TypeOK` |
| `BurstsAreBounded` | `RateLimit!Spec => []BurstIsBounded` |
| `BudgetsAreSeparate` | `RateLimit!Spec => []RefusedForOwnCalls` |
| `WaitingSuffices` | `RateLimit!Spec => RetryAfterSuffices` |
| `SumSignedAdd`, `SumSignedGrows`, `SumSignedDisjoint` | how a sum of entries changes when entries are added, and over a union |

*Sums* (`SumsProofs`). A sum over a finite set, whether it is `SumSigned` of
`LedgerEntries` or a `MapThenSumSet` of the community modules, is a recursive
function on the subsets, defined with `CHOOSE`. `SumOver` is what they have in
common. That the function exists, and that the sum does not
depend on the order of choice, is proved by induction on the number of elements.
The library's induction theorems take an operator as parameter, so the induction
is done on the set of the naturals for which the claim holds. The lemmas say how
the sum changes with one more element (`SumOverAdd`), what it is of a disjoint
union (`SumOverDisjoint`), and that it is at most another one into which its
elements can be mapped one to one, each to something no lighter (`SumOverInto`), and
at most the number of its elements times the largest (`SumOverBound`).

*The inductive invariant* (`LedgerInvariant`). `NoOverdraft` is not inductive: a
state in which two committing transactions each hold a sufficient snapshot of the
same account satisfies it and has a successor that does not. `IInv` adds:

- `SessionInv`: which states of a transaction go with which step of its handler;
- `WritesInv`: what a transaction has written by the time it is at each step;
- `FundsInv`: from the balance check on, a USER source is locked and its balance
  in the snapshot covers the amount;
- `SnapshotInv`: the ledger only moves forward from a snapshot, and as long as
  the counter of an account stands still only credits reach it;
- `LockInv`: a written document is still as in the writer's snapshot, and has no
  other writer;
- `EntriesInv`, `OwnInv`, `KeyInv`: signs of the committed entries, a request's
  documents are committed exactly when its transaction is, a key written and not
  yet committed is nobody else's.

`CommitNoOverdraft` is the heart: by `LockInv` the counter has not moved since
the snapshot, so by `SnapshotInv` everything newer on the account is a credit, so
by `SumSignedGrows` the balance is still at least what `FundsInv` found, and
`SumSignedAdd` takes the debit from it. Without the write of `LockSource` the
invariant fails in TLC and the proof fails at exactly that step.

*The books* (`LedgerBooksProofs`). `BooksInv` stands on top of `IInv` and has three
parts: `PairsInv` (ids are unique, and no transaction is between an account and
itself, so the entries with one id are two and cancel out); `CounterInv` (an
account that is not there yet has no debits, so that `CreateAccount` may start its
counter at 0); `SidesInv` (from `LoadAccounts` on, both accounts of a transfer are
in its currency and in the snapshot, and accounts do not go away, so they are in
the ledger when the transfer commits). For duplicates `OwnInv` is enough, as the
committed key a request found cannot be its own.

`BoundaryBacksHoldings` follows from `BooksInv` in every single state: the entries
of one currency add up to zero, by induction on the number of transactions
(`CurrencyAddsToZero`; each step is `PairKeepsCurrencySum`), and they are the
disjoint union of the boundary account's and the users'.

*Refinement* (`LedgerBooksProofs`). The mapping is that of `LedgerRefinement`: the
balance of an account is the sum of its committed entries. `InitBooks` maps the
initial states; `CommitTransfers` shows a commit to be `Ledger!Transfer`, whose
guards are the hard part (the source can pay, by the argument of
`CommitNoOverdraft`; both accounts are open and in the currency, by `SidesInv`; the
key is new, by `KeyInv`) and whose effect on the two balances is
`CommitMovesBalances`; `CreationOpens` and `StatusRestricts` map the operator's
steps; everything else leaves the committed collections alone and stutters.

*Reports* (`ReconciliationProofs`). `ReportInv` has two halves. `OneSnapshot`: what a
report has found so far agrees, read for read, with one set of documents, the
view that its first read opened; so a finished report is a statement about a
single instant, however many transfers commit between its reads.
`HistoryInv`, of that instant and of what is committed: without direct writes the documents
are `Whole` (headers and pairs of the same transfers, nothing else, no USER
overdrawn); after one direct write that write was of a kind no check looks at
(`Unseen`) or they are `Damaged`, and then some check fails on them. `Damaged` is the part that had to be found: it
must survive the commits that follow, and each of its cases does because a
commit adds a pair under an id of its own, which cannot complete another group,
nor make up a currency's net, nor bring a header back. A healthy report
therefore means that every user account can pay, and with at most one write
outside `Unseen` it means that nothing was written. What it means whoever wrote is
`HealthyMeansPaid`.

*Startup* (`StartupProofs`). `Progress` says what a replica stands on at each
stage: the part of a list that it has gone past is in the database. It is
inductive because the database only grows and a replica goes past an item only
after creating it, seeing it or being told it is there; a replica that stops
forgets its progress. `OneBoundary` needs the index: accounts are inserted only
after `Indexes` is in place, and then the insertion of a second one is refused and
the winner adopted (`AdoptWinnerStep`). `ServingMeansReady`, and `ValidatorsInv` on
which it rests (lemma `ValidatorsInForce`), suppose `OneVersion`, and cannot do without: `UpgradeSticks` is the run in which a
replica of another version takes a validator back. Without it, what `Readiness`
says of collections, indexes and boundary accounts is still there, as `SetupInv`.

*Sessions* (`AuthProofs`). `CallInv` says what a call's step goes with: an address
in a credential step is already in lower case (so the unique index compares what
it should), a token in a token step was issued, a call marked `late` carries a token
whose logout was confirmed. A step changes one call (`Moves`), so each action needs
a proof for that call, and one for the collections if it writes. `Prune` removes
only revocations whose instant has come, and they carry the token's own `exp`.

*Answers* (`ApiProofs`). `ResendingIsSafe` is not inductive, as it says nothing of
a call that has not been answered. `IInv` of `Api` adds what each step of a call
stands on: that it hands to the ledger exactly what was asked for (`OrderInv`),
that whatever is settled was ordered by a call that is not refused, before or
after (`SettledInv`), that a confirmed call has a settled transfer under its key
(`ConfirmedInv`), and that no two have one key (`KeyInv`, from the guard of
`Ledger!Transfer`). A step changes one call, so each action needs a proof for that
call only (`OneCallSteps`).

*Reads* (`ApiProofs`). A read is right about a moment, and the claim about it must
survive what the others do afterwards: `OthersReads` shows that nothing goes away,
that a party with no more accounts than fit in a page had no more before, and
that an account never gets fewer elder ones. `LookupInv` then gives `PartiesRead`: the
page of a party whose accounts fit in it is all of them. For a walk, `WalkInv` says
that the offset has not gone past an account that was there from the beginning:
unless it was shown, at least as many accounts as were skipped are older. The
step from one page to the next is `WalkOn`; a page that is not full has shown the
rest. For a balance `CountsKnown` is kept from the moment the aggregation begins:
whatever a client knew of when it asked had settled by then, and nothing settled
goes away.

*Spending* (`ApiProofs`). `MoneyInv`: a balance is the opening funds and the sum of
the settled transfers, and `OwnerInv`: whoever has a transfer settled owns its
source. What is settled out of a user's account, all of it or the part that an
aggregation saw, maps one to one to the keys under which the owner asked for it
(by `KeyInv`), each of them for at least as much (`NoMoreThanAsked`, by `SumOverInto`).

*Limits* (`RateLimitProofs`). `BurstIsBounded` speaks of the last window's length
only, and a tick forgets a part of it, so it is not inductive. `RateInv` says of
every `n` how many of the calls that a replica has admitted will still be
remembered in `n` instants (`WindowInv`): at most those that its open window
counts and, unless they are forgotten by the time it closes, those of the window
before it, less the first. Each restart may have hidden one more window. A tick
takes the bound for `n` to the one for `n - 1` (`FitsTick`). `RefusedForOwnCalls` is
part of it: a full window has admitted a whole limit and nothing of it is
forgotten before it closes. All this is per scope; the bound of a route is the sum
over its paths (`PathsSum`, by `SumOverBound`).

*Waiting* (`RateLimitProofs`). `WaitInv`: no replica has a window for a caller that
outlasts the wait it was told. A refusal tells the whole window, which no window
exceeds; time takes as much from each; a restart only forgets. So once the wait is
over every replica opens a new window, whose first call is within any limit.

*Layout.* `LedgerSafetyProofs` begins with a lemma for each way a handler leaves an
operation (return, raise, retry, continue, write) and the type theorem over all
actions. It then groups the actions by what they disturb (ending,
resting, opening, writing, publishing), one lemma each, then `NextIInv`.

*Model-checked only*: liveness (`RequestIsAnswered`, `EveryReplicaServes`), which
is out of the prover's reach. Every safety property of a passing run is proved.

## Where code and documentation differ

Each is a run that TLC refutes, with a quoted finding in `PROJECT.json`.

- *The destination may be frozen before the credit.* The status of the
  destination is validated in the snapshot and its document is not written, so a
  freeze in between is overtaken by the credit (`CreditedIsActive`). The source
  is safe (`FrozenIsNotDebited`, proved).
- *An entry moved to another account is not found.* No check of the report
  relates entries to the header's source and destination (`RewriteIsFound`).
- *An upgrade does not stick.* A replica of the old version that restarts during
  a rolling upgrade puts its validators back (`UpgradeSticks`).
- *A party may not see its transaction.* `read_transaction` looks at the caller's
  oldest 200 accounts; the owner of more is told that a transaction of the others
  does not exist (`PartyIsShownTransaction`). For all others `PartiesRead` holds.

Also noticed, without a run of their own:

- a report looks at the headers' ids and number only, at no date, and at an
  account document only for whether a user owns it. So a header without entries, a
  header whose amount, parties, currency, status or key were changed, an entry
  with another date and an account added, removed or changed may all escape it;
  `Unseen` names these beside the moved entry;
- the module docstring of `rate_limit.py` says that N replicas admit N times the
  limit; as counters are per URL path, a route with an id in its path admits that
  for each id (`BurstIsBounded`);
- a second logout with one token is refused by the check of the token before it
  reaches the idempotent upsert; the unit tests expect the refusal, the docstring
  of `revoke_token` says otherwise;
- the module docstring of `ledger_service.py` says that the counter counts debit
  attempts; it counts committed debits (`CounterCountsDebits`);
- `read_transaction` is said to help a client that lost a response, but needs the
  transaction's id, which only the lost response carries;
- a destination of `create_transaction` may be a SYSTEM account, while
  `TransactionKind.TRANSFER` is documented as being between two USER accounts;
- accounts with equal `created_at` have no defined order, so that a walk through
  the pages may miss one: the premise of `WalkMissesNothing`.

## Not modelled

- Of the rate limiter: the switch that turns it off, strings that combine several
  limits, and `swallow_errors` (a limiter that fails admits everything).
- Of the routes: `read_account` (it is the first read of `read_balance`), the shape
  of keys and other validation of fields, the freezing of accounts (it is in
  `LedgerService`, and to a route it is one more refusal). A client's walk through
  the pages asks each page after the one before.
- Signatures of tokens, and the cost of bcrypt.
- 64-bit overflow of `$sum`: amounts are bounded far below by the validators.
- Speed-only indexes, probes, formatting, logging. Configuration is read once; what
  it gives other modules are their constants.
- Rollback of data that was not majority-committed; sharding; clock skew.
- The lifting of a freeze. An operator may freeze and close accounts in
  `LedgerService`; documents have no version there, and one that was changed and
  changed back would not be noticed as changed by `WriteConflict`, as it would by
  the server.
- The opening transactions are in `Init` and not produced by `fund_account`; that
  route is `create_transfer` with a SYSTEM source, which the runs do exercise.

## Plan

Done: every component that changes state is modelled, and every safety property
of the passing runs is proved, with the refinement of `Ledger`.

What could follow: a refinement of the books of `Api` by `LedgerService`, so that the
answers a route relies on are those that the ledger's handler gives.
