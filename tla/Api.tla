-------------------------------- MODULE Api ---------------------------------
(***************************************************************************)
(* The routes that move or show money: app/routes/transactions.py and      *)
(* app/routes/accounts.py, with app/services/account_service.py.           *)
(*                                                                         *)
(* They stand on the books that module Ledger specifies: create_transfer   *)
(* is one of its Transfer steps, taken or refused, and its answer may be   *)
(* lost.  What a route adds are reads before and after it, each of them a  *)
(* step, between which other calls run.  Callers are authenticated         *)
(* (module Auth) and within their limits (module RateLimit).               *)
(***************************************************************************)
EXTENDS Integers, FiniteSetsExt

CONSTANTS
    Calls,         \* HTTP requests, a walk through the pages of a list counting as one
    Requests,      \* what they ask for
    Accounts,      \* bound: the accounts there can be
    AccountType, AccountCurrency, AccountOwner,
    OpeningFunds,  \* balance of each account that is open at the start
    Supported,     \* supported_currencies
    PageSize,      \* the limit with which clients list their accounts
    MaxPage,       \* MAX_PAGE_SIZE
    Horizon        \* bound: the last instant, 1 being the first

VARIABLES
    status, balance, settled,   \* the books of module Ledger
    now,
    created_at,                 \* account -> the timestamp of its document
    call, pc, answer,
    order,                      \* call -> the transfer it hands to the ledger
    stamp,                      \* call -> the timestamp of the account it opens
    offset,                     \* call -> the offset of the page it asks for next
    known,                      \* call -> what was there, or known to a client, when it was submitted
    shown                       \* call -> what it has been shown

Books == INSTANCE Ledger

books == <<status, balance, settled>>
local == <<order, stamp, offset, known, shown>>
vars  == <<books, now, created_at, call, pc, answer, local>>

NoKey   == "None"
NoCall  == [endpoint |-> "None", user |-> "None"]
NoOrder == [_id |-> "None"]
NoStamp == 0

ASSUME ApiAssumption ==
    /\ IsFiniteSet(Calls) /\ IsFiniteSet(Accounts)
    /\ DOMAIN OpeningFunds \subseteq Accounts
    /\ \A a \in DOMAIN OpeningFunds : OpeningFunds[a] \in Int /\ AccountCurrency[a] \in Supported
    /\ \A q \in Requests :
         q.endpoint \in {"open", "transfer", "fund", "read_transaction", "read_balance", "list"}
    /\ \A q \in Requests :
         q.endpoint \in {"transfer", "fund"} => q.amount_minor \in Nat \ {0}
    /\ MaxPage \in Nat /\ PageSize \in 1 .. MaxPage /\ Horizon \in Nat \ {0}

Init ==
    /\ status = [a \in DOMAIN OpeningFunds |-> "ACTIVE"]
    /\ balance = [a \in Accounts |-> IF a \in DOMAIN OpeningFunds THEN OpeningFunds[a] ELSE 0]
    /\ settled = {}
    /\ now = 1
    /\ created_at = [a \in DOMAIN OpeningFunds |-> 0]
    /\ call = [c \in Calls |-> NoCall]
    /\ pc = [c \in Calls |-> "idle"]
    /\ answer = [c \in Calls |-> "NONE"]
    /\ order = [c \in Calls |-> NoOrder]
    /\ stamp = [c \in Calls |-> NoStamp]
    /\ offset = [c \in Calls |-> 0]
    /\ known = [c \in Calls |-> {}]
    /\ shown = [c \in Calls |-> {}]

-----------------------------------------------------------------------------
(* How a call goes on. *)

Goto(c, label) == pc' = [pc EXCEPT ![c] = label] /\ UNCHANGED answer

Answer(c, code) ==
    /\ pc' = [pc EXCEPT ![c] = "answered"]
    /\ answer' = [answer EXCEPT ![c] = code]

FirstStep(endpoint) ==
    CASE endpoint = "open"             -> "check_currency"
      [] endpoint = "transfer"         -> "read_source"
      [] endpoint = "read_transaction" -> "find_transaction"
      [] endpoint = "list"             -> "read_page"
      [] endpoint \in {"fund", "read_balance"} -> "find_owned"

\* require_idempotency_key.
LacksKey(q) == q.endpoint \in {"transfer", "fund"} /\ q.idempotency_key = NoKey

Owned(user) == {a \in DOMAIN status : AccountOwner[a] = user}

Touching(a) == {t \in settled : a \in {t.source_account_id, t.destination_account_id}}

Payment(c) == call[c].endpoint \in {"transfer", "fund"}

\* The transfers that some client has been told took effect.
Confirmed ==
    {t \in settled : \E d \in Calls :
        /\ Payment(d)
        /\ call[d].idempotency_key = t.idempotency_key
        /\ answer[d] \in {"CREATED", "DUPLICATE_SUBMISSION"}}

\* The transfers that some client's balance has counted.
Counted ==
    UNION {shown[d] : d \in {d \in Calls : call[d].endpoint = "read_balance" /\ answer[d] = "OK"}}

Submit(c) ==
    /\ pc[c] = "idle"
    /\ \E q \in Requests :
         /\ call' = [call EXCEPT ![c] = q]
         /\ known' = [known EXCEPT ![c] =
                        CASE q.endpoint = "list" -> Owned(q.user)
                          [] q.endpoint = "read_transaction" -> Confirmed
                          [] q.endpoint = "read_balance" -> Confirmed \cup Counted
                          [] OTHER -> {}]
         /\ \/ LacksKey(q) /\ Answer(c, "IDEMPOTENCY_KEY_REQUIRED")
            \/ ~LacksKey(q) /\ Goto(c, FirstStep(q.endpoint))
    /\ UNCHANGED <<books, now, created_at, order, stamp, offset, shown>>

-----------------------------------------------------------------------------
(* create_account. *)

\* Fault: any currency will do.
CheckNoCurrency(c) ==
    /\ pc[c] = "check_currency"
    /\ stamp' = [stamp EXCEPT ![c] = now]
    /\ Goto(c, "insert_account")
    /\ UNCHANGED <<books, now, created_at, call, order, offset, known, shown>>

\* The document gets its timestamp before it is inserted.
CheckCurrency(c) ==
    /\ pc[c] = "check_currency"
    /\ \/ /\ call[c].currency \in Supported
          /\ stamp' = [stamp EXCEPT ![c] = now]
          /\ Goto(c, "insert_account")
       \/ /\ call[c].currency \notin Supported
          /\ Answer(c, "UNSUPPORTED_CURRENCY")
          /\ UNCHANGED stamp
    /\ UNCHANGED <<books, now, created_at, call, order, offset, known, shown>>

InsertAccount(c) ==
    /\ pc[c] = "insert_account"
    /\ \E a \in Accounts \ DOMAIN status :
         /\ AccountType[a] = "USER"
         /\ AccountOwner[a] = call[c].user
         /\ AccountCurrency[a] = call[c].currency
         /\ Books!Open(a)
         /\ created_at' = [b \in DOMAIN created_at \cup {a} |->
                             IF b = a THEN stamp[c] ELSE created_at[b]]
    /\ Answer(c, "CREATED")
    /\ UNCHANGED <<now, call, local>>

-----------------------------------------------------------------------------
(* create_transaction and fund_account, up to the ledger. *)

Order(c, kind, source, destination) ==
    [_id |-> c, kind |-> kind, submitted_by |-> call[c].user,
     idempotency_key |-> call[c].idempotency_key,
     source_account_id |-> source, destination_account_id |-> destination,
     amount_minor |-> call[c].amount_minor, currency |-> call[c].currency]

\* Fault: the source must exist, whoever owns it.
ReadSourceOfAnyone(c) ==
    LET source == call[c].source_account_id
    IN  /\ pc[c] = "read_source"
        /\ \/ source \notin DOMAIN status /\ Answer(c, "ACCOUNT_NOT_FOUND")
           \/ source \in DOMAIN status /\ Goto(c, "read_destination")
        /\ UNCHANGED <<books, now, created_at, call, local>>

\* get_account_or_raise, and the ownership of the source.
ReadSource(c) ==
    LET source == call[c].source_account_id
    IN  /\ pc[c] = "read_source"
        /\ \/ source \notin DOMAIN status /\ Answer(c, "ACCOUNT_NOT_FOUND")
           \/ source \in DOMAIN status \ Owned(call[c].user) /\ Answer(c, "FORBIDDEN")
           \/ source \in Owned(call[c].user) /\ Goto(c, "read_destination")
        /\ UNCHANGED <<books, now, created_at, call, local>>

ReadDestination(c) ==
    LET source      == call[c].source_account_id
        destination == call[c].destination_account_id
    IN  /\ pc[c] = "read_destination"
        /\ \/ /\ destination \notin DOMAIN status
              /\ Answer(c, "ACCOUNT_NOT_FOUND")
              /\ UNCHANGED order
           \/ /\ destination \in DOMAIN status
              /\ order' = [order EXCEPT ![c] = Order(c, "TRANSFER", source, destination)]
              /\ Goto(c, "settle")
        /\ UNCHANGED <<books, now, created_at, call, stamp, offset, known, shown>>

\* Fault: no readPreference="primary"; balances come from a secondary that lags.
FindOwnedOnSecondary(c) ==
    /\ pc[c] = "find_owned"
    /\ \/ /\ call[c].account_id \notin Owned(call[c].user)
          /\ Answer(c, "ACCOUNT_NOT_FOUND")
          /\ UNCHANGED shown
       \/ /\ call[c].account_id \in Owned(call[c].user)
          /\ call[c].endpoint = "fund"
          /\ Goto(c, "find_boundary")
          /\ UNCHANGED shown
       \/ /\ call[c].account_id \in Owned(call[c].user)
          /\ call[c].endpoint = "read_balance"
          /\ \E replicated \in SUBSET Touching(call[c].account_id) :
               shown' = [shown EXCEPT ![c] = replicated]
          /\ Goto(c, "aggregate")
    /\ UNCHANGED <<books, now, created_at, call, order, stamp, offset, known>>

\* get_owned_account_or_raise, for a funding or for a balance; the aggregation
\* of a balance, on the primary, then begins on what is settled.
FindOwned(c) ==
    /\ pc[c] = "find_owned"
    /\ \/ /\ call[c].account_id \notin Owned(call[c].user)
          /\ Answer(c, "ACCOUNT_NOT_FOUND")
          /\ UNCHANGED shown
       \/ /\ call[c].account_id \in Owned(call[c].user)
          /\ call[c].endpoint = "fund"
          /\ Goto(c, "find_boundary")
          /\ UNCHANGED shown
       \/ /\ call[c].account_id \in Owned(call[c].user)
          /\ call[c].endpoint = "read_balance"
          /\ shown' = [shown EXCEPT ![c] = Touching(call[c].account_id)]
          /\ Goto(c, "aggregate")
    /\ UNCHANGED <<books, now, created_at, call, order, stamp, offset, known>>

\* get_system_account, by the currency of the request.
FindBoundary(c) ==
    LET boundary == {a \in DOMAIN status : AccountType[a] = "SYSTEM" /\
                                           AccountCurrency[a] = call[c].currency}
    IN  /\ pc[c] = "find_boundary"
        /\ \/ /\ boundary = {}
              /\ Answer(c, "UNSUPPORTED_CURRENCY")
              /\ UNCHANGED order
           \/ \E b \in boundary :
                /\ order' = [order EXCEPT ![c] = Order(c, "FUNDING", b, call[c].account_id)]
                /\ Goto(c, "settle")
        /\ UNCHANGED <<books, now, created_at, call, stamp, offset, known, shown>>

-----------------------------------------------------------------------------
(* What create_transfer may do: see LedgerService, of which this is the     *)
(* part that a route can tell.                                              *)

\* The transfer takes effect.  The commit of a call whose outcome is unknown may
\* still be applied.
Settle(c) ==
    /\ pc[c] \in {"settle", "unknown"}
    /\ Books!Transfer(order[c])
    /\ Goto(c, IF pc[c] = "settle" THEN "settled" ELSE "answered")
    /\ UNCHANGED <<now, created_at, call, local>>

Reply(c) ==
    /\ pc[c] = "settled"
    /\ Answer(c, "CREATED")
    /\ UNCHANGED <<books, now, created_at, call, local>>

\* Fault: a key is taken as soon as another call hands it to the ledger.
DuplicateInFlight(c) ==
    /\ pc[c] = "settle"
    /\ \E d \in Calls \ {c} : order[d] # NoOrder /\ order[d].idempotency_key = order[c].idempotency_key
    /\ Answer(c, "DUPLICATE_SUBMISSION")
    /\ UNCHANGED <<books, now, created_at, call, local>>

\* The key is committed, by whichever call.
Duplicate(c) ==
    /\ pc[c] = "settle"
    /\ \E t \in settled : t.idempotency_key = order[c].idempotency_key
    /\ Answer(c, "DUPLICATE_SUBMISSION")
    /\ UNCHANGED <<books, now, created_at, call, local>>

\* One of its other refusals, of which each can also be due to a stale snapshot
\* or, WRITE_CONFLICT, to contention.
Refuse(c) ==
    /\ pc[c] = "settle"
    /\ Answer(c, "REFUSED")
    /\ UNCHANGED <<books, now, created_at, call, local>>

\* Fault: an unknown outcome is reported as a conflict.
LoseTrackAsConflict(c) ==
    /\ pc[c] \in {"settle", "settled"}
    /\ pc' = [pc EXCEPT ![c] = IF @ = "settle" THEN "unknown" ELSE "answered"]
    /\ answer' = [answer EXCEPT ![c] = "REFUSED"]
    /\ UNCHANGED <<books, now, created_at, call, local>>

\* The deadline passes when the commit has been sent and not acknowledged.
LoseTrack(c) ==
    /\ pc[c] \in {"settle", "settled"}
    /\ pc' = [pc EXCEPT ![c] = IF @ = "settle" THEN "unknown" ELSE "answered"]
    /\ answer' = [answer EXCEPT ![c] = "INTERNAL_ERROR"]
    /\ UNCHANGED <<books, now, created_at, call, local>>

-----------------------------------------------------------------------------
(* read_transaction, read_balance, list_accounts. *)

\* Fault: no order is asked for.
AnyFirst(accounts, k) ==
    {Q \in SUBSET accounts : Cardinality(Q) = Min({k, Cardinality(accounts)})}

\* The k oldest of some accounts; nothing says in which order the database
\* sorts equal timestamps, and it may be another one each time.
Oldest(accounts, k) ==
    {Q \in SUBSET accounts :
        /\ Cardinality(Q) = Min({k, Cardinality(accounts)})
        /\ \A a \in Q, b \in accounts \ Q : created_at[a] <= created_at[b]}

\* list_accounts_for_owner: oldest first, skip, limit.
Pages(user, skip, limit) ==
    UNION {{Q \ P : Q \in {R \in Oldest(Owned(user), skip + limit) : P \subseteq R}} :
              P \in Oldest(Owned(user), skip)}

\* ledger_service.get_transaction.
FindTransaction(c) ==
    LET found == {t \in settled : t._id = call[c].transaction_id}
    IN  /\ pc[c] = "find_transaction"
        /\ \/ found = {} /\ Answer(c, "TRANSACTION_NOT_FOUND") /\ UNCHANGED shown
           \/ /\ found # {}
              /\ shown' = [shown EXCEPT ![c] = found]
              /\ Goto(c, "list_owned")
        /\ UNCHANGED <<books, now, created_at, call, order, stamp, offset, known>>

\* Fault: only the payer counts as a party.
PayerInvolved(t) == {t.source_account_id}

Involved(t) == {t.source_account_id, t.destination_account_id}

\* It is shown if one of the caller's first MaxPage accounts is involved.
ListOwned(c) ==
    /\ pc[c] = "list_owned"
    /\ \E page \in Pages(call[c].user, 0, MaxPage) :
         IF \E t \in shown[c] : page \cap Involved(t) # {}
         THEN Answer(c, "OK")
         ELSE Answer(c, "TRANSACTION_NOT_FOUND")
    /\ UNCHANGED <<books, now, created_at, call, local>>

\* The aggregation is not in a transaction: of what is settled while it runs,
\* it sees some and not other.
Aggregate(c) ==
    /\ pc[c] = "aggregate"
    /\ \E seen \in SUBSET (Touching(call[c].account_id) \ shown[c]) :
         shown' = [shown EXCEPT ![c] = @ \cup seen]
    /\ Answer(c, "OK")
    /\ UNCHANGED <<books, now, created_at, call, order, stamp, offset, known>>

\* A client asks for page after page, until one is not full.
ReadPage(c) ==
    /\ pc[c] = "read_page"
    /\ \E page \in Pages(call[c].user, offset[c], PageSize) :
         /\ shown' = [shown EXCEPT ![c] = @ \cup page]
         /\ offset' = [offset EXCEPT ![c] = @ + Cardinality(page)]
         /\ IF Cardinality(page) < PageSize THEN Answer(c, "OK") ELSE Goto(c, "read_page")
    /\ UNCHANGED <<books, now, created_at, call, order, stamp, known>>

-----------------------------------------------------------------------------
Tick ==
    /\ now < Horizon
    /\ now' = now + 1
    /\ UNCHANGED <<books, created_at, call, pc, answer, local>>

\* The process dies, or the client does not get the answer.  A commit that was
\* sent may still be applied.
Die(c) ==
    /\ pc[c] \notin {"idle", "answered", "unknown"}
    /\ Goto(c, IF pc[c] = "settle" THEN "unknown" ELSE "answered")
    /\ UNCHANGED <<books, now, created_at, call, local>>

Handler(c) ==
    \/ CheckCurrency(c) \/ InsertAccount(c)
    \/ ReadSource(c) \/ ReadDestination(c) \/ FindOwned(c) \/ FindBoundary(c)
    \/ Settle(c) \/ Reply(c) \/ Duplicate(c) \/ Refuse(c) \/ LoseTrack(c)
    \/ FindTransaction(c) \/ ListOwned(c) \/ Aggregate(c) \/ ReadPage(c)

Next == Tick \/ \E c \in Calls : Submit(c) \/ Handler(c) \/ Die(c)

Spec == Init /\ [][Next]_vars

-----------------------------------------------------------------------------
(* What a client may rely on. *)

SubmissionsOf(k) == {c \in Calls : Payment(c) /\ call[c].idempotency_key = k}

Refusals == {"IDEMPOTENCY_KEY_REQUIRED", "FORBIDDEN", "ACCOUNT_NOT_FOUND",
             "UNSUPPORTED_CURRENCY", "REFUSED"}
Answers  == Refusals \cup {"NONE", "OK", "CREATED", "DUPLICATE_SUBMISSION", "INTERNAL_ERROR",
                           "TRANSACTION_NOT_FOUND"}

\* The transfers that the owner of account a has asked to be taken from it.
Spending(a) ==
    {c \in Calls : /\ call[c].endpoint = "transfer"
                   /\ call[c].source_account_id = a
                   /\ call[c].user = AccountOwner[a]}

\* Each key counts once, for the most that was asked under it.
MostAsked(a) ==
    [k \in {call[c].idempotency_key : c \in Spending(a)} |->
        Max({call[c].amount_minor : c \in {d \in Spending(a) : call[d].idempotency_key = k}})]

AskedFrom(a) == MapThenSumSet(LAMBDA k : MostAsked(a)[k], DOMAIN MostAsked(a))

Opening(a) == IF a \in DOMAIN OpeningFunds THEN OpeningFunds[a] ELSE 0

Amounts(transfers) == MapThenSumSet(LAMBDA t : t.amount_minor, transfers)

\* compute_balance over the entries of some transfers.
BalanceFrom(a, transfers) ==
    Opening(a) + Amounts({t \in transfers : t.destination_account_id = a})
               - Amounts({t \in transfers : t.source_account_id = a})

Labels == {"idle", "check_currency", "insert_account", "read_source", "read_destination",
           "find_owned", "find_boundary", "settle", "settled", "unknown",
           "find_transaction", "list_owned", "aggregate", "read_page", "answered"}

\* Calls hold what they should, and an account is neither from the future nor in
\* a currency without books.
TypeOK ==
    /\ now \in Nat
    /\ DOMAIN status \subseteq Accounts
    /\ created_at \in [DOMAIN status -> 0 .. now]
    /\ \A a \in DOMAIN status : AccountCurrency[a] \in Supported
    /\ call \in [Calls -> Requests \cup {NoCall}]
    /\ pc \in [Calls -> Labels]
    /\ answer \in [Calls -> Answers]
    /\ stamp \in [Calls -> 0 .. now]
    /\ DOMAIN order = Calls
    /\ \A t \in settled : t._id \in Calls

\* "The caller must own the source account": an account of a user loses no more
\* than its owner's own transfers explain, counting a key that was sent several
\* times once, whoever else sends what; and no balance says otherwise, whichever
\* of the transfers that settle meanwhile it counts.
SpendsOnlyWhatWasAsked ==
    \A a \in DOMAIN status : AccountType[a] = "USER" =>
        /\ balance[a] >= Opening(a) - AskedFrom(a)
        /\ \A c \in Calls :
             call[c].endpoint = "read_balance" /\ answer[c] = "OK" /\ call[c].account_id = a =>
                 BalanceFrom(a, shown[c]) >= Opening(a) - AskedFrom(a)

\* What the balance of call c must count, and may.
CountsKnown(c) ==
    LET touching == Touching(call[c].account_id)
    IN  known[c] \cap touching \subseteq shown[c] /\ shown[c] \subseteq touching

\* read_balance sums outside any transaction, while transfers commit: it may count
\* a later one and miss an earlier one.  But it counts every transfer of the
\* account that a client knew of before it asked, from a payment's answer or from
\* another balance, so that no balance goes back behind these; and none that has
\* not taken effect.
BalanceIsNotBehind ==
    \A c \in Calls : call[c].endpoint = "read_balance" /\ answer[c] = "OK" => CountsKnown(c)

IsAnswerTo(t, q) ==
    /\ t.submitted_by = q.user
    /\ t.amount_minor = q.amount_minor /\ t.currency = q.currency
    /\ IF q.endpoint = "transfer"
       THEN /\ t.kind = "TRANSFER"
            /\ t.source_account_id = q.source_account_id
            /\ t.destination_account_id = q.destination_account_id
       ELSE /\ t.kind = "FUNDING"
            /\ AccountType[t.source_account_id] = "SYSTEM"
            /\ t.destination_account_id = q.account_id

\* A client that resends one request under one key until it hears CREATED or
\* DUPLICATE_SUBMISSION has then been served exactly once, as it asked, whatever
\* became of the answers before.
ResendingIsSafe ==
    \A c \in Calls :
        /\ Payment(c) /\ answer[c] \in {"CREATED", "DUPLICATE_SUBMISSION"}
        /\ \A d \in SubmissionsOf(call[c].idempotency_key) : call[d] = call[c]
        => LET done == {t \in settled : t.idempotency_key = call[c].idempotency_key}
           IN  Cardinality(done) = 1 /\ \A t \in done : IsAnswerTo(t, call[c])

\* A client whose every submission of a key was refused may give the money to
\* someone else: none of them takes effect later.
RefusedIsFinal ==
    \A c \in Calls :
        Payment(c) /\ (\A d \in SubmissionsOf(call[c].idempotency_key) : answer[d] \in Refusals)
        => \A t \in settled : t.idempotency_key # call[c].idempotency_key

\* What each step of a call stands on.
StepInv(c) ==
    /\ pc[c] \in {"check_currency", "insert_account"} => call[c].endpoint = "open"
    /\ pc[c] = "insert_account" => call[c].currency \in Supported
    /\ pc[c] \in {"read_source", "read_destination"} => call[c].endpoint = "transfer"
    /\ pc[c] = "find_boundary" => call[c].endpoint = "fund"
    /\ pc[c] \notin {"unknown", "answered"} => answer[c] = "NONE"
    /\ pc[c] = "unknown" => answer[c] \in {"NONE", "INTERNAL_ERROR"}

OrderOf(t, c) ==
    /\ t._id = c /\ Payment(c)
    /\ t.idempotency_key = call[c].idempotency_key
    /\ IsAnswerTo(t, call[c])

\* The ledger is handed what was asked for.
OrderInv(c) == pc[c] \in {"settle", "unknown", "settled"} => OrderOf(order[c], c)

\* What is settled was asked for, by a call that was not refused.
SettledInv(c) ==
    \A t \in settled : t._id = c =>
        /\ OrderOf(t, c)
        /\ pc[c] \in {"settled", "answered"} /\ answer[c] \notin Refusals

\* What is confirmed is settled.
ConfirmedInv(c) ==
    /\ pc[c] = "settled" => order[c] \in settled
    /\ Payment(c) /\ answer[c] \in {"CREATED", "DUPLICATE_SUBMISSION"} =>
           \E t \in settled : t.idempotency_key = call[c].idempotency_key

CallInv(c) == StepInv(c) /\ OrderInv(c) /\ SettledInv(c) /\ ConfirmedInv(c)

KeyInv == \A s, t \in settled : s.idempotency_key = t.idempotency_key => s = t

\* Why resending is safe and a refusal is final.
IInv == TypeOK /\ KeyInv /\ \A c \in Calls : CallInv(c)

Party(user, t) ==
    AccountOwner[t.source_account_id] = user \/ AccountOwner[t.destination_account_id] = user

\* A confirmed transaction that the caller asks for.
AskedFor(c) == {t \in known[c] : t._id = call[c].transaction_id}

\* An OK shows a party's transaction; a party is told that it is not there only if
\* it was not confirmed, or has more accounts than fit in a page.
ShownToParties(c) ==
    /\ answer[c] = "OK" => \A t \in shown[c] : Party(call[c].user, t)
    /\ answer[c] = "TRANSACTION_NOT_FOUND" /\ Cardinality(Owned(call[c].user)) <= MaxPage =>
           \A t \in AskedFor(c) : ~Party(call[c].user, t)

\* read_transaction: a transaction is shown to its parties only, and to each of
\* them that owns no more accounts than fit in a page, even while it opens more.
PartiesRead ==
    \A c \in Calls : call[c].endpoint = "read_transaction" => ShownToParties(c)

\* The docstring of read_transaction: "Visible to the owner of either account
\* involved".
PartyIsShownTransaction ==
    \A c \in Calls :
        call[c].endpoint = "read_transaction" /\ answer[c] = "TRANSACTION_NOT_FOUND" =>
            \A t \in AskedFor(c) : ~Party(call[c].user, t)

\* No two accounts of the user have the same timestamp.
TellsApart(user) == \A a, b \in Owned(user) : created_at[a] = created_at[b] => a = b

\* list_accounts, page after page while accounts are being opened, some of them
\* with an older timestamp than others that are already there: whoever reads
\* to the end has seen every account they had when they began, and nobody
\* else's, provided that no two of them have the same timestamp.
WalkMissesNothing ==
    \A c \in Calls : call[c].endpoint = "list" /\ answer[c] = "OK" =>
        /\ shown[c] \subseteq Owned(call[c].user)
        /\ TellsApart(call[c].user) => known[c] \subseteq shown[c]

-----------------------------------------------------------------------------
(* Why: the rest of the inductive invariant. *)

\* The balances are those that the settled transfers make, and accounts stay.
MoneyInv ==
    /\ IsFiniteSet(settled) /\ balance \in [Accounts -> Int]
    /\ \A a \in Accounts : balance[a] = BalanceFrom(a, settled)
    /\ \A t \in settled : Involved(t) \subseteq DOMAIN status

\* The types of what only reads use.
LocalType ==
    offset \in [Calls -> Nat] /\ DOMAIN known = Calls /\ DOMAIN shown = Calls

\* Whoever has a transfer settled, or is about to, owns its source.
OwnerInv(c) ==
    /\ call[c].endpoint = "transfer"
    /\ \/ pc[c] \in {"read_destination", "settle", "settled", "unknown"}
       \/ \E t \in settled : t._id = c
    => AccountOwner[call[c].source_account_id] = call[c].user

\* Reads begin with nothing, and what they find is there to stay.
ReadInv(c) ==
    /\ pc[c] = "idle" => shown[c] = {} /\ offset[c] = 0
    /\ pc[c] \in {"find_transaction", "list_owned"} => call[c].endpoint = "read_transaction"
    /\ pc[c] = "aggregate" => call[c].endpoint = "read_balance"
    /\ pc[c] = "read_page" => call[c].endpoint = "list"
    /\ call[c].endpoint \in {"read_transaction", "read_balance"} =>
           shown[c] \cup known[c] \subseteq settled
    /\ call[c].endpoint = "read_balance" /\ (pc[c] = "aggregate" \/ answer[c] = "OK") =>
           CountsKnown(c)

LookupInv(c) ==
    call[c].endpoint = "read_transaction" =>
        /\ ShownToParties(c)
        /\ \A t \in shown[c] : t._id = call[c].transaction_id
        /\ pc[c] = "list_owned" => shown[c] # {}

\* The accounts of a user that are older than a.
Older(user, a) == {b \in Owned(user) : created_at[b] < created_at[a]}

\* The offset has not gone past an account that was there from the beginning:
\* it was shown, or as many accounts as were skipped are older.
WalkInv(c) ==
    call[c].endpoint = "list" =>
        /\ known[c] \cup shown[c] \subseteq Owned(call[c].user)
        /\ TellsApart(call[c].user) =>
             /\ answer[c] = "OK" => known[c] \subseteq shown[c]
             /\ pc[c] = "read_page" =>
                  \A a \in known[c] \ shown[c] :
                      Cardinality(Older(call[c].user, a)) >= offset[c]

\* What every answer stands on: the inductive invariant.
RoutesInv ==
    /\ IInv /\ MoneyInv /\ LocalType
    /\ \A c \in Calls : OwnerInv(c) /\ ReadInv(c) /\ LookupInv(c) /\ WalkInv(c)

=============================================================================
