----------------------------- MODULE ApiProofs ------------------------------
(***************************************************************************)
(* What the answers of the routes are worth, for any number of calls,      *)
(* accounts and keys: first the answers to a payment (IInv), then what the *)
(* reads show (ReadsInv), then whose money moves (MoneyInv, OwnerInv).     *)
(***************************************************************************)
EXTENDS Api, SumsProofs

\* Every call begins at a step of its endpoint.
LEMMA FirstSteps ==
    ASSUME NEW q \in Requests
    PROVE  /\ FirstStep(q.endpoint) \in Labels \ {"idle", "answered", "unknown", "settle", "settled",
                                                  "insert_account", "read_destination", "find_boundary"}
           /\ FirstStep(q.endpoint) = "check_currency" => q.endpoint = "open"
           /\ FirstStep(q.endpoint) = "read_source" => q.endpoint = "transfer"
BY ApiAssumption DEF FirstStep, Labels

\* Types hold at the start.
LEMMA InitType == Init => TypeOK
BY ApiAssumption DEF Init, TypeOK, Labels, Answers, Refusals, NoStamp

\* The invariant holds at the start.
LEMMA InitIInv == Init => IInv
<1> SUFFICES ASSUME Init PROVE IInv
    OBVIOUS
<1>1. KeyInv /\ \A c \in Calls : CallInv(c)
    BY DEF Init, KeyInv, CallInv, StepInv, OrderInv, SettledInv, ConfirmedInv
<1> QED
    BY <1>1, InitType DEF IInv

\* What a step of one call changes: where it is, what it was answered, and what
\* it orders; and it settles nothing but its own order.
StepOf(c) ==
    /\ \A d \in Calls \ {c} : /\ pc'[d] = pc[d] /\ answer'[d] = answer[d]
                              /\ order'[d] = order[d] /\ call'[d] = call[d]
    /\ settled \subseteq settled'
    /\ \A t \in settled' \ settled : t._id = c

\* The other calls keep their invariant.
LEMMA OthersKeep ==
    ASSUME NEW c \in Calls, NEW d \in Calls \ {c}, StepOf(c), CallInv(d)
    PROVE  CallInv(d)'
<1>1. Payment(d)' = Payment(d) /\ (\A t : OrderOf(t, d)' = OrderOf(t, d))
    BY DEF StepOf, Payment, OrderOf, IsAnswerTo
<1>2. StepInv(d)'
    BY DEF StepOf, CallInv, StepInv
<1>3. OrderInv(d)'
    BY <1>1 DEF StepOf, CallInv, OrderInv
<1>4. SettledInv(d)'
    BY <1>1 DEF StepOf, CallInv, SettledInv
<1>5. ConfirmedInv(d)'
    BY <1>1 DEF StepOf, CallInv, ConfirmedInv
<1> QED
    BY <1>2, <1>3, <1>4, <1>5 DEF CallInv

\* A step of one call keeps the invariant if it does so for that call.
LEMMA OneCallSteps ==
    ASSUME NEW c \in Calls, IInv, StepOf(c), TypeOK', KeyInv', CallInv(c)'
    PROVE  IInv'
BY OthersKeep DEF IInv

\* A step that settles nothing, orders nothing and leaves the clock and the
\* accounts alone.
Quiet(c) ==
    /\ UNCHANGED <<books, now, created_at, call, order>>
    /\ \E label \in Labels, code \in Answers :
         /\ pc' = [pc EXCEPT ![c] = label]
         /\ answer' = [answer EXCEPT ![c] = code]

\* It keeps the types if it keeps those of the timestamps.
LEMMA QuietType ==
    ASSUME NEW c \in Calls, TypeOK, Quiet(c), stamp' \in [Calls -> 0 .. now]
    PROVE  TypeOK' /\ StepOf(c)
<1>1. UNCHANGED <<status, settled, now, created_at, call, order>>
    BY DEF Quiet, books
<1>2. PICK label \in Labels, code \in Answers :
         pc' = [pc EXCEPT ![c] = label] /\ answer' = [answer EXCEPT ![c] = code]
    BY DEF Quiet
<1>3. pc' \in [Calls -> Labels] /\ answer' \in [Calls -> Answers]
    BY <1>2 DEF TypeOK
<1>4. TypeOK'
    BY <1>1, <1>3 DEF TypeOK
<1>5. StepOf(c)
    BY <1>1, <1>2 DEF TypeOK, StepOf
<1> QED
    BY <1>4, <1>5

\* Before it hands anything to the ledger, a call has nothing settled, and it may
\* go on to any step that stands on what it knows, or give any answer.
LEMMA QuietEarly ==
    ASSUME NEW c \in Calls, IInv, Quiet(c), stamp' \in [Calls -> 0 .. now],
           pc[c] \notin {"settle", "settled", "unknown", "answered"},
           pc'[c] \notin {"settle", "settled", "unknown"},
           StepInv(c)',
           Payment(c) => answer'[c] \notin {"CREATED", "DUPLICATE_SUBMISSION"}
    PROVE  IInv'
<1>1. TypeOK' /\ StepOf(c)
    BY QuietType DEF IInv
<1>2. settled' = settled /\ call' = call /\ order' = order
    BY DEF Quiet, books
<1>3. KeyInv'
    BY <1>2 DEF IInv, KeyInv
<1>4. SettledInv(c)'
    BY <1>2 DEF IInv, CallInv, SettledInv
<1>5. OrderInv(c)' /\ ConfirmedInv(c)'
    BY <1>2 DEF OrderInv, ConfirmedInv, Payment
<1> QED
    BY <1>1, <1>3, <1>4, <1>5, OneCallSteps DEF CallInv

\* Once it has handed its order to the ledger, it keeps the order.
LEMMA QuietLate ==
    ASSUME NEW c \in Calls, IInv, Quiet(c), UNCHANGED stamp,
           pc[c] \in {"settle", "settled"},
           pc'[c] \in {"unknown", "answered"}, StepInv(c)',
           pc[c] = "settled" => pc'[c] = "answered" /\ answer'[c] \notin Refusals,
           answer'[c] \in {"CREATED", "DUPLICATE_SUBMISSION"} =>
               \E t \in settled : t.idempotency_key = call[c].idempotency_key
    PROVE  IInv'
<1>1. TypeOK' /\ StepOf(c)
  <2>1. stamp' \in [Calls -> 0 .. now]
    BY DEF IInv, TypeOK
  <2> QED
    BY <2>1, QuietType DEF IInv
<1>2. settled' = settled /\ call' = call /\ order' = order
    BY DEF Quiet, books
<1>3. KeyInv'
    BY <1>2 DEF IInv, KeyInv
<1>4. Payment(c)' = Payment(c) /\ (\A t : OrderOf(t, c)' = OrderOf(t, c))
    BY <1>2 DEF Payment, OrderOf, IsAnswerTo
<1>5. SettledInv(c)'
    BY <1>2, <1>4 DEF IInv, CallInv, SettledInv
<1>6. OrderInv(c)'
    BY <1>2, <1>4 DEF IInv, CallInv, OrderInv
<1>7. ConfirmedInv(c)'
    BY <1>2 DEF ConfirmedInv
<1> QED
    BY <1>1, <1>3, <1>5, <1>6, <1>7, OneCallSteps DEF CallInv

\* A call that has read what it needs hands its order to the ledger.
LEMMA Ordering ==
    ASSUME NEW c \in Calls, NEW kind, NEW source, NEW destination, IInv,
           pc[c] \in {"read_destination", "find_boundary"},
           order' = [order EXCEPT ![c] = Order(c, kind, source, destination)],
           Goto(c, "settle"),
           UNCHANGED <<books, now, created_at, call, stamp>>,
           IsAnswerTo(Order(c, kind, source, destination), call[c])
    PROVE  IInv'
<1>1. Payment(c) /\ answer[c] = "NONE"
    BY DEF IInv, CallInv, StepInv, Payment
<1>2. pc' = [pc EXCEPT ![c] = "settle"] /\ answer' = answer /\ settled' = settled /\ call' = call
    BY DEF Goto, books
<1>3. TypeOK' /\ StepOf(c)
    BY <1>2 DEF IInv, TypeOK, StepOf, Labels, books
<1>4. KeyInv'
    BY <1>2 DEF IInv, KeyInv
<1>5. pc'[c] = "settle" /\ order'[c] = Order(c, kind, source, destination)
    BY <1>2 DEF IInv, TypeOK
<1>6. OrderInv(c)'
    BY <1>1, <1>2, <1>5 DEF OrderInv, OrderOf, Order, Payment, IsAnswerTo
<1>7. StepInv(c)' /\ SettledInv(c)' /\ ConfirmedInv(c)'
    BY <1>1, <1>2, <1>5 DEF IInv, CallInv, StepInv, SettledInv, ConfirmedInv
<1> QED
    BY <1>3, <1>4, <1>6, <1>7, OneCallSteps DEF CallInv

\* The transfer takes effect: the key was nobody's, and the order was the call's.
LEMMA Settling ==
    ASSUME NEW c \in Calls, IInv, Settle(c)
    PROVE  IInv'
<1> DEFINE t == order[c]
<1>1. settled' = settled \cup {t} /\ status' = status
         /\ \A s \in settled : s.idempotency_key # t.idempotency_key
    BY DEF Settle, Books!Transfer
<1>2. /\ pc[c] \in {"settle", "unknown"} /\ answer' = answer
      /\ pc' = [pc EXCEPT ![c] = IF pc[c] = "settle" THEN "settled" ELSE "answered"]
      /\ UNCHANGED <<now, created_at, call, order, stamp>>
    BY DEF Settle, Goto, local
<1>3. OrderOf(t, c) /\ answer[c] \in {"NONE", "INTERNAL_ERROR"}
    BY <1>2 DEF IInv, CallInv, OrderInv, StepInv
<1>4. pc'[c] \in {"settled", "answered"} /\ pc' \in [Calls -> Labels]
    BY <1>2 DEF IInv, TypeOK, Labels
<1>5. TypeOK'
    BY <1>1, <1>2, <1>3, <1>4 DEF IInv, TypeOK, OrderOf
<1>6. StepOf(c)
    BY <1>1, <1>2, <1>3 DEF StepOf, OrderOf, IInv, TypeOK
<1>7. KeyInv'
    BY <1>1 DEF IInv, KeyInv
<1>8. Payment(c)' = Payment(c) /\ (\A s : OrderOf(s, c)' = OrderOf(s, c))
    BY <1>2 DEF Payment, OrderOf, IsAnswerTo
<1>9. StepInv(c)'
    BY <1>2, <1>3, <1>4 DEF IInv, CallInv, StepInv, TypeOK
<1>10. OrderInv(c)' /\ ConfirmedInv(c)'
    BY <1>1, <1>2, <1>3, <1>8 DEF OrderInv, ConfirmedInv
<1>11. SettledInv(c)'
  <2>1. answer[c] \notin Refusals
    BY <1>3 DEF Refusals
  <2> QED
    BY <1>1, <1>2, <1>3, <1>4, <1>8, <2>1 DEF IInv, CallInv, SettledInv
<1> QED
    BY <1>5, <1>6, <1>7, <1>9, <1>10, <1>11, OneCallSteps DEF CallInv

\* An account is opened, at the time the call was stamped with.
LEMMA Opened ==
    ASSUME NEW c \in Calls, IInv, InsertAccount(c)
    PROVE  IInv'
<1>1. PICK a \in Accounts \ DOMAIN status :
         /\ AccountCurrency[a] = call[c].currency
         /\ status' = [b \in DOMAIN status \cup {a} |-> IF b = a THEN "ACTIVE" ELSE status[b]]
         /\ created_at' = [b \in DOMAIN created_at \cup {a} |->
                             IF b = a THEN stamp[c] ELSE created_at[b]]
    BY DEF InsertAccount, Books!Open
<1>2. /\ pc[c] = "insert_account" /\ pc' = [pc EXCEPT ![c] = "answered"]
      /\ answer' = [answer EXCEPT ![c] = "CREATED"]
      /\ UNCHANGED <<settled, now, call, order, stamp>>
    BY DEF InsertAccount, Books!Open, Answer, local
<1>3. ~Payment(c) /\ call[c].currency \in Supported
    BY <1>2 DEF IInv, CallInv, StepInv, Payment
<1>4. TypeOK'
  <2>1. DOMAIN status' = DOMAIN status \cup {a} /\ created_at' \in [DOMAIN status' -> 0 .. now]
    BY <1>1 DEF IInv, TypeOK
  <2>2. pc' \in [Calls -> Labels] /\ answer' \in [Calls -> Answers]
    BY <1>2 DEF IInv, TypeOK, Labels, Answers
  <2> QED
    BY <1>1, <1>2, <1>3, <2>1, <2>2 DEF IInv, TypeOK
<1>5. StepOf(c)
    BY <1>2 DEF StepOf, IInv, TypeOK
<1>6. KeyInv'
    BY <1>2 DEF IInv, KeyInv
<1>7. pc'[c] = "answered" /\ answer'[c] = "CREATED" /\ ~Payment(c)'
    BY <1>2, <1>3 DEF IInv, TypeOK, Payment
<1>8. SettledInv(c)'
    BY <1>2 DEF IInv, CallInv, SettledInv
<1>9. StepInv(c)' /\ OrderInv(c)' /\ ConfirmedInv(c)'
    BY <1>7 DEF StepInv, OrderInv, ConfirmedInv
<1> QED
    BY <1>4, <1>5, <1>6, <1>8, <1>9, OneCallSteps DEF CallInv

\* A call is submitted.
LEMMA Submitted ==
    ASSUME NEW c \in Calls, IInv, Submit(c)
    PROVE  IInv'
<1>1. PICK q \in Requests :
         /\ call' = [call EXCEPT ![c] = q]
         /\ \/ /\ pc' = [pc EXCEPT ![c] = "answered"]
               /\ answer' = [answer EXCEPT ![c] = "IDEMPOTENCY_KEY_REQUIRED"]
            \/ pc' = [pc EXCEPT ![c] = FirstStep(q.endpoint)] /\ answer' = answer
    BY DEF Submit, Answer, Goto
<1>2. pc[c] = "idle" /\ answer[c] = "NONE" /\ \A t \in settled : t._id # c
    BY DEF Submit, IInv, CallInv, StepInv, SettledInv
<1>3. UNCHANGED <<status, settled, now, created_at, order, stamp>>
    BY DEF Submit, books
<1>4. call'[c] = q /\ \/ pc'[c] = "answered" /\ answer'[c] = "IDEMPOTENCY_KEY_REQUIRED"
                      \/ pc'[c] = FirstStep(q.endpoint) /\ answer'[c] = "NONE"
    BY <1>1, <1>2 DEF IInv, TypeOK
<1>5. TypeOK'
  <2>1. call' \in [Calls -> Requests \cup {NoCall}]
    BY <1>1 DEF IInv, TypeOK
  <2>2. pc' \in [Calls -> Labels] /\ answer' \in [Calls -> Answers]
    BY <1>1, FirstSteps DEF IInv, TypeOK, Labels, Answers, Refusals
  <2> QED
    BY <1>3, <2>1, <2>2 DEF IInv, TypeOK
<1>6. StepOf(c)
    BY <1>1, <1>3 DEF StepOf, IInv, TypeOK
<1>7. KeyInv'
    BY <1>3 DEF IInv, KeyInv
<1>8. StepInv(c)' /\ OrderInv(c)' /\ ConfirmedInv(c)'
    BY <1>4, FirstSteps DEF StepInv, OrderInv, ConfirmedInv
<1>9. SettledInv(c)'
    BY <1>2, <1>3 DEF SettledInv
<1> QED
    BY <1>5, <1>6, <1>7, <1>8, <1>9, OneCallSteps DEF CallInv

\* Going on to the next step is quiet, if nothing else happens.
LEMMA GoingOn ==
    ASSUME NEW c \in Calls, TypeOK, NEW label \in Labels, Goto(c, label),
           UNCHANGED <<books, now, created_at, call, order>>
    PROVE  Quiet(c) /\ pc'[c] = label /\ answer'[c] = answer[c]
<1>1. answer' = [answer EXCEPT ![c] = answer[c]] /\ answer[c] \in Answers
    BY DEF Goto, TypeOK
<1> QED
    BY <1>1 DEF Goto, Quiet, TypeOK

\* So is answering.
LEMMA Answering ==
    ASSUME NEW c \in Calls, TypeOK, NEW code \in Answers, Answer(c, code),
           UNCHANGED <<books, now, created_at, call, order>>
    PROVE  Quiet(c) /\ pc'[c] = "answered" /\ answer'[c] = code
BY DEF Answer, Quiet, TypeOK, Labels

\* The steps before the ledger, and those of the reads.
LEMMA Early ==
    ASSUME NEW c \in Calls, IInv,
           \/ CheckCurrency(c) \/ ReadSource(c) \/ FindOwned(c) \/ FindTransaction(c)
           \/ ListOwned(c) \/ Aggregate(c) \/ ReadPage(c)
    PROVE  IInv'
<1>1. /\ UNCHANGED <<books, now, created_at, call, order>>
      /\ pc[c] \notin {"settle", "settled", "unknown", "answered"}
      /\ stamp' \in [Calls -> 0 .. now]
    BY DEF CheckCurrency, ReadSource, FindOwned, FindTransaction, ListOwned, Aggregate, ReadPage,
       local, IInv, TypeOK
<1>2. answer[c] = "NONE" /\ TypeOK /\ call' = call
    BY <1>1 DEF IInv, CallInv, StepInv
<1> DEFINE On == {"insert_account", "read_destination", "find_boundary", "aggregate",
                  "list_owned", "read_page"}
           No == {"UNSUPPORTED_CURRENCY", "ACCOUNT_NOT_FOUND", "FORBIDDEN", "OK",
                  "TRANSACTION_NOT_FOUND"}
<1>3. \/ \E label \in On : /\ Goto(c, label)
                           /\ label = "insert_account" =>
                                call[c].endpoint = "open" /\ call[c].currency \in Supported
                           /\ label = "read_destination" => call[c].endpoint = "transfer"
                           /\ label = "find_boundary" => call[c].endpoint = "fund"
      \/ \E code \in No : Answer(c, code)
  <2>1. CASE CheckCurrency(c)
    BY <2>1 DEF CheckCurrency, IInv, CallInv, StepInv
  <2>2. CASE ReadSource(c)
    BY <2>2 DEF ReadSource, IInv, CallInv, StepInv
  <2>3. CASE FindOwned(c)
    BY <2>3 DEF FindOwned
  <2>4. CASE FindTransaction(c)
    BY <2>4 DEF FindTransaction
  <2>5. CASE ListOwned(c)
    BY <2>5 DEF ListOwned
  <2>6. CASE Aggregate(c)
    BY <2>6 DEF Aggregate
  <2>7. CASE ReadPage(c)
    BY <2>7 DEF ReadPage
  <2> QED
    BY <2>1, <2>2, <2>3, <2>4, <2>5, <2>6, <2>7
<1>4. CASE \E code \in No : Answer(c, code)
  <2>1. PICK code \in No : Answer(c, code)
    BY <1>4
  <2>2. code \in Answers
    BY DEF Answers, Refusals
  <2>3. Quiet(c) /\ pc'[c] = "answered" /\ answer'[c] = code
    BY <1>1, <1>2, <2>1, <2>2, Answering
  <2>4. StepInv(c)'
    BY <2>3 DEF StepInv
  <2> QED
    BY <1>1, <2>3, <2>4, QuietEarly
<1>5. CASE ~ \E code \in No : Answer(c, code)
  <2>1. PICK label \in On : /\ Goto(c, label)
                            /\ label = "insert_account" =>
                                 call[c].endpoint = "open" /\ call[c].currency \in Supported
                            /\ label = "read_destination" => call[c].endpoint = "transfer"
                            /\ label = "find_boundary" => call[c].endpoint = "fund"
    BY <1>3, <1>5
  <2>2. label \in Labels
    BY DEF Labels
  <2>3. Quiet(c) /\ pc'[c] = label /\ answer'[c] = "NONE"
    BY <1>1, <1>2, <2>1, <2>2, GoingOn
  <2>4. StepInv(c)'
    BY <1>2, <2>1, <2>3 DEF StepInv
  <2> QED
    BY <1>1, <2>3, <2>4, QuietEarly
<1> QED
    BY <1>4, <1>5

\* The last reads of a payment: a refusal, or its order.
LEMMA Ordered ==
    ASSUME NEW c \in Calls, IInv, ReadDestination(c) \/ FindBoundary(c)
    PROVE  IInv'
<1>1. /\ pc[c] \in {"read_destination", "find_boundary"} /\ answer[c] = "NONE"
      /\ UNCHANGED <<books, now, created_at, call, stamp>>
    BY DEF ReadDestination, FindBoundary, IInv, CallInv, StepInv
<1>2. CASE UNCHANGED order /\ \E code \in {"ACCOUNT_NOT_FOUND", "UNSUPPORTED_CURRENCY"} : Answer(c, code)
  <2>1. PICK code \in {"ACCOUNT_NOT_FOUND", "UNSUPPORTED_CURRENCY"} : Answer(c, code)
    BY <1>2
  <2>2. code \in Answers
    BY DEF Answers, Refusals
  <2>3. Quiet(c) /\ pc'[c] = "answered" /\ answer'[c] = code
    BY <1>1, <1>2, <2>1, <2>2, Answering DEF IInv
  <2>4. StepInv(c)' /\ stamp' \in [Calls -> 0 .. now]
    BY <1>1, <2>3 DEF StepInv, IInv, TypeOK
  <2> QED
    BY <1>1, <2>3, <2>4, QuietEarly
<1>3. CASE \E kind, source, destination :
             /\ order' = [order EXCEPT ![c] = Order(c, kind, source, destination)]
             /\ Goto(c, "settle")
             /\ IsAnswerTo(Order(c, kind, source, destination), call[c])
    BY <1>1, <1>3, Ordering
<1>4. CASE ReadDestination(c)
  <2> DEFINE T == Order(c, "TRANSFER", call[c].source_account_id, call[c].destination_account_id)
  <2>1. IsAnswerTo(T, call[c])
    BY <1>4 DEF IsAnswerTo, Order, ReadDestination, IInv, CallInv, StepInv
  <2>2. \/ UNCHANGED order /\ Answer(c, "ACCOUNT_NOT_FOUND")
        \/ order' = [order EXCEPT ![c] = T] /\ Goto(c, "settle")
    BY <1>4 DEF ReadDestination
  <2> QED
    BY <1>2, <1>3, <2>1, <2>2
<1>5. CASE FindBoundary(c)
  <2>1. CASE UNCHANGED order /\ Answer(c, "UNSUPPORTED_CURRENCY")
    BY <1>2, <2>1
  <2>2. CASE \E b : /\ AccountType[b] = "SYSTEM" /\ Goto(c, "settle")
                    /\ order' = [order EXCEPT ![c] = Order(c, "FUNDING", b, call[c].account_id)]
    <3>1. PICK b : /\ AccountType[b] = "SYSTEM" /\ Goto(c, "settle")
                   /\ order' = [order EXCEPT ![c] = Order(c, "FUNDING", b, call[c].account_id)]
      BY <2>2
    <3>2. IsAnswerTo(Order(c, "FUNDING", b, call[c].account_id), call[c])
      BY <1>5, <3>1 DEF IsAnswerTo, Order, FindBoundary, IInv, CallInv, StepInv
    <3> QED
      BY <1>3, <3>1, <3>2
  <2> QED
    BY <1>5, <2>1, <2>2 DEF FindBoundary
<1> QED
    BY <1>4, <1>5

\* What becomes of an order without settling it.
LEMMA Late ==
    ASSUME NEW c \in Calls, IInv, Reply(c) \/ Duplicate(c) \/ Refuse(c) \/ LoseTrack(c)
    PROVE  IInv'
<1>1. /\ pc[c] \in {"settle", "settled"} /\ answer[c] = "NONE" /\ TypeOK
      /\ UNCHANGED <<books, now, created_at, call, order, stamp>>
    BY DEF Reply, Duplicate, Refuse, LoseTrack, local, IInv, CallInv, StepInv
<1>2. OrderOf(order[c], c) /\ (pc[c] = "settled" => order[c] \in settled)
    BY <1>1 DEF IInv, CallInv, OrderInv, ConfirmedInv
<1>3. CASE Reply(c)
  <2>1. Quiet(c) /\ pc'[c] = "answered" /\ answer'[c] = "CREATED" /\ pc[c] = "settled"
    BY <1>1, <1>3, Answering DEF Reply, Answers
  <2>2. StepInv(c)' /\ "CREATED" \notin Refusals
    BY <2>1 DEF StepInv, Refusals
  <2> QED
    BY <1>1, <1>2, <2>1, <2>2, QuietLate DEF OrderOf
<1>4. CASE Duplicate(c)
  <2>1. Quiet(c) /\ pc'[c] = "answered" /\ answer'[c] = "DUPLICATE_SUBMISSION" /\ pc[c] = "settle"
    BY <1>1, <1>4, Answering DEF Duplicate, Answers
  <2>2. StepInv(c)' /\ \E t \in settled : t.idempotency_key = order[c].idempotency_key
    BY <1>4, <2>1 DEF StepInv, Duplicate
  <2> QED
    BY <1>1, <1>2, <2>1, <2>2, QuietLate DEF OrderOf
<1>5. CASE Refuse(c)
  <2>1. Quiet(c) /\ pc'[c] = "answered" /\ answer'[c] = "REFUSED" /\ pc[c] = "settle"
    BY <1>1, <1>5, Answering DEF Refuse, Answers, Refusals
  <2>2. StepInv(c)'
    BY <2>1 DEF StepInv
  <2> QED
    BY <1>1, <2>1, <2>2, QuietLate
<1>6. CASE LoseTrack(c)
  <2> DEFINE label == IF pc[c] = "settle" THEN "unknown" ELSE "answered"
  <2>1. pc' = [pc EXCEPT ![c] = label] /\ answer' = [answer EXCEPT ![c] = "INTERNAL_ERROR"]
    BY <1>6 DEF LoseTrack
  <2>2. label \in Labels /\ "INTERNAL_ERROR" \in Answers /\ "INTERNAL_ERROR" \notin Refusals
    BY DEF Labels, Answers, Refusals
  <2>3. Quiet(c)
    BY <1>1, <2>1, <2>2 DEF Quiet
  <2>4. pc'[c] = label /\ answer'[c] = "INTERNAL_ERROR"
    BY <1>1, <2>1 DEF TypeOK
  <2>5. StepInv(c)'
    BY <2>4 DEF StepInv
  <2> QED
    BY <1>1, <2>2, <2>3, <2>4, <2>5, QuietLate
<1> QED
    BY <1>3, <1>4, <1>5, <1>6

\* The process dies at any step.
LEMMA Died ==
    ASSUME NEW c \in Calls, IInv, Die(c)
    PROVE  IInv'
<1> DEFINE label == IF pc[c] = "settle" THEN "unknown" ELSE "answered"
<1>1. /\ pc[c] \notin {"idle", "answered", "unknown"} /\ answer[c] = "NONE" /\ TypeOK
      /\ UNCHANGED <<books, now, created_at, call, order, stamp>> /\ Goto(c, label)
    BY DEF Die, local, IInv, CallInv, StepInv
<1>2. label \in Labels
    BY DEF Labels
<1>3. Quiet(c) /\ pc'[c] = label /\ answer'[c] = "NONE"
    BY <1>1, <1>2, GoingOn
<1>4. StepInv(c)' /\ stamp' \in [Calls -> 0 .. now] /\ "NONE" \notin Refusals
    BY <1>1, <1>3 DEF StepInv, TypeOK, Refusals
<1>5. CASE pc[c] \in {"settle", "settled"}
    BY <1>1, <1>3, <1>4, <1>5, QuietLate
<1>6. CASE pc[c] \notin {"settle", "settled"}
    BY <1>1, <1>3, <1>4, <1>6, QuietEarly
<1> QED
    BY <1>5, <1>6

\* Time passes.
LEMMA Ticked == IInv /\ Tick => IInv'
<1> SUFFICES ASSUME IInv, Tick PROVE IInv'
    OBVIOUS
<1>1. UNCHANGED <<status, settled, created_at, call, pc, answer, order, stamp>> /\ now' = now + 1
    BY DEF Tick, books, local
<1>2. TypeOK'
  <2>1. 0 .. now \subseteq 0 .. now' /\ now' \in Nat
    BY <1>1 DEF IInv, TypeOK
  <2> QED
    BY <1>1, <2>1 DEF IInv, TypeOK
<1>3. KeyInv' /\ \A c \in Calls : CallInv(c)'
    BY <1>1 DEF IInv, KeyInv, CallInv, StepInv, OrderInv, SettledInv, ConfirmedInv, OrderOf,
       IsAnswerTo, Payment
<1> QED
    BY <1>2, <1>3 DEF IInv

\* Every step keeps the invariant.
LEMMA NextIInv == IInv /\ [Next]_vars => IInv'
<1> SUFFICES ASSUME IInv, [Next]_vars PROVE IInv'
    OBVIOUS
<1>1. CASE Tick
    BY <1>1, Ticked
<1>2. ASSUME NEW c \in Calls, Submit(c) \/ Handler(c) \/ Die(c) PROVE IInv'
    BY <1>2, Submitted, Opened, Early, Ordered, Settling, Late, Died DEF Handler
<1>3. CASE UNCHANGED vars
  <2>1. UNCHANGED <<status, settled, now, created_at, call, pc, answer, order, stamp>>
    BY <1>3 DEF vars, books, local
  <2> QED
    BY <2>1 DEF IInv, TypeOK, KeyInv, CallInv, StepInv, OrderInv, SettledInv, ConfirmedInv, OrderOf,
       IsAnswerTo, Payment
<1> QED
    BY <1>1, <1>2, <1>3 DEF Next

\* What payments stand on holds in every state.
LEMMA AnswersInvariance == Spec => []IInv
<1> QED
    BY InitIInv, NextIInv, PTL DEF Spec

\* A payment that is resent until it is confirmed is made exactly once, as asked.
THEOREM ResendingSafety == Spec => []ResendingIsSafe
<1>1. IInv => ResendingIsSafe
  <2> SUFFICES ASSUME IInv, NEW c \in Calls, Payment(c),
                      answer[c] \in {"CREATED", "DUPLICATE_SUBMISSION"},
                      \A d \in SubmissionsOf(call[c].idempotency_key) : call[d] = call[c]
               PROVE  LET done == {t \in settled : t.idempotency_key = call[c].idempotency_key}
                      IN  Cardinality(done) = 1 /\ \A t \in done : IsAnswerTo(t, call[c])
    BY DEF ResendingIsSafe
  <2> DEFINE done == {t \in settled : t.idempotency_key = call[c].idempotency_key}
  <2>1. PICK t \in done : TRUE
    BY DEF IInv, CallInv, ConfirmedInv
  <2>2. done = {t}
    BY <2>1 DEF IInv, KeyInv
  <2>3. Cardinality(done) = 1
    BY <2>2, FS_Singleton
  <2>4. t._id \in Calls /\ OrderOf(t, t._id)
    BY <2>1 DEF IInv, TypeOK, CallInv, SettledInv
  <2>5. call[t._id] = call[c]
    BY <2>1, <2>4 DEF OrderOf, SubmissionsOf
  <2> QED
    BY <2>2, <2>3, <2>4, <2>5 DEF OrderOf
<1> QED
    BY <1>1, AnswersInvariance, PTL

\* A payment whose every submission was refused is never made.
THEOREM RefusalIsFinal == Spec => []RefusedIsFinal
<1>1. IInv => RefusedIsFinal
  <2> SUFFICES ASSUME IInv, NEW c \in Calls, NEW t \in settled,
                      \A d \in SubmissionsOf(call[c].idempotency_key) : answer[d] \in Refusals,
                      t.idempotency_key = call[c].idempotency_key
               PROVE  FALSE
    BY DEF RefusedIsFinal
  <2>1. t._id \in Calls /\ OrderOf(t, t._id) /\ answer[t._id] \notin Refusals
    BY DEF IInv, TypeOK, CallInv, SettledInv
  <2>2. t._id \in SubmissionsOf(call[c].idempotency_key)
    BY <2>1 DEF OrderOf, SubmissionsOf
  <2> QED
    BY <2>1, <2>2
<1> QED
    BY <1>1, AnswersInvariance, PTL

-----------------------------------------------------------------------------
(* What the reads show. *)

\* A step leaves call d where it is, and what it knows and was shown.
Keeps(d) ==
    /\ pc'[d] = pc[d] /\ answer'[d] = answer[d] /\ call'[d] = call[d]
    /\ shown'[d] = shown[d] /\ offset'[d] = offset[d] /\ known'[d] = known[d]

\* Nothing goes away.
Grows ==
    /\ settled \subseteq settled'
    /\ DOMAIN status \subseteq DOMAIN status' /\ DOMAIN status' \subseteq Accounts
    /\ \A a \in DOMAIN status : created_at'[a] = created_at[a]

ReadsInv(c) == ReadInv(c) /\ LookupInv(c) /\ WalkInv(c)

\* Accounts are finitely many, and fewer are not more.
LEMMA AccountsAreFinite ==
    ASSUME NEW P, P \subseteq Accounts, NEW O, O \subseteq P
    PROVE  /\ IsFiniteSet(O) /\ IsFiniteSet(P)
           /\ Cardinality(O) \in Nat /\ Cardinality(P) \in Nat
           /\ Cardinality(O) <= Cardinality(P)
           /\ Cardinality(O) = Cardinality(P) => O = P
           /\ Cardinality(P \ O) = Cardinality(P) - Cardinality(O)
<1>1. IsFiniteSet(P)
    BY ApiAssumption, FS_Subset
<1>2. /\ IsFiniteSet(O) /\ Cardinality(O) <= Cardinality(P)
      /\ Cardinality(O) = Cardinality(P) => O = P
    BY <1>1, FS_Subset
<1>3. O \cap P = O /\ P \cap O = O
    OBVIOUS
<1>4. Cardinality(P \ O) = Cardinality(P) - Cardinality(P \cap O)
    BY <1>1, <1>2, FS_Difference
<1> QED
    BY <1>1, <1>2, <1>3, <1>4, FS_CardinalityType

\* What others do takes nothing from a read: a party that now has no more
\* accounts than fit in a page had no more before, accounts that are told apart
\* now were told apart before, and no account has become younger.
LEMMA OthersReads ==
    ASSUME NEW d \in Calls, LocalType, Keeps(d), Grows, ReadsInv(d)
    PROVE  ReadsInv(d)'
<1> DEFINE u == call[d].user
           O == Owned(u)
           P == {a \in DOMAIN status' : AccountOwner[a] = u}
           Before(a) == Older(u, a)
           After(a) == {b \in P : created_at'[b] < created_at'[a]}
<1>1. /\ O \subseteq P /\ IsFiniteSet(P)
      /\ Cardinality(O) \in Nat /\ Cardinality(P) \in Nat /\ Cardinality(O) <= Cardinality(P)
  <2>1. O \subseteq P /\ P \subseteq Accounts
    BY DEF Grows, Owned
  <2> QED
    BY <2>1, AccountsAreFinite
<1>2. Owned(call[d].user)' = P
    BY DEF Keeps, Owned
<1>3. ASSUME NEW a \in O
      PROVE  /\ Cardinality(Before(a)) \in Nat /\ Cardinality(After(a)) \in Nat
             /\ Cardinality(Before(a)) <= Cardinality(After(a))
  <2>1. Before(a) \subseteq After(a) /\ After(a) \subseteq Accounts
    BY <1>1, <1>3 DEF Grows, Older, Owned
  <2> HIDE DEF Before, After
  <2> QED
    BY <2>1, AccountsAreFinite
<1>4. TellsApart(call[d].user)' => TellsApart(u)
    BY <1>1, <1>2 DEF TellsApart, Keeps, Grows, Owned
<1>5. ReadInv(d)'
  <2>1. /\ Touching(call[d].account_id) \subseteq Touching(call[d].account_id)'
        /\ Touching(call[d].account_id)' \cap settled \subseteq Touching(call[d].account_id)
    BY DEF Touching, Keeps, Grows
  <2>2. known[d] \subseteq settled /\ CountsKnown(d) => CountsKnown(d)'
    BY <2>1 DEF CountsKnown, Keeps
  <2> QED
    BY <2>2 DEF ReadsInv, ReadInv, Keeps, Grows
<1>6. LookupInv(d)'
  <2>1. ShownToParties(d) => ShownToParties(d)'
    BY <1>1, <1>2, ApiAssumption DEF ShownToParties, AskedFor, Party, Keeps
  <2> QED
    BY <2>1 DEF ReadsInv, LookupInv, Keeps, Grows
<1>7. WalkInv(d)'
  <2> SUFFICES ASSUME call[d].endpoint = "list" PROVE WalkInv(d)'
    BY DEF WalkInv, Keeps
  <2>1. /\ known[d] \cup shown[d] \subseteq O
        /\ TellsApart(u) =>
             /\ answer[d] = "OK" => known[d] \subseteq shown[d]
             /\ pc[d] = "read_page" =>
                  \A a \in known[d] \ shown[d] : Cardinality(Before(a)) >= offset[d]
    BY DEF ReadsInv, WalkInv
  <2>2. known'[d] \cup shown'[d] \subseteq Owned(call[d].user)'
    BY <1>1, <1>2, <2>1 DEF Keeps
  <2>3. ASSUME TellsApart(call[d].user)', pc'[d] = "read_page", NEW a \in known'[d] \ shown'[d]
        PROVE  Cardinality(Older(call[d].user, a)') >= offset'[d]
    <3>1. Older(call[d].user, a)' = After(a)
      BY <1>2 DEF Older, Keeps
    <3> QED
      BY <1>3, <1>4, <2>1, <2>3, <3>1 DEF Keeps, LocalType
  <2> QED
    BY <1>4, <2>1, <2>2, <2>3 DEF WalkInv, Keeps
<1> QED
    BY <1>5, <1>6, <1>7 DEF ReadsInv

\* A call that is not a read.
LEMMA NotARead ==
    ASSUME NEW c \in Calls,
           call'[c].endpoint \notin {"read_transaction", "read_balance", "list"},
           pc'[c] \notin {"idle", "find_transaction", "list_owned", "aggregate", "read_page"}
    PROVE  ReadsInv(c)'
BY DEF ReadsInv, ReadInv, LookupInv, WalkInv

\* A read that ends without an answer.
LEMMA ReadDied ==
    ASSUME NEW c \in Calls, ReadsInv(c),
           pc'[c] = "answered", answer'[c] = "NONE",
           UNCHANGED <<books, now, created_at, call, local>>
    PROVE  ReadsInv(c)'
<1>1. UNCHANGED <<status, settled, created_at, call, shown, offset, known>>
    BY DEF books, local
<1>2. ReadInv(c)' /\ LookupInv(c)'
    BY <1>1 DEF ReadsInv, ReadInv, LookupInv, ShownToParties, CountsKnown, Touching
<1>3. WalkInv(c)'
    BY <1>1 DEF ReadsInv, WalkInv, Owned
<1> QED
    BY <1>2, <1>3 DEF ReadsInv

\* The smaller of two numbers.
LEMMA MinOfTwo ==
    ASSUME NEW x \in Int, NEW y \in Int
    PROVE  Min({x, y}) = IF x <= y THEN x ELSE y
<1>1. \E m \in {x, y} : \A z \in {x, y} : m <= z
    OBVIOUS
<1>2. Min({x, y}) \in {x, y} /\ \A z \in {x, y} : Min({x, y}) <= z
    BY <1>1 DEF Min
<1> QED
    BY <1>2

\* The k oldest of some accounts are as many as that, or all of them.
LEMMA OldestFacts ==
    ASSUME NEW A, A \subseteq Accounts, NEW k \in Nat, NEW Q \in Oldest(A, k)
    PROVE  /\ Q \subseteq A /\ IsFiniteSet(Q) /\ Cardinality(Q) \in Nat
           /\ Cardinality(Q) <= k
           /\ Q # A => Cardinality(Q) = k
           /\ \A a \in Q, b \in A \ Q : created_at[a] <= created_at[b]
<1>1. /\ Q \subseteq A /\ Cardinality(Q) = Min({k, Cardinality(A)})
      /\ \A a \in Q, b \in A \ Q : created_at[a] <= created_at[b]
    BY DEF Oldest
<1>2. /\ IsFiniteSet(Q) /\ Cardinality(Q) \in Nat /\ Cardinality(A) \in Nat
      /\ Cardinality(Q) = Cardinality(A) => Q = A
    BY <1>1, AccountsAreFinite
<1>3. Cardinality(Q) = IF k <= Cardinality(A) THEN k ELSE Cardinality(A)
    BY <1>1, <1>2, MinOfTwo
<1> QED
    BY <1>1, <1>2, <1>3

\* Reading on from an offset that has not gone past account a either shows it,
\* or fills the page with accounts that are older.
LEMMA WalkOn ==
    ASSUME NEW A, A \subseteq Accounts, NEW skip \in Nat, NEW limit \in Nat,
           NEW P \in Oldest(A, skip), NEW Q \in Oldest(A, skip + limit), P \subseteq Q,
           \A b \in A : created_at[b] \in Nat,
           \A b, d \in A : created_at[b] = created_at[d] => b = d,
           NEW a \in A, NEW O \in SUBSET A, \A b \in A : b \in O <=> created_at[b] < created_at[a],
           Cardinality(O) >= skip
    PROVE  \/ a \in Q \ P
           \/ Cardinality(Q \ P) = limit /\ Cardinality(O) >= skip + limit
<1>1. /\ P \subseteq A /\ IsFiniteSet(P) /\ Cardinality(P) \in Nat /\ Cardinality(P) <= skip
      /\ P # A => Cardinality(P) = skip
      /\ \A b \in P, d \in A \ P : created_at[b] <= created_at[d]
    BY OldestFacts
<1>2. /\ Q \subseteq A /\ IsFiniteSet(Q) /\ Cardinality(Q) \in Nat
      /\ Q # A => Cardinality(Q) = skip + limit
      /\ \A b \in Q, d \in A \ Q : created_at[b] <= created_at[d]
  <2>1. skip + limit \in Nat
    OBVIOUS
  <2> QED
    BY <2>1, OldestFacts
<1>3. O \subseteq A /\ a \notin O /\ IsFiniteSet(O) /\ Cardinality(O) \in Nat
  <2>1. O \subseteq A /\ a \notin O
    OBVIOUS
  <2> QED
    BY <2>1, AccountsAreFinite
<1>4. a \notin P
  <2> SUFFICES ASSUME a \in P PROVE FALSE
    OBVIOUS
  <2>1. O \cup {a} \subseteq P
    <3> SUFFICES ASSUME NEW b \in O, b \notin P PROVE FALSE
      OBVIOUS
    <3>1. b \in A \ P /\ created_at[b] < created_at[a]
      OBVIOUS
    <3>2. created_at[a] <= created_at[b]
      BY <1>1, <3>1
    <3> QED
      BY <3>1, <3>2
  <2>2. Cardinality(O \cup {a}) = Cardinality(O) + 1
    BY <1>3, FS_AddElement
  <2>3. Cardinality(O \cup {a}) <= Cardinality(P)
    BY <1>1, <2>1, FS_Subset
  <2> QED
    BY <1>1, <1>3, <2>2, <2>3
<1>5. CASE a \in Q
    BY <1>4, <1>5
<1>6. CASE a \notin Q
  <2>1. Q \subseteq O
    <3> SUFFICES ASSUME NEW b \in Q PROVE b \in O
      OBVIOUS
    <3>1. b \in A /\ created_at[b] <= created_at[a] /\ b # a
      BY <1>2, <1>6
    <3> QED
      BY <3>1
  <2>2. Cardinality(Q) <= Cardinality(O)
    BY <1>3, <2>1, FS_Subset
  <2>3. Cardinality(Q) = skip + limit /\ Cardinality(P) = skip
    BY <1>1, <1>2, <1>4, <1>6
  <2>4. Cardinality(Q \ P) = Cardinality(Q) - Cardinality(P)
    BY <1>2, AccountsAreFinite
  <2> QED
    BY <1>3, <2>2, <2>3, <2>4
<1> QED
    BY <1>5, <1>6

\* A call that is submitted has seen nothing yet.
LEMMA SubmittedReads ==
    ASSUME NEW c \in Calls, IInv, LocalType, ReadsInv(c), Counted \subseteq settled, Submit(c)
    PROVE  LocalType' /\ ReadsInv(c)'
<1>1. PICK q \in Requests :
         /\ call' = [call EXCEPT ![c] = q]
         /\ known' = [known EXCEPT ![c] = CASE q.endpoint = "list" -> Owned(q.user)
                                            [] q.endpoint = "read_transaction" -> Confirmed
                                            [] q.endpoint = "read_balance" -> Confirmed \cup Counted
                                            [] OTHER -> {}]
         /\ \/ /\ pc' = [pc EXCEPT ![c] = "answered"]
               /\ answer' = [answer EXCEPT ![c] = "IDEMPOTENCY_KEY_REQUIRED"]
               /\ q.endpoint \in {"transfer", "fund"}
            \/ pc' = [pc EXCEPT ![c] = FirstStep(q.endpoint)] /\ answer' = answer
    BY DEF Submit, Answer, Goto, LacksKey
<1>2. UNCHANGED <<status, settled, created_at, shown, offset>> /\ pc[c] = "idle"
    BY DEF Submit, books
<1>3. /\ answer[c] = "NONE" /\ shown[c] = {} /\ offset[c] = 0
    BY <1>2 DEF ReadsInv, ReadInv, IInv, CallInv, StepInv
<1>4. /\ call'[c] = q /\ shown'[c] = {} /\ offset'[c] = 0
      /\ known'[c] = CASE q.endpoint = "list" -> Owned(q.user)
                       [] q.endpoint = "read_transaction" -> Confirmed
                       [] q.endpoint = "read_balance" -> Confirmed \cup Counted
                       [] OTHER -> {}
    BY <1>1, <1>2, <1>3 DEF LocalType, IInv, TypeOK
<1>5. \/ /\ pc'[c] = "answered" /\ q.endpoint \in {"transfer", "fund"}
      \/ /\ pc'[c] = FirstStep(q.endpoint) /\ answer'[c] = "NONE"
    BY <1>1, <1>3 DEF IInv, TypeOK
<1>6. LocalType'
    BY <1>1, <1>2 DEF LocalType
<1>7. /\ pc'[c] \notin {"idle", "list_owned", "aggregate"}
      /\ pc'[c] = "find_transaction" => q.endpoint = "read_transaction"
      /\ pc'[c] = "read_page" => q.endpoint = "list"
    BY <1>5, ApiAssumption DEF FirstStep
<1>8. ReadInv(c)'
  <2>1. Confirmed \cup Counted \subseteq settled
    BY DEF Confirmed
  <2>2. q.endpoint \in {"read_transaction", "read_balance"} => known'[c] \subseteq settled'
    BY <1>2, <1>4, <2>1
  <2>3. q.endpoint = "read_balance" => answer'[c] # "OK"
    BY <1>5
  <2> QED
    BY <1>4, <1>7, <2>2, <2>3 DEF ReadInv
<1>9. LookupInv(c)'
    BY <1>2, <1>4, <1>5, <1>7 DEF LookupInv, ShownToParties
<1>10. WalkInv(c)'
  <2> SUFFICES ASSUME q.endpoint = "list" PROVE WalkInv(c)'
    BY <1>4 DEF WalkInv
  <2>1. known'[c] = Owned(q.user) /\ Owned(q.user) = {a \in DOMAIN status' : AccountOwner[a] = q.user}
    BY <1>2, <1>4 DEF Owned
  <2>2. known'[c] \cup shown'[c] \subseteq Owned(call[c].user)' /\ answer'[c] # "OK"
    BY <1>4, <1>5, <2>1 DEF Owned
  <2>3. ASSUME NEW a \in known'[c] PROVE Cardinality(Older(call[c].user, a)') >= offset'[c]
    <3>1. Older(call[c].user, a)' \subseteq DOMAIN status /\ DOMAIN status \subseteq Accounts
      BY <1>2 DEF Older, Owned, IInv, TypeOK
    <3>2. Cardinality(Older(call[c].user, a)') \in Nat
      BY <3>1, AccountsAreFinite
    <3> QED
      BY <1>4, <3>2
  <2> QED
    BY <2>2, <2>3 DEF WalkInv
<1> QED
    BY <1>6, <1>8, <1>9, <1>10 DEF ReadsInv

\* A transaction that is settled is found; one that is not was not confirmed.
LEMMA FoundTransaction ==
    ASSUME NEW c \in Calls, IInv, LocalType, ReadsInv(c), FindTransaction(c)
    PROVE  LocalType' /\ ReadsInv(c)'
<1> DEFINE found == {t \in settled : t._id = call[c].transaction_id}
<1>1. /\ pc[c] = "find_transaction"
      /\ \/ found = {} /\ Answer(c, "TRANSACTION_NOT_FOUND") /\ shown' = shown
         \/ found # {} /\ shown' = [shown EXCEPT ![c] = found] /\ Goto(c, "list_owned")
      /\ UNCHANGED <<status, settled, created_at, call, known, offset>>
    BY DEF FindTransaction, books
<1>2. /\ call[c].endpoint = "read_transaction" /\ known[c] \subseteq settled /\ answer[c] = "NONE"
      /\ shown[c] \subseteq settled /\ \A t \in shown[c] : t._id = call[c].transaction_id
    BY <1>1 DEF ReadsInv, ReadInv, LookupInv, IInv, CallInv, StepInv
<1>3. LocalType'
    BY <1>1 DEF LocalType
<1>4. \/ /\ found = {} /\ pc'[c] = "answered" /\ answer'[c] = "TRANSACTION_NOT_FOUND"
         /\ shown'[c] = shown[c]
      \/ /\ found # {} /\ pc'[c] = "list_owned" /\ answer'[c] = "NONE" /\ shown'[c] = found
    BY <1>1, <1>2 DEF Answer, Goto, IInv, TypeOK, LocalType
<1>5. ReadInv(c)'
    BY <1>1, <1>2, <1>4 DEF ReadInv
<1>6. LookupInv(c)'
    BY <1>1, <1>2, <1>4 DEF LookupInv, ShownToParties, AskedFor
<1>7. WalkInv(c)'
    BY <1>1, <1>2 DEF WalkInv
<1> QED
    BY <1>3, <1>5, <1>6, <1>7 DEF ReadsInv

\* Of the transaction that was found, a party has an account on the page, and
\* with no more accounts than fit in a page, each party.
LEMMA ListedOwned ==
    ASSUME NEW c \in Calls, IInv, MoneyInv, LocalType, ReadsInv(c), ListOwned(c)
    PROVE  LocalType' /\ ReadsInv(c)'
<1> DEFINE u == call[c].user
<1>1. /\ pc[c] = "list_owned"
      /\ UNCHANGED <<status, settled, created_at, call, known, offset, shown>>
    BY DEF ListOwned, books, local
<1>2. PICK page \in Pages(u, 0, MaxPage) :
         IF \E t \in shown[c] : page \cap Involved(t) # {}
         THEN Answer(c, "OK") ELSE Answer(c, "TRANSACTION_NOT_FOUND")
    BY DEF ListOwned
<1>3. /\ call[c].endpoint = "read_transaction" /\ known[c] \subseteq settled
      /\ shown[c] \subseteq settled /\ shown[c] # {}
      /\ \A t \in shown[c] : t._id = call[c].transaction_id
    BY <1>1 DEF ReadsInv, ReadInv, LookupInv
<1>4. LocalType'
    BY <1>1 DEF LocalType
<1>5. Owned(u) \subseteq Accounts
    BY DEF Owned, IInv, TypeOK
<1>6. page \subseteq Owned(u) /\ (Cardinality(Owned(u)) <= MaxPage => page = Owned(u))
  <2>1. PICK P \in Oldest(Owned(u), 0), Q \in Oldest(Owned(u), 0 + MaxPage) :
           P \subseteq Q /\ page = Q \ P
    BY DEF Pages
  <2>2. Cardinality(P) <= 0 /\ Cardinality(P) \in Nat /\ IsFiniteSet(P)
    BY <1>5, OldestFacts
  <2>3. P = {}
    BY <2>2, FS_EmptySet
  <2>4. 0 + MaxPage = MaxPage /\ MaxPage \in Nat
    BY ApiAssumption
  <2>5. Q \subseteq Owned(u) /\ (Q # Owned(u) => Cardinality(Q) = MaxPage)
    BY <1>5, <2>4, OldestFacts
  <2>6. /\ Cardinality(Q) \in Nat /\ Cardinality(Owned(u)) \in Nat
        /\ Cardinality(Q) <= Cardinality(Owned(u))
        /\ Cardinality(Q) = Cardinality(Owned(u)) => Q = Owned(u)
    BY <1>5, <2>5, AccountsAreFinite
  <2> QED
    BY <2>1, <2>3, <2>4, <2>5, <2>6
<1>7. ASSUME NEW s \in shown[c], NEW t \in settled, t._id = call[c].transaction_id PROVE s = t
  <2>1. s \in settled /\ t._id = s._id /\ s._id \in Calls
    BY <1>3, <1>7 DEF IInv, TypeOK
  <2>2. OrderOf(s, s._id) /\ OrderOf(t, s._id)
    BY <2>1 DEF IInv, CallInv, SettledInv
  <2> QED
    BY <2>1, <2>2 DEF OrderOf, IInv, KeyInv
<1>8. \/ pc'[c] = "answered" /\ answer'[c] = "OK" /\ \E t \in shown[c] : page \cap Involved(t) # {}
      \/ /\ pc'[c] = "answered" /\ answer'[c] = "TRANSACTION_NOT_FOUND"
         /\ \A t \in shown[c] : page \cap Involved(t) = {}
    BY <1>2 DEF Answer, IInv, TypeOK
<1>9. ReadInv(c)'
    BY <1>1, <1>3, <1>8 DEF ReadInv
<1>10. ShownToParties(c)'
  <2>1. CASE answer'[c] = "OK"
    <3>1. PICK s \in shown[c] : page \cap Involved(s) # {}
      BY <1>8, <2>1
    <3>2. Party(u, s)
      BY <1>6, <3>1 DEF Party, Involved, Owned
    <3>3. \A t \in shown[c] : t = s
      BY <1>3, <1>7
    <3> QED
      BY <1>1, <2>1, <3>2, <3>3 DEF ShownToParties, Party
  <2>2. CASE answer'[c] = "TRANSACTION_NOT_FOUND"
    <3> SUFFICES ASSUME Cardinality(Owned(u)) <= MaxPage, NEW t \in AskedFor(c) PROVE ~Party(u, t)
      BY <1>1, <2>2 DEF ShownToParties, AskedFor, Party, Owned
    <3>1. t \in settled /\ t._id = call[c].transaction_id
      BY <1>3 DEF AskedFor
    <3>2. t \in shown[c]
      BY <1>3, <1>7, <3>1
    <3>3. Owned(u) \cap Involved(t) = {} /\ Involved(t) \subseteq DOMAIN status
      BY <1>6, <1>8, <2>2, <3>1, <3>2 DEF MoneyInv
    <3> QED
      BY <3>3 DEF Party, Involved, Owned
  <2> QED
    BY <1>8, <2>1, <2>2
<1>11. LookupInv(c)'
    BY <1>1, <1>3, <1>8, <1>10 DEF LookupInv
<1>12. WalkInv(c)'
    BY <1>1, <1>3 DEF WalkInv
<1> QED
    BY <1>4, <1>9, <1>11, <1>12 DEF ReadsInv

\* A balance is summed over transfers that are settled.
LEMMA BalanceReads ==
    ASSUME NEW c \in Calls, IInv, LocalType, ReadsInv(c), FindOwned(c) \/ Aggregate(c)
    PROVE  LocalType' /\ ReadsInv(c)'
<1>1. /\ UNCHANGED <<status, settled, created_at, call, known, offset>>
      /\ pc[c] \in {"find_owned", "aggregate"} /\ answer[c] = "NONE"
    BY DEF FindOwned, Aggregate, books, IInv, CallInv, StepInv
<1>2. LocalType'
    BY <1>1 DEF LocalType, FindOwned, Aggregate
<1>3. CASE Aggregate(c)
  <2>1. PICK seen \in SUBSET Touching(call[c].account_id) : shown' = [shown EXCEPT ![c] = @ \cup seen]
    BY <1>3 DEF Aggregate
  <2>2. /\ call[c].endpoint = "read_balance" /\ shown[c] \cup known[c] \subseteq settled
        /\ CountsKnown(c)
        /\ pc'[c] = "answered" /\ seen \subseteq settled /\ shown'[c] = shown[c] \cup seen
    BY <1>3, <2>1 DEF Aggregate, Answer, Touching, ReadsInv, ReadInv, LocalType, IInv, TypeOK
  <2>3. CountsKnown(c)'
    BY <1>1, <2>1, <2>2 DEF CountsKnown, Touching
  <2> QED
    BY <1>1, <1>2, <2>2, <2>3 DEF ReadsInv, ReadInv, LookupInv, WalkInv
<1>4. CASE FindOwned(c) /\ call[c].endpoint = "read_balance" /\ pc'[c] = "aggregate"
  <2>1. pc[c] = "find_owned"
    BY <1>4 DEF FindOwned
  <2>2. shown'[c] = Touching(call[c].account_id)
    BY <1>4, <2>1 DEF FindOwned, Answer, Goto, LocalType, IInv, TypeOK
  <2>3. CountsKnown(c)' /\ shown'[c] \subseteq settled
    BY <1>1, <2>2 DEF CountsKnown, Touching
  <2> QED
    BY <1>1, <1>2, <1>4, <2>3 DEF ReadsInv, ReadInv, LookupInv, WalkInv
<1>5. CASE FindOwned(c) /\ pc'[c] # "aggregate"
  <2>1. /\ shown' = shown
        /\ \/ pc'[c] = "find_boundary" /\ answer'[c] = "NONE"
           \/ pc'[c] = "answered" /\ answer'[c] = "ACCOUNT_NOT_FOUND"
    BY <1>1, <1>5 DEF FindOwned, Answer, Goto, IInv, TypeOK
  <2>2. ReadInv(c)' /\ LookupInv(c)'
    BY <1>1, <2>1 DEF ReadsInv, ReadInv, LookupInv, ShownToParties
  <2>3. WalkInv(c)'
    BY <1>1, <2>1 DEF ReadsInv, WalkInv, Owned
  <2> QED
    BY <1>2, <2>2, <2>3 DEF ReadsInv
<1>6. FindOwned(c) => pc'[c] # "aggregate" \/ call[c].endpoint = "read_balance"
  BY DEF FindOwned, Answer, Goto, IInv, TypeOK
<1> QED
    BY <1>3, <1>4, <1>5, <1>6

\* A walk that reads a page has gone past nothing that it did not show, and at
\* the last page there is nothing left.
LEMMA ReadOn ==
    ASSUME NEW c \in Calls, IInv, LocalType, ReadsInv(c), ReadPage(c)
    PROVE  LocalType' /\ ReadsInv(c)'
<1> DEFINE u == call[c].user
           A == Owned(u)
<1>1. /\ pc[c] = "read_page" /\ call[c].endpoint = "list" /\ answer[c] = "NONE"
      /\ UNCHANGED <<status, settled, created_at, call, known>>
    BY DEF ReadPage, books, ReadsInv, ReadInv, IInv, CallInv, StepInv
<1>2. PICK page \in Pages(u, offset[c], PageSize) :
         /\ shown' = [shown EXCEPT ![c] = @ \cup page]
         /\ offset' = [offset EXCEPT ![c] = @ + Cardinality(page)]
         /\ IF Cardinality(page) < PageSize THEN Answer(c, "OK") ELSE Goto(c, "read_page")
    BY DEF ReadPage
<1>3. /\ A \subseteq Accounts /\ offset[c] \in Nat /\ PageSize \in Nat
      /\ offset[c] + PageSize \in Nat /\ \A a \in A : created_at[a] \in Nat
    BY ApiAssumption DEF Owned, IInv, TypeOK, LocalType
<1>4. PICK P \in Oldest(A, offset[c]), Q \in Oldest(A, offset[c] + PageSize) :
         P \subseteq Q /\ page = Q \ P
    BY DEF Pages
<1>5. page \subseteq A /\ Cardinality(page) \in Nat
  <2>1. Q \subseteq A
    BY <1>3, OldestFacts
  <2>2. page \subseteq A /\ page \subseteq Accounts
    BY <1>3, <1>4, <2>1
  <2> QED
    BY <2>2, AccountsAreFinite
<1>6. /\ shown'[c] = shown[c] \cup page /\ offset'[c] = offset[c] + Cardinality(page)
      /\ \/ Cardinality(page) < PageSize /\ pc'[c] = "answered"
         \/ Cardinality(page) >= PageSize /\ pc'[c] = "read_page" /\ answer'[c] = "NONE"
    BY <1>1, <1>2, <1>3, <1>5 DEF Answer, Goto, LocalType, IInv, TypeOK
<1>7. LocalType'
    BY <1>1, <1>2, <1>3, <1>5, <1>6 DEF LocalType
<1>8. ReadInv(c)' /\ LookupInv(c)'
    BY <1>1, <1>6 DEF ReadInv, LookupInv
<1>9. known[c] \cup shown[c] \subseteq A
    BY <1>1 DEF ReadsInv, WalkInv
<1>10. Owned(call[c].user)' = A /\ (TellsApart(call[c].user)' <=> TellsApart(u))
    BY <1>1 DEF Owned, TellsApart
<1>11. ASSUME TellsApart(u), NEW a \in known[c] \ shown'[c]
       PROVE  /\ Cardinality(page) = PageSize
              /\ Cardinality(Older(u, a)) >= offset'[c]
  <2>1. a \in A /\ a \notin Q \ P /\ Cardinality(Older(u, a)) >= offset[c]
    BY <1>1, <1>4, <1>6, <1>9, <1>11 DEF ReadsInv, WalkInv
  <2>2. \A b, d \in A : created_at[b] = created_at[d] => b = d
    BY <1>11 DEF TellsApart
  <2>3. /\ Older(u, a) \in SUBSET A
        /\ \A b \in A : b \in Older(u, a) <=> created_at[b] < created_at[a]
    BY DEF Older
  <2> HIDE DEF A, u
  <2>4. Cardinality(Q \ P) = PageSize /\ Cardinality(Older(u, a)) >= offset[c] + PageSize
    BY <1>3, <1>4, <2>1, <2>2, <2>3, WalkOn
  <2> QED
    BY <1>4, <1>6, <2>4
<1>12. WalkInv(c)'
  <2>1. known'[c] \cup shown'[c] \subseteq Owned(call[c].user)'
    BY <1>1, <1>5, <1>6, <1>9, <1>10
  <2>2. ASSUME TellsApart(u) PROVE answer'[c] = "OK" => known'[c] \subseteq shown'[c]
    BY <1>1, <1>3, <1>6, <1>11, <2>2
  <2>3. ASSUME TellsApart(u), NEW a \in known'[c] \ shown'[c]
        PROVE  Cardinality(Older(call[c].user, a)') >= offset'[c]
    <3>1. Older(call[c].user, a)' = Older(u, a)
      BY <1>1 DEF Older, Owned
    <3> QED
      BY <1>1, <1>11, <2>3, <3>1
  <2> QED
    BY <1>10, <2>1, <2>2, <2>3 DEF WalkInv
<1> QED
    BY <1>7, <1>8, <1>12 DEF ReadsInv

\* A step of one call keeps what the others stand on.
LEMMA StepsOfOne ==
    ASSUME NEW c \in Calls, IInv, LocalType, Submit(c) \/ Handler(c) \/ Die(c)
    PROVE  /\ Grows /\ \A t \in settled' \ settled : t._id = c
           /\ \A d \in Calls \ {c} : Keeps(d)
<1>1. CASE Submit(c)
  <2>1. \A d \in Calls \ {c} : Keeps(d)
    BY <1>1 DEF Submit, Answer, Goto, Keeps, IInv, TypeOK, LocalType
  <2> QED
    BY <1>1, <2>1 DEF Submit, books, Grows, IInv, TypeOK
<1>2. CASE InsertAccount(c)
  <2>1. \A d \in Calls \ {c} : Keeps(d)
    BY <1>2 DEF InsertAccount, Answer, local, Keeps, IInv, TypeOK, LocalType
  <2>2. PICK a \in Accounts \ DOMAIN status :
           /\ status' = [b \in DOMAIN status \cup {a} |-> IF b = a THEN "ACTIVE" ELSE status[b]]
           /\ settled' = settled
           /\ created_at' = [b \in DOMAIN created_at \cup {a} |->
                               IF b = a THEN stamp[c] ELSE created_at[b]]
    BY <1>2 DEF InsertAccount, Books!Open
  <2>3. Grows
    BY <2>2 DEF Grows, IInv, TypeOK
  <2> QED
    BY <2>1, <2>2, <2>3
<1>3. CASE Settle(c)
  <2>1. \A d \in Calls \ {c} : Keeps(d)
    BY <1>3 DEF Settle, Goto, local, Keeps, IInv, TypeOK, LocalType
  <2>2. settled' = settled \cup {order[c]} /\ order[c]._id = c
        /\ UNCHANGED <<status, created_at>>
    BY <1>3 DEF Settle, Books!Transfer, IInv, CallInv, OrderInv, OrderOf
  <2> QED
    BY <2>1, <2>2 DEF Grows, IInv, TypeOK
<1>4. CASE \/ CheckCurrency(c) \/ ReadSource(c) \/ ReadDestination(c) \/ FindOwned(c)
           \/ FindBoundary(c) \/ Die(c)
  <2>1. \A d \in Calls \ {c} : Keeps(d)
    BY <1>4 DEF CheckCurrency, ReadSource, ReadDestination, FindOwned, FindBoundary, Die,
       Answer, Goto, local, Keeps, IInv, TypeOK, LocalType
  <2>2. UNCHANGED <<status, settled, created_at>>
    BY <1>4 DEF CheckCurrency, ReadSource, ReadDestination, FindOwned, FindBoundary, Die, books
  <2> QED
    BY <2>1, <2>2 DEF Grows, IInv, TypeOK
<1>5. CASE \/ Reply(c) \/ Duplicate(c) \/ Refuse(c) \/ LoseTrack(c)
           \/ FindTransaction(c) \/ ListOwned(c) \/ Aggregate(c) \/ ReadPage(c)
  <2>1. \A d \in Calls \ {c} : Keeps(d)
    BY <1>5 DEF Reply, Duplicate, Refuse, LoseTrack, FindTransaction, ListOwned, Aggregate, ReadPage,
       Answer, Goto, local, Keeps, IInv, TypeOK, LocalType
  <2>2. UNCHANGED <<status, settled, created_at>>
    BY <1>5 DEF Reply, Duplicate, Refuse, LoseTrack, FindTransaction, ListOwned, Aggregate, ReadPage,
       books
  <2> QED
    BY <2>1, <2>2 DEF Grows, IInv, TypeOK
<1> QED
    BY <1>1, <1>2, <1>3, <1>4, <1>5 DEF Handler

\* Only reads and their deaths concern what was shown.
LEMMA OwnReads ==
    ASSUME NEW c \in Calls, IInv, MoneyInv, LocalType, ReadsInv(c),
           Counted \subseteq settled, Submit(c) \/ Handler(c) \/ Die(c)
    PROVE  LocalType' /\ ReadsInv(c)'
<1>1. CASE Die(c)
  <2>1. /\ answer[c] = "NONE" /\ pc[c] \notin {"idle", "answered", "unknown"}
        /\ UNCHANGED <<books, now, created_at, call, local>>
        /\ pc' = [pc EXCEPT ![c] = IF pc[c] = "settle" THEN "unknown" ELSE "answered"]
        /\ answer' = answer
    BY <1>1 DEF Die, Goto, IInv, CallInv, StepInv
  <2>2. LocalType'
    BY <2>1 DEF local, LocalType
  <2>3. CASE pc[c] = "settle"
    <3>1. Payment(c)
      BY <2>3 DEF IInv, CallInv, OrderInv, OrderOf
    <3> QED
      BY <2>1, <2>2, <2>3, <3>1, NotARead DEF Payment, IInv, TypeOK
  <2>4. CASE pc[c] # "settle"
    BY <2>1, <2>2, <2>4, ReadDied DEF IInv, TypeOK
  <2> QED
    BY <2>3, <2>4
<1>2. CASE \/ CheckCurrency(c) \/ InsertAccount(c) \/ ReadSource(c) \/ ReadDestination(c)
           \/ FindBoundary(c) \/ Settle(c) \/ Reply(c) \/ Duplicate(c) \/ Refuse(c) \/ LoseTrack(c)
  <2>1. UNCHANGED <<call, known, shown, offset>>
    BY <1>2 DEF CheckCurrency, InsertAccount, ReadSource, ReadDestination, FindBoundary, Settle, Reply,
       Duplicate, Refuse, LoseTrack, local
  <2>2. pc[c] \in {"check_currency", "insert_account", "read_source", "read_destination",
                   "find_boundary", "settle", "unknown", "settled"}
    BY <1>2 DEF CheckCurrency, InsertAccount, ReadSource, ReadDestination, FindBoundary, Settle, Reply,
       Duplicate, Refuse, LoseTrack
  <2>3. call[c].endpoint \in {"open", "transfer", "fund"}
    BY <2>2 DEF IInv, CallInv, StepInv, OrderInv, OrderOf, Payment
  <2>4. pc'[c] \in {"insert_account", "read_destination", "settle", "unknown", "settled", "answered"}
    BY <1>2 DEF CheckCurrency, InsertAccount, ReadSource, ReadDestination, FindBoundary, Settle, Reply,
       Duplicate, Refuse, LoseTrack, Answer, Goto, IInv, TypeOK
  <2> QED
    BY <2>1, <2>3, <2>4, NotARead DEF LocalType
<1> QED
    BY <1>1, <1>2, SubmittedReads, FoundTransaction, ListedOwned, BalanceReads, ReadOn DEF Handler

\* The source of a transfer was found to be the caller's before it goes on.
LEMMA OwnOwner ==
    ASSUME NEW c \in Calls, IInv, OwnerInv(c), Submit(c) \/ Handler(c) \/ Die(c),
           \A t \in settled' \ settled : t._id = c
    PROVE  OwnerInv(c)'
<1> DEFINE On == {"read_destination", "settle", "settled", "unknown"}
<1>1. CASE Submit(c)
  <2>1. pc[c] = "idle" /\ settled' = settled /\ \A t \in settled : t._id # c
    BY <1>1 DEF Submit, books, IInv, CallInv, SettledInv
  <2>2. pc'[c] \notin On
    BY <1>1, FirstSteps DEF Submit, Answer, Goto, IInv, TypeOK
  <2> QED
    BY <2>1, <2>2 DEF OwnerInv
<1>3. CASE ReadSource(c)
  <2>1. settled' = settled /\ (pc'[c] \in On => call[c].source_account_id \in Owned(call[c].user))
    BY <1>3 DEF ReadSource, Answer, Goto, books, IInv, TypeOK
  <2> QED
    BY <1>3, <2>1 DEF ReadSource, OwnerInv, Owned
<1>4. CASE Settle(c)
  <2>1. call' = call /\ pc[c] \in On
    BY <1>4 DEF Settle
  <2> QED
    BY <2>1 DEF OwnerInv
<1>5. CASE FindBoundary(c)
  <2>1. call' = call /\ call[c].endpoint = "fund"
    BY <1>5 DEF FindBoundary, IInv, CallInv, StepInv
  <2> QED
    BY <2>1 DEF OwnerInv
<1>6. CASE InsertAccount(c)
  <2>1. call' = call /\ call[c].endpoint = "open"
    BY <1>6 DEF InsertAccount, IInv, CallInv, StepInv
  <2> QED
    BY <2>1 DEF OwnerInv
<1>7. CASE \/ CheckCurrency(c) \/ ReadDestination(c) \/ FindOwned(c)
           \/ Reply(c) \/ Duplicate(c) \/ Refuse(c) \/ LoseTrack(c)
           \/ FindTransaction(c) \/ ListOwned(c) \/ Aggregate(c) \/ ReadPage(c) \/ Die(c)
  <2>1. call' = call /\ settled' = settled
    BY <1>7 DEF CheckCurrency, ReadDestination, FindOwned, Reply, Duplicate, Refuse, LoseTrack,
       FindTransaction, ListOwned, Aggregate, ReadPage, Die, books
  <2>2. pc'[c] \in On => pc[c] \in On
    BY <1>7 DEF CheckCurrency, ReadDestination, FindOwned, Reply, Duplicate, Refuse, LoseTrack,
       FindTransaction, ListOwned, Aggregate, ReadPage, Die, Answer, Goto, IInv, TypeOK
  <2> QED
    BY <2>1, <2>2 DEF OwnerInv
<1> QED
    BY <1>1, <1>3, <1>4, <1>5, <1>6, <1>7 DEF Handler

-----------------------------------------------------------------------------
(* Sums of transfers.                                                        *)

\* What some transfers amount to is a sum.
LEMMA AmountsSum ==
    ASSUME NEW S
    PROVE  Amounts(S) = SumOver([t \in S |-> t.amount_minor], S)
<1> DEFINE w == [t \in S |-> t.amount_minor]
           Step(T, f) == IF T = {} THEN 0
                         ELSE LET t == CHOOSE t \in T : TRUE
                              IN  t.amount_minor + f[T \ {t}]
           Is(f) == f = [T \in SUBSET S |-> Step(T, f)]
<1>1. ASSUME NEW f PROVE Is(f) <=> IsSum(w, S, f)
  <2>1. ASSUME NEW T \in SUBSET S PROVE Step(T, f) = SumStep(w, T, f)
    BY DEF SumStep
  <2> HIDE DEF Step, w
  <2> QED
    BY <2>1 DEF IsSum
<1>2. Amounts(S) = (CHOOSE f : Is(f))[S]
    BY Zenon DEF Amounts, MapThenSumSet, MapThenFoldSet
<1>3. (CHOOSE f : Is(f)) = CHOOSE f : IsSum(w, S, f)
  <2> HIDE DEF Is, w
  <2> QED
    BY <1>1
<1> QED
    BY <1>2, <1>3 DEF SumOver

\* No transfers, no amount; one more adds its amount.
LEMMA AmountsFacts ==
    /\ Amounts({}) = 0
    /\ \A S : IsFiniteSet(S) /\ (\A t \in S : t.amount_minor \in Nat) =>
         /\ Amounts(S) \in Int
         /\ \A t : t \notin S /\ t.amount_minor \in Nat =>
              Amounts(S \cup {t}) = Amounts(S) + t.amount_minor
<1>1. Amounts({}) = 0
    BY AmountsSum, SumOverEmpty
<1>2. ASSUME NEW S, IsFiniteSet(S), \A t \in S : t.amount_minor \in Nat
      PROVE  Amounts(S) \in Int
  <2>1. Weighs([t \in S |-> t.amount_minor], S)
    BY <1>2 DEF Weighs
  <2> QED
    BY <1>2, <2>1, AmountsSum, SumOverType
<1>3. ASSUME NEW S, IsFiniteSet(S), \A t \in S : t.amount_minor \in Nat,
             NEW t, t \notin S, t.amount_minor \in Nat
      PROVE  Amounts(S \cup {t}) = Amounts(S) + t.amount_minor
  <2> DEFINE w == [s \in S |-> s.amount_minor]
             v == [s \in S \cup {t} |-> s.amount_minor]
  <2>1. /\ Weighs(v, S) /\ Weighs(w, S) /\ v[t] = t.amount_minor /\ v[t] \in Int
        /\ \A s \in S : v[s] = w[s]
    BY <1>3 DEF Weighs
  <2>2. Amounts(S \cup {t}) = SumOver(v, S \cup {t}) /\ Amounts(S) = SumOver(w, S)
    BY AmountsSum
  <2> HIDE DEF v, w
  <2>3. SumOver(v, S) = SumOver(w, S)
    BY <1>3, <2>1, SumOverSame
  <2>4. SumOver(v, S \cup {t}) = SumOver(v, S) + v[t]
    BY <1>3, <2>1, SumOverAdd
  <2> QED
    BY <2>1, <2>2, <2>3, <2>4
<1> QED
    BY <1>1, <1>2, <1>3

\* A transfer moves its amount from one balance to another.
LEMMA BalanceMoves ==
    ASSUME NEW S, IsFiniteSet(S), \A s \in S : s.amount_minor \in Nat,
           NEW t, t \notin S, t.amount_minor \in Nat,
           t.source_account_id # t.destination_account_id,
           NEW a
    PROVE  /\ BalanceFrom(a, S) \in Int
           /\ BalanceFrom(a, S \cup {t}) =
                BalanceFrom(a, S) + (IF a = t.destination_account_id THEN t.amount_minor
                                     ELSE IF a = t.source_account_id THEN 0 - t.amount_minor ELSE 0)
<1> DEFINE In(T) == {s \in T : s.destination_account_id = a}
           Out(T) == {s \in T : s.source_account_id = a}
<1>1. Opening(a) \in Int
    BY ApiAssumption DEF Opening
<1>2. /\ IsFiniteSet(In(S)) /\ IsFiniteSet(Out(S)) /\ t \notin In(S) /\ t \notin Out(S)
      /\ \A s \in In(S) : s.amount_minor \in Nat
      /\ \A s \in Out(S) : s.amount_minor \in Nat
    BY FS_Subset
<1>3. /\ In(S \cup {t}) = IF a = t.destination_account_id THEN In(S) \cup {t} ELSE In(S)
      /\ Out(S \cup {t}) = IF a = t.source_account_id THEN Out(S) \cup {t} ELSE Out(S)
    OBVIOUS
<1>4. \A T : BalanceFrom(a, T) = Opening(a) + Amounts(In(T)) - Amounts(Out(T))
    BY DEF BalanceFrom
<1> HIDE DEF In, Out
<1>5. /\ Amounts(In(S)) \in Int /\ Amounts(Out(S)) \in Int
      /\ Amounts(In(S) \cup {t}) = Amounts(In(S)) + t.amount_minor
      /\ Amounts(Out(S) \cup {t}) = Amounts(Out(S)) + t.amount_minor
    BY <1>2, AmountsFacts
<1>6. Amounts(In(S \cup {t})) =
        Amounts(In(S)) + (IF a = t.destination_account_id THEN t.amount_minor ELSE 0)
    BY <1>3, <1>5
<1>7. Amounts(Out(S \cup {t})) =
        Amounts(Out(S)) + (IF a = t.source_account_id THEN t.amount_minor ELSE 0)
    BY <1>3, <1>5
<1> QED
    BY <1>1, <1>4, <1>5, <1>6, <1>7

\* What is settled was ordered by a payment, in the amount that was asked for.
LEMMA SettledFacts ==
    ASSUME IInv, NEW t \in settled
    PROVE  /\ t._id \in Calls /\ OrderOf(t, t._id) /\ call[t._id] \in Requests
           /\ t.amount_minor = call[t._id].amount_minor /\ t.amount_minor \in Nat
<1>1. t._id \in Calls /\ OrderOf(t, t._id)
    BY DEF IInv, TypeOK, CallInv, SettledInv
<1>2. call[t._id] \in Requests
    BY <1>1 DEF OrderOf, Payment, IInv, TypeOK, NoCall
<1> QED
    BY <1>1, <1>2, ApiAssumption DEF OrderOf, Payment, IsAnswerTo

\* The balances are those of the settled transfers.
LEMMA SettledMoney ==
    ASSUME NEW c \in Calls, IInv, MoneyInv, Settle(c)
    PROVE  MoneyInv'
<1> DEFINE t == order[c]
<1>1. /\ pc[c] \in {"settle", "unknown"} /\ settled' = settled \cup {t} /\ status' = status
      /\ {t.source_account_id, t.destination_account_id} \subseteq DOMAIN status
      /\ t.source_account_id # t.destination_account_id
      /\ \A s \in settled : s.idempotency_key # t.idempotency_key
      /\ balance' = [balance EXCEPT ![t.source_account_id] = @ - t.amount_minor,
                                    ![t.destination_account_id] = @ + t.amount_minor]
    BY DEF Settle, Books!Transfer
<1>2. OrderOf(t, c) /\ call[c] \in Requests
    BY <1>1 DEF IInv, TypeOK, CallInv, OrderInv, OrderOf, Payment, NoCall
<1>3. t.amount_minor \in Nat
    BY <1>2, ApiAssumption DEF OrderOf, Payment, IsAnswerTo
<1>4. t \notin settled /\ \A s \in settled : s.amount_minor \in Nat
    BY <1>1, SettledFacts
<1>5. {t.source_account_id, t.destination_account_id} \subseteq Accounts
    BY <1>1 DEF IInv, TypeOK
<1> HIDE DEF t
<1>6. IsFiniteSet(settled \cup {t})
    BY FS_AddElement DEF MoneyInv
<1>7. balance' \in [Accounts -> Int]
    BY <1>1, <1>3, <1>5 DEF MoneyInv
<1>8. ASSUME NEW a \in Accounts PROVE balance'[a] = BalanceFrom(a, settled \cup {t})
  <2>1. /\ BalanceFrom(a, settled) \in Int
        /\ BalanceFrom(a, settled \cup {t}) =
             BalanceFrom(a, settled) + (IF a = t.destination_account_id THEN t.amount_minor
                                        ELSE IF a = t.source_account_id THEN 0 - t.amount_minor ELSE 0)
    BY <1>1, <1>3, <1>4, BalanceMoves DEF MoneyInv
  <2>2. balance[a] = BalanceFrom(a, settled)
    BY DEF MoneyInv
  <2>3. balance'[a] = balance[a] + (IF a = t.destination_account_id THEN t.amount_minor
                                    ELSE IF a = t.source_account_id THEN 0 - t.amount_minor ELSE 0)
    BY <1>1, <1>3, <1>5 DEF MoneyInv
  <2> QED
    BY <2>1, <2>2, <2>3
<1>9. \A s \in settled' : Involved(s) \subseteq DOMAIN status'
    BY <1>1 DEF MoneyInv, Involved
<1> QED
    BY <1>1, <1>6, <1>7, <1>8, <1>9 DEF MoneyInv

\* Nothing else moves money, and accounts stay.
LEMMA MoneyStays ==
    ASSUME MoneyInv, UNCHANGED <<balance, settled>>, DOMAIN status \subseteq DOMAIN status'
    PROVE  MoneyInv'
<1>1. \A t \in settled' : Involved(t) \subseteq DOMAIN status'
    BY DEF MoneyInv, Involved
<1> QED
    BY <1>1 DEF MoneyInv

\* Every step keeps the balances.
LEMMA NextMoney == IInv /\ MoneyInv /\ [Next]_vars => MoneyInv'
<1> SUFFICES ASSUME IInv, MoneyInv, [Next]_vars PROVE MoneyInv'
    OBVIOUS
<1>1. CASE UNCHANGED books
    BY <1>1, MoneyStays DEF books
<1>2. ASSUME NEW c \in Calls, Settle(c) PROVE MoneyInv'
    BY <1>2, SettledMoney
<1>3. ASSUME NEW c \in Calls, InsertAccount(c) PROVE MoneyInv'
    BY <1>3, MoneyStays DEF InsertAccount, Books!Open
<1>4. ASSUME NEW c \in Calls, Submit(c) \/ Handler(c) \/ Die(c), ~Settle(c), ~InsertAccount(c)
      PROVE  UNCHANGED books
    BY <1>4 DEF Submit, Handler, Die, CheckCurrency, ReadSource, ReadDestination, FindOwned, FindBoundary,
       Reply, Duplicate, Refuse, LoseTrack, FindTransaction, ListOwned, Aggregate, ReadPage
<1>5. CASE Tick
    BY <1>1, <1>5 DEF Tick
<1> QED
    BY <1>1, <1>2, <1>3, <1>4, <1>5 DEF Next, vars

\* The invariant holds at the start: the balances are the opening funds.
LEMMA InitRoutes == Init => RoutesInv
<1> SUFFICES ASSUME Init PROVE RoutesInv
    OBVIOUS
<1>1. MoneyInv
  <2>1. ASSUME NEW a PROVE BalanceFrom(a, settled) = Opening(a) /\ Opening(a) \in Int
    <3>1. /\ {t \in settled : t.destination_account_id = a} = {}
          /\ {t \in settled : t.source_account_id = a} = {}
      BY DEF Init
    <3>2. Opening(a) \in Int
      BY ApiAssumption DEF Opening
    <3>3. BalanceFrom(a, settled) = Opening(a) + Amounts({}) - Amounts({})
      BY <3>1 DEF BalanceFrom
    <3> QED
      BY <3>2, <3>3, AmountsFacts
  <2>2. \A a \in Accounts : balance[a] = Opening(a)
    BY DEF Init, Opening
  <2>3. balance \in [Accounts -> Int]
    BY <2>1, <2>2 DEF Init
  <2> QED
    BY <2>1, <2>2, <2>3, FS_EmptySet DEF MoneyInv, Init
<1>2. LocalType
    BY DEF Init, LocalType
<1>3. ASSUME NEW c \in Calls PROVE OwnerInv(c) /\ ReadInv(c) /\ LookupInv(c) /\ WalkInv(c)
    BY DEF Init, OwnerInv, ReadInv, LookupInv, WalkInv, NoCall
<1> QED
    BY <1>1, <1>2, <1>3, InitIInv DEF RoutesInv

\* Every step keeps the invariant.
LEMMA NextRoutes == RoutesInv /\ [Next]_vars => RoutesInv'
<1> SUFFICES ASSUME RoutesInv, [Next]_vars PROVE RoutesInv'
    OBVIOUS
<1>1. IInv' /\ MoneyInv'
    BY NextIInv, NextMoney DEF RoutesInv
<1>2. IInv /\ MoneyInv /\ LocalType /\ \A c \in Calls : OwnerInv(c) /\ ReadsInv(c)
    BY DEF RoutesInv, ReadsInv
<1>3. CASE UNCHANGED <<books, created_at, call, pc, answer, local>>
  <2>1. /\ UNCHANGED <<status, settled, created_at, call, pc, answer, offset, known, shown>>
        /\ Grows /\ \A c \in Calls : Keeps(c)
    BY <1>2, <1>3 DEF books, local, Grows, Keeps, IInv, TypeOK
  <2>2. LocalType' /\ \A c \in Calls : OwnerInv(c)'
    BY <1>2, <2>1 DEF LocalType, OwnerInv
  <2>3. \A c \in Calls : ReadsInv(c)'
    BY <1>2, <2>1, OthersReads
  <2> QED
    BY <1>1, <2>2, <2>3 DEF RoutesInv, ReadsInv
<1>4. ASSUME NEW c \in Calls, Submit(c) \/ Handler(c) \/ Die(c)
      PROVE  LocalType' /\ \A d \in Calls : OwnerInv(d)' /\ ReadsInv(d)'
  <2>1. /\ Grows /\ \A t \in settled' \ settled : t._id = c
        /\ \A d \in Calls \ {c} : Keeps(d)
    BY <1>2, <1>4, StepsOfOne
  <2>2. Counted \subseteq settled
    BY <1>2 DEF Counted, ReadsInv, ReadInv
  <2>3. LocalType' /\ ReadsInv(c)' /\ OwnerInv(c)'
    BY <1>2, <1>4, <2>1, <2>2, OwnReads, OwnOwner
  <2>4. ASSUME NEW d \in Calls \ {c} PROVE OwnerInv(d)' /\ ReadsInv(d)'
    <3>1. ReadsInv(d)'
      BY <1>2, <2>1, OthersReads
    <3>2. OwnerInv(d)'
      BY <1>2, <2>1 DEF OwnerInv, Keeps
    <3> QED
      BY <3>1, <3>2
  <2> QED
    BY <2>3, <2>4
<1>5. CASE UNCHANGED vars
    BY <1>3, <1>5 DEF vars
<1>6. CASE Tick
    BY <1>3, <1>6 DEF Tick
<1>7. CASE \E c \in Calls : Submit(c) \/ Handler(c) \/ Die(c)
    BY <1>1, <1>4, <1>7 DEF RoutesInv, ReadsInv
<1> QED
    BY <1>5, <1>6, <1>7 DEF Next

\* The invariant of the routes holds in every state.
THEOREM Invariance == Spec => []RoutesInv
<1> QED
    BY InitRoutes, NextRoutes, PTL DEF Spec

\* A transaction is shown to its parties, and to nobody else.
THEOREM ReadByParties == Spec => []PartiesRead
<1>1. RoutesInv => PartiesRead
    BY DEF RoutesInv, LookupInv, PartiesRead
<1> QED
    BY <1>1, Invariance, PTL

\* No balance is behind what a client knew when it asked.
THEOREM BalancesKeepUp == Spec => []BalanceIsNotBehind
<1>1. RoutesInv => BalanceIsNotBehind
    BY DEF RoutesInv, ReadInv, BalanceIsNotBehind
<1> QED
    BY <1>1, Invariance, PTL

\* Whoever reads page after page to the end has seen every account they had.
THEOREM WalksAreWhole == Spec => []WalkMissesNothing
<1>1. RoutesInv => WalkMissesNothing
    BY DEF RoutesInv, WalkInv, WalkMissesNothing
<1> QED
    BY <1>1, Invariance, PTL

-----------------------------------------------------------------------------
(* What an account may lose.                                                 *)

\* The largest of finitely many numbers.
LEMMA MaxOfFinite ==
    ASSUME NEW S \in SUBSET Nat, IsFiniteSet(S), NEW z \in S
    PROVE  Max(S) \in S /\ z <= Max(S)
<1> DEFINE Has(T) == \E x \in T : \A y \in T : x >= y
           N == {n \in Nat : \A T \in SUBSET S : Cardinality(T) = n /\ T # {} => Has(T)}
<1>0. \A T \in SUBSET S : IsFiniteSet(T) /\ Cardinality(T) \in Nat
    BY FS_Subset, FS_CardinalityType
<1>1. 0 \in N
    BY <1>0, FS_EmptySet
<1>2. ASSUME NEW n \in N PROVE n + 1 \in N
  <2> SUFFICES ASSUME NEW T \in SUBSET S, Cardinality(T) = n + 1, T # {} PROVE Has(T)
    OBVIOUS
  <2>1. PICK x \in T : TRUE
    OBVIOUS
  <2>2. CASE T \ {x} = {}
    BY <2>1, <2>2
  <2>3. CASE T \ {x} # {}
    <3>1. Cardinality(T \ {x}) = n
      BY <1>0, <2>1, FS_RemoveElement
    <3>2. PICK m \in T \ {x} : \A y \in T \ {x} : m >= y
      BY <2>3, <3>1
    <3>3. CASE m >= x
      BY <3>2, <3>3
    <3>4. CASE x > m
      BY <3>2, <3>4
    <3> QED
      BY <3>3, <3>4
  <2> QED
    BY <2>2, <2>3
<1>3. N = Nat
  <2> HIDE DEF N
  <2>1. N \in SUBSET Nat
    BY DEF N
  <2> QED
    BY <1>1, <1>2, <2>1, NatInductionOnSets
<1>4. Has(S)
    BY <1>0, <1>3
<1>5. Max(S) \in S /\ \A y \in S : Max(S) >= y
    BY <1>4 DEF Max
<1> QED
    BY <1>5

\* What was asked for is a sum over keys.
LEMMA AskedSum ==
    ASSUME NEW a
    PROVE  AskedFrom(a) = SumOver(MostAsked(a), DOMAIN MostAsked(a))
BY Zenon DEF AskedFrom, MapThenSumSet, MapThenFoldSet, SumOver, SumStep, IsSum

\* Under each key the owner of an account asked for at least what each of their
\* submissions says, and there are finitely many keys.
LEMMA AskedFacts ==
    ASSUME IInv, NEW a
    PROVE  /\ IsFiniteSet(DOMAIN MostAsked(a))
           /\ \A k \in DOMAIN MostAsked(a) : MostAsked(a)[k] \in Nat
           /\ \A c \in Spending(a) : /\ call[c].idempotency_key \in DOMAIN MostAsked(a)
                                     /\ call[c].amount_minor <= MostAsked(a)[call[c].idempotency_key]
<1> DEFINE key == [c \in Spending(a) |-> call[c].idempotency_key]
           Keys == {call[c].idempotency_key : c \in Spending(a)}
           Of(k) == {d \in Spending(a) : call[d].idempotency_key = k}
           Sums(k) == {call[c].amount_minor : c \in Of(k)}
<1>1. Spending(a) \subseteq Calls /\ IsFiniteSet(Spending(a))
    BY ApiAssumption, FS_Subset DEF Spending
<1>2. DOMAIN MostAsked(a) = Keys /\ \A k \in Keys : MostAsked(a)[k] = Max(Sums(k))
    BY DEF MostAsked
<1>3. IsFiniteSet(Keys)
  <2>1. key \in Surjection(Spending(a), Keys)
    BY DEF Surjection
  <2> HIDE DEF key, Keys
  <2> QED
    BY <1>1, <2>1, FS_Surjection
<1>4. \A c \in Spending(a) : call[c].amount_minor \in Nat
    BY <1>1, ApiAssumption DEF Spending, IInv, TypeOK, NoCall
<1>5. ASSUME NEW c \in Spending(a), NEW k, k = call[c].idempotency_key
      PROVE  Max(Sums(k)) \in Nat /\ call[c].amount_minor <= Max(Sums(k))
  <2> DEFINE amount == [d \in Of(k) |-> call[d].amount_minor]
  <2>1. IsFiniteSet(Of(k))
    BY <1>1, FS_Subset
  <2>2. amount \in Surjection(Of(k), Sums(k))
    BY DEF Surjection
  <2>3. IsFiniteSet(Sums(k))
    <3> HIDE DEF amount, Of, Sums
    <3> QED
      BY <2>1, <2>2, FS_Surjection
  <2>4. Sums(k) \in SUBSET Nat /\ call[c].amount_minor \in Sums(k)
    BY <1>4, <1>5
  <2> HIDE DEF Sums
  <2> QED
    BY <2>3, <2>4, MaxOfFinite
<1> HIDE DEF Sums
<1> QED
    BY <1>2, <1>3, <1>5

\* Whichever of the settled transfers are counted, those out of a user's account
\* are under different keys, and each was asked for by the owner.
LEMMA NoMoreThanAsked ==
    ASSUME RoutesInv, NEW a, AccountType[a] = "USER", NEW S \in SUBSET settled
    PROVE  BalanceFrom(a, S) >= Opening(a) - AskedFrom(a)
<1> DEFINE In  == {t \in S : t.destination_account_id = a}
           Out == {t \in S : t.source_account_id = a}
           w   == [t \in Out |-> t.amount_minor]
           key == [t \in Out |-> t.idempotency_key]
           v   == MostAsked(a)
<1>1. /\ IInv /\ IsFiniteSet(settled) /\ \A t \in settled : t.amount_minor \in Nat
    BY SettledFacts DEF RoutesInv, MoneyInv
<1>2. /\ IsFiniteSet(In) /\ IsFiniteSet(Out)
      /\ (\A t \in In : t.amount_minor \in Nat) /\ (\A t \in Out : t.amount_minor \in Nat)
    BY <1>1, FS_Subset
<1>3. ASSUME NEW t \in Out PROVE key[t] \in DOMAIN v /\ w[t] <= v[key[t]]
  <2>1. /\ t \in settled /\ t._id \in Calls /\ OrderOf(t, t._id)
        /\ t.amount_minor = call[t._id].amount_minor
    BY <1>1, SettledFacts
  <2>2. call[t._id].endpoint = "transfer" /\ call[t._id].source_account_id = a
    BY <2>1 DEF OrderOf, Payment, IsAnswerTo
  <2>3. AccountOwner[a] = call[t._id].user
    BY <2>1, <2>2 DEF RoutesInv, OwnerInv
  <2>4. t._id \in Spending(a) /\ t.idempotency_key = call[t._id].idempotency_key
    BY <2>1, <2>2, <2>3 DEF Spending, OrderOf
  <2> QED
    BY <1>1, <2>1, <2>4, AskedFacts
<1>4. \A s, t \in Out : key[s] = key[t] => s = t
    BY <1>1 DEF IInv, KeyInv
<1>5. IsFiniteSet(DOMAIN v) /\ \A k \in DOMAIN v : v[k] \in Int /\ v[k] >= 0
    BY <1>1, AskedFacts
<1>6. Weighs(w, Out)
    BY <1>2 DEF Weighs
<1>7. BalanceFrom(a, S) = Opening(a) + Amounts(In) - Amounts(Out) /\ Opening(a) \in Int
    BY ApiAssumption DEF BalanceFrom, Opening
<1>8. Amounts(Out) = SumOver(w, Out) /\ AskedFrom(a) = SumOver(v, DOMAIN v)
    BY AmountsSum, AskedSum
<1>9. Amounts(In) \in Nat
  <2> DEFINE u == [t \in In |-> t.amount_minor]
  <2>1. \A t \in In : u[t] \in Int /\ u[t] >= 0
    BY <1>2
  <2>2. Amounts(In) = SumOver(u, In)
    BY AmountsSum
  <2> HIDE DEF u, In
  <2> QED
    BY <1>2, <2>1, <2>2, SumOverNatural
<1> HIDE DEF In, Out, w, key, v
<1>10. SumOver(w, Out) <= SumOver(v, DOMAIN v)
    BY <1>2, <1>3, <1>4, <1>5, <1>6, SumOverInto
<1>11. SumOver(w, Out) \in Int /\ SumOver(v, DOMAIN v) \in Int
    BY <1>2, <1>5, <1>6, SumOverType DEF Weighs
<1> QED
    BY <1>7, <1>8, <1>9, <1>10, <1>11

\* No account of a user loses more than its owner asked to be taken from it, and
\* no balance that is shown says so.
THEOREM SpendingIsAsked == Spec => []SpendsOnlyWhatWasAsked
<1>1. RoutesInv => SpendsOnlyWhatWasAsked
  <2> SUFFICES ASSUME RoutesInv, NEW a \in DOMAIN status, AccountType[a] = "USER"
               PROVE  /\ balance[a] >= Opening(a) - AskedFrom(a)
                      /\ \A c \in Calls :
                           call[c].endpoint = "read_balance" /\ answer[c] = "OK"
                             /\ call[c].account_id = a =>
                               BalanceFrom(a, shown[c]) >= Opening(a) - AskedFrom(a)
    BY DEF SpendsOnlyWhatWasAsked
  <2>1. a \in Accounts
    BY DEF RoutesInv, IInv, TypeOK
  <2>2. balance[a] >= Opening(a) - AskedFrom(a)
    BY <2>1, NoMoreThanAsked DEF RoutesInv, MoneyInv
  <2>3. ASSUME NEW c \in Calls, call[c].endpoint = "read_balance"
        PROVE  BalanceFrom(a, shown[c]) >= Opening(a) - AskedFrom(a)
    <3>1. shown[c] \in SUBSET settled
      BY <2>3 DEF RoutesInv, ReadInv
    <3> QED
      BY <3>1, NoMoreThanAsked
  <2> QED
    BY <2>2, <2>3
<1> QED
    BY <1>1, Invariance, PTL

=============================================================================
