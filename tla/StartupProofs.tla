--------------------------- MODULE StartupProofs ---------------------------
(***************************************************************************)
(* However many replicas start side by side, stop and start again: each    *)
(* currency gets one boundary account, and a replica that serves has       *)
(* everything its startup was to prepare.                                  *)
(*                                                                         *)
(* Step is the frame of every proof: the database only grows, so what the  *)
(* other replicas went past is still there, and the step's own replica is  *)
(* what is left to look at.                                                *)
(***************************************************************************)
EXTENDS Startup, FiniteSetTheorems, TLAPS

\* The head of a list is what its loop is done with next.
LEMMA LoopStep ==
    ASSUME NEW S, NEW s \in Seq(S)
    PROVE  /\ ToSet(s) \subseteq S /\ ToSet(<<>>) = {}
           /\ s # <<>> => /\ Head(s) \in ToSet(s) /\ Tail(s) \in Seq(S)
                          /\ ToSet(s) \subseteq ToSet(Tail(s)) \cup {Head(s)}
                          /\ ToSet(Tail(s)) \subseteq ToSet(s)
<1>1. ToSet(s) \subseteq S /\ ToSet(<<>>) = {}
    BY DEF ToSet
<1>2. ASSUME s # <<>>
      PROVE  /\ Head(s) \in ToSet(s) /\ Tail(s) \in Seq(S)
             /\ ToSet(s) \subseteq ToSet(Tail(s)) \cup {Head(s)}
             /\ ToSet(Tail(s)) \subseteq ToSet(s)
  <2>1. Len(s) \in Nat \ {0} /\ DOMAIN s = 1..Len(s)
    BY <1>2
  <2>2. Tail(s) \in Seq(S) /\ Len(Tail(s)) = Len(s) - 1 /\ DOMAIN Tail(s) = 1..(Len(s) - 1)
    BY <1>2, <2>1
  <2>3. \A i \in 1..(Len(s) - 1) : Tail(s)[i] = s[i + 1]
    BY <1>2, <2>1, <2>2
  <2>4. Head(s) = s[1]
    BY <1>2
  <2>5. ASSUME NEW i \in 1..Len(s) PROVE s[i] \in ToSet(Tail(s)) \cup {Head(s)}
    <3>1. CASE i = 1
      BY <2>4, <3>1
    <3>2. CASE i # 1
      <4>1. i - 1 \in 1..(Len(s) - 1) /\ i = (i - 1) + 1
        BY <2>1, <2>5, <3>2
      <4>2. s[i] = Tail(s)[i - 1]
        BY <2>3, <4>1
      <4> QED
        BY <2>2, <4>1, <4>2 DEF ToSet
    <3> QED
      BY <3>1, <3>2
  <2>6. ASSUME NEW i \in 1..(Len(s) - 1) PROVE Tail(s)[i] \in ToSet(s)
    <3>1. i + 1 \in DOMAIN s
      BY <2>1, <2>6
    <3> QED
      BY <2>3, <3>1 DEF ToSet
  <2>7. Head(s) \in ToSet(s)
    BY <2>1, <2>4 DEF ToSet
  <2> QED
    BY <2>1, <2>2, <2>5, <2>6, <2>7 DEF ToSet
<1> QED
    BY <1>1, <1>2

\* Entering a stage concerns one replica.
LEMMA Entered ==
    ASSUME SetupInv, NEW r \in Replicas, NEW next \in Stages, NEW list, Enter(r, next, list)
    PROVE  /\ stage' \in [Replicas -> Stages] /\ DOMAIN todo' = Replicas
           /\ \A q \in Replicas : stage'[q] = IF q = r THEN next ELSE stage[q]
           /\ \A q \in Replicas : todo'[q] = IF q = r THEN list ELSE todo[q]
BY DEF SetupInv, TypeOK, Enter

\* The database only grows: what a replica went past stays there.
LEMMA StaysDone ==
    ASSUME NEW q \in Replicas, Progress(q),
           stage'[q] = stage[q], todo'[q] = todo[q],
           system_account_ids'[q] = system_account_ids[q],
           DOMAIN collections \subseteq DOMAIN collections',
           indexes \subseteq indexes', accounts \subseteq accounts'
    PROVE  Progress(q)'
<1>1. LoopOver(q)' = LoopOver(q) /\ Left(q)' = Left(q)
    BY DEF LoopOver, Left
<1>2. \A c : Knows(q, c) => Knows(q, c)'
    BY DEF Knows
<1> QED
    BY <1>1, <1>2 DEF Progress

\* A step of r that does to the database what any step may.
LEMMA Step ==
    ASSUME SetupInv, NEW r \in Replicas, NEW next \in Stages, NEW list, Enter(r, next, list),
           next \in {"create", "insert", "adopt"} => list # <<>>,
           DOMAIN existing' = Replicas, DOMAIN system_account_ids' = Replicas,
           \A q \in Replicas \ {r} : /\ existing'[q] = existing[q]
                                     /\ system_account_ids'[q] = system_account_ids[q],
           DOMAIN collections \subseteq DOMAIN collections',
           DOMAIN collections' \subseteq ToSet(Collections),
           existing'[r] \subseteq DOMAIN collections',
           DOMAIN system_account_ids'[r] \subseteq Currencies,
           indexes \subseteq indexes', indexes' \subseteq ToSet(Indexes),
           accounts \subseteq accounts', IsFiniteSet(accounts'),
           accounts' \subseteq [id : Nat \ {0}, currency : Currencies], OneBoundary',
           UNCHANGED <<primary, elections>>, stops' \in 0..MaxStops,
           Progress(r)'
    PROVE  SetupInv'
<1>1. /\ stage' \in [Replicas -> Stages] /\ DOMAIN todo' = Replicas
      /\ \A q \in Replicas : stage'[q] = IF q = r THEN next ELSE stage[q]
      /\ \A q \in Replicas : todo'[q] = IF q = r THEN list ELSE todo[q]
    BY Entered
<1>2. ASSUME NEW q \in Replicas
      PROVE  /\ Progress(q)'
             /\ stage'[q] \in {"create", "insert", "adopt"} => todo'[q] # <<>>
             /\ DOMAIN system_account_ids'[q] \subseteq Currencies
             /\ existing'[q] \subseteq DOMAIN collections'
  <2>1. CASE q = r
    BY <1>1, <2>1
  <2>2. CASE q # r
    BY <1>1, <2>2, StaysDone DEF SetupInv, TypeOK
  <2> QED
    BY <2>1, <2>2
<1>3. TypeOK'
  <2>1. \A a \in accounts' : a.id \in Nat \ {0} /\ a.currency \in Currencies
    OBVIOUS
  <2> QED
    BY <1>1, <1>2, <2>1 DEF SetupInv, TypeOK
<1> QED
    BY <1>1, <1>2, <1>3 DEF SetupInv

\* A step of r that reads the database or nothing.
LEMMA ReadingStep ==
    ASSUME SetupInv, NEW r \in Replicas, NEW next \in Stages, NEW list, Enter(r, next, list),
           next \in {"create", "insert", "adopt"} => list # <<>>,
           UNCHANGED <<database, primary, existing, elections>>, stops' \in 0..MaxStops,
           DOMAIN system_account_ids' = Replicas,
           \A q \in Replicas \ {r} : system_account_ids'[q] = system_account_ids[q],
           DOMAIN system_account_ids'[r] \subseteq Currencies,
           Progress(r)'
    PROVE  SetupInv'
<1>1. /\ UNCHANGED <<collections, indexes, accounts, existing, primary, elections>>
      /\ existing[r] \subseteq DOMAIN collections /\ DOMAIN existing = Replicas
      /\ DOMAIN collections \subseteq ToSet(Collections) /\ indexes \subseteq ToSet(Indexes)
      /\ IsFiniteSet(accounts) /\ OneBoundary
      /\ accounts \subseteq [id : Nat \ {0}, currency : Currencies]
    BY DEF SetupInv, TypeOK, database
<1>2. OneBoundary'
    BY <1>1 DEF OneBoundary
<1> QED
    BY <1>1, <1>2, Step

\* A replica that stops has nothing to show.
LEMMA HaltStep ==
    ASSUME SetupInv, NEW r \in Replicas, Halt(r),
           UNCHANGED <<database, primary, existing, system_account_ids, elections>>,
           stops' \in 0..MaxStops
    PROVE  SetupInv'
<1>1. "stopped" \in Stages /\ Enter(r, "stopped", <<>>)
    BY DEF Stages, Halt
<1>2. stage'[r] = "stopped" /\ todo'[r] = <<>>
    BY <1>1, Entered
<1>3. Progress(r)'
    BY <1>2 DEF Progress, LoopOver, Preparing, Provisioning
<1> QED
    BY <1>1, <1>3, ReadingStep DEF SetupInv, TypeOK

\* A loop that goes on keeps what it is over, and is done with its head.
LEMMA Continued ==
    ASSUME SetupInv, NEW r \in Replicas, Continue(r), todo[r] # <<>>,
           stage[r] \in Preparing \cup Provisioning \cup {"indexes"}
    PROVE  \E next \in Stages \ {"create", "insert", "adopt", "serving"} :
             /\ Enter(r, next, Tail(todo[r])) /\ stage'[r] = next
             /\ next \in Preparing <=> stage[r] \in Preparing
             /\ next \in Provisioning <=> stage[r] \in Provisioning
             /\ next = "indexes" <=> stage[r] = "indexes"
             /\ LoopOver(r)' = LoopOver(r)
             /\ todo'[r] \in Seq(ToSet(LoopOver(r)))
             /\ Left(r)' \subseteq Left(r) /\ Left(r) \subseteq Left(r)' \cup {Head(todo[r])}
             /\ Head(todo[r]) \in ToSet(LoopOver(r))
<1> DEFINE next == IF stage[r] = "create" THEN "collections"
                   ELSE IF stage[r] \in {"insert", "adopt"} THEN "boundaries"
                   ELSE stage[r]
<1>1. /\ next \in Stages \ {"create", "insert", "adopt", "serving"}
      /\ next \in Preparing <=> stage[r] \in Preparing
      /\ next \in Provisioning <=> stage[r] \in Provisioning
      /\ next = "indexes" <=> stage[r] = "indexes"
    BY DEF Preparing, Provisioning, Stages
<1>2. Enter(r, next, Tail(todo[r]))
    BY DEF Continue
<1> HIDE DEF next
<1>3. stage'[r] = next /\ todo'[r] = Tail(todo[r])
    BY <1>1, <1>2, Entered
<1>4. LoopOver(r)' = LoopOver(r)
    BY <1>1, <1>3 DEF LoopOver
<1>5. todo[r] \in Seq(ToSet(LoopOver(r)))
    BY DEF SetupInv, Progress
<1>6. /\ Tail(todo[r]) \in Seq(ToSet(LoopOver(r)))
      /\ ToSet(todo[r]) \subseteq ToSet(Tail(todo[r])) \cup {Head(todo[r])}
      /\ ToSet(Tail(todo[r])) \subseteq ToSet(todo[r])
      /\ Head(todo[r]) \in ToSet(LoopOver(r))
    BY <1>5, LoopStep
<1> QED
    BY <1>1, <1>2, <1>3, <1>4, <1>6 DEF Left

-----------------------------------------------------------------------------
(* The loops. *)

\* One collection more is there.
LEMMA CollectionDone ==
    ASSUME SetupInv, NEW r \in Replicas, Continue(r), todo[r] # <<>>, stage[r] \in Preparing,
           DOMAIN collections \subseteq DOMAIN collections',
           Head(todo[r]) \in DOMAIN collections'
    PROVE  Progress(r)'
<1>1. PICK next \in Stages \ {"create", "insert", "adopt", "serving"} :
        /\ stage'[r] = next /\ next \in Preparing
        /\ todo'[r] \in Seq(ToSet(LoopOver(r)')) /\ Left(r) \subseteq Left(r)' \cup {Head(todo[r])}
    BY Continued
<1>2. next \notin {"indexes", "serving"} \cup Provisioning
    BY <1>1 DEF Preparing, Provisioning
<1>3. ToSet(Collections) \subseteq DOMAIN collections \cup Left(r)
    BY DEF SetupInv, Progress
<1>4. ToSet(Collections) \subseteq DOMAIN collections' \cup Left(r)'
    BY <1>1, <1>3
<1> QED
    BY <1>1, <1>2, <1>4 DEF Progress

\* One currency more has its boundary account, and r knows it.
LEMMA CurrencyDone ==
    ASSUME SetupInv, NEW r \in Replicas, Continue(r), todo[r] # <<>>, stage[r] \in Provisioning,
           NEW id, Adopt(r, id),
           [id |-> id, currency |-> Head(todo[r])] \in accounts',
           accounts \subseteq accounts', UNCHANGED <<collections, indexes>>
    PROVE  /\ Progress(r)' /\ DOMAIN system_account_ids' = Replicas
           /\ \A q \in Replicas \ {r} : system_account_ids'[q] = system_account_ids[q]
           /\ DOMAIN system_account_ids'[r] \subseteq Currencies
<1> DEFINE head == Head(todo[r])
           known == system_account_ids[r]
<1>1. PICK next \in Stages \ {"create", "insert", "adopt", "serving"} :
        /\ stage'[r] = next /\ next \in Provisioning
        /\ todo'[r] \in Seq(ToSet(LoopOver(r)')) /\ Left(r) \subseteq Left(r)' \cup {head}
        /\ head \in ToSet(LoopOver(r))
    BY Continued
<1>2. next \notin {"indexes", "serving"} \cup Preparing
    BY <1>1 DEF Preparing, Provisioning
<1>3. LoopOver(r) = Supported[r]
    BY DEF LoopOver, Preparing, Provisioning
<1>4. head \in Currencies
    BY <1>1, <1>3 DEF Currencies
<1>5. /\ DOMAIN system_account_ids' = Replicas
      /\ \A q \in Replicas \ {r} : system_account_ids'[q] = system_account_ids[q]
      /\ DOMAIN system_account_ids'[r] = DOMAIN known \cup {head}
      /\ \A c \in DOMAIN known \cup {head} :
           system_account_ids'[r][c] = IF c = head THEN id ELSE known[c]
    BY DEF Adopt, SetupInv
<1>6. DOMAIN known \subseteq Currencies
    BY DEF SetupInv, TypeOK
<1>7. \A c : Knows(r, c) \/ c = head => Knows(r, c)'
    BY <1>5 DEF Knows
<1>8. /\ ToSet(Collections) \subseteq DOMAIN collections
      /\ ToSet(Indexes) \subseteq indexes
      /\ \A c \in ToSet(Supported[r]) \ Left(r) : Knows(r, c)
    BY DEF SetupInv, Progress
<1>9. \A c \in ToSet(Supported[r]) \ Left(r)' : Knows(r, c)'
    BY <1>1, <1>7, <1>8
<1>10. Progress(r)'
    BY <1>1, <1>2, <1>8, <1>9 DEF Progress
<1> QED
    BY <1>4, <1>5, <1>6, <1>10

-----------------------------------------------------------------------------
(* The steps of a startup. *)

LEMMA ConnectStep ==
    ASSUME SetupInv, NEW r \in Replicas, Connect(r)
    PROVE  SetupInv'
<1>1. /\ Enter(r, "connected", <<>>) /\ "connected" \in Stages
      /\ UNCHANGED <<database, primary, existing, stops, elections>>
    BY DEF Connect, Stages, counters
<1>2. stage'[r] = "connected" /\ todo'[r] = <<>>
    BY <1>1, Entered
<1>3. Progress(r)'
    BY <1>2 DEF Progress, LoopOver, Preparing, Provisioning
<1>4. /\ DOMAIN system_account_ids' = Replicas
      /\ \A q \in Replicas \ {r} : system_account_ids'[q] = system_account_ids[q]
      /\ system_account_ids'[r] = <<>>
    BY DEF Connect, SetupInv
<1>5. DOMAIN system_account_ids'[r] \subseteq Currencies
    BY <1>4
<1>6. stops \in 0..MaxStops
    BY DEF SetupInv, TypeOK
<1> QED
    BY <1>1, <1>3, <1>4, <1>5, <1>6, ReadingStep

LEMMA ListCollectionsStep ==
    ASSUME SetupInv, NEW r \in Replicas, ListCollections(r)
    PROVE  SetupInv'
<1>1. /\ Enter(r, "collections", Collections) /\ "collections" \in Stages
      /\ UNCHANGED <<collections, indexes, accounts, primary, system_account_ids, stops, elections>>
    BY DEF ListCollections, Stages, counters, database
<1>2. stage'[r] = "collections" /\ todo'[r] = Collections
    BY <1>1, Entered
<1>3. Progress(r)'
    BY <1>2, StartupAssumption DEF Progress, LoopOver, Left, Preparing, Provisioning
<1>4. /\ DOMAIN existing' = Replicas /\ existing'[r] = DOMAIN collections
      /\ \A q \in Replicas \ {r} : existing'[q] = existing[q]
    BY DEF ListCollections, SetupInv
<1>5. OneBoundary'
    BY <1>1 DEF SetupInv, OneBoundary
<1> QED
    BY <1>1, <1>3, <1>4, <1>5, Step DEF SetupInv, TypeOK

LEMMA ApplyValidatorStep ==
    ASSUME SetupInv, NEW r \in Replicas, ApplyValidator(r)
    PROVE  SetupInv'
<1>1. PICK name \in existing[r] :
        /\ Handling(r, name) /\ Continue(r)
        /\ collections' = IF name \in Validated
                          THEN [collections EXCEPT ![name] = Version[r]] ELSE collections
        /\ UNCHANGED <<indexes, accounts, primary, existing, system_account_ids, stops, elections>>
    BY DEF ApplyValidator, counters
<1>2. /\ DOMAIN collections' = DOMAIN collections
      /\ Head(todo[r]) \in DOMAIN collections /\ todo[r] # <<>> /\ stage[r] \in Preparing
    BY <1>1 DEF Handling, SetupInv, TypeOK, Preparing
<1>3. Progress(r)'
    BY <1>1, <1>2, CollectionDone
<1>4. PICK next \in Stages \ {"create", "insert", "adopt", "serving"} :
        Enter(r, next, Tail(todo[r]))
    BY <1>1, <1>2, Continued
<1>5. OneBoundary'
    BY <1>1 DEF SetupInv, OneBoundary
<1> QED
    BY <1>1, <1>2, <1>3, <1>4, <1>5, Step DEF SetupInv, TypeOK

\* Going on with the next collection, the database as it was.
LEMMA ThereAlready ==
    ASSUME SetupInv, NEW r \in Replicas, Continue(r), todo[r] # <<>>, stage[r] \in Preparing,
           Head(todo[r]) \in DOMAIN collections,
           UNCHANGED <<database, primary, existing, system_account_ids, counters>>
    PROVE  SetupInv'
<1>1. Progress(r)'
    BY CollectionDone DEF database
<1>2. PICK next \in Stages \ {"create", "insert", "adopt", "serving"} :
        Enter(r, next, Tail(todo[r]))
    BY Continued
<1>3. /\ DOMAIN system_account_ids' = Replicas
      /\ \A q \in Replicas \ {r} : system_account_ids'[q] = system_account_ids[q]
      /\ DOMAIN system_account_ids'[r] \subseteq Currencies
      /\ stops' \in 0..MaxStops /\ UNCHANGED elections
    BY DEF SetupInv, TypeOK, counters
<1> QED
    BY <1>1, <1>2, <1>3, ReadingStep

LEMMA CheckAbsentStep ==
    ASSUME SetupInv, NEW r \in Replicas, CheckAbsent(r)
    PROVE  SetupInv'
<1>1. PICK name \in ToSet(Collections) \ existing[r] :
        /\ Handling(r, name)
        /\ IF name \in DOMAIN collections THEN Continue(r) ELSE Enter(r, "create", todo[r])
        /\ UNCHANGED <<database, primary, existing, system_account_ids, counters>>
    BY DEF CheckAbsent
<1>2. stage[r] = "collections" /\ todo[r] # <<>> /\ Head(todo[r]) = name
    BY <1>1 DEF Handling
<1>3. CASE name \in DOMAIN collections
    BY <1>1, <1>2, <1>3, ThereAlready DEF Preparing
<1>4. CASE name \notin DOMAIN collections
  <2>1. Enter(r, "create", todo[r]) /\ "create" \in Stages
    BY <1>1, <1>4 DEF Stages
  <2>2. stage'[r] = "create" /\ todo'[r] = todo[r]
    BY <2>1, Entered
  <2>3. /\ todo[r] \in Seq(ToSet(Collections))
        /\ ToSet(Collections) \subseteq DOMAIN collections \cup Left(r)
    BY <1>2 DEF SetupInv, Progress, LoopOver, Preparing
  <2>4. Progress(r)'
    BY <1>1, <2>2, <2>3 DEF Progress, LoopOver, Left, Preparing, Provisioning, database
  <2>5. /\ DOMAIN system_account_ids' = Replicas
        /\ \A q \in Replicas \ {r} : system_account_ids'[q] = system_account_ids[q]
        /\ DOMAIN system_account_ids'[r] \subseteq Currencies
        /\ stops' \in 0..MaxStops /\ UNCHANGED elections
    BY <1>1 DEF SetupInv, TypeOK, counters
  <2> QED
    BY <1>1, <1>2, <2>1, <2>4, <2>5, ReadingStep
<1> QED
    BY <1>3, <1>4

\* A replica about to create, insert or adopt has an item in hand.
LEMMA InHand ==
    ASSUME SetupInv, NEW r \in Replicas, stage[r] \in {"create", "insert", "adopt"}
    PROVE  todo[r] # <<>> /\ Head(todo[r]) \in ToSet(LoopOver(r))
<1>1. todo[r] # <<>> /\ todo[r] \in Seq(ToSet(LoopOver(r)))
    BY DEF SetupInv, TypeOK, Progress
<1> QED
    BY <1>1, LoopStep

LEMMA CreateStep ==
    ASSUME SetupInv, NEW r \in Replicas, Create(r)
    PROVE  SetupInv'
<1>1. /\ stage[r] = "create" /\ Continue(r)
      /\ DOMAIN collections' = DOMAIN collections \cup {Head(todo[r])}
      /\ UNCHANGED <<indexes, accounts, primary, existing, system_account_ids, stops, elections>>
    BY DEF Create, counters
<1>2. todo[r] # <<>> /\ Head(todo[r]) \in ToSet(Collections) /\ stage[r] \in Preparing
    BY <1>1, InHand DEF LoopOver, Preparing
<1>3. Progress(r)'
    BY <1>1, <1>2, CollectionDone
<1>4. PICK next \in Stages \ {"create", "insert", "adopt", "serving"} :
        Enter(r, next, Tail(todo[r]))
    BY <1>1, <1>2, Continued
<1>5. OneBoundary'
    BY <1>1 DEF SetupInv, OneBoundary
<1> QED
    BY <1>1, <1>2, <1>3, <1>4, <1>5, Step DEF SetupInv, TypeOK

LEMMA CreateTooLateStep ==
    ASSUME SetupInv, NEW r \in Replicas, CreateTooLate(r)
    PROVE  SetupInv'
<1>1. /\ stage[r] = "create" /\ Head(todo[r]) \in DOMAIN collections
      /\ UNCHANGED <<database, primary, existing, system_account_ids, counters>>
      /\ Continue(r) \/ Halt(r)
    BY DEF CreateTooLate
<1>2. todo[r] # <<>> /\ stage[r] \in Preparing
    BY <1>1, InHand DEF Preparing
<1>3. CASE Continue(r)
    BY <1>1, <1>2, <1>3, ThereAlready
<1>4. CASE Halt(r)
    BY <1>1, <1>4, HaltStep DEF SetupInv, TypeOK, counters
<1> QED
    BY <1>1, <1>3, <1>4

LEMMA CreateIndexStep ==
    ASSUME SetupInv, NEW r \in Replicas, CreateIndex(r)
    PROVE  SetupInv'
<1>1. /\ stage[r] = "indexes" /\ todo[r] # <<>>
      /\ UNCHANGED <<collections, accounts, primary, existing, system_account_ids, stops, elections>>
      /\ \/ Halt(r) /\ UNCHANGED indexes
         \/ Continue(r) /\ indexes' = indexes \cup {Head(todo[r])}
    BY DEF CreateIndex, counters
<1>2. CASE Halt(r) /\ UNCHANGED indexes
    BY <1>1, <1>2, HaltStep DEF SetupInv, TypeOK, database
<1>3. CASE Continue(r) /\ indexes' = indexes \cup {Head(todo[r])}
  <2>1. LoopOver(r) = Indexes
    BY <1>1 DEF LoopOver, Preparing, Provisioning
  <2>2. PICK next \in Stages \ {"create", "insert", "adopt", "serving"} :
          /\ Enter(r, next, Tail(todo[r])) /\ stage'[r] = next /\ next = "indexes"
          /\ todo'[r] \in Seq(ToSet(LoopOver(r)')) /\ Left(r) \subseteq Left(r)' \cup {Head(todo[r])}
          /\ Head(todo[r]) \in ToSet(Indexes)
    BY <1>1, <1>3, <2>1, Continued
  <2>3. /\ ToSet(Collections) \subseteq DOMAIN collections
        /\ ToSet(Indexes) \subseteq indexes \cup Left(r)
    BY <1>1 DEF SetupInv, Progress
  <2>4. ToSet(Indexes) \subseteq indexes' \cup Left(r)'
    BY <1>3, <2>2, <2>3
  <2>5. Progress(r)'
    BY <1>1, <2>2, <2>3, <2>4 DEF Progress, Preparing, Provisioning
  <2>6. OneBoundary'
    BY <1>1 DEF SetupInv, OneBoundary
  <2> QED
    BY <1>1, <1>3, <2>2, <2>5, <2>6, Step DEF SetupInv, TypeOK
<1> QED
    BY <1>1, <1>2, <1>3

\* The account of a currency is the record of its id and the currency.
LEMMA BoundaryRecord ==
    ASSUME SetupInv, NEW c, NEW a \in BoundariesOf(c)
    PROVE  [id |-> a.id, currency |-> c] \in accounts
<1>1. a \in [id : Nat \ {0}, currency : Currencies] /\ a.currency = c /\ a \in accounts
    BY DEF SetupInv, BoundariesOf
<1>2. a = [id |-> a.id, currency |-> a.currency]
    BY <1>1
<1> QED
    BY <1>1, <1>2

\* Reading the id of an account that is there.
LEMMA AdoptingStep ==
    ASSUME SetupInv, NEW r \in Replicas, stage[r] \in Provisioning, todo[r] # <<>>,
           NEW a \in BoundariesOf(Head(todo[r])), Adopt(r, a.id), Continue(r),
           UNCHANGED <<database, primary, existing, counters>>
    PROVE  SetupInv'
<1>1. [id |-> a.id, currency |-> Head(todo[r])] \in accounts
    BY BoundaryRecord
<1>2. /\ Progress(r)' /\ DOMAIN system_account_ids' = Replicas
      /\ \A q \in Replicas \ {r} : system_account_ids'[q] = system_account_ids[q]
      /\ DOMAIN system_account_ids'[r] \subseteq Currencies
    BY <1>1, CurrencyDone DEF database
<1>3. PICK next \in Stages \ {"create", "insert", "adopt", "serving"} :
        Enter(r, next, Tail(todo[r]))
    BY Continued
<1>4. stops' \in 0..MaxStops /\ UNCHANGED elections
    BY DEF SetupInv, TypeOK, counters
<1> QED
    BY <1>2, <1>3, <1>4, ReadingStep

\* Keeping the currency in hand, on the way to another operation for it.
LEMMA InHandStep ==
    ASSUME SetupInv, NEW r \in Replicas, stage[r] \in Provisioning, todo[r] # <<>>,
           NEW next \in {"insert", "adopt"}, Enter(r, next, todo[r]),
           UNCHANGED <<database, primary, existing, system_account_ids, counters>>
    PROVE  SetupInv'
<1>1. next \in Stages /\ next \in Provisioning /\ next \notin {"indexes", "serving"} \cup Preparing
    BY DEF Stages, Provisioning, Preparing
<1>2. stage'[r] = next /\ todo'[r] = todo[r]
    BY <1>1, Entered
<1>3. LoopOver(r)' = LoopOver(r) /\ Left(r)' = Left(r) /\ \A c : Knows(r, c)' <=> Knows(r, c)
    BY <1>1, <1>2 DEF LoopOver, Left, Knows, database, Preparing, Provisioning
<1>4. Progress(r)'
    BY <1>1, <1>2, <1>3 DEF SetupInv, Progress, database
<1>5. /\ DOMAIN system_account_ids' = Replicas
      /\ \A q \in Replicas \ {r} : system_account_ids'[q] = system_account_ids[q]
      /\ DOMAIN system_account_ids'[r] \subseteq Currencies
      /\ stops' \in 0..MaxStops /\ UNCHANGED elections
    BY DEF SetupInv, TypeOK, counters
<1> QED
    BY <1>1, <1>4, <1>5, ReadingStep

LEMMA FindBoundaryStep ==
    ASSUME SetupInv, NEW r \in Replicas, FindBoundary(r)
    PROVE  SetupInv'
<1>1. /\ stage[r] \in Provisioning /\ todo[r] # <<>>
      /\ UNCHANGED <<database, primary, existing, counters>>
    BY DEF FindBoundary, Provisioning
<1>2. ASSUME NEW a \in BoundariesOf(Head(todo[r])), Adopt(r, a.id), Continue(r)
      PROVE  SetupInv'
    BY <1>1, <1>2, AdoptingStep
<1>3. CASE Enter(r, "insert", todo[r]) /\ UNCHANGED system_account_ids
    BY <1>1, <1>3, InHandStep
<1> QED
    BY <1>2, <1>3 DEF FindBoundary

\* The heart: past the indexes, uq_system_account_per_currency lets an insert
\* through only where there is no boundary account yet.
LEMMA InsertBoundaryStep ==
    ASSUME SetupInv, NEW r \in Replicas, InsertBoundary(r)
    PROVE  SetupInv'
<1> DEFINE head == Head(todo[r])
           account == [id |-> Cardinality(accounts) + 1, currency |-> head]
<1>1. /\ stage[r] = "insert" /\ stage[r] \in Provisioning
      /\ UNCHANGED <<collections, indexes, primary, existing, stops, elections>>
    BY DEF InsertBoundary, Provisioning, counters
<1>2. todo[r] # <<>> /\ head \in ToSet(Supported[r])
    BY <1>1, InHand DEF LoopOver, Preparing, Provisioning
<1>3. BoundaryIndex \in indexes
    BY <1>1, StartupAssumption DEF SetupInv, Progress
<1>4. CASE BoundariesOf(head) # {}
  <2>1. /\ Enter(r, "adopt", todo[r])
        /\ UNCHANGED <<database, primary, existing, system_account_ids, counters>>
    BY <1>1, <1>3, <1>4 DEF InsertBoundary, database, counters
  <2> QED
    BY <1>1, <1>2, <2>1, InHandStep
<1>5. CASE BoundariesOf(head) = {}
  <2>1. /\ accounts' = accounts \cup {account} /\ Adopt(r, account.id) /\ Continue(r)
    BY <1>3, <1>5 DEF InsertBoundary, Insert
  <2>2. IsFiniteSet(accounts) /\ Cardinality(accounts) \in Nat
    BY FS_CardinalityType DEF SetupInv
  <2>3. /\ IsFiniteSet(accounts') /\ head \in Currencies
        /\ accounts' \subseteq [id : Nat \ {0}, currency : Currencies]
    <3>1. head \in Currencies
      BY <1>2 DEF Currencies
    <3>2. account \in [id : Nat \ {0}, currency : Currencies]
      BY <2>2, <3>1
    <3> QED
      BY <2>1, <2>2, <3>1, <3>2, FS_AddElement DEF SetupInv
  <2>4. OneBoundary'
    <3>1. \A a \in accounts : a.currency # head
      BY <1>5 DEF BoundariesOf
    <3>2. account.currency = head
      OBVIOUS
    <3> HIDE DEF account
    <3> QED
      BY <2>1, <3>1, <3>2 DEF SetupInv, OneBoundary
  <2>5. [id |-> account.id, currency |-> head] \in accounts'
    BY <2>1
  <2> HIDE DEF account
  <2>6. /\ Progress(r)' /\ DOMAIN system_account_ids' = Replicas
        /\ \A q \in Replicas \ {r} : system_account_ids'[q] = system_account_ids[q]
        /\ DOMAIN system_account_ids'[r] \subseteq Currencies
    BY <1>1, <1>2, <2>1, <2>5, CurrencyDone
  <2>7. PICK next \in Stages \ {"create", "insert", "adopt", "serving"} :
          Enter(r, next, Tail(todo[r]))
    BY <1>1, <1>2, <2>1, Continued
  <2> QED
    BY <1>1, <2>1, <2>3, <2>4, <2>6, <2>7, Step DEF SetupInv, TypeOK
<1> QED
    BY <1>4, <1>5

LEMMA AdoptWinnerStep ==
    ASSUME SetupInv, NEW r \in Replicas, AdoptWinner(r)
    PROVE  SetupInv'
<1>1. stage[r] \in Provisioning /\ todo[r] # <<>>
    BY InHand DEF AdoptWinner, Provisioning
<1> QED
    BY <1>1, AdoptingStep DEF AdoptWinner

\* A loop that is over has left nothing out.
LEMMA StageDoneStep ==
    ASSUME SetupInv, NEW r \in Replicas, StageDone(r)
    PROVE  SetupInv'
<1>1. todo[r] = <<>> /\ UNCHANGED <<database, primary, existing, system_account_ids, counters>>
    BY DEF StageDone
<1>2. Left(r) = {}
    BY <1>1 DEF Left, ToSet
<1>3. \A c : Knows(r, c)' <=> Knows(r, c)
    BY <1>1 DEF Knows, database
<1>4. ASSUME NEW next \in {"indexes", "boundaries", "serving"}, NEW list,
             Enter(r, next, list), Progress(r)'
      PROVE  SetupInv'
  <2>1. next \in Stages
    BY DEF Stages
  <2>2. /\ DOMAIN system_account_ids' = Replicas
        /\ \A q \in Replicas \ {r} : system_account_ids'[q] = system_account_ids[q]
        /\ DOMAIN system_account_ids'[r] \subseteq Currencies
        /\ stops' \in 0..MaxStops /\ UNCHANGED elections
    BY <1>1 DEF SetupInv, TypeOK, counters
  <2> QED
    BY <1>1, <1>4, <2>1, <2>2, ReadingStep
<1>5. CASE stage[r] = "collections" /\ Enter(r, "indexes", Indexes)
  <2>1. stage'[r] = "indexes" /\ todo'[r] = Indexes
    BY <1>5, Entered DEF Stages
  <2>2. ToSet(Collections) \subseteq DOMAIN collections
    BY <1>2, <1>5 DEF SetupInv, Progress, Preparing
  <2>3. Progress(r)'
    BY <1>1, <2>1, <2>2, StartupAssumption
    DEF Progress, LoopOver, Left, Preparing, Provisioning, database
  <2> QED
    BY <1>4, <1>5, <2>3
<1>6. CASE stage[r] = "indexes" /\ Enter(r, "boundaries", Supported[r])
  <2>1. stage'[r] = "boundaries" /\ todo'[r] = Supported[r]
    BY <1>6, Entered DEF Stages
  <2>2. ToSet(Collections) \subseteq DOMAIN collections /\ ToSet(Indexes) \subseteq indexes
    BY <1>2, <1>6 DEF SetupInv, Progress
  <2>3. Progress(r)'
    BY <1>1, <2>1, <2>2, StartupAssumption
    DEF Progress, LoopOver, Left, Preparing, Provisioning, database
  <2> QED
    BY <1>4, <1>6, <2>3
<1>7. CASE stage[r] = "boundaries" /\ Enter(r, "serving", <<>>)
  <2>1. stage'[r] = "serving" /\ todo'[r] = <<>>
    BY <1>7, Entered DEF Stages
  <2>2. /\ ToSet(Collections) \subseteq DOMAIN collections /\ ToSet(Indexes) \subseteq indexes
        /\ \A c \in ToSet(Supported[r]) : Knows(r, c)
    BY <1>2, <1>7 DEF SetupInv, Progress, Provisioning
  <2>3. Progress(r)'
    BY <1>1, <1>3, <2>1, <2>2
    DEF Progress, LoopOver, Preparing, Provisioning, database
  <2> QED
    BY <1>4, <1>7, <2>3
<1> QED
    BY <1>5, <1>6, <1>7 DEF StageDone

-----------------------------------------------------------------------------

LEMMA InitSetup == Init => SetupInv
<1> SUFFICES ASSUME Init PROVE SetupInv
    OBVIOUS
<1>1. PICK d \in Deployments :
        collections = d.collections /\ indexes = d.indexes /\ accounts = d.accounts
    BY DEF Init
<1>2. /\ DOMAIN collections \subseteq ToSet(Collections) /\ indexes \subseteq ToSet(Indexes)
      /\ IsFiniteSet(accounts) /\ accounts \subseteq [id : Nat \ {0}, currency : Currencies]
      /\ OneBoundary
    BY <1>1, DeploymentsAssumption DEF OneBoundary
<1>3. ASSUME NEW r \in Replicas PROVE Progress(r)
    BY DEF Init, Progress, LoopOver, Preparing, Provisioning
<1>4. TypeOK
  <2>1. DOMAIN <<>> \subseteq Currencies
    OBVIOUS
  <2>2. 0 \in 0..MaxStops /\ 0 \in 0..MaxElections
    BY StartupAssumption
  <2> QED
    BY <1>2, <2>1, <2>2 DEF Init, TypeOK, Stages
<1> QED
    BY <1>2, <1>3, <1>4 DEF Init, SetupInv

LEMMA NextSetup == SetupInv /\ [Next]_vars => SetupInv'
<1> SUFFICES ASSUME SetupInv, [Next]_vars PROVE SetupInv'
    OBVIOUS
<1>1. ASSUME NEW r \in Replicas, Startup(r) PROVE SetupInv'
    BY <1>1, ConnectStep, ListCollectionsStep, ApplyValidatorStep, CheckAbsentStep, CreateStep,
       CreateTooLateStep, CreateIndexStep, FindBoundaryStep, InsertBoundaryStep,
       AdoptWinnerStep, StageDoneStep
    DEF Startup
<1>2. ASSUME NEW r \in Replicas, Stop(r) PROVE SetupInv'
  <2>1. stops' \in 0..MaxStops
    BY <1>2, StartupAssumption DEF Stop, SetupInv, TypeOK
  <2> QED
    BY <1>2, <2>1, HaltStep DEF Stop
<1>3. ASSUME NEW r \in Replicas, SelectionTimeout(r) PROVE SetupInv'
    BY <1>3, HaltStep DEF SelectionTimeout, SetupInv, TypeOK, counters
<1>4. CASE UNCHANGED <<database, replica>> /\ TypeOK'
    BY <1>4 DEF database, replica, SetupInv, OneBoundary, Progress, LoopOver, Left, Knows
<1>5. CASE LosePrimary \/ ElectPrimary \/ UNCHANGED vars
  <2>1. UNCHANGED <<database, replica>> /\ primary' \in BOOLEAN
    BY <1>5 DEF LosePrimary, ElectPrimary, vars, SetupInv, TypeOK
  <2>2. stops' \in 0..MaxStops /\ elections' \in 0..MaxElections
    BY <1>5, StartupAssumption
    DEF LosePrimary, ElectPrimary, vars, counters, SetupInv, TypeOK
  <2>3. TypeOK'
    BY <2>1, <2>2 DEF SetupInv, TypeOK, database, replica
  <2> QED
    BY <1>4, <2>1, <2>3
<1> QED
    BY <1>1, <1>2, <1>3, <1>5 DEF Next

\* The inductive invariant of the startup, for any number of replicas of any
\* versions, any lists and any number of stops and elections.
THEOREM Setup == Spec => []SetupInv
<1> QED
    BY InitSetup, NextSetup, PTL DEF Spec

\* Every state of a startup is well typed.
THEOREM TypeCorrect == Spec => []TypeOK
<1>1. SetupInv => TypeOK
    BY DEF SetupInv
<1> QED
    BY <1>1, Setup, PTL

\* A currency never has two boundary accounts, whoever raced or stopped when.
THEOREM BoundaryIsUnique == Spec => []OneBoundary
<1>1. SetupInv => OneBoundary
    BY DEF SetupInv
<1> QED
    BY <1>1, Setup, PTL

-----------------------------------------------------------------------------
(* Replicas of one version. *)

\* The validator of the collection is in force for r, or r is yet to see to it.
Forced(r, name) ==
    \/ stage[r] \in {"stopped", "connected"}
    \/ stage[r] \in Preparing /\ name \in existing[r] \cap Left(r)
    \/ collections[name] = Version[r]

\* A validator that is replaced is replaced by the same.
LEMMA ForcedByOthers ==
    ASSUME OneVersion, ValidatorsInv, NEW r \in Replicas,
           \A q \in Replicas \ {r} :
               stage'[q] = stage[q] /\ todo'[q] = todo[q] /\ existing'[q] = existing[q],
           \A name \in Validated \cap DOMAIN collections' :
               \/ collections'[name] = Version[r]
               \/ name \in DOMAIN collections /\ collections'[name] = collections[name],
           \A name \in Validated \cap DOMAIN collections' : Forced(r, name)'
    PROVE  ValidatorsInv'
<1> SUFFICES ASSUME NEW q \in Replicas, NEW name \in Validated \cap DOMAIN collections'
             PROVE  Forced(q, name)'
    BY DEF ValidatorsInv, Forced
<1>1. CASE q # r
  <2>1. Version[q] = Version[r]
    BY DEF OneVersion
  <2>2. CASE collections'[name] = Version[r]
    BY <2>1, <2>2 DEF Forced
  <2>3. CASE name \in DOMAIN collections /\ collections'[name] = collections[name]
    BY <1>1, <2>3 DEF ValidatorsInv, Forced, Left
  <2> QED
    BY <2>2, <2>3
<1> QED
    BY <1>1

\* A replica that goes on past a collection whose validator it has seen to.
LEMMA ForcedOn ==
    ASSUME SetupInv, OneVersion, ValidatorsInv, NEW r \in Replicas, Continue(r),
           todo[r] # <<>>, stage[r] \in Preparing, UNCHANGED existing,
           \A name \in Validated \cap DOMAIN collections' :
               \/ collections'[name] = Version[r]
               \/ /\ name \in DOMAIN collections /\ collections'[name] = collections[name]
                  /\ name # Head(todo[r]) \/ name \notin existing[r]
    PROVE  ValidatorsInv'
<1>1. PICK next \in Stages \ {"create", "insert", "adopt", "serving"} :
        /\ Enter(r, next, Tail(todo[r])) /\ stage'[r] = next /\ next \in Preparing
        /\ Left(r) \subseteq Left(r)' \cup {Head(todo[r])}
    BY Continued
<1>2. \A q \in Replicas \ {r} : stage'[q] = stage[q] /\ todo'[q] = todo[q]
    BY <1>1, Entered
<1>3. ASSUME NEW name \in Validated \cap DOMAIN collections' PROVE Forced(r, name)'
  <2>1. CASE collections'[name] = Version[r]
    BY <2>1 DEF Forced
  <2>2. CASE /\ name \in DOMAIN collections /\ collections'[name] = collections[name]
             /\ name # Head(todo[r]) \/ name \notin existing[r]
    <3>1. name \in existing[r] \cap Left(r) \/ collections[name] = Version[r]
      BY <2>2 DEF ValidatorsInv, Preparing
    <3> QED
      BY <1>1, <2>2, <3>1 DEF Forced
  <2> QED
    BY <2>1, <2>2
<1> QED
    BY <1>2, <1>3, ForcedByOthers

\* A replica that is starting anew, or has been through the collections.
LEMMA ForcedElsewhere ==
    ASSUME SetupInv, OneVersion, ValidatorsInv, NEW r \in Replicas,
           NEW next \in Stages, NEW list, Enter(r, next, list), UNCHANGED <<collections, existing>>,
           \/ next \in {"stopped", "connected"}
           \/ \A name \in Validated \cap DOMAIN collections : collections[name] = Version[r]
    PROVE  ValidatorsInv'
<1>1. /\ stage'[r] = next
      /\ \A q \in Replicas \ {r} : stage'[q] = stage[q] /\ todo'[q] = todo[q]
    BY Entered
<1>2. \A name \in Validated \cap DOMAIN collections' : Forced(r, name)'
    BY <1>1 DEF Forced
<1> QED
    BY <1>1, <1>2, ForcedByOthers

\* The steps among the collections.
LEMMA PreparingForces ==
    ASSUME SetupInv, OneVersion, ValidatorsInv, NEW r \in Replicas,
           \/ ListCollections(r) \/ ApplyValidator(r) \/ CheckAbsent(r)
           \/ Create(r) \/ CreateTooLate(r)
    PROVE  ValidatorsInv'
<1>1. CASE ListCollections(r)
  <2>1. /\ Enter(r, "collections", Collections) /\ "collections" \in Stages
        /\ UNCHANGED collections
    BY <1>1 DEF ListCollections, Stages, database
  <2>2. /\ stage'[r] = "collections" /\ todo'[r] = Collections
        /\ \A q \in Replicas \ {r} : stage'[q] = stage[q] /\ todo'[q] = todo[q]
    BY <2>1, Entered
  <2>3. existing'[r] = DOMAIN collections /\ \A q \in Replicas \ {r} : existing'[q] = existing[q]
    BY <1>1 DEF ListCollections, SetupInv
  <2>4. \A name \in Validated \cap DOMAIN collections' : Forced(r, name)'
    BY <2>1, <2>2, <2>3, StartupAssumption DEF Forced, Left, Preparing
  <2> QED
    BY <2>1, <2>2, <2>3, <2>4, ForcedByOthers
<1>2. CASE ApplyValidator(r)
  <2>1. PICK name \in existing[r] :
          /\ Handling(r, name) /\ Continue(r) /\ UNCHANGED existing
          /\ collections' = IF name \in Validated
                            THEN [collections EXCEPT ![name] = Version[r]] ELSE collections
    BY <1>2 DEF ApplyValidator
  <2>2. \A n \in Validated \cap DOMAIN collections' :
          \/ collections'[n] = Version[r]
          \/ n \in DOMAIN collections /\ collections'[n] = collections[n] /\ n # name
    BY <2>1
  <2> QED
    BY <2>1, <2>2, ForcedOn DEF Handling, Preparing
<1>3. CASE CheckAbsent(r)
  <2>1. PICK name \in ToSet(Collections) \ existing[r] :
          /\ stage[r] = "collections" /\ todo[r] # <<>> /\ Head(todo[r]) = name
          /\ IF name \in DOMAIN collections THEN Continue(r) ELSE Enter(r, "create", todo[r])
          /\ UNCHANGED <<collections, existing>>
    BY <1>3 DEF CheckAbsent, Handling, database
  <2>2. CASE Continue(r)
    BY <2>1, <2>2, ForcedOn DEF Preparing
  <2>3. CASE Enter(r, "create", todo[r])
    <3>1. /\ stage'[r] = "create" /\ Left(r)' = Left(r)
          /\ \A q \in Replicas \ {r} : stage'[q] = stage[q] /\ todo'[q] = todo[q]
      BY <2>3, Entered DEF Stages, Left
    <3>2. \A n \in Validated \cap DOMAIN collections' : Forced(r, n)'
      BY <2>1, <3>1 DEF ValidatorsInv, Forced, Preparing
    <3> QED
      BY <2>1, <3>1, <3>2, ForcedByOthers
  <2> QED
    BY <2>1, <2>2, <2>3
<1>4. CASE Create(r)
  <2>1. /\ stage[r] \in Preparing /\ todo[r] # <<>> /\ Continue(r) /\ UNCHANGED existing
    BY <1>4, InHand DEF Create, Preparing
  <2>2. \A n \in Validated \cap DOMAIN collections' :
          \/ collections'[n] = Version[r]
          \/ n \in DOMAIN collections /\ collections'[n] = collections[n] /\ n # Head(todo[r])
    BY <1>4 DEF Create, ValidatorOf
  <2> QED
    BY <2>1, <2>2, ForcedOn
<1>5. CASE CreateTooLate(r)
  <2>1. stage[r] \in Preparing /\ todo[r] # <<>> /\ UNCHANGED <<collections, existing>>
    BY <1>5, InHand DEF CreateTooLate, Preparing, database
  <2>2. CASE Continue(r) /\ collections[Head(todo[r])] = ValidatorOf(r, Head(todo[r]))
    <3>1. \A n \in Validated \cap DOMAIN collections' :
            \/ collections'[n] = Version[r]
            \/ n \in DOMAIN collections /\ collections'[n] = collections[n] /\ n # Head(todo[r])
      BY <2>1, <2>2 DEF ValidatorOf
    <3> QED
      BY <2>1, <2>2, <3>1, ForcedOn
  <2>3. CASE Halt(r)
    BY <2>1, <2>3, ForcedElsewhere DEF Halt, Stages
  <2> QED
    BY <1>5, <2>2, <2>3 DEF CreateTooLate
<1> QED
    BY <1>1, <1>2, <1>3, <1>4, <1>5

\* The steps after them, which enter some stage and leave the collections alone.
LEMMA LaterStages ==
    ASSUME SetupInv, NEW r \in Replicas,
           CreateIndex(r) \/ FindBoundary(r) \/ InsertBoundary(r) \/ AdoptWinner(r)
    PROVE  /\ stage[r] \in Provisioning \cup {"indexes"} /\ UNCHANGED <<collections, existing>>
           /\ \E next \in Stages : \E list : Enter(r, next, list)
<1>1. stage[r] \in Provisioning \cup {"indexes"} /\ UNCHANGED <<collections, existing>>
    BY DEF CreateIndex, FindBoundary, InsertBoundary, AdoptWinner, Provisioning, database
<1>2. todo[r] # <<>>
    BY InHand DEF CreateIndex, FindBoundary, InsertBoundary, AdoptWinner
<1>3. \/ Continue(r) \/ Halt(r)
      \/ Enter(r, "insert", todo[r]) \/ Enter(r, "adopt", todo[r])
    BY DEF CreateIndex, FindBoundary, InsertBoundary, Insert, AdoptWinner
<1>4. CASE Continue(r)
    BY <1>1, <1>2, <1>4, Continued
<1>5. CASE Halt(r) \/ Enter(r, "insert", todo[r]) \/ Enter(r, "adopt", todo[r])
  <2>1. "stopped" \in Stages /\ "insert" \in Stages /\ "adopt" \in Stages
    BY DEF Stages
  <2> QED
    BY <1>1, <1>5, <2>1 DEF Halt
<1> QED
    BY <1>1, <1>3, <1>4, <1>5

LEMMA NextForces == SetupInv /\ OneVersion /\ ValidatorsInv /\ [Next]_vars => ValidatorsInv'
<1> SUFFICES ASSUME SetupInv, OneVersion, ValidatorsInv, [Next]_vars PROVE ValidatorsInv'
    OBVIOUS
<1>1. ASSUME NEW r \in Replicas, stage[r] \in Provisioning \cup {"indexes"}
      PROVE  \A name \in Validated \cap DOMAIN collections : collections[name] = Version[r]
    BY <1>1 DEF ValidatorsInv, Provisioning, Preparing
<1>2. ASSUME NEW r \in Replicas, StageDone(r) PROVE ValidatorsInv'
  <2>1. /\ UNCHANGED <<collections, existing>>
        /\ \E next \in Stages : \E list : Enter(r, next, list)
    BY <1>2 DEF StageDone, Stages, database
  <2>2. Left(r) = {} /\ stage[r] \notin {"stopped", "connected"}
    BY <1>2 DEF StageDone, Left, ToSet
  <2>3. \A name \in Validated \cap DOMAIN collections : collections[name] = Version[r]
    BY <2>2 DEF ValidatorsInv
  <2> QED
    BY <2>1, <2>3, ForcedElsewhere
<1>3. ASSUME NEW r \in Replicas, Startup(r) PROVE ValidatorsInv'
  <2>1. CASE Connect(r)
    BY <2>1, ForcedElsewhere DEF Connect, Stages, database
  <2>2. CASE CreateIndex(r) \/ FindBoundary(r) \/ InsertBoundary(r) \/ AdoptWinner(r)
    BY <1>1, <2>2, LaterStages, ForcedElsewhere
  <2> QED
    BY <1>2, <1>3, <2>1, <2>2, PreparingForces DEF Startup
<1>4. ASSUME NEW r \in Replicas, Stop(r) \/ SelectionTimeout(r) PROVE ValidatorsInv'
    BY <1>4, ForcedElsewhere DEF Stop, SelectionTimeout, Halt, Stages, database
<1>5. CASE LosePrimary \/ ElectPrimary \/ UNCHANGED vars
    BY <1>5 DEF LosePrimary, ElectPrimary, vars, database, replica, ValidatorsInv, Left
<1> QED
    BY <1>3, <1>4, <1>5 DEF Next

\* With no upgrade under way a validator is in force once a startup is past it.
LEMMA ValidatorsInForce ==
    ASSUME OneVersion PROVE Spec => []ValidatorsInv
<1>1. Init => ValidatorsInv
    BY DEF Init, ValidatorsInv
<1>2. SetupInv /\ ValidatorsInv /\ [Next]_vars => ValidatorsInv'
    BY NextForces
<1> QED
    BY <1>1, <1>2, Setup, PTL DEF Spec

\* A replica that serves has everything its startup was to prepare, and knows
\* the boundary accounts that are in the database, as long as the replicas are of
\* one version.  UpgradeSticks shows that they have to be.
THEOREM Readiness ==
    ASSUME OneVersion PROVE Spec => []ServingMeansReady
<1>1. SetupInv /\ ValidatorsInv => ServingMeansReady
  <2> SUFFICES ASSUME SetupInv, ValidatorsInv, NEW r \in Replicas, stage[r] = "serving"
               PROVE  /\ DOMAIN collections = ToSet(Collections)
                      /\ \A name \in Validated : collections[name] = Version[r]
                      /\ indexes = ToSet(Indexes)
                      /\ \A c \in ToSet(Supported[r]) :
                           /\ c \in DOMAIN system_account_ids[r]
                           /\ [id |-> system_account_ids[r][c], currency |-> c] \in accounts
    BY DEF ServingMeansReady
  <2>1. DOMAIN collections = ToSet(Collections) /\ indexes = ToSet(Indexes)
    BY DEF SetupInv, TypeOK, Progress
  <2>2. \A name \in Validated : collections[name] = Version[r]
    BY <2>1, StartupAssumption DEF ValidatorsInv, Preparing
  <2>3. \A c \in ToSet(Supported[r]) : Knows(r, c)
    BY DEF SetupInv, Progress
  <2> QED
    BY <2>1, <2>2, <2>3 DEF Knows
<1> QED
    BY <1>1, Setup, ValidatorsInForce, PTL

=============================================================================
