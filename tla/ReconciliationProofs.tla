------------------------ MODULE ReconciliationProofs ------------------------
(***************************************************************************)
(* What a report is worth, for any ledger and any transfers.  ReportInv is *)
(* inductive: its reads agree on one snapshot (OneSnapshot), and of every  *)
(* snapshot HistoryInv says what the service alone, or the service and one *)
(* direct write, can have left in it.  The promises about a finished       *)
(* report are then statements about one set of documents.                  *)
(***************************************************************************)
EXTENDS Reconciliation, SumsProofs

-----------------------------------------------------------------------------
(* Facts about sets of entries. *)

\* Entries have signed amounts, and a pair is one of entry records.
LEMMA EntriesAreSigned ==
    ASSUME NEW E \in SUBSET EntryRecords
    PROVE  Signed(E)
BY DEF EntryRecords, Signed

LEMMA TransferTypes ==
    ASSUME NEW t \in Transfers
    PROVE  /\ t \in TransactionRecords /\ t.id \in IdsOf(Transfers)
           /\ t.source_account_id \in Accounts /\ t.destination_account_id \in Accounts
           /\ t.amount_minor \in Nat \ {0} /\ t.currency \in Currencies
BY ReconciliationAssumption DEF TransactionRecords, IdsOf

LEMMA PairType ==
    ASSUME NEW t \in Transfers
    PROVE  /\ EntriesOf(t) \subseteq EntryRecords /\ IsFiniteSet(EntriesOf(t))
           /\ \A e \in EntriesOf(t) : /\ e.signed_amount_minor = SignedAmountFor(e.direction, e.amount_minor)
                                      /\ e.transaction_id = t.id
<1>1. /\ DebitEntry(t) \in EntryRecords /\ CreditEntry(t) \in EntryRecords
      /\ DebitEntry(t).transaction_id = t.id /\ CreditEntry(t).transaction_id = t.id
    BY TransferTypes DEF EntryRecords, DebitEntry, CreditEntry, Entry, SignedAmountFor, IdsOf
<1>2. \A e \in EntriesOf(t) : e.signed_amount_minor = SignedAmountFor(e.direction, e.amount_minor)
    BY DEF EntriesOf, DebitEntry, CreditEntry, Entry
<1>3. IsFiniteSet(EntriesOf(t))
  <2>1. IsFiniteSet({DebitEntry(t)}) /\ EntriesOf(t) = {DebitEntry(t)} \cup {CreditEntry(t)}
    BY FS_Singleton DEF EntriesOf
  <2> QED
    BY <2>1, FS_AddElement
<1> QED
    BY <1>1, <1>2, <1>3 DEF EntriesOf

\* Finitely many entries are of finitely many transactions.
LEMMA FiniteIds ==
    ASSUME NEW E, IsFiniteSet(E)
    PROVE  IsFiniteSet(Ids(E))
<1> DEFINE id == [e \in E |-> e.transaction_id]
<1>1. id \in Surjection(E, Ids(E))
    BY DEF Surjection, Ids
<1> QED
    BY <1>1, FS_Surjection

\* A balance, and the net of a currency, are integers.
LEMMA SumTypes ==
    ASSUME NEW E \in SUBSET EntryRecords, IsFiniteSet(E)
    PROVE  /\ SumSigned(E) \in Int
           /\ \A i : SumSigned(Group(E, i)) \in Int /\ IsFiniteSet(Group(E, i))
           /\ \A c : SumSigned(InCurrency(E, c)) \in Int /\ IsFiniteSet(InCurrency(E, c))
           /\ \A a : Balance(E, a) \in Int
<1>1. \A D \in SUBSET E : IsFiniteSet(D) /\ Signed(D)
    BY FS_Subset, EntriesAreSigned
<1>2. \A D \in SUBSET E : SumSigned(D) \in Int
    BY <1>1, SumSignedType
<1> QED
    BY <1>1, <1>2 DEF Group, InCurrency, Balance

\* A pair is balanced.
LEMMA PairIsBalanced ==
    ASSUME NEW t \in Transfers
    PROVE  Balanced(EntriesOf(t))
<1>1. t.amount_minor \in Int
    BY TransferTypes
<1>2. /\ Cardinality(EntriesOf(t)) = 2 /\ SumSigned(EntriesOf(t)) = 0
    BY <1>1, PairOfEntries
<1>3. /\ Side(EntriesOf(t), "DEBIT") = {DebitEntry(t)}
      /\ Side(EntriesOf(t), "CREDIT") = {CreditEntry(t)}
    BY DEF Side, EntriesOf, DebitEntry, CreditEntry, Entry
<1> QED
    BY <1>2, <1>3, FS_Singleton DEF Balanced

\* A new transfer is a group of its own.
LEMMA PairGroups ==
    ASSUME NEW E \in SUBSET EntryRecords, NEW t \in Transfers, t.id \notin Ids(E)
    PROVE  /\ E \cap EntriesOf(t) = {}
           /\ Ids(E \cup EntriesOf(t)) = Ids(E) \cup {t.id}
           /\ Group(E \cup EntriesOf(t), t.id) = EntriesOf(t)
           /\ \A i : i # t.id => Group(E \cup EntriesOf(t), i) = Group(E, i)
<1>1. \A e \in EntriesOf(t) : e.transaction_id = t.id
    BY PairType
<1>2. DebitEntry(t) \in EntriesOf(t)
    BY DEF EntriesOf
<1>3. \A e \in E : e.transaction_id # t.id
    BY DEF Ids
<1> QED
    BY <1>1, <1>2, <1>3 DEF Ids, Group

\* It adds nothing to the sum, of all entries or of those of a currency.
LEMMA PairAddsNothing ==
    ASSUME NEW E \in SUBSET EntryRecords, IsFiniteSet(E),
           NEW t \in Transfers, t.id \notin Ids(E)
    PROVE  /\ SumSigned(E \cup EntriesOf(t)) = SumSigned(E)
           /\ \A c : SumSigned(InCurrency(E \cup EntriesOf(t), c)) = SumSigned(InCurrency(E, c))
<1> DEFINE P == EntriesOf(t)
<1>1. P \subseteq EntryRecords /\ IsFiniteSet(P) /\ E \cap P = {} /\ Signed(P)
    BY PairType, PairGroups, EntriesAreSigned
<1>2. SumSigned(P) = 0
    BY TransferTypes, PairOfEntries
<1>3. \A e \in P : e.currency = t.currency
    BY DEF EntriesOf, DebitEntry, CreditEntry, Entry
<1> HIDE DEF P
<1>4. \A D \in SUBSET E : SumSigned(D \cup P) = SumSigned(D)
  <2> SUFFICES ASSUME NEW D \in SUBSET E PROVE SumSigned(D \cup P) = SumSigned(D)
    OBVIOUS
  <2>1. IsFiniteSet(D) /\ Signed(D) /\ D \cap P = {}
    BY <1>1, FS_Subset, EntriesAreSigned
  <2>2. SumSigned(D \cup P) = SumSigned(D) + SumSigned(P)
    BY <1>1, <2>1, SumSignedDisjoint
  <2>3. SumSigned(D) \in Int
    BY <2>1, SumSignedType
  <2> QED
    BY <1>2, <2>2, <2>3
<1>5. ASSUME NEW c
      PROVE  SumSigned(InCurrency(E \cup P, c)) = SumSigned(InCurrency(E, c))
  <2>1. CASE c = t.currency
    <3>1. InCurrency(E \cup P, c) = InCurrency(E, c) \cup P /\ InCurrency(E, c) \subseteq E
      BY <1>3, <2>1 DEF InCurrency
    <3> QED
      BY <1>4, <3>1
  <2>2. CASE c # t.currency
    BY <1>3, <2>2 DEF InCurrency
  <2> QED
    BY <2>1, <2>2
<1> QED
    BY <1>4, <1>5 DEF P

\* If its source can pay for it, it overdraws no user.
LEMMA PairOverdrawsNobody ==
    ASSUME NEW E \in SUBSET EntryRecords, IsFiniteSet(E),
           NEW t \in Transfers, t.id \notin Ids(E),
           NEW a, Balance(E, a) >= 0,
           a = t.source_account_id => Balance(E, a) >= t.amount_minor
    PROVE  Balance(E \cup EntriesOf(t), a) >= 0
<1> DEFINE d == DebitEntry(t)
           c == CreditEntry(t)
           Of(D) == {e \in D : e.account_id = a}
<1>1. /\ d.account_id = t.source_account_id
      /\ d.signed_amount_minor = -t.amount_minor /\ c.signed_amount_minor = t.amount_minor
      /\ d \in EntriesOf(t) /\ c \in EntriesOf(t) /\ t.amount_minor \in Nat
      /\ EntriesOf(t) = {d} \cup {c}
    BY TransferTypes
    DEF EntriesOf, DebitEntry, CreditEntry, Entry, SignedAmountFor
<1>2. d \notin E /\ d \in EntryRecords /\ c \in EntryRecords
    BY <1>1, PairGroups, PairType
<1> HIDE DEF d, c
<1>3. IsFiniteSet(Of(E)) /\ Signed(Of(E)) /\ Balance(E, a) = SumSigned(Of(E)) /\ SumSigned(Of(E)) \in Int
    BY FS_Subset, EntriesAreSigned, SumTypes DEF Balance
<1>4. SumSigned(Of(E \cup {d})) \in Int /\ SumSigned(Of(E \cup {d})) >= 0
  <2>1. CASE a = t.source_account_id
    <3>1. Of(E \cup {d}) = Of(E) \cup {d} /\ d \notin Of(E)
      BY <1>1, <1>2, <2>1
    <3>2. SumSigned(Of(E) \cup {d}) = SumSigned(Of(E)) + d.signed_amount_minor
      <4>1. d.signed_amount_minor \in Int
        BY <1>1
      <4> HIDE DEF Of
      <4> QED
        BY <1>3, <3>1, <4>1, SumSignedAdd
    <3> HIDE DEF Of
    <3>3. SumSigned(Of(E \cup {d})) = SumSigned(Of(E)) + d.signed_amount_minor
      BY <3>1, <3>2, Zenon
    <3>4. SumSigned(Of(E)) >= t.amount_minor
      BY <1>3, <2>1
    <3> QED
      BY <1>1, <1>3, <3>3, <3>4
  <2>2. CASE a # t.source_account_id
    <3>1. Of(E \cup {d}) = Of(E)
      BY <1>1, <2>2
    <3> HIDE DEF Of
    <3> QED
      BY <1>3, <3>1
  <2> QED
    BY <2>1, <2>2
<1>5. SumSigned(Of(E \cup {d}) \cup Of({c})) >= SumSigned(Of(E \cup {d}))
  <2>1. Of(E \cup {d}) \subseteq E \cup {d} /\ Of({c}) \subseteq {c}
    OBVIOUS
  <2>2. IsFiniteSet(E \cup {d}) /\ IsFiniteSet({c})
    BY FS_AddElement, FS_Singleton
  <2>3. IsFiniteSet(Of(E \cup {d})) /\ IsFiniteSet(Of({c}))
    BY <2>1, <2>2, FS_Subset
  <2>4. E \cup {d} \in SUBSET EntryRecords
    BY <1>2
  <2>5. Signed(Of(E \cup {d}))
    BY <2>1, <2>4, EntriesAreSigned DEF Signed
  <2>6. \A e \in Of({c}) : e.signed_amount_minor \in Int /\ e.signed_amount_minor >= 0
    BY <1>1
  <2> HIDE DEF Of
  <2> QED
    BY <2>3, <2>5, <2>6, SumSignedGrows
<1>6. Of(E \cup EntriesOf(t)) = Of(E \cup {d}) \cup Of({c})
    BY <1>1
<1>7. SumSigned(Of(E \cup EntriesOf(t))) \in Int
  <2>1. E \cup EntriesOf(t) \in SUBSET EntryRecords /\ IsFiniteSet(E \cup EntriesOf(t))
    BY PairType, FS_Union
  <2> QED
    BY <2>1, SumTypes DEF Balance
<1>8. Balance(E \cup EntriesOf(t), a) = SumSigned(Of(E \cup EntriesOf(t)))
    BY DEF Balance
<1> HIDE DEF Of
<1>9. Balance(E \cup EntriesOf(t), a) = SumSigned(Of(E \cup {d}) \cup Of({c}))
    BY <1>6, <1>8, Zenon
<1>10. Balance(E \cup EntriesOf(t), a) \in Int
    BY <1>7, <1>8, Zenon
<1>11. Balance(E \cup EntriesOf(t), a) >= SumSigned(Of(E \cup {d}))
    BY <1>5, <1>9, Zenon
<1> QED
    BY <1>4, <1>10, <1>11

-----------------------------------------------------------------------------
(* What a transfer does to the ledger. *)

\* A transfer that its source can pay keeps a whole ledger whole.
LEMMA CommitKeepsWhole ==
    ASSUME NEW T, IsFiniteSet(T), NEW E \in SUBSET EntryRecords, IsFiniteSet(E),
           NEW A, OneEach(A), Whole(T, E, A),
           NEW t \in Transfers, t.id \notin IdsOf(T), t.id \notin Ids(E),
           NEW source \in A, source.id = t.source_account_id,
           source.account_type = "SYSTEM" \/ Balance(E, source.id) >= t.amount_minor
    PROVE  Whole(T \cup {t}, E \cup EntriesOf(t), A)
<1>1. /\ Ids(E \cup EntriesOf(t)) = IdsOf(T \cup {t})
      /\ \A i \in Ids(E \cup EntriesOf(t)) : Balanced(Group(E \cup EntriesOf(t), i))
  <2>1. IdsOf(T \cup {t}) = IdsOf(T) \cup {t.id}
    BY DEF IdsOf
  <2>2. Ids(E) = IdsOf(T) /\ \A i \in Ids(E) : Balanced(Group(E, i))
    BY DEF Whole
  <2>3. ASSUME NEW i \in Ids(E \cup EntriesOf(t))
        PROVE  Balanced(Group(E \cup EntriesOf(t), i))
    <3>1. CASE i = t.id
      <4>1. Group(E \cup EntriesOf(t), t.id) = EntriesOf(t)
        BY PairGroups
      <4> QED
        BY <3>1, <4>1, PairIsBalanced
    <3>2. CASE i # t.id
      <4>1. i \in Ids(E) /\ Group(E \cup EntriesOf(t), i) = Group(E, i)
        BY <3>2, PairGroups
      <4> QED
        BY <2>2, <4>1
    <3> QED
      BY <3>1, <3>2
  <2>4. Ids(E \cup EntriesOf(t)) = Ids(E) \cup {t.id}
    BY PairGroups
  <2> QED
    BY <2>1, <2>2, <2>3, <2>4
<1>2. Cardinality(E \cup EntriesOf(t)) = 2 * Cardinality(T \cup {t})
  <2>1. Cardinality(T \cup {t}) = Cardinality(T) + 1
    BY FS_AddElement DEF IdsOf
  <2>2. Cardinality(EntriesOf(t)) = 2 /\ IsFiniteSet(EntriesOf(t))
    BY TransferTypes, PairOfEntries, PairType
  <2>3. Cardinality(E \cup EntriesOf(t)) =
          Cardinality(E) + Cardinality(EntriesOf(t)) - Cardinality(E \cap EntriesOf(t))
    BY <2>2, FS_Union
  <2>4. Cardinality(E \cap EntriesOf(t)) = 0
    BY PairGroups, FS_EmptySet
  <2>5. Cardinality(E) \in Nat /\ Cardinality(T) \in Nat /\ Cardinality(E) = 2 * Cardinality(T)
    BY FS_CardinalityType DEF Whole
  <2> DEFINE n == Cardinality(E)
             m == Cardinality(T)
  <2>6. n \in Nat /\ m \in Nat /\ n = 2 * m
    BY <2>5
  <2>7. Cardinality(E \cup EntriesOf(t)) = n + 2 - 0 /\ Cardinality(T \cup {t}) = m + 1
    BY <2>1, <2>2, <2>3, <2>4, Zenon
  <2> HIDE DEF n, m
  <2>8. n + 2 - 0 = 2 * (m + 1)
    BY <2>6
  <2> QED
    BY <2>7, <2>8, Zenon
<1>3. /\ SumSigned(E \cup EntriesOf(t)) = 0
      /\ \A c \in Currencies : SumSigned(InCurrency(E \cup EntriesOf(t), c)) = 0
    BY PairAddsNothing DEF Whole
<1>4. ASSUME NEW a \in UserIds(A)
      PROVE  Balance(E \cup EntriesOf(t), a) >= 0
  <2>1. Balance(E, a) >= 0
    BY DEF Whole
  <2>2. a = t.source_account_id => Balance(E, a) >= t.amount_minor
    BY DEF UserIds, IdsOf, OneEach
  <2> QED
    BY <2>1, <2>2, PairOverdrawsNobody
<1> QED
    BY <1>1, <1>2, <1>3, <1>4 DEF Whole

\* No transfer repairs a damaged one.
LEMMA CommitRepairsNothing ==
    ASSUME NEW T, NEW E \in SUBSET EntryRecords, IsFiniteSet(E), Damaged(T, E),
           NEW t \in Transfers, t.id \notin Ids(E)
    PROVE  Damaged(T \cup {t}, E \cup EntriesOf(t))
<1>1. CASE Unbalanced(E) # {}
    BY <1>1, PairGroups DEF Unbalanced, Damaged
<1>2. CASE WithoutTransaction(T, E) # {}
  <2>1. PICK e \in E : e.transaction_id \notin IdsOf(T)
    BY <1>2 DEF WithoutTransaction
  <2>2. e.transaction_id # t.id
    BY DEF Ids
  <2>3. e \in WithoutTransaction(T \cup {t}, E \cup EntriesOf(t))
    BY <2>1, <2>2 DEF WithoutTransaction, IdsOf
  <2> QED
    BY <2>3 DEF Damaged
<1>3. CASE \E c \in Currencies : SumSigned(InCurrency(E, c)) # 0
    BY <1>3, PairAddsNothing DEF Damaged
<1> QED
    BY <1>1, <1>2, <1>3 DEF Damaged

-----------------------------------------------------------------------------
(* What one direct write does to a ledger that is whole. *)

\* A document with a transaction of its own has an entry in each direction.
LEMMA BothSides ==
    ASSUME NEW T, NEW E, NEW A, Whole(T, E, A), NEW i \in IdsOf(T), NEW d \in {"DEBIT", "CREDIT"}
    PROVE  \E e \in E : e.transaction_id = i /\ e.direction = d
<1>1. Cardinality(Side(Group(E, i), d)) = 1
    BY DEF Whole, Balanced
<1>2. Side(Group(E, i), d) # {}
    BY <1>1, FS_EmptySet
<1> QED
    BY <1>2 DEF Side, Group

\* And only one: without it, its group is unbalanced.
LEMMA DeletionDamages ==
    ASSUME NEW T, NEW E \in SUBSET EntryRecords, IsFiniteSet(E), NEW A, Whole(T, E, A), NEW e \in E
    PROVE  Damaged(T, E \ {e})
<1> DEFINE i == e.transaction_id
           d == e.direction
<1>1. i \in Ids(E) /\ i \in IdsOf(T) /\ d \in {"DEBIT", "CREDIT"}
    BY DEF Ids, Whole, EntryRecords
<1>2. Side(Group(E, i), d) = {e}
  <2>1. IsFiniteSet(Side(Group(E, i), d)) /\ Cardinality(Side(Group(E, i), d)) = 1
    <3>1. Side(Group(E, i), d) \subseteq E
      BY DEF Side, Group
    <3>2. Balanced(Group(E, i))
      BY <1>1 DEF Whole
    <3> QED
      BY <1>1, <3>1, <3>2, FS_Subset DEF Balanced
  <2>2. PICK x : Side(Group(E, i), d) = {x}
    BY <2>1, FS_Singleton
  <2>3. e \in Side(Group(E, i), d)
    BY DEF Side, Group
  <2> QED
    BY <2>2, <2>3
<1>3. Side(Group(E \ {e}, i), d) = {}
    BY <1>2 DEF Side, Group
<1>4. ~Balanced(Group(E \ {e}, i))
  <2>1. Cardinality(Side(Group(E \ {e}, i), d)) = 0
    BY <1>3, FS_EmptySet
  <2> QED
    BY <1>1, <2>1 DEF Balanced
<1>5. e.transaction_id \in Ids(E \ {e})
  <2>1. PICK o \in {"DEBIT", "CREDIT"} : o # d
    BY <1>1
  <2>2. PICK f \in E : f.transaction_id = i /\ f.direction = o
    BY <1>1, BothSides
  <2> QED
    BY <2>1, <2>2 DEF Ids
<1> QED
    BY <1>4, <1>5 DEF Damaged, Unbalanced

\* An entry under an id of no header is without a transaction.
LEMMA StrayDamages ==
    ASSUME NEW T, NEW E, NEW e \in E, e.transaction_id \notin IdsOf(T)
    PROVE  Damaged(T, E)
BY DEF WithoutTransaction, Damaged

\* So are the entries of a header that is deleted.
LEMMA HeaderDeletionDamages ==
    ASSUME NEW T, OneEach(T), NEW E, NEW A, Whole(T, E, A), NEW t \in T
    PROVE  Damaged(T \ {t}, E)
<1>1. PICK e \in E : e.transaction_id = t.id
    BY DEF Whole, Ids, IdsOf
<1>2. \A s \in T \ {t} : s.id # t.id
    BY DEF OneEach
<1>3. e \in WithoutTransaction(T \ {t}, E)
    BY <1>1, <1>2 DEF WithoutTransaction, IdsOf
<1> QED
    BY <1>3 DEF Damaged

\* A changed amount leaves its pair without a zero sum.
LEMMA AmountDamages ==
    ASSUME NEW T, NEW E \in SUBSET EntryRecords, IsFiniteSet(E), NEW A, Whole(T, E, A),
           NEW e \in E, NEW s \in EntryRecords, s \notin E \ {e},
           s.transaction_id = e.transaction_id, s.signed_amount_minor # e.signed_amount_minor
    PROVE  Damaged(T, (E \ {e}) \cup {s})
<1> DEFINE i == e.transaction_id
           B == Group(E, i) \ {e}
           F == (E \ {e}) \cup {s}
<1>1. /\ Group(E, i) = B \cup {e} /\ e \notin B /\ B \subseteq E
      /\ Group(F, i) = B \cup {s} /\ s \notin B /\ i \in Ids(E) /\ i \in Ids(F)
    BY DEF Group, Ids
<1>2. IsFiniteSet(B) /\ Signed(B)
    BY <1>1, FS_Subset, EntriesAreSigned
<1>3. e.signed_amount_minor \in Int /\ s.signed_amount_minor \in Int
    BY DEF EntryRecords
<1>4. SumSigned(Group(E, i)) = 0
    BY <1>1 DEF Whole, Balanced
<1> HIDE DEF i, B, F
<1>5. SumSigned(Group(E, i)) = SumSigned(B) + e.signed_amount_minor
    BY <1>1, <1>2, <1>3, SumSignedAdd
<1>6. SumSigned(Group(F, i)) = SumSigned(B) + s.signed_amount_minor
    BY <1>1, <1>2, <1>3, SumSignedAdd
<1>7. SumSigned(B) \in Int
    BY <1>2, SumSignedType
<1>8. SumSigned(Group(F, i)) # 0
    BY <1>3, <1>4, <1>5, <1>6, <1>7
<1>9. i \in Unbalanced(F)
    BY <1>1, <1>8 DEF Unbalanced, Balanced
<1> QED
    BY <1>9 DEF Damaged, F

\* A changed currency is missing from the one it was in.
LEMMA CurrencyDamages ==
    ASSUME NEW T, NEW E \in SUBSET EntryRecords, IsFiniteSet(E), NEW A, Whole(T, E, A),
           NEW e \in E, e.signed_amount_minor # 0, NEW s, s.currency # e.currency
    PROVE  Damaged(T, (E \ {e}) \cup {s})
<1> DEFINE c == e.currency
           B == InCurrency(E, c) \ {e}
           F == (E \ {e}) \cup {s}
<1>1. /\ InCurrency(E, c) = B \cup {e} /\ e \notin B /\ B \subseteq E /\ InCurrency(F, c) = B
    BY DEF InCurrency
<1>2. IsFiniteSet(B) /\ Signed(B)
    BY <1>1, FS_Subset, EntriesAreSigned
<1>3. e.signed_amount_minor \in Int /\ c \in Currencies
    BY DEF EntryRecords
<1>4. SumSigned(InCurrency(E, c)) = 0
    BY <1>3 DEF Whole
<1> HIDE DEF c, B, F
<1>5. SumSigned(InCurrency(E, c)) = SumSigned(B) + e.signed_amount_minor
    BY <1>1, <1>2, <1>3, SumSignedAdd
<1>6. SumSigned(B) \in Int
    BY <1>2, SumSignedType
<1>7. SumSigned(InCurrency(F, c)) # 0
  <2>1. SumSigned(B) # 0
    BY <1>3, <1>4, <1>5, <1>6
  <2> QED
    BY <1>1, <2>1
<1> QED
    BY <1>3, <1>7 DEF Damaged, F

-----------------------------------------------------------------------------
(* The ledger's steps preserve what is said of its history. *)

\* What is to be shown of a step of the ledger.
LedgerFine == DocumentsType(Committed) /\ HistoryInv(Committed)

\* Signs are right.
Consistent(E) ==
    \A e \in E : e.signed_amount_minor = SignedAmountFor(e.direction, e.amount_minor)

LEMMA LedgerFacts ==
    ASSUME LedgerFine
    PROVE  /\ transactions \subseteq TransactionRecords /\ IsFiniteSet(transactions)
           /\ OneEach(transactions) /\ accounts \subseteq AccountRecords /\ OneEach(accounts)
           /\ ledger_entries \subseteq EntryRecords /\ IsFiniteSet(ledger_entries)
           /\ Consistent(ledger_entries) /\ directly \in Seq(WriteKinds)
BY DEF LedgerFine, Committed, Documents, DocumentsType, Consistent

\* The service's transfers.
LEMMA CommitStep ==
    ASSUME LedgerFine, NEW t \in Transfers, Commit(t)
    PROVE  LedgerFine'
<1>1. /\ t.id \notin IdsOf(transactions) /\ t.id \notin Ids(ledger_entries)
      /\ transactions' = transactions \cup {t}
      /\ ledger_entries' = ledger_entries \cup EntriesOf(t)
      /\ accounts' = accounts /\ directly' = directly
    BY DEF Commit
<1>2. PICK source \in accounts :
        /\ source.id = t.source_account_id
        /\ source.account_type = "SYSTEM" \/ Balance(ledger_entries, source.id) >= t.amount_minor
    BY DEF Commit
<1>3. DocumentsType(Committed)'
  <2>1. IsFiniteSet(transactions \cup {t})
    BY LedgerFacts, FS_AddElement
  <2>2. IsFiniteSet(ledger_entries \cup EntriesOf(t))
    BY LedgerFacts, PairType, FS_Union
  <2>3. Consistent(ledger_entries \cup EntriesOf(t))
    BY LedgerFacts, PairType DEF Consistent
  <2>4. OneEach(transactions \cup {t}) /\ transactions \cup {t} \subseteq TransactionRecords
    BY <1>1, LedgerFacts, TransferTypes DEF OneEach, IdsOf
  <2> QED
    BY <1>1, <2>1, <2>2, <2>3, <2>4, LedgerFacts, PairType
    DEF DocumentsType, Documents, Committed, Consistent
<1>4. HistoryInv(Committed)'
  <2>1. directly = <<>> => Whole(transactions', ledger_entries', accounts')
    BY <1>1, <1>2, LedgerFacts, CommitKeepsWhole DEF LedgerFine, HistoryInv, Committed, Documents
  <2>2. Damaged(transactions, ledger_entries) => Damaged(transactions', ledger_entries')
    BY <1>1, LedgerFacts, CommitRepairsNothing
  <2> QED
    BY <1>1, <2>1, <2>2 DEF LedgerFine, HistoryInv, Committed, Documents
<1> QED
    BY <1>3, <1>4 DEF LedgerFine

\* A direct write that the next report can see must damage a whole ledger.
LEMMA WriteStep ==
    ASSUME LedgerFine, NEW kind \in WriteKinds, NEW T, NEW E, NEW A, Write(kind, T, E, A),
           T \subseteq TransactionRecords, IsFiniteSet(T), OneEach(T),
           E \subseteq EntryRecords, IsFiniteSet(E), Consistent(E),
           A \subseteq AccountRecords, OneEach(A),
           Whole(transactions, ledger_entries, accounts) => kind \in Unseen \/ Damaged(T, E)
    PROVE  LedgerFine'
<1>1. /\ transactions' = T /\ ledger_entries' = E /\ accounts' = A
      /\ directly' = Append(directly, kind)
    BY DEF Write
<1>2. /\ directly' \in Seq(WriteKinds) /\ directly' # <<>>
      /\ Len(directly') = 1 => directly = <<>> /\ directly'[1] = kind
    BY <1>1, LedgerFacts
<1>3. DocumentsType(Committed)'
    BY <1>1, <1>2 DEF DocumentsType, Documents, Committed, Consistent
<1>4. HistoryInv(Committed)'
    BY <1>1, <1>2 DEF LedgerFine, HistoryInv, Committed, Documents
<1> QED
    BY <1>3, <1>4 DEF LedgerFine

\* A write to the entries alone.
LEMMA EntriesStep ==
    ASSUME LedgerFine, NEW kind \in WriteKinds, NEW E, WriteEntries(kind, E),
           E \subseteq EntryRecords, IsFiniteSet(E), Consistent(E),
           Whole(transactions, ledger_entries, accounts) =>
             kind \in Unseen \/ Damaged(transactions, E)
    PROVE  LedgerFine'
BY LedgerFacts, WriteStep DEF WriteEntries

\* A write to the headers alone.
LEMMA TransactionsStep ==
    ASSUME LedgerFine, NEW kind \in WriteKinds, NEW T, WriteTransactions(kind, T),
           T \subseteq TransactionRecords, IsFiniteSet(T), OneEach(T),
           Whole(transactions, ledger_entries, accounts) =>
             kind \in Unseen \/ Damaged(T, ledger_entries)
    PROVE  LedgerFine'
BY LedgerFacts, WriteStep DEF WriteTransactions

\* A write to the accounts alone.
LEMMA AccountsStep ==
    ASSUME LedgerFine, NEW kind \in WriteKinds \cap Unseen, NEW A, WriteAccounts(kind, A),
           A \subseteq AccountRecords, OneEach(A)
    PROVE  LedgerFine'
BY LedgerFacts, WriteStep DEF WriteAccounts

\* Entries inserted, deleted, and given another date.
LEMMA EntryStep ==
    ASSUME LedgerFine, InsertEntry \/ DeleteEntry \/ UpdateDate
    PROVE  LedgerFine'
<1> USE LedgerFacts
<1>1. CASE InsertEntry
  <2>1. PICK i \in KnownIds, a \in Accounts, d \in {"DEBIT", "CREDIT"}, n \in Amounts, c \in Currencies :
          /\ Admissible(Entry(i, a, d, n, c), ledger_entries)
          /\ WriteEntries("insert_entry", ledger_entries \cup {Entry(i, a, d, n, c)})
    BY <1>1 DEF InsertEntry
  <2> DEFINE e == Entry(i, a, d, n, c)
  <2>2. /\ e \in EntryRecords /\ e.transaction_id = i /\ e.direction = d
        /\ e.signed_amount_minor = SignedAmountFor(e.direction, e.amount_minor)
    <3>1. i \in IdsOf(Transfers) \cup StrayIds
      BY DEF KnownIds, IdsOf, TransactionRecords
    <3> QED
      BY <3>1, ReconciliationAssumption DEF Entry, EntryRecords, SignedAmountFor
  <2>3. Whole(transactions, ledger_entries, accounts) =>
          Damaged(transactions, ledger_entries \cup {e})
    <3> SUFFICES ASSUME Whole(transactions, ledger_entries, accounts)
                 PROVE  Damaged(transactions, ledger_entries \cup {e})
      OBVIOUS
    <3>1. i \notin IdsOf(transactions)
      BY <2>1, <2>2, BothSides DEF Admissible
    <3> QED
      BY <2>2, <3>1, StrayDamages
  <2>4. IsFiniteSet(ledger_entries \cup {e}) /\ Consistent(ledger_entries \cup {e})
    BY <2>2, FS_AddElement DEF Consistent
  <2> HIDE DEF e
  <2>5. WriteEntries("insert_entry", ledger_entries \cup {e})
    BY <2>1 DEF e
  <2> QED
    BY <2>2, <2>3, <2>4, <2>5, EntriesStep DEF WriteKinds
<1>2. CASE DeleteEntry
  <2>1. PICK e \in ledger_entries : WriteEntries("delete_entry", ledger_entries \ {e})
    BY <1>2 DEF DeleteEntry
  <2>2. IsFiniteSet(ledger_entries \ {e}) /\ Consistent(ledger_entries \ {e})
    BY FS_RemoveElement DEF Consistent
  <2>3. Whole(transactions, ledger_entries, accounts) => Damaged(transactions, ledger_entries \ {e})
    BY DeletionDamages
  <2> QED
    BY <2>1, <2>2, <2>3, EntriesStep DEF WriteKinds
<1>3. CASE UpdateDate
    BY <1>3, EntriesStep DEF UpdateDate, WriteKinds, Unseen
<1> QED
    BY <1>1, <1>2, <1>3

\* Headers inserted and deleted.
LEMMA HeaderStep ==
    ASSUME LedgerFine, InsertTransaction \/ DeleteTransaction
    PROVE  LedgerFine'
<1> USE LedgerFacts
<1>1. CASE InsertTransaction
  <2>1. PICK t \in Transfers, i \in IdsOf(Transfers) \cup StrayIds :
          /\ i \notin IdsOf(transactions)
          /\ WriteTransactions("insert_transaction", transactions \cup {[t EXCEPT !.id = i]})
    BY <1>1 DEF InsertTransaction
  <2> DEFINE h == [t EXCEPT !.id = i]
  <2>2. h \in TransactionRecords /\ h.id = i
    BY TransferTypes DEF TransactionRecords
  <2> HIDE DEF h
  <2>3. IsFiniteSet(transactions \cup {h}) /\ OneEach(transactions \cup {h})
    BY <2>1, <2>2, FS_AddElement DEF OneEach, IdsOf
  <2>4. WriteTransactions("insert_transaction", transactions \cup {h})
    BY <2>1 DEF h
  <2> QED
    BY <2>2, <2>3, <2>4, TransactionsStep DEF WriteKinds, Unseen
<1>2. CASE DeleteTransaction
  <2>1. PICK t \in transactions : WriteTransactions("delete_transaction", transactions \ {t})
    BY <1>2 DEF DeleteTransaction
  <2>2. IsFiniteSet(transactions \ {t}) /\ OneEach(transactions \ {t})
    BY FS_RemoveElement DEF OneEach
  <2>3. Whole(transactions, ledger_entries, accounts) => Damaged(transactions \ {t}, ledger_entries)
    BY HeaderDeletionDamages
  <2> QED
    BY <2>1, <2>2, <2>3, TransactionsStep DEF WriteKinds
<1> QED
    BY <1>1, <1>2

\* A header changed: it keeps its id.
LEMMA HeaderUpdateStep ==
    ASSUME LedgerFine,
           \/ UpdateTransaction("amount_minor", Amounts)
           \/ UpdateTransaction("currency", Currencies)
           \/ UpdateTransaction("source_account_id", Accounts)
           \/ UpdateTransaction("destination_account_id", Accounts)
    PROVE  LedgerFine'
<1> USE LedgerFacts
<1>1. PICK t \in transactions, h \in TransactionRecords :
        /\ h.id = t.id
        /\ WriteTransactions("update_transaction", (transactions \ {t}) \cup {h})
  <2>1. \A t \in transactions :
          /\ \A v \in Amounts : LET h == [t EXCEPT !.amount_minor = v]
                                IN  h \in TransactionRecords /\ h.id = t.id
          /\ \A v \in Currencies : LET h == [t EXCEPT !.currency = v]
                                   IN  h \in TransactionRecords /\ h.id = t.id
          /\ \A v \in Accounts : LET h == [t EXCEPT !.source_account_id = v]
                                 IN  h \in TransactionRecords /\ h.id = t.id
          /\ \A v \in Accounts : LET h == [t EXCEPT !.destination_account_id = v]
                                 IN  h \in TransactionRecords /\ h.id = t.id
    BY ReconciliationAssumption DEF TransactionRecords
  <2> QED
    BY <2>1 DEF UpdateTransaction
<1>2. IsFiniteSet((transactions \ {t}) \cup {h})
  <2>1. IsFiniteSet(transactions \ {t})
    BY FS_RemoveElement
  <2> QED
    BY <2>1, FS_AddElement
<1>3. OneEach((transactions \ {t}) \cup {h})
    BY <1>1 DEF OneEach
<1> QED
    BY <1>1, <1>2, <1>3, TransactionsStep DEF WriteKinds, Unseen

\* Accounts inserted, deleted and changed.
LEMMA AccountStep ==
    ASSUME LedgerFine, InsertAccount \/ DeleteAccount \/ UpdateAccount
    PROVE  LedgerFine'
<1> USE LedgerFacts
<1>1. CASE InsertAccount
  <2>1. PICK a \in AccountRecords :
          a.id \notin IdsOf(accounts) /\ WriteAccounts("insert_account", accounts \cup {a})
    BY <1>1 DEF InsertAccount
  <2>2. OneEach(accounts \cup {a})
    BY <2>1 DEF OneEach, IdsOf
  <2> QED
    BY <2>1, <2>2, AccountsStep DEF WriteKinds, Unseen
<1>2. CASE DeleteAccount
  <2>1. PICK a \in accounts : WriteAccounts("delete_account", accounts \ {a})
    BY <1>2 DEF DeleteAccount
  <2>2. OneEach(accounts \ {a})
    BY DEF OneEach
  <2> QED
    BY <2>1, <2>2, AccountsStep DEF WriteKinds, Unseen
<1>3. CASE UpdateAccount
  <2>1. PICK a \in accounts, new \in AccountRecords :
          new.id = a.id /\ WriteAccounts("update_account", (accounts \ {a}) \cup {new})
    BY <1>3 DEF UpdateAccount
  <2>2. OneEach((accounts \ {a}) \cup {new})
    BY <2>1 DEF OneEach
  <2> QED
    BY <2>1, <2>2, AccountsStep DEF WriteKinds, Unseen
<1> QED
    BY <1>1, <1>2, <1>3

\* An entry replaced by another that the database admits.
LEMMA ReplacementStep ==
    ASSUME LedgerFine, NEW field \in WriteKinds, NEW e \in ledger_entries, NEW s \in EntryRecords,
           Admissible(s, ledger_entries \ {e}),
           WriteEntries(field, (ledger_entries \ {e}) \cup {s}),
           Whole(transactions, ledger_entries, accounts) =>
             field \in Unseen \/ Damaged(transactions, (ledger_entries \ {e}) \cup {s})
    PROVE  LedgerFine'
<1>1. IsFiniteSet((ledger_entries \ {e}) \cup {s})
  <2>1. IsFiniteSet(ledger_entries \ {e})
    BY LedgerFacts, FS_RemoveElement
  <2> QED
    BY <2>1, FS_AddElement
<1>2. Consistent((ledger_entries \ {e}) \cup {s}) /\ (ledger_entries \ {e}) \cup {s} \subseteq EntryRecords
    BY LedgerFacts DEF Consistent, Admissible
<1> QED
    BY <1>1, <1>2, EntriesStep

Updated(e, field, v) ==
    LET new == [e EXCEPT ![field] = v]
    IN  [new EXCEPT !.signed_amount_minor = SignedAmountFor(new.direction, new.amount_minor)]

LEMMA UpdatePicks ==
    ASSUME NEW field, NEW values, UpdateEntry(field, values)
    PROVE  \E e \in ledger_entries, v \in values :
             /\ Updated(e, field, v) # e
             /\ Admissible(Updated(e, field, v), ledger_entries \ {e})
             /\ WriteEntries(field, (ledger_entries \ {e}) \cup {Updated(e, field, v)})
BY DEF UpdateEntry, Updated

\* The amount, the currency or the account of an entry is changed.
LEMMA ContentStep ==
    ASSUME LedgerFine,
           \/ UpdateEntry("amount_minor", Amounts)
           \/ UpdateEntry("currency", Currencies)
           \/ UpdateEntry("account_id", Accounts)
    PROVE  LedgerFine'
<1> USE LedgerFacts
<1>1. CASE UpdateEntry("amount_minor", Amounts)
  <2>1. PICK e \in ledger_entries, v \in Amounts :
          /\ Updated(e, "amount_minor", v) # e
          /\ Admissible(Updated(e, "amount_minor", v), ledger_entries \ {e})
          /\ WriteEntries("amount_minor", (ledger_entries \ {e}) \cup {Updated(e, "amount_minor", v)})
    BY <1>1, UpdatePicks
  <2> DEFINE s == Updated(e, "amount_minor", v)
  <2>2. e \in EntryRecords /\ e.signed_amount_minor = SignedAmountFor(e.direction, e.amount_minor)
    BY DEF Consistent
  <2>3. /\ s \in EntryRecords /\ s.transaction_id = e.transaction_id
        /\ s.direction = e.direction /\ s.amount_minor = v
        /\ s.signed_amount_minor = SignedAmountFor(s.direction, s.amount_minor)
    <3>1. v \in Nat \ {0} /\ SignedAmountFor(e.direction, v) \in Int
      BY ReconciliationAssumption DEF SignedAmountFor
    <3> QED
      BY <2>2, <3>1 DEF Updated, EntryRecords
  <2>4. v # e.amount_minor
    BY <2>1, <2>2 DEF Updated, EntryRecords
  <2> HIDE DEF s
  <2>5. s.signed_amount_minor # e.signed_amount_minor
    BY <2>2, <2>3, <2>4, ReconciliationAssumption DEF SignedAmountFor, EntryRecords
  <2>6. s \notin ledger_entries \ {e}
    BY <2>1 DEF Admissible, s
  <2>7. Whole(transactions, ledger_entries, accounts) => Damaged(transactions, (ledger_entries \ {e}) \cup {s})
    BY <2>3, <2>5, <2>6, AmountDamages
  <2> QED
    BY <2>1, <2>3, <2>7, ReplacementStep DEF s, WriteKinds
<1>2. CASE UpdateEntry("currency", Currencies)
  <2>1. PICK e \in ledger_entries, v \in Currencies :
          /\ Updated(e, "currency", v) # e
          /\ Admissible(Updated(e, "currency", v), ledger_entries \ {e})
          /\ WriteEntries("currency", (ledger_entries \ {e}) \cup {Updated(e, "currency", v)})
    BY <1>2, UpdatePicks
  <2> DEFINE s == Updated(e, "currency", v)
  <2>2. e \in EntryRecords /\ e.signed_amount_minor = SignedAmountFor(e.direction, e.amount_minor)
    BY DEF Consistent
  <2>3. s \in EntryRecords /\ s.currency = v
    BY <2>2 DEF Updated, EntryRecords, SignedAmountFor
  <2>4. v # e.currency
    BY <2>1, <2>2 DEF Updated, EntryRecords
  <2>5. e.signed_amount_minor # 0
    BY <2>2 DEF SignedAmountFor, EntryRecords
  <2> HIDE DEF s
  <2>6. Whole(transactions, ledger_entries, accounts) => Damaged(transactions, (ledger_entries \ {e}) \cup {s})
    BY <2>3, <2>4, <2>5, CurrencyDamages
  <2> QED
    BY <2>1, <2>3, <2>6, ReplacementStep DEF s, WriteKinds
<1>3. CASE UpdateEntry("account_id", Accounts)
  <2>1. PICK e \in ledger_entries, v \in Accounts :
          /\ Admissible(Updated(e, "account_id", v), ledger_entries \ {e})
          /\ WriteEntries("account_id", (ledger_entries \ {e}) \cup {Updated(e, "account_id", v)})
    BY <1>3, UpdatePicks
  <2>2. Updated(e, "account_id", v) \in EntryRecords
    <3>1. e \in EntryRecords
      OBVIOUS
    <3>2. SignedAmountFor(e.direction, e.amount_minor) \in Int
      BY <3>1 DEF SignedAmountFor, EntryRecords
    <3> QED
      BY <3>1, <3>2 DEF Updated, EntryRecords
  <2> QED
    BY <2>1, <2>2, ReplacementStep DEF Unseen, WriteKinds
<1> QED
    BY <1>1, <1>2, <1>3

\* The transaction or the direction of an entry is changed: its new place is
\* taken, unless it is under a stray id.
LEMMA PlaceStep ==
    ASSUME LedgerFine,
           \/ UpdateEntry("transaction_id", KnownIds)
           \/ UpdateEntry("direction", {"DEBIT", "CREDIT"})
    PROVE  LedgerFine'
<1> USE LedgerFacts
<1>1. CASE UpdateEntry("transaction_id", KnownIds)
  <2>1. PICK e \in ledger_entries, v \in KnownIds :
          /\ Updated(e, "transaction_id", v) # e
          /\ Admissible(Updated(e, "transaction_id", v), ledger_entries \ {e})
          /\ WriteEntries("transaction_id", (ledger_entries \ {e}) \cup {Updated(e, "transaction_id", v)})
    BY <1>1, UpdatePicks
  <2> DEFINE s == Updated(e, "transaction_id", v)
  <2>2. e \in EntryRecords /\ e.signed_amount_minor = SignedAmountFor(e.direction, e.amount_minor)
    BY DEF Consistent
  <2>3. s \in EntryRecords /\ s.transaction_id = v /\ s.direction = e.direction
    <3>1. v \in IdsOf(Transfers) \cup StrayIds
      BY DEF KnownIds, IdsOf, TransactionRecords
    <3> QED
      BY <2>2, <3>1 DEF Updated, EntryRecords, SignedAmountFor
  <2>4. v # e.transaction_id
    BY <2>1, <2>2 DEF Updated, EntryRecords
  <2> HIDE DEF s
  <2>5. ASSUME Whole(transactions, ledger_entries, accounts)
        PROVE  Damaged(transactions, (ledger_entries \ {e}) \cup {s})
    <3>1. v \notin IdsOf(transactions)
      <4> SUFFICES ASSUME v \in IdsOf(transactions) PROVE FALSE
        OBVIOUS
      <4>1. PICK f \in ledger_entries : f.transaction_id = v /\ f.direction = e.direction
        BY <2>2, <2>5, BothSides DEF EntryRecords
      <4>2. f # e
        BY <2>4, <4>1
      <4> QED
        BY <2>1, <2>3, <4>1, <4>2 DEF Admissible, s
    <3> QED
      BY <2>3, <3>1, StrayDamages
  <2> QED
    BY <2>1, <2>3, <2>5, ReplacementStep DEF s, WriteKinds
<1>2. CASE UpdateEntry("direction", {"DEBIT", "CREDIT"})
  <2>1. PICK e \in ledger_entries, v \in {"DEBIT", "CREDIT"} :
          /\ Updated(e, "direction", v) # e
          /\ Admissible(Updated(e, "direction", v), ledger_entries \ {e})
          /\ WriteEntries("direction", (ledger_entries \ {e}) \cup {Updated(e, "direction", v)})
    BY <1>2 DEF UpdateEntry, Updated
  <2> DEFINE s == Updated(e, "direction", v)
  <2>2. e \in EntryRecords /\ e.signed_amount_minor = SignedAmountFor(e.direction, e.amount_minor)
    BY DEF Consistent
  <2>3. s \in EntryRecords /\ s.transaction_id = e.transaction_id /\ s.direction = v
    <3>1. SignedAmountFor(v, e.amount_minor) \in Int
      BY <2>2 DEF SignedAmountFor, EntryRecords
    <3> QED
      BY <2>2, <3>1 DEF Updated, EntryRecords
  <2>4. v # e.direction
    BY <2>1, <2>2 DEF Updated, EntryRecords
  <2> HIDE DEF s
  <2>5. ~Whole(transactions, ledger_entries, accounts)
    <3> SUFFICES ASSUME Whole(transactions, ledger_entries, accounts) PROVE FALSE
      OBVIOUS
    <3>1. e.transaction_id \in IdsOf(transactions)
      BY DEF Whole, Ids
    <3>2. PICK f \in ledger_entries : f.transaction_id = e.transaction_id /\ f.direction = v
      BY <3>1, BothSides
    <3>3. f # e
      BY <2>4, <3>2
    <3> QED
      BY <2>1, <2>3, <3>2, <3>3 DEF Admissible, s
  <2> QED
    BY <2>1, <2>3, <2>5, ReplacementStep DEF s, WriteKinds
<1> QED
    BY <1>1, <1>2

\* Every direct write keeps the ledger what it should be.
LEMMA DirectWriteStep ==
    ASSUME LedgerFine, DirectWrite
    PROVE  LedgerFine'
BY EntryStep, HeaderStep, HeaderUpdateStep, AccountStep, ContentStep, PlaceStep DEF DirectWrite

-----------------------------------------------------------------------------
(* The reads agree on one snapshot. *)

\* What the reads find is what the fields of a report hold.
LEMMA FoundType ==
    ASSUME NEW docs, DocumentsType(docs)
    PROVE  LET T == docs.transactions
               E == docs.ledger_entries
               A == docs.accounts
           IN  /\ SumSigned(E) \in Int /\ Cardinality(E) \in Nat /\ Cardinality(T) \in Nat
               /\ IsFiniteSet(WithoutTransaction(T, E)) /\ Cardinality(WithoutTransaction(T, E)) \in Nat
               /\ IsFiniteSet(Unbalanced(E)) /\ Cardinality(Unbalanced(E)) \in Nat
               /\ NegativeUsers(A, E) \subseteq Accounts
               /\ DOMAIN PerCurrency(E) \subseteq Currencies
<1> DEFINE T == docs.transactions
           E == docs.ledger_entries
<1>1. /\ IsFiniteSet(T) /\ IsFiniteSet(E) /\ E \in SUBSET EntryRecords
    BY DEF DocumentsType
<1> HIDE DEF T, E
<1>2. IsFiniteSet(WithoutTransaction(T, E))
    BY <1>1, FS_Subset DEF WithoutTransaction
<1>3. IsFiniteSet(Unbalanced(E))
    BY <1>1, FiniteIds, FS_Subset DEF Unbalanced
<1>4. NegativeUsers(docs.accounts, E) \subseteq Accounts /\ DOMAIN PerCurrency(E) \subseteq Currencies
    BY <1>1 DEF NegativeUsers, PerCurrency, EntryRecords
<1>5. SumSigned(E) \in Int
    BY <1>1, SumTypes
<1> QED
    BY <1>1, <1>2, <1>3, <1>4, <1>5, FS_CardinalityType DEF T, E

\* A read that finds in the snapshot what it should.
LEMMA ReadStep ==
    ASSUME ReportInv, NEW r \in Reports, NEW now, NEW then \in ReadSteps, NEW found,
           Read(r, now, then, found), ReportType(found),
           NEW docs, DocumentsType(docs), HistoryInv(docs), OneSnapshot(docs, found, then),
           DOMAIN view' = Reports,
           \A q \in Reports : view'[q] = IF q = r THEN docs ELSE view[q]
    PROVE  ReportInv'
<1>1. /\ next_read' = [next_read EXCEPT ![r] = then] /\ report' = [report EXCEPT ![r] = found]
      /\ UNCHANGED <<ledger, directly>>
    BY DEF Read
<1>2. /\ next_read' \in [Reports -> ReadSteps] /\ DOMAIN report' = Reports
      /\ \A q \in Reports : next_read'[q] = IF q = r THEN then ELSE next_read[q]
      /\ \A q \in Reports : report'[q] = IF q = r THEN found ELSE report[q]
    BY <1>1 DEF ReportInv, TypeOK
<1>3. Committed' = Committed
    BY <1>1 DEF ledger, Committed
<1>4. ASSUME NEW q \in Reports
      PROVE  /\ DocumentsType(view'[q]) /\ ReportType(report'[q]) /\ HistoryInv(view'[q])
             /\ OneSnapshot(view'[q], report'[q], next_read'[q])
  <2>1. CASE q = r
    <3>1. view'[q] = docs /\ report'[q] = found /\ next_read'[q] = then
      BY <1>2, <2>1
    <3> QED
      BY <3>1
  <2>2. CASE q # r
    <3>1. view'[q] = view[q] /\ report'[q] = report[q] /\ next_read'[q] = next_read[q]
      BY <1>2, <2>2
    <3> QED
      BY <3>1 DEF ReportInv, TypeOK
  <2> QED
    BY <2>1, <2>2
<1>5. TypeOK'
    BY <1>2, <1>3, <1>4 DEF TypeOK, ReportInv
<1> QED
    BY <1>3, <1>4, <1>5 DEF ReportInv

\* Every read but the first one goes on in the snapshot there is.
LEMMA ReadOn ==
    ASSUME ReportInv, NEW r \in Reports, NEW now \in ReadSteps, NEW then \in ReadSteps, NEW found,
           Read(r, now, then, found), UNCHANGED view, ReportType(found),
           OneSnapshot(view[r], found, then)
    PROVE  ReportInv'
BY ReadStep DEF ReportInv, TypeOK

LEMMA ReportHere ==
    ASSUME ReportInv, NEW r \in Reports
    PROVE  /\ DocumentsType(view[r]) /\ ReportType(report[r])
           /\ OneSnapshot(view[r], report[r], next_read[r])
           /\ DOMAIN report[r] = {"net_signed_minor", "total_entries", "total_transactions",
                 "entries_without_transaction", "unbalanced_transaction_groups",
                 "negative_user_accounts", "per_currency_net_minor"}
BY DEF ReportInv, TypeOK, ReportType, EmptyReport

LEMMA NetAndCountStep ==
    ASSUME ReportInv, NEW r \in Reports, NetAndCount(r)
    PROVE  ReportInv'
<1> DEFINE found == [report[r] EXCEPT !.net_signed_minor = SumSigned(ledger_entries),
                                      !.total_entries = Cardinality(ledger_entries)]
           docs == Committed
<1>1. Read(r, "net", "per_currency", found) /\ view' = [view EXCEPT ![r] = docs]
    BY DEF NetAndCount
<1>2. DocumentsType(docs) /\ HistoryInv(docs) /\ docs.ledger_entries = ledger_entries
    BY DEF ReportInv, TypeOK, Committed, Documents
<1>3. SumSigned(ledger_entries) \in Int /\ Cardinality(ledger_entries) \in Nat
    BY <1>2, FoundType
<1>4. ReportType(found)
    BY <1>3, ReportHere DEF ReportType
<1>5. OneSnapshot(docs, found, "per_currency")
    BY <1>2, ReportHere DEF OneSnapshot
<1>6. DOMAIN view' = Reports /\ \A q \in Reports : view'[q] = IF q = r THEN docs ELSE view[q]
    BY <1>1 DEF ReportInv, TypeOK
<1>7. "per_currency" \in ReadSteps
    BY DEF ReadSteps
<1> HIDE DEF found, docs
<1> QED
    BY <1>1, <1>2, <1>4, <1>5, <1>6, <1>7, ReadStep

LEMMA NetPerCurrencyStep ==
    ASSUME ReportInv, NEW r \in Reports, NetPerCurrency(r)
    PROVE  ReportInv'
<1> DEFINE found == [report[r] EXCEPT !.per_currency_net_minor = PerCurrency(view[r].ledger_entries)]
<1>1. Read(r, "per_currency", "without_transaction", found) /\ UNCHANGED view
    BY DEF NetPerCurrency, Seen
<1>2. next_read[r] = "per_currency"
    BY <1>1 DEF Read
<1>3. ReportType(found)
    BY ReportHere, FoundType DEF ReportType
<1>4. OneSnapshot(view[r], found, "without_transaction")
    BY <1>2, ReportHere DEF OneSnapshot
<1> HIDE DEF found
<1> QED
    BY <1>1, <1>3, <1>4, ReadOn DEF ReadSteps

LEMMA CountWithoutTransactionStep ==
    ASSUME ReportInv, NEW r \in Reports, CountWithoutTransaction(r)
    PROVE  ReportInv'
<1> DEFINE n == Cardinality(WithoutTransaction(view[r].transactions, view[r].ledger_entries))
           found == [report[r] EXCEPT !.entries_without_transaction = n]
<1>1. Read(r, "without_transaction", "groups", found) /\ UNCHANGED view
    BY DEF CountWithoutTransaction, Seen
<1>2. next_read[r] = "without_transaction"
    BY <1>1 DEF Read
<1>3. n \in Nat
    BY ReportHere, FoundType
<1>4. OneSnapshot(view[r], found, "groups")
    BY <1>2, ReportHere DEF OneSnapshot
<1> HIDE DEF n
<1>5. ReportType(found)
    BY <1>3, ReportHere DEF ReportType
<1> HIDE DEF found
<1> QED
    BY <1>1, <1>4, <1>5, ReadOn DEF ReadSteps

LEMMA CountUnbalancedGroupsStep ==
    ASSUME ReportInv, NEW r \in Reports, CountUnbalancedGroups(r)
    PROVE  ReportInv'
<1> DEFINE n == Cardinality(Unbalanced(view[r].ledger_entries))
           found == [report[r] EXCEPT !.unbalanced_transaction_groups = n]
<1>1. Read(r, "groups", "negative", found) /\ UNCHANGED view
    BY DEF CountUnbalancedGroups, Seen
<1>2. next_read[r] = "groups"
    BY <1>1 DEF Read
<1>3. n \in Nat
    BY ReportHere, FoundType
<1>4. OneSnapshot(view[r], found, "negative")
    BY <1>2, ReportHere DEF OneSnapshot
<1> HIDE DEF n
<1>5. ReportType(found)
    BY <1>3, ReportHere DEF ReportType
<1> HIDE DEF found
<1> QED
    BY <1>1, <1>4, <1>5, ReadOn DEF ReadSteps

LEMMA FindNegativeUsersStep ==
    ASSUME ReportInv, NEW r \in Reports, FindNegativeUsers(r)
    PROVE  ReportInv'
<1> DEFINE found == [report[r] EXCEPT !.negative_user_accounts = NegativeUsers(view[r].accounts, view[r].ledger_entries)]
<1>1. Read(r, "negative", "total", found) /\ UNCHANGED view
    BY DEF FindNegativeUsers, Seen
<1>2. next_read[r] = "negative"
    BY <1>1 DEF Read
<1>3. ReportType(found)
    BY ReportHere, FoundType DEF ReportType
<1>4. OneSnapshot(view[r], found, "total")
    BY <1>2, ReportHere DEF OneSnapshot
<1> HIDE DEF found
<1> QED
    BY <1>1, <1>3, <1>4, ReadOn DEF ReadSteps

LEMMA CountTransactionsStep ==
    ASSUME ReportInv, NEW r \in Reports, CountTransactions(r)
    PROVE  ReportInv'
<1> DEFINE n == Cardinality(view[r].transactions)
           found == [report[r] EXCEPT !.total_transactions = n]
<1>1. Read(r, "total", "done", found) /\ UNCHANGED view
    BY DEF CountTransactions, Seen
<1>2. next_read[r] = "total"
    BY <1>1 DEF Read
<1>3. n \in Nat
    BY ReportHere, FoundType
<1>4. OneSnapshot(view[r], found, "done")
    BY <1>2, ReportHere DEF OneSnapshot
<1> HIDE DEF n
<1>5. ReportType(found)
    BY <1>3, ReportHere DEF ReportType
<1> HIDE DEF found
<1> QED
    BY <1>1, <1>4, <1>5, ReadOn DEF ReadSteps

\* A failed report says nothing.
LEMMA FailStep ==
    ASSUME ReportInv, NEW r \in Reports, Fail(r)
    PROVE  ReportInv'
<1>1. /\ next_read[r] # "net" /\ next_read' = [next_read EXCEPT ![r] = "failed"]
      /\ UNCHANGED <<ledger, directly, view, report>>
    BY DEF Fail
<1>2. /\ next_read' \in [Reports -> ReadSteps]
      /\ \A q \in Reports : next_read'[q] = IF q = r THEN "failed" ELSE next_read[q]
    BY <1>1 DEF ReportInv, TypeOK, ReadSteps
<1>3. Committed' = Committed
    BY <1>1 DEF ledger, Committed
<1>4. TypeOK'
    BY <1>1, <1>2, <1>3 DEF ReportInv, TypeOK
<1>5. OneSnapshot(view[r], report[r], "failed")
    BY DEF OneSnapshot
<1>6. \A q \in Reports : OneSnapshot(view'[q], report'[q], next_read'[q])
    BY <1>1, <1>2, <1>5 DEF ReportInv
<1> QED
    BY <1>1, <1>3, <1>4, <1>6 DEF ReportInv

LEMMA ReadingStep ==
    ASSUME ReportInv, NEW r \in Reports, Reading(r)
    PROVE  ReportInv'
BY NetAndCountStep, NetPerCurrencyStep, CountWithoutTransactionStep, CountUnbalancedGroupsStep,
   FindNegativeUsersStep, CountTransactionsStep, FailStep DEF Reading

\* The ledger's steps leave the reports alone.
LEMMA LedgerStep ==
    ASSUME ReportInv, LedgerFine', UNCHANGED scan
    PROVE  ReportInv'
BY DEF ReportInv, TypeOK, LedgerFine, Committed, scan

LEMMA InitReport == Init => ReportInv
<1> SUFFICES ASSUME Init PROVE ReportInv
    OBVIOUS
<1> DEFINE empty == Documents({}, {}, Opened, <<>>)
<1>1. DocumentsType(empty)
    BY FS_EmptySet, ReconciliationAssumption DEF DocumentsType, Documents, OneEach
<1>2. Whole({}, {}, Opened)
  <2>1. Ids({}) = {} /\ IdsOf({}) = {}
    BY DEF Ids, IdsOf
  <2>2. Cardinality({}) = 2 * Cardinality({})
    BY FS_EmptySet
  <2>3. \A c : InCurrency({}, c) = {}
    BY DEF InCurrency
  <2>4. \A a : Balance({}, a) = 0
    <3>1. \A a : {e \in {} : e.account_id = a} = {}
      OBVIOUS
    <3> QED
      BY <3>1, SumSignedEmpty DEF Balance
  <2> QED
    BY <2>1, <2>2, <2>3, <2>4, SumSignedEmpty DEF Whole
<1>3. HistoryInv(empty)
    BY <1>2 DEF HistoryInv, Documents
<1>4. ReportType(EmptyReport)
    BY DEF ReportType, EmptyReport
<1>5. \A docs, p : OneSnapshot(docs, p, "net")
    BY DEF OneSnapshot
<1> HIDE DEF empty
<1>6. /\ Committed = empty
      /\ \A r \in Reports : view[r] = empty /\ report[r] = EmptyReport /\ next_read[r] = "net"
      /\ next_read \in [Reports -> ReadSteps] /\ DOMAIN view = Reports /\ DOMAIN report = Reports
    BY DEF Init, ReadSteps, Committed, empty
<1>7. TypeOK
    BY <1>1, <1>4, <1>6 DEF TypeOK
<1> QED
    BY <1>3, <1>5, <1>6, <1>7 DEF ReportInv

LEMMA NextReport == ReportInv /\ [Next]_vars => ReportInv'
<1> SUFFICES ASSUME ReportInv, [Next]_vars PROVE ReportInv'
    OBVIOUS
<1>1. LedgerFine
    BY DEF ReportInv, TypeOK, LedgerFine, Committed
<1>2. CASE \E r \in Reports : Reading(r)
    BY <1>2, ReadingStep
<1>3. CASE \E t \in Transfers : Commit(t)
  <2>1. UNCHANGED scan
    BY <1>3 DEF Commit
  <2> QED
    BY <1>1, <1>3, <2>1, CommitStep, LedgerStep
<1>4. CASE DirectWrite
  <2>1. UNCHANGED scan
    BY <1>4 DEF DirectWrite, InsertEntry, DeleteEntry, InsertTransaction, DeleteTransaction,
                UpdateEntry, UpdateDate, UpdateTransaction, InsertAccount, DeleteAccount,
                UpdateAccount, WriteEntries, WriteTransactions, WriteAccounts, Write
  <2> QED
    BY <1>1, <1>4, <2>1, DirectWriteStep, LedgerStep
<1>5. CASE UNCHANGED vars
    BY <1>5 DEF vars, ledger, scan, ReportInv, TypeOK, Committed
<1> QED
    BY <1>2, <1>3, <1>4, <1>5 DEF Next

\* In every state each report agrees with one snapshot, and each snapshot with
\* its history: the reads of reconcile() share the session of one transaction.
THEOREM Invariance == Spec => []ReportInv
<1>1. ReportInv /\ [Next]_vars => ReportInv'
    BY NextReport
<1> QED
    BY InitReport, <1>1, PTL DEF Spec

\* The collections hold what the validators admit, and a report what its fields
\* are declared to hold.
THEOREM TypeCorrect == Spec => []TypeOK
<1>1. ReportInv => TypeOK
    BY DEF ReportInv
<1> QED
    BY <1>1, Invariance, PTL

-----------------------------------------------------------------------------
(* What a finished report is worth. *)

\* A finished report is that of the documents it saw.
LEMMA Finished ==
    ASSUME ReportInv, NEW r \in Reports, next_read[r] = "done"
    PROVE  LET T == view[r].transactions
               E == view[r].ledger_entries
               A == view[r].accounts
               p == report[r]
           IN  /\ p.net_signed_minor = SumSigned(E) /\ p.total_entries = Cardinality(E)
               /\ p.per_currency_net_minor = PerCurrency(E)
               /\ p.entries_without_transaction = Cardinality(WithoutTransaction(T, E))
               /\ p.unbalanced_transaction_groups = Cardinality(Unbalanced(E))
               /\ p.negative_user_accounts = NegativeUsers(A, E)
               /\ p.total_transactions = Cardinality(T)
BY ReportHere DEF OneSnapshot

\* It is healthy exactly if nothing is wrong with them.
LEMMA HealthyMeans ==
    ASSUME ReportInv, NEW r \in Reports, next_read[r] = "done"
    PROVE  LET T == view[r].transactions
               E == view[r].ledger_entries
               A == view[r].accounts
           IN  healthy(report[r]) <=>
                 /\ SumSigned(E) = 0 /\ ~Damaged(T, E) /\ NegativeUsers(A, E) = {}
<1> DEFINE T == view[r].transactions
           E == view[r].ledger_entries
           A == view[r].accounts
<1>1. /\ E \in SUBSET EntryRecords /\ IsFiniteSet(WithoutTransaction(T, E)) /\ IsFiniteSet(Unbalanced(E))
    BY ReportHere, FoundType DEF DocumentsType
<1>2. /\ Cardinality(WithoutTransaction(T, E)) = 0 <=> WithoutTransaction(T, E) = {}
      /\ Cardinality(Unbalanced(E)) = 0 <=> Unbalanced(E) = {}
    BY <1>1, FS_EmptySet
<1>3. (\A c \in DOMAIN PerCurrency(E) : PerCurrency(E)[c] = 0)
        <=> (\A c \in Currencies : SumSigned(InCurrency(E, c)) = 0)
  <2>1. \A c \in DOMAIN PerCurrency(E) : c \in Currencies /\ PerCurrency(E)[c] = SumSigned(InCurrency(E, c))
    BY <1>1 DEF PerCurrency, EntryRecords
  <2>2. \A c \in Currencies \ DOMAIN PerCurrency(E) : InCurrency(E, c) = {}
    BY DEF PerCurrency, InCurrency
  <2> QED
    BY <2>1, <2>2, SumSignedEmpty
<1> HIDE DEF T, E, A
<1>4. /\ report[r].net_signed_minor = SumSigned(E)
      /\ report[r].per_currency_net_minor = PerCurrency(E)
      /\ report[r].entries_without_transaction = Cardinality(WithoutTransaction(T, E))
      /\ report[r].unbalanced_transaction_groups = Cardinality(Unbalanced(E))
      /\ report[r].negative_user_accounts = NegativeUsers(A, E)
    BY Finished DEF T, E, A
<1>5. healthy(report[r]) <=>
        /\ SumSigned(E) = 0 /\ ~Damaged(T, E) /\ NegativeUsers(A, E) = {}
    BY <1>2, <1>3, <1>4 DEF healthy, balanced, Damaged
<1> QED
    BY <1>5 DEF T, E, A

\* While only the service writes, a report that is finished is healthy, and
\* counts two entries for each transaction: no false alarm under load.
LEMMA WholeIsHealthy ==
    ASSUME ReportInv, NEW r \in Reports, next_read[r] = "done", view[r].directly = <<>>
    PROVE  /\ healthy(report[r])
           /\ report[r].total_entries = 2 * report[r].total_transactions
<1> DEFINE T == view[r].transactions
           E == view[r].ledger_entries
           A == view[r].accounts
<1>1. Whole(T, E, A) /\ E \in SUBSET EntryRecords /\ IsFiniteSet(E)
    BY ReportHere DEF ReportInv, HistoryInv, DocumentsType
<1>2. report[r].total_entries = Cardinality(E) /\ report[r].total_transactions = Cardinality(T)
    BY Finished
<1>3. healthy(report[r]) <=>
        /\ SumSigned(E) = 0 /\ ~Damaged(T, E) /\ NegativeUsers(A, E) = {}
    BY HealthyMeans
<1> HIDE DEF T, E, A
<1>4. SumSigned(E) = 0 /\ ~Damaged(T, E)
    BY <1>1 DEF Whole, Damaged, Unbalanced, WithoutTransaction, Ids
<1>5. NegativeUsers(A, E) = {}
  <2>1. \A a \in UserIds(A) : ~ (Balance(E, a) < 0)
    BY <1>1, SumTypes DEF Whole
  <2> QED
    BY <2>1 DEF NegativeUsers
<1>6. Cardinality(E) = 2 * Cardinality(T)
    BY <1>1 DEF Whole
<1> QED
    BY <1>2, <1>3, <1>4, <1>5, <1>6

\* "A checker that raises false alarms under load is worse than useless": it
\* does not, however many transfers commit between its reads.
THEOREM NoAlarmUnderLoad == Spec => []NoFalseAlarm
<1>1. ReportInv => NoFalseAlarm
    BY WholeIsHealthy DEF NoFalseAlarm
<1> QED
    BY <1>1, Invariance, PTL

\* One entry added or removed past the service, or changed in its amount, sign,
\* currency or transaction, and one header removed, is found by every later
\* report.  Unseen names what may escape it.
THEOREM OneWriteAlarms == Spec => []OneWriteIsFound
<1>1. ReportInv => OneWriteIsFound
  <2> SUFFICES ASSUME ReportInv, NEW r \in Reports, next_read[r] = "done",
                      Len(view[r].directly) = 1, healthy(report[r])
               PROVE  view[r].directly[1] \in Unseen
    BY DEF OneWriteIsFound
  <2>1. ~Damaged(view[r].transactions, view[r].ledger_entries)
    BY HealthyMeans
  <2> QED
    BY <2>1 DEF ReportInv, HistoryInv
<1> QED
    BY <1>1, Invariance, PTL

\* In a balanced group every entry has its counterpart.
LEMMA Counterpart ==
    ASSUME NEW E \in SUBSET EntryRecords, IsFiniteSet(E), Consistent(E),
           NEW i, Balanced(Group(E, i)), NEW e \in Group(E, i)
    PROVE  \E f \in E : f.transaction_id = i /\ f.signed_amount_minor = -e.signed_amount_minor
<1> DEFINE G == Group(E, i)
<1>1. PICK o \in {"DEBIT", "CREDIT"} : o # e.direction
    OBVIOUS
<1>2. Side(G, o) # {}
  <2>1. Cardinality(Side(G, o)) = 1
    BY DEF Balanced
  <2> QED
    BY <2>1, FS_EmptySet
<1>3. PICK f \in G : f.direction = o
    BY <1>2 DEF Side
<1>4. f # e /\ f \in E /\ e \in E /\ f.transaction_id = i
    BY <1>1, <1>3 DEF Group
<1>5. IsFiniteSet(G) /\ IsFiniteSet({e}) /\ IsFiniteSet({e} \cup {f}) /\ Cardinality({e} \cup {f}) = 2
  <2>1. IsFiniteSet(G)
    BY FS_Subset DEF Group
  <2>2. IsFiniteSet({e}) /\ Cardinality({e}) = 1
    BY FS_Singleton
  <2>3. f \notin {e}
    BY <1>4
  <2>4. IsFiniteSet({e} \cup {f}) /\ Cardinality({e} \cup {f}) = Cardinality({e}) + 1
    BY <2>2, <2>3, FS_AddElement
  <2> QED
    BY <2>1, <2>2, <2>4
<1>6. G = {e} \cup {f}
  <2>1. {e} \cup {f} \in SUBSET G
    BY <1>3
  <2>2. Cardinality(G) = 2
    BY DEF Balanced
  <2> HIDE DEF G
  <2> QED
    BY <1>5, <2>1, <2>2, FS_Subset
<1>7. e.signed_amount_minor \in Int /\ f.signed_amount_minor \in Int
    BY <1>4 DEF EntryRecords
<1>8. SumSigned({e} \cup {f}) = SumSigned({e}) + f.signed_amount_minor
  <2>1. f \notin {e}
    BY <1>4
  <2> QED
    BY <1>5, <1>7, <2>1, SumSignedAdd DEF Signed
<1>9. SumSigned({e}) = e.signed_amount_minor
  <2>1. SumSigned({} \cup {e}) = SumSigned({}) + e.signed_amount_minor
    BY <1>7, FS_EmptySet, SumSignedAdd DEF Signed
  <2>2. {} \cup {e} = {e}
    OBVIOUS
  <2>3. SumSigned({e}) = 0 + e.signed_amount_minor
    BY <2>1, <2>2, SumSignedEmpty, Zenon
  <2> QED
    BY <1>7, <2>3
<1>10. SumSigned(G) = 0
    BY DEF Balanced
<1>11. e.signed_amount_minor + f.signed_amount_minor = 0
    BY <1>6, <1>8, <1>9, <1>10, Zenon
<1>12. f.signed_amount_minor = -e.signed_amount_minor
    BY <1>7, <1>11
<1> QED
    BY <1>4, <1>12

\* A healthy report means of the ledger it saw, whoever wrote it, that every
\* entry has its counterpart under a header and that no user is overdrawn.
THEOREM HealthIsWorthIt == Spec => []HealthyMeansPaid
<1>1. ReportInv => HealthyMeansPaid
  <2> SUFFICES ASSUME ReportInv, NEW r \in Reports, next_read[r] = "done", healthy(report[r])
               PROVE  LET E == view[r].ledger_entries
                      IN  /\ \A e \in E : \E d \in E :
                               /\ d.transaction_id = e.transaction_id
                               /\ d.signed_amount_minor = -e.signed_amount_minor
                               /\ d.transaction_id \in IdsOf(view[r].transactions)
                          /\ \A a \in UserIds(view[r].accounts) : Balance(E, a) >= 0
    BY DEF HealthyMeansPaid
  <2> DEFINE T == view[r].transactions
             E == view[r].ledger_entries
             A == view[r].accounts
  <2>1. ~Damaged(T, E) /\ NegativeUsers(A, E) = {}
    BY HealthyMeans
  <2>2. E \in SUBSET EntryRecords /\ IsFiniteSet(E) /\ Consistent(E)
    BY ReportHere DEF DocumentsType, Consistent
  <2> HIDE DEF T, E, A
  <2>3. ASSUME NEW e \in E
        PROVE  \E d \in E : /\ d.transaction_id = e.transaction_id
                            /\ d.signed_amount_minor = -e.signed_amount_minor
                            /\ d.transaction_id \in IdsOf(T)
    <3>1. /\ e.transaction_id \in IdsOf(T) /\ Balanced(Group(E, e.transaction_id))
          /\ e \in Group(E, e.transaction_id)
      BY <2>1 DEF Damaged, WithoutTransaction, Unbalanced, Ids, Group
    <3> QED
      BY <2>2, <3>1, Counterpart
  <2>4. ASSUME NEW a \in UserIds(A)
        PROVE  Balance(E, a) >= 0
    <3>1. CASE a \in {e.account_id : e \in E}
      <4>1. ~ (Balance(E, a) < 0)
        BY <2>1, <2>4, <3>1 DEF NegativeUsers
      <4> QED
        BY <2>2, <4>1, SumTypes
    <3>2. CASE a \notin {e.account_id : e \in E}
      <4>1. {e \in E : e.account_id = a} = {}
        BY <3>2
      <4> QED
        BY <4>1, SumSignedEmpty DEF Balance
    <3> QED
      BY <3>1, <3>2
  <2> QED
    BY <2>3, <2>4 DEF T, E, A
<1> QED
    BY <1>1, Invariance, PTL

=============================================================================
