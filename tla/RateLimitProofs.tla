--------------------------- MODULE RateLimitProofs ---------------------------
(***************************************************************************)
(* What the limits are worth, for any number of replicas and callers, any  *)
(* limits and any window, however often replicas are started again: how    *)
(* much a caller gets through in a Window, that nobody is refused for the  *)
(* calls of others, and that waiting as told is enough.                    *)
(***************************************************************************)
EXTENDS RateLimit, SumsProofs

\* The smaller of two numbers.
LEMMA MinOfTwo ==
    ASSUME NEW x \in Int, NEW y \in Int
    PROVE  Min({x, y}) = IF x <= y THEN x ELSE y
<1>1. \E m \in {x, y} : \A z \in {x, y} : m <= z
    OBVIOUS
<1>2. Min({x, y}) \in {x, y} /\ \A z \in {x, y} : Min({x, y}) <= z
    BY <1>1 DEF Min
<1> QED
    BY <1>2

-----------------------------------------------------------------------------
(* Histories: sums over the ages that will still be remembered.              *)

Histories == [Ages -> Nat]

\* A total, and what will be left of it, are sums over ages.
LEMMA HistorySums ==
    ASSUME NEW h
    PROVE  /\ Total(h) = SumOver(h, Ages)
           /\ \A n : Later(h, n) = SumOver(h, 0 .. Window - 1 - n)
<1>1. Total(h) = SumOver(h, Ages)
    BY Zenon DEF Total, MapThenSumSet, MapThenFoldSet, SumOver, SumStep, IsSum
<1>2. ASSUME NEW n PROVE Later(h, n) = SumOver(h, 0 .. Window - 1 - n)
    BY Zenon DEF Later, MapThenSumSet, MapThenFoldSet, SumOver, SumStep, IsSum
<1> QED
    BY <1>1, <1>2

\* The ages that will be remembered in n instants are some of all.
LEMMA RememberedAges ==
    ASSUME NEW n \in 0 .. Window
    PROVE  /\ 0 .. Window - 1 - n \subseteq Ages /\ IsFiniteSet(0 .. Window - 1 - n)
           /\ \A m \in 0 .. n : 0 .. Window - 1 - n \subseteq 0 .. Window - 1 - m
BY RateAssumption, FS_Interval DEF Ages

\* Less and less of a history is remembered, and in the end nothing.
LEMMA LaterFacts ==
    ASSUME NEW h \in Histories
    PROVE  /\ \A n \in 0 .. Window : Later(h, n) \in Nat
           /\ \A n \in 0 .. Window : \A m \in 0 .. n : Later(h, n) <= Later(h, m)
           /\ Later(h, 0) = Total(h) /\ Later(h, Window) = 0
<1>0. Window \in Nat \ {0}
    BY RateAssumption
<1>1. ASSUME NEW n \in 0 .. Window PROVE Later(h, n) \in Nat
  <2> DEFINE N == 0 .. Window - 1 - n
  <2>1. IsFiniteSet(N) /\ \A a \in N : h[a] \in Int /\ h[a] >= 0
    BY RememberedAges DEF Histories
  <2>2. Later(h, n) = SumOver(h, N)
    BY HistorySums
  <2> HIDE DEF N
  <2> QED
    BY <2>1, <2>2, SumOverNatural
<1>2. ASSUME NEW n \in 0 .. Window, NEW m \in 0 .. n PROVE Later(h, n) <= Later(h, m)
  <2> DEFINE N == 0 .. Window - 1 - n
             M == 0 .. Window - 1 - m
  <2>1. m \in 0 .. Window
    BY <1>0
  <2>2. N \subseteq M /\ IsFiniteSet(M) /\ \A a \in M : h[a] \in Int /\ h[a] >= 0
    BY <2>1, RememberedAges DEF Histories
  <2>3. Weighs(h, N)
    BY <2>2 DEF Weighs
  <2>4. SumOver(h, N) <= SumOver(h, M)
    <3> HIDE DEF N, M
    <3> QED
      BY <2>2, <2>3, SumOverLess
  <2> QED
    BY <2>4, HistorySums
<1>3. Later(h, 0) = Total(h)
  <2>1. 0 .. Window - 1 - 0 = Ages
    BY <1>0 DEF Ages
  <2> QED
    BY <2>1, HistorySums
<1>4. Later(h, Window) = 0
  <2>1. 0 .. Window - 1 - Window = {}
    BY <1>0
  <2> QED
    BY <2>1, HistorySums, SumOverEmpty
<1> QED
    BY <1>1, <1>2, <1>3, <1>4

\* What happens now will be remembered until a Window is over.
LEMMA LaterOfMore ==
    ASSUME NEW h \in Histories, NEW n \in 0 .. Window - 1
    PROVE  Later([h EXCEPT ![0] = @ + 1], n) = Later(h, n) + 1
<1> DEFINE g == [h EXCEPT ![0] = @ + 1]
           R == 1 .. Window - 1 - n
<1>0. Window \in Nat \ {0} /\ 0 \in Ages
    BY RateAssumption DEF Ages
<1>1. 0 .. Window - 1 - n = R \cup {0} /\ 0 \notin R /\ IsFiniteSet(R) /\ R \subseteq Ages
    BY <1>0, FS_Interval DEF Ages
<1>2. g \in Histories /\ g[0] = h[0] + 1 /\ h[0] \in Int /\ \A a \in R : g[a] = h[a]
    BY <1>0, <1>1 DEF Histories
<1>3. Weighs(g, R) /\ Weighs(h, R)
    BY <1>1, <1>2 DEF Weighs, Histories
<1>9. Later(g, n) = SumOver(g, R \cup {0}) /\ Later(h, n) = SumOver(h, R \cup {0})
    BY <1>1, HistorySums
<1> HIDE DEF g, R
<1>4. SumOver(g, R) = SumOver(h, R) /\ SumOver(h, R) \in Int
    BY <1>1, <1>2, <1>3, SumOverSame, SumOverType
<1>5. SumOver(g, R \cup {0}) = SumOver(g, R) + g[0]
    BY <1>1, <1>2, <1>3, SumOverAdd
<1>6. SumOver(h, R \cup {0}) = SumOver(h, R) + h[0]
    BY <1>1, <1>2, <1>3, SumOverAdd
<1>7. Later(g, n) = Later(h, n) + 1
    BY <1>2, <1>4, <1>5, <1>6, <1>9
<1> QED
    BY <1>7 DEF g

\* When an instant passes, what will be remembered in n instants is what was to be
\* remembered in n + 1.
LEMMA LaterOfAged ==
    ASSUME NEW h \in Histories, NEW n \in 0 .. Window - 1
    PROVE  Later(Aged(h), n) = Later(h, n + 1)
<1> DEFINE g == Aged(h)
           S == {k \in Nat : k < Window => SumOver(g, 0 .. k) = SumOver(h, 0 .. k - 1)}
<1>0. Window \in Nat \ {0}
    BY RateAssumption
<1>1. g \in Histories /\ g[0] = 0 /\ \A k \in Nat : k + 1 < Window => g[k + 1] = h[k]
    BY <1>0 DEF Aged, Histories, Ages
<1>2. ASSUME NEW k \in Nat, k < Window
      PROVE  /\ SumOver(g, 0 .. k) = SumOver(g, 0 .. k - 1) + g[k]
             /\ SumOver(h, 0 .. k) = SumOver(h, 0 .. k - 1) + h[k]
             /\ SumOver(h, 0 .. k - 1) \in Int /\ h[k] \in Int
  <2> DEFINE K == 0 .. k - 1
  <2>1. K \subseteq Ages /\ k \in Ages /\ 0 .. k = K \cup {k} /\ k \notin K
    BY <1>0, <1>2 DEF Ages
  <2>2. IsFiniteSet(K)
    BY FS_Interval
  <2> HIDE DEF K, g
  <2>3. Weighs(g, K) /\ Weighs(h, K) /\ g[k] \in Int /\ h[k] \in Int
    BY <1>1, <2>1 DEF Weighs, Histories
  <2>4. /\ SumOver(g, K \cup {k}) = SumOver(g, K) + g[k]
        /\ SumOver(h, K \cup {k}) = SumOver(h, K) + h[k]
    BY <2>1, <2>2, <2>3, SumOverAdd
  <2>5. SumOver(h, K) \in Int
    BY <2>2, <2>3, SumOverType
  <2> QED
    BY <2>1, <2>3, <2>4, <2>5 DEF K
<1> HIDE DEF g
<1>3. 0 \in S
  <2>0. 0 \in Nat /\ 0 < Window
    BY <1>0
  <2>1. SumOver(g, 0 .. 0) = SumOver(g, 0 .. 0 - 1) + g[0]
    BY <1>2, <2>0, Zenon
  <2>2. 0 .. 0 - 1 = {}
    OBVIOUS
  <2>3. SumOver(g, 0 .. 0) = SumOver(h, 0 .. 0 - 1)
    BY <1>1, <2>1, <2>2, SumOverEmpty
  <2> QED
    BY <2>3
<1>4. ASSUME NEW k \in S PROVE k + 1 \in S
  <2> SUFFICES ASSUME k + 1 < Window
               PROVE  SumOver(g, 0 .. k + 1) = SumOver(h, 0 .. (k + 1) - 1)
    OBVIOUS
  <2>1. k \in Nat /\ k + 1 \in Nat /\ k < Window /\ (k + 1) - 1 = k
    BY <1>0
  <2>2. SumOver(g, 0 .. k) = SumOver(h, 0 .. k - 1)
    BY <2>1
  <2>3. SumOver(g, 0 .. k + 1) = SumOver(g, 0 .. (k + 1) - 1) + g[k + 1]
    BY <1>2, <2>1
  <2>4. SumOver(h, 0 .. k) = SumOver(h, 0 .. k - 1) + h[k]
    BY <1>2, <2>1
  <2>5. g[k + 1] = h[k]
    BY <1>1, <2>1
  <2>6. SumOver(g, 0 .. (k + 1) - 1) = SumOver(g, 0 .. k)
        /\ SumOver(h, 0 .. (k + 1) - 1) = SumOver(h, 0 .. k)
    BY <2>1
  <2> HIDE DEF S
  <2> QED
    BY <2>2, <2>3, <2>4, <2>5, <2>6
<1>5. S = Nat
    BY <1>3, <1>4, NatInductionOnSets
<1>6. Window - 1 - n \in Nat /\ Window - 1 - n < Window /\ Window - 1 - n - 1 = Window - 1 - (n + 1)
    BY <1>0
<1>7. SumOver(g, 0 .. Window - 1 - n) = SumOver(h, 0 .. Window - 1 - n - 1)
    BY <1>5, <1>6
<1>8. Later(g, n) = Later(h, n + 1)
    BY <1>6, <1>7, HistorySums
<1> QED
    BY <1>8 DEF g

-----------------------------------------------------------------------------
(* One replica and one budget: its window w, the history h of its calls and    *)
(* the history g of the replica's restarts.                                    *)

Counted(w, L) == Min({w.count, L})

Most(w, g, L, n) ==
    Later(g, n) * L - 1 + (IF w.left > 0 THEN Counted(w, L) ELSE L) + (IF n < w.left THEN L ELSE 0)

\* WindowInv, of its data.
Fits(w, h, g, L) ==
    /\ w.left > 0 => w.count > 0 /\ Counted(w, L) <= Later(h, w.left - 1)
    /\ \A n \in 0 .. Window : Later(h, n) <= Most(w, g, L, n)

LEMMA WindowFits ==
    ASSUME NEW r, NEW s
    PROVE  WindowInv(r, s) <=> Fits(counters[r][s], admitted[r][s], restarted[r], s[3])
BY DEF WindowInv, Fits, Most, MostLater, Used, Counted

WindowsOf(L) == [count : 0 .. L + 1, left : 0 .. Window]

\* What a window has counted is within the limit, and at least a call if it is open.
LEMMA CountedFacts ==
    ASSUME NEW L \in Nat \ {0}, NEW w \in WindowsOf(L)
    PROVE  /\ Counted(w, L) = IF w.count <= L THEN w.count ELSE L
           /\ Counted(w, L) \in 0 .. L /\ (w.count > 0 => Counted(w, L) > 0)
BY MinOfTwo DEF Counted, WindowsOf

\* How a hit counts.
LEMMA HitFacts ==
    ASSUME NEW L \in Nat \ {0}, NEW w \in WindowsOf(L)
    PROVE  LET v == Hit(w, L)
           IN  /\ v \in WindowsOf(L)
               /\ w.left = 0 => v.left = Window /\ v.count = 1
               /\ w.left > 0 => v.left = w.left
               /\ w.left > 0 /\ v.count <= L => v.count = w.count + 1
               /\ v.count > L => w.left > 0 /\ w.count >= L
<1>0. L \in Nat \ {0} /\ Window \in Nat \ {0}
    BY RateAssumption
<1>1. CASE w.left = 0
    BY <1>0, <1>1 DEF Hit, WindowsOf
<1>2. CASE w.left # 0
  <2>1. w.count \in 0 .. L + 1 /\ w.left \in 0 .. Window
    BY DEF WindowsOf
  <2>2. Hit(w, L) = [w EXCEPT !.count = Min({w.count + 1, L + 1})]
    BY <1>2 DEF Hit
  <2>3. Min({w.count + 1, L + 1}) = IF w.count + 1 <= L + 1 THEN w.count + 1 ELSE L + 1
    BY <1>0, <2>1, MinOfTwo
  <2> DEFINE m == Min({w.count + 1, L + 1})
  <2>4. m \in 0 .. L + 1 /\ m = IF w.count <= L THEN w.count + 1 ELSE L + 1
    BY <1>0, <2>1, <2>3
  <2> HIDE DEF m
  <2>5. Hit(w, L).count = m /\ Hit(w, L).left = w.left /\ Hit(w, L) \in WindowsOf(L)
    BY <2>1, <2>2, <2>4 DEF WindowsOf, m
  <2> QED
    BY <1>0, <1>2, <2>1, <2>4, <2>5
<1> QED
    BY <1>1, <1>2

\* A call that is admitted counts in a window and in the history.
LEMMA FitsAdmit ==
    ASSUME NEW L \in Nat \ {0}, NEW w \in WindowsOf(L), NEW h \in Histories,
           NEW g \in Histories, Fits(w, h, g, L), Hit(w, L).count <= L
    PROVE  Fits(Hit(w, L), [h EXCEPT ![0] = @ + 1], g, L)
<1> DEFINE v == Hit(w, L)
           k == [h EXCEPT ![0] = @ + 1]
<1>0. Window \in Nat \ {0} /\ 0 \in Ages /\ k \in Histories
    BY RateAssumption DEF Ages, Histories
<1>1. /\ L \in Nat \ {0} /\ v \in WindowsOf(L) /\ v.count <= L
      /\ w.left = 0 => v.left = Window /\ v.count = 1
      /\ w.left > 0 => v.left = w.left /\ v.count = w.count + 1
    BY HitFacts
<1>2. w.left \in 0 .. Window /\ w.count \in Nat /\ v.left \in 0 .. Window /\ v.count \in Nat
    BY <1>1 DEF WindowsOf
<1>3. /\ Counted(v, L) = v.count
      /\ Counted(w, L) \in 0 .. L /\ (w.left > 0 => Counted(w, L) = w.count)
    BY <1>1, <1>2, CountedFacts
<1>4. \A n \in 0 .. Window : Later(h, n) \in Nat /\ Later(k, n) \in Nat /\ Later(g, n) \in Nat
    BY <1>0, LaterFacts
<1>5. \A n \in 0 .. Window - 1 : Later(k, n) = Later(h, n) + 1
    BY LaterOfMore
<1>6. Later(k, Window) = 0 /\ Later(g, Window) = 0
    BY <1>0, LaterFacts
<1>7. /\ w.left > 0 => w.count > 0 /\ Counted(w, L) <= Later(h, w.left - 1)
      /\ \A n \in 0 .. Window : Later(h, n) <= Most(w, g, L, n)
    BY DEF Fits
<1> HIDE DEF v, k
<1>8. v.left > 0 => v.count > 0 /\ Counted(v, L) <= Later(k, v.left - 1)
  <2>1. CASE w.left = 0
    BY <1>0, <1>1, <1>3, <1>4, <1>5, <2>1
  <2>2. CASE w.left > 0
    <3>1. w.left - 1 \in 0 .. Window - 1
      BY <1>0, <1>2, <2>2
    <3>2. Later(k, w.left - 1) = Later(h, w.left - 1) + 1
      BY <1>5, <3>1
    <3> QED
      BY <1>0, <1>1, <1>2, <1>3, <1>4, <1>7, <2>2, <3>1, <3>2
  <2> QED
    BY <1>2, <2>1, <2>2
<1>9. ASSUME NEW n \in 0 .. Window PROVE Later(k, n) <= Most(v, g, L, n)
  <2> DEFINE p == Later(g, n) * L
  <2>1. p \in Nat
    BY <1>1, <1>4
  <2>2. /\ Later(h, n) <= p - 1 + (IF w.left > 0 THEN Counted(w, L) ELSE L)
                            + (IF n < w.left THEN L ELSE 0)
        /\ Most(v, g, L, n) = p - 1 + (IF v.left > 0 THEN Counted(v, L) ELSE L)
                            + (IF n < v.left THEN L ELSE 0)
    BY <1>7 DEF Most
  <2>3. CASE n = Window
    <3>1. Later(k, n) = 0
      BY <1>6, <2>3
    <3> HIDE DEF p
    <3> QED
      BY <1>0, <1>1, <1>2, <1>3, <1>8, <2>1, <2>2, <2>3, <3>1
  <2>4. CASE n # Window
    <3>1. Later(k, n) = Later(h, n) + 1 /\ n < Window
      BY <1>0, <1>5, <2>4
    <3> HIDE DEF p
    <3> QED
      BY <1>0, <1>1, <1>2, <1>3, <1>4, <2>1, <2>2, <3>1
  <2> QED
    BY <2>3, <2>4
<1> QED
    BY <1>8, <1>9 DEF Fits, v, k

\* A call that is refused has found the limit used up.
LEMMA FitsRefuse ==
    ASSUME NEW L \in Nat \ {0}, NEW w \in WindowsOf(L), NEW h \in Histories,
           NEW g \in Histories, Fits(w, h, g, L), Hit(w, L).count > L
    PROVE  Fits(Hit(w, L), h, g, L) /\ Total(h) >= L
<1> DEFINE v == Hit(w, L)
<1>1. L \in Nat \ {0} /\ v \in WindowsOf(L) /\ v.count > L /\ w.left > 0 /\ w.count >= L
      /\ v.left = w.left
    BY HitFacts
<1>2. w.left \in 0 .. Window /\ w.count \in Nat /\ v.count \in Nat
    BY <1>1 DEF WindowsOf
<1>3. Counted(v, L) = L /\ Counted(w, L) = L
    BY <1>1, <1>2, CountedFacts
<1>4. Fits(v, h, g, L)
    BY <1>1, <1>2, <1>3 DEF Fits, Most
<1>5. L <= Later(h, w.left - 1)
    BY <1>1, <1>3 DEF Fits
<1>6. w.left - 1 \in 0 .. Window /\ 0 \in 0 .. w.left - 1
    BY <1>1, <1>2, RateAssumption
<1>7. Later(h, w.left - 1) <= Total(h) /\ Later(h, w.left - 1) \in Nat /\ Total(h) \in Nat
    BY <1>6, LaterFacts, RateAssumption
<1> QED
    BY <1>1, <1>4, <1>5, <1>7

\* A restart forgets the window, and is remembered.
LEMMA FitsRestart ==
    ASSUME NEW L \in Nat \ {0}, NEW w \in WindowsOf(L), NEW h \in Histories,
           NEW g \in Histories, Fits(w, h, g, L)
    PROVE  Fits(NoWindow, h, [g EXCEPT ![0] = @ + 1], L)
<1> DEFINE k == [g EXCEPT ![0] = @ + 1]
<1>0. Window \in Nat \ {0} /\ 0 \in Ages /\ k \in Histories
    BY RateAssumption DEF Ages, Histories
<1>1. Counted(w, L) \in 0 .. L /\ w.left \in 0 .. Window
    BY CountedFacts DEF WindowsOf
<1>2. ASSUME NEW n \in 0 .. Window PROVE Later(h, n) <= Most(NoWindow, k, L, n)
  <2>1. Later(h, n) \in Nat /\ Later(g, n) \in Nat /\ Later(k, n) \in Nat
    BY <1>0, LaterFacts
  <2>2. Most(NoWindow, k, L, n) = Later(k, n) * L - 1 + L
    BY <2>1 DEF Most, NoWindow
  <2>3. CASE n = Window
    <3>1. Later(h, n) = 0 /\ Later(k, n) = 0
      BY <1>0, <2>3, LaterFacts
    <3> QED
      BY <2>2, <3>1
  <2>4. CASE n # Window
    <3> DEFINE p == Later(g, n) * L
    <3>1. Later(k, n) = Later(g, n) + 1
      BY <1>0, <2>4, LaterOfMore
    <3>2. p \in Nat /\ Later(k, n) * L = p + L
      BY <2>1, <3>1
    <3>3. Later(h, n) <= p - 1 + (IF w.left > 0 THEN Counted(w, L) ELSE L)
                               + (IF n < w.left THEN L ELSE 0)
      BY DEF Fits, Most
    <3> HIDE DEF p, k
    <3> QED
      BY <1>1, <2>1, <2>2, <3>2, <3>3
  <2> QED
    BY <2>3, <2>4
<1>3. ~ (NoWindow.left > 0)
    BY DEF NoWindow
<1> QED
    BY <1>2, <1>3, Zenon DEF Fits

\* When an instant passes, windows run down as histories do.
LEMMA FitsTick ==
    ASSUME NEW L \in Nat \ {0}, NEW w \in WindowsOf(L), NEW h \in Histories,
           NEW g \in Histories, Fits(w, h, g, L)
    PROVE  Fits(RunDown(w), Aged(h), Aged(g), L)
<1> DEFINE v == RunDown(w)
<1>0. Window \in Nat \ {0}
    BY RateAssumption
<1>1. w.left \in 0 .. Window /\ w.count \in Nat
    BY DEF WindowsOf
<1>2. /\ w.left <= 1 => v.left = 0
      /\ w.left > 1 => v.left = w.left - 1 /\ v.count = w.count
    BY <1>1 DEF RunDown, NoWindow, WindowsOf
<1>3. Counted(w, L) \in 0 .. L /\ (w.left > 1 => Counted(v, L) = Counted(w, L))
    BY <1>2, CountedFacts DEF Counted
<1>4. \A n \in 0 .. Window - 1 : Later(Aged(h), n) = Later(h, n + 1)
                              /\ Later(Aged(g), n) = Later(g, n + 1)
    BY LaterOfAged
<1>5. Aged(h) \in Histories /\ Aged(g) \in Histories
    BY <1>0 DEF Aged, Histories, Ages
<1>6. Later(Aged(h), Window) = 0 /\ Later(Aged(g), Window) = 0
    BY <1>5, LaterFacts
<1>7. /\ w.left > 0 => w.count > 0 /\ Counted(w, L) <= Later(h, w.left - 1)
      /\ \A n \in 0 .. Window : Later(h, n) <= Most(w, g, L, n)
    BY DEF Fits
<1> HIDE DEF v
<1>8. v.left > 0 => v.count > 0 /\ Counted(v, L) <= Later(Aged(h), v.left - 1)
  <2> SUFFICES ASSUME w.left > 1
               PROVE  v.count > 0 /\ Counted(v, L) <= Later(Aged(h), v.left - 1)
    BY <1>1, <1>2
  <2>1. v.left - 1 \in 0 .. Window - 1 /\ v.left - 1 + 1 = w.left - 1
    BY <1>0, <1>1, <1>2
  <2>2. Later(Aged(h), v.left - 1) = Later(h, w.left - 1)
    BY <1>4, <2>1
  <2> QED
    BY <1>1, <1>2, <1>3, <1>7, <2>2
<1>9. ASSUME NEW n \in 0 .. Window PROVE Later(Aged(h), n) <= Most(v, Aged(g), L, n)
  <2>1. CASE n = Window
    <3>1. ~ (n < v.left)
      BY <1>0, <1>1, <1>2, <2>1
    <3>2. v.left > 0 => Counted(v, L) > 0
      BY <1>1, <1>2, <1>3, <1>7, CountedFacts
    <3>3. Counted(v, L) \in Int \/ ~ (v.left > 0)
      BY <1>1, <1>2, <1>3
    <3> QED
      BY <1>6, <2>1, <3>1, <3>2, <3>3 DEF Most
  <2>2. CASE n # Window
    <3> DEFINE p == Later(g, n + 1) * L
    <3>1. n \in 0 .. Window - 1 /\ n + 1 \in 0 .. Window /\ n \in Int
      BY <1>0, <2>2
    <3>2. Later(g, n + 1) \in Nat /\ Later(h, n + 1) \in Nat
      BY <3>1, LaterFacts
    <3>3. p \in Nat
      BY <3>2
    <3>4. Later(Aged(h), n) = Later(h, n + 1) /\ Most(v, Aged(g), L, n) =
            p - 1 + (IF v.left > 0 THEN Counted(v, L) ELSE L) + (IF n < v.left THEN L ELSE 0)
      BY <1>4, <3>1 DEF Most
    <3>5. Later(h, n + 1) <=
            p - 1 + (IF w.left > 0 THEN Counted(w, L) ELSE L) + (IF n + 1 < w.left THEN L ELSE 0)
      BY <1>7, <3>1 DEF Most
    <3> HIDE DEF p
    <3> QED
      BY <1>1, <1>2, <1>3, <3>1, <3>2, <3>3, <3>4, <3>5
  <2> QED
    BY <2>1, <2>2
<1> QED
    BY <1>8, <1>9 DEF Fits, v

\* What one replica admits from one budget in a Window.
LEMMA FitsTotal ==
    ASSUME NEW L \in Nat \ {0}, NEW w \in WindowsOf(L), NEW h \in Histories,
           NEW g \in Histories, Fits(w, h, g, L)
    PROVE  /\ Total(h) \in Nat /\ Total(h) <= (2 + Total(g)) * L - 1
           /\ (2 + Total(g)) * L - 1 \in Nat
<1> DEFINE p == Total(g) * L
<1>0. Window \in Nat \ {0}
    BY RateAssumption
<1>1. Later(h, 0) = Total(h) /\ Later(g, 0) = Total(g) /\ Total(h) \in Nat /\ Total(g) \in Nat
    BY <1>0, LaterFacts
<1>2. p \in Nat /\ (2 + Total(g)) * L = 2 * L + p
    BY <1>1
<1>3. Counted(w, L) \in 0 .. L
    BY CountedFacts
<1>4. 0 \in 0 .. Window /\ w.left \in 0 .. Window
    BY <1>0 DEF WindowsOf
<1>5. Total(h) <= p - 1 + (IF w.left > 0 THEN Counted(w, L) ELSE L) + (IF 0 < w.left THEN L ELSE 0)
    BY <1>1, <1>4 DEF Fits, Most
<1> HIDE DEF p
<1> QED
    BY <1>1, <1>2, <1>3, <1>4, <1>5

-----------------------------------------------------------------------------
(* Budgets.                                                                  *)

\* A budget is a scope, and what identifies it is the budget itself.
LEMMA KeyIsBudget ==
    ASSUME NEW u \in Users, NEW a \in Addresses, NEW e \in Routes, NEW p \in Paths[e]
    PROVE  /\ Key(u, a, e, p) = Budget(u, a, e, p) /\ Budget(u, a, e, p) \in Budgets
           /\ Budget(u, a, e, p)[3] = Limit[e]
BY DEF Key, Budget, Budgets, CallersOf

\* The budgets are among the scopes, and every scope has a limit.
LEMMA BudgetsAreScopes ==
    /\ Budgets \subseteq Scopes
    /\ \A s \in Scopes : s[3] \in Nat \ {0}
    /\ Window \in Nat \ {0} /\ 0 \in Ages
<1>1. Budgets \subseteq Scopes
    BY DEF Budgets, Scopes, CallersOf
<1> QED
    BY <1>1, RateAssumption DEF Scopes, Ages

\* The windows of a budget are those of its limit.
LEMMA WindowsByLimit ==
    ASSUME NEW s
    PROVE  Windows(s) = WindowsOf(s[3])
BY DEF Windows, WindowsOf

\* What TypeOK says of one replica and one budget.
LEMMA TypeFacts ==
    ASSUME TypeOK, NEW r \in Replicas, NEW s \in Scopes
    PROVE  /\ counters[r][s] \in WindowsOf(s[3])
           /\ counters[r][s].left \in 0 .. Window
           /\ admitted[r][s] \in Histories /\ restarted[r] \in Histories
           /\ told[s] \in {NotTold} \cup (0 .. Window)
BY WindowsByLimit DEF TypeOK, Histories, WindowsOf

\* WindowInv in the next state.
LEMMA WindowFitsNext ==
    ASSUME NEW r, NEW s
    PROVE  WindowInv(r, s)' <=> Fits(counters'[r][s], admitted'[r][s], restarted'[r], s[3])
BY DEF WindowInv, Fits, Most, MostLater, Used, Counted

\* The invariant, by its parts.
LEMMA PartsOfRateInv ==
    ASSUME RateInv
    PROVE  /\ TypeOK /\ RefusedForOwnCalls
           /\ \A r \in Replicas, s \in Budgets :
                /\ Fits(counters[r][s], admitted[r][s], restarted[r], s[3])
                /\ WaitInv(r, s)
BY WindowFits DEF RateInv

\* One more call at some age of a history of calls.
LEMMA OneMoreCall ==
    ASSUME NEW R, NEW S, NEW A, NEW f \in [R -> [S -> [A -> Nat]]],
           NEW r \in R, NEW s \in S, NEW a \in A
    PROVE  LET g == [f EXCEPT ![r][s][a] = @ + 1]
           IN  /\ g \in [R -> [S -> [A -> Nat]]]
               /\ \A q \in R, t \in S :
                    g[q][t] = IF q = r /\ t = s THEN [f[r][s] EXCEPT ![a] = @ + 1] ELSE f[q][t]
<1>1. f[r] \in [S -> [A -> Nat]]
    OBVIOUS
<1>2. f[r][s] \in [A -> Nat]
    BY <1>1
<1>3. [f[r][s] EXCEPT ![a] = @ + 1] \in [A -> Nat]
    BY <1>2
<1>4. [f[r] EXCEPT ![s] = [f[r][s] EXCEPT ![a] = @ + 1]] \in [S -> [A -> Nat]]
    BY <1>1, <1>3
<1> QED
    BY <1>1, <1>4

\* The invariant holds at the start.
LEMMA InitRateInv == Init => RateInv
<1> SUFFICES ASSUME Init PROVE RateInv
    OBVIOUS
<1>1. \A s \in Scopes : NoWindow \in Windows(s)
    BY BudgetsAreScopes DEF NoWindow, Windows
<1>2. TypeOK
    BY <1>1, RateAssumption DEF Init, TypeOK, NotTold, Ages
<1>3. ASSUME NEW r \in Replicas, NEW s \in Budgets
      PROVE  WindowInv(r, s) /\ WaitInv(r, s)
  <2>1. /\ s \in Scopes /\ s[3] \in Nat \ {0} /\ Window \in Nat \ {0}
        /\ counters[r][s] = NoWindow /\ told[s] = NotTold
    BY BudgetsAreScopes DEF Init
  <2>2. /\ admitted[r][s] \in Histories /\ restarted[r] \in Histories
        /\ \A a \in Ages : admitted[r][s][a] = 0
    BY <2>1 DEF Init, Histories
  <2>3. ASSUME NEW n \in 0 .. Window
        PROVE  Later(admitted[r][s], n) = 0 /\ Later(restarted[r], n) \in Nat
    <3> DEFINE h == admitted[r][s]
               N == 0 .. Window - 1 - n
    <3>1. IsFiniteSet(N) /\ \A a \in N : h[a] = 0
      BY <2>2, RememberedAges
    <3>2. Later(h, n) = SumOver(h, N)
      BY HistorySums
    <3>3. SumOver(h, N) = 0
      <4> HIDE DEF h, N
      <4> QED
        BY <3>1, SumOverZeros
    <3> QED
      BY <2>2, <3>2, <3>3, LaterFacts
  <2>4. ~ (counters[r][s].left > 0) /\ ~ (\E n \in 0 .. Window : n < counters[r][s].left)
    BY <2>1 DEF NoWindow
  <2>5. ASSUME NEW n \in 0 .. Window
        PROVE  Later(admitted[r][s], n) <= Most(counters[r][s], restarted[r], s[3], n)
    <3>1. Later(restarted[r], n) * s[3] \in Nat
      BY <2>1, <2>3
    <3> QED
      BY <2>1, <2>3, <2>4, <3>1 DEF Most
  <2>6. WindowInv(r, s)
    BY <2>4, <2>5, WindowFits DEF Fits
  <2> QED
    BY <2>1, <2>6 DEF WaitInv
<1>4. RefusedForOwnCalls
  <2>1. \A s \in Budgets : told[s] = NotTold
    BY BudgetsAreScopes DEF Init
  <2> QED
    BY <2>1, RateAssumption DEF RefusedForOwnCalls, RetryAfter, NotTold
<1> QED
    BY <1>2, <1>3, <1>4 DEF RateInv

\* A call counts in the window of its budget only, and its caller is told to wait
\* a whole window if it is refused.
LEMMA CallRateInv ==
    ASSUME NEW r \in Replicas, NEW u \in Users, NEW a \in Addresses, NEW e \in Routes, NEW p \in Paths[e],
           RateInv, Call(r, u, a, e, p)
    PROVE  /\ RateInv'
           /\ told[Budget(u, a, e, p)] = 0 => told'[Budget(u, a, e, p)] = NotTold
           /\ \A s \in Budgets \ {Budget(u, a, e, p)} : told'[s] = told[s]
<1> DEFINE s == Budget(u, a, e, p)
           L == Limit[e]
           h == admitted[r][s]
           w == Hit(counters[r][s], L)
           k == [h EXCEPT ![0] = @ + 1]
<1>0. TypeOK /\ RefusedForOwnCalls
    BY PartsOfRateInv
<1>1. s \in Scopes /\ s \in Budgets /\ s[3] = L /\ Key(u, a, e, p) = s
    BY KeyIsBudget, BudgetsAreScopes
<1>2. Window \in Nat \ {0} /\ 0 \in Ages /\ L \in Nat \ {0}
    BY <1>1, BudgetsAreScopes
<1>3. counters[r][s] \in WindowsOf(L) /\ h \in Histories /\ restarted[r] \in Histories
    BY <1>0, <1>1, TypeFacts
<1>4. w \in WindowsOf(L) /\ (counters[r][s].left = 0 => w.count <= L) /\ w.count \in Nat
    BY <1>2, <1>3, HitFacts DEF WindowsOf
<1>5. counters' = [counters EXCEPT ![r][s] = w] /\ restarted' = restarted
    BY <1>1 DEF Call
<1>6. \/ w.count <= L /\ told' = [told EXCEPT ![s] = NotTold]
                      /\ admitted' = [admitted EXCEPT ![r][s][0] = @ + 1]
      \/ w.count > L /\ told' = [told EXCEPT ![s] = Window] /\ admitted' = admitted
    BY <1>1 DEF Call, RetryAfter
<1>7. /\ \A q \in Replicas, t \in Scopes :
           counters'[q][t] = IF q = r /\ t = s THEN w ELSE counters[q][t]
      /\ DOMAIN counters' = Replicas /\ \A q \in Replicas : DOMAIN counters'[q] = Scopes
    BY <1>0, <1>1, <1>5 DEF TypeOK
<1>8. /\ admitted' \in [Replicas -> [Scopes -> [Ages -> Nat]]]
      /\ \A q \in Replicas, t \in Scopes :
           admitted'[q][t] = IF q = r /\ t = s /\ w.count <= L THEN k ELSE admitted[q][t]
  <2>1. admitted \in [Replicas -> [Scopes -> [Ages -> Nat]]]
    BY <1>0 DEF TypeOK
  <2> HIDE DEF w, L, s
  <2>2. CASE w.count <= L /\ admitted' = [admitted EXCEPT ![r][s][0] = @ + 1]
    BY <1>1, <1>2, <2>1, <2>2, OneMoreCall
  <2>3. CASE w.count > L /\ admitted' = admitted
    BY <1>2, <1>4, <2>1, <2>3
  <2> QED
    BY <1>6, <2>2, <2>3
<1>9. told' \in [Scopes -> {NotTold} \cup (0 .. Window)] /\ told'[s] \in {NotTold, Window}
      /\ (w.count <= L <=> told'[s] = NotTold) /\ \A t \in Scopes \ {s} : told'[t] = told[t]
  <2>1. told \in [Scopes -> {NotTold} \cup (0 .. Window)] /\ NotTold # Window
    BY <1>0, <1>2 DEF TypeOK, NotTold
  <2> HIDE DEF w, L, s
  <2>2. CASE w.count <= L /\ told' = [told EXCEPT ![s] = NotTold]
    BY <1>1, <2>1, <2>2
  <2>3. CASE w.count > L /\ told' = [told EXCEPT ![s] = Window]
    BY <1>1, <1>2, <1>4, <2>1, <2>3
  <2> QED
    BY <1>6, <2>2, <2>3
<1>10. TypeOK'
  <2>1. \A q \in Replicas, t \in Scopes : counters'[q][t] \in Windows(t)
    <3> HIDE DEF w, L, s
    <3> QED
      BY <1>0, <1>1, <1>4, <1>7, WindowsByLimit DEF TypeOK
  <2>2. restarted' \in [Replicas -> [Ages -> Nat]]
    BY <1>0, <1>5 DEF TypeOK
  <2> QED
    BY <1>7, <1>8, <1>9, <2>1, <2>2 DEF TypeOK, Windows
<1> HIDE DEF w, k, h, L, s
<1>11. Fits(counters[r][s], h, restarted[r], L)
    BY <1>1, PartsOfRateInv DEF h
<1>12. /\ w.count <= L => Fits(w, k, restarted[r], L)
       /\ w.count > L => Fits(w, h, restarted[r], L) /\ Total(h) >= L
    BY <1>2, <1>3, <1>11, FitsAdmit, FitsRefuse DEF w, k
<1>13. ASSUME NEW q \in Replicas, NEW t \in Budgets
       PROVE  WindowInv(q, t)' /\ WaitInv(q, t)'
  <2>0. t \in Scopes
    BY BudgetsAreScopes
  <2>1. CASE q = r /\ t = s
    <3>1. Fits(w, admitted'[r][s], restarted[r], L)
      <4>1. CASE w.count <= L
        BY <1>1, <1>8, <1>12, <4>1
      <4>2. CASE ~ (w.count <= L)
        <5>1. w.count > L
          BY <1>2, <1>4, <4>2
        <5>2. admitted'[r][s] = h
          BY <1>1, <1>8, <4>2 DEF h
        <5> QED
          BY <1>12, <5>1, <5>2
      <4> QED
        BY <4>1, <4>2
    <3>2. counters'[r][s] = w
      BY <1>1, <1>7
    <3>3. WindowInv(r, s)'
      BY <1>1, <1>5, <3>1, <3>2, WindowFitsNext
    <3>4. counters'[r][s].left <= Window
      BY <1>4, <3>2 DEF WindowsOf
    <3> QED
      BY <1>9, <2>1, <3>3, <3>4 DEF WaitInv
  <2>2. CASE ~ (q = r /\ t = s)
    <3>1. counters'[q][t] = counters[q][t] /\ admitted'[q][t] = admitted[q][t]
      BY <1>7, <1>8, <2>0, <2>2
    <3>2. WindowInv(q, t)'
      BY <1>5, <3>1, PartsOfRateInv, WindowFitsNext
    <3>3. WaitInv(q, t)'
      <4>1. CASE t = s
        <5>1. counters[q][t].left \in 0 .. Window
          BY <1>0, <2>0, TypeFacts
        <5> QED
          BY <1>9, <3>1, <4>1, <5>1 DEF WaitInv
      <4>2. CASE t # s
        BY <1>9, <2>0, <3>1, <4>2, PartsOfRateInv DEF WaitInv
      <4> QED
        BY <4>1, <4>2
    <3> QED
      BY <3>2, <3>3
  <2> QED
    BY <2>1, <2>2
<1>14. RefusedForOwnCalls'
  <2> SUFFICES ASSUME NEW t \in Budgets, told'[t] = Window
               PROVE  \E q \in Replicas : Total(admitted'[q][t]) >= t[3]
      BY DEF RefusedForOwnCalls, RetryAfter
  <2>0. t \in Scopes
    BY BudgetsAreScopes
  <2>1. CASE t = s
    <3>1. ~ (w.count <= L)
      BY <1>2, <1>9, <2>1 DEF NotTold
    <3>2. Total(h) >= L
      BY <1>2, <1>4, <1>12, <3>1
    <3>3. admitted'[r][s] = h
      BY <1>1, <1>8, <3>1 DEF h
    <3> QED
      BY <1>1, <2>1, <3>2, <3>3
  <2>2. CASE t # s
    <3>1. told[t] = Window /\ \A q \in Replicas : admitted'[q][t] = admitted[q][t]
      BY <1>8, <1>9, <2>0, <2>2
    <3> QED
      BY <1>0, <3>1 DEF RefusedForOwnCalls, RetryAfter
  <2> QED
    BY <2>1, <2>2
<1>15. told[s] = 0 => told'[s] = NotTold
  <2> SUFFICES ASSUME told[s] = 0 PROVE told'[s] = NotTold
      OBVIOUS
  <2>1. counters[r][s].left <= 0
    BY <1>1, PartsOfRateInv DEF WaitInv, NotTold
  <2>2. counters[r][s].left = 0
    BY <1>0, <1>1, <2>1, TypeFacts
  <2> QED
    BY <1>4, <1>9, <2>2
<1>16. RateInv'
    BY <1>10, <1>13, <1>14 DEF RateInv
<1> QED
    BY <1>9, <1>15, <1>16, BudgetsAreScopes DEF s

\* A replica that forgets its windows keeps nobody waiting, and its restart is
\* remembered.
LEMMA RestartRateInv ==
    ASSUME NEW r \in Replicas, RateInv, Restart(r)
    PROVE  RateInv' /\ told' = told
<1>0. TypeOK /\ RefusedForOwnCalls
    BY PartsOfRateInv
<1>1. counters' = [counters EXCEPT ![r] = [s \in Scopes |-> NoWindow]]
      /\ restarted' = [restarted EXCEPT ![r][0] = @ + 1]
      /\ admitted' = admitted /\ told' = told
    BY DEF Restart
<1>2. /\ \A q \in Replicas, t \in Scopes :
           counters'[q][t] = IF q = r THEN NoWindow ELSE counters[q][t]
      /\ DOMAIN counters' = Replicas /\ \A q \in Replicas : DOMAIN counters'[q] = Scopes
    BY <1>0, <1>1 DEF TypeOK
<1>3. /\ restarted' \in [Replicas -> [Ages -> Nat]]
      /\ \A q \in Replicas :
           restarted'[q] = IF q = r THEN [restarted[r] EXCEPT ![0] = @ + 1] ELSE restarted[q]
  <2>1. restarted \in [Replicas -> [Ages -> Nat]] /\ 0 \in Ages
    BY <1>0, BudgetsAreScopes DEF TypeOK
  <2> QED
    BY <1>1, <2>1
<1>4. \A s \in Scopes : NoWindow \in Windows(s)
    BY BudgetsAreScopes DEF NoWindow, Windows
<1>5. TypeOK'
  <2>1. \A q \in Replicas, t \in Scopes : counters'[q][t] \in Windows(t)
    BY <1>0, <1>2, <1>4 DEF TypeOK
  <2> QED
    BY <1>0, <1>1, <1>2, <1>3, <2>1 DEF TypeOK, Windows
<1>6. ASSUME NEW q \in Replicas, NEW t \in Budgets
      PROVE  WindowInv(q, t)' /\ WaitInv(q, t)'
  <2>0. /\ t \in Scopes /\ t[3] \in Nat \ {0}
        /\ counters[q][t] \in WindowsOf(t[3])
        /\ admitted[q][t] \in Histories /\ restarted[q] \in Histories
        /\ told[t] \in {NotTold} \cup (0 .. Window)
        /\ Fits(counters[q][t], admitted[q][t], restarted[q], t[3]) /\ WaitInv(q, t)
    BY <1>0, TypeFacts, BudgetsAreScopes, PartsOfRateInv
  <2>1. CASE q = r
    <3>1. Fits(NoWindow, admitted[r][t], [restarted[r] EXCEPT ![0] = @ + 1], t[3])
      BY <2>0, <2>1, FitsRestart
    <3>2. WindowInv(r, t)'
      BY <1>1, <1>2, <1>3, <2>0, <3>1, WindowFitsNext
    <3>3. counters'[r][t].left = 0
      BY <1>2, <2>0 DEF NoWindow
    <3>4. told[t] # NotTold => 0 <= told[t]
      BY <2>0, BudgetsAreScopes
    <3> QED
      BY <1>1, <2>1, <3>2, <3>3, <3>4 DEF WaitInv
  <2>2. CASE q # r
    <3>1. counters'[q][t] = counters[q][t] /\ restarted'[q] = restarted[q]
      BY <1>2, <1>3, <2>0, <2>2
    <3>2. WindowInv(q, t)'
      BY <1>1, <2>0, <3>1, WindowFitsNext
    <3> QED
      BY <1>1, <2>0, <3>1, <3>2 DEF WaitInv
  <2> QED
    BY <2>1, <2>2
<1>7. RefusedForOwnCalls'
    BY <1>0, <1>1 DEF RefusedForOwnCalls
<1> QED
    BY <1>1, <1>5, <1>6, <1>7 DEF RateInv

\* Windows run down as fast as the waits and the memory of calls.
LEMMA TickRateInv ==
    ASSUME RateInv, Tick
    PROVE  /\ RateInv'
           /\ \A s \in Budgets : told[s] = 0 => told'[s] = 0
<1>0. TypeOK
    BY PartsOfRateInv
<1>1. Window \in Nat \ {0}
    BY RateAssumption
<1>2. /\ \A r \in Replicas, s \in Scopes :
           /\ counters'[r][s] = RunDown(counters[r][s])
           /\ admitted'[r][s] = Aged(admitted[r][s])
      /\ \A r \in Replicas : restarted'[r] = Aged(restarted[r])
      /\ \A s \in Scopes : told'[s] = IF told[s] > 0 THEN told[s] - 1 ELSE told[s]
    BY DEF Tick
<1>3. \A s \in Scopes : told[s] \in {NotTold} \cup (0 .. Window)
    BY <1>0 DEF TypeOK
<1>4. ASSUME NEW r \in Replicas, NEW s \in Scopes
      PROVE  /\ counters'[r][s] \in Windows(s)
             /\ counters'[r][s].left \in Int
             /\ counters'[r][s].left <= IF counters[r][s].left = 0 THEN 0
                                        ELSE counters[r][s].left - 1
  <2>1. counters[r][s] \in WindowsOf(s[3]) /\ s[3] \in Nat
    BY <1>0, TypeFacts, BudgetsAreScopes
  <2>2. counters'[r][s] = RunDown(counters[r][s])
    BY <1>2
  <2>3. RunDown(counters[r][s]) \in WindowsOf(s[3])
    BY <1>1, <2>1 DEF WindowsOf, RunDown, NoWindow
  <2>4. /\ RunDown(counters[r][s]).left \in Int
        /\ RunDown(counters[r][s]).left <= IF counters[r][s].left = 0 THEN 0
                                           ELSE counters[r][s].left - 1
    BY <1>1, <2>1 DEF WindowsOf, RunDown, NoWindow
  <2> QED
    BY <2>2, <2>3, <2>4, WindowsByLimit
<1>5. TypeOK'
  <2>1. told' \in [Scopes -> {NotTold} \cup (0 .. Window)]
    BY <1>1, <1>2, <1>3 DEF Tick, NotTold
  <2>2. \A h \in [Ages -> Nat] : Aged(h) \in [Ages -> Nat]
    BY <1>1 DEF Aged, Ages
  <2>3. admitted' \in [Replicas -> [Scopes -> [Ages -> Nat]]]
    BY <1>0, <2>2 DEF Tick, TypeOK
  <2>4. restarted' \in [Replicas -> [Ages -> Nat]]
    BY <1>0, <2>2 DEF Tick, TypeOK
  <2>5. DOMAIN counters' = Replicas /\ \A r \in Replicas : DOMAIN counters'[r] = Scopes
    BY DEF Tick
  <2> QED
    BY <1>4, <2>1, <2>3, <2>4, <2>5 DEF TypeOK, Windows
<1>6. ASSUME NEW r \in Replicas, NEW s \in Budgets
      PROVE  WindowInv(r, s)' /\ WaitInv(r, s)'
  <2>0. /\ s \in Scopes /\ s[3] \in Nat \ {0}
        /\ counters[r][s] \in WindowsOf(s[3])
        /\ admitted[r][s] \in Histories /\ restarted[r] \in Histories
        /\ Fits(counters[r][s], admitted[r][s], restarted[r], s[3])
    BY <1>0, TypeFacts, BudgetsAreScopes, PartsOfRateInv
  <2>1. Fits(RunDown(counters[r][s]), Aged(admitted[r][s]), Aged(restarted[r]), s[3])
    BY <2>0, FitsTick
  <2>2. WindowInv(r, s)'
    BY <1>2, <2>0, <2>1, WindowFitsNext
  <2>3. WaitInv(r, s)'
    <3> SUFFICES ASSUME told'[s] # NotTold
                 PROVE  counters'[r][s].left <= told'[s]
      BY DEF WaitInv
    <3>1. told[s] \in 0 .. Window
      BY <1>2, <1>3, <2>0 DEF NotTold
    <3>2. counters[r][s].left <= told[s]
      BY <3>1, PartsOfRateInv DEF WaitInv, NotTold
    <3>3. counters[r][s].left \in 0 .. Window
      BY <1>0, <2>0, TypeFacts
    <3> QED
      BY <1>1, <1>2, <1>4, <2>0, <3>1, <3>2, <3>3
  <2> QED
    BY <2>2, <2>3
<1>7. RefusedForOwnCalls'
  <2>1. \A s \in Budgets : told'[s] # Window
    BY <1>1, <1>2, <1>3, BudgetsAreScopes DEF NotTold
  <2> QED
    BY <2>1 DEF RefusedForOwnCalls, RetryAfter
<1>8. RateInv'
    BY <1>5, <1>6, <1>7 DEF RateInv
<1> QED
    BY <1>2, <1>8, BudgetsAreScopes

\* Nothing moves, nothing changes.
LEMMA StutterRateInv ==
    ASSUME RateInv, UNCHANGED vars
    PROVE  RateInv'
<1>1. counters' = counters /\ admitted' = admitted /\ restarted' = restarted /\ told' = told
    BY DEF vars
<1>2. \A r \in Replicas, s \in Budgets : WindowInv(r, s)' /\ WaitInv(r, s)'
    BY <1>1, PartsOfRateInv, WindowFitsNext DEF WaitInv
<1>3. TypeOK' /\ RefusedForOwnCalls'
    BY <1>1, PartsOfRateInv DEF TypeOK, RefusedForOwnCalls, Windows
<1> QED
    BY <1>2, <1>3 DEF RateInv

\* Every step keeps the invariant, and refuses nobody whose wait is over.
LEMMA NextRateInv ==
    ASSUME RateInv, [Next]_vars
    PROVE  RateInv' /\ [\A s \in Budgets : told[s] = 0 => told'[s] \in {0, NotTold}]_vars
<1>1. ASSUME NEW r \in Replicas, NEW u \in Users, NEW a \in Addresses, NEW e \in Routes, NEW p \in Paths[e],
             Call(r, u, a, e, p)
      PROVE  RateInv' /\ \A s \in Budgets : told[s] = 0 => told'[s] \in {0, NotTold}
    BY <1>1, CallRateInv
<1>2. ASSUME NEW r \in Replicas, Restart(r)
      PROVE  RateInv' /\ \A s \in Budgets : told[s] = 0 => told'[s] \in {0, NotTold}
    BY <1>2, RestartRateInv
<1>3. CASE Tick
    BY <1>3, TickRateInv
<1>4. CASE UNCHANGED vars
    BY <1>4, StutterRateInv
<1> QED
    BY <1>1, <1>2, <1>3, <1>4 DEF Next

\* What the replicas count is what they admitted, and waits are long enough, in
\* every state.
THEOREM Invariance == Spec => []RateInv
<1> QED
    BY InitRateInv, NextRateInv, PTL DEF Spec

\* No window is longer than Window, and no wait.
THEOREM TypeCorrect == Spec => []TypeOK
<1>1. RateInv => TypeOK
    BY DEF RateInv
<1> QED
    BY <1>1, Invariance, PTL

\* A caller that waited as Retry-After told it is not refused.
THEOREM WaitingSuffices == Spec => RetryAfterSuffices
<1>1. RateInv /\ [Next]_vars => [\A s \in Budgets : told[s] = 0 => told'[s] \in {0, NotTold}]_vars
    BY NextRateInv
<1> QED
    BY <1>1, Invariance, PTL DEF Spec, RetryAfterSuffices

\* Nobody is refused for the calls of others.
THEOREM BudgetsAreSeparate == Spec => []RefusedForOwnCalls
<1>1. RateInv => RefusedForOwnCalls
    BY DEF RateInv
<1> QED
    BY <1>1, Invariance, PTL

\* The sum of what the replicas admitted.
LEMMA AdmittedSum ==
    ASSUME NEW s
    PROVE  AdmittedTo(s) =
           SumOver([r \in Replicas |-> Total(admitted[r][s])], Replicas)
<1> DEFINE w == [r \in Replicas |-> Total(admitted[r][s])]
           Step(T, f) == IF T = {} THEN 0
                         ELSE LET r == CHOOSE r \in T : TRUE
                              IN  Total(admitted[r][s]) + f[T \ {r}]
           Is(f) == f = [T \in SUBSET Replicas |-> Step(T, f)]
<1>1. ASSUME NEW f PROVE Is(f) <=> IsSum(w, Replicas, f)
  <2>1. ASSUME NEW T \in SUBSET Replicas PROVE Step(T, f) = SumStep(w, T, f)
    BY DEF SumStep
  <2> HIDE DEF Step, w
  <2> QED
    BY <2>1 DEF IsSum
<1>2. AdmittedTo(s) = (CHOOSE f : Is(f))[Replicas]
    BY Zenon DEF AdmittedTo, MapThenSumSet, MapThenFoldSet
<1>3. (CHOOSE f : Is(f)) = CHOOSE f : IsSum(w, Replicas, f)
  <2> HIDE DEF Is, w
  <2> QED
    BY <1>1
<1> QED
    BY <1>2, <1>3 DEF SumOver

\* The sum of the bounds.
LEMMA BoundsSum ==
    ASSUME NEW L
    PROVE  MostOf(L) =
           SumOver([r \in Replicas |-> (2 + Total(restarted[r])) * L - 1], Replicas)
<1> DEFINE w == [r \in Replicas |-> (2 + Total(restarted[r])) * L - 1]
           Step(T, f) == IF T = {} THEN 0
                         ELSE LET r == CHOOSE r \in T : TRUE
                              IN  (2 + Total(restarted[r])) * L - 1 + f[T \ {r}]
           Is(f) == f = [T \in SUBSET Replicas |-> Step(T, f)]
<1>1. ASSUME NEW f PROVE Is(f) <=> IsSum(w, Replicas, f)
  <2>1. ASSUME NEW T \in SUBSET Replicas PROVE Step(T, f) = SumStep(w, T, f)
    BY DEF SumStep
  <2> HIDE DEF Step, w
  <2> QED
    BY <2>1 DEF IsSum
<1>2. MostOf(L) = (CHOOSE f : Is(f))[Replicas]
    BY Zenon DEF MostOf, MapThenSumSet, MapThenFoldSet
<1>3. (CHOOSE f : Is(f)) = CHOOSE f : IsSum(w, Replicas, f)
  <2> HIDE DEF Is, w
  <2> QED
    BY <1>1
<1> QED
    BY <1>2, <1>3 DEF SumOver

\* The sum of what was admitted at some paths.
LEMMA PathsSum ==
    ASSUME NEW c, NEW L, NEW P
    PROVE  MapThenSumSet(LAMBDA p : AdmittedTo(<<c, p, L>>), P) =
           SumOver([p \in P |-> AdmittedTo(<<c, p, L>>)], P)
<1> DEFINE w == [p \in P |-> AdmittedTo(<<c, p, L>>)]
           Step(T, f) == IF T = {} THEN 0
                         ELSE LET p == CHOOSE p \in T : TRUE
                              IN  AdmittedTo(<<c, p, L>>) + f[T \ {p}]
           Is(f) == f = [T \in SUBSET P |-> Step(T, f)]
<1>1. ASSUME NEW f PROVE Is(f) <=> IsSum(w, P, f)
  <2>1. ASSUME NEW T \in SUBSET P PROVE Step(T, f) = SumStep(w, T, f)
    BY DEF SumStep
  <2> HIDE DEF Step, w
  <2> QED
    BY <2>1 DEF IsSum
<1>2. MapThenSumSet(LAMBDA p : AdmittedTo(<<c, p, L>>), P) = (CHOOSE f : Is(f))[P]
    BY Zenon DEF MapThenSumSet, MapThenFoldSet
<1>3. (CHOOSE f : Is(f)) = CHOOSE f : IsSum(w, P, f)
  <2> HIDE DEF Is, w
  <2> QED
    BY <1>1
<1> QED
    BY <1>2, <1>3 DEF SumOver

\* The bound of a limit is an integer.
LEMMA MostType ==
    ASSUME TypeOK, NEW L \in Nat \ {0}
    PROVE  MostOf(L) \in Int
<1> DEFINE v == [r \in Replicas |-> (2 + Total(restarted[r])) * L - 1]
<1>1. ASSUME NEW r \in Replicas PROVE v[r] \in Int
  <2>1. restarted[r] \in Histories
    BY DEF TypeOK, Histories
  <2>2. Total(restarted[r]) \in Nat
    BY <2>1, LaterFacts, RateAssumption
  <2> QED
    BY <2>2
<1>2. MostOf(L) = SumOver(v, Replicas)
    BY BoundsSum
<1> HIDE DEF v
<1> QED
    BY <1>1, <1>2, SumOverType, RateAssumption DEF Weighs

\* What all replicas together admit to one caller at one path.
LEMMA PathIsBounded ==
    ASSUME RateInv, NEW s \in Budgets
    PROVE  AdmittedTo(s) \in Int /\ MostOf(s[3]) \in Int /\ AdmittedTo(s) <= MostOf(s[3])
<1> DEFINE w == [r \in Replicas |-> Total(admitted[r][s])]
           v == [r \in Replicas |-> (2 + Total(restarted[r])) * s[3] - 1]
<1>1. ASSUME NEW r \in Replicas
      PROVE  w[r] \in Nat /\ v[r] \in Nat /\ w[r] <= v[r]
  <2>1. /\ s[3] \in Nat \ {0} /\ counters[r][s] \in WindowsOf(s[3])
        /\ admitted[r][s] \in Histories /\ restarted[r] \in Histories
        /\ Fits(counters[r][s], admitted[r][s], restarted[r], s[3])
    BY PartsOfRateInv, TypeFacts, BudgetsAreScopes
  <2> QED
    BY <2>1, FitsTotal
<1>2. AdmittedTo(s) = SumOver(w, Replicas) /\ MostOf(s[3]) = SumOver(v, Replicas)
    BY AdmittedSum, BoundsSum
<1> HIDE DEF w, v
<1>3. Weighs(w, Replicas) /\ Weighs(v, Replicas) /\ IsFiniteSet(Replicas)
    BY <1>1, RateAssumption DEF Weighs
<1>4. SumOver(w, Replicas) <= SumOver(v, Replicas)
    BY <1>1, <1>3, SumOverLess
<1>5. SumOver(w, Replicas) \in Int /\ SumOver(v, Replicas) \in Int
    BY <1>3, SumOverType
<1> QED
    BY <1>2, <1>4, <1>5

\* What all replicas together admit to one caller within a Window, at one path
\* and at all paths of a route: each replica counts by itself, in fixed windows,
\* and each path by itself.
THEOREM BurstsAreBounded == Spec => []BurstIsBounded
<1>1. RateInv => BurstIsBounded
  <2> SUFFICES ASSUME RateInv, NEW e \in Routes, NEW c \in CallersOf(e)
               PROVE  MapThenSumSet(LAMBDA p : AdmittedTo(<<c, p, Limit[e]>>), Paths[e]) <=
                        Cardinality(Paths[e]) * MostOf(Limit[e])
    BY PathIsBounded DEF BurstIsBounded
  <2> DEFINE P == Paths[e]
             L == Limit[e]
             w == [p \in P |-> AdmittedTo(<<c, p, L>>)]
  <2>1. ASSUME NEW p \in P
        PROVE  AdmittedTo(<<c, p, L>>) \in Int /\ MostOf(L) \in Int
                 /\ AdmittedTo(<<c, p, L>>) <= MostOf(L)
    <3>1. <<c, p, L>> \in Budgets /\ <<c, p, L>>[3] = L
      BY DEF Budgets
    <3> QED
      BY <3>1, PathIsBounded
  <2>2. IsFiniteSet(P)
    BY RateAssumption
  <2>3. MapThenSumSet(LAMBDA p : AdmittedTo(<<c, p, L>>), P) = SumOver(w, P)
    BY PathsSum
  <2>4. \A p \in P : w[p] \in Int /\ w[p] <= MostOf(L)
    BY <2>1
  <2>5. MostOf(L) \in Int
    BY MostType, RateAssumption DEF RateInv
  <2>6. SumOver(w, P) <= Cardinality(P) * MostOf(L)
    <3> HIDE DEF P, L, w
    <3> QED
      BY <2>2, <2>4, <2>5, SumOverBound
  <2> QED
    BY <2>3, <2>6
<1> QED
    BY <1>1, Invariance, PTL

=============================================================================
