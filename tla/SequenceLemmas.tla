--------------------------- MODULE SequenceLemmas ---------------------------
(***************************************************************************)
(* What the proofs need to know of sequences and of the folds over them,   *)
(* whatever is in them.                                                    *)
(***************************************************************************)
EXTENDS SequencesExt, SequenceTheorems, FiniteSetTheorems, WellFoundedInduction, TLAPS

-----------------------------------------------------------------------------
(* Induction.  The well-foundedness of inclusion on finite sets gives the  *)
(* least element of a set of numbers, and so induction over numbers and    *)
(* over the sets of indices that folds go through.                         *)

LEMMA LeastNumber ==
  ASSUME NEW T \in SUBSET Nat, T # {}
  PROVE  \E m \in T : \A k \in T : m <= k
<1>. DEFINE U == {1..k : k \in T}
<1>1. \A k \in Nat : IsFiniteSet(1..k) /\ 1..k \in SUBSET Nat
  <2> TAKE k \in Nat
  <2>1. IsFiniteSet(1..k)
    BY FS_Interval
  <2>. QED
    BY <2>1
<1>2. IsWellFoundedOn(StrictSubsetOrdering(Nat), FiniteSubsetsOf(Nat))
  BY FS_StrictSubsetOrderingWellFounded
<1>3. U \subseteq FiniteSubsetsOf(Nat) /\ U # {}
  BY <1>1 DEF FiniteSubsetsOf
<1>4. PICK u \in U : \A v \in U : ~(<<v, u>> \in StrictSubsetOrdering(Nat))
  BY <1>2, <1>3, WFMin
<1>5. PICK m \in T : u = 1..m
  OBVIOUS
<1>6. ASSUME NEW k \in T, ~(m <= k) PROVE FALSE
  <2>1. k \in Nat /\ m \in Nat /\ k < m
    BY <1>6
  <2>2. 1..k \subseteq 1..m /\ 1..k # 1..m
    <3>1. m \in 1..m /\ m \notin 1..k
      BY <2>1
    <3>. QED
      BY <2>1, <3>1
  <2>3. <<1..k, 1..m>> \in StrictSubsetOrdering(Nat)
    BY <1>1, <2>1, <2>2 DEF StrictSubsetOrdering
  <2>. QED
    BY <1>4, <1>5, <2>3
<1>. QED
  BY <1>6

LEMMA Counting ==
  ASSUME NEW n \in Nat, NEW T, 0 \in T, \A m \in 0..n : m \in T => m + 1 \in T
  PROVE  n \in T
<1>. DEFINE R == {m \in 0..n : m \notin T}
<1> SUFFICES ASSUME n \notin T PROVE FALSE
  OBVIOUS
<1>1. R \in SUBSET Nat /\ R # {}
  OBVIOUS
<1>2. PICK m \in R : \A k \in R : m <= k
  BY <1>1, LeastNumber
<1>3. m # 0 /\ m \in 0..n
  OBVIOUS
<1>4. m - 1 \in 0..n /\ (m - 1) + 1 = m /\ ~(m <= m - 1)
  BY <1>3
<1>5. m - 1 \in T
  BY <1>2, <1>4
<1>. QED
  BY <1>4, <1>5

LEMMA SameIntervals ==
  ASSUME NEW m \in Nat, NEW n \in Nat, 1..m = 1..n
  PROVE  m = n
<1>1. m > n => m \in 1..m /\ m \notin 1..n
  OBVIOUS
<1>2. n > m => n \in 1..n /\ n \notin 1..m
  OBVIOUS
<1>. QED
  BY <1>1, <1>2

LEMMA Extremes ==
  ASSUME NEW n \in Nat, NEW T \in SUBSET (1..n), T # {}
  PROVE  /\ Max(T) \in T /\ \A k \in T : k <= Max(T)
         /\ Min(T) \in T /\ \A k \in T : Min(T) <= k
<1>1. T \in SUBSET Nat /\ \A k \in T : k \in Nat /\ n - k \in Nat
  OBVIOUS
<1>2. \E m \in T : \A k \in T : m <= k
  BY <1>1, LeastNumber
<1>3. \E m \in T : \A k \in T : k <= m
  <2>. DEFINE R == {n - k : k \in T}
  <2>1. R \in SUBSET Nat /\ R # {}
    BY <1>1
  <2>2. PICK r \in R : \A q \in R : r <= q
    BY <2>1, LeastNumber
  <2>3. PICK m \in T : r = n - m
    OBVIOUS
  <2>4. ASSUME NEW k \in T PROVE k <= m
    <3>1. n - m <= n - k /\ k \in Nat /\ m \in Nat
      BY <1>1, <2>2, <2>3
    <3>. QED
      BY ONLY <3>1, n \in Nat
  <2>. QED
    BY <2>4
<1>4. PICK m \in T : \A k \in T : m >= k
  BY <1>1, <1>3
<1>. QED
  BY <1>2, <1>4 DEF Max, Min

LEMMA SubsetInduction ==
  ASSUME NEW n \in Nat, NEW T, {} \in T,
         \A s \in SUBSET (1..n) : s # {} /\ s \ {Max(s)} \in T => s \in T
  PROVE  SUBSET (1..n) \subseteq T
<1>. DEFINE B == (SUBSET (1..n)) \ T
<1> SUFFICES ASSUME B # {} PROVE FALSE
  OBVIOUS
<1>1. \A s \in SUBSET (1..n) : IsFiniteSet(s)
  <2>1. IsFiniteSet(1..n)
    BY FS_Interval
  <2>. QED
    BY <2>1, FS_Subset
<1>2. IsWellFoundedOn(StrictSubsetOrdering(1..n), FiniteSubsetsOf(1..n))
  BY FS_StrictSubsetOrderingWellFounded
<1>3. B \subseteq FiniteSubsetsOf(1..n) /\ B # {}
  BY <1>1 DEF FiniteSubsetsOf
<1>8. \A s \in SUBSET (1..n) : s \in B \/ s \in T
  OBVIOUS
<1>9. \A s \in B : s \in SUBSET (1..n) /\ s \notin T
  OBVIOUS
<1>. HIDE DEF B
<1>4. PICK b \in B : \A v \in B : ~(<<v, b>> \in StrictSubsetOrdering(1..n))
  BY <1>2, <1>3, WFMin
<1>5. b \in SUBSET (1..n) /\ b # {} /\ Max(b) \in b
  BY <1>9, Extremes
<1>6. b \ {Max(b)} \in SUBSET (1..n) /\ b \ {Max(b)} \subseteq b /\ b \ {Max(b)} # b
  BY ONLY <1>5
<1>7. b \ {Max(b)} \in T
  BY <1>4, <1>5, <1>6, <1>8 DEF StrictSubsetOrdering
<1>. QED
  BY <1>5, <1>7, <1>9

(* What a fold over the first n elements makes of each set of indices:     *)
(* F[i] is what the element at i does to a value.                          *)
IsRun(g, n, V, base, F) ==
  /\ g \in [SUBSET (1..n) -> V] /\ g[{}] = base
  /\ \A s \in SUBSET (1..n) : s # {} => g[s] = F[Max(s)][g[s \ {Max(s)}]]

LEMMA RunExists ==
  ASSUME NEW V, NEW base \in V, NEW n \in Nat, NEW F, \A i \in 1..n : F[i] \in [V -> V]
  PROVE  \E g : IsRun(g, n, V, base, F)
<1>. DEFINE T == {m \in 0..n + 1 : m <= n => \E g : IsRun(g, m, V, base, F)}
<1>1. 0 \in T
  <2>. DEFINE h == [s \in SUBSET (1..0) |-> base]
  <2>1. SUBSET (1..0) = {{}}
    OBVIOUS
  <2>2. h \in [SUBSET (1..0) -> V] /\ h[{}] = base
    BY <2>1
  <2>. HIDE DEF h
  <2>3. IsRun(h, 0, V, base, F)
    BY <2>1, <2>2 DEF IsRun
  <2>. QED
    BY <2>3
<1>2. ASSUME NEW k \in 0..n, k \in T PROVE k + 1 \in T
  <2> SUFFICES ASSUME k + 1 <= n PROVE \E g : IsRun(g, k + 1, V, base, F)
    BY <1>2
  <2>1. PICK g : IsRun(g, k, V, base, F)
    BY <1>2
  <2>. DEFINE m == k + 1
              h == [s \in SUBSET (1..m) |-> IF m \in s THEN F[m][g[s \ {m}]] ELSE g[s]]
  <2>2. m \in 1..n /\ m \in Nat
    BY <1>2
  <2>3. \A s \in SUBSET (1..m) : /\ m \notin s => s \in SUBSET (1..k)
                                 /\ s \ {m} \in SUBSET (1..k)
    BY <1>2
  <2>4. \A s \in SUBSET (1..m) : h[s] = IF m \in s THEN F[m][g[s \ {m}]] ELSE g[s]
    OBVIOUS
  <2>5. h \in [SUBSET (1..m) -> V]
    <3>1. \A s \in SUBSET (1..m) : (IF m \in s THEN F[m][g[s \ {m}]] ELSE g[s]) \in V
      BY <2>1, <2>2, <2>3 DEF IsRun
    <3>. QED
      BY <3>1
  <2>. HIDE DEF h
  <2>6. h[{}] = base
    BY <2>1, <2>4 DEF IsRun
  <2>7. ASSUME NEW s \in SUBSET (1..m), s # {} PROVE h[s] = F[Max(s)][h[s \ {Max(s)}]]
    <3>1. Max(s) \in s /\ \A j \in s : j <= Max(s)
      BY <2>2, <2>7, Extremes
    <3>2. CASE m \in s
      <4>1. m <= Max(s) /\ Max(s) \in 1..m /\ m \in Nat
        BY <2>2, <3>1, <3>2
      <4>2. Max(s) = m
        BY ONLY <4>1
      <4>3. h[s] = F[m][g[s \ {m}]] /\ h[s \ {m}] = g[s \ {m}]
        BY <2>3, <2>4, <3>2
      <4>. QED
        BY <4>2, <4>3
    <3>3. CASE m \notin s
      <4>1. s \in SUBSET (1..k) /\ h[s] = g[s] /\ h[s \ {Max(s)}] = g[s \ {Max(s)}]
        BY <2>3, <2>4, <3>3
      <4>. QED
        BY <2>1, <2>7, <4>1 DEF IsRun
    <3>. QED
      BY <3>2, <3>3
  <2>8. IsRun(h, m, V, base, F)
    BY <2>5, <2>6, <2>7 DEF IsRun
  <2>. QED
    BY <2>8
<1>. HIDE DEF T
<1>3. n \in T
  BY <1>1, <1>2, Counting
<1>. QED
  BY <1>3 DEF T

(* Two runs that go the same way get to the same end.                      *)
LEMMA RunsAgree ==
  ASSUME NEW n \in Nat, NEW f, NEW h, f[{}] = h[{}],
         \A s \in SUBSET (1..n) : s # {} /\ f[s \ {Max(s)}] = h[s \ {Max(s)}] => f[s] = h[s]
  PROVE  f[1..n] = h[1..n]
<1>. DEFINE T == {s \in SUBSET (1..n) : f[s] = h[s]}
<1>1. {} \in T
  OBVIOUS
<1>2. ASSUME NEW s \in SUBSET (1..n), s # {}, s \ {Max(s)} \in T PROVE s \in T
  BY <1>2
<1>. HIDE DEF T
<1>3. 1..n \in T
  BY <1>1, <1>2, SubsetInduction
<1>. QED
  BY <1>3 DEF T

(* The last element comes last.                                            *)
LEMMA RunGrows ==
  ASSUME NEW n \in Nat, NEW V, NEW base, NEW F, NEW g, IsRun(g, n + 1, V, base, F)
  PROVE  /\ g[1..n + 1] = F[n + 1][g[1..n]]
         /\ \E h : IsRun(h, n, V, base, F) /\ h[1..n] = g[1..n]
<1>1. Max(1..n + 1) = n + 1 /\ (1..n + 1) \ {n + 1} = 1..n /\ 1..n + 1 # {}
  <2>1. n + 1 \in Nat /\ 1 <= n + 1
    OBVIOUS
  <2>2. n + 1 \in 1..n + 1
    BY <2>1
  <2>3. Max(1..n + 1) \in 1..n + 1 /\ \A k \in 1..n + 1 : k <= Max(1..n + 1)
    BY <2>1, <2>2, Extremes
  <2>4. Max(1..n + 1) = n + 1
    BY <2>2, <2>3
  <2>5. (1..n + 1) \ {n + 1} = 1..n
    OBVIOUS
  <2>. QED
    BY <2>2, <2>4, <2>5
<1>2. g[1..n + 1] = F[n + 1][g[1..n]]
  BY <1>1 DEF IsRun
<1>. DEFINE h == [s \in SUBSET (1..n) |-> g[s]]
<1>3. \A s \in SUBSET (1..n) : s \in SUBSET (1..n + 1) /\ h[s] = g[s]
  OBVIOUS
<1>4. h \in [SUBSET (1..n) -> V]
  BY <1>3 DEF IsRun
<1>. HIDE DEF h
<1>5. ASSUME NEW s \in SUBSET (1..n), s # {} PROVE h[s] = F[Max(s)][h[s \ {Max(s)}]]
  BY <1>3, <1>5 DEF IsRun
<1>6. IsRun(h, n, V, base, F)
  BY <1>3, <1>4, <1>5 DEF IsRun
<1>. QED
  BY <1>2, <1>3, <1>6

-----------------------------------------------------------------------------
(* Sequences.                                                              *)

LEMMA AppendToNone ==
  ASSUME NEW x
  PROVE  Append(<<>>, x) = <<x>>
<1>1. <<>> \in Seq({x}) /\ Len(<<>>) = 0 /\ <<x>> \in Seq({x}) /\ Len(<<x>>) = 1
  BY EmptySeq
<1>2. /\ Append(<<>>, x) \in Seq({x}) /\ Len(Append(<<>>, x)) = 1
      /\ Append(<<>>, x)[1] = x
  BY <1>1, AppendProperties
<1>3. \A i \in 1..Len(<<x>>) : i = 1
  BY <1>1
<1>. QED
  BY <1>1, <1>2, <1>3, SeqEqual

LEMMA LastReplaced ==
  ASSUME NEW S, NEW s \in Seq(S), NEW x \in S, NEW y \in S
  PROVE  [Append(s, x) EXCEPT ![Len(s) + 1] = y] = Append(s, y)
<1>. DEFINE n == Len(s)
            t == Append(s, x)
<1>1. n \in Nat /\ n + 1 \in 1..n + 1
  BY LenProperties
<1>2. /\ t \in Seq(S) /\ Len(t) = n + 1 /\ \A k \in 1..n : t[k] = s[k]
      /\ Append(s, y) \in Seq(S) /\ Len(Append(s, y)) = n + 1 /\ Append(s, y)[n + 1] = y
      /\ \A k \in 1..n : Append(s, y)[k] = s[k]
  BY AppendProperties
<1>. HIDE DEF n, t
<1>3. /\ [t EXCEPT ![n + 1] = y] \in Seq(S) /\ Len([t EXCEPT ![n + 1] = y]) = n + 1
      /\ \A k \in 1..n + 1 : [t EXCEPT ![n + 1] = y][k] = IF k = n + 1 THEN y ELSE t[k]
  BY <1>1, <1>2, ExceptSeq
<1>4. \A k \in 1..n + 1 : k = n + 1 \/ (k \in 1..n /\ k # n + 1)
  BY <1>1
<1>5. \A k \in 1..n + 1 : [t EXCEPT ![n + 1] = y][k] = Append(s, y)[k]
  BY <1>2, <1>3, <1>4
<1>6. [t EXCEPT ![n + 1] = y] = Append(s, y)
  <2>. DEFINE a == [t EXCEPT ![n + 1] = y]
              b == Append(s, y)
  <2>1. /\ a \in Seq(S) /\ b \in Seq(S) /\ Len(a) = Len(b)
        /\ \A k \in 1..Len(a) : a[k] = b[k]
    BY <1>2, <1>3, <1>5
  <2>. HIDE DEF a, b
  <2>2. a = b
    BY ONLY <2>1, SeqEqual
  <2>. QED
    BY <2>2 DEF a, b
<1>. QED
  BY <1>6 DEF n, t

LEMMA TwoMore ==
  ASSUME NEW S, NEW s \in Seq(S), NEW u \in S, NEW a \in S
  PROVE  LET t == s \o <<u, a>> IN
         /\ t \in Seq(S) /\ Len(t) = Len(s) + 2 /\ DOMAIN t = 1..Len(s) + 2
         /\ \A i \in 1..Len(s) : t[i] = s[i]
         /\ t[Len(s) + 1] = u /\ t[Len(s) + 2] = a
<1>. DEFINE n == Len(s)
            t == s \o <<u, a>>
<1>1. <<u, a>> \in Seq(S) /\ Len(<<u, a>>) = 2 /\ <<u, a>>[1] = u /\ <<u, a>>[2] = a
  OBVIOUS
<1>2. n \in Nat
  BY LenProperties
<1>3. /\ t \in Seq(S) /\ Len(t) = n + Len(<<u, a>>)
      /\ \A i \in 1..n + Len(<<u, a>>) : t[i] = IF i <= n THEN s[i] ELSE <<u, a>>[i - n]
  BY <1>1, ConcatProperties
<1>4. DOMAIN t = 1..Len(t)
  BY <1>3, LenProperties
<1>. HIDE DEF t, n
<1>5. Len(t) = n + 2 /\ DOMAIN t = 1..n + 2
  BY <1>1, <1>3, <1>4
<1>6. \A i \in 1..n : t[i] = s[i]
  BY <1>1, <1>2, <1>3
<1>7. /\ n + 1 \in 1..n + 2 /\ n + 2 \in 1..n + 2 /\ ~(n + 1 <= n) /\ ~(n + 2 <= n)
      /\ (n + 1) - n = 1 /\ (n + 2) - n = 2
  BY <1>2
<1>8. t[n + 1] = <<u, a>>[(n + 1) - n] /\ t[n + 2] = <<u, a>>[(n + 2) - n]
  BY <1>1, <1>3, <1>7
<1>. QED
  BY <1>1, <1>3, <1>5, <1>6, <1>7, <1>8 DEF t, n

LEMMA Removing ==
  ASSUME NEW S, NEW s \in Seq(S), NEW i \in 1..Len(s)
  PROVE  /\ RemoveAt(s, i) \in Seq(S) /\ Len(RemoveAt(s, i)) = Len(s) - 1
         /\ \A k \in 1..Len(s) - 1 : RemoveAt(s, i)[k] = IF k < i THEN s[k] ELSE s[k + 1]
<1>. DEFINE n == Len(s)
            l == SubSeq(s, 1, i - 1)
            r == SubSeq(s, i + 1, n)
            t == l \o r
<1>1. n \in Nat /\ \A k \in 1..n : s[k] \in S
  BY LenProperties, ElementOfSeq
<1>2. /\ l \in Seq(S) /\ Len(l) = i - 1
      /\ \A k \in 1..i - 1 : l[k] = s[k]
  <2>1. 1 \in Int /\ i - 1 \in Int /\ i - 1 >= 0 /\ \A k \in 1..i - 1 : k \in 1..n
    BY <1>1
  <2>2. \A k \in 1..i - 1 : s[k] \in S
    BY <1>1, <2>1
  <2>3. /\ l \in Seq(S)
        /\ Len(l) = IF 1 <= i - 1 THEN (i - 1) - 1 + 1 ELSE 0
        /\ \A k \in 1..(i - 1) - 1 + 1 : l[k] = s[1 + k - 1]
    BY ONLY <2>1, <2>2, SubSeqProperties
  <2>4. \A k \in 1..i - 1 : k \in 1..(i - 1) - 1 + 1 /\ 1 + k - 1 = k
    BY <2>1
  <2>5. Len(l) = i - 1
    BY ONLY <2>1, <2>3
  <2>. QED
    BY <2>3, <2>4, <2>5
<1>3. /\ r \in Seq(S) /\ Len(r) = n - i
      /\ \A k \in 1..n - i : r[k] = s[i + k]
  <2>1. i + 1 \in Int /\ n \in Int /\ i <= n /\ i \in Int /\ \A k \in i + 1..n : k \in 1..n
    BY <1>1
  <2>2. \A k \in i + 1..n : s[k] \in S
    BY <1>1, <2>1
  <2>. HIDE DEF n
  <2>3. /\ r \in Seq(S)
        /\ Len(r) = IF i + 1 <= n THEN n - (i + 1) + 1 ELSE 0
        /\ \A k \in 1..n - (i + 1) + 1 : r[k] = s[i + 1 + k - 1]
    BY ONLY <2>1, <2>2, SubSeqProperties
  <2>4. \A k \in 1..n - i : k \in 1..n - (i + 1) + 1 /\ i + 1 + k - 1 = i + k
    BY <2>1
  <2>5. Len(r) = n - i
    BY ONLY <2>1, <2>3
  <2>. QED
    BY <2>3, <2>4, <2>5
<1>. HIDE DEF n, l, r
<1>4. /\ t \in Seq(S) /\ Len(t) = Len(l) + Len(r)
      /\ \A k \in 1..Len(l) + Len(r) : t[k] = IF k <= Len(l) THEN l[k] ELSE r[k - Len(l)]
  BY <1>2, <1>3, ConcatProperties
<1>5. t = RemoveAt(s, i)
  BY DEF RemoveAt, l, r, n
<1>. HIDE DEF t
<1>6. Len(t) = n - 1
  BY <1>1, <1>2, <1>3, <1>4 DEF n
<1>7. ASSUME NEW k \in 1..n - 1 PROVE t[k] = IF k < i THEN s[k] ELSE s[k + 1]
  <2>1. i \in Nat /\ i <= n /\ i >= 1 /\ n \in Nat
    BY <1>1 DEF n
  <2>2. k \in 1..Len(l) + Len(r)
    BY <1>2, <1>3, <2>1
  <2>3. CASE k < i
    <3>1. k <= Len(l) /\ k \in 1..i - 1
      BY <1>2, <2>1, <2>3
    <3>. QED
      BY <1>2, <1>4, <2>2, <2>3, <3>1
  <2>4. CASE ~(k < i)
    <3>1. ~(k <= Len(l)) /\ k - Len(l) \in 1..n - i /\ i + (k - Len(l)) = k + 1
      BY <1>2, <2>1, <2>4
    <3>2. r[k - Len(l)] = s[i + (k - Len(l))]
      BY <1>3, <3>1
    <3>. QED
      BY <1>4, <2>2, <2>4, <3>1, <3>2
  <2>. QED
    BY <2>3, <2>4
<1>. QED
  BY <1>4, <1>5, <1>6, <1>7 DEF n

(* An initial part.                                                        *)
LEMMA Beginning ==
  ASSUME NEW S, NEW s \in Seq(S), NEW m \in 0..Len(s)
  PROVE  /\ SubSeq(s, 1, m) \in Seq(S) /\ Len(SubSeq(s, 1, m)) = m
         /\ \A k \in 1..m : SubSeq(s, 1, m)[k] = s[k]
<1>1. Len(s) \in Nat /\ \A k \in 1..Len(s) : s[k] \in S
  BY LenProperties, ElementOfSeq
<1>2. 1 \in Int /\ m \in Int /\ m >= 0 /\ \A k \in 1..m : k \in 1..Len(s)
  BY <1>1
<1>3. \A k \in 1..m : s[k] \in S
  BY <1>1, <1>2
<1>4. /\ SubSeq(s, 1, m) \in Seq(S)
      /\ Len(SubSeq(s, 1, m)) = IF 1 <= m THEN m - 1 + 1 ELSE 0
      /\ \A k \in 1..m - 1 + 1 : SubSeq(s, 1, m)[k] = s[1 + k - 1]
  BY ONLY <1>2, <1>3, SubSeqProperties
<1>5. Len(SubSeq(s, 1, m)) = m
  BY ONLY <1>2, <1>4
<1>6. \A k \in 1..m : k \in 1..m - 1 + 1 /\ 1 + k - 1 = k
  BY <1>2
<1>. QED
  BY <1>4, <1>5, <1>6

(* The last two elements, between two others.                              *)
LEMMA LastTwoFramed ==
  ASSUME NEW S, NEW s \in Seq(S), Len(s) > 2, NEW a \in S, NEW c \in S
  PROVE  LET t == <<a>> \o SubSeq(s, Len(s) - 1, Len(s)) \o <<c>> IN
         /\ t \in Seq(S) /\ Len(t) = 4
         /\ t[1] = a /\ t[2] = s[Len(s) - 1] /\ t[3] = s[Len(s)] /\ t[4] = c
<1>. DEFINE n == Len(s)
            b == SubSeq(s, n - 1, n)
            t == <<a>> \o b \o <<c>>
<1>1. n \in Nat /\ n > 2 /\ \A k \in 1..n : s[k] \in S
  BY LenProperties, ElementOfSeq
<1>2. /\ n - 1 \in Int /\ n \in Int /\ n - 1 <= n /\ n - (n - 1) + 1 = 2
      /\ \A k \in n - 1..n : k \in 1..n
  <2>1. n \in Nat /\ n > 2
    BY <1>1
  <2>. QED
    BY ONLY <2>1
<1>3. \A k \in n - 1..n : s[k] \in S
  BY <1>1, <1>2
<1>. HIDE DEF n
<1>4. /\ b \in Seq(S) /\ Len(b) = n - (n - 1) + 1
      /\ \A k \in 1..n - (n - 1) + 1 : b[k] = s[(n - 1) + k - 1]
  <2>1. /\ b \in Seq(S)
        /\ Len(b) = IF n - 1 <= n THEN n - (n - 1) + 1 ELSE 0
        /\ \A k \in 1..n - (n - 1) + 1 : b[k] = s[(n - 1) + k - 1]
    BY ONLY <1>2, <1>3, SubSeqProperties
  <2>. QED
    BY <1>2, <2>1
<1>. HIDE DEF b
<1>5. b \in Seq(S) /\ Len(b) = 2 /\ b[1] = s[n - 1] /\ b[2] = s[n]
  <2>1. 1 \in 1..2 /\ 2 \in 1..2 /\ (n - 1) + 1 - 1 = n - 1 /\ (n - 1) + 2 - 1 = n
    BY <1>1
  <2>2. \A k \in 1..2 : b[k] = s[(n - 1) + k - 1]
    BY <1>2, <1>4
  <2>3. b[1] = s[(n - 1) + 1 - 1] /\ b[2] = s[(n - 1) + 2 - 1]
    BY <2>1, <2>2
  <2>. QED
    BY <1>2, <1>4, <2>1, <2>3
<1>6. /\ <<a>> \in Seq(S) /\ Len(<<a>>) = 1 /\ <<a>>[1] = a
      /\ <<c>> \in Seq(S) /\ Len(<<c>>) = 1 /\ <<c>>[1] = c
  OBVIOUS
<1>7. /\ <<a>> \o b \in Seq(S) /\ Len(<<a>> \o b) = 3
      /\ (<<a>> \o b)[1] = a /\ (<<a>> \o b)[2] = b[1] /\ (<<a>> \o b)[3] = b[2]
  <2>1. /\ <<a>> \o b \in Seq(S) /\ Len(<<a>> \o b) = Len(<<a>>) + Len(b)
        /\ \A i \in 1..Len(<<a>>) + Len(b) :
             (<<a>> \o b)[i] = IF i <= Len(<<a>>) THEN <<a>>[i] ELSE b[i - Len(<<a>>)]
    BY <1>5, <1>6, ConcatProperties
  <2>2. \A i \in 1..3 : (<<a>> \o b)[i] = IF i <= 1 THEN <<a>>[i] ELSE b[i - 1]
    BY <1>5, <1>6, <2>1
  <2>. QED
    BY <1>5, <1>6, <2>1, <2>2
<1>8. /\ t \in Seq(S) /\ Len(t) = 4
      /\ t[1] = (<<a>> \o b)[1] /\ t[2] = (<<a>> \o b)[2] /\ t[3] = (<<a>> \o b)[3] /\ t[4] = c
  <2>. DEFINE l == <<a>> \o b
  <2>. HIDE DEF l
  <2>1. l \in Seq(S) /\ Len(l) = 3
    BY <1>7 DEF l
  <2>2. /\ l \o <<c>> \in Seq(S) /\ Len(l \o <<c>>) = Len(l) + Len(<<c>>)
        /\ \A i \in 1..Len(l) + Len(<<c>>) :
             (l \o <<c>>)[i] = IF i <= Len(l) THEN l[i] ELSE <<c>>[i - Len(l)]
    BY <1>6, <2>1, ConcatProperties
  <2>3. \A i \in 1..4 : (l \o <<c>>)[i] = IF i <= 3 THEN l[i] ELSE <<c>>[i - 3]
    BY <1>6, <2>1, <2>2
  <2>4. t = l \o <<c>>
    BY DEF l
  <2>. QED
    BY <1>6, <2>1, <2>2, <2>3, <2>4 DEF l
<1>. QED
  BY <1>5, <1>7, <1>8 DEF b, n
(* A run, index by index.                                                  *)
LEMMA RunStep ==
  ASSUME NEW n \in Nat, NEW V, NEW base, NEW F, NEW g, IsRun(g, n, V, base, F), NEW m \in 1..n
  PROVE  g[1..m] \in V /\ g[1..m] = F[m][g[1..m - 1]]
<1>1. /\ 1..m \in SUBSET (1..n) /\ 1..m # {} /\ m \in 1..m
      /\ (1..m) \ {m} = 1..m - 1 /\ \A k \in 1..m : k <= m
  OBVIOUS
<1>2. Max(1..m) = m
  <2>1. Max(1..m) \in 1..m /\ \A k \in 1..m : k <= Max(1..m)
    BY <1>1, Extremes
  <2>. DEFINE M == Max(1..m)
  <2>. HIDE DEF M
  <2>2. M \in 1..m /\ m <= M
    BY <1>1, <2>1 DEF M
  <2>3. M = m
    BY <2>2
  <2>. QED
    BY <2>3 DEF M
<1>. QED
  BY <1>1, <1>2 DEF IsRun

-----------------------------------------------------------------------------
(* Sequences put one behind the other.                                     *)

LEMMA FlattensTo ==
  ASSUME NEW S, NEW s \in Seq(Seq(S)), NEW n \in Nat, n # 0, Len(s) = n,
         NEW h \in [1..n -> Seq(S)], h[1] = s[1], \A i \in 2..n : h[i] = h[i - 1] \o s[i]
  PROVE  FlattenSeq(s) = h[n]
<1>. DEFINE more(v, i) == v \o s[i]
            IsIt(f) == f = [i \in 1..n |-> IF i = 1 THEN s[i] ELSE more(f[i - 1], i)]
            it == CHOOSE f : IsIt(f)
<1>1. FlattenSeq(s) = it[n]
  BY DEF FlattenSeq
<1>2. \A i \in 2..n : h[i] = more(h[i - 1], i)
  OBVIOUS
<1>. HIDE DEF more
<1>3. ASSUME NEW i \in 1..n PROVE h[i] = IF i = 1 THEN s[i] ELSE more(h[i - 1], i)
  <2>1. CASE i = 1
    BY <2>1
  <2>2. CASE i \in 2..n
    BY <1>2, <2>2
  <2>. QED
    BY <2>1, <2>2
<1>4. IsIt(h)
  <2>1. h = [i \in 1..n |-> h[i]]
    OBVIOUS
  <2>. QED
    BY <1>3, <2>1
<1>5. IsIt(it)
  BY <1>4
<1>6. \A i \in 1..n : it[i] = IF i = 1 THEN s[i] ELSE more(it[i - 1], i)
  BY <1>5
<1>. HIDE DEF it
<1>. DEFINE T == {m \in Nat : m \in 1..n => it[m] = h[m]}
<1>7. 0 \in T
  OBVIOUS
<1>8. ASSUME NEW m \in 0..n, m \in T, m + 1 \in 1..n PROVE it[m + 1] = h[m + 1]
  <2>1. CASE m = 0
    BY <1>3, <1>6, <1>8, <2>1
  <2>2. CASE m # 0
    <3>1. m \in 1..n /\ m + 1 # 1 /\ (m + 1) - 1 = m
      BY <2>2
    <3>2. it[m] = h[m]
      BY <1>8, <3>1
    <3>3. it[m + 1] = more(it[m], m + 1) /\ h[m + 1] = more(h[m], m + 1)
      BY <1>3, <1>6, <1>8, <3>1
    <3>. QED
      BY <3>2, <3>3
  <2>. QED
    BY <2>1, <2>2
<1>9. \A m \in 0..n : m \in T => m + 1 \in T
  <2>1. \A m \in 0..n : m \in T /\ m + 1 \in 1..n => it[m + 1] = h[m + 1]
    BY <1>8
  <2>2. \A m \in 0..n : m + 1 \in Nat
    OBVIOUS
  <2>. HIDE DEF IsIt
  <2>. QED
    BY <2>1, <2>2 DEF T
<1>. HIDE DEF T
<1>10. n \in T
  BY <1>7, <1>9, Counting
<1>. QED
  BY <1>1, <1>10 DEF T

LEMMA FlatSteps ==
  ASSUME NEW S, NEW s \in Seq(Seq(S)), Len(s) # 0
  PROVE  \E h \in [1..Len(s) -> Seq(S)] : h[1] = s[1] /\ \A i \in 2..Len(s) : h[i] = h[i - 1] \o s[i]
<1>. DEFINE n == Len(s)
            V == Seq(S)
            F == [i \in 1..n |-> [v \in V |-> v \o s[i]]]
<1>1. n \in Nat /\ <<>> \in V /\ 1 \in 1..n /\ \A i \in 1..n : s[i] \in V
  BY LenProperties, EmptySeq, ElementOfSeq
<1>2. \A i \in 1..n : F[i] \in [V -> V] /\ \A v \in V : F[i][v] = v \o s[i]
  BY <1>1, ConcatProperties
<1>3. <<>> \o s[1] = s[1]
  BY <1>1, ConcatEmptySeq
<1>. HIDE DEF F, V
<1>4. PICK g : IsRun(g, n, V, <<>>, F)
  BY <1>1, <1>2, RunExists
<1>5. g[{}] = <<>> /\ 1..0 = {}
  BY <1>4 DEF IsRun
<1>. DEFINE h == [i \in 1..n |-> g[1..i]]
<1>6. \A i \in 1..n : g[1..i] \in V /\ g[1..i] = F[i][g[1..i - 1]]
  BY <1>1, <1>4, RunStep
<1>7. h \in [1..n -> V]
  BY <1>6
<1>8. h[1] = s[1]
  <2>1. 1 - 1 = 0
    OBVIOUS
  <2>3. g[1..1] = F[1][g[1..1 - 1]]
    BY <1>1, <1>6
  <2>4. g[1..1] = F[1][g[1..0]]
    BY <2>1, <2>3
  <2>2. g[1..1] = F[1][<<>>]
    BY <1>5, <2>4
  <2>. QED
    BY <1>1, <1>2, <1>3, <2>2
<1>9. ASSUME NEW i \in 2..n PROVE h[i] = h[i - 1] \o s[i]
  <2>1. i \in 1..n /\ i - 1 \in 1..n
    BY <1>1
  <2>2. g[1..i] = F[i][g[1..i - 1]] /\ g[1..i - 1] \in V
    BY <1>6, <2>1
  <2>. QED
    BY <1>2, <2>1, <2>2
<1>. QED
  BY <1>7, <1>8, <1>9 DEF V

LEMMA FlatOfNone == FlattenSeq(<<>>) = <<>>
BY DEF FlattenSeq

LEMMA Flattening ==
  ASSUME NEW S, NEW s \in Seq(Seq(S))
  PROVE  /\ FlattenSeq(s) \in Seq(S)
         /\ \A x \in Seq(S) : FlattenSeq(Append(s, x)) = FlattenSeq(s) \o x
<1>. DEFINE n == Len(s)
<1>1. n \in Nat /\ <<>> \in Seq(S)
  BY LenProperties, EmptySeq
<1>2. CASE n = 0
  <2>1. s = <<>>
    BY <1>2, EmptySeq
  <2>2. ASSUME NEW x \in Seq(S) PROVE FlattenSeq(Append(s, x)) = x
    <3>1. /\ Append(s, x) \in Seq(Seq(S)) /\ Len(Append(s, x)) = 1 /\ Append(s, x)[1] = x
      BY <1>2, AppendProperties
    <3>. DEFINE h == [i \in 1..1 |-> x]
    <3>2. h \in [1..1 -> Seq(S)] /\ h[1] = x /\ 2..1 = {}
      OBVIOUS
    <3>. HIDE DEF h
    <3>. DEFINE t == Append(s, x)
    <3>. HIDE DEF t
    <3>4. t \in Seq(Seq(S)) /\ Len(t) = 1 /\ h[1] = t[1]
      BY <3>1, <3>2 DEF t
    <3>5. \A i \in 2..1 : h[i] = h[i - 1] \o t[i]
      BY <3>2
    <3>. DEFINE one == 1
    <3>7. one \in Nat /\ one # 0 /\ one = 1
      OBVIOUS
    <3>. HIDE DEF one
    <3>8. /\ Len(t) = one /\ h \in [1..one -> Seq(S)]
          /\ \A i \in 2..one : h[i] = h[i - 1] \o t[i]
      BY <3>2, <3>4, <3>5, <3>7
    <3>9. FlattenSeq(t) = h[one]
      BY <3>4, <3>7, <3>8, FlattensTo
    <3>6. FlattenSeq(t) = h[1]
      BY <3>7, <3>9
    <3>3. FlattenSeq(Append(s, x)) = h[1]
      BY <3>6 DEF t
    <3>. QED
      BY <3>2, <3>3
  <2>. QED
    BY <1>1, <2>1, <2>2, FlatOfNone, ConcatEmptySeq
<1>3. ASSUME n # 0, NEW x \in Seq(S)
      PROVE  FlattenSeq(s) \in Seq(S) /\ FlattenSeq(Append(s, x)) = FlattenSeq(s) \o x
  <2>1. PICK h \in [1..n -> Seq(S)] : h[1] = s[1] /\ \A i \in 2..n : h[i] = h[i - 1] \o s[i]
    BY <1>3, FlatSteps
  <2>2. FlattenSeq(s) = h[n]
    BY <1>1, <1>3, <2>1, FlattensTo
  <2>. DEFINE t == Append(s, x)
              f == h[n]
              z == f \o x
              more(v, i) == v \o t[i]
              k == [i \in 1..n + 1 |-> IF i <= n THEN h[i] ELSE z]
  <2>3. /\ t \in Seq(Seq(S)) /\ Len(t) = n + 1 /\ t[n + 1] = x
        /\ \A i \in 1..n : t[i] = s[i]
    BY AppendProperties
  <2>4. \A i \in 2..n : h[i] = more(h[i - 1], i)
    <3>1. \A i \in 2..n : i \in 1..n
      OBVIOUS
    <3>. QED
      BY <2>1, <2>3, <3>1
  <2>5. z = more(f, n + 1)
    BY <2>3
  <2>. HIDE DEF t, more, n
  <2>6. f \in Seq(S) /\ 1 \in 1..n /\ n \in 1..n /\ n + 1 # 0 /\ n + 1 \in Nat
    BY <1>1, <1>3, <2>1
  <2>7. z \in Seq(S)
    BY <2>6, ConcatProperties
  <2>. HIDE DEF z, f
  <2>8. /\ k \in [1..n + 1 -> Seq(S)] /\ k[1] = h[1] /\ k[n + 1] = z /\ k[n] = f
        /\ \A i \in 1..n : k[i] = h[i]
    BY <1>1, <2>1, <2>6, <2>7 DEF f
  <2>9. ASSUME NEW i \in 2..n + 1 PROVE k[i] = more(k[i - 1], i)
    <3>. HIDE DEF k
    <3>1. CASE i \in 2..n
      <4>1. i \in 1..n /\ i - 1 \in 1..n
        BY <1>1, <3>1
      <4>. QED
        BY <2>4, <2>8, <3>1, <4>1
    <3>2. CASE i = n + 1
      <4>1. i - 1 = n
        BY <1>1, <3>2
      <4>. QED
        BY <2>5, <2>8, <3>2, <4>1
    <3>. QED
      BY <1>1, <3>1, <3>2
  <2>10. k[1] = t[1]
    BY <2>1, <2>3, <2>6, <2>8
  <2>. HIDE DEF k
  <2>11. FlattenSeq(t) = k[n + 1]
    <3>1. \A i \in 2..n + 1 : k[i] = k[i - 1] \o t[i]
      BY <2>9 DEF more
    <3>. QED
      BY <2>3, <2>6, <2>8, <2>10, <3>1, FlattensTo
  <2>. QED
    BY <2>2, <2>6, <2>8, <2>11 DEF t, z, f
<1>. QED
  BY <1>1, <1>2, <1>3

(* Steps from nothing to all of it put together.                           *)
LEMMA FlattenAlong ==
  ASSUME NEW S, NEW s \in Seq(Seq(S)), NEW n \in Nat, Len(s) = n, NEW r \in [0..n -> Seq(S)],
         r[0] = <<>>, \A i \in 1..n : r[i] = r[i - 1] \o s[i]
  PROVE  FlattenSeq(s) = r[n]
<1>1. CASE n = 0
  <2>1. s = <<>>
    BY <1>1, EmptySeq
  <2>. QED
    BY <1>1, <2>1, FlatOfNone
<1>2. CASE n # 0
  <2>. DEFINE h == [i \in 1..n |-> r[i]]
  <2>1. /\ h \in [1..n -> Seq(S)] /\ 1 \in 1..n /\ n \in 1..n /\ 1 - 1 = 0
        /\ \A i \in 1..n : h[i] = r[i]
    BY <1>2
  <2>2. s[1] \in Seq(S)
    BY <2>1, ElementOfSeq
  <2>3. r[1] = <<>> \o s[1]
    BY <2>1
  <2>4. h[1] = s[1]
    BY <2>1, <2>2, <2>3, ConcatEmptySeq
  <2>5. ASSUME NEW i \in 2..n PROVE h[i] = h[i - 1] \o s[i]
    <3>1. i \in 1..n /\ i - 1 \in 1..n
      OBVIOUS
    <3>. HIDE DEF h
    <3>. QED
      BY <2>1, <3>1
  <2>. HIDE DEF h
  <2>6. FlattenSeq(s) = h[n]
    BY <1>2, <2>1, <2>4, <2>5, FlattensTo
  <2>. QED
    BY <2>1, <2>6
<1>. QED
  BY <1>1, <1>2

LEMMA FlattenBySteps ==
  ASSUME NEW S, NEW s \in Seq(Seq(S)), NEW n \in Nat, Len(s) = n
  PROVE  \E r \in [0..n -> Seq(S)] :
           r[0] = <<>> /\ r[n] = FlattenSeq(s) /\ \A i \in 1..n : r[i] = r[i - 1] \o s[i]
<1>1. <<>> \in Seq(S) /\ FlattenSeq(s) \in Seq(S)
  BY EmptySeq, Flattening
<1>2. CASE n = 0
  <2>. DEFINE r == [i \in 0..n |-> <<>>]
  <2>1. s = <<>>
    BY <1>2, EmptySeq
  <2>2. r \in [0..n -> Seq(S)] /\ r[0] = <<>> /\ r[n] = <<>> /\ 1..n = {}
    BY <1>1, <1>2
  <2>. HIDE DEF r
  <2>. QED
    BY <2>1, <2>2, FlatOfNone
<1>3. CASE n # 0
  <2>1. PICK h \in [1..n -> Seq(S)] : h[1] = s[1] /\ \A i \in 2..n : h[i] = h[i - 1] \o s[i]
    BY <1>3, FlatSteps
  <2>2. FlattenSeq(s) = h[n]
    BY <1>3, <2>1, FlattensTo
  <2>. DEFINE r == [i \in 0..n |-> IF i = 0 THEN <<>> ELSE h[i]]
  <2>3. /\ r \in [0..n -> Seq(S)] /\ r[0] = <<>> /\ 1 \in 1..n /\ n \in 1..n /\ 1 - 1 = 0
        /\ \A i \in 1..n : r[i] = h[i]
    BY <1>1, <1>3
  <2>. HIDE DEF r
  <2>4. ASSUME NEW i \in 1..n PROVE r[i] = r[i - 1] \o s[i]
    <3>1. CASE i = 1
      <4>1. s[1] \in Seq(S)
        BY <2>3, ElementOfSeq
      <4>2. <<>> \o s[1] = s[1]
        BY <4>1, ConcatEmptySeq
      <4>. QED
        BY <2>1, <2>3, <3>1, <4>2
    <3>2. CASE i # 1
      <4>1. i \in 2..n /\ i - 1 \in 1..n
        BY <3>2
      <4>. QED
        BY <2>1, <2>3, <4>1
    <3>. QED
      BY <3>1, <3>2
  <2>. QED
    BY <2>2, <2>3, <2>4
<1>. QED
  BY <1>2, <1>3

LEMMA FlattenConcat ==
  ASSUME NEW S, NEW s \in Seq(Seq(S)), NEW t \in Seq(Seq(S))
  PROVE  FlattenSeq(s \o t) = FlattenSeq(s) \o FlattenSeq(t)
<1>. DEFINE m == Len(s)
            n == Len(t)
            u == s \o t
            flat == FlattenSeq(s)
<1>1. m \in Nat /\ n \in Nat
  BY LenProperties
<1>2. /\ u \in Seq(Seq(S)) /\ Len(u) = m + n /\ flat \in Seq(S)
      /\ \A i \in 1..m + n : u[i] = IF i <= m THEN s[i] ELSE t[i - m]
  BY ConcatProperties, Flattening
<1>12. flat \in Seq(S)
  BY <1>2
<1>13. u \in Seq(Seq(S))
  BY <1>2
<1>. HIDE DEF m, n, u
<1>. DEFINE all == m + n
<1>3. all \in Nat /\ m \in 0..all /\ \A i \in 1..m : i \in 1..all /\ i <= m
  BY <1>1
<1>4. PICK r \in [0..all -> Seq(S)] :
        r[0] = <<>> /\ r[all] = FlattenSeq(u) /\ \A i \in 1..all : r[i] = r[i - 1] \o u[i]
  <2>1. Len(u) = all /\ all \in Nat
    BY <1>2, <1>3
  <2>2. \A v \in Seq(Seq(S)), k \in Nat : Len(v) = k =>
          \E r \in [0..k -> Seq(S)] :
            r[0] = <<>> /\ r[k] = FlattenSeq(v) /\ \A i \in 1..k : r[i] = r[i - 1] \o v[i]
    BY FlattenBySteps
  <2>. HIDE DEF all
  <2>. QED
    BY ONLY <1>13, <2>1, <2>2
<1>5. PICK q \in [0..n -> Seq(S)] :
        q[0] = <<>> /\ q[n] = FlattenSeq(t) /\ \A i \in 1..n : q[i] = q[i - 1] \o t[i]
  BY <1>1, FlattenBySteps DEF n
<1>6. flat = r[m]
  <2>. DEFINE p == [i \in 0..m |-> r[i]]
  <2>1. /\ p \in [0..m -> Seq(S)] /\ p[0] = <<>> /\ p[m] = r[m]
        /\ \A i \in 0..m : p[i] = r[i]
    BY <1>1, <1>4
  <2>2. \A i \in 1..m : i \in 0..m /\ i - 1 \in 0..m
    BY <1>1
  <2>. HIDE DEF p
  <2>3. \A i \in 1..m : p[i] = p[i - 1] \o s[i]
    BY <1>2, <1>3, <1>4, <2>1, <2>2
  <2>4. FlattenSeq(s) = p[m]
    BY <1>1, <2>1, <2>3, FlattenAlong DEF m
  <2>. QED
    BY <2>1, <2>4
<1>. HIDE DEF flat
<1>. DEFINE T == {i \in Nat : i <= n => r[m + i] = flat \o q[i]}
<1>7. 0 \in T
  <2>1. m + 0 = m
    BY <1>1
  <2>2. flat \o <<>> = flat
    BY <1>2, ConcatEmptySeq
  <2>. QED
    BY <1>5, <1>6, <2>1, <2>2
<1>8. ASSUME NEW i \in 0..n, i \in T, i + 1 <= n PROVE r[m + (i + 1)] = flat \o q[i + 1]
  <2>1. /\ i <= n /\ i + 1 \in 1..n /\ m + (i + 1) \in 1..all /\ ~(m + (i + 1) <= m)
        /\ (m + (i + 1)) - m = i + 1 /\ (m + (i + 1)) - 1 = m + i /\ (i + 1) - 1 = i
    BY <1>1, <1>8
  <2>2. r[m + i] = flat \o q[i]
    BY <1>8, <2>1
  <2>3. u[m + (i + 1)] = t[i + 1]
    BY <1>2, <2>1
  <2>. DEFINE k == m + (i + 1)
              j == i + 1
  <2>4. r[k] = r[m + i] \o t[j]
    <3>1. k \in 1..all /\ k - 1 = m + i /\ u[k] = t[j]
      BY <2>1, <2>3
    <3>. HIDE DEF k, j, all
    <3>. QED
      BY <1>4, <3>1
  <2>5. q[j] = q[i] \o t[j]
    <3>1. j \in 1..n /\ j - 1 = i
      BY <2>1
    <3>. HIDE DEF j
    <3>. QED
      BY <1>5, <3>1
  <2>6. q[i] \in Seq(S) /\ t[j] \in Seq(S)
    <3>1. i \in 0..n /\ j \in 1..Len(t)
      BY <2>1 DEF n
    <3>. HIDE DEF j
    <3>. QED
      BY <1>5, <3>1, ElementOfSeq
  <2>. DEFINE x == q[i]
              y == t[j]
  <2>7. x \in Seq(S) /\ y \in Seq(S)
    BY <2>6
  <2>. HIDE DEF x, y
  <2>8. (flat \o x) \o y = flat \o (x \o y)
    BY ONLY <1>12, <2>7
  <2>. QED
    BY <2>2, <2>4, <2>5, <2>8 DEF x, y
<1>9. \A i \in 0..n : i \in T => i + 1 \in T
  <2>1. \A i \in 0..n : i \in T /\ i + 1 <= n => r[m + (i + 1)] = flat \o q[i + 1]
    BY <1>8
  <2>2. \A i \in 0..n : i + 1 \in Nat
    BY <1>1
  <2>. DEFINE ok(i) == r[m + i] = flat \o q[i]
  <2>3. T = {i \in Nat : i <= n => ok(i)}
    OBVIOUS
  <2>4. \A i \in 0..n : i \in T /\ i + 1 <= n => ok(i + 1)
    BY <2>1
  <2>. HIDE DEF T, ok
  <2>. QED
    BY <2>2, <2>3, <2>4
<1>. HIDE DEF T
<1>10. n \in T
  BY <1>1, <1>7, <1>9, Counting
<1>11. r[m + n] = flat \o q[n]
  BY <1>1, <1>10 DEF T
<1>. QED
  BY <1>4, <1>5, <1>11 DEF flat, u

LEMMA FlattenOne ==
  ASSUME NEW S, NEW x \in Seq(S)
  PROVE  FlattenSeq(<<x>>) = x
<1>1. <<>> \in Seq(Seq(S)) /\ Append(<<>>, x) = <<x>>
  BY EmptySeq, AppendToNone
<1>2. FlattenSeq(Append(<<>>, x)) = FlattenSeq(<<>>) \o x
  BY <1>1, Flattening
<1>. QED
  BY <1>1, <1>2, FlatOfNone, ConcatEmptySeq

(* A sequence is its elements, appended one by one.                        *)
LEMMA OneByOne ==
  ASSUME NEW S, NEW s \in Seq(S), NEW n \in Nat, Len(s) = n, NEW r \in [0..n -> Seq(S)],
         r[0] = <<>>, \A i \in 1..n : r[i] = Append(r[i - 1], s[i])
  PROVE  s = r[n]
<1>. DEFINE T == {m \in Nat : m <= n => r[m] = SubSeq(s, 1, m)}
<1>1. 0 \in T
  BY SubSeqEmpty
<1>2. ASSUME NEW m \in 0..n, m \in T PROVE m + 1 \in T
  <2> SUFFICES ASSUME m + 1 <= n PROVE r[m + 1] = SubSeq(s, 1, m + 1)
    OBVIOUS
  <2>. DEFINE k == m + 1
  <2>1. /\ k - 1 = m /\ 1 \in 1..Len(s) /\ k \in 1..Len(s) /\ k \in 1..n /\ m <= n
    OBVIOUS
  <2>2. r[m] = SubSeq(s, 1, m)
    BY <1>2, <2>1
  <2>. HIDE DEF k
  <2>3. SubSeq(s, 1, k) = SubSeq(s, 1, k - 1) \o <<s[k]>>
    BY <2>1, SubSeqRecursiveSecond
  <2>4. s[k] \in S /\ r[m] \in Seq(S)
    BY <2>1, ElementOfSeq
  <2>5. Append(r[m], s[k]) = r[m] \o <<s[k]>>
    BY <2>4, AppendIsConcat
  <2>6. r[k] = Append(r[m], s[k])
    BY <2>1
  <2>. QED
    BY <2>1, <2>2, <2>3, <2>5, <2>6 DEF k
<1>3. \A m \in 0..n : m \in T => m + 1 \in T
  BY <1>2
<1>. HIDE DEF T
<1>4. n \in T
  BY <1>1, <1>3, Counting
<1>. QED
  BY <1>4, SubSeqFull DEF T

LEMMA FrontAndLast ==
  ASSUME NEW S, NEW s \in Seq(S), s # <<>>
  PROVE  Front(s) \in Seq(S) /\ Last(s) \in S /\ s = Append(Front(s), Last(s))
<1>. DEFINE n == Len(s)
<1>1. n \in Nat /\ n # 0
  BY LenProperties, EmptySeq
<1>2. 1 \in 1..n /\ n \in 1..n /\ n - 1 \in Int /\ 1 \in Int /\ \A i \in 1..n - 1 : i \in 1..n
  BY <1>1
<1>3. s[n] \in S /\ \A i \in 1..n - 1 : s[i] \in S
  BY <1>2, ElementOfSeq
<1>4. SubSeq(s, 1, n - 1) \in Seq(S)
  <2>. DEFINE k == n - 1
  <2>1. k \in Int /\ \A i \in 1..k : s[i] \in S
    BY <1>2, <1>3
  <2>. HIDE DEF k
  <2>2. SubSeq(s, 1, k) \in Seq(S)
    BY <2>1, SubSeqProperties
  <2>. QED
    BY <2>2 DEF k
<1>5. SubSeq(s, 1, n) = SubSeq(s, 1, n - 1) \o <<s[n]>> /\ SubSeq(s, 1, n) = s
  BY <1>2, SubSeqRecursiveSecond, SubSeqFull
<1>. DEFINE f == Front(s)
            l == Last(s)
<1>6. f \in Seq(S) /\ l \in S /\ s = f \o <<l>>
  BY <1>3, <1>4, <1>5 DEF Front, Last
<1>. HIDE DEF f, l
<1>7. Append(f, l) = f \o <<l>>
  BY <1>6, AppendIsConcat
<1>. QED
  BY <1>6, <1>7 DEF f, l

LEMMA OneAndOne ==
  ASSUME NEW S, NEW x \in S, NEW y \in S
  PROVE  <<x>> \o <<y>> = <<x, y>>
<1>. DEFINE a == <<x>>
            c == <<x, y>>
            d == Append(a, y)
<1>1. a \in Seq(S) /\ Len(a) = 1 /\ a[1] = x
  OBVIOUS
<1>2. c \in Seq(S) /\ Len(c) = 2 /\ c[1] = x /\ c[2] = y
  OBVIOUS
<1>3. d = <<x>> \o <<y>>
  BY <1>1, AppendIsConcat
<1>. HIDE DEF a, c
<1>4. d \in Seq(S) /\ Len(d) = Len(a) + 1 /\ d[Len(a) + 1] = y /\ \A i \in 1..Len(a) : d[i] = a[i]
  <2>1. a \in Seq(S) /\ y \in S
    BY <1>1
  <2>. QED
    BY ONLY <2>1, AppendProperties
<1>. HIDE DEF d
<1>5. Len(d) = 2 /\ d[1] = x /\ d[2] = y
  BY <1>1, <1>4
<1>6. \A i \in 1..2 : i = 1 \/ i = 2
  OBVIOUS
<1>7. \A i \in 1..2 : d[i] = c[i]
  BY <1>2, <1>5, <1>6
<1>8. d = c
  BY <1>2, <1>4, <1>5, <1>7, SeqEqual
<1>. QED
  BY <1>3, <1>8 DEF c

LEMMA RunBySteps ==
  ASSUME NEW n \in Nat, NEW V, NEW base \in V, NEW F, NEW g, IsRun(g, n, V, base, F)
  PROVE  \E h \in [0..n -> V] :
           h[0] = base /\ h[n] = g[1..n] /\ \A i \in 1..n : h[i] = F[i][h[i - 1]]
<1>. DEFINE h == [i \in 0..n |-> g[1..i]]
<1>1. g[{}] = base /\ 1..0 = {}
  BY DEF IsRun
<1>2. \A i \in 1..n : g[1..i] \in V /\ g[1..i] = F[i][g[1..i - 1]]
  BY RunStep
<1>3. \A i \in 0..n : i = 0 \/ i \in 1..n
  OBVIOUS
<1>4. \A i \in 0..n : g[1..i] \in V
  BY <1>1, <1>2, <1>3
<1>5. h \in [0..n -> V] /\ h[0] = base /\ h[n] = g[1..n] /\ \A i \in 0..n : h[i] = g[1..i]
  BY <1>1, <1>4
<1>. HIDE DEF h
<1>6. \A i \in 1..n : i \in 0..n /\ i - 1 \in 0..n
  OBVIOUS
<1>. QED
  BY <1>2, <1>5, <1>6
=============================================================================
