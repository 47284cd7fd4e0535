------------------------- MODULE QueueCalls_proofs -------------------------
(* The playback queue, for any tracks, seeds, draws and length: whatever     *)
(* calls came before, its order of play is a permutation of its tracks and   *)
(* its position is where the current one is played (Sound), so that playing  *)
(* on from the first plays each track once and the two policies agree with   *)
(* it; and a mutation of the list keeps the current track and the turns.     *)
(*                                                                           *)
(* Both theorems assume CheckedReplace: a replacement whose index is refused *)
(* leaves an order of other tracks behind (PlaybackQueue::replace).          *)
EXTENDS QueueCalls, SequenceTheorems, WellFoundedInduction, TLAPS

LEMMA LeastNumber ==
  ASSUME NEW T \in SUBSET Nat, T # {}
  PROVE  \E n \in T : \A m \in T : n <= m
  <1> DEFINE R == OpToRel(<, Nat)
  <1>1. IsWellFoundedOn(R, Nat)
    BY NatLessThanWellFounded, Zenon
  <1>2. ASSUME NEW m \in Nat, NEW n \in Nat, m < n PROVE <<m, n>> \in R
    BY <1>2, Zenon DEF OpToRel
  <1> HIDE DEF R
  <1>3. PICK n \in T : \A m \in T : <<m, n>> \notin R
    BY <1>1, WFMin
  <1>4. ASSUME NEW m \in T PROVE n <= m
    <2>1. ~(m < n)
      BY <1>2, <1>3
    <2> QED
      BY <2>1
  <1> QED
    BY <1>4

LEMMA MinIsLeast ==
  ASSUME NEW T \in SUBSET Nat, T # {}
  PROVE  Min(T) \in T /\ \A m \in T : Min(T) <= m
BY LeastNumber DEF Min

\* Sequences.
LEMMA SameSequence ==
  ASSUME NEW S, NEW s \in Seq(S), NEW t \in Seq(S), Len(s) = Len(t),
         \A k \in 1 .. Len(s) : s[k] = t[k]
  PROVE  s = t
OBVIOUS

LEMMA InsertAtElements ==
  ASSUME NEW S, NEW s \in Seq(S), NEW i \in 1 .. Len(s) + 1, NEW e \in S
  PROVE  /\ InsertAt(s, i, e) \in Seq(S)
         /\ Len(InsertAt(s, i, e)) = Len(s) + 1
         /\ \A k \in 1 .. Len(s) + 1 :
              InsertAt(s, i, e)[k] = IF k < i THEN s[k]
                                     ELSE IF k = i THEN e ELSE s[k - 1]
  <1> Len(s) \in Nat /\ i \in Int
    OBVIOUS
  <1> DEFINE a == SubSeq(s, 1, i - 1)
             b == SubSeq(s, i, Len(s))
  <1>1. a \in Seq(S) /\ Len(a) = i - 1 /\ \A k \in 1 .. i - 1 : a[k] = s[k]
    BY SubSeqProperties
  <1>2. /\ b \in Seq(S) /\ Len(b) = Len(s) + 1 - i
        /\ \A k \in 1 .. Len(s) + 1 - i : b[k] = s[i + k - 1]
    BY SubSeqProperties
  <1>3. InsertAt(s, i, e) = a \o <<e>> \o b
    BY DEF InsertAt
  <1> HIDE DEF a, b
  <1> DEFINE c == a \o <<e>>
  <1>4. /\ c \in Seq(S) /\ Len(c) = i
        /\ \A k \in 1 .. i : c[k] = IF k < i THEN s[k] ELSE e
    BY <1>1
  <1> HIDE DEF c
  <1>5. /\ c \o b \in Seq(S) /\ Len(c \o b) = Len(s) + 1
        /\ \A k \in 1 .. Len(s) + 1 : (c \o b)[k] = IF k <= i THEN c[k] ELSE b[k - i]
    <2>1. /\ c \o b \in Seq(S) /\ Len(c \o b) = Len(c) + Len(b)
          /\ \A k \in 1 .. Len(c) + Len(b) :
               (c \o b)[k] = IF k <= Len(c) THEN c[k] ELSE b[k - Len(c)]
      BY <1>2, <1>4, ConcatProperties
    <2>2. Len(c) = i /\ Len(c) + Len(b) = Len(s) + 1
      BY <1>2, <1>4
    <2> QED
      BY <2>1, <2>2
  <1>6. ASSUME NEW k \in 1 .. Len(s) + 1
        PROVE  (c \o b)[k] = IF k < i THEN s[k] ELSE IF k = i THEN e ELSE s[k - 1]
    <2>1. CASE k <= i
      BY <1>4, <1>5, <2>1
    <2>2. CASE k > i
      <3>1. k - i \in 1 .. Len(s) + 1 - i /\ i + (k - i) - 1 = k - 1
        BY <2>2
      <3>2. b[k - i] = s[k - 1]
        BY <1>2, <3>1
      <3> QED
        BY <1>5, <2>2, <3>2
    <2>3. k \in Int
      OBVIOUS
    <2>4. k <= i \/ k > i
      BY <2>3
    <2> QED
      BY <2>1, <2>2, <2>4
  <1>7. InsertAt(s, i, e) = c \o b
    BY <1>3 DEF c
  <1> QED
    BY <1>5, <1>6, <1>7

LEMMA RemoveAtElements ==
  ASSUME NEW S, NEW s \in Seq(S), NEW i \in 1 .. Len(s)
  PROVE  /\ RemoveAt(s, i) \in Seq(S)
         /\ Len(RemoveAt(s, i)) = Len(s) - 1
         /\ \A k \in 1 .. Len(s) - 1 :
              RemoveAt(s, i)[k] = IF k < i THEN s[k] ELSE s[k + 1]
  <1> Len(s) \in Nat /\ i \in Int
    OBVIOUS
  <1> DEFINE a == SubSeq(s, 1, i - 1)
             b == SubSeq(s, i + 1, Len(s))
  <1>1. a \in Seq(S) /\ Len(a) = i - 1 /\ \A k \in 1 .. i - 1 : a[k] = s[k]
    BY SubSeqProperties
  <1>2. /\ b \in Seq(S) /\ Len(b) = Len(s) - i
        /\ \A k \in 1 .. Len(s) - i : b[k] = s[i + 1 + k - 1]
    BY SubSeqProperties
  <1>3. RemoveAt(s, i) = a \o b
    BY DEF RemoveAt
  <1> HIDE DEF a, b
  <1>4. /\ a \o b \in Seq(S) /\ Len(a \o b) = Len(s) - 1
        /\ \A k \in 1 .. Len(s) - 1 :
             (a \o b)[k] = IF k <= i - 1 THEN a[k] ELSE b[k - (i - 1)]
    <2>1. /\ a \o b \in Seq(S) /\ Len(a \o b) = Len(a) + Len(b)
          /\ \A k \in 1 .. Len(a) + Len(b) :
               (a \o b)[k] = IF k <= Len(a) THEN a[k] ELSE b[k - Len(a)]
      BY <1>1, <1>2, ConcatProperties
    <2>2. Len(a) = i - 1 /\ Len(a) + Len(b) = Len(s) - 1
      BY <1>1, <1>2
    <2> QED
      BY <2>1, <2>2
  <1>5. ASSUME NEW k \in 1 .. Len(s) - 1
        PROVE  (a \o b)[k] = IF k < i THEN s[k] ELSE s[k + 1]
    <2>1. CASE k < i
      BY <1>1, <1>4, <2>1
    <2>2. CASE k >= i
      <3>1. k - (i - 1) \in 1 .. Len(s) - i /\ i + 1 + (k - (i - 1)) - 1 = k + 1
        BY <2>2
      <3>2. b[k - (i - 1)] = s[k + 1]
        BY <1>2, <3>1
      <3> QED
        BY <1>4, <2>2, <3>2
    <2>3. k \in Int
      OBVIOUS
    <2>4. k < i \/ k >= i
      BY <2>3
    <2> QED
      BY <2>1, <2>2, <2>4
  <1> QED
    BY <1>3, <1>4, <1>5

-----------------------------------------------------------------------------
\* An order that plays each of n tracks once.
IsOrder(s, n) ==
  /\ s \in Seq(1 .. n)
  /\ Len(s) = n
  /\ \A i, j \in 1 .. n : s[i] = s[j] => i = j
  /\ \A v \in 1 .. n : \E i \in 1 .. n : s[i] = v

LEMMA PlainOrder == ASSUME NEW n \in Nat PROVE IsOrder([i \in 1 .. n |-> i], n)
BY DEF IsOrder

LEMMA SwappedOrder ==
  ASSUME NEW n \in Nat, NEW s, IsOrder(s, n), NEW i \in 1 .. n, NEW j \in 1 .. n
  PROVE  IsOrder(Swapped(s, i, j), n)
  <1> DEFINE t == Swapped(s, i, j)
  <1>1. s \in [1 .. n -> 1 .. n]
    BY LenProperties DEF IsOrder
  <1> DEFINE r == [s EXCEPT ![i] = s[j]]
  <1>2. r \in [1 .. n -> 1 .. n] /\ \A k \in 1 .. n : r[k] = IF k = i THEN s[j] ELSE s[k]
    BY <1>1
  <1>3. t = [r EXCEPT ![j] = s[i]]
    BY DEF Swapped
  <1> HIDE DEF r, t
  <1>4. /\ t \in [1 .. n -> 1 .. n]
        /\ \A k \in 1 .. n : t[k] = IF k = j THEN s[i] ELSE IF k = i THEN s[j] ELSE s[k]
    BY <1>1, <1>2, <1>3
  <1>5. t \in Seq(1 .. n) /\ Len(t) = n
    BY <1>4
  <1>6. ASSUME NEW k \in 1 .. n, NEW l \in 1 .. n, t[k] = t[l] PROVE k = l
    <2>1. \A a, b \in 1 .. n : s[a] = s[b] => a = b
      BY DEF IsOrder
    <2>2. t[k] = (IF k = j THEN s[i] ELSE IF k = i THEN s[j] ELSE s[k])
      BY <1>4
    <2>3. t[l] = (IF l = j THEN s[i] ELSE IF l = i THEN s[j] ELSE s[l])
      BY <1>4
    <2> QED
      BY <1>6, <2>1, <2>2, <2>3
  <1>7. ASSUME NEW v \in 1 .. n PROVE \E k \in 1 .. n : t[k] = v
    <2>1. PICK k \in 1 .. n : s[k] = v
      BY DEF IsOrder
    <2> QED
      BY <1>4, <2>1
  <1>8. IsOrder(t, n)
    BY <1>5, <1>6, <1>7 DEF IsOrder
  <1> QED
    BY <1>8 DEF t

\* The steps of a shuffle, as far as m.
ShuffleStep(n, seed, g, k) ==
  IF k = 0
  THEN [i \in 1 .. n |-> i]
  ELSE Swapped(g[k - 1], n + 1 - k, 1 + (Draw[seed][k] % (n + 1 - k)))

IsShuffle(n, seed, g, m) == g = [k \in 0 .. m |-> ShuffleStep(n, seed, g, k)]

LEMMA ShuffleExists ==
  ASSUME NEW n \in Nat, NEW seed, NEW m \in Nat
  PROVE  \E g : IsShuffle(n, seed, g, m)
  <1> DEFINE Bad == {k \in Nat : ~ \E g : IsShuffle(n, seed, g, k)}
  <1>1. SUFFICES ASSUME Bad # {} PROVE FALSE
    OBVIOUS
  <1>2. PICK l \in Bad : \A k \in Bad : l <= k
    <2>1. Bad \in SUBSET Nat
      OBVIOUS
    <2> HIDE DEF Bad
    <2> QED
      BY <1>1, <2>1, LeastNumber
  <1>3. CASE l = 0
    <2> DEFINE g == [k \in 0 .. 0 |-> [i \in 1 .. n |-> i]]
    <2>1. \A k \in 0 .. 0 : ShuffleStep(n, seed, g, k) = [i \in 1 .. n |-> i]
      BY DEF ShuffleStep
    <2>2. IsShuffle(n, seed, g, 0)
      BY <2>1 DEF IsShuffle
    <2> QED
      BY <1>3, <2>2
  <1>4. CASE l # 0
    <2>1. l - 1 \in Nat /\ ~(l <= l - 1)
      BY <1>4
    <2>2. l - 1 \notin Bad
      <3> HIDE DEF Bad
      <3> QED
        BY <1>2, <2>1
    <2>3. PICK g : IsShuffle(n, seed, g, l - 1)
      BY <2>1, <2>2
    <2> DEFINE h == [k \in 0 .. l |-> IF k = l THEN ShuffleStep(n, seed, g, k) ELSE g[k]]
    <2>4. ASSUME NEW k \in 0 .. l PROVE ShuffleStep(n, seed, h, k) = h[k]
      <3>1. k # 0 => h[k - 1] = g[k - 1]
        OBVIOUS
      <3>2. k # l => g[k] = ShuffleStep(n, seed, g, k)
        BY <2>3 DEF IsShuffle
      <3>3. h[k] = ShuffleStep(n, seed, g, k)
        BY <3>2
      <3> HIDE DEF h
      <3> QED
        BY <3>1, <3>3 DEF ShuffleStep
    <2>5. h = [k \in 0 .. l |-> h[k]]
      OBVIOUS
    <2>6. IsShuffle(n, seed, h, l)
      <3> HIDE DEF h
      <3> QED
        BY <2>4, <2>5 DEF IsShuffle
    <2> QED
      BY <2>6
  <1> QED
    BY <1>3, <1>4

LEMMA StepsAreOrders ==
  ASSUME NEW n \in 0 .. MaxItems, NEW seed \in Seeds, NEW g, IsShuffle(n, seed, g, n)
  PROVE  \A k \in 0 .. n : IsOrder(g[k], n)
  <1> DEFINE Bad == {k \in 0 .. n : ~IsOrder(g[k], n)}
  <1>1. SUFFICES ASSUME Bad # {} PROVE FALSE
    OBVIOUS
  <1>2. n \in Nat /\ n <= MaxItems /\ MaxItems \in Nat
    BY PlaybackQueueAssumption
  <1>3. PICK l \in Bad : \A k \in Bad : l <= k
    <2>1. Bad \in SUBSET Nat
      BY <1>2
    <2> HIDE DEF Bad
    <2> QED
      BY <1>1, <2>1, LeastNumber
  <1>4. l \in 0 .. n /\ ~IsOrder(g[l], n)
    OBVIOUS
  <1>5. g[l] = ShuffleStep(n, seed, g, l)
    BY <1>4 DEF IsShuffle
  <1>6. CASE l = 0
    BY <1>2, <1>4, <1>5, <1>6, PlainOrder DEF ShuffleStep
  <1>7. CASE l # 0
    <2>1. l - 1 \in 0 .. n /\ ~(l <= l - 1)
      BY <1>2, <1>4, <1>7
    <2>2. IsOrder(g[l - 1], n)
      <3>1. l - 1 \notin Bad
        <4> HIDE DEF Bad
        <4> QED
          BY <1>3, <2>1
      <3> QED
        BY <2>1, <3>1
    <2>3. Draw[seed][l] \in Nat
      BY <1>2, <1>4, <1>7, PlaybackQueueAssumption
    <2> DEFINE p == n + 1 - l
    <2>4. p \in 1 .. n
      BY <1>2, <1>4, <1>7
    <2>5. 1 + (Draw[seed][l] % p) \in 1 .. n
      <3> HIDE DEF p
      <3>1. Draw[seed][l] % p \in 0 .. p - 1
        BY <1>2, <2>3, <2>4
      <3> QED
        BY <1>2, <2>4, <3>1
    <2>6. g[l] = Swapped(g[l - 1], p, 1 + (Draw[seed][l] % p))
      BY <1>5, <1>7 DEF ShuffleStep
    <2> HIDE DEF p
    <2> QED
      BY <1>2, <1>4, <2>2, <2>4, <2>5, <2>6, SwappedOrder
  <1> QED
    BY <1>6, <1>7

LEMMA ShuffledOrder ==
  ASSUME NEW n \in 0 .. MaxItems, NEW seed \in Seeds
  PROVE  IsOrder(Shuffled(n, seed), n)
  <1>1. n \in Nat
    BY PlaybackQueueAssumption
  <1> DEFINE g == CHOOSE g : IsShuffle(n, seed, g, n)
  <1>2. IsShuffle(n, seed, g, n)
    BY <1>1, ShuffleExists
  <1>3. Shuffled(n, seed) = g[IF n = 0 THEN 0 ELSE n - 1]
    BY DEF Shuffled, IsShuffle, ShuffleStep
  <1>4. (IF n = 0 THEN 0 ELSE n - 1) \in 0 .. n
    BY <1>1
  <1> HIDE DEF g
  <1> QED
    BY <1>2, <1>3, <1>4, StepsAreOrders

-----------------------------------------------------------------------------
\* What the mutations make of an order of play is one again.
LEMMA OrderElements ==
  ASSUME NEW n \in Nat, NEW s, IsOrder(s, n)
  PROVE  /\ s \in [1 .. n -> 1 .. n] /\ s \in Seq(Nat)
         /\ DOMAIN s = 1 .. n /\ Len(s) = n
         /\ \A k \in 1 .. n : s[k] \in 1 .. n
  <1>1. s \in Seq(1 .. n) /\ Len(s) = n
    BY DEF IsOrder
  <1>2. s \in [1 .. n -> 1 .. n] /\ DOMAIN s = 1 .. n
    BY <1>1, LenProperties
  <1>3. s \in Seq(Nat)
    BY <1>1, SeqMonotonic
  <1> QED
    BY <1>1, <1>2, <1>3

LEMMA IsOrderOf ==
  ASSUME NEW n \in Nat, NEW s \in [1 .. n -> 1 .. n],
         \A i, j \in 1 .. n : s[i] = s[j] => i = j,
         \A v \in 1 .. n : \E i \in 1 .. n : s[i] = v
  PROVE  IsOrder(s, n)
  <1>1. s \in Seq(1 .. n) /\ Len(s) = n
    OBVIOUS
  <1> QED
    BY <1>1 DEF IsOrder

LEMMA AppendElements ==
  ASSUME NEW S, NEW s \in Seq(S), NEW e \in S
  PROVE  /\ Append(s, e) \in Seq(S) /\ Len(Append(s, e)) = Len(s) + 1
         /\ Append(s, e) \in [1 .. Len(s) + 1 -> S]
         /\ \A k \in 1 .. Len(s) + 1 :
              Append(s, e)[k] = IF k = Len(s) + 1 THEN e ELSE s[k]
  <1>1. Append(s, e) \in Seq(S) /\ Len(Append(s, e)) = Len(s) + 1
    BY AppendProperties
  <1>2. Append(s, e) \in [1 .. Len(s) + 1 -> S]
    BY <1>1, LenProperties
  <1>3. ASSUME NEW k \in 1 .. Len(s) + 1
        PROVE  Append(s, e)[k] = IF k = Len(s) + 1 THEN e ELSE s[k]
    <2>1. Len(s) \in Nat
      OBVIOUS
    <2>2. k = Len(s) + 1 \/ k \in 1 .. Len(s)
      BY <2>1
    <2>3. k \in 1 .. Len(s) => k # Len(s) + 1
      BY <2>1
    <2> QED
      BY <2>2, <2>3, AppendProperties
  <1> QED
    BY <1>1, <1>2, <1>3

LEMMA AppendedOrder ==
  ASSUME NEW n \in Nat, NEW s, IsOrder(s, n)
  PROVE  IsOrder(Append(s, n + 1), n + 1)
  <1> DEFINE t == Append(s, n + 1)
  <1>1. \A k \in 1 .. n : s[k] \in 1 .. n
    BY OrderElements
  <1>2. t \in [1 .. n + 1 -> Nat] /\ \A k \in 1 .. n + 1 : t[k] = IF k = n + 1 THEN n + 1 ELSE s[k]
    <2>1. s \in Seq(Nat) /\ Len(s) = n /\ n + 1 \in Nat
      BY OrderElements
    <2>2. t \in [1 .. Len(s) + 1 -> Nat]
      BY <2>1, AppendElements
    <2>3. \A k \in 1 .. Len(s) + 1 : t[k] = IF k = Len(s) + 1 THEN n + 1 ELSE s[k]
      BY <2>1, AppendElements
    <2> HIDE DEF t
    <2> QED
      BY <2>1, <2>2, <2>3
  <1> HIDE DEF t
  <1>3. t \in [1 .. n + 1 -> 1 .. n + 1]
    BY <1>1, <1>2
  <1>4. ASSUME NEW i \in 1 .. n + 1, NEW j \in 1 .. n + 1, t[i] = t[j] PROVE i = j
    <2>1. \A a, b \in 1 .. n : s[a] = s[b] => a = b
      BY DEF IsOrder
    <2>2. \A a \in 1 .. n + 1 : a = n + 1 \/ a \in 1 .. n
      OBVIOUS
    <2>3. \A a \in 1 .. n : t[a] = s[a] /\ s[a] # n + 1
      BY <1>1, <1>2
    <2>4. t[n + 1] = n + 1
      BY <1>2
    <2> QED
      BY <1>4, <2>1, <2>2, <2>3, <2>4
  <1>5. ASSUME NEW v \in 1 .. n + 1 PROVE \E i \in 1 .. n + 1 : t[i] = v
    <2>1. CASE v = n + 1
      BY <1>2, <2>1
    <2>2. CASE v # n + 1
      <3>1. PICK i \in 1 .. n : s[i] = v
        BY <2>2 DEF IsOrder
      <3> QED
        BY <1>2, <3>1
    <2> QED
      BY <2>1, <2>2
  <1>6. n + 1 \in Nat
    OBVIOUS
  <1>7. IsOrder(t, n + 1)
    BY <1>3, <1>4, <1>5, <1>6, IsOrderOf
  <1> QED
    BY <1>7 DEF t

LEMMA InsertedOrder ==
  ASSUME NEW n \in Nat, NEW s, IsOrder(s, n), NEW index \in 1 .. n + 1
  PROVE  LET t == Append([k \in DOMAIN s |-> ShiftUp(s[k], index)], index) IN
         /\ IsOrder(t, n + 1)
         /\ \A k \in 1 .. n : t[k] = ShiftUp(s[k], index)
         /\ t[n + 1] = index
  <1> DEFINE u == [k \in DOMAIN s |-> ShiftUp(s[k], index)]
             t == Append(u, index)
  <1>1. DOMAIN s = 1 .. n /\ \A k \in 1 .. n : s[k] \in 1 .. n
    BY OrderElements
  <1>2. u \in [1 .. n -> 1 .. n + 1] /\ \A k \in 1 .. n : u[k] = ShiftUp(s[k], index)
    BY <1>1 DEF ShiftUp
  <1> HIDE DEF u
  <1>3. u \in Seq(1 .. n + 1) /\ Len(u) = n
    BY <1>2
  <1>4. /\ t \in [1 .. n + 1 -> 1 .. n + 1]
        /\ \A k \in 1 .. n + 1 : t[k] = IF k = n + 1 THEN index ELSE u[k]
    <2>1. t \in [1 .. Len(u) + 1 -> 1 .. n + 1]
      BY <1>3, AppendElements
    <2>2. \A k \in 1 .. Len(u) + 1 : t[k] = IF k = Len(u) + 1 THEN index ELSE u[k]
      BY <1>3, AppendElements
    <2> HIDE DEF t
    <2> QED
      BY <1>3, <2>1, <2>2
  <1> HIDE DEF t
  <1>5. ASSUME NEW i \in 1 .. n + 1, NEW j \in 1 .. n + 1, t[i] = t[j] PROVE i = j
    <2>1. CASE i # n + 1 /\ j # n + 1
      <3>1. i \in 1 .. n /\ j \in 1 .. n /\ ShiftUp(s[i], index) = ShiftUp(s[j], index)
        BY <1>2, <1>4, <1>5, <2>1
      <3>2. s[i] = s[j]
        BY <1>1, <3>1 DEF ShiftUp
      <3> QED
        BY <3>1, <3>2 DEF IsOrder
    <2>2. ASSUME NEW k \in 1 .. n PROVE t[k] # index
      <3>1. t[k] = ShiftUp(s[k], index) /\ s[k] \in 1 .. n
        BY <1>1, <1>2, <1>4
      <3> QED
        BY <3>1 DEF ShiftUp
    <2>3. t[n + 1] = index
      BY <1>4
    <2> QED
      BY <1>5, <2>1, <2>2, <2>3
  <1>6. ASSUME NEW v \in 1 .. n + 1 PROVE \E i \in 1 .. n + 1 : t[i] = v
    <2>1. CASE v = index
      BY <1>4, <2>1
    <2>2. CASE v # index
      <3> DEFINE w == IF v > index THEN v - 1 ELSE v
      <3>1. w \in 1 .. n /\ ShiftUp(w, index) = v
        BY <2>2 DEF ShiftUp
      <3>2. PICK i \in 1 .. n : s[i] = w
        BY <3>1 DEF IsOrder
      <3> QED
        BY <1>2, <1>4, <3>1, <3>2
    <2> QED
      BY <2>1, <2>2
  <1>7. IsOrder(t, n + 1)
    <2>1. n + 1 \in Nat
      OBVIOUS
    <2> QED
      BY <1>4, <1>5, <1>6, <2>1, IsOrderOf
  <1>8. t = Append([k \in DOMAIN s |-> ShiftUp(s[k], index)], index)
    BY DEF t, u
  <1>9. t[n + 1] = index /\ \A k \in 1 .. n : t[k] = ShiftUp(s[k], index)
    BY <1>2, <1>4
  <1> QED
    BY <1>7, <1>8, <1>9

\* What Without keeps of the first k places.
KeptStep(s, index, f, k) ==
  IF k = 0 THEN <<>>
  ELSE IF s[k] = index THEN f[k - 1]
  ELSE Append(f[k - 1], s[k])

IsKept(s, index, f) == f = [k \in 0 .. Len(s) |-> KeptStep(s, index, f, k)]

LEMMA WithoutRemoves ==
  ASSUME NEW n \in Nat, NEW s, IsOrder(s, n), NEW p \in 1 .. n
  PROVE  Without(s, s[p]) = RemoveAt(s, p)
  <1> DEFINE index == s[p]
             g == [k \in 0 .. n |->
                     IF k < p THEN [j \in 1 .. k |-> s[j]]
                     ELSE [j \in 1 .. k - 1 |-> IF j < p THEN s[j] ELSE s[j + 1]]]
  <1>1. /\ s \in Seq(Nat) /\ Len(s) = n
        /\ \A k \in 1 .. n : s[k] \in Nat /\ (s[k] = index <=> k = p)
    <2>1. \A i, j \in 1 .. n : s[i] = s[j] => i = j
      BY DEF IsOrder
    <2> QED
      BY <2>1, OrderElements
  <1>2. ASSUME NEW k \in 0 .. n
        PROVE  /\ k < p => /\ g[k] \in Seq(Nat) /\ Len(g[k]) = k
                           /\ \A j \in 1 .. k : g[k][j] = s[j]
               /\ k >= p => /\ g[k] \in Seq(Nat) /\ Len(g[k]) = k - 1
                            /\ \A j \in 1 .. k - 1 : g[k][j] = IF j < p THEN s[j] ELSE s[j + 1]
    <2>1. CASE k < p
      <3>1. g[k] = [j \in 1 .. k |-> s[j]]
        BY <2>1
      <3> HIDE DEF g
      <3>2. g[k] \in [1 .. k -> Nat] /\ \A j \in 1 .. k : g[k][j] = s[j]
        BY <1>1, <2>1, <3>1
      <3> QED
        BY <2>1, <3>2
    <2>2. CASE k >= p
      <3> DEFINE m == k - 1
      <3>1. g[k] = [j \in 1 .. m |-> IF j < p THEN s[j] ELSE s[j + 1]]
        BY <2>2
      <3>2. m \in Nat /\ m < n
        BY <2>2
      <3> HIDE DEF g, m
      <3>3. \A j \in 1 .. m : j \in 1 .. n /\ j + 1 \in 1 .. n
        BY <3>2
      <3>4. g[k] \in [1 .. m -> Nat] /\ \A j \in 1 .. m : g[k][j] = IF j < p THEN s[j] ELSE s[j + 1]
        BY <1>1, <3>1, <3>3
      <3>5. g[k] \in Seq(Nat) /\ Len(g[k]) = m
        BY <3>2, <3>4
      <3> QED
        BY <2>2, <3>4, <3>5 DEF m
    <2> QED
      BY <2>1, <2>2
  <1>3. g = [k \in 0 .. n |-> g[k]]
    OBVIOUS
  <1> HIDE DEF g, index
  <1>4. ASSUME NEW k \in 0 .. n PROVE g[k] = KeptStep(s, index, g, k)
    <2>1. CASE k = 0
      <3>1. g[k] \in Seq(Nat) /\ Len(g[k]) = 0
        BY <1>2, <2>1
      <3>2. g[k] = <<>>
        BY <3>1, EmptySeq
      <3> QED
        BY <2>1, <3>2 DEF KeptStep
    <2>2. CASE k = p
      <3>1. /\ k - 1 \in 0 .. n /\ k - 1 < p
        BY <2>2
      <3>2. g[k] \in Seq(Nat) /\ Len(g[k]) = k - 1
            /\ \A j \in 1 .. k - 1 : g[k][j] = s[j]
        BY <1>2, <2>2
      <3>3. g[k - 1] \in Seq(Nat) /\ Len(g[k - 1]) = k - 1
            /\ \A j \in 1 .. k - 1 : g[k - 1][j] = s[j]
        BY <1>2, <3>1
      <3>4. g[k] = g[k - 1]
        BY <3>2, <3>3, SameSequence
      <3>5. k # 0 /\ s[k] = index
        BY <1>1, <2>2
      <3> QED
        BY <3>4, <3>5 DEF KeptStep
    <2>3. CASE k # 0 /\ k # p
      <3> DEFINE m == k - 1
                 l == IF k < p THEN k ELSE k - 1
      <3>1. m \in 0 .. n /\ k \in 1 .. n /\ s[k] \in Nat /\ s[k] # index
        BY <1>1, <2>3
      <3>2. /\ g[k] \in Seq(Nat) /\ Len(g[k]) = l
            /\ \A j \in 1 .. l : g[k][j] = IF j < p THEN s[j] ELSE s[j + 1]
        BY <1>2, <2>3
      <3>3. /\ g[m] \in Seq(Nat) /\ Len(g[m]) = l - 1
            /\ \A j \in 1 .. l - 1 : g[m][j] = IF j < p THEN s[j] ELSE s[j + 1]
        BY <1>2, <2>3, <3>1
      <3>4. l \in 1 .. n /\ s[k] = IF l < p THEN s[l] ELSE s[l + 1]
        BY <2>3
      <3> HIDE DEF l, m
      <3>5. /\ Append(g[m], s[k]) \in Seq(Nat) /\ Len(Append(g[m], s[k])) = l
            /\ \A j \in 1 .. l : Append(g[m], s[k])[j] = IF j = l THEN s[k] ELSE g[m][j]
        BY <3>1, <3>3, <3>4, AppendElements
      <3>6. \A j \in 1 .. l : Append(g[m], s[k])[j] = g[k][j]
        BY <3>2, <3>3, <3>4, <3>5
      <3>7. g[k] = Append(g[m], s[k])
        BY <3>2, <3>5, <3>6, SameSequence
      <3> QED
        BY <2>3, <3>1, <3>7 DEF KeptStep, m
    <2> QED
      BY <2>1, <2>2, <2>3
  <1>5. IsKept(s, index, g)
    BY <1>1, <1>3, <1>4 DEF IsKept
  <1> DEFINE f == CHOOSE f : IsKept(s, index, f)
  <1>6. IsKept(s, index, f)
    BY <1>5
  <1>7. Without(s, index) = f[n]
    BY <1>1 DEF Without, IsKept, KeptStep
  <1> HIDE DEF f
  <1>8. f[n] = g[n]
    <2> DEFINE Bad == {k \in 0 .. n : f[k] # g[k]}
    <2>1. SUFFICES ASSUME Bad # {} PROVE FALSE
      OBVIOUS
    <2>2. PICK k \in Bad : \A j \in Bad : k <= j
      <3>1. Bad \in SUBSET Nat
        OBVIOUS
      <3> HIDE DEF Bad
      <3> QED
        BY <2>1, <3>1, LeastNumber
    <2>3. k \in 0 .. n /\ f[k] # g[k]
      OBVIOUS
    <2>4. f[k] = KeptStep(s, index, f, k) /\ g[k] = KeptStep(s, index, g, k)
      BY <1>1, <1>4, <1>6, <2>3 DEF IsKept
    <2>5. k # 0
      BY <2>3, <2>4 DEF KeptStep
    <2>6. k - 1 \in 0 .. n /\ ~(k <= k - 1)
      BY <2>3, <2>5
    <2>7. k - 1 \notin Bad
      <3> HIDE DEF Bad
      <3> QED
        BY <2>2, <2>6
    <2>8. f[k - 1] = g[k - 1]
      BY <2>6, <2>7
    <2> QED
      BY <2>3, <2>4, <2>8 DEF KeptStep
  <1>9. g[n] = RemoveAt(s, p)
    <2>1. /\ g[n] \in Seq(Nat) /\ Len(g[n]) = n - 1
          /\ \A j \in 1 .. n - 1 : g[n][j] = IF j < p THEN s[j] ELSE s[j + 1]
      BY <1>2
    <2>2. /\ RemoveAt(s, p) \in Seq(Nat) /\ Len(RemoveAt(s, p)) = n - 1
          /\ \A j \in 1 .. n - 1 : RemoveAt(s, p)[j] = IF j < p THEN s[j] ELSE s[j + 1]
      BY <1>1, RemoveAtElements
    <2>3. \A j \in 1 .. Len(g[n]) : g[n][j] = RemoveAt(s, p)[j]
      BY <2>1, <2>2
    <2>4. Len(g[n]) = Len(RemoveAt(s, p))
      BY <2>1, <2>2
    <2> QED
      BY <2>1, <2>2, <2>3, <2>4, SeqEqual
  <1> QED
    BY <1>7, <1>8, <1>9 DEF index

LEMMA RemovedOrder ==
  ASSUME NEW n \in Nat, NEW s, IsOrder(s, n), NEW p \in 1 .. n
  PROVE  LET others == Without(s, s[p])
             t      == [k \in DOMAIN others |-> ShiftDown(others[k], s[p])]
         IN /\ IsOrder(t, n - 1)
            /\ \A k \in 1 .. n - 1 :
                 t[k] = ShiftDown(IF k < p THEN s[k] ELSE s[k + 1], s[p])
  <1> DEFINE others == Without(s, s[p])
             t      == [k \in DOMAIN others |-> ShiftDown(others[k], s[p])]
             Of(k)  == IF k < p THEN k ELSE k + 1
             m      == n - 1
  <1>1. /\ s \in Seq(Nat) /\ Len(s) = n /\ \A k \in 1 .. n : s[k] \in 1 .. n
        /\ \A i, j \in 1 .. n : s[i] = s[j] => i = j
        /\ \A v \in 1 .. n : \E i \in 1 .. n : s[i] = v
    BY OrderElements DEF IsOrder
  <1>2. others = RemoveAt(s, p)
    BY WithoutRemoves
  <1> HIDE DEF others
  <1>3. /\ others \in Seq(Nat) /\ Len(others) = m
        /\ \A k \in 1 .. m : others[k] = IF k < p THEN s[k] ELSE s[k + 1]
    <2>1. s \in Seq(Nat) /\ p \in 1 .. Len(s)
      BY <1>1
    <2>2. RemoveAt(s, p) \in Seq(Nat)
      BY <2>1, RemoveAtElements
    <2>3. Len(RemoveAt(s, p)) = Len(s) - 1
      BY <2>1, RemoveAtElements
    <2>4. \A k \in 1 .. Len(s) - 1 : RemoveAt(s, p)[k] = IF k < p THEN s[k] ELSE s[k + 1]
      BY <2>1, RemoveAtElements
    <2> QED
      BY <1>1, <1>2, <2>2, <2>3, <2>4
  <1>4. DOMAIN others = 1 .. m
    BY <1>3
  <1>5. m \in Nat /\ n = m + 1 /\ \A k \in 1 .. m : Of(k) \in 1 .. n /\ Of(k) # p
    OBVIOUS
  <1>6. \A k \in 1 .. m : others[k] = s[Of(k)] /\ s[Of(k)] \in 1 .. n /\ s[Of(k)] # s[p]
    BY <1>1, <1>3, <1>5
  <1>7. \A i, j \in 1 .. m : Of(i) = Of(j) => i = j
    OBVIOUS
  <1>8. \A i \in 1 .. n : i # p => \E k \in 1 .. m : Of(k) = i
    <2> SUFFICES ASSUME NEW i \in 1 .. n, i # p PROVE \E k \in 1 .. m : Of(k) = i
      OBVIOUS
    <2>1. CASE i < p
      <3>1. i \in 1 .. m /\ Of(i) = i
        BY <2>1
      <3> QED
        BY <3>1
    <2>2. CASE i > p
      <3>1. i - 1 \in 1 .. m /\ Of(i - 1) = i
        BY <2>2
      <3> QED
        BY <3>1
    <2> QED
      BY <2>1, <2>2
  <1>9. \A k \in 1 .. m : t[k] = ShiftDown(s[Of(k)], s[p])
    BY <1>4, <1>6
  <1>10. t = [k \in 1 .. m |-> t[k]]
    BY <1>4
  <1>11. \A k \in 1 .. m : t[k] = ShiftDown(IF k < p THEN s[k] ELSE s[k + 1], s[p])
    BY <1>3, <1>4
  <1> HIDE DEF t, Of, m
  <1>12. \A k \in 1 .. m : t[k] \in 1 .. m
    <2> SUFFICES ASSUME NEW k \in 1 .. m PROVE t[k] \in 1 .. m
      OBVIOUS
    <2>1. s[Of(k)] \in 1 .. n /\ s[p] \in 1 .. n /\ s[Of(k)] # s[p] /\ t[k] = ShiftDown(s[Of(k)], s[p])
      BY <1>1, <1>6, <1>9
    <2> QED
      BY <1>5, <2>1 DEF ShiftDown
  <1>13. ASSUME NEW i \in 1 .. m, NEW j \in 1 .. m, t[i] = t[j] PROVE i = j
    <2>6. s[Of(i)] \in 1 .. n /\ s[Of(i)] # s[p] /\ t[i] = ShiftDown(s[Of(i)], s[p])
      BY <1>1, <1>6, <1>9
    <2>7. s[Of(j)] \in 1 .. n /\ s[Of(j)] # s[p] /\ t[j] = ShiftDown(s[Of(j)], s[p])
      BY <1>1, <1>6, <1>9
    <2>1. /\ s[Of(i)] \in 1 .. n /\ s[Of(j)] \in 1 .. n /\ s[p] \in 1 .. n
          /\ s[Of(i)] # s[p] /\ s[Of(j)] # s[p]
          /\ ShiftDown(s[Of(i)], s[p]) = ShiftDown(s[Of(j)], s[p])
      BY <1>1, <1>13, <2>6, <2>7
    <2>2. s[Of(i)] = s[Of(j)]
      BY <2>1 DEF ShiftDown
    <2>3. Of(i) = Of(j)
      BY <1>1, <1>5, <2>2
    <2> QED
      BY <1>7, <2>3
  <1>14. ASSUME NEW v \in 1 .. m PROVE \E k \in 1 .. m : t[k] = v
    <2> DEFINE w == IF v >= s[p] THEN v + 1 ELSE v
    <2>1. w \in 1 .. n /\ w # s[p] /\ ShiftDown(w, s[p]) = v
      <3>1. s[p] \in 1 .. n
        BY <1>1
      <3> QED
        BY <1>5, <3>1 DEF ShiftDown
    <2> HIDE DEF w
    <2>2. PICK i \in 1 .. n : s[i] = w
      BY <1>1, <2>1
    <2>3. PICK k \in 1 .. m : Of(k) = i
      BY <1>8, <2>1, <2>2
    <2> QED
      BY <1>9, <2>1, <2>2, <2>3
  <1>15. t \in [1 .. m -> 1 .. m]
    BY <1>10, <1>12
  <1>16. IsOrder(t, m)
    BY <1>5, <1>13, <1>14, <1>15, IsOrderOf
  <1> QED
    BY <1>11, <1>16 DEF t, m, others

LEMMA MovedOrder ==
  ASSUME NEW n \in Nat, NEW s, IsOrder(s, n), NEW from \in 1 .. n, NEW to \in 1 .. n
  PROVE  LET t == [k \in DOMAIN s |-> RemapAfterMove(s[k], from, to)] IN
         /\ IsOrder(t, n)
         /\ \A k \in 1 .. n : t[k] = RemapAfterMove(s[k], from, to)
  <1> DEFINE t == [k \in DOMAIN s |-> RemapAfterMove(s[k], from, to)]
  <1>1. /\ DOMAIN s = 1 .. n /\ \A k \in 1 .. n : s[k] \in 1 .. n
        /\ \A i, j \in 1 .. n : s[i] = s[j] => i = j
        /\ \A v \in 1 .. n : \E i \in 1 .. n : s[i] = v
    BY OrderElements DEF IsOrder
  <1>2. ASSUME NEW i \in 1 .. n
        PROVE  /\ RemapAfterMove(i, from, to) \in 1 .. n
               /\ RemapAfterMove(RemapAfterMove(i, from, to), to, from) = i
               /\ RemapAfterMove(RemapAfterMove(i, to, from), from, to) = i
               /\ RemapAfterMove(i, to, from) \in 1 .. n
    BY DEF RemapAfterMove
  <1>3. t \in [1 .. n -> 1 .. n] /\ \A k \in 1 .. n : t[k] = RemapAfterMove(s[k], from, to)
    BY <1>1, <1>2
  <1> HIDE DEF t
  <1>4. ASSUME NEW i \in 1 .. n, NEW j \in 1 .. n, t[i] = t[j] PROVE i = j
    <2>2. /\ s[i] \in 1 .. n /\ s[j] \in 1 .. n
          /\ RemapAfterMove(s[i], from, to) = RemapAfterMove(s[j], from, to)
      BY <1>1, <1>3, <1>4
    <2>3. /\ RemapAfterMove(RemapAfterMove(s[i], from, to), to, from) = s[i]
          /\ RemapAfterMove(RemapAfterMove(s[j], from, to), to, from) = s[j]
      BY <1>2, <2>2
    <2>1. s[i] = s[j]
      BY <2>2, <2>3
    <2> QED
      BY <1>1, <2>1
  <1>5. ASSUME NEW v \in 1 .. n PROVE \E i \in 1 .. n : t[i] = v
    <2>1. PICK i \in 1 .. n : s[i] = RemapAfterMove(v, to, from)
      BY <1>1, <1>2
    <2> QED
      BY <1>2, <1>3, <2>1
  <1>6. IsOrder(t, n)
    BY <1>3, <1>4, <1>5, IsOrderOf
  <1> QED
    BY <1>3, <1>6 DEF t

-----------------------------------------------------------------------------
\* Where an order plays a track.
LEMMA PositionFound ==
  ASSUME NEW n \in Nat, NEW s, IsOrder(s, n), NEW c \in 1 .. n
  PROVE  PositionOf(s, c) \in 1 .. n /\ s[PositionOf(s, c)] = c
  <1> DEFINE T == {i \in 1 .. Len(s) : s[i] = c}
  <1>1. Len(s) = n /\ \E i \in 1 .. n : s[i] = c
    BY DEF IsOrder
  <1>2. T \in SUBSET Nat /\ T # {}
    BY <1>1
  <1>3. PositionOf(s, c) = Min(T)
    BY <1>2 DEF PositionOf, SelectInSeq
  <1>4. Min(T) \in T
    <2> HIDE DEF T
    <2> QED
      BY <1>2, MinIsLeast
  <1> QED
    BY <1>1, <1>3, <1>4

-----------------------------------------------------------------------------
\* A queue whose order plays each of its tracks once and whose position is where
\* it plays the current one.
Queues ==
  [items : Seq(Items), order : Seq(Nat), current : Nat, position : Nat,
   shuffle : BOOLEAN, seed : Seeds, repeat : RepeatModes, threshold : Nat]

Sound(q) ==
  /\ q \in Queues
  /\ Len(q.items) <= MaxItems
  /\ IsOrder(q.order, Len(q.items))
  /\ q.current = 0 => q.position = 0
  /\ q.current # 0 => /\ q.position \in 1 .. Len(q.items)
                      /\ q.order[q.position] = q.current

Settings(q) == <<q.shuffle, q.seed, q.repeat, q.threshold>>

LEMMA SoundElements ==
  ASSUME NEW q, Sound(q)
  PROVE  /\ Len(q.items) \in Nat /\ MaxItems \in Nat
         /\ Len(q.order) = Len(q.items) /\ DOMAIN q.order = 1 .. Len(q.items)
         /\ DOMAIN q.items = 1 .. Len(q.items)
         /\ q.order \in Seq(Nat)
         /\ \A k \in 1 .. Len(q.items) : q.order[k] \in 1 .. Len(q.items)
         /\ q.current \in 0 .. Len(q.items) /\ q.position \in 0 .. Len(q.items)
         /\ q.current = 0 <=> q.position = 0
  <1>1. q.items \in Seq(Items) /\ Len(q.items) \in Nat /\ DOMAIN q.items = 1 .. Len(q.items)
    BY DEF Sound, Queues
  <1>2. IsOrder(q.order, Len(q.items))
    BY DEF Sound
  <1>3. /\ Len(q.order) = Len(q.items) /\ DOMAIN q.order = 1 .. Len(q.items)
        /\ q.order \in Seq(Nat)
        /\ \A k \in 1 .. Len(q.items) : q.order[k] \in 1 .. Len(q.items)
    BY <1>1, <1>2, OrderElements
  <1>4. q.current \in Nat /\ q.position \in Nat
    BY DEF Sound, Queues
  <1>5. q.current \in 0 .. Len(q.items) /\ q.position \in 0 .. Len(q.items) /\ (q.current = 0 <=> q.position = 0)
    BY <1>1, <1>3, <1>4 DEF Sound
  <1> QED
    BY <1>1, <1>3, <1>5, PlaybackQueueAssumption

LEMMA WithCurrentSound ==
  ASSUME NEW q \in Queues, Len(q.items) <= MaxItems,
         NEW order, IsOrder(order, Len(q.items)), NEW c \in 0 .. Len(q.items)
  PROVE  LET w == WithCurrent(q, order, c) IN
         /\ Sound(w)
         /\ w.items = q.items /\ w.order = order /\ w.current = c
         /\ w.position = PositionOf(order, c)
         /\ Settings(w) = Settings(q)
  <1> DEFINE w == WithCurrent(q, order, c)
  <1>1. Len(q.items) \in Nat
    BY DEF Queues
  <1>2. order \in Seq(Nat)
    BY <1>1, OrderElements
  <1>3. /\ c = 0 => PositionOf(order, c) = 0
        /\ c # 0 => /\ PositionOf(order, c) \in 1 .. Len(q.items)
                    /\ order[PositionOf(order, c)] = c
    <2>1. c = 0 => PositionOf(order, c) = 0
      BY DEF PositionOf
    <2>2. ASSUME c # 0
          PROVE  PositionOf(order, c) \in 1 .. Len(q.items) /\ order[PositionOf(order, c)] = c
      <3>1. c \in 1 .. Len(q.items)
        BY <2>2
      <3> QED
        BY <1>1, <3>1, PositionFound
    <2> QED
      BY <2>1, <2>2
  <1>4. PositionOf(order, c) \in Nat /\ c \in Nat
    BY <1>1, <1>3
  <1>5. /\ w.items = q.items /\ w.order = order /\ w.current = c
        /\ w.position = PositionOf(order, c)
        /\ w.shuffle = q.shuffle /\ w.seed = q.seed /\ w.repeat = q.repeat
        /\ w.threshold = q.threshold
    BY DEF WithCurrent, Queues
  <1>6. w \in Queues
    BY <1>2, <1>4 DEF WithCurrent, Queues
  <1> HIDE DEF w
  <1>7. Sound(w)
    BY <1>3, <1>5, <1>6 DEF Sound
  <1>8. Settings(w) = Settings(q)
    BY <1>5 DEF Settings
  <1> QED
    BY <1>5, <1>7, <1>8 DEF w

LEMMA OrderForIsOrder ==
  ASSUME NEW q \in Queues, Len(q.items) <= MaxItems
  PROVE  IsOrder(OrderFor(q), Len(q.items))
  <1>1. Len(q.items) \in 0 .. MaxItems /\ Len(q.items) \in Nat /\ q.seed \in Seeds
    BY PlaybackQueueAssumption DEF Queues
  <1> QED
    BY <1>1, ShuffledOrder, PlainOrder DEF OrderFor

LEMMA RebuildSound ==
  ASSUME NEW q \in Queues, Len(q.items) <= MaxItems, NEW c \in 0 .. Len(q.items)
  PROVE  /\ Rebuild(q, c) = [queue |-> WithCurrent(q, OrderFor(q), c), ok |-> TRUE]
         /\ Sound(WithCurrent(q, OrderFor(q), c))
  <1>1. c <= Len(q.items)
    BY DEF Queues
  <1>2. IsOrder(OrderFor(q), Len(q.items))
    BY OrderForIsOrder
  <1>3. Sound(WithCurrent(q, OrderFor(q), c))
    BY <1>2, WithCurrentSound
  <1> QED
    BY <1>1, <1>3 DEF Rebuild, Returns

LEMMA ReorderedSound ==
  ASSUME NEW q \in Queues, Len(q.items) <= MaxItems,
         NEW order, IsOrder(order, Len(q.items)), NEW c \in 0 .. Len(q.items)
  PROVE  LET r == Reordered(q, order, c) IN
         /\ r.ok /\ Sound(r.queue)
         /\ r.queue.items = q.items /\ r.queue.current = c
         /\ q.shuffle => r.queue.order = order
  <1>1. Sound(WithCurrent(q, order, c)) /\ WithCurrent(q, order, c).items = q.items
        /\ WithCurrent(q, order, c).current = c /\ WithCurrent(q, order, c).order = order
    BY WithCurrentSound
  <1>2. IsOrder(OrderFor(q), Len(q.items))
    BY OrderForIsOrder
  <1>3. /\ WithCurrent(q, OrderFor(q), c).items = q.items
        /\ WithCurrent(q, OrderFor(q), c).current = c
    BY <1>2, WithCurrentSound
  <1>4. /\ Rebuild(q, c) = [queue |-> WithCurrent(q, OrderFor(q), c), ok |-> TRUE]
        /\ Sound(WithCurrent(q, OrderFor(q), c))
    BY RebuildSound
  <1> QED
    BY <1>1, <1>3, <1>4 DEF Reordered, Returns

-----------------------------------------------------------------------------
\* The mutations: the queue they leave, and what has become of its tracks, its
\* current one and its turns.
LEMMA WithItems ==
  ASSUME NEW q \in Queues, NEW items \in Seq(Items)
  PROVE  LET r == [q EXCEPT !.items = items] IN
         /\ r \in Queues /\ r.items = items /\ r.order = q.order
         /\ r.current = q.current /\ r.position = q.position
         /\ r.shuffle = q.shuffle /\ r.seed = q.seed /\ r.repeat = q.repeat
         /\ r.threshold = q.threshold
BY DEF Queues

LEMMA AppendSound ==
  ASSUME NEW q, Sound(q), Len(q.items) < MaxItems, NEW item \in Items
  PROVE  LET r == AppendItem(q, item) IN
         /\ r.ok /\ Sound(r.queue)
         /\ r.queue.items = Append(q.items, item)
         /\ r.queue.current = q.current
         /\ q.shuffle => r.queue.order = Append(q.order, Len(q.items) + 1)
  <1> DEFINE items == Append(q.items, item)
             order == Append(q.order, Len(q.items) + 1)
             m     == [q EXCEPT !.items = items]
  <1>1. q \in Queues /\ q.items \in Seq(Items) /\ Len(q.items) \in Nat /\ MaxItems \in Nat
    BY SoundElements DEF Sound, Queues
  <1>2. items \in Seq(Items) /\ Len(items) = Len(q.items) + 1
    BY <1>1
  <1>3. IsOrder(order, Len(items))
    <2>1. IsOrder(q.order, Len(q.items))
      BY DEF Sound
    <2>2. IsOrder(order, Len(q.items) + 1)
      BY <1>1, <2>1, AppendedOrder
    <2> QED
      BY <1>2, <2>2
  <1>4. q.current \in 0 .. Len(items)
    BY <1>1, <1>2, SoundElements
  <1>5. AppendItem(q, item) = Reordered(m, order, q.current)
    BY DEF AppendItem
  <1> HIDE DEF items, order
  <1>6. m \in Queues /\ m.items = items /\ m.shuffle = q.shuffle
    BY <1>1, <1>2, WithItems
  <1> HIDE DEF m
  <1>7. Len(m.items) <= MaxItems
    BY <1>1, <1>2, <1>6
  <1> DEFINE r == Reordered(m, order, q.current)
  <1>8. /\ r.ok /\ Sound(r.queue) /\ r.queue.items = m.items /\ r.queue.current = q.current
        /\ m.shuffle => r.queue.order = order
    BY <1>3, <1>4, <1>6, <1>7, ReorderedSound
  <1> HIDE DEF r
  <1>9. /\ r.ok /\ Sound(r.queue) /\ r.queue.items = items /\ r.queue.current = q.current
        /\ q.shuffle => r.queue.order = order
    BY <1>6, <1>8
  <1> QED
    BY <1>5, <1>9 DEF r, items, order

LEMMA InsertSound ==
  ASSUME NEW q, Sound(q), Len(q.items) < MaxItems, NEW item \in Items,
         NEW index \in 1 .. Len(q.items) + 1
  PROVE  LET r == InsertItem(q, index, item) IN
         /\ r.ok /\ Sound(r.queue)
         /\ r.queue.items = InsertAt(q.items, index, item)
         /\ r.queue.current = ShiftUp(q.current, index)
         /\ q.shuffle =>
              r.queue.order = Append([k \in DOMAIN q.order |-> ShiftUp(q.order[k], index)], index)
  <1> DEFINE items == InsertAt(q.items, index, item)
             order == Append([k \in DOMAIN q.order |-> ShiftUp(q.order[k], index)], index)
             m     == [q EXCEPT !.items = items]
             c     == ShiftUp(q.current, index)
  <1>1. q \in Queues /\ q.items \in Seq(Items) /\ Len(q.items) \in Nat /\ MaxItems \in Nat
    BY SoundElements DEF Sound, Queues
  <1>2. items \in Seq(Items) /\ Len(items) = Len(q.items) + 1
    BY <1>1, InsertAtElements
  <1>3. IsOrder(order, Len(items))
    <2>1. IsOrder(q.order, Len(q.items))
      BY DEF Sound
    <2>2. IsOrder(order, Len(q.items) + 1)
      BY <1>1, <2>1, InsertedOrder
    <2> QED
      BY <1>2, <2>2
  <1>4. c \in 0 .. Len(items)
    BY <1>1, <1>2, SoundElements DEF ShiftUp
  <1>5. InsertItem(q, index, item) = Reordered(m, order, c)
    <2>1. ~(index > Len(q.items) + 1)
      BY <1>1
    <2> QED
      BY <2>1, Zenon DEF InsertItem
  <1> HIDE DEF items, order, c
  <1>6. m \in Queues /\ m.items = items /\ m.shuffle = q.shuffle
    BY <1>1, <1>2, WithItems
  <1> HIDE DEF m
  <1>7. Len(m.items) <= MaxItems
    BY <1>1, <1>2, <1>6
  <1> DEFINE r == Reordered(m, order, c)
  <1>8. /\ r.ok /\ Sound(r.queue) /\ r.queue.items = m.items /\ r.queue.current = c
        /\ m.shuffle => r.queue.order = order
    BY <1>3, <1>4, <1>6, <1>7, ReorderedSound
  <1> HIDE DEF r
  <1>9. /\ r.ok /\ Sound(r.queue) /\ r.queue.items = items /\ r.queue.current = c
        /\ q.shuffle => r.queue.order = order
    BY <1>6, <1>8
  <1> QED
    BY <1>5, <1>9 DEF r, items, order, c

\* The track that is current after the removal of one.
AfterRemoval(q, index) ==
  LET length == Len(q.items) - 1 IN
  IF length = 0              THEN 0
  ELSE IF q.current = index  THEN IF index <= length THEN index ELSE length
  ELSE ShiftDown(q.current, index)

LEMMA RemoveSound ==
  ASSUME NEW q, Sound(q), NEW p \in 1 .. Len(q.items)
  PROVE  LET r      == RemoveItem(q, q.order[p])
             others == Without(q.order, q.order[p])
         IN
         /\ r.ok /\ Sound(r.queue)
         /\ r.queue.items = RemoveAt(q.items, q.order[p])
         /\ r.queue.current = AfterRemoval(q, q.order[p])
         /\ q.shuffle =>
              r.queue.order = [k \in DOMAIN others |-> ShiftDown(others[k], q.order[p])]
  <1> DEFINE index  == q.order[p]
             others == Without(q.order, index)
             items  == RemoveAt(q.items, index)
             order  == [k \in DOMAIN others |-> ShiftDown(others[k], index)]
             m      == [q EXCEPT !.items = items]
             c      == AfterRemoval(q, index)
  <1>1. /\ q \in Queues /\ q.items \in Seq(Items) /\ Len(q.items) \in Nat /\ MaxItems \in Nat
        /\ index \in 1 .. Len(q.items) /\ q.current \in 0 .. Len(q.items)
    BY SoundElements DEF Sound, Queues
  <1>2. items \in Seq(Items) /\ Len(items) = Len(q.items) - 1
    BY <1>1, RemoveAtElements
  <1>3. IsOrder(order, Len(items))
    <2>1. IsOrder(q.order, Len(q.items))
      BY DEF Sound
    <2>2. IsOrder(order, Len(q.items) - 1)
      BY <1>1, <2>1, RemovedOrder
    <2> QED
      BY <1>2, <2>2
  <1>4. c \in 0 .. Len(items)
    <2> HIDE DEF index, items
    <2> QED
      BY <1>1, <1>2 DEF AfterRemoval, ShiftDown
  <1>5. RemoveItem(q, index) = Reordered(m, order, c)
    <2> DEFINE length == Len(m.items)
               now == IF length = 0 THEN 0
                      ELSE IF q.current = index THEN Min({index, length})
                      ELSE ShiftDown(q.current, index)
    <2>1. ~(index > Len(q.items))
      BY <1>1
    <2>2. RemoveItem(q, index) = Reordered(m, order, now)
      BY <2>1 DEF RemoveItem
    <2>3. m.items = items
      <3> HIDE DEF items
      <3> QED
        BY <1>1, <1>2, WithItems
    <2>4. length = Len(q.items) - 1
      BY <1>2, <2>3
    <2>5. Min({index, length}) = IF index <= length THEN index ELSE length
      <3> HIDE DEF index, length
      <3>1. {index, length} \in SUBSET Nat /\ {index, length} # {}
        BY <1>1, <2>4
      <3>2. /\ Min({index, length}) \in {index, length}
            /\ Min({index, length}) <= index /\ Min({index, length}) <= length
        BY <3>1, MinIsLeast
      <3> QED
        BY <1>1, <2>4, <3>2
    <2> HIDE DEF length, index, m, order
    <2>6. now = c
      BY <2>4, <2>5 DEF AfterRemoval
    <2> HIDE DEF now
    <2> QED
      BY <2>2, <2>6
  <1> HIDE DEF items, order, c, index
  <1>6. m \in Queues /\ m.items = items /\ m.shuffle = q.shuffle
    BY <1>1, <1>2, WithItems
  <1> HIDE DEF m
  <1>7. Len(m.items) <= MaxItems
    BY <1>1, <1>2, <1>6 DEF Sound
  <1> QED
    BY <1>3, <1>4, <1>5, <1>6, <1>7, ReorderedSound DEF items, order, c, index, others

LEMMA MoveSound ==
  ASSUME NEW q, Sound(q), NEW from \in 1 .. Len(q.items), NEW to \in 1 .. Len(q.items),
         from # to
  PROVE  LET r == MoveItem(q, from, to) IN
         /\ r.ok /\ Sound(r.queue)
         /\ r.queue.items = InsertAt(RemoveAt(q.items, from), to, q.items[from])
         /\ r.queue.current = (IF q.current = 0 THEN 0 ELSE RemapAfterMove(q.current, from, to))
         /\ q.shuffle =>
              r.queue.order = [k \in DOMAIN q.order |-> RemapAfterMove(q.order[k], from, to)]
  <1> DEFINE items == InsertAt(RemoveAt(q.items, from), to, q.items[from])
             order == [k \in DOMAIN q.order |-> RemapAfterMove(q.order[k], from, to)]
             m     == [q EXCEPT !.items = items]
             c     == IF q.current = 0 THEN 0 ELSE RemapAfterMove(q.current, from, to)
  <1>1. /\ q \in Queues /\ q.items \in Seq(Items) /\ Len(q.items) \in Nat /\ MaxItems \in Nat
        /\ q.current \in 0 .. Len(q.items) /\ Len(q.items) <= MaxItems
    BY SoundElements DEF Sound, Queues
  <1>2. items \in Seq(Items) /\ Len(items) = Len(q.items)
    <2> DEFINE left == RemoveAt(q.items, from)
    <2>1. left \in Seq(Items) /\ Len(left) = Len(q.items) - 1
      BY <1>1, RemoveAtElements
    <2> HIDE DEF left
    <2>2. to \in 1 .. Len(left) + 1 /\ q.items[from] \in Items
      BY <1>1, <2>1
    <2>3. InsertAt(left, to, q.items[from]) \in Seq(Items)
          /\ Len(InsertAt(left, to, q.items[from])) = Len(left) + 1
      BY <2>1, <2>2, InsertAtElements
    <2> QED
      BY <1>1, <2>1, <2>3 DEF left
  <1>3. IsOrder(order, Len(items))
    <2>1. IsOrder(q.order, Len(q.items))
      BY DEF Sound
    <2>2. IsOrder(order, Len(q.items))
      BY <1>1, <2>1, MovedOrder
    <2> QED
      BY <1>2, <2>2
  <1>4. c \in 0 .. Len(items)
    BY <1>1, <1>2 DEF RemapAfterMove
  <1>5. MoveItem(q, from, to) = Reordered(m, order, c)
    <2>1. ~(from > Len(q.items)) /\ ~(to > Len(q.items)) /\ from # to
      BY <1>1
    <2> QED
      BY <2>1, Zenon DEF MoveItem
  <1> HIDE DEF items, order, c
  <1>6. m \in Queues /\ m.items = items /\ m.shuffle = q.shuffle
    BY <1>1, <1>2, WithItems
  <1> HIDE DEF m
  <1>7. Len(m.items) <= MaxItems
    BY <1>1, <1>2, <1>6
  <1> DEFINE r == Reordered(m, order, c)
  <1>8. /\ r.ok /\ Sound(r.queue) /\ r.queue.items = m.items /\ r.queue.current = c
        /\ m.shuffle => r.queue.order = order
    BY <1>3, <1>4, <1>6, <1>7, ReorderedSound
  <1> HIDE DEF r
  <1>9. /\ r.ok /\ Sound(r.queue) /\ r.queue.items = items /\ r.queue.current = c
        /\ q.shuffle => r.queue.order = order
    BY <1>6, <1>8
  <1> QED
    BY <1>5, <1>9 DEF r, items, order, c

-----------------------------------------------------------------------------
\* The rest of the calls: what rebuilds the order, and the moves along it.
LEMMA FromItemsSound ==
  ASSUME NEW q \in Queues, NEW items \in Seq(Items), Len(items) <= MaxItems,
         NEW c \in Nat, c <= Len(items)
  PROVE  Sound(ReplaceItems(q, items, c).queue)
  <1> DEFINE m == [q EXCEPT !.items = items]
  <1>1. m \in Queues /\ m.items = items
    BY WithItems
  <1>2. c \in 0 .. Len(m.items)
    BY <1>1
  <1>3. ReplaceItems(q, items, c) = Rebuild(m, c)
    BY DEF ReplaceItems
  <1> HIDE DEF m
  <1> QED
    BY <1>1, <1>2, <1>3, RebuildSound

LEMMA ShuffleSound ==
  ASSUME NEW q, Sound(q), NEW on \in BOOLEAN, NEW seed \in Seeds
  PROVE  LET m == [q EXCEPT !.shuffle = on, !.seed = seed]
             r == SetShuffle(q, on, seed)
         IN /\ r.ok /\ Sound(r.queue)
            /\ r.queue.items = q.items /\ r.queue.current = q.current
            /\ r.queue.shuffle = on /\ r.queue.seed = seed
            /\ r.queue.repeat = q.repeat
  <1> DEFINE m == [q EXCEPT !.shuffle = on, !.seed = seed]
             w == WithCurrent(m, OrderFor(m), q.current)
  <1>1. q \in Queues /\ q.current \in 0 .. Len(q.items) /\ Len(q.items) <= MaxItems
    BY SoundElements DEF Sound
  <1>2. m \in Queues /\ m.items = q.items /\ m.shuffle = on /\ m.seed = seed /\ m.repeat = q.repeat
    BY <1>1 DEF Queues
  <1>3. SetShuffle(q, on, seed) = Rebuild(m, q.current)
    BY DEF SetShuffle
  <1> HIDE DEF m
  <1>4. Rebuild(m, q.current) = [queue |-> w, ok |-> TRUE] /\ Sound(w)
    BY <1>1, <1>2, RebuildSound
  <1>5. w.items = m.items /\ w.current = q.current /\ Settings(w) = Settings(m)
    <2>1. IsOrder(OrderFor(m), Len(m.items))
      BY <1>1, <1>2, OrderForIsOrder
    <2> QED
      BY <1>1, <1>2, <2>1, WithCurrentSound
  <1>6. w.shuffle = m.shuffle /\ w.seed = m.seed /\ w.repeat = m.repeat
    BY <1>5 DEF Settings
  <1> HIDE DEF w
  <1> QED
    BY <1>2, <1>3, <1>4, <1>5, <1>6

LEMMA AtSound ==
  ASSUME NEW q, Sound(q), NEW place \in 1 .. Len(q.items)
  PROVE  /\ Sound(At(q, place))
         /\ At(q, place).items = q.items /\ At(q, place).order = q.order
         /\ At(q, place).position = place /\ At(q, place).current = q.order[place]
         /\ Settings(At(q, place)) = Settings(q)
  <1> DEFINE a == At(q, place)
             c == q.order[place]
  <1>1. c \in 1 .. Len(q.items) /\ Len(q.items) \in Nat
    BY SoundElements
  <1>2. q \in Queues
    BY DEF Sound
  <1>3. a = [q EXCEPT !.position = place, !.current = c]
    BY DEF At
  <1> HIDE DEF c
  <1>4. /\ a.items = q.items /\ a.order = q.order /\ a.position = place /\ a.current = c
        /\ a.shuffle = q.shuffle /\ a.seed = q.seed /\ a.repeat = q.repeat
        /\ a.threshold = q.threshold
    BY <1>2, <1>3 DEF Queues
  <1>5. a \in Queues
    <2>1. c \in Nat /\ place \in Nat
      BY <1>1
    <2> HIDE DEF a
    <2> QED
      BY <1>2, <1>3, <2>1 DEF Queues
  <1> HIDE DEF a
  <1>6. a.order[a.position] = a.current
    BY <1>4 DEF c
  <1>7. Sound(a)
    BY <1>1, <1>4, <1>5, <1>6 DEF Sound
  <1>8. Settings(a) = Settings(q)
    BY <1>4 DEF Settings
  <1> QED
    BY <1>4, <1>7, <1>8 DEF a, c

LEMMA FirstSound ==
  ASSUME NEW q, Sound(q)
  PROVE  Sound(First(q).queue)
  <1>1. CASE q.order = <<>>
    <2> DEFINE a == [q EXCEPT !.position = 0, !.current = 0]
    <2>1. First(q).queue = a
      BY <1>1 DEF First, Stays
    <2>2. q \in Queues
      BY DEF Sound
    <2>3. a \in Queues /\ a.items = q.items /\ a.order = q.order /\ a.current = 0 /\ a.position = 0
      BY <2>2 DEF Queues
    <2> HIDE DEF a
    <2>4. Sound(a)
      BY <2>3 DEF Sound
    <2> QED
      BY <2>1, <2>4
  <1>2. CASE q.order # <<>>
    <2>1. First(q).queue = At(q, 1)
      BY <1>2 DEF First, Moves
    <2>2. Len(q.order) # 0
      BY <1>2, SoundElements, EmptySeq
    <2>3. 1 \in 1 .. Len(q.items)
      BY <2>2, SoundElements
    <2> QED
      BY <2>1, <2>3, AtSound
  <1> QED
    BY <1>1, <1>2

LEMMA SelectSound ==
  ASSUME NEW q, Sound(q), NEW index \in 1 .. Len(q.items)
  PROVE  Sound(Select(q, index).queue)
  <1>1. q \in Queues /\ Len(q.items) <= MaxItems /\ IsOrder(q.order, Len(q.items))
    BY DEF Sound
  <1>2. index \in 0 .. Len(q.items)
    BY SoundElements
  <1>3. Sound(WithCurrent(q, q.order, index))
    BY <1>1, <1>2, WithCurrentSound
  <1> QED
    BY <1>3 DEF Select, Moves

LEMMA AdvanceSound ==
  ASSUME NEW q, Sound(q), NEW reason
  PROVE  Sound(AdvanceNext(q, reason).queue)
  <1>1. /\ Len(q.items) \in Nat /\ Len(q.order) = Len(q.items)
        /\ q.position \in 0 .. Len(q.items)
    BY SoundElements
  <1>2. CASE q.position = 0
    BY <1>2, FirstSound DEF AdvanceNext
  <1>3. CASE q.position # 0
    <2>1. 1 \in 1 .. Len(q.items)
      BY <1>1, <1>3
    <2>2. q.position < Len(q.order) => q.position + 1 \in 1 .. Len(q.items)
      BY <1>1, <1>3
    <2>3. Sound(At(q, 1)) /\ (q.position < Len(q.order) => Sound(At(q, q.position + 1)))
      BY <2>1, <2>2, AtSound
    <2> QED
      BY <1>3, <2>3 DEF AdvanceNext, Moves, Stays
  <1> QED
    BY <1>2, <1>3

LEMMA PreviousSound ==
  ASSUME NEW q, Sound(q), NEW pos \in Nat
  PROVE  Sound(Previous(q, pos).queue)
  <1>1. /\ Len(q.items) \in Nat /\ Len(q.order) = Len(q.items)
        /\ q.position \in 0 .. Len(q.items)
    BY SoundElements
  <1>2. CASE q.position = 0
    BY <1>2 DEF Previous, Stays
  <1>3. CASE q.position # 0
    <2>1. Len(q.order) \in 1 .. Len(q.items)
      BY <1>1, <1>3
    <2>2. q.position > 1 => q.position - 1 \in 1 .. Len(q.items)
      BY <1>1, <1>3
    <2>3. Sound(At(q, Len(q.order))) /\ (q.position > 1 => Sound(At(q, q.position - 1)))
      BY <2>1, <2>2, AtSound
    <2> QED
      BY <1>3, <2>3 DEF Previous, Moves, Stays
  <1> QED
    BY <1>2, <1>3

LEMMA SettingSound ==
  ASSUME NEW q, Sound(q), NEW mode \in RepeatModes, NEW pos \in Nat
  PROVE  Sound(SetRepeat(q, mode)) /\ Sound(SetThreshold(q, pos))
  <1>1. q \in Queues
    BY DEF Sound
  <1> DEFINE r == SetRepeat(q, mode)
             t == SetThreshold(q, pos)
  <1>2. /\ r \in Queues /\ r.items = q.items /\ r.order = q.order
        /\ r.current = q.current /\ r.position = q.position
    BY <1>1 DEF SetRepeat, Queues
  <1>3. /\ t \in Queues /\ t.items = q.items /\ t.order = q.order
        /\ t.current = q.current /\ t.position = q.position
    BY <1>1 DEF SetThreshold, Queues
  <1> HIDE DEF r, t
  <1>4. Sound(r) /\ Sound(t)
    BY <1>2, <1>3 DEF Sound
  <1> QED
    BY <1>4 DEF r, t
-----------------------------------------------------------------------------
\* Every call keeps the queue sound, as long as Replace is given an index inside
\* the tracks it is given.
LEMMA SeqOfItems ==
  ASSUME NEW items \in SeqOf(Items, MaxItems)
  PROVE  items \in Seq(Items) /\ Len(items) \in Nat /\ Len(items) <= MaxItems
  <1>1. PICK m \in 0 .. MaxItems : items \in [1 .. m -> Items]
    BY DEF SeqOf
  <1> QED
    BY <1>1, PlaybackQueueAssumption

LEMMA InitSound == Init => Sound(queue)
  <1> SUFFICES ASSUME Init PROVE Sound(queue)
    OBVIOUS
  <1>1. PICK items \in SeqOf(Items, MaxItems), current \in Indexes :
          current <= Len(items) /\ queue = FromItems(items, current)
    BY DEF Init
  <1>2. current \in Nat
    BY PlaybackQueueAssumption DEF Indexes
  <1>3. NewQueue \in Queues
    BY PlaybackQueueAssumption DEF NewQueue, Queues, RepeatModes
  <1> QED
    BY <1>1, <1>2, <1>3, SeqOfItems, FromItemsSound DEF FromItems

LEMMA NextSound ==
  ASSUME CheckedReplace, Sound(queue), Next
  PROVE  Sound(queue')
  <1>1. /\ queue \in Queues /\ Len(queue.items) \in Nat /\ MaxItems \in Nat
        /\ Len(queue.items) <= MaxItems /\ queue.current \in 0 .. Len(queue.items)
    BY SoundElements DEF Sound
  <1>2. ASSUME NEW items \in SeqOf(Items, MaxItems), NEW current \in Indexes,
               Replace(items, current)
        PROVE  Sound(queue')
    <2>1. current \in Nat
      BY PlaybackQueueAssumption DEF Indexes
    <2>2. current <= Len(items) /\ queue' = ReplaceItems(queue, items, current).queue
      BY <1>2 DEF Replace, Answered
    <2> QED
      BY <1>1, <2>1, <2>2, SeqOfItems, FromItemsSound
  <1>3. ASSUME NEW item \in Items, AppendCall(item) PROVE Sound(queue')
    BY <1>1, <1>3, AppendSound DEF AppendCall, Room, Answered
  <1>4. ASSUME NEW index \in 1 .. MaxItems + 1, NEW item \in Items,
               InsertCall(index, item)
        PROVE  Sound(queue')
    <2>1. Len(queue.items) < MaxItems /\ queue' = InsertItem(queue, index, item).queue
      BY <1>4 DEF InsertCall, Room, Answered
    <2>2. CASE index > Len(queue.items) + 1
      BY <2>1, <2>2 DEF InsertItem, Returns
    <2>3. CASE index <= Len(queue.items) + 1
      <3>1. index \in 1 .. Len(queue.items) + 1
        BY <1>1, <2>3
      <3> QED
        BY <2>1, <3>1, InsertSound
    <2> QED
      BY <1>1, <2>2, <2>3
  <1>5. ASSUME NEW index \in Places, RemoveCall(index) PROVE Sound(queue')
    <2>1. queue' = RemoveItem(queue, index).queue /\ index \in Nat \ {0}
      BY <1>5 DEF RemoveCall, Answered, Places
    <2>2. CASE index > Len(queue.items)
      BY <2>1, <2>2 DEF RemoveItem, Returns
    <2>3. CASE index <= Len(queue.items)
      <3>1. PICK p \in 1 .. Len(queue.items) : queue.order[p] = index
        <4>1. index \in 1 .. Len(queue.items)
          BY <1>1, <2>1, <2>3
        <4>2. IsOrder(queue.order, Len(queue.items))
          BY DEF Sound
        <4> QED
          BY <4>1, <4>2 DEF IsOrder
      <3> QED
        BY <2>1, <3>1, RemoveSound
    <2> QED
      BY <1>1, <2>1, <2>2, <2>3
  <1>6. ASSUME NEW from \in Places, NEW to \in Places, MoveCall(from, to)
        PROVE  Sound(queue')
    <2>1. queue' = MoveItem(queue, from, to).queue /\ from \in Nat \ {0} /\ to \in Nat \ {0}
      BY <1>6 DEF MoveCall, Answered, Places
    <2>2. CASE from > Len(queue.items) \/ to > Len(queue.items) \/ from = to
      BY <2>1, <2>2 DEF MoveItem, Returns
    <2>3. CASE from <= Len(queue.items) /\ to <= Len(queue.items) /\ from # to
      <3>1. from \in 1 .. Len(queue.items) /\ to \in 1 .. Len(queue.items)
        BY <1>1, <2>1, <2>3
      <3> QED
        BY <2>1, <2>3, <3>1, MoveSound
    <2> QED
      BY <1>1, <2>1, <2>2, <2>3
  <1>7. ASSUME NEW index \in Places, SelectCall(index) PROVE Sound(queue')
    <2>1. CASE index > Len(queue.items)
      BY <1>7, <2>1 DEF SelectCall, Answered, Returns
    <2>2. CASE ~(index > Len(queue.items))
      <3>1. queue' = Select(queue, index).queue
        BY <1>7, <2>2 DEF SelectCall, Told
      <3>2. index \in 1 .. Len(queue.items)
        BY <1>1, <2>2 DEF Places
      <3> QED
        BY <3>1, <3>2, SelectSound
    <2> QED
      BY <2>1, <2>2
  <1>8. ASSUME FirstCall PROVE Sound(queue')
    BY <1>8, FirstSound DEF FirstCall, Told
  <1>9. ASSUME NEW reason \in AdvanceReasons, AdvanceCall(reason) PROVE Sound(queue')
    BY <1>9, AdvanceSound DEF AdvanceCall, Told
  <1>10. ASSUME NEW pos \in Positions, PreviousCall(pos) PROVE Sound(queue')
    BY <1>10, PreviousSound, QueueCallsAssumption DEF PreviousCall, Told
  <1>11. ASSUME NEW on \in BOOLEAN, NEW seed \in Seeds, ShuffleCall(on, seed)
         PROVE  Sound(queue')
    BY <1>11, ShuffleSound DEF ShuffleCall, Answered
  <1>12. ASSUME NEW mode \in RepeatModes, RepeatCall(mode) PROVE Sound(queue')
    <2>1. queue' = SetRepeat(queue, mode)
      BY <1>12 DEF RepeatCall, Answered, Returns
    <2> QED
      BY <1>1, <2>1, SettingSound
  <1>13. ASSUME NEW pos \in Positions, ThresholdCall(pos) PROVE Sound(queue')
    <2>1. queue' = SetThreshold(queue, pos) /\ pos \in Nat
      BY <1>13, QueueCallsAssumption DEF ThresholdCall, Answered, Returns
    <2>2. "Off" \in RepeatModes
      BY DEF RepeatModes
    <2> QED
      BY <2>1, <2>2, SettingSound
  <1> QED
    BY <1>2, <1>3, <1>4, <1>5, <1>6, <1>7, <1>8, <1>9, <1>10, <1>11, <1>12, <1>13
       DEF Next

-----------------------------------------------------------------------------
\* What a sound queue plays.
LEMMA SoundIsPermutation ==
  ASSUME Sound(queue)
  PROVE  OrderIsPermutation
  <1> DEFINE n == Len(queue.items)
  <1>1. /\ Len(queue.order) = n /\ DOMAIN queue.order = 1 .. n /\ DOMAIN queue.items = 1 .. n
        /\ \A k \in 1 .. n : queue.order[k] \in 1 .. n
        /\ queue.current = 0 => queue.position = 0
        /\ queue.current # 0 => queue.position \in 1 .. n /\ queue.order[queue.position] = queue.current
    BY SoundElements DEF Sound
  <1>2. \A v \in 1 .. n : \E i \in 1 .. n : queue.order[i] = v
    BY DEF Sound, IsOrder
  <1> HIDE DEF n
  <1>3. Range(queue.order) = DOMAIN queue.items
    BY <1>1, <1>2 DEF Range
  <1> QED
    BY <1>1, <1>3 DEF OrderIsPermutation, n

LEMMA SameQueue ==
  ASSUME NEW q \in Queues, NEW r \in Queues,
         q.items = r.items, q.order = r.order, q.current = r.current,
         q.position = r.position, Settings(q) = Settings(r)
  PROVE  q = r
BY DEF Queues, Settings

LEMMA AtAgain ==
  ASSUME NEW q, Sound(q), NEW i \in 1 .. Len(q.items), NEW j \in 1 .. Len(q.items)
  PROVE  At(At(q, i), j) = At(q, j)
  <1> DEFINE a == At(q, i)
             b == At(q, j)
             c == At(a, j)
  <1>1. /\ Sound(a) /\ a.items = q.items /\ a.order = q.order /\ Settings(a) = Settings(q)
    BY AtSound
  <1>2. /\ Sound(b) /\ b.items = q.items /\ b.order = q.order /\ Settings(b) = Settings(q)
        /\ b.position = j /\ b.current = q.order[j]
    BY AtSound
  <1> HIDE DEF a
  <1>3. j \in 1 .. Len(a.items)
    BY <1>1
  <1>4. /\ Sound(c) /\ c.items = a.items /\ c.order = a.order /\ Settings(c) = Settings(a)
        /\ c.position = j /\ c.current = a.order[j]
    BY <1>1, <1>3, AtSound
  <1> HIDE DEF b, c
  <1>5. b \in Queues /\ c \in Queues
    BY <1>2, <1>4 DEF Sound
  <1>6. c = b
    BY <1>1, <1>2, <1>4, <1>5, SameQueue
  <1> QED
    BY <1>6 DEF a, b, c

\* The queue after k tracks have been played.
PlayedStep(g, k) ==
  IF k = 1 THEN First(queue).queue ELSE AdvanceNext(g[k - 1], "Completed").queue

IsPlayed(n, g) == g = [k \in 1 .. n |-> PlayedStep(g, k)]

LEMMA PlayedAre ==
  ASSUME Sound(queue), queue.repeat # "One",
         NEW n, n = Len(queue.items), n > 0,
         NEW f, IsPlayed(n, f)
  PROVE  \A k \in 1 .. n : f[k] = At(queue, k)
  <1>1. /\ n \in Nat /\ Len(queue.order) = n /\ queue \in Queues
    BY SoundElements DEF Sound
  <1>2. \A k \in 1 .. n : f[k] = PlayedStep(f, k)
    BY DEF IsPlayed
  <1> DEFINE Bad == {k \in 1 .. n : f[k] # At(queue, k)}
  <1>3. SUFFICES ASSUME Bad # {} PROVE FALSE
    OBVIOUS
  <1>4. PICK k \in Bad : \A j \in Bad : k <= j
    <2>1. Bad \in SUBSET Nat
      BY <1>1
    <2> HIDE DEF Bad
    <2> QED
      BY <1>3, <2>1, LeastNumber
  <1>5. k \in 1 .. n /\ f[k] # At(queue, k)
    OBVIOUS
  <1>6. CASE k = 1
    <2>1. queue.order # <<>>
      BY <1>1, EmptySeq
    <2>2. First(queue).queue = At(queue, 1)
      BY <2>1 DEF First, Moves
    <2> QED
      BY <1>2, <1>5, <1>6, <2>2 DEF PlayedStep
  <1>7. CASE k # 1
    <2> DEFINE i == k - 1
               a == At(queue, i)
    <2>1. i \in 1 .. n /\ ~(k <= i) /\ i + 1 = k
      BY <1>1, <1>5, <1>7
    <2>2. i \notin Bad
      <3> HIDE DEF Bad, i
      <3> QED
        BY <1>4, <2>1
    <2>3. f[i] = a
      BY <2>1, <2>2
    <2> HIDE DEF i
    <2>4. /\ a.position = i /\ a.order = queue.order /\ Settings(a) = Settings(queue)
      BY <2>1, AtSound
    <2>5. a.repeat # "One"
      <3> HIDE DEF a
      <3> QED
        BY <2>4 DEF Settings
    <2> HIDE DEF a
    <2>6. a.position # 0 /\ a.position < Len(a.order) /\ a.position + 1 = k
      BY <1>1, <1>5, <2>1, <2>4
    <2>7. AdvanceNext(a, "Completed").queue = At(a, k)
      BY <2>5, <2>6 DEF AdvanceNext, Moves
    <2>8. At(a, k) = At(queue, k)
      BY <1>5, <2>1, AtAgain DEF a
    <2>9. f[k] = AdvanceNext(f[k - 1], "Completed").queue
      BY <1>2, <1>5, <1>7 DEF PlayedStep
    <2> QED
      BY <1>5, <2>3, <2>7, <2>8, <2>9 DEF i
  <1> QED
    BY <1>6, <1>7

LEMMA PlayedExists ==
  ASSUME Sound(queue), queue.repeat # "One", NEW n, n = Len(queue.items), n > 0
  PROVE  \E f : IsPlayed(n, f)
  <1> DEFINE f == [k \in 1 .. n |-> At(queue, k)]
  <1>1. /\ n \in Nat /\ Len(queue.order) = n /\ queue \in Queues
    BY SoundElements DEF Sound
  <1>2. ASSUME NEW k \in 1 .. n PROVE f[k] = PlayedStep(f, k)
    <2>1. CASE k = 1
      <3>1. queue.order # <<>>
        BY <1>1, EmptySeq
      <3> QED
        BY <2>1, <3>1 DEF PlayedStep, First, Moves
    <2>2. CASE k # 1
      <3> DEFINE i == k - 1
                 a == At(queue, i)
      <3>1. i \in 1 .. n /\ i + 1 = k
        BY <1>1, <2>2
      <3>2. f[i] = a
        BY <3>1
      <3> HIDE DEF f, i
      <3>3. /\ a.position = i /\ a.order = queue.order /\ Settings(a) = Settings(queue)
        BY <3>1, AtSound
      <3> HIDE DEF a
      <3>4. a.repeat # "One"
        BY <3>3 DEF Settings
      <3>5. a.position # 0 /\ a.position < Len(a.order) /\ a.position + 1 = k
        BY <1>1, <3>1, <3>3
      <3>6. AdvanceNext(a, "Completed").queue = At(a, k)
        BY <3>4, <3>5 DEF AdvanceNext, Moves
      <3>7. At(a, k) = At(queue, k)
        BY <3>1, AtAgain DEF a
      <3>8. f[k] = At(queue, k)
        BY DEF f
      <3> QED
        BY <2>2, <3>2, <3>6, <3>7, <3>8 DEF PlayedStep, i
    <2> QED
      BY <2>1, <2>2
  <1>3. f = [k \in 1 .. n |-> f[k]]
    OBVIOUS
  <1> HIDE DEF f
  <1>4. IsPlayed(n, f)
    BY <1>2, <1>3 DEF IsPlayed
  <1> QED
    BY <1>4

LEMMA EachIsPlayed ==
  ASSUME Sound(queue), queue.repeat # "One", NEW n, n = Len(queue.items), n > 0,
         NEW f, IsPlayed(n, f)
  PROVE  /\ {f[k].current : k \in 1 .. n} = DOMAIN queue.items
         /\ AdvanceNext(f[n], "Completed").transition.kind =
              IF queue.repeat = "All" THEN "Selected" ELSE "Ended"
  <1>1. /\ n \in Nat /\ Len(queue.order) = n /\ DOMAIN queue.items = 1 .. n
        /\ \A k \in 1 .. n : queue.order[k] \in 1 .. n
    BY SoundElements
  <1>2. \A v \in 1 .. n : \E i \in 1 .. n : queue.order[i] = v
    BY DEF Sound, IsOrder
  <1>3. ASSUME NEW k \in 1 .. n
        PROVE  /\ f[k].current = queue.order[k] /\ f[k].position = k
               /\ f[k].order = queue.order /\ f[k].items = queue.items
               /\ Settings(f[k]) = Settings(queue) /\ Sound(f[k])
    BY PlayedAre, AtSound
  <1>4. {f[k].current : k \in 1 .. n} = DOMAIN queue.items
    <2>1. \A k \in 1 .. n : f[k].current = queue.order[k]
      BY <1>3
    <2>2. \A k \in 1 .. n : f[k].current \in 1 .. n
      BY <1>1, <2>1
    <2>3. \A v \in 1 .. n : \E k \in 1 .. n : f[k].current = v
      BY <1>2, <2>1
    <2> QED
      BY <1>1, <2>2, <2>3
  <1> DEFINE l == f[n]
  <1>5. n \in 1 .. n
    BY <1>1
  <1>6. /\ l.position = n /\ l.order = queue.order /\ l.items = queue.items
        /\ Settings(l) = Settings(queue) /\ Sound(l)
    BY <1>3, <1>5
  <1> HIDE DEF l
  <1>7. l.repeat = queue.repeat /\ l.position # 0 /\ ~(l.position < Len(l.order))
    BY <1>1, <1>6 DEF Settings
  <1>8. ASSUME queue.repeat = "All"
        PROVE  AdvanceNext(l, "Completed").transition.kind = "Selected"
    <2> DEFINE a == At(l, 1)
    <2>1. AdvanceNext(l, "Completed").transition = Transition(a, "Selected")
      BY <1>7, <1>8 DEF AdvanceNext, Moves
    <2>2. 1 \in 1 .. Len(l.items)
      BY <1>1, <1>6
    <2>3. a.position = 1 /\ a.current = l.order[1] /\ a.items = l.items
      BY <1>6, <2>2, AtSound
    <2> HIDE DEF a
    <2>4. a.current \in DOMAIN a.items /\ a.position # 0
      BY <1>1, <1>6, <2>2, <2>3
    <2> QED
      BY <2>1, <2>4 DEF Transition
  <1>9. ASSUME queue.repeat # "All"
        PROVE  AdvanceNext(l, "Completed").transition.kind = "Ended"
    <2>1. AdvanceNext(l, "Completed") = Stays(l, "Ended")
      BY <1>7, <1>9 DEF AdvanceNext
    <2> QED
      BY <2>1 DEF Stays, NoTrack
  <1>10. AdvanceNext(l, "Completed").transition.kind =
           IF queue.repeat = "All" THEN "Selected" ELSE "Ended"
    BY <1>8, <1>9
  <1> QED
    BY <1>4, <1>10 DEF l

-----------------------------------------------------------------------------
\* The queue policy moves as the queue does.
LEMMA SameOrders == ASSUME NEW p PROVE Policy!EffectiveIndices(p) = OrderFor(p)
BY DEF Policy!EffectiveIndices, Policy!Q!OrderFor, OrderFor, Policy!Q!Shuffled,
       Shuffled, Policy!Q!Swapped, Swapped

LEMMA PolicyElements ==
  ASSUME NEW q, Sound(q), q.current # 0, q.order = OrderFor(q)
  PROVE  LET p == PolicyOf(q) IN
         /\ p.items = q.items /\ p.current = q.current /\ p.shuffle = q.shuffle
         /\ p.seed = q.seed /\ p.repeat = q.repeat
         /\ p.items # <<>>
         /\ Policy!EffectiveIndices(p) = q.order
         /\ Policy!CurrentPosition(p, q.order) = q.position
  <1> DEFINE p == PolicyOf(q)
  <1>1. /\ p.items = q.items /\ p.current = q.current /\ p.shuffle = q.shuffle
        /\ p.seed = q.seed /\ p.repeat = q.repeat
    BY DEF PolicyOf
  <1> HIDE DEF p
  <1>2. Policy!EffectiveIndices(p) = q.order
    BY <1>1, SameOrders DEF OrderFor
  <1>3. /\ Len(q.items) \in Nat /\ q.position \in 1 .. Len(q.items)
        /\ q.current \in 1 .. Len(q.items) /\ q.order[q.position] = q.current
        /\ IsOrder(q.order, Len(q.items))
    BY SoundElements DEF Sound
  <1>4. p.items # <<>>
    BY <1>1, <1>3, EmptySeq
  <1>5. Policy!CurrentPosition(p, q.order) = PositionOf(q.order, q.current)
    <2>1. p.current = q.current /\ q.current # 0
      BY <1>1
    <2> QED
      BY <2>1 DEF Policy!CurrentPosition, PositionOf, SelectInSeq,
                  Policy!SelectInSeq, Min, Policy!Min
  <1>6. /\ PositionOf(q.order, q.current) \in 1 .. Len(q.items)
        /\ q.order[PositionOf(q.order, q.current)] = q.current
    BY <1>3, PositionFound
  <1>7. PositionOf(q.order, q.current) = q.position
    <2> DEFINE here == PositionOf(q.order, q.current)
    <2>1. here \in 1 .. Len(q.items) /\ q.order[here] = q.order[q.position]
      BY <1>3, <1>6
    <2>2. \A i, j \in 1 .. Len(q.items) : q.order[i] = q.order[j] => i = j
      BY <1>3 DEF IsOrder
    <2> HIDE DEF here
    <2>3. here = q.position
      BY <1>3, <2>1, <2>2
    <2> QED
      BY <2>3 DEF here
  <1> QED
    BY <1>1, <1>2, <1>4, <1>5, <1>7 DEF p

LEMMA SelectsAlike ==
  ASSUME NEW q, Sound(q), NEW place \in 1 .. Len(q.items)
  PROVE  SameMove(Moves(At(q, place), "Selected"),
                  Policy!Selects(PolicyOf(q), q.order[place]))
  <1> DEFINE a == At(q, place)
             c == q.order[place]
  <1>1. /\ a.items = q.items /\ a.position = place /\ a.current = c
        /\ Settings(a) = Settings(q)
    BY AtSound
  <1>2. c \in 1 .. Len(q.items) /\ DOMAIN q.items = 1 .. Len(q.items) /\ Len(q.items) \in Nat
    BY SoundElements
  <1> HIDE DEF a, c
  <1>3. a.shuffle = q.shuffle /\ a.seed = q.seed /\ a.repeat = q.repeat
    BY <1>1 DEF Settings
  <1>4. PolicyOf(a) = [PolicyOf(q) EXCEPT !.current = c]
    BY <1>1, <1>3 DEF PolicyOf
  <1>5. Transition(a, "Selected").kind = "Selected" /\ Transition(a, "Selected").index = c
    BY <1>1, <1>2 DEF Transition
  <1>6. [PolicyOf(q) EXCEPT !.current = c].current = c
    BY DEF PolicyOf
  <1>7. SameMove(Moves(a, "Selected"), Policy!Selects(PolicyOf(q), c))
    BY <1>4, <1>5, <1>6 DEF SameMove, Moves, Policy!Selects, Policy!Answers
  <1> QED
    BY <1>7 DEF a, c

LEMMA RestartsAlike ==
  ASSUME NEW q, Sound(q), q.current # 0
  PROVE  SameMove(Moves(q, "RestartCurrent"), Policy!Answers(PolicyOf(q), "RestartCurrent"))
  <1>1. q.current \in DOMAIN q.items /\ q.position # 0
    BY SoundElements DEF Sound
  <1>2. /\ Transition(q, "RestartCurrent").kind = "RestartCurrent"
        /\ Transition(q, "RestartCurrent").index = q.current
    BY <1>1 DEF Transition
  <1>3. PolicyOf(q).current = q.current
    BY DEF PolicyOf
  <1> QED
    BY <1>2, <1>3 DEF SameMove, Moves, Policy!Answers

LEMMA EndsAlike ==
  ASSUME NEW q
  PROVE  SameMove(Stays(q, "Ended"), Policy!TellsNone(PolicyOf(q), "Ended"))
BY DEF SameMove, Stays, NoTrack, Policy!TellsNone

LEMMA AdvancesAlike ==
  ASSUME NEW q, Sound(q), q.current # 0, q.order = OrderFor(q),
         NEW reason, ~(reason = "Completed" /\ q.repeat = "One")
  PROVE  SameMove(AdvanceNext(q, reason), Policy!Advance(PolicyOf(q)))
  <1> DEFINE p == PolicyOf(q)
  <1>1. /\ p.current # 0 /\ p.repeat = q.repeat /\ p.items # <<>>
        /\ Policy!EffectiveIndices(p) = q.order
        /\ Policy!CurrentPosition(p, q.order) = q.position
    BY PolicyElements
  <1>2. /\ Len(q.items) \in Nat /\ Len(q.order) = Len(q.items)
        /\ q.position \in 1 .. Len(q.items) /\ q.position # 0
    BY SoundElements DEF Sound
  <1>3. 1 \in 1 .. Len(q.items)
    BY <1>2
  <1> HIDE DEF p
  <1>4. CASE q.position < Len(q.order)
    <2>1. AdvanceNext(q, reason) = Moves(At(q, q.position + 1), "Selected")
      BY <1>2, <1>4 DEF AdvanceNext
    <2>2. Policy!Advance(p) = Policy!Selects(p, q.order[q.position + 1])
      BY <1>1, <1>4 DEF Policy!Advance
    <2>3. q.position + 1 \in 1 .. Len(q.items)
      BY <1>2, <1>4
    <2> QED
      BY <2>1, <2>2, <2>3, SelectsAlike DEF p
  <1>5. CASE ~(q.position < Len(q.order)) /\ q.repeat = "All"
    <2>1. AdvanceNext(q, reason) = Moves(At(q, 1), "Selected")
      BY <1>2, <1>5 DEF AdvanceNext
    <2>2. Policy!Advance(p) = Policy!Selects(p, q.order[1])
      BY <1>1, <1>5 DEF Policy!Advance
    <2> QED
      BY <1>3, <2>1, <2>2, SelectsAlike DEF p
  <1>6. CASE ~(q.position < Len(q.order)) /\ q.repeat # "All"
    <2>1. AdvanceNext(q, reason) = Stays(q, "Ended")
      BY <1>2, <1>6 DEF AdvanceNext
    <2>2. Policy!Advance(p) = Policy!TellsNone(p, "Ended")
      BY <1>1, <1>6 DEF Policy!Advance
    <2> QED
      BY <2>1, <2>2, EndsAlike DEF p
  <1> QED
    BY <1>4, <1>5, <1>6

LEMMA CompletesAlike ==
  ASSUME NEW q, Sound(q), q.current # 0, q.order = OrderFor(q)
  PROVE  SameMove(AdvanceNext(q, "Completed"), Policy!OnItemCompleted(PolicyOf(q)))
  <1> DEFINE p == PolicyOf(q)
  <1>1. p.current # 0 /\ p.repeat = q.repeat /\ p.items # <<>>
    BY PolicyElements
  <1>2. q.position # 0
    BY SoundElements
  <1> HIDE DEF p
  <1>3. CASE q.repeat = "One"
    <2>1. AdvanceNext(q, "Completed") = Moves(q, "RestartCurrent")
      BY <1>2, <1>3 DEF AdvanceNext
    <2>2. Policy!OnItemCompleted(p) = Policy!Answers(p, "RestartCurrent")
      BY <1>1, <1>3 DEF Policy!OnItemCompleted
    <2> QED
      BY <2>1, <2>2, RestartsAlike DEF p
  <1>4. CASE q.repeat # "One"
    <2>1. Policy!OnItemCompleted(p) = Policy!Advance(p)
      BY <1>1, <1>4 DEF Policy!OnItemCompleted
    <2> QED
      BY <1>4, <2>1, AdvancesAlike DEF p
  <1> QED
    BY <1>3, <1>4

LEMMA PreviousAlike ==
  ASSUME NEW q, Sound(q), q.current # 0, q.order = OrderFor(q),
         q.threshold = DefaultThreshold, NEW pos
  PROVE  SameMove(Previous(q, pos), Policy!PreviousAt(PolicyOf(q), pos))
  <1> DEFINE p == PolicyOf(q)
  <1>1. /\ p.current # 0 /\ p.repeat = q.repeat /\ p.items # <<>>
        /\ Policy!EffectiveIndices(p) = q.order
        /\ Policy!CurrentPosition(p, q.order) = q.position
    BY PolicyElements
  <1>2. /\ Len(q.items) \in Nat /\ Len(q.order) = Len(q.items)
        /\ q.position \in 1 .. Len(q.items) /\ q.position # 0
    BY SoundElements DEF Sound
  <1> HIDE DEF p
  <1>3. CASE pos > DefaultThreshold
    <2>1. Previous(q, pos) = Moves(q, "RestartCurrent")
      BY <1>2, <1>3 DEF Previous
    <2>2. Policy!PreviousAt(p, pos) = Policy!Answers(p, "RestartCurrent")
      BY <1>1, <1>3 DEF Policy!PreviousAt
    <2> QED
      BY <2>1, <2>2, RestartsAlike DEF p
  <1>4. CASE ~(pos > DefaultThreshold) /\ q.position > 1
    <2>1. Previous(q, pos) = Moves(At(q, q.position - 1), "Selected")
      BY <1>2, <1>4 DEF Previous
    <2>2. Policy!PreviousAt(p, pos) = Policy!Selects(p, q.order[q.position - 1])
      BY <1>1, <1>4 DEF Policy!PreviousAt, Policy!Previous
    <2>3. q.position - 1 \in 1 .. Len(q.items)
      BY <1>2, <1>4
    <2> QED
      BY <2>1, <2>2, <2>3, SelectsAlike DEF p
  <1>5. CASE ~(pos > DefaultThreshold) /\ ~(q.position > 1) /\ q.repeat = "All"
    <2>1. Previous(q, pos) = Moves(At(q, Len(q.order)), "Selected")
      BY <1>2, <1>5 DEF Previous
    <2>2. Policy!PreviousAt(p, pos) = Policy!Selects(p, q.order[Len(q.order)])
      BY <1>1, <1>5 DEF Policy!PreviousAt, Policy!Previous
    <2>3. Len(q.order) \in 1 .. Len(q.items)
      BY <1>2
    <2> QED
      BY <2>1, <2>2, <2>3, SelectsAlike DEF p
  <1>6. CASE ~(pos > DefaultThreshold) /\ ~(q.position > 1) /\ q.repeat # "All"
    <2>1. Previous(q, pos) = Moves(q, "RestartCurrent")
      BY <1>2, <1>6 DEF Previous
    <2>2. Policy!PreviousAt(p, pos) = Policy!Answers(p, "RestartCurrent")
      BY <1>1, <1>6 DEF Policy!PreviousAt, Policy!Previous
    <2> QED
      BY <2>1, <2>2, RestartsAlike DEF p
  <1> QED
    BY <1>3, <1>4, <1>5, <1>6

LEMMA SettingsAlike ==
  ASSUME NEW q, Sound(q)
  PROVE  /\ \A on \in BOOLEAN, seed \in Seeds :
              PolicyOf(SetShuffle(q, on, seed).queue) =
                Policy!SetShuffle(PolicyOf(q), on, seed)
         /\ \A mode \in RepeatModes :
              PolicyOf(SetRepeat(q, mode)) = Policy!SetRepeat(PolicyOf(q), mode)
  <1>1. ASSUME NEW on \in BOOLEAN, NEW seed \in Seeds
        PROVE  PolicyOf(SetShuffle(q, on, seed).queue) =
                 Policy!SetShuffle(PolicyOf(q), on, seed)
    <2> DEFINE r == SetShuffle(q, on, seed).queue
    <2>1. /\ r.items = q.items /\ r.current = q.current /\ r.shuffle = on
          /\ r.seed = seed /\ r.repeat = q.repeat
      BY ShuffleSound
    <2> HIDE DEF r
    <2>2. PolicyOf(r) = [items |-> q.items, current |-> q.current, shuffle |-> on,
                         seed |-> seed, repeat |-> q.repeat]
      BY <2>1 DEF PolicyOf
    <2>3. Policy!SetShuffle(PolicyOf(q), on, seed) =
            [items |-> q.items, current |-> q.current, shuffle |-> on,
             seed |-> seed, repeat |-> q.repeat]
      <3> DEFINE p == PolicyOf(q)
                 s == [p EXCEPT !.shuffle = on]
      <3>1. s = [items |-> q.items, current |-> q.current, shuffle |-> on,
                 seed |-> q.seed, repeat |-> q.repeat]
        BY DEF PolicyOf
      <3>2. Policy!SetShuffle(p, on, seed) = [s EXCEPT !.seed = seed]
        <4> HIDE DEF p
        <4> QED
          BY DEF Policy!SetShuffle
      <3> HIDE DEF s
      <3> QED
        BY <3>1, <3>2
    <2> QED
      BY <2>2, <2>3 DEF r
  <1>2. ASSUME NEW mode \in RepeatModes
        PROVE  PolicyOf(SetRepeat(q, mode)) = Policy!SetRepeat(PolicyOf(q), mode)
    <2> DEFINE r == SetRepeat(q, mode)
    <2>1. q \in Queues
      BY DEF Sound
    <2>2. /\ r.items = q.items /\ r.current = q.current /\ r.shuffle = q.shuffle
          /\ r.seed = q.seed /\ r.repeat = mode
      BY <2>1 DEF SetRepeat, Queues
    <2> HIDE DEF r
    <2>3. PolicyOf(r) = [items |-> q.items, current |-> q.current, shuffle |-> q.shuffle,
                         seed |-> q.seed, repeat |-> mode]
      BY <2>2 DEF PolicyOf
    <2>4. Policy!SetRepeat(PolicyOf(q), mode) =
            [items |-> q.items, current |-> q.current, shuffle |-> q.shuffle,
             seed |-> q.seed, repeat |-> mode]
      BY DEF Policy!SetRepeat, PolicyOf
    <2> QED
      BY <2>3, <2>4 DEF r
  <1> QED
    BY <1>1, <1>2

LEMMA ItemsAlike ==
  ASSUME NEW q, Sound(q), NEW k \in DOMAIN q.items
  PROVE  LET told == Policy!SelectItem(PolicyOf(q), q.items[k]) IN
         /\ told.ok /\ told.queue.current <= k
         /\ told.queue = PolicyOf(Select(q, told.queue.current).queue)
  <1> DEFINE p == PolicyOf(q)
             T == {i \in 1 .. Len(q.items) : q.items[i] = q.items[k]}
             c == Min(T)
  <1>1. /\ p.items = q.items /\ Len(q.items) \in Nat /\ k \in 1 .. Len(q.items)
        /\ q \in Queues /\ Len(q.items) <= MaxItems /\ IsOrder(q.order, Len(q.items))
    BY SoundElements DEF PolicyOf, Sound
  <1>2. T \in SUBSET Nat /\ k \in T
    BY <1>1
  <1>3. c \in T /\ c <= k
    <2> HIDE DEF T
    <2> QED
      BY <1>2, MinIsLeast
  <1>4. c \in 1 .. Len(q.items) /\ c # 0
    BY <1>1, <1>3
  <1> HIDE DEF p
  <1>5. Policy!SelectInSeq(p.items, LAMBDA i : i = q.items[k]) = c
    BY <1>1, <1>2 DEF Policy!SelectInSeq, Min, Policy!Min
  <1>6. Policy!SelectItem(p, q.items[k]) =
          [queue |-> [p EXCEPT !.current = c], ok |-> TRUE]
    <2> HIDE DEF c, T
    <2> QED
      BY <1>4, <1>5 DEF Policy!SelectItem, Policy!Q!Returns
  <1> HIDE DEF c, T
  <1> DEFINE w == WithCurrent(q, q.order, c)
  <1>7. c \in 0 .. Len(q.items)
    BY <1>1, <1>4
  <1>8. w.items = q.items /\ w.current = c /\ Settings(w) = Settings(q)
    BY <1>1, <1>7, WithCurrentSound
  <1> HIDE DEF w
  <1>9. w.shuffle = q.shuffle /\ w.seed = q.seed /\ w.repeat = q.repeat
    BY <1>8 DEF Settings
  <1>10. PolicyOf(w) = [p EXCEPT !.current = c] /\ [p EXCEPT !.current = c].current = c
    BY <1>8, <1>9 DEF PolicyOf, p
  <1>11. Select(q, c).queue = w
    BY DEF Select, Moves, w
  <1> DEFINE told == Policy!SelectItem(p, q.items[k])
             r    == [p EXCEPT !.current = c]
  <1>12. told.ok /\ told.queue = r
    BY <1>6
  <1>13. PolicyOf(w) = r /\ r.current = c
    BY <1>10
  <1> HIDE DEF told, r
  <1>14. told.queue.current = c
    BY <1>12, <1>13
  <1>15. told.queue = PolicyOf(Select(q, told.queue.current).queue)
    BY <1>11, <1>12, <1>13, <1>14
  <1> QED
    BY <1>3, <1>12, <1>14, <1>15 DEF p, told

LEMMA ReplacesAlike ==
  ASSUME NEW q, Sound(q), NEW current \in Indexes
  PROVE  LET rebuilt == ReplaceItems(q, q.items, current)
             told    == Policy!SetItems(PolicyOf(q), q.items, current)
         IN told.ok = rebuilt.ok /\ told.queue = PolicyOf(rebuilt.queue)
  <1> DEFINE p == PolicyOf(q)
             m == [q EXCEPT !.items = q.items]
  <1>1. /\ q \in Queues /\ q.items \in Seq(Items) /\ Len(q.items) <= MaxItems
        /\ Len(q.items) \in Nat /\ current \in Nat
    BY SoundElements DEF Sound, Queues, Indexes
  <1>2. m = q
    BY <1>1 DEF Queues
  <1>3. ReplaceItems(q, q.items, current) = Rebuild(q, current)
    BY <1>2 DEF ReplaceItems
  <1>4. p = [items |-> q.items, current |-> q.current, shuffle |-> q.shuffle,
             seed |-> q.seed, repeat |-> q.repeat]
    BY DEF PolicyOf
  <1> HIDE DEF p, m
  <1>5. CASE current > Len(q.items)
    <2>1. Rebuild(q, current) = [queue |-> q, ok |-> FALSE]
      BY <1>1, <1>5 DEF Rebuild, Returns
    <2>2. Policy!SetItems(p, q.items, current) = [queue |-> p, ok |-> FALSE]
      BY <1>5 DEF Policy!SetItems, Policy!Q!Returns
    <2> QED
      BY <1>3, <2>1, <2>2 DEF p
  <1>6. CASE ~(current > Len(q.items))
    <2> DEFINE w == WithCurrent(q, OrderFor(q), current)
               r == [p EXCEPT !.items = q.items]
    <2>1. current \in 0 .. Len(q.items)
      BY <1>1, <1>6
    <2>2. Rebuild(q, current) = [queue |-> w, ok |-> TRUE]
      BY <1>1, <2>1, RebuildSound
    <2>3. IsOrder(OrderFor(q), Len(q.items))
      BY <1>1, OrderForIsOrder
    <2>4. w.items = q.items /\ w.current = current /\ Settings(w) = Settings(q)
      BY <1>1, <2>1, <2>3, WithCurrentSound
    <2> HIDE DEF w
    <2>5. w.shuffle = q.shuffle /\ w.seed = q.seed /\ w.repeat = q.repeat
      BY <2>4 DEF Settings
    <2>6. Policy!SetItems(p, q.items, current) = [queue |-> [r EXCEPT !.current = current], ok |-> TRUE]
      BY <1>6 DEF Policy!SetItems, Policy!Q!Returns
    <2>7. r = p
      BY <1>4
    <2> HIDE DEF r
    <2>8. [r EXCEPT !.current = current] = PolicyOf(w)
      BY <1>4, <2>4, <2>5, <2>7 DEF PolicyOf
    <2> QED
      BY <1>3, <2>2, <2>6, <2>8 DEF p
  <1> QED
    BY <1>5, <1>6

\* The failure policy over the tracks in the order of play.
LEMMA FailuresAlike ==
  ASSUME NEW q, Sound(q), q.current # 0, q.repeat = "Off"
  PROVE  LET here == q.position
             next == AdvanceNext(q, "Completed").queue
             skip == Policy!Decide(Policy!DefaultLocal, "Skip", Current(q), PlaySequence(q), here)
             lost == Policy!Decide(Policy!DefaultLocal, "SourceLoss", Current(q), PlaySequence(q), here)
         IN /\ skip.ok /\ lost.action = skip.action
            /\ skip.action.exhausted <=> next.position = here
            /\ ~skip.action.exhausted => skip.action.index = next.position
  <1> DEFINE here == q.position
             list == PlaySequence(q)
             n    == Len(q.items)
  <1>1. /\ n \in Nat /\ Len(q.order) = n /\ DOMAIN q.order = 1 .. n /\ here \in 1 .. n
        /\ q.order[here] = q.current /\ q.items \in Seq(Items)
        /\ \A k \in 1 .. n : q.order[k] \in 1 .. n
    BY SoundElements DEF Sound, Queues
  <1>2. \A k \in 1 .. n : q.items[q.order[k]] \in Items
    BY <1>1
  <1>3. list \in [1 .. n -> Items] /\ list[here] = Current(q)
    BY <1>1, <1>2 DEF PlaySequence, Current
  <1> HIDE DEF list, n
  <1>4. Len(list) = n /\ DOMAIN list = 1 .. n
    BY <1>1, <1>3
  <1>5. Policy!IsCurrentItem(Current(q), list, here)
    BY <1>1, <1>3, <1>4 DEF Policy!IsCurrentItem
  <1>6. /\ Policy!ContinuesAfter(Policy!DefaultLocal, "Skip")
        /\ Policy!ContinuesAfter(Policy!DefaultLocal, "SourceLoss")
    BY DEF Policy!ContinuesAfter, Policy!DefaultLocal
  <1> DEFINE skip == Policy!Decide(Policy!DefaultLocal, "Skip", Current(q), list, here)
             lost == Policy!Decide(Policy!DefaultLocal, "SourceLoss", Current(q), list, here)
             next == AdvanceNext(q, "Completed").queue
  <1>7. /\ skip.ok /\ skip.action = Policy!NextAction(list, here)
        /\ lost.action = Policy!NextAction(list, here)
    BY <1>5, <1>6 DEF Policy!Decide
  <1>8. here # 0
    BY <1>1
  <1> HIDE DEF skip, lost, next
  <1>9. CASE here < n
    <2>1. here + 1 \in 1 .. n /\ here + 1 # here
      BY <1>1, <1>9
    <2>2. next = At(q, here + 1)
      BY <1>1, <1>8, <1>9 DEF AdvanceNext, Moves, next
    <2>3. next.position = here + 1
      BY <2>1, <2>2, AtSound DEF n
    <2>4. skip.action.index = here + 1 /\ skip.action.exhausted = FALSE
      BY <1>4, <1>7, <1>9 DEF Policy!NextAction
    <2>5. /\ skip.ok /\ lost.action = skip.action
          /\ skip.action.exhausted <=> next.position = here
          /\ ~skip.action.exhausted => skip.action.index = next.position
      BY <1>7, <2>1, <2>3, <2>4
    <2> QED
      BY <2>5 DEF skip, lost, next, list
  <1>10. CASE ~(here < n)
    <2>1. next = q
      BY <1>1, <1>8, <1>10 DEF AdvanceNext, Stays, next
    <2>2. skip.action.exhausted = TRUE
      BY <1>4, <1>7, <1>10 DEF Policy!NextAction
    <2>3. /\ skip.ok /\ lost.action = skip.action
          /\ skip.action.exhausted <=> next.position = here
          /\ ~skip.action.exhausted => skip.action.index = next.position
      BY <1>7, <2>1, <2>2
    <2> QED
      BY <2>3 DEF skip, lost, next, list
  <1> QED
    BY <1>9, <1>10

LEMMA SoundAgrees ==
  ASSUME Sound(queue)
  PROVE  PoliciesAgree
  <1> SUFFICES ASSUME queue.current # 0 PROVE PoliciesAgree
    BY DEF PoliciesAgree
  <1> DEFINE p == PolicyOf(queue)
  <1>1. ASSUME queue.order = OrderFor(queue)
        PROVE  /\ SameMove(AdvanceNext(queue, "ManualNext"), Policy!Advance(p))
               /\ SameMove(AdvanceNext(queue, "Completed"), Policy!OnItemCompleted(p))
               /\ queue.threshold = DefaultThreshold =>
                    \A pos \in Positions : SameMove(Previous(queue, pos), Policy!PreviousAt(p, pos))
    BY <1>1, AdvancesAlike, CompletesAlike, PreviousAlike
  <1>2. /\ \A on \in BOOLEAN, seed \in Seeds :
             PolicyOf(SetShuffle(queue, on, seed).queue) = Policy!SetShuffle(p, on, seed)
        /\ \A mode \in RepeatModes :
             PolicyOf(SetRepeat(queue, mode)) = Policy!SetRepeat(p, mode)
    BY SettingsAlike
  <1>3. \A k \in DOMAIN queue.items :
          LET told == Policy!SelectItem(p, queue.items[k]) IN
          /\ told.ok /\ told.queue.current <= k
          /\ told.queue = PolicyOf(Select(queue, told.queue.current).queue)
    BY ItemsAlike
  <1>4. \A current \in Indexes :
          LET rebuilt == ReplaceItems(queue, queue.items, current)
              told    == Policy!SetItems(p, queue.items, current)
          IN told.ok = rebuilt.ok /\ told.queue = PolicyOf(rebuilt.queue)
    BY ReplacesAlike
  <1>5. ASSUME queue.repeat = "Off"
        PROVE  LET here == queue.position
                   next == AdvanceNext(queue, "Completed").queue
                   skip == Policy!Decide(Policy!DefaultLocal, "Skip", Current(queue),
                                         PlaySequence(queue), here)
                   lost == Policy!Decide(Policy!DefaultLocal, "SourceLoss", Current(queue),
                                         PlaySequence(queue), here)
               IN /\ skip.ok /\ lost.action = skip.action
                  /\ skip.action.exhausted <=> next.position = here
                  /\ ~skip.action.exhausted => skip.action.index = next.position
    BY <1>5, FailuresAlike
  <1> HIDE DEF p
  <1> QED
    BY <1>1, <1>2, <1>3, <1>4, <1>5, Zenon DEF PoliciesAgree, p

\* What the run checks of the queue in one state.
LEMMA SoundPlays ==
  ASSUME Sound(queue)
  PROVE  PlaysEachTrackOnce
  <1> DEFINE n == Len(queue.items)
             f == CHOOSE f : IsPlayed(n, f)
  <1>1. OrderIsPermutation /\ PoliciesAgree
    BY SoundIsPermutation, SoundAgrees
  <1>2. ASSUME queue.repeat # "One", n > 0
        PROVE  /\ {f[k].current : k \in 1 .. n} = DOMAIN queue.items
               /\ AdvanceNext(f[n], "Completed").transition.kind =
                    IF queue.repeat = "All" THEN "Selected" ELSE "Ended"
    <2>1. \E g : IsPlayed(n, g)
      BY <1>2, PlayedExists
    <2>2. IsPlayed(n, f)
      BY <2>1
    <2> HIDE DEF f
    <2> QED
      BY <1>2, <2>2, EachIsPlayed
  <1> QED
    BY <1>1, <1>2 DEF PlaysEachTrackOnce, IsPlayed, PlayedStep

\* Whatever calls came before, the order is a permutation, playing on from its
\* first track with advance_next plays every track once and then ends or starts
\* over, and the two policies choose as the queue does (queue.rs; callers check
\* the index they give replace).
THEOREM EachTrackIsPlayedOnce ==
  ASSUME CheckedReplace
  PROVE  Spec => []PlaysEachTrackOnce
  <1>1. Sound(queue) /\ [Next]_qvars => Sound(queue)'
    <2> SUFFICES ASSUME Sound(queue), [Next]_qvars PROVE Sound(queue)'
      OBVIOUS
    <2>1. CASE Next
      BY <2>1, NextSound
    <2>2. CASE UNCHANGED qvars
      BY <2>2 DEF qvars
    <2> QED
      BY <2>1, <2>2
  <1>2. Sound(queue) => PlaysEachTrackOnce
    BY SoundPlays
  <1> QED
    BY <1>1, <1>2, InitSound, PTL DEF Spec

-----------------------------------------------------------------------------
\* The turns.  A track is where its index went.
LEMMA TurnElements ==
  ASSUME NEW q, Sound(q)
  PROVE  /\ PlaySequence(q) \in Seq(Items)
         /\ Len(PlaySequence(q)) = Len(q.items)
         /\ \A k \in 1 .. Len(q.items) : PlaySequence(q)[k] = q.items[q.order[k]]
  <1> DEFINE n == Len(q.items)
             s == PlaySequence(q)
  <1>1. /\ n \in Nat /\ DOMAIN q.order = 1 .. n /\ q.items \in Seq(Items)
        /\ \A k \in 1 .. n : q.order[k] \in 1 .. n
    BY SoundElements DEF Sound, Queues
  <1>2. \A k \in 1 .. n : q.items[q.order[k]] \in Items
    BY <1>1
  <1>3. s \in [1 .. n -> Items] /\ \A k \in 1 .. n : s[k] = q.items[q.order[k]]
    BY <1>1, <1>2 DEF PlaySequence
  <1> HIDE DEF s, n
  <1>4. s \in Seq(Items) /\ Len(s) = n
    BY <1>1, <1>3
  <1> QED
    BY <1>3, <1>4 DEF s, n

LEMMA MovedItems ==
  ASSUME NEW S, NEW s \in Seq(S), NEW from \in 1 .. Len(s), NEW to \in 1 .. Len(s),
         NEW v \in 1 .. Len(s)
  PROVE  InsertAt(RemoveAt(s, from), to, s[from])[RemapAfterMove(v, from, to)] = s[v]
  <1> DEFINE left == RemoveAt(s, from)
             t    == InsertAt(left, to, s[from])
             w    == RemapAfterMove(v, from, to)
             n    == Len(s)
  <1>1. n \in Nat /\ s[from] \in S
    OBVIOUS
  <1>2. left \in Seq(S) /\ Len(left) = n - 1
    BY RemoveAtElements
  <1>3. \A k \in 1 .. n - 1 : left[k] = IF k < from THEN s[k] ELSE s[k + 1]
    BY RemoveAtElements
  <1> HIDE DEF left
  <1>4. to \in 1 .. Len(left) + 1
    BY <1>1, <1>2
  <1>14. left \in Seq(S)
    BY <1>2
  <1>15. s[from] \in S
    BY <1>1
  <1>5. \A k \in 1 .. Len(left) + 1 :
          t[k] = IF k < to THEN left[k] ELSE IF k = to THEN s[from] ELSE left[k - 1]
    <2> DEFINE e == s[from]
    <2>1. e \in S
      BY <1>15
    <2> HIDE DEF e
    <2>2. /\ InsertAt(left, to, e) \in Seq(S)
          /\ Len(InsertAt(left, to, e)) = Len(left) + 1
          /\ \A k \in 1 .. Len(left) + 1 :
               InsertAt(left, to, e)[k] = IF k < to THEN left[k]
                                          ELSE IF k = to THEN e ELSE left[k - 1]
      BY <1>4, <1>14, <2>1, InsertAtElements
    <2> QED
      BY <2>2 DEF e
  <1>6. Len(left) + 1 = n
    BY <1>1, <1>2
  <1> HIDE DEF t
  <1>7. \A k \in 1 .. n :
          t[k] = IF k < to THEN left[k] ELSE IF k = to THEN s[from] ELSE left[k - 1]
    BY <1>5, <1>6
  <1>8. w \in 1 .. n
    BY <1>1 DEF RemapAfterMove
  <1>9. CASE v = from
    BY <1>7, <1>8, <1>9 DEF RemapAfterMove, t, left
  <1>10. CASE from < v /\ v <= to
    <2>1. w = v - 1 /\ w < to /\ w \in 1 .. n - 1 /\ ~(w < from) /\ w + 1 = v
      BY <1>1, <1>10 DEF RemapAfterMove
    <2> HIDE DEF w
    <2>2. t[w] = s[v]
      BY <1>3, <1>7, <1>8, <2>1
    <2> QED
      BY <2>2 DEF t, left, w
  <1>11. CASE to <= v /\ v < from
    <2>1. w = v + 1 /\ w > to /\ w - 1 = v /\ v \in 1 .. n - 1
      BY <1>1, <1>11 DEF RemapAfterMove
    <2> HIDE DEF w
    <2>2. t[w] = s[v]
      BY <1>3, <1>7, <1>8, <1>11, <2>1
    <2> QED
      BY <2>2 DEF t, left, w
  <1>12. CASE v < from /\ v < to
    <2>1. w = v /\ w < to /\ v \in 1 .. n - 1
      BY <1>1, <1>12 DEF RemapAfterMove
    <2> HIDE DEF w
    <2>2. t[w] = s[v]
      BY <1>3, <1>7, <1>8, <1>12, <2>1
    <2> QED
      BY <2>2 DEF t, left, w
  <1>13. CASE v > from /\ v > to
    <2>1. w = v /\ w > to /\ v - 1 \in 1 .. n - 1 /\ ~(v - 1 < from) /\ v - 1 + 1 = v
      BY <1>1, <1>13 DEF RemapAfterMove
    <2> HIDE DEF w
    <2>2. t[w] = s[v]
      BY <1>3, <1>7, <1>8, <2>1
    <2> QED
      BY <2>2 DEF t, left, w
  <1> QED
    BY <1>9, <1>10, <1>11, <1>12, <1>13

LEMMA AppendKeepsTurns ==
  ASSUME NEW q, Sound(q), Len(q.items) < MaxItems, NEW item \in Items
  PROVE  LET r == AppendItem(q, item).queue IN
         /\ q.current # 0 => r.current # 0 /\ Current(r) = Current(q)
         /\ q.shuffle => PlaySequence(r) = Append(PlaySequence(q), item)
  <1> DEFINE r == AppendItem(q, item).queue
             n == Len(q.items)
             s == PlaySequence(q)
             t == PlaySequence(r)
  <1>1. /\ n \in Nat /\ q.items \in Seq(Items) /\ q.current \in 0 .. n
        /\ q.order \in Seq(Nat) /\ Len(q.order) = n
        /\ \A k \in 1 .. n : q.order[k] \in 1 .. n
    BY SoundElements DEF Sound, Queues
  <1>2. /\ Sound(r) /\ r.items = Append(q.items, item) /\ r.current = q.current
        /\ q.shuffle => r.order = Append(q.order, n + 1)
    BY AppendSound
  <1> HIDE DEF r
  <1>3. Len(r.items) = n + 1 /\ r.items[n + 1] = item /\ \A v \in 1 .. n : r.items[v] = q.items[v]
    BY <1>1, <1>2
  <1>4. q.current # 0 => r.current # 0 /\ Current(r) = Current(q)
    BY <1>1, <1>2, <1>3 DEF Current
  <1>5. /\ s \in Seq(Items) /\ Len(s) = n
        /\ \A k \in 1 .. n : s[k] = q.items[q.order[k]]
    BY TurnElements
  <1>6. /\ t \in Seq(Items) /\ Len(t) = n + 1
        /\ \A k \in 1 .. n + 1 : t[k] = r.items[r.order[k]]
    BY <1>2, <1>3, TurnElements
  <1> HIDE DEF s, t
  <1>7. ASSUME q.shuffle PROVE t = Append(s, item)
    <2>1. r.order = Append(q.order, n + 1)
      BY <1>2, <1>7
    <2>2. /\ r.order[n + 1] = n + 1
          /\ \A k \in 1 .. n : r.order[k] = q.order[k]
      BY <1>1, <2>1
    <2> DEFINE u == Append(s, item)
    <2>3. /\ u \in Seq(Items) /\ Len(u) = n + 1 /\ u[n + 1] = item
          /\ \A k \in 1 .. n : u[k] = s[k]
      BY <1>1, <1>5
    <2> HIDE DEF u
    <2>4. t[n + 1] = u[n + 1]
      BY <1>1, <1>3, <1>6, <2>2, <2>3
    <2>5. \A k \in 1 .. n : t[k] = u[k]
      <3> SUFFICES ASSUME NEW k \in 1 .. n PROVE t[k] = u[k]
        OBVIOUS
      <3>1. k \in 1 .. n + 1 /\ q.order[k] \in 1 .. n
        BY <1>1
      <3>2. t[k] = r.items[q.order[k]]
        BY <1>6, <2>2, <3>1
      <3>3. u[k] = q.items[q.order[k]]
        BY <1>5, <2>3
      <3> QED
        BY <1>3, <3>1, <3>2, <3>3
    <2>6. \A k \in 1 .. Len(t) : t[k] = u[k]
      BY <1>1, <1>6, <2>4, <2>5
    <2>7. t = u
      BY <1>6, <2>3, <2>6, SeqEqual
    <2> QED
      BY <2>7 DEF u
  <1> QED
    BY <1>4, <1>7 DEF r, s, t

LEMMA InsertKeepsTurns ==
  ASSUME NEW q, Sound(q), Len(q.items) < MaxItems, NEW item \in Items,
         NEW index \in 1 .. Len(q.items) + 1
  PROVE  LET r == InsertItem(q, index, item).queue IN
         /\ q.current # 0 => r.current # 0 /\ Current(r) = Current(q)
         /\ q.shuffle => PlaySequence(r) = Append(PlaySequence(q), item)
  <1> DEFINE r == InsertItem(q, index, item).queue
             n == Len(q.items)
             s == PlaySequence(q)
             t == PlaySequence(r)
  <1>1. /\ n \in Nat /\ q.items \in Seq(Items) /\ q.current \in 0 .. n
        /\ \A k \in 1 .. n : q.order[k] \in 1 .. n
        /\ IsOrder(q.order, n) /\ index \in 1 .. n + 1
    BY SoundElements DEF Sound, Queues
  <1>2. /\ Sound(r) /\ r.items = InsertAt(q.items, index, item)
        /\ r.current = ShiftUp(q.current, index)
        /\ q.shuffle =>
             r.order = Append([k \in DOMAIN q.order |-> ShiftUp(q.order[k], index)], index)
    BY InsertSound
  <1> HIDE DEF r
  <1>10. r.items = InsertAt(q.items, index, item)
    BY <1>2
  <1>11. q.items \in Seq(Items)
    BY <1>1
  <1>12. /\ Len(InsertAt(q.items, index, item)) = n + 1
         /\ \A k \in 1 .. n + 1 :
              InsertAt(q.items, index, item)[k] =
                IF k < index THEN q.items[k] ELSE IF k = index THEN item ELSE q.items[k - 1]
    <2> DEFINE items == q.items
    <2>1. items \in Seq(Items) /\ index \in 1 .. Len(items) + 1
      BY <1>11
    <2> HIDE DEF items
    <2>2. /\ InsertAt(items, index, item) \in Seq(Items)
          /\ Len(InsertAt(items, index, item)) = Len(items) + 1
          /\ \A k \in 1 .. Len(items) + 1 :
               InsertAt(items, index, item)[k] =
                 IF k < index THEN items[k] ELSE IF k = index THEN item ELSE items[k - 1]
      BY <2>1, InsertAtElements
    <2> QED
      BY <2>2 DEF items
  <1>3. Len(r.items) = n + 1
    BY <1>10, <1>12
  <1>4. \A k \in 1 .. n + 1 :
          r.items[k] = IF k < index THEN q.items[k] ELSE IF k = index THEN item ELSE q.items[k - 1]
    BY <1>10, <1>12
  <1>5. ASSUME NEW v \in 1 .. n
        PROVE  ShiftUp(v, index) \in 1 .. n + 1 /\ r.items[ShiftUp(v, index)] = q.items[v]
    <2>1. CASE v >= index
      <3>1. ShiftUp(v, index) = v + 1 /\ v + 1 \in 1 .. n + 1 /\ ~(v + 1 < index) /\ v + 1 # index
            /\ v + 1 - 1 = v
        BY <1>1, <2>1 DEF ShiftUp
      <3> QED
        BY <1>4, <3>1
    <2>2. CASE ~(v >= index)
      <3>1. ShiftUp(v, index) = v /\ v \in 1 .. n + 1 /\ v < index
        BY <1>1, <2>2 DEF ShiftUp
      <3> QED
        BY <1>4, <3>1
    <2> QED
      BY <2>1, <2>2
  <1>6. q.current # 0 => r.current # 0 /\ Current(r) = Current(q)
    BY <1>1, <1>2, <1>5 DEF Current
  <1>7. /\ s \in Seq(Items) /\ Len(s) = n
        /\ \A k \in 1 .. n : s[k] = q.items[q.order[k]]
    BY TurnElements
  <1>8. /\ t \in Seq(Items) /\ Len(t) = n + 1
        /\ \A k \in 1 .. n + 1 : t[k] = r.items[r.order[k]]
    BY <1>2, <1>3, TurnElements
  <1> HIDE DEF s, t
  <1>9. ASSUME q.shuffle PROVE t = Append(s, item)
    <2>1. r.order = Append([k \in DOMAIN q.order |-> ShiftUp(q.order[k], index)], index)
      BY <1>2, <1>9
    <2> DEFINE o == Append([k \in DOMAIN q.order |-> ShiftUp(q.order[k], index)], index)
    <2>8. n \in Nat /\ IsOrder(q.order, n) /\ index \in 1 .. n + 1
      BY <1>1
    <2>9. /\ \A k \in 1 .. n : o[k] = ShiftUp(q.order[k], index)
          /\ o[n + 1] = index
      <3> HIDE DEF n
      <3> QED
        BY <2>8, InsertedOrder
    <2> HIDE DEF o
    <2>2. /\ r.order[n + 1] = index
          /\ \A k \in 1 .. n : r.order[k] = ShiftUp(q.order[k], index)
      BY <2>1, <2>9 DEF o
    <2> DEFINE u == Append(s, item)
    <2>3. /\ u \in Seq(Items) /\ Len(u) = n + 1 /\ u[n + 1] = item
          /\ \A k \in 1 .. n : u[k] = s[k]
      BY <1>1, <1>7
    <2> HIDE DEF u
    <2>4. t[n + 1] = u[n + 1]
      BY <1>1, <1>4, <1>8, <2>2, <2>3
    <2>5. \A k \in 1 .. n : t[k] = u[k]
      <3> SUFFICES ASSUME NEW k \in 1 .. n PROVE t[k] = u[k]
        OBVIOUS
      <3>1. t[k] = r.items[ShiftUp(q.order[k], index)]
        BY <1>1, <1>8, <2>2
      <3>2. u[k] = q.items[q.order[k]]
        BY <1>7, <2>3
      <3> QED
        BY <1>1, <1>5, <3>1, <3>2
    <2>6. \A k \in 1 .. Len(t) : t[k] = u[k]
      BY <1>1, <1>8, <2>4, <2>5
    <2>7. t = u
      BY <1>8, <2>3, <2>6, SeqEqual
    <2> QED
      BY <2>7 DEF u
  <1> QED
    BY <1>6, <1>9 DEF r, s, t

LEMMA RemovedItems ==
  ASSUME NEW S, NEW s \in Seq(S), NEW i \in 1 .. Len(s), NEW v \in 1 .. Len(s), v # i
  PROVE  /\ ShiftDown(v, i) \in 1 .. Len(s) - 1
         /\ RemoveAt(s, i)[ShiftDown(v, i)] = s[v]
  <1>1. \A k \in 1 .. Len(s) - 1 : RemoveAt(s, i)[k] = IF k < i THEN s[k] ELSE s[k + 1]
    BY RemoveAtElements
  <1>2. Len(s) \in Nat
    OBVIOUS
  <1>3. CASE v > i
    <2>1. ShiftDown(v, i) = v - 1 /\ v - 1 \in 1 .. Len(s) - 1 /\ ~(v - 1 < i) /\ v - 1 + 1 = v
      BY <1>2, <1>3 DEF ShiftDown
    <2> QED
      BY <1>1, <2>1
  <1>4. CASE ~(v > i)
    <2>1. ShiftDown(v, i) = v /\ v \in 1 .. Len(s) - 1 /\ v < i
      BY <1>2, <1>4 DEF ShiftDown
    <2> QED
      BY <1>1, <2>1
  <1> QED
    BY <1>3, <1>4

LEMMA RemoveKeepsTurns ==
  ASSUME NEW q, Sound(q), NEW p \in 1 .. Len(q.items)
  PROVE  LET r == RemoveItem(q, q.order[p]).queue IN
         /\ q.current # 0 /\ q.current # q.order[p] =>
              r.current # 0 /\ Current(r) = Current(q)
         /\ q.current = q.order[p] => (r.current = 0 <=> r.items = <<>>)
         /\ q.shuffle => PlaySequence(r) = RemoveAt(PlaySequence(q), p)
  <1> DEFINE r == RemoveItem(q, q.order[p]).queue
             i == q.order[p]
             n == Len(q.items)
             m == n - 1
             s == PlaySequence(q)
             t == PlaySequence(r)
  <1>1. /\ n \in Nat /\ q.items \in Seq(Items) /\ q.current \in 0 .. n
        /\ \A k \in 1 .. n : q.order[k] \in 1 .. n
        /\ IsOrder(q.order, n) /\ p \in 1 .. n /\ i \in 1 .. n
    BY SoundElements DEF Sound, Queues
  <1>2. /\ Sound(r) /\ r.items = RemoveAt(q.items, i)
        /\ r.current = AfterRemoval(q, i)
        /\ q.shuffle =>
             r.order = [k \in DOMAIN Without(q.order, i) |-> ShiftDown(Without(q.order, i)[k], i)]
    BY RemoveSound
  <1>3. \A k \in 1 .. n : k # p => q.order[k] # i
    BY <1>1 DEF IsOrder
  <1> HIDE DEF r
  <1>4. Len(r.items) = m
    BY <1>1, <1>2, RemoveAtElements
  <1>5. \A v \in 1 .. n : v # i =>
          ShiftDown(v, i) \in 1 .. m /\ r.items[ShiftDown(v, i)] = q.items[v]
    <2> HIDE DEF i
    <2> QED
      BY <1>1, <1>2, RemovedItems
  <1>6. ASSUME q.current # 0, q.current # i PROVE r.current # 0 /\ Current(r) = Current(q)
    <2> HIDE DEF i
    <2>1. q.current \in 1 .. n /\ m # 0
      <3>1. n \in Nat /\ q.current \in 1 .. n /\ i \in 1 .. n /\ q.current # i
        BY <1>1, <1>6
      <3> DEFINE c == q.current
      <3>2. n # 1
        <4> HIDE DEF n, c
        <4> QED
          BY <3>1 DEF c
      <3> HIDE DEF n
      <3> QED
        BY <3>1, <3>2
    <2>2. r.current = ShiftDown(q.current, i)
      BY <1>2, <1>6, <2>1 DEF AfterRemoval
    <2> QED
      BY <1>5, <1>6, <2>1, <2>2 DEF Current
  <1>7. ASSUME q.current = i PROVE r.current = 0 <=> r.items = <<>>
    <2>1. r.items = <<>> <=> m = 0
      BY <1>2, <1>4, EmptySeq DEF Sound, Queues
    <2> HIDE DEF i
    <2>2. r.current = 0 <=> m = 0
      BY <1>1, <1>2, <1>7 DEF AfterRemoval
    <2> QED
      BY <2>1, <2>2
  <1>8. /\ s \in Seq(Items) /\ Len(s) = n
        /\ \A k \in 1 .. n : s[k] = q.items[q.order[k]]
    BY TurnElements
  <1>9. /\ t \in Seq(Items) /\ Len(t) = m
        /\ \A k \in 1 .. m : t[k] = r.items[r.order[k]]
    BY <1>2, <1>4, TurnElements
  <1> HIDE DEF s, t
  <1>10. ASSUME q.shuffle PROVE t = RemoveAt(s, p)
    <2>1. r.order = [k \in DOMAIN Without(q.order, i) |-> ShiftDown(Without(q.order, i)[k], i)]
      BY <1>2, <1>10
    <2> DEFINE others == Without(q.order, q.order[p])
               o      == [k \in DOMAIN others |-> ShiftDown(others[k], q.order[p])]
    <2>10. n \in Nat /\ IsOrder(q.order, n) /\ p \in 1 .. n
      BY <1>1
    <2>11. \A k \in 1 .. n - 1 :
             o[k] = ShiftDown(IF k < p THEN q.order[k] ELSE q.order[k + 1], q.order[p])
      <3> HIDE DEF n
      <3> QED
        BY <2>10, RemovedOrder
    <2>12. r.order = o
      BY <2>1
    <2> HIDE DEF o
    <2>2. \A k \in 1 .. m :
            r.order[k] = ShiftDown(IF k < p THEN q.order[k] ELSE q.order[k + 1], i)
      BY <2>11, <2>12
    <2> DEFINE u == RemoveAt(s, p)
    <2>3. p \in 1 .. Len(s)
      BY <1>1, <1>8
    <2>4. u \in Seq(Items) /\ Len(u) = m
      BY <1>8, <2>3, RemoveAtElements
    <2>5. \A k \in 1 .. m : u[k] = IF k < p THEN s[k] ELSE s[k + 1]
      BY <1>8, <2>3, RemoveAtElements
    <2> HIDE DEF u, i
    <2>6. ASSUME NEW k \in 1 .. m PROVE t[k] = u[k]
      <3> DEFINE j == IF k < p THEN k ELSE k + 1
      <3>1. j \in 1 .. n /\ j # p
        BY <1>1
      <3>2. u[k] = s[j] /\ r.order[k] = ShiftDown(q.order[j], i)
        BY <2>2, <2>5
      <3> HIDE DEF j
      <3>3. u[k] = q.items[q.order[j]]
        BY <1>8, <3>1, <3>2
      <3>4. q.order[j] \in 1 .. n /\ q.order[j] # i
        BY <1>1, <1>3, <3>1
      <3>5. r.items[r.order[k]] = q.items[q.order[j]]
        BY <1>5, <3>2, <3>4
      <3> QED
        BY <1>9, <3>3, <3>5
    <2>7. \A k \in 1 .. Len(t) : t[k] = u[k]
      BY <1>9, <2>6
    <2>8. t = u
      BY <1>9, <2>4, <2>7, SeqEqual
    <2> QED
      BY <2>8 DEF u
  <1> QED
    BY <1>6, <1>7, <1>10 DEF r, s, t, i

LEMMA MoveKeepsTurns ==
  ASSUME NEW q, Sound(q), NEW from \in 1 .. Len(q.items), NEW to \in 1 .. Len(q.items),
         from # to
  PROVE  LET r == MoveItem(q, from, to).queue IN
         /\ q.current # 0 => r.current # 0 /\ Current(r) = Current(q)
         /\ q.shuffle => PlaySequence(r) = PlaySequence(q)
  <1> DEFINE r == MoveItem(q, from, to).queue
             n == Len(q.items)
             s == PlaySequence(q)
             t == PlaySequence(r)
  <1>1. /\ n \in Nat /\ q.items \in Seq(Items) /\ q.current \in 0 .. n
        /\ \A k \in 1 .. n : q.order[k] \in 1 .. n
        /\ IsOrder(q.order, n) /\ from \in 1 .. n /\ to \in 1 .. n
    BY SoundElements DEF Sound, Queues
  <1>2. /\ Sound(r) /\ r.items = InsertAt(RemoveAt(q.items, from), to, q.items[from])
        /\ r.current = (IF q.current = 0 THEN 0 ELSE RemapAfterMove(q.current, from, to))
        /\ q.shuffle => r.order = [k \in DOMAIN q.order |-> RemapAfterMove(q.order[k], from, to)]
    BY MoveSound
  <1> HIDE DEF r
  <1>3. Len(r.items) = n
    <2>1. RemoveAt(q.items, from) \in Seq(Items) /\ Len(RemoveAt(q.items, from)) = n - 1
      BY <1>1, RemoveAtElements
    <2> DEFINE left == RemoveAt(q.items, from)
    <2>2. left \in Seq(Items) /\ Len(left) = n - 1 /\ q.items[from] \in Items
      BY <1>1, <2>1
    <2> HIDE DEF left
    <2>3. to \in 1 .. Len(left) + 1 /\ Len(left) + 1 = n
      BY <1>1, <2>2
    <2>4. Len(InsertAt(left, to, q.items[from])) = Len(left) + 1
      BY <2>2, <2>3, InsertAtElements
    <2> QED
      BY <1>2, <2>3, <2>4 DEF left
  <1>4. \A v \in 1 .. n : r.items[RemapAfterMove(v, from, to)] = q.items[v]
    BY <1>1, <1>2, MovedItems
  <1>5. \A v \in 1 .. n : RemapAfterMove(v, from, to) # 0
    BY <1>1 DEF RemapAfterMove
  <1>6. q.current # 0 => r.current # 0 /\ Current(r) = Current(q)
    BY <1>1, <1>2, <1>4, <1>5 DEF Current
  <1>7. /\ s \in Seq(Items) /\ Len(s) = n
        /\ \A k \in 1 .. n : s[k] = q.items[q.order[k]]
    BY TurnElements
  <1>8. /\ t \in Seq(Items) /\ Len(t) = n
        /\ \A k \in 1 .. n : t[k] = r.items[r.order[k]]
    BY <1>2, <1>3, TurnElements
  <1> HIDE DEF s, t
  <1>9. ASSUME q.shuffle PROVE t = s
    <2> DEFINE o == [k \in DOMAIN q.order |-> RemapAfterMove(q.order[k], from, to)]
    <2>3. n \in Nat /\ IsOrder(q.order, n) /\ from \in 1 .. n /\ to \in 1 .. n
      BY <1>1
    <2>4. \A k \in 1 .. n : o[k] = RemapAfterMove(q.order[k], from, to)
      <3> HIDE DEF n
      <3> QED
        BY <2>3, MovedOrder
    <2>5. r.order = o
      BY <1>2, <1>9
    <2> HIDE DEF o
    <2>1. \A k \in 1 .. n : r.order[k] = RemapAfterMove(q.order[k], from, to)
      BY <2>4, <2>5
    <2>2. \A k \in 1 .. n : t[k] = s[k]
      <3> SUFFICES ASSUME NEW k \in 1 .. n PROVE t[k] = s[k]
        OBVIOUS
      <3>1. t[k] = r.items[RemapAfterMove(q.order[k], from, to)]
        BY <1>8, <2>1
      <3>2. q.order[k] \in 1 .. n /\ s[k] = q.items[q.order[k]]
        BY <1>1, <1>7
      <3> QED
        BY <1>4, <3>1, <3>2
    <2> QED
      BY <1>7, <1>8, <2>2, SeqEqual
  <1> QED
    BY <1>6, <1>9 DEF r, s, t

\* What the run checks of one call.
LEMMA CallsKeepTurns ==
  ASSUME Sound(queue)
  PROVE  KeepsCurrentTrack /\ KeepsTurns
  <1>1. /\ Len(queue.items) \in Nat /\ MaxItems \in Nat
        /\ queue.current \in 0 .. Len(queue.items)
        /\ DOMAIN queue.order = 1 .. Len(queue.items)
        /\ \A k \in 1 .. Len(queue.items) : queue.order[k] \in 1 .. Len(queue.items)
        /\ IsOrder(queue.order, Len(queue.items))
    BY SoundElements DEF Sound
  <1>2. ASSUME NEW item \in Items, AppendCall(item)
        PROVE  /\ queue.current # 0 => queue'.current # 0 /\ Current(queue') = Current(queue)
               /\ queue.shuffle => PlaySequence(queue') = Append(PlaySequence(queue), item)
    <2>1. queue' = AppendItem(queue, item).queue /\ Len(queue.items) < MaxItems
      BY <1>2 DEF AppendCall, Room, Answered
    <2> QED
      BY <2>1, AppendKeepsTurns
  <1>3. ASSUME NEW index \in 1 .. MaxItems + 1, NEW item \in Items, InsertCall(index, item)
        PROVE  queue.current # 0 => queue'.current # 0 /\ Current(queue') = Current(queue)
    <2>1. queue' = InsertItem(queue, index, item).queue /\ Len(queue.items) < MaxItems
      BY <1>3 DEF InsertCall, Room, Answered
    <2>2. CASE index > Len(queue.items) + 1
      BY <2>1, <2>2 DEF InsertItem, Returns
    <2>3. CASE ~(index > Len(queue.items) + 1)
      <3>1. index \in 1 .. Len(queue.items) + 1
        BY <1>1, <2>3
      <3> QED
        BY <2>1, <3>1, InsertKeepsTurns
    <2> QED
      BY <2>2, <2>3
  <1>4. ASSUME NEW item \in Items, NEW index \in 1 .. Len(queue.items) + 1,
               InsertCall(index, item), queue.shuffle
        PROVE  PlaySequence(queue') = Append(PlaySequence(queue), item)
    <2>1. queue' = InsertItem(queue, index, item).queue /\ Len(queue.items) < MaxItems
      BY <1>4 DEF InsertCall, Room, Answered
    <2> QED
      BY <1>4, <2>1, InsertKeepsTurns
  <1>5. ASSUME NEW index, index \in 1 .. Len(queue.items), RemoveCall(index), queue.current # 0
        PROVE  IF index = queue.current
               THEN queue'.current = 0 <=> queue'.items = <<>>
               ELSE queue'.current # 0 /\ Current(queue') = Current(queue)
    <2>1. queue' = RemoveItem(queue, index).queue
      BY <1>5 DEF RemoveCall, Answered
    <2>2. PICK p \in 1 .. Len(queue.items) : queue.order[p] = index
      BY <1>1, <1>5 DEF IsOrder
    <2> QED
      BY <1>5, <2>1, <2>2, RemoveKeepsTurns
  <1>6. ASSUME NEW index \in Places, index # queue.current, RemoveCall(index), queue.current # 0
        PROVE  queue'.current # 0 /\ Current(queue') = Current(queue)
    <2>1. CASE index > Len(queue.items)
      BY <1>6, <2>1 DEF RemoveCall, RemoveItem, Answered, Returns
    <2>2. CASE ~(index > Len(queue.items))
      <3>1. index \in 1 .. Len(queue.items)
        BY <1>1, <2>2 DEF Places
      <3> QED
        BY <1>5, <1>6, <3>1
    <2> QED
      BY <2>1, <2>2
  <1>7. ASSUME NEW from \in Places, NEW to \in Places, MoveCall(from, to)
        PROVE  /\ queue.current # 0 => queue'.current # 0 /\ Current(queue') = Current(queue)
               /\ queue.shuffle => PlaySequence(queue') = PlaySequence(queue)
    <2>1. queue' = MoveItem(queue, from, to).queue
      BY <1>7 DEF MoveCall, Answered
    <2>2. CASE from > Len(queue.items) \/ to > Len(queue.items) \/ from = to
      BY <2>1, <2>2 DEF MoveItem, Returns
    <2>3. CASE ~(from > Len(queue.items) \/ to > Len(queue.items) \/ from = to)
      <3>1. from \in 1 .. Len(queue.items) /\ to \in 1 .. Len(queue.items) /\ from # to
        BY <1>1, <2>3 DEF Places
      <3> QED
        BY <2>1, <3>1, MoveKeepsTurns
    <2> QED
      BY <2>2, <2>3
  <1>8. ASSUME NEW on \in BOOLEAN, NEW seed \in Seeds, ShuffleCall(on, seed), queue.current # 0
        PROVE  queue'.current # 0 /\ Current(queue') = Current(queue)
    <2>1. queue' = SetShuffle(queue, on, seed).queue
      BY <1>8 DEF ShuffleCall, Answered
    <2>2. queue'.items = queue.items /\ queue'.current = queue.current
      BY <2>1, ShuffleSound
    <2> QED
      BY <1>8, <2>2 DEF Current
  <1>9. ASSUME NEW k \in DOMAIN queue.order, RemoveCall(queue.order[k]), queue.shuffle
        PROVE  PlaySequence(queue') = RemoveAt(PlaySequence(queue), k)
    <2>1. queue' = RemoveItem(queue, queue.order[k]).queue /\ k \in 1 .. Len(queue.items)
      BY <1>1, <1>9 DEF RemoveCall, Answered
    <2> QED
      BY <1>9, <2>1, RemoveKeepsTurns
  <1>10. KeepsCurrentTrack
    <2> SUFFICES ASSUME queue.current # 0
                 PROVE  /\ (\/ \E item \in Items : AppendCall(item)
                            \/ \E index \in 1 .. MaxItems + 1, item \in Items :
                                 InsertCall(index, item)
                            \/ \E index \in Places : index # queue.current /\ RemoveCall(index)
                            \/ \E from, to \in Places : MoveCall(from, to)
                            \/ \E on \in BOOLEAN, seed \in Seeds : ShuffleCall(on, seed)
                           ) => queue'.current # 0 /\ Current(queue') = Current(queue)
                        /\ RemoveCall(queue.current) =>
                             (queue'.current = 0 <=> queue'.items = <<>>)
      BY DEF KeepsCurrentTrack
    <2>1. queue.current \in 1 .. Len(queue.items)
      BY <1>1
    <2>2. RemoveCall(queue.current) => (queue'.current = 0 <=> queue'.items = <<>>)
      BY <1>5, <2>1
    <2> QED
      BY <1>2, <1>3, <1>6, <1>7, <1>8, <2>2, Zenon
  <1>11. KeepsTurns
    BY <1>2, <1>4, <1>7, <1>9, Zenon DEF KeepsTurns
  <1> QED
    BY <1>10, <1>11

\* No append, insert, remove, move_item or set_shuffle of queue.rs changes which
\* track is current, and none that a shuffled queue takes changes the turns of
\* the tracks that stay.
THEOREM TurnsStayKept ==
  ASSUME CheckedReplace
  PROVE  Spec => TurnsAreKept
  <1>1. ASSUME Sound(queue), [Next]_qvars PROVE Sound(queue)'
    <2>1. CASE Next
      BY <1>1, <2>1, NextSound
    <2>2. CASE UNCHANGED qvars
      BY <1>1, <2>2 DEF qvars
    <2> QED
      BY <1>1, <2>1, <2>2
  <1>2. Sound(queue) => KeepsCurrentTrack /\ KeepsTurns
    BY CallsKeepTurns
  <1> QED
    BY <1>1, <1>2, InitSound, PTL DEF Spec, TurnsAreKept
=============================================================================
