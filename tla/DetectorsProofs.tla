--------------------------- MODULE DetectorsProofs ---------------------------
(***************************************************************************)
(* The inductive invariant of the detectors' histories and what it says of *)
(* their findings, for any events, windows, thresholds and steps of the    *)
(* clock.                                                                  *)
(***************************************************************************)
EXTENDS Detectors, SequenceTheorems, Sums, TLAPS

-----------------------------------------------------------------------------
(* Sequences that list entries of the history.                             *)

LEMMA MinIsLeast ==
  ASSUME NEW S \in SUBSET Nat, S # {}
  PROVE  Min(S) \in S /\ \A n \in S : Min(S) <= n
<1>1. \E n \in S : \A m \in S : n <= m  BY LeastNatural
<1>. QED BY <1>1 DEF Min

(* Recent drops a number of entries from the front, those that are too old. *)
LEMMA RecentDropsPrefix ==
  ASSUME NEW R, NEW w \in Seq(R), NEW c \in Int,
         \A k \in 1 .. Len(w) : w[k].at \in Int,
         \A k, l \in 1 .. Len(w) : k <= l => w[k].at <= w[l].at
  PROVE  \E d \in 0 .. Len(w) :
           /\ Recent(w, c) \in Seq(R)
           /\ Len(Recent(w, c)) = Len(w) - d
           /\ \A k \in 1 .. Len(w) - d : Recent(w, c)[k] = w[k + d]
           /\ \A k \in 1 .. Len(w) : k > d <=> w[k].at >= c
<1>. DEFINE young == {k \in DOMAIN w : w[k].at >= c}
<1>0. DOMAIN w = 1 .. Len(w) /\ Len(w) \in Nat  BY LenProperties
<1>1. CASE young = {}
  <2>1. Recent(w, c) = <<>>  BY <1>1 DEF Recent
  <2>2. <<>> \in Seq(R) /\ Len(<<>>) = 0  BY EmptySeq
  <2>3. \A k \in 1 .. Len(w) : ~(w[k].at >= c)  BY <1>0, <1>1
  <2>4. Len(w) \in 0 .. Len(w) /\ 1 .. Len(w) - Len(w) = {}  BY <1>0
  <2>. WITNESS Len(w) \in 0 .. Len(w)
  <2>. QED BY <1>0, <2>1, <2>2, <2>3
<1>2. CASE young # {}
  <2>. DEFINE m == Min(young)
  <2>1. m \in young /\ \A k \in young : m <= k
    <3>1. young \in SUBSET Nat  BY <1>0
    <3>. HIDE DEF young
    <3>. QED BY <1>2, <3>1, MinIsLeast
  <2>2. Recent(w, c) = SubSeq(w, m, Len(w))  BY <1>2 DEF Recent
  <2>3. m \in 1 .. Len(w) /\ w[m].at >= c  BY <1>0, <2>1
  <2>4. \A k \in 1 .. Len(w) : k > m - 1 <=> w[k].at >= c
    <3>1. ASSUME NEW k \in 1 .. Len(w), w[k].at >= c PROVE k > m - 1
      <4>1. k \in young  BY <1>0, <3>1
      <4>2. m <= k  BY <2>1, <4>1
      <4>. HIDE DEF m
      <4>. QED BY <1>0, <2>3, <4>2
    <3>2. ASSUME NEW k \in 1 .. Len(w), k > m - 1 PROVE w[k].at >= c
      <4>1. m <= k /\ w[m].at <= w[k].at /\ w[m].at \in Int /\ w[k].at \in Int
        BY <1>0, <2>3, <3>2
      <4>. QED BY <4>1, <2>3
    <3>. QED BY <3>1, <3>2
  <2>. HIDE DEF m, young
  <2>5. /\ SubSeq(w, m, Len(w)) \in Seq(R)
        /\ Len(SubSeq(w, m, Len(w))) = Len(w) - m + 1
        /\ \A k \in 1 .. Len(w) - m + 1 : SubSeq(w, m, Len(w))[k] = w[m + k - 1]
    BY <1>0, <2>3, SubSeqProperties
  <2>6. m - 1 \in 0 .. Len(w)  BY <1>0, <2>3
  <2>7. \A k \in 1 .. Len(w) - (m - 1) : Recent(w, c)[k] = w[k + (m - 1)]
    <3>1. ASSUME NEW k \in 1 .. Len(w) - (m - 1) PROVE Recent(w, c)[k] = w[k + (m - 1)]
      <4>1. k \in 1 .. Len(w) - m + 1 /\ m + k - 1 = k + (m - 1)  BY <1>0, <2>3
      <4>. QED BY <4>1, <2>2, <2>5
    <3>. QED BY <3>1
  <2>8. Len(Recent(w, c)) = Len(w) - (m - 1)  BY <1>0, <2>2, <2>3, <2>5
  <2>. QED BY <2>2, <2>4, <2>5, <2>6, <2>7, <2>8
<1>. QED BY <1>1, <1>2

(* What remains of a list after old entries are dropped lists what is not  *)
(* old.                                                                    *)
LEMMA RecentLists ==
  ASSUME NEW R, NEW w \in Seq(R), NEW c \in Int, NEW S \in SUBSET Int, NEW entry,
         ListsAll(w, S, entry),
         \A i \in S : entry[i].at \in Int,
         \A i, j \in S : i <= j => entry[i].at <= entry[j].at
  PROVE  /\ Recent(w, c) \in Seq(R)
         /\ ListsAll(Recent(w, c), {i \in S : entry[i].at >= c}, entry)
<1>. DEFINE T == {i \in S : entry[i].at >= c}
            v == Recent(w, c)
<1>0. DOMAIN w = 1 .. Len(w) /\ Len(w) \in Nat  BY LenProperties
<1>1. PICK f \in [DOMAIN w -> S] :
        Lists(w, f, S, entry) /\ \A i \in S : \E k \in DOMAIN w : f[k] = i
  BY DEF ListsAll
<1>2. /\ \A k \in 1 .. Len(w) : f[k] \in S /\ w[k] = entry[f[k]]
      /\ \A k, l \in 1 .. Len(w) : k < l => f[k] < f[l]
  BY <1>0, <1>1 DEF Lists
<1>3. \A k \in 1 .. Len(w) : w[k].at \in Int  BY <1>2
<1>4. \A k, l \in 1 .. Len(w) : k <= l => w[k].at <= w[l].at
  <2>1. ASSUME NEW k \in 1 .. Len(w), NEW l \in 1 .. Len(w), k <= l
        PROVE  w[k].at <= w[l].at
    <3>1. f[k] \in Int /\ f[l] \in Int /\ f[k] <= f[l]
      <4>0. f[k] \in Int /\ f[l] \in Int  BY <1>2
      <4>1. CASE k = l  BY <4>0, <4>1
      <4>2. CASE k < l
        <5>1. f[k] < f[l]  BY <1>2, <4>2
        <5>. QED BY <4>0, <5>1
      <4>. QED BY <2>1, <4>1, <4>2
    <3>. QED BY <1>2, <3>1
  <2>. QED BY <2>1
<1>5. PICK d \in 0 .. Len(w) :
        /\ v \in Seq(R)
        /\ Len(v) = Len(w) - d
        /\ \A k \in 1 .. Len(w) - d : v[k] = w[k + d]
        /\ \A k \in 1 .. Len(w) : k > d <=> w[k].at >= c
  BY <1>3, <1>4, RecentDropsPrefix
<1>. HIDE DEF v
<1>6. DOMAIN v = 1 .. Len(w) - d  BY <1>5, LenProperties
<1>. DEFINE g == [k \in 1 .. Len(w) - d |-> f[k + d]]
<1>7. \A k \in 1 .. Len(w) - d : k + d \in 1 .. Len(w) /\ k + d > d  BY <1>0, <1>5
<1>8. \A k \in 1 .. Len(w) - d : g[k] = f[k + d] /\ g[k] \in T /\ v[k] = entry[g[k]]
  <2>1. ASSUME NEW k \in 1 .. Len(w) - d
        PROVE  g[k] = f[k + d] /\ g[k] \in T /\ v[k] = entry[g[k]]
    <3>. DEFINE kd == k + d
    <3>1. kd \in 1 .. Len(w) /\ kd > d  BY <1>7
    <3>2. g[k] = f[kd] /\ v[k] = w[kd]  BY <1>5
    <3>. HIDE DEF kd
    <3>3. w[kd].at >= c /\ f[kd] \in S /\ w[kd] = entry[f[kd]]  BY <1>2, <1>5, <3>1
    <3>. QED BY <3>2, <3>3 DEF kd
  <2>. QED BY <2>1
<1>9. \A k, l \in 1 .. Len(w) - d : k < l => g[k] < g[l]
  BY <1>0, <1>2, <1>5, <1>7
<1>10. \A i \in T : \E k \in 1 .. Len(w) - d : g[k] = i
  <2>1. ASSUME NEW i \in T PROVE \E k \in 1 .. Len(w) - d : g[k] = i
    <3>1. PICK l \in 1 .. Len(w) : f[l] = i  BY <1>0, <1>1
    <3>2. w[l].at >= c  BY <1>2, <3>1
    <3>3. l > d  BY <1>5, <3>2
    <3>4. l - d \in 1 .. Len(w) - d /\ (l - d) + d = l  BY <1>0, <1>5, <3>1, <3>3
    <3>5. g[l - d] = i  BY <3>1, <3>4
    <3>. QED BY <3>4, <3>5
  <2>. QED BY <2>1
<1>11. g \in [DOMAIN v -> T]  BY <1>6, <1>8
<1>. HIDE DEF g, T
<1>12. Lists(v, g, T, entry)  BY <1>6, <1>8, <1>9, <1>11 DEF Lists
<1>13. ListsAll(v, T, entry)  BY <1>6, <1>10, <1>11, <1>12 DEF ListsAll
<1>. QED BY <1>5, <1>13 DEF v, T

(* A later entry is listed at the end.                                     *)
LEMMA AppendLists ==
  ASSUME NEW R, NEW w \in Seq(R), NEW x \in R, NEW S \in SUBSET Int, NEW m \in Int,
         NEW entry, NEW longer,
         ListsAll(w, S, entry),
         \A i \in S : i < m /\ longer[i] = entry[i],
         longer[m] = x
  PROVE  /\ Append(w, x) \in Seq(R)
         /\ ListsAll(Append(w, x), S \cup {m}, longer)
<1>. DEFINE v == Append(w, x)
            n == Len(w) + 1
<1>0. DOMAIN w = 1 .. Len(w) /\ Len(w) \in Nat  BY LenProperties
<1>1. PICK f \in [DOMAIN w -> S] :
        Lists(w, f, S, entry) /\ \A i \in S : \E k \in DOMAIN w : f[k] = i
  BY DEF ListsAll
<1>2. /\ v \in Seq(R) /\ Len(v) = n /\ v[n] = x
      /\ \A k \in 1 .. Len(w) : v[k] = w[k]
  BY AppendProperties
<1>3. DOMAIN v = 1 .. n /\ n \in Nat  BY <1>0, <1>2, LenProperties
<1>4. /\ \A k \in 1 .. n : k # n => k \in 1 .. Len(w)
      /\ \A k \in 1 .. Len(w) : k < n /\ k \in 1 .. n
      /\ n \in 1 .. n
  BY <1>0
<1>. HIDE DEF v, n
<1>. DEFINE g == [k \in 1 .. n |-> IF k = n THEN m ELSE f[k]]
<1>5. \A k \in 1 .. Len(w) : f[k] \in S /\ w[k] = entry[f[k]] /\ g[k] = f[k]
  BY <1>0, <1>1, <1>3, <1>4 DEF Lists
<1>6. g[n] = m  BY <1>4
<1>7. \A k \in 1 .. n : g[k] \in S \cup {m} /\ v[k] = longer[g[k]]
  <2>1. ASSUME NEW k \in 1 .. n PROVE g[k] \in S \cup {m} /\ v[k] = longer[g[k]]
    <3>1. CASE k = n  BY <1>2, <1>6, <3>1
    <3>2. CASE k # n  BY <1>2, <1>4, <1>5, <3>2
    <3>. QED BY <3>1, <3>2
  <2>. QED BY <2>1
<1>8. \A k, l \in 1 .. n : k < l => g[k] < g[l]
  <2>1. ASSUME NEW k \in 1 .. n, NEW l \in 1 .. n, k < l PROVE g[k] < g[l]
    <3>1. k # n /\ k \in 1 .. Len(w)  BY <1>3, <1>4, <2>1
    <3>2. CASE l = n
      <4>. HIDE DEF g
      <4>1. g[k] \in S /\ g[l] = m  BY <1>5, <1>6, <3>1, <3>2
      <4>. QED BY <4>1
    <3>3. CASE l # n
      <4>1. l \in 1 .. Len(w)  BY <1>4, <3>3
      <4>2. f[k] < f[l]  BY <1>0, <1>1, <2>1, <3>1, <4>1 DEF Lists
      <4>. QED BY <1>5, <3>1, <4>1, <4>2
    <3>. QED BY <3>2, <3>3
  <2>. QED BY <2>1
<1>9. \A i \in S \cup {m} : \E k \in 1 .. n : g[k] = i
  <2>1. ASSUME NEW i \in S PROVE \E k \in 1 .. n : g[k] = i
    BY <1>0, <1>1, <1>4, <1>5
  <2>. QED BY <2>1, <1>4, <1>6
<1>10. g \in [DOMAIN v -> S \cup {m}]  BY <1>3, <1>7
<1>. HIDE DEF g
<1>11. Lists(v, g, S \cup {m}, longer)  BY <1>3, <1>7, <1>8, <1>10 DEF Lists
<1>12. ListsAll(v, S \cup {m}, longer)
  <2>1. \A i \in S \cup {m} : \E k \in DOMAIN v : g[k] = i  BY <1>3, <1>9
  <2>. QED BY <1>10, <1>11, <2>1 DEF ListsAll
<1>. QED BY <1>2, <1>12 DEF v

(* The same list, of the same positions of a longer history.               *)
LEMMA ListsAllSame ==
  ASSUME NEW w, NEW S, NEW entry, NEW longer,
         ListsAll(w, S, entry), \A i \in S : longer[i] = entry[i]
  PROVE  ListsAll(w, S, longer)
<1>1. PICK f \in [DOMAIN w -> S] :
        Lists(w, f, S, entry) /\ \A i \in S : \E k \in DOMAIN w : f[k] = i
  BY DEF ListsAll
<1>2. Lists(w, f, S, longer)  BY <1>1 DEF Lists
<1>. QED BY <1>1, <1>2 DEF ListsAll

LEMMA ListsLastSame ==
  ASSUME NEW w, NEW S, NEW n, NEW entry, NEW longer,
         ListsLast(w, S, n, entry), \A i \in S : longer[i] = entry[i]
  PROVE  ListsLast(w, S, n, longer)
<1>1. PICK f \in [DOMAIN w -> S] :
        /\ Lists(w, f, S, entry)
        /\ \A i \in S : \/ \E k \in DOMAIN w : f[k] = i
                        \/ Len(w) = n /\ \A k \in DOMAIN w : i < f[k]
  BY DEF ListsLast
<1>2. Lists(w, f, S, longer)  BY <1>1 DEF Lists
<1>. QED BY <1>1, <1>2 DEF ListsLast

(* A bounded list takes a later entry at the end and drops its first one   *)
(* when it gets too long.                                                  *)
LEMMA AppendListsLast ==
  ASSUME NEW R, NEW w \in Seq(R), NEW x \in R, NEW S \in SUBSET Int, NEW m \in Int,
         NEW n \in Nat \ {0}, NEW entry, NEW longer,
         ListsLast(w, S, n, entry),
         \A i \in S : i < m /\ longer[i] = entry[i],
         longer[m] = x
  PROVE  /\ Bounded(Append(w, x), n) \in Seq(R)
         /\ ListsLast(Bounded(Append(w, x), n), S \cup {m}, n, longer)
<1>. DEFINE v == Append(w, x)
            u == Bounded(v, n)
            l == Len(w) + 1
            T == S \cup {m}
<1>0. DOMAIN w = 1 .. Len(w) /\ Len(w) \in Nat /\ Len(w) <= n
  BY LenProperties DEF ListsLast
<1>1. PICK f \in [DOMAIN w -> S] :
        /\ Lists(w, f, S, entry)
        /\ \A i \in S : \/ \E k \in DOMAIN w : f[k] = i
                        \/ Len(w) = n /\ \A k \in DOMAIN w : i < f[k]
  BY DEF ListsLast
<1>2. /\ v \in Seq(R) /\ Len(v) = l /\ v[l] = x
      /\ \A k \in 1 .. Len(w) : v[k] = w[k]
  BY AppendProperties
<1>3. DOMAIN v = 1 .. l /\ l \in Nat  BY <1>0, <1>2, LenProperties
<1>4. /\ \A k \in 1 .. l : k # l => k \in 1 .. Len(w)
      /\ \A k \in 1 .. Len(w) : k < l /\ k \in 1 .. l
      /\ l \in 1 .. l
  BY <1>0
<1>. DEFINE g == [k \in 1 .. l |-> IF k = l THEN m ELSE f[k]]
<1>5. \A k \in 1 .. Len(w) : f[k] \in S /\ w[k] = entry[f[k]] /\ g[k] = f[k]
  <2>1. ASSUME NEW k \in 1 .. Len(w) PROVE f[k] \in S /\ w[k] = entry[f[k]]
    BY <1>0, <1>1 DEF Lists
  <2>2. ASSUME NEW k \in 1 .. Len(w) PROVE g[k] = f[k]
    BY <1>3, <1>4
  <2>. QED BY <2>1, <2>2
<1>6. g[l] = m  BY <1>4
<1>7. \A k \in 1 .. l : g[k] \in T /\ v[k] = longer[g[k]]
  <2>1. ASSUME NEW k \in 1 .. l PROVE g[k] \in T /\ v[k] = longer[g[k]]
    <3>. HIDE DEF v, l, g
    <3>1. CASE k = l  BY <1>2, <1>6, <3>1
    <3>2. CASE k # l  BY <1>2, <1>4, <1>5, <3>2
    <3>. QED BY <3>1, <3>2
  <2>. QED BY <2>1
<1>8. \A k, h \in 1 .. l : k < h => g[k] < g[h]
  <2>1. ASSUME NEW k \in 1 .. l, NEW h \in 1 .. l, k < h PROVE g[k] < g[h]
    <3>1. k # l /\ k \in 1 .. Len(w)  BY <1>3, <1>4, <2>1
    <3>2. CASE h = l
      <4>. HIDE DEF g, l
      <4>. QED BY <1>5, <1>6, <3>1, <3>2
    <3>3. CASE h # l
      <4>1. h \in 1 .. Len(w)  BY <1>4, <3>3
      <4>2. f[k] < f[h]  BY <1>0, <1>1, <2>1, <3>1, <4>1 DEF Lists
      <4>. HIDE DEF g, l
      <4>. QED BY <1>5, <3>1, <4>1, <4>2
    <3>. QED BY <3>2, <3>3
  <2>. QED BY <2>1
<1>9. \A i \in S : \/ \E k \in 1 .. Len(w) : f[k] = i
                   \/ Len(w) = n /\ \A k \in 1 .. Len(w) : i < f[k]
  BY <1>0, <1>1
<1>. HIDE DEF v, g
<1>10. CASE ~(l > n)
  <2>1. u = v  BY <1>2, <1>10 DEF Bounded
  <2>2. Len(w) # n /\ Len(v) <= n
    <3>1. Len(v) = Len(w) + 1 /\ ~(Len(w) + 1 > n)  BY <1>2, <1>10
    <3>2. n \in Nat /\ Len(w) \in Nat  BY <1>0
    <3>. QED BY <3>1, <3>2
  <2>3. \A i \in T : \E k \in 1 .. l : g[k] = i
    <3>1. ASSUME NEW i \in S PROVE \E k \in 1 .. l : g[k] = i
      BY <1>4, <1>5, <1>9, <2>2
    <3>. QED BY <3>1, <1>4, <1>6
  <2>. HIDE DEF l
  <2>4. g \in [DOMAIN v -> T]  BY <1>3, <1>7 DEF g
  <2>5. Lists(v, g, T, longer)  BY <1>3, <1>7, <1>8, <2>4 DEF Lists
  <2>. HIDE DEF T
  <2>6. ListsLast(v, T, n, longer)
    <3>1. \A i \in T : \E k \in DOMAIN v : g[k] = i  BY <1>3, <2>3
    <3>. QED BY <2>2, <2>4, <2>5, <3>1 DEF ListsLast
  <2>. QED BY <1>2, <2>1, <2>6 DEF T, v
<1>11. CASE l > n
  <2>1. Len(w) = n
    <3>1. Len(w) + 1 > n /\ Len(w) \in Nat /\ Len(w) <= n  BY <1>0, <1>11
    <3>2. n \in Nat  OBVIOUS
    <3>. QED BY <3>1, <3>2
  <2>2. u = Tail(v) /\ v # <<>>
    <3>1. u = Tail(v)  BY <1>2, <1>11 DEF Bounded
    <3>2. Len(v) # 0  BY <1>0, <1>2
    <3>. QED BY <3>1, <3>2, EmptySeq
  <2>3. u \in Seq(R) /\ Len(u) = n /\ \A k \in 1 .. n : u[k] = v[k + 1]
    BY <1>0, <1>2, <2>1, <2>2, HeadTailProperties
  <2>4. DOMAIN u = 1 .. n  BY <2>3, LenProperties
  <2>. DEFINE h == [k \in 1 .. n |-> g[k + 1]]
  <2>5. \A k \in 1 .. n : k + 1 \in 1 .. l /\ k + 1 > 1  BY <2>1
  <2>6. \A k \in 1 .. n : h[k] = g[k + 1] /\ h[k] \in T /\ u[k] = longer[h[k]]
    <3>1. ASSUME NEW k \in 1 .. n
          PROVE  h[k] = g[k + 1] /\ h[k] \in T /\ u[k] = longer[h[k]]
      <4>. DEFINE k1 == k + 1
      <4>1. k1 \in 1 .. l /\ h[k] = g[k1] /\ u[k] = v[k1]  BY <2>3, <2>5
      <4>. HIDE DEF k1, T, l
      <4>2. h[k] = g[k1] /\ h[k] \in T /\ u[k] = longer[h[k]]  BY <4>1, <1>7
      <4>. QED BY <4>2 DEF k1
    <3>. QED BY <3>1
  <2>7. \A k, j \in 1 .. n : k < j => h[k] < h[j]
    BY <1>8, <2>1, <2>5
  <2>8. 1 \in 1 .. l /\ \A k \in 1 .. n : g[1] < h[k]
    <3>1. 1 \in 1 .. l  BY <1>0
    <3>. QED BY <1>8, <2>1, <2>5, <3>1
  <2>9. \A i \in T : \/ \E k \in 1 .. n : h[k] = i
                     \/ \A k \in 1 .. n : i < h[k]
    <3>1. ASSUME NEW k \in 1 .. l, k # 1 PROVE \E j \in 1 .. n : h[j] = g[k]
      <4>1. k - 1 \in 1 .. n /\ (k - 1) + 1 = k  BY <1>0, <2>1, <3>1
      <4>2. h[k - 1] = g[k]  BY <4>1
      <4>. QED BY <4>1, <4>2
    <3>2. ASSUME NEW k \in 1 .. l
          PROVE  (\E j \in 1 .. n : h[j] = g[k]) \/ \A j \in 1 .. n : g[k] < h[j]
      <4>1. CASE k = 1  BY <2>8, <4>1
      <4>2. CASE k # 1  BY <3>1, <4>2
      <4>. QED BY <4>1, <4>2
    <3>3. ASSUME NEW i \in S, \A k \in 1 .. Len(w) : i < f[k]
          PROVE  \A k \in 1 .. n : i < h[k]
      <4>1. 1 \in 1 .. Len(w) /\ g[1] = f[1] /\ f[1] \in S  BY <1>5, <2>1
      <4>2. i < g[1] /\ g[1] \in Int /\ i \in Int  BY <3>3, <4>1
      <4>3. \A k \in 1 .. n : h[k] \in Int  BY <2>6
      <4>. HIDE DEF h
      <4>. QED BY <4>2, <4>3, <2>8
    <3>4. ASSUME NEW i \in S, \E k \in 1 .. Len(w) : f[k] = i
          PROVE  \E k \in 1 .. l : g[k] = i
      BY <1>4, <1>5, <3>4
    <3>. HIDE DEF h, l
    <3>5. \A i \in S : (\E k \in 1 .. l : g[k] = i) \/ \A k \in 1 .. n : i < h[k]
      BY <1>9, <3>3, <3>4
    <3>6. \E k \in 1 .. l : g[k] = m  BY <1>4, <1>6
    <3>. QED BY <3>2, <3>5, <3>6
  <2>10. h \in [DOMAIN u -> T]  BY <2>4, <2>6
  <2>. HIDE DEF h, T, u
  <2>11. Lists(u, h, T, longer)  BY <2>4, <2>6, <2>7, <2>10 DEF Lists
  <2>12. ListsLast(u, T, n, longer)
    <3>1. Len(u) = n /\ Len(u) <= n  BY <2>3
    <3>2. \A i \in T : \/ \E k \in DOMAIN u : h[k] = i
                       \/ Len(u) = n /\ \A k \in DOMAIN u : i < h[k]
      BY <2>4, <2>9, <3>1
    <3>. QED BY <2>10, <2>11, <3>1, <3>2 DEF ListsLast
  <2>. QED BY <2>3, <2>12 DEF T, u, v
<1>. QED BY <1>3, <1>10, <1>11

(* A window that is trimmed and extended lists what is young again.        *)
Fresh(S, entry, d) == {i \in S : \A j \in S : entry[j].at - entry[i].at <= d}

Extends(R, w, S, m, d, t, entry, longer, x) ==
  /\ w \in Seq(R) /\ x \in R /\ S \in SUBSET Int /\ m \in Int /\ d \in Nat /\ t \in Int
  /\ ListsAll(w, Fresh(S, entry, d), entry)
  /\ \A i \in S : i < m /\ longer[i] = entry[i] /\ entry[i].at \in Int /\ entry[i].at <= t
  /\ \A i, j \in S : i <= j => entry[i].at <= entry[j].at
  /\ longer[m] = x /\ x.at = t

LEMMA WindowGrows ==
  ASSUME NEW R, NEW w, NEW S, NEW m, NEW d, NEW t, NEW entry, NEW longer, NEW x,
         Extends(R, w, S, m, d, t, entry, longer, x),
         NEW c, c = t - d
  PROVE  /\ Append(Recent(w, c), x) \in Seq(R)
         /\ ListsAll(Append(Recent(w, c), x), Fresh(S \cup {m}, longer, d), longer)
<1>. w \in Seq(R) /\ x \in R /\ S \in SUBSET Int /\ m \in Int /\ d \in Nat /\ t \in Int
  BY DEF Extends
<1>. /\ \A i \in S : i < m /\ longer[i] = entry[i] /\ entry[i].at \in Int /\ entry[i].at <= t
     /\ \A i, j \in S : i <= j => entry[i].at <= entry[j].at
     /\ longer[m] = x /\ x.at = t
  BY DEF Extends
<1>. DEFINE Y == Fresh(S, entry, d)
            T == {i \in Y : entry[i].at >= c}
            v == Recent(w, c)
<1>0. Y \in SUBSET S /\ Y \in SUBSET Int /\ c \in Int
  <2>1. Y \subseteq S  BY DEF Fresh
  <2>2. c \in Int  OBVIOUS
  <2>. QED BY <2>1, <2>2
<1>1. v \in Seq(R) /\ ListsAll(v, T, entry)
  <2>. HIDE DEF Y
  <2>1. \A i \in Y : entry[i].at \in Int  BY <1>0
  <2>2. \A i, j \in Y : i <= j => entry[i].at <= entry[j].at  BY <1>0
  <2>3. ListsAll(w, Y, entry)  BY DEF Y, Extends
  <2>. QED BY <1>0, <2>1, <2>2, <2>3, RecentLists
<1>2. T \in SUBSET S /\ T \in SUBSET Int  BY <1>0
<1>3. Fresh(S \cup {m}, longer, d) = T \cup {m}
  <2>1. ASSUME NEW i \in S PROVE i \in Fresh(S \cup {m}, longer, d) <=> entry[i].at >= c
    <3>1. /\ entry[i].at \in Int /\ longer[i].at = entry[i].at /\ longer[m].at = t
          /\ \A j \in S : longer[j].at = entry[j].at /\ entry[j].at \in Int /\ entry[j].at <= t
      OBVIOUS
    <3>2. i \in Fresh(S \cup {m}, longer, d) <=>
            \A j \in S \cup {m} : longer[j].at - longer[i].at <= d
      BY DEF Fresh
    <3>3. ASSUME entry[i].at >= c PROVE \A j \in S \cup {m} : longer[j].at - longer[i].at <= d
      <4>1. t - entry[i].at <= d  BY <3>1, <3>3
      <4>2. \A j \in S : longer[j].at - longer[i].at <= d
        <5>1. ASSUME NEW j \in S PROVE longer[j].at - longer[i].at <= d
          <6>1. entry[j].at \in Int /\ entry[j].at <= t  BY <3>1
          <6>2. entry[j].at - entry[i].at <= d  BY <3>1, <4>1, <6>1
          <6>. QED BY <3>1, <6>2
        <5>. QED BY <5>1
      <4>. QED BY <3>1, <4>1, <4>2
    <3>4. ASSUME longer[m].at - longer[i].at <= d PROVE entry[i].at >= c
      BY <3>1, <3>4
    <3>. QED BY <3>2, <3>3, <3>4
  <2>2. ASSUME NEW i \in S, entry[i].at >= c PROVE i \in Y
    <3>1. entry[i].at \in Int  OBVIOUS
    <3>2. ASSUME NEW j \in S PROVE entry[j].at - entry[i].at <= d
      <4>1. entry[j].at \in Int /\ entry[j].at <= t  OBVIOUS
      <4>. QED BY <2>2, <3>1, <4>1
    <3>. QED BY <3>2 DEF Fresh
  <2>3. m \in Fresh(S \cup {m}, longer, d)
    <3>1. \A j \in S : longer[j].at = entry[j].at /\ entry[j].at \in Int /\ entry[j].at <= t
      OBVIOUS
    <3>2. longer[m].at = t  OBVIOUS
    <3>3. \A j \in S \cup {m} : longer[j].at - longer[m].at <= d
      <4>1. ASSUME NEW j \in S PROVE longer[j].at - longer[m].at <= d
        <5>1. entry[j].at \in Int /\ entry[j].at <= t /\ longer[j].at = entry[j].at  BY <3>1
        <5>. QED BY <3>2, <5>1
      <4>. QED BY <3>2, <4>1
    <3>. QED BY <3>3 DEF Fresh
  <2>4. Fresh(S \cup {m}, longer, d) \subseteq S \cup {m}  BY DEF Fresh
  <2>. HIDE DEF Y
  <2>5. \A i : i \in T <=> i \in S /\ entry[i].at >= c  BY <1>2, <2>2
  <2>6. \A i \in S : i \in Fresh(S \cup {m}, longer, d) <=> i \in T  BY <2>1, <2>5
  <2>. QED BY <1>2, <2>3, <2>4, <2>6
<1>4. \A i \in T : i < m /\ longer[i] = entry[i]  BY <1>2
<1>. HIDE DEF T, v
<1>5. Append(v, x) \in Seq(R) /\ ListsAll(Append(v, x), T \cup {m}, longer)
  BY <1>1, <1>2, <1>4, AppendLists
<1>. QED BY <1>3, <1>5 DEF v

-----------------------------------------------------------------------------
(* The histories.                                                          *)

LEMMA EventFacts ==
  ASSUME NEW e \in Events
  PROVE  /\ e.account \in Accounts /\ Book(e) \in Books /\ e.order \in OrderIDs
         /\ e.action \in {"SUBMIT", "CANCEL", "FILL", "MODIFY"} /\ e.side \in {"BUY", "SELL"}
         /\ e.price \in Int /\ e.qty \in Int /\ e.stamp \in Int
BY DetectorAssumption DEF Accounts, Books, OrderIDs, Book

LEMMA Parameters ==
  /\ WindowSize \in Nat \ {0} /\ MaxRate \in Nat \ {0} /\ Lookback \in Nat \ {0}
  /\ MinHistory \in Nat \ {0} /\ WashWindow \in Nat \ {0} /\ MinRoundTrips \in Nat \ {0}
  /\ Advances \subseteq Nat
BY DetectorAssumption

(* A check adds an event to the end of the history.                        *)
Checked(e) == now' \in Nat /\ now <= now' /\ Detect(e)

LEMMA HistoryFacts ==
  ASSUME DetectorsTypeOK
  PROVE  /\ Len(history) \in Nat /\ DOMAIN history = 1 .. Len(history)
         /\ \A i \in DOMAIN history : history[i].event \in Events /\ history[i].at \in Nat
<1>1. history \in Seq([event : Events, at : Nat])  BY DEF DetectorsTypeOK
<1>2. Len(history) \in Nat /\ DOMAIN history = 1 .. Len(history)
  BY <1>1, LenProperties
<1>3. \A i \in 1 .. Len(history) : history[i] \in [event : Events, at : Nat]
  BY <1>1, ElementOfSeq
<1>. QED BY <1>2, <1>3

LEMMA HistoryGrows ==
  ASSUME DetectorsTypeOK, NEW e \in Events, Checked(e), NEW m, m = Len(history) + 1
  PROVE  /\ m \in Int /\ Len(history') = m /\ DOMAIN history' = DOMAIN history \cup {m}
         /\ history' \in Seq([event : Events, at : Nat])
         /\ history'[m] = [event |-> e, at |-> now']
         /\ \A i \in DOMAIN history : i \in Int /\ i < m /\ history'[i] = history[i]
<1>1. history \in Seq([event : Events, at : Nat])  BY DEF DetectorsTypeOK
<1>. DEFINE x == [event |-> e, at |-> now']
<1>2. x \in [event : Events, at : Nat] /\ history' = Append(history, x)
  BY DEF Checked, Detect
<1>. HIDE DEF x
<1>3. /\ Append(history, x) \in Seq([event : Events, at : Nat])
      /\ Len(Append(history, x)) = Len(history) + 1
      /\ Append(history, x)[Len(history) + 1] = x
      /\ \A i \in 1 .. Len(history) : Append(history, x)[i] = history[i]
  BY <1>1, <1>2, AppendProperties
<1>4. Len(history) \in Nat /\ DOMAIN history = 1 .. Len(history)  BY HistoryFacts
<1>5. DOMAIN Append(history, x) = 1 .. Len(history) + 1
  BY <1>3, LenProperties
<1>6. 1 .. Len(history) + 1 = (1 .. Len(history)) \cup {Len(history) + 1}  BY <1>4
<1>. QED BY <1>2, <1>3, <1>4, <1>5, <1>6 DEF x

LEMMA TimeKeeps ==
  ASSUME DetectorsInd, NEW e \in Events, Checked(e)
  PROVE  TimeAdvances'
<1>. DEFINE m == Len(history) + 1
<1>0. now \in Nat /\ now' \in Nat /\ now <= now' /\ DetectorsTypeOK /\ TimeAdvances
  BY DEF DetectorsInd, DetectorsTypeOK, Checked
<1>1. /\ m \in Int /\ DOMAIN history' = DOMAIN history \cup {m}
      /\ history'[m] = [event |-> e, at |-> now']
      /\ \A i \in DOMAIN history : i \in Int /\ i < m /\ history'[i] = history[i]
  BY <1>0, HistoryGrows
<1>2. \A i \in DOMAIN history : history[i].at \in Nat  BY <1>0, HistoryFacts
<1>. HIDE DEF m
<1>3. ASSUME NEW i \in DOMAIN history PROVE history'[i].at <= now' /\ history'[i].at \in Nat
  <2>1. history[i].at <= now /\ history[i].at \in Nat  BY <1>0, <1>2 DEF TimeAdvances
  <2>. QED BY <1>0, <1>1, <2>1
<1>4. ASSUME NEW i \in DOMAIN history, NEW j \in DOMAIN history, i <= j
      PROVE  history'[i].at <= history'[j].at
  BY <1>0, <1>1, <1>4 DEF TimeAdvances
<1>5. \A i \in DOMAIN history' : history'[i].at <= now'  BY <1>0, <1>1, <1>3
<1>6. ASSUME NEW i \in DOMAIN history', NEW j \in DOMAIN history', i <= j
      PROVE  history'[i].at <= history'[j].at
  <2>1. CASE j = m  BY <1>1, <1>5, <2>1
  <2>2. CASE i # m /\ j # m  BY <1>1, <1>4, <1>6, <2>2
  <2>3. CASE i = m /\ j # m  BY <1>1, <1>6, <2>3
  <2>. QED BY <2>1, <2>2, <2>3
<1>. QED BY <1>5, <1>6 DEF TimeAdvances

(* The windows of the account and of the book the event concerns grow, the *)
(* others stay as they are.                                                *)
LEMMA YoungIsFresh ==
  ASSUME NEW S, S \subseteq DOMAIN history, NEW d
  PROVE  Young(S, d) = Fresh(S, Times, d) /\ Young(S, d) = Fresh(S, Trades, d)
BY DEF Young, Fresh, Times, Trades

LEMMA VelocityKeeps ==
  ASSUME DetectorsInd, NEW e \in Events, Checked(e), NEW a \in Accounts
  PROVE  /\ velocity'[a] \in Seq([at : Nat])
         /\ ListsAll(velocity'[a], Young(OfAccount(a), WindowSize)', Times')
<1>. DEFINE m == Len(history) + 1
            S == OfAccount(a)
            w == velocity[a]
            d == WindowSize
            x == [at |-> now']
<1>0. DetectorsTypeOK /\ TimeAdvances /\ WindowsHoldHistory /\ now' \in Nat
      /\ now <= now' /\ now \in Nat /\ d \in Nat
  BY Parameters DEF DetectorsInd, Checked, DetectorsTypeOK
<1>1. /\ m \in Int /\ DOMAIN history' = DOMAIN history \cup {m}
      /\ history'[m] = [event |-> e, at |-> now']
      /\ \A i \in DOMAIN history : i \in Int /\ i < m /\ history'[i] = history[i]
  BY <1>0, HistoryGrows
<1>2. S \subseteq DOMAIN history /\ S \in SUBSET Int  BY <1>1 DEF OfAccount
<1>3. w \in Seq([at : Nat]) /\ ListsAll(w, Fresh(S, Times, d), Times)
  BY <1>0, <1>2, YoungIsFresh DEF DetectorsTypeOK, WindowsHoldHistory
<1>. HIDE DEF m
<1>4. /\ \A i \in DOMAIN history : Times'[i] = Times[i] /\ Times[i].at = history[i].at
      /\ Times'[m] = x
  BY <1>1 DEF Times
<1>5. \A i \in S : i < m /\ Times'[i] = Times[i] /\ Times[i].at \in Int /\ Times[i].at <= now'
  <2>1. ASSUME NEW i \in S PROVE Times[i].at \in Int /\ Times[i].at <= now'
    <3>1. history[i].at \in Nat /\ history[i].at <= now
      BY <1>0, <1>2, HistoryFacts DEF TimeAdvances
    <3>. QED BY <1>0, <1>2, <1>4, <3>1
  <2>. QED BY <1>1, <1>2, <1>4, <2>1
<1>6. \A i, j \in S : i <= j => Times[i].at <= Times[j].at
  BY <1>0, <1>2, <1>4 DEF TimeAdvances
<1>7. CASE e.account = a
  <2>1. OfAccount(a)' = S \cup {m}  BY <1>1, <1>7 DEF OfAccount
  <2>2. velocity'[a] = Append(Recent(w, now' - d), x)
    BY <1>0, <1>7 DEF Checked, Detect, VelocityWindow, DetectorsTypeOK
  <2>3. x \in [at : Nat] /\ x.at = now' /\ now' \in Int  BY <1>0
  <2>. DEFINE longer == Times'
              entry  == Times
              t      == now'
              R      == [at : Nat]
              c      == t - d
  <2>. HIDE DEF S, w, x, d, longer, entry, t, R, c
  <2>4. ListsAll(w, Fresh(S, entry, d), entry)  BY <1>3 DEF entry
  <2>5. \A i \in S : i < m /\ longer[i] = entry[i] /\ entry[i].at \in Int /\ entry[i].at <= t
    BY <1>5 DEF entry, longer, t
  <2>6. \A i, j \in S : i <= j => entry[i].at <= entry[j].at  BY <1>6 DEF entry
  <2>7. longer[m] = x /\ x.at = t /\ t \in Int  BY <1>4, <2>3 DEF longer, t
  <2>8. /\ w \in Seq(R) /\ x \in R /\ S \in SUBSET Int
         /\ m \in Int /\ d \in Nat
    BY <1>0, <1>1, <1>2, <1>3, <2>3 DEF R
  <2>9. Extends(R, w, S, m, d, t, entry, longer, x)
    BY <2>4, <2>5, <2>6, <2>7, <2>8 DEF Extends
  <2>10. c = t - d  BY DEF c
  <2>11. /\ Append(Recent(w, c), x) \in Seq(R)
         /\ ListsAll(Append(Recent(w, c), x), Fresh(S \cup {m}, longer, d), longer)
    BY <2>9, <2>10, WindowGrows
  <2>12. /\ velocity'[a] \in Seq([at : Nat])
        /\ ListsAll(velocity'[a], Fresh(S \cup {m}, Times', d), Times')
    BY <2>2, <2>11 DEF longer, t, R, c
  <2>13. Young(OfAccount(a), WindowSize)' = Fresh(S \cup {m}, Times', d)
    BY <1>1, <1>2, <2>1 DEF Young, Fresh, Times, d
  <2>. QED BY <2>12, <2>13
<1>8. CASE e.account # a
  <2>1. OfAccount(a)' = S  BY <1>1, <1>8 DEF OfAccount
  <2>2. velocity'[a] = w
    BY <1>0, <1>8 DEF Checked, Detect, DetectorsTypeOK
  <2>3. Young(OfAccount(a), WindowSize)' = Fresh(S, Times, d)
    BY <1>1, <1>2, <2>1 DEF Young, Fresh, Times
  <2>4. Fresh(S, Times, d) \subseteq S  BY DEF Fresh
  <2>. HIDE DEF S, w, d
  <2>5. ListsAll(w, Fresh(S, Times, d), Times')  BY <1>3, <1>5, <2>4, ListsAllSame
  <2>. QED BY <1>3, <2>2, <2>3, <2>5
<1>. QED BY <1>7, <1>8

TradeEntry == [side : {"BUY", "SELL"}, price : Int, at : Nat]

LEMMA WashKeeps ==
  ASSUME DetectorsInd, NEW e \in Events, Checked(e), NEW b \in Books
  PROVE  /\ wash'[b] \in Seq(TradeEntry)
         /\ ListsAll(wash'[b], Young(OfBook(b), WashWindow)', Trades')
<1>. DEFINE m == Len(history) + 1
            S == OfBook(b)
            w == wash[b]
            d == WashWindow
            x == [side |-> e.side, price |-> e.price, at |-> now']
<1>0. DetectorsTypeOK /\ TimeAdvances /\ WindowsHoldHistory /\ now' \in Nat
      /\ now <= now' /\ now \in Nat /\ d \in Nat
  BY Parameters DEF DetectorsInd, Checked, DetectorsTypeOK
<1>1. /\ m \in Int /\ DOMAIN history' = DOMAIN history \cup {m}
      /\ history'[m] = [event |-> e, at |-> now']
      /\ \A i \in DOMAIN history : i \in Int /\ i < m /\ history'[i] = history[i]
  BY <1>0, HistoryGrows
<1>2. S \subseteq DOMAIN history /\ S \in SUBSET Int  BY <1>1 DEF OfBook
<1>3. w \in Seq(TradeEntry) /\ ListsAll(w, Fresh(S, Trades, d), Trades)
  BY <1>0, <1>2, YoungIsFresh DEF DetectorsTypeOK, WindowsHoldHistory, TradeEntry
<1>. HIDE DEF m
<1>4. /\ \A i \in DOMAIN history : Trades'[i] = Trades[i] /\ Trades[i].at = history[i].at
      /\ Trades'[m] = x
  BY <1>1 DEF Trades
<1>5. \A i \in S : i < m /\ Trades'[i] = Trades[i] /\ Trades[i].at \in Int /\ Trades[i].at <= now'
  <2>1. ASSUME NEW i \in S PROVE Trades[i].at \in Int /\ Trades[i].at <= now'
    <3>1. history[i].at \in Nat /\ history[i].at <= now
      BY <1>0, <1>2, HistoryFacts DEF TimeAdvances
    <3>. QED BY <1>0, <1>2, <1>4, <3>1
  <2>. QED BY <1>1, <1>2, <1>4, <2>1
<1>6. \A i, j \in S : i <= j => Trades[i].at <= Trades[j].at
  BY <1>0, <1>2, <1>4 DEF TimeAdvances
<1>7. CASE Book(e) = b
  <2>1. OfBook(b)' = S \cup {m}  BY <1>1, <1>7 DEF OfBook
  <2>2. wash'[b] = Append(Recent(w, now' - d), x)
    BY <1>0, <1>7 DEF Checked, Detect, WashWindowBefore, DetectorsTypeOK
  <2>3. x \in TradeEntry /\ x.at = now' /\ now' \in Int  BY <1>0, EventFacts DEF TradeEntry
  <2>. DEFINE longer == Trades'
              entry  == Trades
              t      == now'
              R      == TradeEntry
              c      == t - d
  <2>. HIDE DEF S, w, x, d, longer, entry, t, R, c
  <2>4. ListsAll(w, Fresh(S, entry, d), entry)  BY <1>3 DEF entry
  <2>5. \A i \in S : i < m /\ longer[i] = entry[i] /\ entry[i].at \in Int /\ entry[i].at <= t
    BY <1>5 DEF entry, longer, t
  <2>6. \A i, j \in S : i <= j => entry[i].at <= entry[j].at  BY <1>6 DEF entry
  <2>7. longer[m] = x /\ x.at = t /\ t \in Int  BY <1>4, <2>3 DEF longer, t
  <2>8. /\ w \in Seq(R) /\ x \in R /\ S \in SUBSET Int
         /\ m \in Int /\ d \in Nat
    BY <1>0, <1>1, <1>2, <1>3, <2>3 DEF R
  <2>9. Extends(R, w, S, m, d, t, entry, longer, x)
    BY <2>4, <2>5, <2>6, <2>7, <2>8 DEF Extends
  <2>10. c = t - d  BY DEF c
  <2>11. /\ Append(Recent(w, c), x) \in Seq(R)
         /\ ListsAll(Append(Recent(w, c), x), Fresh(S \cup {m}, longer, d), longer)
    BY <2>9, <2>10, WindowGrows
  <2>12. /\ wash'[b] \in Seq(TradeEntry)
        /\ ListsAll(wash'[b], Fresh(S \cup {m}, Trades', d), Trades')
    BY <2>2, <2>11 DEF longer, t, R, c
  <2>13. Young(OfBook(b), WashWindow)' = Fresh(S \cup {m}, Trades', d)
    BY <1>1, <1>2, <2>1 DEF Young, Fresh, Trades, d
  <2>. QED BY <2>12, <2>13
<1>8. CASE Book(e) # b
  <2>1. OfBook(b)' = S  BY <1>1, <1>8 DEF OfBook
  <2>2. wash'[b] = w
    BY <1>0, <1>8 DEF Checked, Detect, DetectorsTypeOK
  <2>3. Young(OfBook(b), WashWindow)' = Fresh(S, Trades, d)
    BY <1>1, <1>2, <2>1 DEF Young, Fresh, Trades
  <2>4. Fresh(S, Trades, d) \subseteq S  BY DEF Fresh
  <2>. HIDE DEF S, w, d
  <2>5. ListsAll(w, Fresh(S, Trades, d), Trades')  BY <1>3, <1>5, <2>4, ListsAllSame
  <2>. QED BY <1>3, <2>2, <2>3, <2>5
<1>. QED BY <1>7, <1>8

QuoteEntry == [price : Int, qty : Int]

LEMMA QuotesKeep ==
  ASSUME DetectorsInd, NEW e \in Events, Checked(e), NEW b \in Books
  PROVE  /\ vwap'[b] \in Seq(QuoteEntry)
         /\ ListsLast(vwap'[b], OfBook(b)', Lookback, Quotes')
<1>. DEFINE m == Len(history) + 1
            S == OfBook(b)
            w == vwap[b]
            x == [price |-> e.price, qty |-> e.qty]
<1>0. DetectorsTypeOK /\ WindowsHoldHistory /\ Lookback \in Nat \ {0}
  BY Parameters DEF DetectorsInd
<1>1. /\ m \in Int /\ DOMAIN history' = DOMAIN history \cup {m}
      /\ history'[m] = [event |-> e, at |-> now']
      /\ \A i \in DOMAIN history : i \in Int /\ i < m /\ history'[i] = history[i]
  BY <1>0, HistoryGrows
<1>2. S \subseteq DOMAIN history /\ S \in SUBSET Int  BY <1>1 DEF OfBook
<1>3. w \in Seq(QuoteEntry) /\ ListsLast(w, S, Lookback, Quotes)
  BY <1>0 DEF DetectorsTypeOK, WindowsHoldHistory, QuoteEntry
<1>. HIDE DEF m
<1>4. Quotes'[m] = x /\ \A i \in DOMAIN history : Quotes'[i] = Quotes[i]
  BY <1>1 DEF Quotes
<1>5. CASE Book(e) = b
  <2>1. OfBook(b)' = S \cup {m}  BY <1>1, <1>5 DEF OfBook
  <2>2. vwap'[b] = Bounded(Append(w, x), Lookback)
    BY <1>0, <1>5 DEF Checked, Detect, VWAPWindow, DetectorsTypeOK
  <2>3. x \in QuoteEntry  BY EventFacts DEF QuoteEntry
  <2>. DEFINE longer == Quotes'
              entry  == Quotes
  <2>4. \A i \in S : i < m /\ longer[i] = entry[i]  BY <1>1, <1>2, <1>4
  <2>5. longer[m] = x  BY <1>4
  <2>6. ListsLast(w, S, Lookback, entry)  BY <1>3
  <2>. HIDE DEF S, w, x, longer, entry
  <2>7. /\ Bounded(Append(w, x), Lookback) \in Seq(QuoteEntry)
        /\ ListsLast(Bounded(Append(w, x), Lookback), S \cup {m}, Lookback, longer)
    BY <1>0, <1>1, <1>2, <1>3, <2>3, <2>4, <2>5, <2>6, AppendListsLast
  <2>. QED BY <2>1, <2>2, <2>7 DEF longer
<1>6. CASE Book(e) # b
  <2>1. OfBook(b)' = S  BY <1>1, <1>6 DEF OfBook
  <2>2. vwap'[b] = w  BY <1>0, <1>6 DEF Checked, Detect, DetectorsTypeOK
  <2>3. \A i \in S : Quotes'[i] = Quotes[i]  BY <1>2, <1>4
  <2>. HIDE DEF S, w
  <2>4. ListsLast(w, S, Lookback, Quotes')  BY <1>3, <2>3, ListsLastSame
  <2>. QED BY <1>3, <2>1, <2>2, <2>4
<1>. QED BY <1>5, <1>6

(* What is kept of an order.                                               *)
LEMMA LifecyclesKeep ==
  ASSUME DetectorsInd, NEW e \in Events, Checked(e)
  PROVE  LifecyclesFollowHistory'
<1>0. DetectorsTypeOK /\ LifecyclesFollowHistory  BY DEF DetectorsInd
<1>1. PICK m \in Int :
        /\ m = Len(history) + 1 /\ DOMAIN history' = DOMAIN history \cup {m}
        /\ Len(history') = m /\ history'[m] = [event |-> e, at |-> now']
        /\ \A i \in DOMAIN history : i \in Int /\ i < m /\ history'[i] = history[i]
  <2>. DEFINE n == Len(history) + 1
  <2>1. /\ n \in Int /\ DOMAIN history' = DOMAIN history \cup {n}
        /\ Len(history') = n /\ history'[n] = [event |-> e, at |-> now']
        /\ \A i \in DOMAIN history : i \in Int /\ i < n /\ history'[i] = history[i]
    BY <1>0, HistoryGrows
  <2>2. n = Len(history) + 1  OBVIOUS
  <2>. HIDE DEF n
  <2>. QED BY <2>1, <2>2
<1>2. DOMAIN history = 1 .. Len(history) /\ Len(history) \in Nat  BY <1>0, HistoryFacts
<1>3. \A i \in 1 .. m : \A j \in i .. m : j = m \/ j \in i .. Len(history)  BY <1>1, <1>2
<1>4. \A i \in DOMAIN history : i .. Len(history) \subseteq DOMAIN history
                              /\ i .. Len(history) \subseteq i .. m /\ m \in i .. m
  BY <1>1, <1>2
<1>5. ASSUME NEW o \in OrderIDs, lifecycle'[o].known
      PROVE  \E i \in DOMAIN history' :
               /\ LastSubmission(i, o)' /\ history'[i].event.stamp = lifecycle'[o].submitted
               /\ lifecycle'[o].filled = 0 => NotFilledSince(i, o)'
  <2>1. CASE e.action = "SUBMIT" /\ e.order = o
    <3>1. lifecycle'[o].submitted = e.stamp
      BY <1>0, <2>1 DEF Checked, Detect, Lifecycles, DetectorsTypeOK, Submitted
    <3>2. LastSubmission(m, o)'  BY <1>1, <2>1 DEF LastSubmission, IsOf
    <3>3. NotFilledSince(m, o)'
      <4>1. \A j \in m .. m : j = m  BY <1>1
      <4>. QED BY <1>1, <2>1, <4>1 DEF NotFilledSince, IsOf
    <3>. QED BY <1>1, <3>1, <3>2, <3>3
  <2>2. CASE ~(e.action = "SUBMIT" /\ e.order = o)
    <3>1. /\ lifecycle[o].known /\ lifecycle'[o].submitted = lifecycle[o].submitted
          /\ lifecycle'[o].filled = IF e.action = "FILL" /\ e.order = o
                                    THEN e.qty ELSE lifecycle[o].filled
      BY <1>0, <1>5, <2>2, EventFacts DEF Checked, Detect, Lifecycles, DetectorsTypeOK, Submitted
    <3>2. PICK i \in DOMAIN history :
            /\ LastSubmission(i, o) /\ history[i].event.stamp = lifecycle[o].submitted
            /\ lifecycle[o].filled = 0 => NotFilledSince(i, o)
      BY <1>0, <3>1 DEF LifecyclesFollowHistory
    <3>3. LastSubmission(i, o)'
      BY <1>1, <2>2, <3>2 DEF LastSubmission, IsOf
    <3>4. ASSUME lifecycle'[o].filled = 0 PROVE NotFilledSince(i, o)'
      <4>. SUFFICES ASSUME NEW j \in i .. m, IsOf(j, o, "FILL")'
                    PROVE  \E k \in j .. m : IsOf(k, o, "FILL")' /\ history'[k].event.qty = 0
        BY <1>1 DEF NotFilledSince
      <4>1. j \in Int /\ m \in j .. m  BY <1>1
      <4>2. CASE e.action = "FILL" /\ e.order = o
        <5>1. IsOf(m, o, "FILL")' /\ history'[m].event.qty = 0
          BY <1>1, <3>1, <3>4, <4>2 DEF IsOf
        <5>. QED BY <4>1, <5>1
      <4>3. CASE ~(e.action = "FILL" /\ e.order = o)
        <5>1. j # m  BY <1>1, <4>3 DEF IsOf
        <5>2. j \in i .. Len(history) /\ j \in DOMAIN history  BY <1>2, <1>3, <1>4, <1>1, <5>1
        <5>3. IsOf(j, o, "FILL") /\ NotFilledSince(i, o)
          BY <1>1, <3>1, <3>2, <3>4, <4>3, <5>2 DEF IsOf
        <5>4. PICK k \in j .. Len(history) : IsOf(k, o, "FILL") /\ history[k].event.qty = 0
          BY <5>2, <5>3 DEF NotFilledSince
        <5>5. k \in DOMAIN history /\ k \in j .. m  BY <1>4, <5>2
        <5>6. IsOf(k, o, "FILL")' /\ history'[k].event.qty = 0  BY <1>1, <5>4, <5>5 DEF IsOf
        <5>. QED BY <5>5, <5>6
      <4>. QED BY <4>2, <4>3
    <3>. QED BY <1>1, <3>1, <3>2, <3>3, <3>4
  <2>. QED BY <2>1, <2>2
<1>. QED BY <1>5 DEF LifecyclesFollowHistory

LEMMA TypesKeep ==
  ASSUME DetectorsInd, NEW e \in Events, Checked(e)
  PROVE  DetectorsTypeOK'
<1>0. DetectorsTypeOK  BY DEF DetectorsInd
<1>1. now' \in Nat  BY DEF Checked
<1>2. history' \in Seq([event : Events, at : Nat])
  <2>. DEFINE n == Len(history) + 1
  <2>1. n = Len(history) + 1  OBVIOUS
  <2>. HIDE DEF n
  <2>. QED BY <1>0, <2>1, HistoryGrows
<1>3. velocity' \in [Accounts -> Seq([at : Nat])]
  <2>1. velocity' = [velocity EXCEPT ![e.account] = velocity'[e.account]]
    BY <1>0, EventFacts DEF Checked, Detect, DetectorsTypeOK
  <2>. QED BY <1>0, <2>1, VelocityKeeps, EventFacts DEF DetectorsTypeOK
<1>4. vwap' \in [Books -> Seq([price : Int, qty : Int])]
  <2>1. vwap' = [vwap EXCEPT ![Book(e)] = vwap'[Book(e)]]
    BY <1>0, EventFacts DEF Checked, Detect, DetectorsTypeOK
  <2>. QED BY <1>0, <2>1, QuotesKeep, EventFacts DEF DetectorsTypeOK, QuoteEntry
<1>5. wash' \in [Books -> Seq([side : {"BUY", "SELL"}, price : Int, at : Nat])]
  <2>1. wash' = [wash EXCEPT ![Book(e)] = wash'[Book(e)]]
    BY <1>0, EventFacts DEF Checked, Detect, DetectorsTypeOK
  <2>. QED BY <1>0, <2>1, WashKeeps, EventFacts DEF DetectorsTypeOK, TradeEntry
<1>6. lifecycle' \in [OrderIDs -> [known : BOOLEAN, submitted : Int, cancelled : BOOLEAN,
                                  filled : Int]]
  <2>. DEFINE R == [known : BOOLEAN, submitted : Int, cancelled : BOOLEAN, filled : Int]
              o == e.order
              r == lifecycle[o]
  <2>1. o \in OrderIDs /\ e.qty \in Int /\ e.stamp \in Int /\ lifecycle \in [OrderIDs -> R] /\ r \in R
    BY <1>0, EventFacts DEF DetectorsTypeOK
  <2>2. PICK s \in R : lifecycle' = [lifecycle EXCEPT ![o] = s]
    <3>1. CASE e.action = "SUBMIT"
      <4>1. Submitted(e.stamp) \in R  BY <2>1 DEF Submitted
      <4>. QED BY <3>1, <4>1 DEF Checked, Detect, Lifecycles
    <3>2. CASE e.action = "CANCEL" /\ r.known
      <4>1. [r EXCEPT !.cancelled = TRUE] \in R  BY <2>1
      <4>. QED BY <3>2, <4>1 DEF Checked, Detect, Lifecycles
    <3>3. CASE e.action = "FILL" /\ r.known
      <4>1. [r EXCEPT !.filled = e.qty] \in R  BY <2>1
      <4>. QED BY <3>3, <4>1 DEF Checked, Detect, Lifecycles
    <3>4. CASE /\ e.action # "SUBMIT"
               /\ ~(e.action = "CANCEL" /\ r.known)
               /\ ~(e.action = "FILL" /\ r.known)
      <4>1. Lifecycles(e) = lifecycle  BY <3>4 DEF Lifecycles
      <4>3. lifecycle' = lifecycle  BY <4>1 DEF Checked, Detect
      <4>2. lifecycle = [lifecycle EXCEPT ![o] = r]  BY <2>1
      <4>. QED BY <2>1, <4>2, <4>3
    <3>. QED BY <3>1, <3>2, <3>3, <3>4
  <2>. HIDE DEF R, o, r
  <2>3. lifecycle' \in [OrderIDs -> R]  BY <2>1, <2>2
  <2>. QED BY <2>3 DEF R
<1>7. orders' \in [Accounts -> Seq(OrderIDs)]
  <2>. DEFINE grown == Append(orders[e.account], e.order)
  <2>1. grown \in Seq(OrderIDs)
    BY <1>0, EventFacts, AppendProperties DEF DetectorsTypeOK
  <2>2. orders' = [orders EXCEPT ![e.account] = grown] \/ orders' = orders
    BY DEF Checked, Detect, AccountOrders
  <2>. HIDE DEF grown
  <2>. QED BY <1>0, <2>1, <2>2, EventFacts DEF DetectorsTypeOK
<1>. QED BY <1>1, <1>2, <1>3, <1>4, <1>5, <1>6, <1>7 DEF DetectorsTypeOK

LEMMA CheckKeeps ==
  ASSUME DetectorsInd, NEW e \in Events, Checked(e)
  PROVE  DetectorsInd'
<1>1. WindowsHoldHistory'
  BY VelocityKeeps, WashKeeps, QuotesKeep DEF WindowsHoldHistory, Accounts, Books
<1>. QED BY <1>1, TypesKeep, TimeKeeps, LifecyclesKeep DEF DetectorsInd

LEMMA InitEstablishes == Init => DetectorsInd
<1>. SUFFICES ASSUME Init PROVE DetectorsInd
  OBVIOUS
<1>1. history = <<>> /\ DOMAIN history = {} /\ \A X : history \in Seq(X)
  BY EmptySeq DEF Init
<1>2. DetectorsTypeOK
  BY <1>1, EmptySeq DEF Init, DetectorsTypeOK, Unknown
<1>3. TimeAdvances  BY <1>1 DEF TimeAdvances
<1>4. LifecyclesFollowHistory  BY DEF Init, LifecyclesFollowHistory, Unknown
<1>5. \A S, entry : S = {} => ListsAll(<<>>, S, entry) /\ ListsLast(<<>>, S, Lookback, entry)
  <2>1. DOMAIN <<>> = {} /\ Len(<<>>) = 0 /\ 0 <= Lookback  BY Parameters
  <2>. DEFINE f == [k \in {} |-> k]
  <2>2. \A entry : f \in [DOMAIN <<>> -> {}] /\ Lists(<<>>, f, {}, entry)
    BY <2>1 DEF Lists
  <2>. HIDE DEF f
  <2>. QED BY <2>1, <2>2 DEF ListsAll, ListsLast
<1>6. WindowsHoldHistory
  <2>1. \A a \in Accounts : Young(OfAccount(a), WindowSize) = {}
    BY <1>1 DEF Young, OfAccount
  <2>2. \A b \in Books : Young(OfBook(b), WashWindow) = {} /\ OfBook(b) = {}
    BY <1>1 DEF Young, OfBook
  <2>. QED BY <1>5, <2>1, <2>2 DEF Init, WindowsHoldHistory
<1>. QED BY <1>2, <1>3, <1>4, <1>6 DEF DetectorsInd

LEMMA CheckChecks ==
  ASSUME DetectorsTypeOK, Check
  PROVE  \E e \in Events : Checked(e)
<1>1. PICK d \in Advances : now' = now + d  BY DEF Check
<1>2. PICK e \in Events : Detect(e)  BY DEF Check
<1>3. now \in Nat /\ d \in Nat  BY Parameters DEF DetectorsTypeOK
<1>4. now' \in Nat /\ now <= now'  BY <1>1, <1>3
<1>. QED BY <1>2, <1>4 DEF Checked

LEMMA StutterKeeps == DetectorsInd /\ UNCHANGED vars => DetectorsInd'
<1>. SUFFICES ASSUME DetectorsInd, UNCHANGED vars PROVE DetectorsInd'
  OBVIOUS
<1>1. UNCHANGED <<now, velocity, vwap, wash, lifecycle, orders, findings, history>>
  BY DEF vars
<1>2. DetectorsTypeOK'  BY <1>1 DEF DetectorsInd, DetectorsTypeOK
<1>3. TimeAdvances'  BY <1>1 DEF DetectorsInd, TimeAdvances
<1>4. LifecyclesFollowHistory'
  BY <1>1 DEF DetectorsInd, LifecyclesFollowHistory, LastSubmission, IsOf, NotFilledSince
<1>5. Times' = Times /\ Trades' = Trades /\ Quotes' = Quotes
  BY <1>1 DEF Times, Trades, Quotes
<1>6. /\ \A a : Young(OfAccount(a), WindowSize)' = Young(OfAccount(a), WindowSize)
      /\ \A b : Young(OfBook(b), WashWindow)' = Young(OfBook(b), WashWindow)
      /\ \A b : OfBook(b)' = OfBook(b)
  BY <1>1 DEF Young, OfAccount, OfBook
<1>7. WindowsHoldHistory'
  BY <1>1, <1>5, <1>6 DEF DetectorsInd, WindowsHoldHistory, Accounts, Books
<1>. QED BY <1>2, <1>3, <1>4, <1>7 DEF DetectorsInd

-----------------------------------------------------------------------------
(* The findings.  A severity is 1 or a fraction below it.                  *)
SeverityOK(s) == \/ s = <<1, 1>>
                 \/ s[1] \in Nat /\ s[2] \in Nat /\ s[1] < s[2]

LEMMA ShareOK ==
  ASSUME NEW n \in Nat, NEW d \in Nat, d > 0
  PROVE  SeverityOK(Share(n, d))
<1>1. CASE n >= d  BY <1>1 DEF Share, SeverityOK
<1>2. CASE ~(n >= d)
  <2>1. Share(n, d) = <<n, d>> /\ n < d  BY <1>2 DEF Share
  <2>2. <<n, d>>[1] = n /\ <<n, d>>[2] = d  OBVIOUS
  <2>. QED BY <2>1, <2>2 DEF SeverityOK
<1>. QED BY <1>1, <1>2

LEMMA SeverityBounds ==
  ASSUME NEW s, SeverityOK(s)
  PROVE  /\ s[1] \in Nat /\ s[2] \in Nat
         /\ s[2] > 0 /\ 0 <= s[1] /\ s[1] <= s[2]
         /\ s[1] >= s[2] => s = <<1, 1>>
<1>1. CASE s = <<1, 1>>
  <2>1. s[1] = 1 /\ s[2] = 1  BY <1>1
  <2>. QED BY <1>1, <2>1
<1>2. CASE s[1] \in Nat /\ s[2] \in Nat /\ s[1] < s[2]  BY <1>2
<1>. QED BY <1>1, <1>2 DEF SeverityOK

LEMMA ProductPositive ==
  ASSUME NEW x \in Nat, NEW y \in Nat, x > 0, y > 0
  PROVE  x * y \in Nat /\ x * y > 0
OBVIOUS

(* Whole averages: a sum of integers divided by one.                       *)
LEMMA VWAPIsInt ==
  ASSUME NEW w \in Seq(QuoteEntry)
  PROVE  VWAP(w) \in Int
<1>. DEFINE worth  == [i \in DOMAIN w |-> w[i].price * w[i].qty]
            count  == [i \in DOMAIN w |-> w[i].qty]
            value  == SumFunctionOnSet(worth, DOMAIN w)
            volume == SumFunctionOnSet(count, DOMAIN w)
<1>1. DOMAIN w = 1 .. Len(w) /\ Len(w) \in Nat  BY LenProperties
<1>2. IsFiniteSet(DOMAIN w)  BY <1>1, FS_Interval
<1>3. \A i \in DOMAIN w : w[i].price \in Int /\ w[i].qty \in Int
  <2>1. \A i \in 1 .. Len(w) : w[i] \in QuoteEntry  BY ElementOfSeq
  <2>. QED BY <1>1, <2>1 DEF QuoteEntry
<1>4. \A i \in DOMAIN w : worth[i] \in Int /\ count[i] \in Int  BY <1>3
<1>5. VWAP(w) = IF volume = 0 THEN 0 ELSE FloorDiv(value, volume)  BY DEF VWAP
<1>. HIDE DEF worth, count
<1>6. value \in Int /\ volume \in Int  BY <1>2, <1>4, SumIsInt
<1>. HIDE DEF value, volume
<1>7. ASSUME volume # 0 PROVE FloorDiv(value, volume) \in Int
  <2>1. CASE volume > 0  BY <1>6, <2>1 DEF FloorDiv
  <2>2. CASE ~(volume > 0)
    <3>. DEFINE a == -value
                b == -volume
    <3>1. a \in Int /\ b \in Nat /\ b > 0  BY <1>6, <1>7, <2>2
    <3>2. FloorDiv(value, volume) = a \div b  BY <2>2 DEF FloorDiv
    <3>. HIDE DEF a, b
    <3>3. a \div b \in Int  BY <3>1
    <3>. QED BY <3>2, <3>3
  <2>. QED BY <2>1, <2>2
<1>. QED BY <1>5, <1>7

(* What a check finds, by the detector that finds it.                      *)
FoundVelocity(f, w) == f = VelocityFinding(w) /\ TooFast(w)
FoundVWAP(f, e, average) == f = VWAPFinding(e.price, average) /\ Deviates(e.price, average)
FoundWash(f, trips) == f = WashFinding(trips) /\ trips >= MinRoundTrips
FoundSpoof(f, e, rate) == f = SpoofFinding(rate) /\ Suspicious(e) /\ Exceeds(rate, 80)

LEMMA WhatIsFound ==
  ASSUME NEW e, Detect(e), NEW f \in findings'
  PROVE  \/ FoundVelocity(f, velocity'[e.account])
         \/ FoundVWAP(f, e, VWAP(vwap[Book(e)]))
         \/ FoundWash(f, RoundTrips(WashWindowBefore(e), e))
         \/ FoundSpoof(f, e, CancellationRate(e.account))
BY DEF Detect, FoundVelocity, FoundVWAP, FoundWash, FoundSpoof

(* A well-formed result.                                                   *)
ResultOK(f, type) ==
  f.type = type /\ SeverityOK(f.severity) /\ f.recommendation \in {"FLAG", "BLOCK"}

LEMMA VelocityResult ==
  ASSUME NEW w \in Seq([at : Nat]), NEW f, FoundVelocity(f, w)
  PROVE  ResultOK(f, "velocity")
<1>. DEFINE span  == Span(w)
            limit == MaxRate * span
            n     == Len(w) - limit
<1>1. Len(w) \in Nat /\ MaxRate \in Nat /\ MaxRate > 0  BY LenProperties, Parameters
<1>2. span \in Nat /\ span > 0
  <2>1. CASE Len(w) > 1
    <3>. DEFINE l == Len(w)
    <3>1. 1 \in 1 .. l /\ l \in 1 .. l  BY <1>1, <2>1
    <3>2. w[1] \in [at : Nat] /\ w[l] \in [at : Nat]  BY <3>1, ElementOfSeq
    <3>3. w[1].at \in Nat /\ w[l].at \in Nat  BY <3>2
    <3>. QED BY <2>1, <3>3 DEF Span, AtLeastOne
  <2>2. CASE ~(Len(w) > 1)  BY <2>2 DEF Span
  <2>. QED BY <2>1, <2>2
<1>3. Len(w) > limit /\ f = VelocityFinding(w)  BY DEF FoundVelocity, TooFast
<1>4. f.type = "velocity" /\ f.severity = Share(n, limit) /\ f.recommendation \in {"FLAG", "BLOCK"}
  BY <1>3 DEF VelocityFinding, Finding
<1>. HIDE DEF span
<1>5. limit \in Nat /\ limit > 0  BY <1>1, <1>2, ProductPositive
<1>. HIDE DEF limit
<1>6. n \in Nat  BY <1>1, <1>3, <1>5
<1>. HIDE DEF n
<1>7. SeverityOK(Share(n, limit))  BY <1>5, <1>6, ShareOK
<1>. QED BY <1>4, <1>7 DEF ResultOK

LEMMA VWAPResult ==
  ASSUME NEW e \in Events, NEW average \in Int, NEW f, FoundVWAP(f, e, average)
  PROVE  ResultOK(f, "vwap") /\ f.severity = <<1, 1>> /\ f.recommendation = "BLOCK"
<1>. DEFINE a == 100 * Abs(e.price - average)
            b == 5 * average
<1>1. a \in Int /\ b \in Int /\ a > b
  BY EventFacts DEF FoundVWAP, Deviates, Abs
<1>2. f = VWAPFinding(e.price, average)  BY DEF FoundVWAP
<1>3. /\ f.type = "vwap" /\ f.severity = Share(a, b)
      /\ f.recommendation = IF Below(Share(a, b), 70) THEN "FLAG" ELSE "BLOCK"
  BY <1>2 DEF VWAPFinding, Finding
<1>. HIDE DEF a, b
<1>4. Share(a, b) = <<1, 1>>  BY <1>1 DEF Share
<1>5. ~Below(<<1, 1>>, 70)  BY DEF Below
<1>. QED BY <1>3, <1>4, <1>5 DEF ResultOK, SeverityOK

LEMMA WashResult ==
  ASSUME NEW trips \in Nat, NEW f, FoundWash(f, trips)
  PROVE  ResultOK(f, "wash_trade")
<1>. DEFINE d == 2 * MinRoundTrips
<1>1. d \in Nat /\ d > 0  BY Parameters
<1>2. /\ f.type = "wash_trade" /\ f.severity = Share(trips, d)
      /\ f.recommendation \in {"FLAG", "BLOCK"}
  BY DEF FoundWash, WashFinding, Finding
<1>. HIDE DEF d
<1>3. SeverityOK(Share(trips, d))  BY <1>1, ShareOK
<1>. QED BY <1>2, <1>3 DEF ResultOK

LEMMA SpoofResult ==
  ASSUME NEW e, NEW rate, rate[1] \in Nat, rate[2] \in Nat, rate[2] > 0,
         NEW f, FoundSpoof(f, e, rate)
  PROVE  ResultOK(f, "spoofing") /\ f.recommendation = "BLOCK"
<1>1. /\ f.type = "spoofing" /\ f.severity = Share(rate[1], rate[2])
      /\ f.recommendation = IF Exceeds(rate, 70) THEN "BLOCK" ELSE "FLAG"
  BY DEF FoundSpoof, SpoofFinding, Finding
<1>2. Exceeds(rate, 70)  BY DEF FoundSpoof, Exceeds
<1>3. SeverityOK(Share(rate[1], rate[2]))  BY ShareOK
<1>. QED BY <1>1, <1>2, <1>3 DEF ResultOK

LEMMA VelocityBefore ==
  ASSUME DetectorsInd, NEW e \in Events, Checked(e)
  PROVE  Recent(velocity[e.account], now' - WindowSize) \in Seq([at : Nat])
<1>. DEFINE a == e.account
            w == velocity[a]
            S == Young(OfAccount(a), WindowSize)
            c == now' - WindowSize
            entry == Times
<1>0. DetectorsTypeOK /\ TimeAdvances /\ WindowsHoldHistory /\ a \in Accounts
      /\ WindowSize \in Nat /\ now' \in Nat
  BY Parameters, EventFacts DEF DetectorsInd, Checked
<1>1. w \in Seq([at : Nat]) /\ ListsAll(w, S, entry) /\ c \in Int
  BY <1>0 DEF DetectorsTypeOK, WindowsHoldHistory
<1>2. S \subseteq DOMAIN history  BY DEF Young, OfAccount
<1>3. DOMAIN history \subseteq Int /\ \A i \in DOMAIN history : history[i].at \in Int
  BY <1>0, HistoryFacts
<1>4. \A i \in DOMAIN history : entry[i].at = history[i].at  BY DEF Times
<1>5. \A i, j \in DOMAIN history : i <= j => history[i].at <= history[j].at
  BY <1>0 DEF TimeAdvances
<1>. HIDE DEF w, S, c, entry
<1>6. /\ S \in SUBSET Int /\ \A i \in S : entry[i].at \in Int
      /\ \A i, j \in S : i <= j => entry[i].at <= entry[j].at
  BY <1>2, <1>3, <1>4, <1>5
<1>7. Recent(w, c) \in Seq([at : Nat])  BY <1>1, <1>6, RecentLists
<1>. QED BY <1>7 DEF w, c

(* The trades within the window, before the one that is checked, are those *)
(* of some of the earlier events.                                          *)
LEMMA WashBefore ==
  ASSUME DetectorsInd, NEW e \in Events, Checked(e)
  PROVE  /\ WashWindowBefore(e) \in Seq(TradeEntry)
         /\ ListsAll(WashWindowBefore(e),
                     {i \in Young(OfBook(Book(e)), WashWindow) :
                        Trades[i].at >= now' - WashWindow}, Trades)
<1>. DEFINE b == Book(e)
            w == wash[b]
            S == Young(OfBook(b), WashWindow)
            c == now' - WashWindow
<1>0. DetectorsTypeOK /\ TimeAdvances /\ WindowsHoldHistory /\ b \in Books
      /\ WashWindow \in Nat /\ now' \in Nat
  BY Parameters, EventFacts DEF DetectorsInd, Checked
<1>1. w \in Seq(TradeEntry) /\ ListsAll(w, S, Trades) /\ c \in Int
  BY <1>0 DEF DetectorsTypeOK, WindowsHoldHistory, TradeEntry
<1>2. S \subseteq DOMAIN history  BY DEF Young, OfBook
<1>3. DOMAIN history \subseteq Int /\ \A i \in DOMAIN history : history[i].at \in Int
  BY <1>0, HistoryFacts
<1>4. \A i \in DOMAIN history : Trades[i].at = history[i].at  BY DEF Trades
<1>5. \A i, j \in DOMAIN history : i <= j => history[i].at <= history[j].at
  BY <1>0 DEF TimeAdvances
<1>. HIDE DEF w, S, c
<1>6. /\ S \in SUBSET Int /\ \A i \in S : Trades[i].at \in Int
      /\ \A i, j \in S : i <= j => Trades[i].at <= Trades[j].at
  BY <1>2, <1>3, <1>4, <1>5
<1>. DEFINE entry == Trades
<1>7. /\ ListsAll(w, S, entry) /\ \A i \in S : entry[i].at \in Int
      /\ \A i, j \in S : i <= j => entry[i].at <= entry[j].at
  BY <1>1, <1>6
<1>. HIDE DEF entry
<1>8. /\ Recent(w, c) \in Seq(TradeEntry)
      /\ ListsAll(Recent(w, c), {i \in S : entry[i].at >= c}, entry)
  BY <1>1, <1>6, <1>7, RecentLists
<1>. QED BY <1>8 DEF WashWindowBefore, w, S, c, entry

(* The counts are of finite sets.                                          *)
LEMMA RoundTripsIsNat ==
  ASSUME NEW w \in Seq(TradeEntry), NEW e
  PROVE  RoundTrips(w, e) \in Nat /\ IsFiniteSet({i \in DOMAIN w : Opposite(w[i], e)})
<1>. DEFINE T == {i \in DOMAIN w : Opposite(w[i], e)}
<1>1. IsFiniteSet(DOMAIN w)  BY LenProperties, FS_Interval
<1>2. T \in SUBSET DOMAIN w  OBVIOUS
<1>3. RoundTrips(w, e) = Cardinality(T)  BY DEF RoundTrips
<1>. HIDE DEF T
<1>4. IsFiniteSet(T)  BY <1>1, <1>2, FS_Subset
<1>5. Cardinality(T) \in Nat  BY <1>4, FS_CardinalityType
<1>. QED BY <1>3, <1>4, <1>5 DEF T

LEMMA RateFacts ==
  ASSUME DetectorsTypeOK, NEW a \in Accounts, NEW rate, rate = CancellationRate(a)
  PROVE  rate[1] \in Nat /\ rate[2] \in Nat /\ rate[2] > 0
<1>. DEFINE ids == orders[a]
            cancelled == {i \in DOMAIN ids : lifecycle'[ids[i]].cancelled}
<1>1. rate = IF ids = <<>> THEN <<0, 1>> ELSE <<Cardinality(cancelled), Len(ids)>>
  BY DEF CancellationRate
<1>2. ids \in Seq(OrderIDs)  BY DEF DetectorsTypeOK
<1>3. Len(ids) \in Nat /\ DOMAIN ids = 1 .. Len(ids)  BY <1>2, LenProperties
<1>4. ids # <<>> => Len(ids) # 0  BY <1>2, EmptySeq
<1>5. IsFiniteSet(DOMAIN ids)  BY <1>3, FS_Interval
<1>6. cancelled \in SUBSET DOMAIN ids  OBVIOUS
<1>. HIDE DEF cancelled, ids
<1>7. IsFiniteSet(cancelled)  BY <1>5, <1>6, FS_Subset
<1>8. Cardinality(cancelled) \in Nat  BY <1>7, FS_CardinalityType
<1>9. CASE ids = <<>>  BY <1>1, <1>9
<1>10. CASE ids # <<>>
  <2>1. rate[1] = Cardinality(cancelled) /\ rate[2] = Len(ids)  BY <1>1, <1>10
  <2>. QED BY <1>3, <1>4, <1>8, <1>10, <2>1
<1>. QED BY <1>9, <1>10

(* The four results of a check.                                            *)
LEMMA Results ==
  ASSUME DetectorsInd, NEW e \in Events, Checked(e)
  PROVE  /\ \A f : FoundVelocity(f, velocity'[e.account]) => ResultOK(f, "velocity")
         /\ \A f : FoundVWAP(f, e, VWAP(vwap[Book(e)])) =>
              ResultOK(f, "vwap") /\ f.severity = <<1, 1>> /\ f.recommendation = "BLOCK"
         /\ \A f : FoundWash(f, RoundTrips(WashWindowBefore(e), e)) => ResultOK(f, "wash_trade")
         /\ \A f : FoundSpoof(f, e, CancellationRate(e.account)) =>
              ResultOK(f, "spoofing") /\ f.recommendation = "BLOCK"
<1>. DEFINE w       == velocity'[e.account]
            average == VWAP(vwap[Book(e)])
            before  == WashWindowBefore(e)
            trips   == RoundTrips(before, e)
            rate    == CancellationRate(e.account)
<1>0. DetectorsTypeOK /\ e.account \in Accounts /\ Book(e) \in Books
  BY EventFacts DEF DetectorsInd
<1>1. w \in Seq([at : Nat])  BY <1>0, VelocityKeeps
<1>2. average \in Int
  <2>1. vwap[Book(e)] \in Seq(QuoteEntry)  BY <1>0 DEF DetectorsTypeOK, QuoteEntry
  <2>. QED BY <2>1, VWAPIsInt
<1>3. trips \in Nat
  <2>1. before \in Seq(TradeEntry)  BY WashBefore
  <2>. HIDE DEF before
  <2>. QED BY <2>1, RoundTripsIsNat
<1>4. rate[1] \in Nat /\ rate[2] \in Nat /\ rate[2] > 0
  <2>1. rate = CancellationRate(e.account)  OBVIOUS
  <2>. HIDE DEF rate
  <2>. QED BY <1>0, <2>1, RateFacts
<1>. HIDE DEF w, average, trips, rate
<1>5. \A f : FoundVelocity(f, w) => ResultOK(f, "velocity")  BY <1>1, VelocityResult
<1>6. \A f : FoundVWAP(f, e, average) =>
        ResultOK(f, "vwap") /\ f.severity = <<1, 1>> /\ f.recommendation = "BLOCK"
  BY <1>2, VWAPResult
<1>7. \A f : FoundWash(f, trips) => ResultOK(f, "wash_trade")  BY <1>3, WashResult
<1>8. \A f : FoundSpoof(f, e, rate) => ResultOK(f, "spoofing") /\ f.recommendation = "BLOCK"
  BY <1>4, SpoofResult
<1>. QED BY <1>5, <1>6, <1>7, <1>8 DEF w, average, trips, rate, before

LEMMA ResultsWellFormed ==
  ASSUME DetectorsInd, NEW e \in Events, Checked(e)
  PROVE  FindingsWellFormed'
<1>0. Detect(e)  BY DEF Checked
<1>1. ASSUME NEW f \in findings'
      PROVE  /\ f.type \in {"velocity", "vwap", "wash_trade", "spoofing"}
             /\ SeverityOK(f.severity) /\ f.recommendation \in {"FLAG", "BLOCK"}
  BY <1>0, WhatIsFound, Results DEF ResultOK
<1>2. ASSUME NEW f \in findings'
      PROVE  /\ f.severity[2] > 0
             /\ 0 <= f.severity[1] /\ f.severity[1] <= f.severity[2]
  <2>. DEFINE s == f.severity
  <2>1. SeverityOK(s)  BY <1>1
  <2>. HIDE DEF s
  <2>2. s[2] > 0 /\ 0 <= s[1] /\ s[1] <= s[2]  BY <2>1, SeverityBounds
  <2>. QED BY <2>2 DEF s
<1>3. ASSUME NEW f \in findings', NEW g \in findings', f.type = g.type
      PROVE  f = g
  <2>1. /\ f.type = "velocity" => FoundVelocity(f, velocity'[e.account])
        /\ f.type = "vwap" => FoundVWAP(f, e, VWAP(vwap[Book(e)]))
        /\ f.type = "wash_trade" => FoundWash(f, RoundTrips(WashWindowBefore(e), e))
        /\ f.type = "spoofing" => FoundSpoof(f, e, CancellationRate(e.account))
    BY <1>0, WhatIsFound, Results DEF ResultOK
  <2>2. /\ g.type = "velocity" => FoundVelocity(g, velocity'[e.account])
        /\ g.type = "vwap" => FoundVWAP(g, e, VWAP(vwap[Book(e)]))
        /\ g.type = "wash_trade" => FoundWash(g, RoundTrips(WashWindowBefore(e), e))
        /\ g.type = "spoofing" => FoundSpoof(g, e, CancellationRate(e.account))
    BY <1>0, WhatIsFound, Results DEF ResultOK
  <2>. QED BY <1>1, <1>3, <2>1, <2>2 DEF FoundVelocity, FoundVWAP, FoundWash, FoundSpoof
<1>. QED BY <1>1, <1>2, <1>3 DEF FindingsWellFormed

(* An order whose cancellation is suspicious was submitted within the      *)
(* second before its stamp, or after, and not filled since.                *)
LEMMA SuspicionIsBacked ==
  ASSUME DetectorsInd, NEW e \in Events, Checked(e), Suspicious(e)
  PROVE  \E i \in DOMAIN history :
           /\ LastSubmission(i, e.order)' /\ e.stamp - history'[i].event.stamp < 1
           /\ NotFilledSince(i, e.order)'
<1>. DEFINE o == e.order
<1>0. /\ DetectorsTypeOK /\ LifecyclesFollowHistory'
      /\ o \in OrderIDs
  BY LifecyclesKeep, EventFacts DEF DetectorsInd
<1>1. /\ e.action = "CANCEL" /\ lifecycle[o].known /\ lifecycle[o].filled = 0
      /\ e.stamp - lifecycle[o].submitted < 1
  BY DEF Suspicious
<1>2. /\ lifecycle'[o].known /\ lifecycle'[o].submitted = lifecycle[o].submitted
      /\ lifecycle'[o].filled = 0
  BY <1>0, <1>1 DEF Checked, Detect, Lifecycles, DetectorsTypeOK
<1>3. PICK i \in DOMAIN history' :
        /\ LastSubmission(i, o)' /\ history'[i].event.stamp = lifecycle'[o].submitted
        /\ NotFilledSince(i, o)'
  BY <1>0, <1>2 DEF LifecyclesFollowHistory
<1>4. i \in DOMAIN history
  <2>. DEFINE m == Len(history) + 1
  <2>1. /\ DOMAIN history' = DOMAIN history \cup {m}
        /\ history'[m] = [event |-> e, at |-> now']
    BY <1>0, HistoryGrows DEF Checked
  <2>. HIDE DEF m
  <2>2. i # m  BY <1>1, <1>3, <2>1 DEF LastSubmission, IsOf
  <2>. QED BY <2>1, <2>2
<1>. QED BY <1>1, <1>2, <1>3, <1>4

(* A trip counted is an earlier event on the other side.                   *)
EarlierOpposite(e) ==
  {i \in DOMAIN history : /\ Book(history[i].event) = Book(e)
                          /\ history[i].event.side # e.side
                          /\ now' - history[i].at <= WashWindow}

LEMMA TripsAreBacked ==
  ASSUME DetectorsInd, NEW e \in Events, Checked(e)
  PROVE  RoundTrips(WashWindowBefore(e), e) <= Cardinality(EarlierOpposite(e))
<1>. DEFINE w == WashWindowBefore(e)
            T == {i \in Young(OfBook(Book(e)), WashWindow) : Trades[i].at >= now' - WashWindow}
            O == {k \in DOMAIN w : Opposite(w[k], e)}
            E == EarlierOpposite(e)
<1>0. DetectorsTypeOK /\ WashWindow \in Nat /\ now' \in Nat
  BY Parameters DEF DetectorsInd, Checked
<1>1. w \in Seq(TradeEntry) /\ ListsAll(w, T, Trades)  BY WashBefore
<1>2. DOMAIN w = 1 .. Len(w) /\ Len(w) \in Nat  BY <1>1, LenProperties
<1>. HIDE DEF w
<1>3. PICK f \in [DOMAIN w -> T] : Lists(w, f, T, Trades)  BY <1>1 DEF ListsAll
<1>4. /\ \A k \in DOMAIN w : f[k] \in T /\ w[k] = Trades[f[k]]
      /\ \A k, l \in DOMAIN w : k < l => f[k] < f[l]
  BY <1>3 DEF Lists
<1>5. \A i \in T : i \in DOMAIN history /\ i \in Int /\ history[i].at \in Nat
                   /\ Book(history[i].event) = Book(e) /\ Trades[i].at >= now' - WashWindow
  BY <1>0, HistoryFacts DEF Young, OfBook
<1>6. \A i \in DOMAIN history : /\ Trades[i].side = history[i].event.side
                               /\ Trades[i].at = history[i].at
  BY DEF Trades
<1>7. ASSUME NEW k \in O PROVE f[k] \in E
  <2>1. f[k] \in T /\ w[k].side # e.side /\ w[k] = Trades[f[k]]  BY <1>4 DEF Opposite
  <2>. DEFINE i == f[k]
  <2>2. i \in T /\ i \in DOMAIN history /\ Trades[i].side # e.side  BY <1>5, <2>1
  <2>. HIDE DEF i, T
  <2>3. /\ history[i].event.side # e.side /\ Book(history[i].event) = Book(e)
        /\ history[i].at \in Nat /\ history[i].at >= now' - WashWindow
    BY <1>5, <1>6, <2>2
  <2>4. now' - history[i].at <= WashWindow  BY <1>0, <2>3
  <2>. QED BY <2>2, <2>3, <2>4 DEF EarlierOpposite, i
<1>8. \A k, l \in O : f[k] = f[l] => k = l
  <2>1. \A k, l \in O : k \in Int /\ l \in Int /\ f[k] \in Int /\ f[l] \in Int
                        /\ (k < l => f[k] < f[l]) /\ (l < k => f[l] < f[k])
    BY <1>2, <1>4, <1>5
  <2>. HIDE DEF O
  <2>. QED BY <2>1
<1>. DEFINE g == [k \in O |-> f[k]]
<1>9. g \in Injection(O, E)  BY <1>7, <1>8 DEF Injection, IsInjective
<1>10. IsFiniteSet(E)
  <2>1. IsFiniteSet(DOMAIN history)
    <3>1. DOMAIN history = 1 .. Len(history) /\ Len(history) \in Nat  BY <1>0, HistoryFacts
    <3>. QED BY <3>1, FS_Interval
  <2>2. E \in SUBSET DOMAIN history  BY DEF EarlierOpposite
  <2>. HIDE DEF E
  <2>. QED BY <2>1, <2>2, FS_Subset
<1>11. RoundTrips(w, e) = Cardinality(O)  BY DEF RoundTrips
<1>. HIDE DEF g, O, E
<1>12. Cardinality(O) <= Cardinality(E)  BY <1>9, <1>10, FS_Injection
<1>. QED BY <1>11, <1>12 DEF w, E

(* The largest severity is 1 when one of them is.                          *)
LEMMA LargestSeverity ==
  ASSUME NEW F, \A f \in F : SeverityOK(f.severity),
         \E f \in F : f.severity = <<1, 1>>
  PROVE  MaxSeverity(F) = <<1, 1>>
<1>. DEFINE shares == {f.severity : f \in F}
            Top(s) == \A t \in shares : s[1] * t[2] >= t[1] * s[2]
            one    == <<1, 1>>
<1>1. one \in shares /\ F # {}  OBVIOUS
<1>2. \A t \in shares : SeverityOK(t)  OBVIOUS
<1>3. one[1] = 1 /\ one[2] = 1  OBVIOUS
<1>4. MaxSeverity(F) = CHOOSE s \in shares : Top(s)  BY <1>1 DEF MaxSeverity
<1>. HIDE DEF shares, one
<1>5. Top(one)
  <2>1. ASSUME NEW t \in shares PROVE 1 * t[2] >= t[1] * 1
    <3>1. t[1] \in Nat /\ t[2] \in Nat /\ t[1] <= t[2]  BY <1>2, SeverityBounds
    <3>. QED BY <3>1
  <2>. QED BY <1>3, <2>1
<1>6. ASSUME NEW s \in shares, Top(s) PROVE s = one
  <2>1. s[1] * 1 >= 1 * s[2]  BY <1>1, <1>3, <1>6
  <2>2. s[1] \in Nat /\ s[2] \in Nat /\ (s[1] >= s[2] => s = <<1, 1>>)
    BY <1>2, SeverityBounds
  <2>3. s[1] >= s[2]  BY <2>1, <2>2
  <2>. QED BY <2>2, <2>3 DEF one
<1>. HIDE DEF Top
<1>. QED BY <1>1, <1>4, <1>5, <1>6 DEF one

LEMMA ResultsJustified ==
  ASSUME DetectorsInd, NEW e \in Events, Checked(e)
  PROVE  FindingsAreJustified'
<1>0. Detect(e) /\ DetectorsTypeOK  BY DEF Checked, DetectorsInd
<1>1. /\ LastOf(history') = [event |-> e, at |-> now']
      /\ 1 .. Len(history') - 1 = DOMAIN history
      /\ \A i \in DOMAIN history : history'[i] = history[i]
  <2>. DEFINE m == Len(history) + 1
  <2>1. /\ Len(history') = m /\ history'[m] = [event |-> e, at |-> now']
        /\ \A i \in DOMAIN history : history'[i] = history[i]
    BY <1>0, HistoryGrows
  <2>2. m - 1 = Len(history) /\ DOMAIN history = 1 .. Len(history)  BY <1>0, HistoryFacts
  <2>. HIDE DEF m
  <2>. QED BY <2>1, <2>2 DEF LastOf
<1>2. LastOf(history').event = e  BY <1>1
<1>3. \A f \in findings' :
        /\ f.type = "velocity" => FoundVelocity(f, velocity'[e.account])
        /\ f.type = "vwap" => FoundVWAP(f, e, VWAP(vwap[Book(e)]))
        /\ f.type = "wash_trade" => FoundWash(f, RoundTrips(WashWindowBefore(e), e))
        /\ f.type = "spoofing" => FoundSpoof(f, e, CancellationRate(e.account))
  BY <1>0, WhatIsFound, Results DEF ResultOK
<1>4. ASSUME Found("spoofing")'
      PROVE  /\ e.action = "CANCEL"
             /\ \E i \in 1 .. Len(history') - 1 :
                  /\ LastSubmission(i, e.order)' /\ e.stamp - history'[i].event.stamp < 1
                  /\ NotFilledSince(i, e.order)'
  <2>1. Suspicious(e)  BY <1>3, <1>4 DEF Found, FoundSpoof
  <2>2. e.action = "CANCEL"  BY <2>1 DEF Suspicious
  <2>3. PICK i \in DOMAIN history :
          /\ LastSubmission(i, e.order)' /\ e.stamp - history'[i].event.stamp < 1
          /\ NotFilledSince(i, e.order)'
    BY <2>1, SuspicionIsBacked
  <2>. QED BY <1>1, <2>2, <2>3
<1>5. ASSUME Found("wash_trade")'
      PROVE  MinRoundTrips <= Cardinality({i \in 1 .. Len(history') - 1 :
               /\ Book(history'[i].event) = Book(e) /\ history'[i].event.side # e.side
               /\ now' - history'[i].at <= WashWindow})
  <2>. DEFINE trips == RoundTrips(WashWindowBefore(e), e)
              E     == EarlierOpposite(e)
  <2>1. trips >= MinRoundTrips /\ MinRoundTrips \in Nat
    BY <1>3, <1>5, Parameters DEF Found, FoundWash
  <2>2. trips <= Cardinality(E)  BY TripsAreBacked
  <2>3. trips \in Nat  BY WashBefore, RoundTripsIsNat
  <2>4. Cardinality(E) \in Nat
    <3>1. IsFiniteSet(DOMAIN history)
      <4>1. DOMAIN history = 1 .. Len(history) /\ Len(history) \in Nat  BY <1>0, HistoryFacts
      <4>. QED BY <4>1, FS_Interval
    <3>2. E \in SUBSET DOMAIN history  BY DEF EarlierOpposite
    <3>. HIDE DEF E
    <3>3. IsFiniteSet(E)  BY <3>1, <3>2, FS_Subset
    <3>. QED BY <3>3, FS_CardinalityType
  <2>5. E = {i \in 1 .. Len(history') - 1 :
               /\ Book(history'[i].event) = Book(e) /\ history'[i].event.side # e.side
               /\ now' - history'[i].at <= WashWindow}
    BY <1>1 DEF EarlierOpposite
  <2>. HIDE DEF trips, E
  <2>6. MinRoundTrips <= Cardinality(E)  BY <2>1, <2>2, <2>3, <2>4
  <2>. QED BY <2>5, <2>6
<1>6. \A f \in Since("vwap")' \cup Since("spoofing")' : f.recommendation = "BLOCK"
  BY <1>3, Results DEF Since
<1>7. ASSUME Found("vwap")' PROVE MaxSeverity(findings') = <<1, 1>>
  <2>1. \E f \in findings' : f.severity = <<1, 1>>  BY <1>3, <1>7, Results DEF Found
  <2>2. \A f \in findings' : SeverityOK(f.severity)
    BY <1>0, WhatIsFound, Results DEF ResultOK
  <2>. QED BY <2>1, <2>2, LargestSeverity
<1>8. FindingsAreJustified' <=>
        /\ Found("spoofing")' =>
             /\ e.action = "CANCEL"
             /\ \E i \in 1 .. Len(history') - 1 :
                  /\ LastSubmission(i, e.order)' /\ e.stamp - history'[i].event.stamp < 1
                  /\ NotFilledSince(i, e.order)'
        /\ Found("wash_trade")' =>
             MinRoundTrips <= Cardinality({i \in 1 .. Len(history') - 1 :
               /\ Book(history'[i].event) = Book(e) /\ history'[i].event.side # e.side
               /\ now' - history'[i].at <= WashWindow})
        /\ \A f \in Since("vwap")' \cup Since("spoofing")' : f.recommendation = "BLOCK"
        /\ Found("vwap")' => MaxSeverity(findings') = <<1, 1>>
  BY <1>2 DEF FindingsAreJustified, MaxSeverity, LastOf, LastSubmission, NotFilledSince, IsOf
<1>. QED BY <1>4, <1>5, <1>6, <1>7, <1>8

(* The findings say what they are meant to after every step.               *)
FindingsInd == FindingsWellFormed /\ FindingsAreJustified

LEMMA InitFindings == Init => FindingsInd
<1>. SUFFICES ASSUME Init PROVE FindingsInd
  OBVIOUS
<1>1. findings = {} /\ history = <<>>  BY DEF Init
<1>2. FindingsWellFormed  BY <1>1 DEF FindingsWellFormed
<1>3. \A type : ~Found(type) /\ Since(type) = {}  BY <1>1 DEF Found, Since
<1>4. FindingsAreJustified  BY <1>3 DEF FindingsAreJustified
<1>. QED BY <1>2, <1>4 DEF FindingsInd

LEMMA StutterFindings == FindingsInd /\ UNCHANGED vars => FindingsInd'
BY DEF vars, FindingsInd, FindingsWellFormed, FindingsAreJustified, Found,
       Since, LastOf, LastSubmission, NotFilledSince, IsOf, MaxSeverity

(* The inductive invariant of the detectors.                               *)
THEOREM DetectorsInvariance == Spec => []DetectorsInd
<1>1. DetectorsInd /\ [Next]_vars => DetectorsInd'
  BY CheckChecks, CheckKeeps, StutterKeeps DEF DetectorsInd, Next, Quiet
<1>. QED BY <1>1, InitEstablishes, PTL DEF Spec

LEMMA FindingsInvariance == Spec => []FindingsInd
<1>1. DetectorsInd /\ FindingsInd /\ [Next]_vars => FindingsInd'
  BY CheckChecks, ResultsWellFormed, ResultsJustified, StutterFindings
  DEF DetectorsInd, FindingsInd, Next, Quiet
<1>. QED BY <1>1, InitFindings, DetectorsInvariance, PTL DEF Spec

(* Type correctness of the detectors.                                      *)
THEOREM DetectorsTypeCorrectness == Spec => []DetectorsTypeOK
BY DetectorsInvariance, PTL DEF DetectorsInd

(* The windows hold exactly the events they are meant to, whatever the     *)
(* events and however they are spread over time.                           *)
THEOREM WindowsAreExact == Spec => []WindowsHoldHistory
BY DetectorsInvariance, PTL DEF DetectorsInd

(* Whatever the prices, quantities and thresholds, every result is well-   *)
(* formed: a severity is a fraction of a positive whole and at most 1.     *)
THEOREM ResultsAreWellFormed == Spec => []FindingsWellFormed
BY FindingsInvariance, PTL DEF FindingsInd

(* A spoofing result is backed by an order whose last submission is        *)
(* stamped less than a second before its cancellation, or after it, and    *)
(* not filled since; a wash trade by enough earlier events on the other    *)
(* side within the window of the detector's clock; and a VWAP deviation    *)
(* always has the severity 1.  Nothing is assumed about the timestamps.    *)
THEOREM ResultsAreJustified == Spec => []FindingsAreJustified
BY FindingsInvariance, PTL DEF FindingsInd

=============================================================================
