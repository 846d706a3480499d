-------------------------- MODULE KgslArena_proofs --------------------------
(***************************************************************************)
(* The blob arena, for any number of contexts and resources, any size,     *)
(* guard, page size and sizes of the requests: the free list is exactly    *)
(* the maximal gaps between the ranges handed out, and a range's refs      *)
(* count its users.                                                        *)
(***************************************************************************)
EXTENDS KgslArena, FiniteSetTheorems, TLAPS

-----------------------------------------------------------------------------
(***************************************************************************)
(* Page alignment                                                          *)
(***************************************************************************)

LEMMA Division ==
    ASSUME NEW m \in Nat \ {0}, NEW x \in Int
    PROVE  /\ x \div m \in Int
           /\ (x \div m) * m <= x /\ x < (x \div m) * m + m
  <1>. QED OBVIOUS

LEMMA QuotientUnique ==
    ASSUME NEW m \in Nat \ {0}, NEW k \in Int, NEW q \in Int,
           q * m <= k * m + (m - 1), k * m + (m - 1) < q * m + m
    PROVE  q = k
  <1>1. (k - q) * m = k * m - q * m
    OBVIOUS
  <1>2. k - q >= 1 => (k - q) * m >= m
    OBVIOUS
  <1>3. k - q <= -1 => (k - q) * m <= -m
    OBVIOUS
  <1>. QED BY <1>1, <1>2, <1>3

\* align_page never shrinks a size, and an aligned size stays as it is.
LEMMA AlignIs ==
    ASSUME NEW n \in Nat \ {0}
    PROVE  Align(n) \in Nat \ {0} /\ Align(n) >= n /\ Align(Align(n)) = Align(n)
  <1> DEFINE P == PageSize
             k == (n + P - 1) \div P
             q == (k * P + P - 1) \div P
  <1>1. P \in Nat \ {0}
    BY ArenaAssumption, Zenon
  <1> HIDE DEF P
  <1>2. k \in Int /\ k * P <= n + P - 1 /\ n + P - 1 < k * P + P
    <2>1. n + P - 1 \in Int
      BY <1>1
    <2>. QED BY <1>1, <2>1, Division, Zenon
  <1>3. Align(n) = k * P
    BY Zenon DEF Align, P
  <1> HIDE DEF k
  <1>4. k * P \in Int /\ k * P + P - 1 \in Int
    BY <1>1, <1>2
  <1>5. q \in Int /\ q * P <= k * P + P - 1 /\ k * P + P - 1 < q * P + P
    BY <1>1, <1>4, Division, Zenon
  <1>6. Align(k * P) = q * P
    BY Zenon DEF Align, P
  <1> HIDE DEF q
  <1>7. q * P <= k * P + (P - 1) /\ k * P + (P - 1) < q * P + P
    <2>1. q * P \in Int
      BY <1>1, <1>5
    <2>. QED BY <1>1, <1>4, <1>5, <2>1, Zenon
  <1>8. q = k
    BY <1>1, <1>2, <1>5, <1>7, QuotientUnique, Zenon
  <1>. QED BY <1>1, <1>2, <1>3, <1>4, <1>6, <1>8

-----------------------------------------------------------------------------
(***************************************************************************)
(* Lists                                                                   *)
(***************************************************************************)

\* What follows position hi of a list
Rest(s, hi) == SubSeq(s, hi + 1, Len(s))

LEMMA RestIs ==
    ASSUME NEW s \in Seq(Area), NEW hi \in 0 .. Len(s)
    PROVE  /\ Rest(s, hi) \in Seq(Area) /\ Len(Rest(s, hi)) = Len(s) - hi
           /\ \A i \in 1 .. Len(s) - hi : Rest(s, hi)[i] = s[hi + i]
  <1>1. Len(s) \in Nat /\ hi \in Nat
    OBVIOUS
  <1>2. \A i \in hi + 1 .. Len(s) : s[i] \in Area
    BY <1>1
  <1>. QED BY <1>1, <1>2 DEF Rest

LEMMA FrontIs ==
    ASSUME NEW s \in Seq(Area), NEW n \in 0 .. Len(s)
    PROVE  /\ SubSeq(s, 1, n) \in Seq(Area) /\ Len(SubSeq(s, 1, n)) = n
           /\ \A i \in 1 .. n : SubSeq(s, 1, n)[i] = s[i]
  <1>1. Len(s) \in Nat /\ n \in Nat
    OBVIOUS
  <1>2. \A i \in 1 .. n : s[i] \in Area
    BY <1>1
  <1>. QED BY <1>1, <1>2

\* The list r is s, whose entries lo..hi have made way for those of t.
IsSplice(r, s, lo, hi, t) ==
    /\ r \in Seq(Area)
    /\ Len(r) = (lo - 1) + Len(t) + (Len(s) - hi)
    /\ \A i \in 1 .. lo - 1 : r[i] = s[i]
    /\ \A i \in 1 .. Len(t) : r[(lo - 1) + i] = t[i]
    /\ \A k, i \in Nat : hi < i /\ i <= Len(s) /\ k = (lo - 1) + Len(t) + (i - hi) => r[k] = s[i]

LEMMA SpliceIs ==
    ASSUME NEW s \in Seq(Area), NEW t \in Seq(Area),
           NEW lo \in 1 .. Len(s) + 1, NEW hi \in lo - 1 .. Len(s)
    PROVE  IsSplice(Splice(s, lo, hi, t), s, lo, hi, t)
  <1> DEFINE f == SubSeq(s, 1, lo - 1)
             g == Rest(s, hi)
             ft == f \o t
             r == ft \o g
  <1>1. /\ Len(s) \in Nat /\ Len(t) \in Nat /\ lo - 1 \in 0 .. Len(s) /\ hi \in 0 .. Len(s)
        /\ lo \in Int /\ hi \in Int
    OBVIOUS
  <1>2. f \in Seq(Area) /\ Len(f) = lo - 1 /\ \A i \in 1 .. lo - 1 : f[i] = s[i]
    BY <1>1, FrontIs, Zenon
  <1>3. g \in Seq(Area) /\ Len(g) = Len(s) - hi /\ \A i \in 1 .. Len(s) - hi : g[i] = s[hi + i]
    BY <1>1, RestIs, Zenon
  <1>4. Splice(s, lo, hi, t) = r
    BY Zenon DEF Splice, Rest
  <1> HIDE DEF f, g
  <1>5. /\ ft \in Seq(Area) /\ Len(ft) = Len(f) + Len(t)
        /\ \A i \in 1 .. Len(f) : ft[i] = f[i]
        /\ \A i \in 1 .. Len(f) + Len(t) : i > Len(f) => ft[i] = t[i - Len(f)]
    BY <1>2, SMTT(30)
  <1> HIDE DEF ft
  <1>6. /\ r \in Seq(Area) /\ Len(r) = Len(ft) + Len(g)
        /\ \A i \in 1 .. Len(ft) : r[i] = ft[i]
        /\ \A i \in 1 .. Len(ft) + Len(g) : i > Len(ft) => r[i] = g[i - Len(ft)]
    <2>1. ft \in Seq(Area) /\ g \in Seq(Area)
      BY <1>3, <1>5, Zenon
    <2>. QED BY <2>1
  <1> HIDE DEF r
  <1>7. \A i \in 1 .. lo - 1 : r[i] = s[i]
    BY <1>1, <1>2, <1>5, <1>6
  <1>8. \A i \in 1 .. Len(t) : r[(lo - 1) + i] = t[i]
    <2> TAKE i \in 1 .. Len(t)
    <2> DEFINE k == (lo - 1) + i
    <2>1. k \in 1 .. Len(f) + Len(t) /\ k > Len(f) /\ k - Len(f) = i
      BY <1>1, <1>2
    <2> HIDE DEF k
    <2>2. r[k] = t[i]
      BY <1>5, <1>6, <2>1, Zenon
    <2>. QED BY <2>2, Zenon DEF k
  <1>9. \A k, i \in Nat : hi < i /\ i <= Len(s) /\ k = (lo - 1) + Len(t) + (i - hi) => r[k] = s[i]
    <2> SUFFICES ASSUME NEW k \in Nat, NEW i \in Nat, hi < i, i <= Len(s),
                        k = (lo - 1) + Len(t) + (i - hi)
                 PROVE  r[k] = s[i]
      OBVIOUS
    <2>1. k \in 1 .. Len(ft) + Len(g) /\ k > Len(ft) /\ k - Len(ft) = i - hi
      BY <1>1, <1>2, <1>3, <1>5, SMTT(30)
    <2>2. i - hi \in 1 .. Len(s) - hi /\ hi + (i - hi) = i
      BY <1>1
    <2>3. r[k] = g[i - hi]
      BY <1>6, <2>1, Zenon
    <2>. QED BY <1>3, <2>2, <2>3, Zenon
  <1>10. Len(r) = (lo - 1) + Len(t) + (Len(s) - hi)
    BY <1>2, <1>3, <1>5, <1>6, Zenon
  <1>. QED BY <1>4, <1>6, <1>7, <1>8, <1>9, <1>10, Zenon DEF IsSplice

-----------------------------------------------------------------------------
(***************************************************************************)
(* Lists of extents                                                        *)
(***************************************************************************)

\* Extents of the arena with gaps between them, in offset order
Gaps(fl) ==
    /\ fl \in Seq(Area)
    /\ \A i \in DOMAIN fl : End(fl[i]) <= Size
    /\ \A i, j \in DOMAIN fl : i < j => End(fl[i]) < fl[j].offset

\* Extents lo..hi make way for x.
LEMMA SpliceOne ==
    ASSUME NEW fl, Gaps(fl), NEW x \in Area, End(x) <= Size,
           NEW lo \in 1 .. Len(fl) + 1, NEW hi \in lo - 1 .. Len(fl),
           \A k \in 1 .. lo - 1 : End(fl[k]) < x.offset,
           \A k \in hi + 1 .. Len(fl) : End(x) < fl[k].offset
    PROVE  /\ Gaps(Splice(fl, lo, hi, <<x>>))
           /\ \A u : Listed(Splice(fl, lo, hi, <<x>>), u) <=>
                        \/ u \in Units(x)
                        \/ \E k \in DOMAIN fl : (k < lo \/ k > hi) /\ u \in Units(fl[k])
  <1> DEFINE t == <<x>>
             r == Splice(fl, lo, hi, t)
             n == Len(fl)
  <1>1. fl \in Seq(Area) /\ n \in Nat /\ DOMAIN fl = 1 .. n /\ lo \in Int /\ hi \in Int
    BY DEF Gaps
  <1>2. /\ r \in Seq(Area) /\ Len(r) = lo + (n - hi)
        /\ \A i \in 1 .. lo - 1 : r[i] = fl[i]
        /\ r[lo] = x
        /\ \A k, i \in Nat : hi < i /\ i <= n /\ k = lo + (i - hi) => r[k] = fl[i]
    <2>1. t \in Seq(Area) /\ Len(t) = 1 /\ t[1] = x
      OBVIOUS
    <2>2. IsSplice(r, fl, lo, hi, t)
      <3> HIDE DEF t
      <3>. QED BY <1>1, <2>1, SpliceIs, Zenon
    <2> HIDE DEF t, r
    <2>3. r[(lo - 1) + 1] = x
      BY <2>1, <2>2 DEF IsSplice
    <2>4. \A k, i \in Nat : hi < i /\ i <= n /\ k = lo + (i - hi) => r[k] = fl[i]
      <3> SUFFICES ASSUME NEW k \in Nat, NEW i \in Nat, hi < i, i <= n, k = lo + (i - hi)
                   PROVE  r[k] = fl[i]
        OBVIOUS
      <3>1. k = (lo - 1) + Len(t) + (i - hi)
        BY <1>1, <2>1
      <3>. QED BY <2>2, <3>1, Zenon DEF IsSplice
    <2>5. Len(r) = lo + (n - hi) /\ (lo - 1) + 1 = lo
      BY <1>1, <2>1, <2>2 DEF IsSplice
    <2>. QED BY <2>2, <2>3, <2>4, <2>5, Zenon DEF IsSplice
  <1> HIDE DEF r, n, t
  <1>3. \A i \in DOMAIN r : \/ i \in 1 .. lo - 1 /\ r[i] = fl[i]
                            \/ i = lo /\ r[i] = x
                            \/ i > lo /\ hi + (i - lo) \in hi + 1 .. n /\ r[i] = fl[hi + (i - lo)]
    <2> TAKE i \in DOMAIN r
    <2>1. i \in 1 .. lo + (n - hi)
      BY <1>2
    <2>2. CASE i > lo
      <3> DEFINE l == hi + (i - lo)
      <3>0. /\ lo \in Int /\ hi \in Int /\ n \in Int /\ i \in Int /\ 1 <= lo /\ lo - 1 <= hi
            /\ i <= lo + (n - hi) /\ 1 <= i
        BY <1>1, <2>1
      <3>1. i \in Nat /\ l \in Nat /\ hi < l /\ l <= n /\ i = lo + (l - hi) /\ l \in hi + 1 .. n
        <4>1. i \in Nat /\ l \in Nat
          BY <2>2, <3>0
        <4>2. hi < l /\ l <= n /\ i = lo + (l - hi)
          BY <2>2, <3>0
        <4> HIDE DEF l
        <4>. QED BY <3>0, <4>1, <4>2
      <3> HIDE DEF l
      <3>2. r[i] = fl[l]
        BY <1>2, <3>1, Zenon
      <3>. QED BY <2>2, <3>1, <3>2, Zenon DEF l
    <2>. QED BY <1>1, <1>2, <2>1, <2>2
  <1>4. /\ \A k \in DOMAIN fl : End(fl[k]) <= Size /\ fl[k] \in Area
        /\ \A i, j \in DOMAIN fl : i < j => End(fl[i]) < fl[j].offset
    BY <1>1 DEF Gaps
  <1>5. \A i, j \in DOMAIN r : i < j => End(r[i]) < r[j].offset
    <2> SUFFICES ASSUME NEW i \in DOMAIN r, NEW j \in DOMAIN r, i < j
                 PROVE  End(r[i]) < r[j].offset
      OBVIOUS
    <2>0. i \in Int /\ j \in Int
      BY <1>2
    <2>1. CASE j < lo
      <3>1. i \in 1 .. lo - 1 /\ r[i] = fl[i] /\ j \in 1 .. lo - 1 /\ r[j] = fl[j]
        BY <1>1, <1>3, <2>0, <2>1
      <3>. QED BY <1>1, <1>4, <3>1 DEF n
    <2>2. CASE j = lo
      <3>1. i \in 1 .. lo - 1 /\ r[i] = fl[i] /\ r[j] = x
        BY <1>1, <1>2, <1>3, <2>0, <2>2
      <3>. QED BY <3>1, Zenon
    <2>3. CASE j > lo
      <3> DEFINE l == hi + (j - lo)
      <3>1. l \in hi + 1 .. n /\ r[j] = fl[l]
        BY <1>1, <1>3, <2>0, <2>3
      <3>2. CASE i < lo
        <4>1. i \in 1 .. lo - 1 /\ r[i] = fl[i]
          BY <1>1, <1>3, <2>0, <3>2
        <4>2. i \in DOMAIN fl /\ l \in DOMAIN fl /\ i < l
          BY <1>1, <3>1, <4>1 DEF n
        <4> HIDE DEF l
        <4>. QED BY <1>4, <3>1, <4>1, <4>2, Zenon
      <3>3. CASE i = lo
        <4> HIDE DEF l
        <4>. QED BY <1>2, <3>1, <3>3, Zenon DEF n
      <3>4. CASE i > lo
        <4> DEFINE m == hi + (i - lo)
        <4>0. ~(i \in 1 .. lo - 1) /\ i # lo
          BY <1>1, <2>0, <3>4
        <4>1. m \in hi + 1 .. n /\ r[i] = fl[m]
          BY <1>3, <4>0, Zenon
        <4>2. m \in DOMAIN fl /\ l \in DOMAIN fl /\ m < l
          BY <1>1, <2>0, <3>1, <4>1
        <4> HIDE DEF l, m
        <4>. QED BY <1>4, <3>1, <4>1, <4>2, Zenon
      <3>. QED BY <1>1, <2>0, <3>2, <3>3, <3>4
    <2>. QED BY <1>1, <2>0, <2>1, <2>2, <2>3
  <1>6. \A i \in DOMAIN r : End(r[i]) <= Size
    <2>1. \A i \in DOMAIN r : r[i] = x \/ \E k \in DOMAIN fl : r[i] = fl[k]
      BY <1>1, <1>3
    <2>. QED BY <1>4, <2>1, Zenon
  <1>7. ASSUME NEW u
        PROVE  Listed(r, u) <=>
                  \/ u \in Units(x)
                  \/ \E k \in DOMAIN fl : (k < lo \/ k > hi) /\ u \in Units(fl[k])
    <2>1. \A i \in DOMAIN r : \/ r[i] = x
                              \/ \E k \in DOMAIN fl : (k < lo \/ k > hi) /\ r[i] = fl[k]
      BY <1>1, <1>3
    <2>2. lo \in DOMAIN r
      BY <1>1, <1>2 DEF n
    <2>3. \A k \in DOMAIN fl : k < lo \/ k > hi => \E i \in DOMAIN r : r[i] = fl[k]
      <3> TAKE k \in DOMAIN fl
      <3>0. k \in 1 .. n
        BY <1>1, Zenon
      <3>1. CASE k < lo
        <4>1. k \in 1 .. lo - 1 /\ k \in DOMAIN r
          BY <1>1, <1>2, <3>0, <3>1 DEF n
        <4>. QED BY <1>2, <4>1, Zenon
      <3>2. CASE k > hi
        <4> DEFINE i == lo + (k - hi)
        <4>0. DOMAIN r = 1 .. lo + (n - hi)
          BY <1>2
        <4>1. i \in Nat /\ k \in Nat /\ k <= n /\ i \in DOMAIN r
          BY <1>1, <3>0, <3>2, <4>0
        <4>2. r[i] = fl[k]
          BY <1>2, <3>2, <4>1, Zenon
        <4>. QED BY <4>1, <4>2, Zenon
      <3>. QED BY <3>1, <3>2, Zenon
    <2>. QED BY <1>2, <2>1, <2>2, <2>3, Zenon DEF Listed
  <1>8. Gaps(r)
    BY <1>2, <1>5, <1>6, Zenon DEF Gaps
  <1>. QED BY <1>7, <1>8, Zenon DEF r, t

\* Extent i is taken out of the list.
LEMMA SpliceNone ==
    ASSUME NEW fl, Gaps(fl), NEW i \in DOMAIN fl
    PROVE  /\ Gaps(Splice(fl, i, i, <<>>))
           /\ \A u : Listed(Splice(fl, i, i, <<>>), u) <=>
                        \E k \in DOMAIN fl : k # i /\ u \in Units(fl[k])
  <1> DEFINE t == <<>>
             r == Splice(fl, i, i, t)
             n == Len(fl)
  <1>1. fl \in Seq(Area) /\ n \in Nat /\ DOMAIN fl = 1 .. n /\ i \in 1 .. n
    BY DEF Gaps
  <1>2. /\ r \in Seq(Area) /\ Len(r) = n - 1
        /\ \A j \in 1 .. i - 1 : r[j] = fl[j]
        /\ \A k, j \in Nat : i < j /\ j <= n /\ k = j - 1 => r[k] = fl[j]
    <2>1. t \in Seq(Area) /\ Len(t) = 0 /\ i \in 1 .. Len(fl) + 1 /\ i \in i - 1 .. Len(fl)
      BY <1>1
    <2>2. IsSplice(r, fl, i, i, t)
      <3> HIDE DEF t
      <3>. QED BY <1>1, <2>1, SpliceIs, Zenon
    <2> HIDE DEF t, r
    <2>3. \A k, j \in Nat : i < j /\ j <= n /\ k = j - 1 => r[k] = fl[j]
      <3> SUFFICES ASSUME NEW k \in Nat, NEW j \in Nat, i < j, j <= n, k = j - 1
                   PROVE  r[k] = fl[j]
        OBVIOUS
      <3>1. k = (i - 1) + Len(t) + (j - i)
        BY <1>1, <2>1
      <3>. QED BY <2>2, <3>1, Zenon DEF IsSplice
    <2>4. Len(r) = n - 1
      BY <1>1, <2>1, <2>2 DEF IsSplice
    <2>. QED BY <2>2, <2>3, <2>4, Zenon DEF IsSplice
  <1> HIDE DEF r, n, t
  <1>3. \A j \in DOMAIN r : \/ j \in 1 .. i - 1 /\ r[j] = fl[j]
                            \/ j >= i /\ j + 1 \in i + 1 .. n /\ r[j] = fl[j + 1]
    <2> TAKE j \in DOMAIN r
    <2>1. j \in 1 .. n - 1
      BY <1>1, <1>2
    <2>2. CASE j >= i
      <3> DEFINE l == j + 1
      <3>1. j \in Nat /\ l \in Nat /\ i < l /\ l <= n /\ j = l - 1
        BY <1>1, <2>1, <2>2
      <3> HIDE DEF l
      <3>2. r[j] = fl[l]
        BY <1>2, <3>1, Zenon
      <3>3. j + 1 \in i + 1 .. n
        BY <1>1, <2>1, <2>2
      <3>. QED BY <2>2, <3>2, <3>3, Zenon DEF l
    <2>. QED BY <1>1, <1>2, <2>1, <2>2
  <1>4. /\ \A k \in DOMAIN fl : End(fl[k]) <= Size
        /\ \A k, j \in DOMAIN fl : k < j => End(fl[k]) < fl[j].offset
    BY Zenon DEF Gaps
  <1>5. \A j \in DOMAIN r : \E k \in DOMAIN fl : /\ k # i /\ r[j] = fl[k]
                                                 /\ k = IF j < i THEN j ELSE j + 1
    <2> TAKE j \in DOMAIN r
    <2>1. CASE j \in 1 .. i - 1 /\ r[j] = fl[j]
      <3>1. j \in DOMAIN fl /\ j # i /\ j < i
        BY <1>1, <2>1
      <3>. QED BY <2>1, <3>1, Zenon
    <2>2. CASE j >= i /\ j + 1 \in i + 1 .. n /\ r[j] = fl[j + 1]
      <3> DEFINE k == j + 1
      <3>1. j \in Int
        BY <1>2
      <3>2. k \in DOMAIN fl /\ k # i /\ ~(j < i)
        BY <1>1, <2>2, <3>1
      <3>. QED BY <2>2, <3>2, Zenon
    <2>. QED BY <1>3, <2>1, <2>2, Zenon
  <1>6. \A j, l \in DOMAIN r : j < l => End(r[j]) < r[l].offset
    <2> SUFFICES ASSUME NEW j \in DOMAIN r, NEW l \in DOMAIN r, j < l
                 PROVE  End(r[j]) < r[l].offset
      OBVIOUS
    <2>1. PICK a \in DOMAIN fl : r[j] = fl[a] /\ a = IF j < i THEN j ELSE j + 1
      BY <1>5, Zenon
    <2>2. PICK b \in DOMAIN fl : r[l] = fl[b] /\ b = IF l < i THEN l ELSE l + 1
      BY <1>5, Zenon
    <2>3. j \in Int /\ l \in Int
      BY <1>2
    <2>4. a < b
      BY <1>1, <2>1, <2>2, <2>3
    <2>. QED BY <1>4, <2>1, <2>2, <2>4, Zenon
  <1>7. \A j \in DOMAIN r : End(r[j]) <= Size
    BY <1>4, <1>5, Zenon
  <1>8. ASSUME NEW u
        PROVE  Listed(r, u) <=> \E k \in DOMAIN fl : k # i /\ u \in Units(fl[k])
    <2>1. \A k \in DOMAIN fl : k # i => \E j \in DOMAIN r : r[j] = fl[k]
      <3> TAKE k \in DOMAIN fl
      <3>0. k \in 1 .. n /\ DOMAIN r = 1 .. n - 1
        BY <1>1, <1>2
      <3>1. CASE k < i
        <4>1. k \in 1 .. i - 1 /\ k \in DOMAIN r
          BY <1>1, <3>0, <3>1
        <4>. QED BY <1>2, <4>1, Zenon
      <3>2. CASE k > i
        <4> DEFINE l == k - 1
        <4>1. l \in Nat /\ k \in Nat /\ k <= n /\ l \in DOMAIN r
          BY <1>1, <3>0, <3>2
        <4>2. r[l] = fl[k]
          BY <1>2, <3>2, <4>1, Zenon
        <4>. QED BY <4>1, <4>2, Zenon
      <3>. QED BY <1>1, <3>0, <3>1, <3>2
    <2>. QED BY <1>5, <2>1, Zenon DEF Listed
  <1>9. Gaps(r)
    BY <1>2, <1>6, <1>7, Zenon DEF Gaps
  <1>. QED BY <1>8, <1>9, Zenon DEF r, t

LEMMA Bounds == Guard \in Nat /\ Size \in Nat /\ Guard < Size
  BY ArenaAssumption, Zenon

LEMMA InArea ==
    ASSUME NEW e \in Area
    PROVE  /\ e.offset \in Nat /\ e.size \in Nat /\ e.size >= 1 /\ e.size <= Size
           /\ Guard <= e.offset /\ e.offset <= Size
           /\ End(e) \in Nat /\ End(e) = e.offset + e.size
           /\ \A u : u \in Units(e) <=> u \in Int /\ e.offset <= u /\ u < End(e)
  <1>1. e.offset \in Guard .. Size /\ e.size \in 1 .. Size
    BY Zenon DEF Area
  <1>2. End(e) = e.offset + e.size /\ Units(e) = e.offset .. End(e) - 1
    BY Zenon DEF End, Units
  <1>3. e.offset \in Nat /\ e.size \in Nat /\ End(e) \in Nat
    BY <1>1, <1>2, Bounds
  <1>. QED BY <1>1, <1>2, <1>3, Bounds

LEMMA ExtentIs ==
    ASSUME NEW o \in Nat, NEW z \in Nat \ {0}, Guard <= o, o + z <= Size
    PROVE  /\ Extent(o, z) \in Area /\ Extent(o, z).offset = o /\ Extent(o, z).size = z
           /\ End(Extent(o, z)) = o + z
  <1>1. o \in Guard .. Size /\ z \in 1 .. Size
    BY Bounds
  <1>. QED BY <1>1, Zenon DEF Area, Extent, End

\* kgsl_blob_arena_alloc takes the front of a free extent and leaves the rest.
LEMMA AllocGaps ==
    ASSUME NEW fl, Gaps(fl), NEW i \in DOMAIN fl, NEW size \in Nat \ {0}, size <= fl[i].size
    PROVE  /\ Gaps(Splice(fl, i, i, Carve(fl[i], size)))
           /\ \A u : Listed(Splice(fl, i, i, Carve(fl[i], size)), u) <=>
                        Listed(fl, u) /\ u \notin Units(Extent(fl[i].offset, size))
           /\ Extent(fl[i].offset, size) \in Area
           /\ End(Extent(fl[i].offset, size)) <= Size
           /\ \A u \in Units(Extent(fl[i].offset, size)) : Listed(fl, u)
  <1> DEFINE e == fl[i]
             a == Extent(e.offset, size)
             r == Splice(fl, i, i, Carve(e, size))
  <1>1. /\ fl \in Seq(Area) /\ Len(fl) \in Nat /\ DOMAIN fl = 1 .. Len(fl) /\ i \in 1 .. Len(fl)
        /\ \A k \in DOMAIN fl : fl[k] \in Area /\ End(fl[k]) <= Size
        /\ \A k, j \in DOMAIN fl : k < j => End(fl[k]) < fl[j].offset
    BY DEF Gaps
  <1>2. /\ e \in Area /\ e.offset \in Nat /\ e.size \in Nat /\ Guard <= e.offset
        /\ End(e) = e.offset + e.size /\ End(e) \in Nat /\ End(e) <= Size
        /\ \A u : u \in Units(e) <=> u \in Int /\ e.offset <= u /\ u < End(e)
    <2>1. e \in Area
      BY <1>1, Zenon
    <2> HIDE DEF e
    <2>2. End(e) <= Size
      BY <1>1, Zenon DEF e
    <2>. QED BY <2>1, <2>2, InArea, Zenon
  <1>3. size <= e.size
    OBVIOUS
  <1> HIDE DEF e
  <1>4. /\ a \in Area /\ a.offset = e.offset /\ a.size = size
        /\ End(a) = e.offset + size /\ End(a) <= Size
    <2>1. e.offset + size <= Size
      BY <1>2, <1>3, Bounds
    <2>. QED BY <1>2, <2>1, ExtentIs, Zenon
  <1> HIDE DEF a
  <1>5. \A u : u \in Units(a) <=> u \in Int /\ e.offset <= u /\ u < e.offset + size
    BY <1>4, InArea, Zenon
  <1>6. \A k \in DOMAIN fl : \A u : k # i /\ u \in Units(fl[k]) => u \notin Units(e)
    <2> SUFFICES ASSUME NEW k \in DOMAIN fl, NEW u, k # i, u \in Units(fl[k]), u \in Units(e)
                 PROVE  FALSE
      OBVIOUS
    <2>1. u \in Int /\ fl[k].offset <= u /\ u < End(fl[k]) /\ fl[k].offset \in Nat /\ End(fl[k]) \in Nat
      BY <1>1, InArea, Zenon
    <2>2. u \in Int /\ e.offset <= u /\ u < End(e)
      BY <1>2, Zenon
    <2>3. k < i \/ i < k
      BY <1>1
    <2>4. End(fl[k]) < e.offset \/ End(e) < fl[k].offset
      BY <1>1, <2>3, Zenon DEF e
    <2>. QED BY <1>2, <2>1, <2>2, <2>4
  <1>7. \A u : Listed(fl, u) <=> \/ u \in Units(e)
                                 \/ \E k \in DOMAIN fl : k # i /\ u \in Units(fl[k])
    BY Zenon DEF Listed, e
  <1>8. \A u : u \in Units(a) => u \in Units(e)
    BY <1>2, <1>3, <1>5
  <1>9. Gaps(r) /\ \A u : Listed(r, u) <=> Listed(fl, u) /\ u \notin Units(a)
    <2>1. CASE e.size = size
      <3>1. Carve(e, size) = <<>>
        BY <2>1, Zenon DEF Carve
      <3>2. /\ Gaps(r)
            /\ \A u : Listed(r, u) <=> \E k \in DOMAIN fl : k # i /\ u \in Units(fl[k])
        BY <3>1, SpliceNone, Zenon
      <3>3. \A u : u \in Units(a) <=> u \in Units(e)
        BY <1>2, <1>5, <2>1, Zenon
      <3> HIDE DEF r
      <3>. QED BY <1>6, <1>7, <3>2, <3>3, Zenon
    <2>2. CASE e.size # size
      <3> DEFINE x == Extent(e.offset + size, e.size - size)
      <3>1. Carve(e, size) = <<x>>
        BY <2>2, Zenon DEF Carve
      <3>2. /\ x \in Area /\ x.offset = e.offset + size /\ End(x) = End(e)
        <4>1. /\ e.offset + size \in Nat /\ e.size - size \in Nat \ {0}
              /\ Guard <= e.offset + size
              /\ (e.offset + size) + (e.size - size) = End(e)
          BY <1>2, <1>3, <2>2, Bounds
        <4>. QED BY <1>2, <4>1, ExtentIs
      <3> HIDE DEF x
      <3>3. \A u : u \in Units(x) <=> u \in Units(e) /\ u \notin Units(a)
        <4>1. \A u : u \in Units(x) <=> u \in Int /\ e.offset + size <= u /\ u < End(e)
          BY <3>2, InArea, Zenon
        <4>. QED BY <1>2, <1>5, <4>1
      <3>4. /\ \A k \in 1 .. i - 1 : End(fl[k]) < x.offset
            /\ \A k \in i + 1 .. Len(fl) : End(x) < fl[k].offset
        <4>1. \A k \in 1 .. i - 1 : k \in DOMAIN fl /\ k < i
          BY <1>1
        <4>2. \A k \in i + 1 .. Len(fl) : k \in DOMAIN fl /\ i < k
          BY <1>1
        <4>3. \A k \in 1 .. i - 1 : End(fl[k]) < e.offset /\ End(fl[k]) \in Nat
          BY <1>1, <4>1, InArea, Zenon DEF e
        <4>4. \A k \in i + 1 .. Len(fl) : End(e) < fl[k].offset
          BY <1>1, <4>2, Zenon DEF e
        <4>. QED BY <1>2, <3>2, <4>3, <4>4
      <3>5. /\ Gaps(r)
            /\ \A u : Listed(r, u) <=> \/ u \in Units(x)
                                       \/ \E k \in DOMAIN fl : (k < i \/ k > i) /\ u \in Units(fl[k])
        <4>1. i \in 1 .. Len(fl) + 1 /\ i \in i - 1 .. Len(fl) /\ End(x) <= Size
          BY <1>1, <1>2, <3>2
        <4>. QED BY <3>1, <3>2, <3>4, <4>1, SpliceOne, Zenon
      <3>6. \A k \in DOMAIN fl : (k < i \/ k > i) <=> k # i
        BY <1>1
      <3> HIDE DEF r
      <3>. QED BY <1>6, <1>7, <1>8, <3>3, <3>5, <3>6, Zenon
    <2>. QED BY <2>1, <2>2, Zenon
  <1>10. \A u \in Units(a) : Listed(fl, u)
    BY <1>7, <1>8, Zenon
  <1>. QED BY <1>4, <1>9, <1>10, Zenon DEF e, a, r

\* kgsl_blob_arena_free returns an extent none of which was free: it is merged
\* with what it touches, and the list still has gaps between its extents.
LEMMA InsertGaps ==
    ASSUME NEW fl, Gaps(fl), NEW e \in Area, End(e) <= Size,
           \A u \in Units(e) : ~Listed(fl, u),
           NEW pos \in 1 .. Len(fl) + 1, InsertAt(fl, e, pos)
    PROVE  /\ Gaps(Insert(fl, e, pos))
           /\ \A u : Listed(Insert(fl, e, pos), u) <=> Listed(fl, u) \/ u \in Units(e)
  <1> DEFINE next == pos <= Len(fl) /\ End(e) = fl[pos].offset
             prev == pos > 1 /\ End(fl[pos - 1]) = e.offset
             last == IF next THEN End(fl[pos]) ELSE End(e)
             off  == IF prev THEN fl[pos - 1].offset ELSE e.offset
             lo   == IF prev THEN pos - 1 ELSE pos
             hi   == IF next THEN pos ELSE pos - 1
             x    == Extent(off, last - off)
  <1>1. /\ fl \in Seq(Area) /\ Len(fl) \in Nat /\ DOMAIN fl = 1 .. Len(fl) /\ pos \in Nat
        /\ \A k \in DOMAIN fl : fl[k] \in Area /\ End(fl[k]) <= Size
        /\ \A k, j \in DOMAIN fl : k < j => End(fl[k]) < fl[j].offset
    BY DEF Gaps
  <1>2. /\ e.offset \in Nat /\ e.size \in Nat /\ e.size >= 1 /\ Guard <= e.offset
        /\ End(e) = e.offset + e.size /\ End(e) \in Nat
        /\ \A u : u \in Units(e) <=> u \in Int /\ e.offset <= u /\ u < End(e)
    BY InArea, Zenon
  <1>3. \A k \in DOMAIN fl :
            /\ fl[k].offset \in Nat /\ End(fl[k]) \in Nat /\ Guard <= fl[k].offset
            /\ fl[k].offset < End(fl[k])
            /\ \A u : u \in Units(fl[k]) <=> u \in Int /\ fl[k].offset <= u /\ u < End(fl[k])
    <2> TAKE k \in DOMAIN fl
    <2> DEFINE f == fl[k]
    <2>1. f \in Area
      BY <1>1, Zenon
    <2> HIDE DEF f
    <2>2. /\ f.offset \in Nat /\ End(f) \in Nat /\ Guard <= f.offset /\ f.offset < End(f)
          /\ \A u : u \in Units(f) <=> u \in Int /\ f.offset <= u /\ u < End(f)
      BY <2>1, InArea
    <2>. QED BY <2>2, Zenon DEF f
  <1>4. \A k \in DOMAIN fl : IF k < pos THEN End(fl[k]) <= e.offset ELSE End(e) <= fl[k].offset
    <2> TAKE k \in DOMAIN fl
    <2>1. \A u : ~(u \in Units(e) /\ u \in Units(fl[k]))
      BY Zenon DEF Listed
    <2>2. CASE k < pos
      <3>1. fl[k].offset < e.offset
        <4>1. k \in 1 .. pos - 1
          BY <1>1, <2>2
        <4>. QED BY <4>1, Zenon DEF InsertAt
      <3>2. ~(e.offset \in Units(fl[k]))
        BY <1>2, <2>1
      <3>. QED BY <1>2, <1>3, <2>2, <3>1, <3>2, SMTT(30)
    <2>3. CASE ~(k < pos)
      <3>1. e.offset <= fl[k].offset
        <4>1. pos \in DOMAIN fl /\ pos <= Len(fl) /\ (k = pos \/ pos < k)
          BY <1>1, <2>3
        <4>2. fl[pos].offset >= e.offset
          BY <4>1, Zenon DEF InsertAt
        <4>3. pos < k => End(fl[pos]) < fl[k].offset
          BY <1>1, <4>1, Zenon
        <4>. QED BY <1>2, <1>3, <4>1, <4>2, <4>3
      <3>2. ~(fl[k].offset \in Units(e))
        BY <1>3, <2>1
      <3>. QED BY <1>2, <1>3, <2>3, <3>1, <3>2
    <2>. QED BY <2>2, <2>3, Zenon
  <1>5. next => pos \in DOMAIN fl /\ End(e) = fl[pos].offset
    BY <1>1
  <1>6. prev => pos - 1 \in DOMAIN fl /\ pos - 1 < pos /\ End(fl[pos - 1]) = e.offset
    BY <1>1
  <1>7. /\ off \in Nat /\ last \in Nat /\ Guard <= off /\ off <= e.offset /\ End(e) <= last /\ last <= Size
        /\ off < last
    <2>1. off \in Nat /\ Guard <= off /\ off <= e.offset
      <3>1. CASE prev
        <4>1. /\ fl[pos - 1].offset \in Nat /\ Guard <= fl[pos - 1].offset
              /\ fl[pos - 1].offset < End(fl[pos - 1])
          BY <1>3, <1>6, <3>1, Zenon
        <4>. QED BY <1>2, <3>1, <4>1
      <3>. QED BY <1>2, <3>1
    <2>2. last \in Nat /\ End(e) <= last /\ last <= Size
      <3>1. CASE next
        <4>1. /\ End(fl[pos]) \in Nat /\ fl[pos].offset < End(fl[pos]) /\ End(fl[pos]) <= Size
          BY <1>1, <1>3, <1>5, <3>1, Zenon
        <4>. QED BY <1>2, <3>1, <4>1
      <3>. QED BY <1>2, <3>1
    <2> HIDE DEF off, last
    <2>. QED BY <1>2, <2>1, <2>2
  <1>8. /\ x \in Area /\ x.offset = off /\ End(x) = last
    <2> HIDE DEF off, last
    <2>1. last - off \in Nat \ {0} /\ off + (last - off) = last
      BY <1>7
    <2>. QED BY <1>7, <2>1, ExtentIs, Zenon
  <1>9. lo \in 1 .. Len(fl) + 1 /\ hi \in lo - 1 .. Len(fl)
    BY <1>1
  <1>10. \A k \in 1 .. lo - 1 : End(fl[k]) < off
    <2> TAKE k \in 1 .. lo - 1
    <2>1. k \in DOMAIN fl /\ k < pos
      BY <1>1
    <2>2. CASE prev
      <3>1. k < pos - 1 /\ pos - 1 \in DOMAIN fl
        BY <1>1, <2>1, <2>2
      <3>. QED BY <1>1, <2>1, <2>2, <3>1, Zenon
    <2>3. CASE ~prev
      <3>1. End(fl[k]) <= e.offset /\ End(fl[k]) \in Nat
        BY <1>3, <1>4, <2>1, Zenon
      <3>2. CASE k = pos - 1
        <4>1. End(fl[k]) # e.offset
          BY <1>1, <2>1, <2>3, <3>2
        <4>. QED BY <1>2, <2>3, <3>1, <4>1
      <3>3. CASE k # pos - 1
        <4>1. pos - 1 \in DOMAIN fl /\ k < pos - 1 /\ pos - 1 < pos
          BY <1>1, <2>1, <3>3
        <4>2. End(fl[k]) < fl[pos - 1].offset /\ fl[pos - 1].offset < End(fl[pos - 1])
          BY <1>1, <1>3, <2>1, <4>1, Zenon
        <4>3. End(fl[pos - 1]) <= e.offset /\ fl[pos - 1].offset \in Nat /\ End(fl[pos - 1]) \in Nat
          BY <1>3, <1>4, <4>1, Zenon
        <4>. QED BY <1>2, <2>3, <3>1, <4>2, <4>3, SMTT(30)
      <3>. QED BY <3>2, <3>3, Zenon
    <2>. QED BY <2>2, <2>3, Zenon
  <1>11. \A k \in hi + 1 .. Len(fl) : last < fl[k].offset
    <2> TAKE k \in hi + 1 .. Len(fl)
    <2>1. k \in DOMAIN fl /\ ~(k < pos)
      BY <1>1
    <2>2. CASE next
      <3>1. pos < k /\ pos \in DOMAIN fl
        BY <1>1, <2>1, <2>2
      <3>. QED BY <1>1, <2>1, <2>2, <3>1, Zenon
    <2>3. CASE ~next
      <3>1. pos \in DOMAIN fl /\ pos <= Len(fl) /\ End(e) # fl[pos].offset /\ ~(pos < pos)
        BY <1>1, <2>1, <2>3
      <3>2. End(e) <= fl[pos].offset
        BY <1>4, <3>1, Zenon
      <3>3. k # pos => End(fl[pos]) < fl[k].offset
        BY <1>1, <2>1, <3>1
      <3>. QED BY <1>2, <1>3, <2>1, <2>3, <3>1, <3>2, <3>3, SMTT(30)
    <2>. QED BY <2>2, <2>3, Zenon
  <1>12. \A u : u \in Units(x) <=> \/ u \in Units(e)
                                   \/ \E k \in DOMAIN fl : lo <= k /\ k <= hi /\ u \in Units(fl[k])
    <2>1. \A u : u \in Units(x) <=> u \in Int /\ off <= u /\ u < last
      BY <1>8, InArea, Zenon
    <2>2. \A k \in DOMAIN fl : lo <= k /\ k <= hi <=> (prev /\ k = pos - 1) \/ (next /\ k = pos)
      BY <1>1, <1>5, <1>6
    <2>3. \A u : u \in Int /\ off <= u /\ u < last <=>
                     \/ u \in Units(e)
                     \/ prev /\ u \in Units(fl[pos - 1])
                     \/ next /\ u \in Units(fl[pos])
      <3>1. prev => \A u : u \in Units(fl[pos - 1]) <=> u \in Int /\ off <= u /\ u < e.offset
        BY <1>3, <1>6, Zenon
      <3>2. next => \A u : u \in Units(fl[pos]) <=> u \in Int /\ End(e) <= u /\ u < last
        BY <1>3, <1>5, Zenon
      <3>3. (~prev => off = e.offset) /\ (~next => last = End(e))
        OBVIOUS
      <3> HIDE DEF prev, next, off, last
      <3> TAKE u
      <3>4. /\ u \in Units(e) <=> u \in Int /\ e.offset <= u /\ u < End(e)
            /\ e.offset \in Int /\ End(e) \in Int /\ off \in Int /\ last \in Int
            /\ off <= e.offset /\ e.offset < End(e) /\ End(e) <= last
        BY <1>2, <1>7
      <3>5. prev /\ u \in Units(fl[pos - 1]) <=> u \in Int /\ off <= u /\ u < e.offset
        <4>1. CASE prev
          BY <3>1, <4>1, Zenon
        <4>2. CASE ~prev
          BY <3>3, <3>4, <4>2
        <4>. QED BY <4>1, <4>2, Zenon
      <3>6. next /\ u \in Units(fl[pos]) <=> u \in Int /\ End(e) <= u /\ u < last
        <4>1. CASE next
          BY <3>2, <4>1, Zenon
        <4>2. CASE ~next
          BY <3>3, <3>4, <4>2
        <4>. QED BY <4>1, <4>2, Zenon
      <3>7. u \in Int /\ off <= u /\ u < last <=>
                \/ u \in Int /\ e.offset <= u /\ u < End(e)
                \/ u \in Int /\ off <= u /\ u < e.offset
                \/ u \in Int /\ End(e) <= u /\ u < last
        BY <3>4
      <3>. QED BY <3>4, <3>5, <3>6, <3>7, Zenon
    <2> HIDE DEF prev, next, off, last, lo, hi, x
    <2>. QED BY <1>5, <1>6, <2>1, <2>2, <2>3, Zenon
  <1>13. Insert(fl, e, pos) = Splice(fl, lo, hi, <<x>>)
    BY Zenon DEF Insert
  <1> HIDE DEF prev, next, off, last, lo, hi, x
  <1> DEFINE r == Splice(fl, lo, hi, <<x>>)
  <1>14. /\ Gaps(r)
         /\ \A u : Listed(r, u) <=>
                        \/ u \in Units(x)
                        \/ \E k \in DOMAIN fl : (k < lo \/ k > hi) /\ u \in Units(fl[k])
    <2>1. /\ \A k \in 1 .. lo - 1 : End(fl[k]) < x.offset
          /\ \A k \in hi + 1 .. Len(fl) : End(x) < fl[k].offset
          /\ End(x) <= Size
      BY <1>7, <1>8, <1>10, <1>11, Zenon
    <2>. QED BY <1>8, <1>9, <2>1, SpliceOne, Zenon
  <1>15. \A k \in DOMAIN fl : (k < lo \/ k > hi) <=> ~(lo <= k /\ k <= hi)
    BY <1>1, <1>9
  <1>16. \A u : Listed(r, u) <=> Listed(fl, u) \/ u \in Units(e)
    <2> HIDE DEF r
    <2>. QED BY <1>12, <1>14, <1>15, Zenon DEF Listed
  <1>. QED BY <1>13, <1>14, <1>16, Zenon

-----------------------------------------------------------------------------
(***************************************************************************)
(* The arena's operations keep the free list exact                         *)
(***************************************************************************)

Ranges == [offset : Guard .. Size, size : 1 .. Size, refs : Nat \ {0}]

LEMMA InRanges ==
    ASSUME NEW a \in Ranges
    PROVE  /\ a.offset \in Nat /\ a.size \in Nat /\ a.size >= 1 /\ a.refs \in Nat \ {0}
           /\ Extent(a.offset, a.size) \in Area /\ Units(Extent(a.offset, a.size)) = Units(a)
           /\ End(a) \in Nat /\ a.offset < End(a)
           /\ \A u : u \in Units(a) <=> u \in Int /\ a.offset <= u /\ u < End(a)
           /\ Units(a) \subseteq Guard .. Size - 1 => End(a) <= Size
  <1>1. a.offset \in Guard .. Size /\ a.size \in 1 .. Size /\ a.refs \in Nat \ {0}
    BY Zenon DEF Ranges
  <1>2. End(a) = a.offset + a.size /\ Units(a) = a.offset .. End(a) - 1
    BY Zenon DEF End, Units
  <1>3. a.offset \in Nat /\ a.size \in Nat /\ End(a) \in Nat /\ a.size >= 1
    BY <1>1, <1>2, Bounds
  <1>4. Extent(a.offset, a.size) \in Area /\ Units(Extent(a.offset, a.size)) = Units(a)
    BY <1>1, Zenon DEF Extent, Area, Units, End
  <1>5. Units(a) \subseteq Guard .. Size - 1 => End(a) <= Size
    <2>1. End(a) - 1 \in Units(a)
      BY <1>2, <1>3
    <2>2. End(a) - 1 \in Guard .. Size - 1 => End(a) <= Size
      BY <1>3, Bounds
    <2>. QED BY <2>1, <2>2, Zenon
  <1>. QED BY <1>1, <1>2, <1>3, <1>4, <1>5

\* The free list is one of gaps, and what is not on it is allocated once.
Exact(fl, A) ==
    /\ Gaps(fl)
    /\ A \subseteq Ranges
    /\ \A a \in A : Units(a) \subseteq Guard .. Size - 1
    /\ \A a, b \in A : a # b => Units(a) \cap Units(b) = {}
    /\ \A u \in Guard .. Size - 1 : Listed(fl, u) <=> ~ \E a \in A : u \in Units(a)

LEMMA GapsInArena ==
    ASSUME NEW fl \in Seq(Area)
    PROVE  (\A i \in DOMAIN fl : End(fl[i]) <= Size) <=>
           (\A i \in DOMAIN fl : Units(fl[i]) \subseteq Guard .. Size - 1)
  <1> SUFFICES ASSUME NEW i \in DOMAIN fl
               PROVE  End(fl[i]) <= Size <=> Units(fl[i]) \subseteq Guard .. Size - 1
    OBVIOUS
  <1> DEFINE e == fl[i]
  <1>1. e \in Area
    OBVIOUS
  <1> HIDE DEF e
  <1>2. /\ e.offset \in Nat /\ e.size \in Nat /\ e.size >= 1 /\ End(e) \in Nat /\ Guard <= e.offset
        /\ End(e) = e.offset + e.size
        /\ \A u : u \in Units(e) <=> u \in Int /\ e.offset <= u /\ u < End(e)
    BY <1>1, InArea, Zenon
  <1>3. End(e) - 1 \in Units(e)
    BY <1>2
  <1>4. End(e) - 1 \in Guard .. Size - 1 => End(e) <= Size
    BY <1>2, Bounds
  <1>5. End(e) <= Size => Units(e) \subseteq Guard .. Size - 1
    BY <1>2, Bounds
  <1>. QED BY <1>3, <1>4, <1>5, Zenon DEF e

LEMMA ExactIs ==
    free_list \in Seq(Area) /\ allocations \subseteq Ranges
        => (Exact(free_list, allocations) <=> FreeListExact)
  BY GapsInArena, Zenon DEF Exact, Gaps, FreeListExact, AllocationsDisjoint, Allocated

\* What kgsl_blob_arena_alloc adds to the allocations
NewRange(o, z) == [offset |-> o, size |-> z, refs |-> 1]

\* An allocation takes the front of a free extent.
LEMMA AllocExact ==
    ASSUME NEW fl, NEW A, Exact(fl, A), NEW i \in DOMAIN fl, NEW size \in Nat \ {0}, size <= fl[i].size,
           NEW a, a = NewRange(fl[i].offset, size)
    PROVE  /\ Exact(Splice(fl, i, i, Carve(fl[i], size)), A \cup {a})
           /\ a \in Ranges /\ \A b \in A : b.offset # a.offset
  <1> DEFINE r == Splice(fl, i, i, Carve(fl[i], size))
             e == Extent(fl[i].offset, size)
  <1>1. /\ Gaps(r)
        /\ \A u : Listed(r, u) <=> Listed(fl, u) /\ u \notin Units(e)
        /\ e \in Area /\ End(e) <= Size
        /\ \A u \in Units(e) : Listed(fl, u)
    BY AllocGaps, Zenon DEF Exact
  <1>2. /\ a \in Ranges /\ a.offset = fl[i].offset /\ Units(a) = Units(e)
    <2>1. fl[i].offset \in Guard .. Size /\ size \in 1 .. Size
      BY <1>1, Zenon DEF Area, Extent
    <2>. QED BY <2>1 DEF Ranges, Units, End, Extent, NewRange
  <1> HIDE DEF r, e
  <1>3. /\ \A u : u \in Units(e) <=> u \in Int /\ e.offset <= u /\ u < End(e)
        /\ e.offset \in Nat /\ End(e) \in Nat /\ Guard <= e.offset /\ e.offset < End(e)
    BY <1>1, InArea
  <1>4. Units(e) \subseteq Guard .. Size - 1
    BY <1>1, <1>3, Bounds
  <1>5. \A b \in A : Units(b) \cap Units(e) = {}
    BY <1>1, <1>4, Zenon DEF Exact
  <1>6. \A b \in A : b.offset # a.offset
    <2> TAKE b \in A
    <2>1. b.offset \in Units(b)
      BY InRanges DEF Exact
    <2>2. e.offset \in Units(e) /\ e.offset = a.offset
      BY <1>2, <1>3 DEF e, Extent
    <2>. QED BY <1>5, <2>1, <2>2, Zenon
  <1>7. \A b, d \in A \cup {a} : b # d => Units(b) \cap Units(d) = {}
    BY <1>2, <1>5, Zenon DEF Exact
  <1>8. \A u \in Guard .. Size - 1 : Listed(r, u) <=> ~ \E b \in A \cup {a} : u \in Units(b)
    BY <1>1, <1>2, Zenon DEF Exact
  <1>9. Exact(r, A \cup {a})
    BY <1>1, <1>2, <1>4, <1>7, <1>8, Zenon DEF Exact
  <1>. QED BY <1>2, <1>6, <1>9, Zenon DEF r

\* A range whose last reference goes returns to the free list.
LEMMA FreeExact ==
    ASSUME NEW fl, NEW A, Exact(fl, A), NEW a \in A, NEW pos \in 1 .. Len(fl) + 1,
           InsertAt(fl, Extent(a.offset, a.size), pos)
    PROVE  Exact(Insert(fl, Extent(a.offset, a.size), pos), A \ {a})
  <1> DEFINE e == Extent(a.offset, a.size)
             r == Insert(fl, e, pos)
  <1>1. a \in Ranges /\ Units(a) \subseteq Guard .. Size - 1
    BY Zenon DEF Exact
  <1>2. e \in Area /\ Units(e) = Units(a) /\ End(e) = End(a)
    BY <1>1, InRanges, Zenon DEF End, Extent
  <1>3. End(e) <= Size
    BY <1>1, <1>2, InRanges, Zenon
  <1> HIDE DEF e
  <1>4. \A u \in Units(e) : ~Listed(fl, u)
    BY <1>1, <1>2, Zenon DEF Exact
  <1>5. Gaps(r) /\ \A u : Listed(r, u) <=> Listed(fl, u) \/ u \in Units(e)
    BY <1>2, <1>3, <1>4, InsertGaps DEF Exact, e
  <1> HIDE DEF r
  <1>6. \A u \in Guard .. Size - 1 : Listed(r, u) <=> ~ \E b \in A \ {a} : u \in Units(b)
    <2>1. \A b \in A \ {a} : Units(b) \cap Units(a) = {}
      BY Zenon DEF Exact
    <2>. QED BY <1>2, <1>5, <2>1, Zenon DEF Exact
  <1>7. Exact(r, A \ {a})
    BY <1>5, <1>6, Zenon DEF Exact
  <1>. QED BY <1>7, Zenon DEF r, e

\* Another count on a range moves no byte.
LEMMA RecountExact ==
    ASSUME NEW fl, NEW A, Exact(fl, A), NEW a \in A, NEW n \in Nat \ {0}
    PROVE  Exact(fl, (A \ {a}) \cup {[a EXCEPT !.refs = n]})
  <1> DEFINE b == [a EXCEPT !.refs = n]
  <1>1. b \in Ranges /\ Units(b) = Units(a)
    BY Zenon DEF Exact, Ranges, Units, End
  <1> HIDE DEF b
  <1>2. \A d \in A \ {a} : Units(d) \cap Units(b) = {}
    BY <1>1, Zenon DEF Exact
  <1>3. Exact(fl, (A \ {a}) \cup {b})
    BY <1>1, <1>2, Zenon DEF Exact
  <1>. QED BY <1>3, Zenon DEF b

-----------------------------------------------------------------------------
(***************************************************************************)
(* Users and their counts                                                  *)
(***************************************************************************)

LEMMA HoldersFinite == \A o : IsFiniteSet(Holders(o)) /\ Cardinality(Holders(o)) \in Nat
  <1>1. IsFiniteSet(Ctx) /\ IsFiniteSet(Res)
    BY ArenaAssumption, Zenon
  <1>2. IsFiniteSet(Res \cup {None})
    BY <1>1, FS_AddElement, Zenon
  <1>3. IsFiniteSet(Users)
    BY <1>1, <1>2, FS_Product, Zenon DEF Users
  <1>4. \A o : Holders(o) \in SUBSET Users
    BY Zenon DEF Holders
  <1>5. \A o : IsFiniteSet(Holders(o))
    BY <1>3, <1>4, FS_Subset, Zenon
  <1>. QED BY <1>5, FS_CardinalityType, Zenon

\* The two kinds of user
LEMMA HeldIs ==
    /\ \A c \in Ctx : <<c, None>> \in Users /\ Held(<<c, None>>) = shmem[c]
    /\ \A c \in Ctx, r \in Res : <<c, r>> \in Users /\ Held(<<c, r>>) = objects[c][r]
    /\ \A h \in Users : \/ \E c \in Ctx : h = <<c, None>>
                        \/ \E c \in Ctx, r \in Res : h = <<c, r>>
  <1>1. None \notin Res
    BY ArenaAssumption, Zenon
  <1>. QED BY <1>1 DEF Users, Held

\* A user takes a range: it is counted there, and no other count changes.
LEMMA Taken ==
    ASSUME NEW h \in Users, Held(h) = None, Held(h)' # None,
           \A g \in Users : g # h => Held(g)' = Held(g),
           NEW o, o = Held(h)'.offset
    PROVE  /\ Cardinality(Holders(o))' = Cardinality(Holders(o)) + 1
           /\ \A p : p # o => Holders(p)' = Holders(p)
  <1>1. Holders(o)' = Holders(o) \cup {h} /\ h \notin Holders(o)
    BY DEF Holders
  <1>2. \A p : p # o => Holders(p)' = Holders(p)
    BY Zenon DEF Holders
  <1>3. Cardinality(Holders(o) \cup {h}) = Cardinality(Holders(o)) + 1
    <2>1. IsFiniteSet(Holders(o))
      BY HoldersFinite, Zenon
    <2>. QED BY <1>1, <2>1, FS_AddElement, Zenon
  <1>. QED BY <1>1, <1>2, <1>3, Zenon

\* A user lets a range go.
LEMMA LetGo ==
    ASSUME NEW h \in Users, Held(h) # None, Held(h)' = None,
           \A g \in Users : g # h => Held(g)' = Held(g),
           NEW o, o = Held(h).offset
    PROVE  /\ Cardinality(Holders(o))' = Cardinality(Holders(o)) - 1
           /\ Cardinality(Holders(o)) = 1 => Holders(o) = {h}
           /\ \A p : p # o => Holders(p)' = Holders(p)
  <1>1. Holders(o)' = Holders(o) \ {h} /\ h \in Holders(o)
    BY Zenon DEF Holders
  <1>2. \A p : p # o => Holders(p)' = Holders(p)
    BY Zenon DEF Holders
  <1>3. IsFiniteSet(Holders(o))
    BY HoldersFinite, Zenon
  <1>4. Cardinality(Holders(o) \ {h}) = Cardinality(Holders(o)) - 1
    BY <1>1, <1>3, FS_RemoveElement, Zenon
  <1>5. Cardinality(Holders(o)) = 1 => Holders(o) = {h}
    BY <1>1, <1>3, FS_Singleton
  <1>. QED BY <1>1, <1>2, <1>4, <1>5, Zenon

\* The range a user names is allocated, and it is the only one there.
LEMMA RangeFound ==
    ASSUME Exact(free_list, allocations), NEW off, NEW bytes, Lookup(off, bytes) # {}
    PROVE  \E a \in allocations : /\ Lookup(off, bytes) = {a}
                                  /\ a.offset = off /\ a.size = Align(bytes)
                                  /\ \A b \in allocations : b.offset = off => b = a
  <1>1. PICK a \in allocations : a.offset = off /\ a.size = Align(bytes)
    BY Zenon DEF Lookup
  <1>2. \A b \in allocations : b.offset \in Units(b)
    BY InRanges DEF Exact
  <1>3. \A b \in allocations : b.offset = off => b = a
    BY <1>1, <1>2, Zenon DEF Exact
  <1>4. Lookup(off, bytes) = {a}
    BY <1>1, <1>3, Zenon DEF Lookup
  <1>. QED BY <1>1, <1>3, <1>4, Zenon

-----------------------------------------------------------------------------
(***************************************************************************)
(* The inductive invariant                                                 *)
(***************************************************************************)

Inv == ArenaConsistent /\ RefsCountHolders

LEMMA InitInv == Init => Inv
  <1> SUFFICES ASSUME Init PROVE Inv
    OBVIOUS
  <1>1. \A h \in Users : Held(h) = None
    BY HeldIs DEF Init
  <1>2. RefsCountHolders
    BY <1>1, Zenon DEF RefsCountHolders, Init
  <1> DEFINE e == Extent(Guard, Size - Guard)
  <1>3. e \in Area /\ e.offset = Guard /\ End(e) = Size
    <2>1. Size - Guard \in Nat \ {0} /\ Guard + (Size - Guard) = Size /\ Guard \in Nat
      BY Bounds
    <2>. QED BY <2>1, ExtentIs, Bounds
  <1>4. \A u : u \in Units(e) <=> u \in Int /\ Guard <= u /\ u < Size
    BY <1>3, InArea, Zenon
  <1> HIDE DEF e
  <1>5. free_list = <<e>> /\ allocations = {}
    BY Zenon DEF Init, e
  <1>6. free_list \in Seq(Area) /\ DOMAIN free_list = {1} /\ free_list[1] = e
    BY <1>3, <1>5
  <1>7. \A u : Listed(free_list, u) <=> u \in Units(e)
    BY <1>6, Zenon DEF Listed
  <1>8. FreeListExact
    BY <1>4, <1>5, <1>6, <1>7, Bounds DEF FreeListExact, AllocationsDisjoint, Allocated
  <1>9. TypeOK
    BY <1>5, <1>6, Zenon DEF TypeOK, Init
  <1>. QED BY <1>2, <1>8, <1>9, Zenon DEF Inv, ArenaConsistent

LEMMA InvFacts ==
    ASSUME Inv
    PROVE  /\ Exact(free_list, allocations) /\ TypeOK /\ allocations \subseteq Ranges
           /\ \A a \in allocations : a.refs = Cardinality(Holders(a.offset))
           /\ \A h \in Users : Held(h) # None => Lookup(Held(h).offset, Held(h).size) # {}
  <1>1. TypeOK /\ FreeListExact /\ free_list \in Seq(Area) /\ allocations \subseteq Ranges
    BY Zenon DEF Inv, ArenaConsistent, TypeOK, Ranges
  <1>. QED BY <1>1, ExactIs, Zenon DEF Inv, RefsCountHolders

LEMMA InvFrom ==
    ASSUME Exact(free_list, allocations)',
           (shmem \in [Ctx -> Area \cup {None}])',
           (objects \in [Ctx -> [Res -> Area \cup {None}]])',
           (res \in [Res -> Area \cup {None}])',
           (dying \in Ctx \cup {None})',
           RefsCountHolders'
    PROVE  Inv'
  <1>1. (free_list \in Seq(Area) /\ allocations \subseteq Ranges)'
    BY Zenon DEF Exact, Gaps
  <1>2. FreeListExact'
    BY <1>1, GapsInArena, Zenon DEF Exact, Gaps, FreeListExact, AllocationsDisjoint, Allocated
  <1>3. TypeOK'
    BY <1>1, Zenon DEF TypeOK, Ranges
  <1>. QED BY <1>2, <1>3, Zenon DEF Inv, ArenaConsistent

\* The first reference to a new range
LEMMA CountNew ==
    ASSUME Inv, NEW h \in Users, NEW o, NEW bytes, NEW a,
           Held(h) = None, Held(h)' = Extent(o, bytes),
           \A g \in Users : g # h => Held(g)' = Held(g),
           a.offset = o, a.size = Align(bytes), a.refs = 1,
           \A b \in allocations : b.offset # o,
           allocations' = allocations \cup {a}
    PROVE  RefsCountHolders'
  <1>1. Held(h)' # None /\ Held(h)'.offset = o /\ Held(h)'.size = bytes
    BY DEF Extent, None
  <1>2. Holders(o) = {}
    BY InvFacts, Zenon DEF Holders, Lookup
  <1>3. /\ Cardinality(Holders(o))' = Cardinality(Holders(o)) + 1
        /\ \A p : p # o => Holders(p)' = Holders(p)
    BY <1>1, Taken, Zenon
  <1>4. Cardinality(Holders(o))' = 1
    BY <1>2, <1>3, FS_EmptySet
  <1>5. \A b \in allocations' : b.refs = Cardinality(Holders(b.offset)')
    BY <1>3, <1>4, InvFacts, Zenon
  <1>6. \A g \in Users : Held(g)' # None => Lookup(Held(g).offset, Held(g).size)' # {}
    <2> TAKE g \in Users
    <2>1. CASE g = h
      BY <1>1, <2>1, Zenon DEF Lookup
    <2>2. CASE g # h
      BY <2>2, InvFacts, Zenon DEF Lookup
    <2>. QED BY <2>1, <2>2, Zenon
  <1>. QED BY <1>5, <1>6, Zenon DEF RefsCountHolders

\* One more reference to an allocated range
LEMMA CountRetain ==
    ASSUME Inv, NEW h \in Users, NEW bytes, NEW a \in allocations,
           Held(h) = None, Held(h)' = Extent(a.offset, bytes), Align(bytes) = a.size,
           \A g \in Users : g # h => Held(g)' = Held(g),
           \A b \in allocations : b.offset = a.offset => b = a,
           allocations' = (allocations \ {a}) \cup {[a EXCEPT !.refs = @ + 1]}
    PROVE  RefsCountHolders'
  <1> DEFINE b == [a EXCEPT !.refs = @ + 1]
  <1>0. a \in Ranges
    BY InvFacts, Zenon
  <1>1. b.offset = a.offset /\ b.size = a.size /\ b.refs = a.refs + 1
    BY <1>0, Zenon DEF Ranges
  <1> HIDE DEF b
  <1>2. PICK o : o = a.offset
    OBVIOUS
  <1>3. Held(h)' # None /\ Held(h)'.offset = o /\ Held(h)'.size = bytes
    BY <1>2 DEF Extent, None
  <1>4. /\ Cardinality(Holders(o))' = Cardinality(Holders(o)) + 1
        /\ \A p : p # o => Holders(p)' = Holders(p)
    BY <1>3, Taken, Zenon
  <1>5. allocations' = (allocations \ {a}) \cup {b}
    BY Zenon DEF b
  <1>6. \A d \in allocations' : d.refs = Cardinality(Holders(d.offset)')
    BY <1>1, <1>2, <1>4, <1>5, InvFacts, Zenon
  <1>7. \A g \in Users : Held(g)' # None => Lookup(Held(g).offset, Held(g).size)' # {}
    <2> TAKE g \in Users
    <2>1. CASE g = h
      BY <1>1, <1>2, <1>3, <1>5, <2>1, Zenon DEF Lookup
    <2>2. CASE g # h
      BY <1>1, <1>5, <2>2, InvFacts DEF Lookup
    <2>. QED BY <2>1, <2>2, Zenon
  <1>. QED BY <1>6, <1>7, Zenon DEF RefsCountHolders

\* One reference less
LEMMA CountRelease ==
    ASSUME Inv, NEW h \in Users, NEW a \in allocations,
           Held(h) # None, Held(h).offset = a.offset, Held(h)' = None,
           \A g \in Users : g # h => Held(g)' = Held(g),
           \A b \in allocations : b.offset = a.offset => b = a,
           allocations' = IF a.refs = 1 THEN allocations \ {a}
                          ELSE (allocations \ {a}) \cup {[a EXCEPT !.refs = @ - 1]}
    PROVE  RefsCountHolders'
  <1> DEFINE b == [a EXCEPT !.refs = @ - 1]
  <1>0. a \in Ranges
    BY InvFacts, Zenon
  <1>1. b.offset = a.offset /\ b.size = a.size /\ b.refs = a.refs - 1
    BY <1>0, Zenon DEF Ranges
  <1>1a. allocations' = IF a.refs = 1 THEN allocations \ {a} ELSE (allocations \ {a}) \cup {b}
    OBVIOUS
  <1> HIDE DEF b
  <1>2. PICK o : o = a.offset
    OBVIOUS
  <1>3. /\ Cardinality(Holders(o))' = Cardinality(Holders(o)) - 1
        /\ Cardinality(Holders(o)) = 1 => Holders(o) = {h}
        /\ \A p : p # o => Holders(p)' = Holders(p)
    BY <1>2, LetGo, Zenon
  <1>4. \A d \in allocations' : d.refs = Cardinality(Holders(d.offset)')
    BY <1>1, <1>1a, <1>2, <1>3, InvFacts, Zenon
  <1>5. \A g \in Users : Held(g)' # None => Lookup(Held(g).offset, Held(g).size)' # {}
    <2> SUFFICES ASSUME NEW g \in Users, Held(g)' # None
                 PROVE  Lookup(Held(g).offset, Held(g).size)' # {}
      OBVIOUS
    <2>1. g # h /\ Held(g)' = Held(g)
      OBVIOUS
    <2>2. PICK d \in allocations : d.offset = Held(g).offset /\ d.size = Align(Held(g).size)
      BY <2>1, InvFacts, Zenon DEF Lookup
    <2>3. \E d2 \in allocations' : d2.offset = d.offset /\ d2.size = d.size
      <3>1. CASE d # a
        BY <1>1a, <3>1, Zenon
      <3>2. CASE d = a
        <4>1. g \in Holders(o)
          BY <1>2, <2>1, <2>2, <3>2, Zenon DEF Holders
        <4>2. a.refs # 1
          BY <1>2, <1>3, <2>1, <4>1, InvFacts, Zenon
        <4>. QED BY <1>1, <1>1a, <3>2, <4>2, Zenon
      <3>. QED BY <3>1, <3>2, Zenon
    <2>. QED BY <2>1, <2>2, <2>3, Zenon DEF Lookup
  <1>. QED BY <1>4, <1>5, Zenon DEF RefsCountHolders

-----------------------------------------------------------------------------
(***************************************************************************)
(* The steps                                                               *)
(***************************************************************************)

LEMMA AllocStep ==
    ASSUME Inv, NEW c \in Ctx, NEW r \in Res, NEW bytes \in BlobSizes, NEW i \in 1 .. Len(free_list),
           GetArenaShmemBlob(c, r, bytes, i)
    PROVE  Inv'
  <1> DEFINE size == Align(bytes)
             o == free_list[i].offset
             a == [offset |-> o, size |-> size, refs |-> 1]
             x == Extent(o, bytes)
  <1>1. /\ shmem[c] = None /\ FirstFit(size, i)
        /\ free_list' = Splice(free_list, i, i, Carve(free_list[i], size))
        /\ allocations' = allocations \cup {a}
        /\ shmem' = [shmem EXCEPT ![c] = x] /\ res' = [res EXCEPT ![r] = x]
        /\ UNCHANGED <<objects, dying>>
    BY Zenon DEF GetArenaShmemBlob, ArenaAlloc
  <1>2. /\ bytes \in Nat \ {0} /\ size \in Nat \ {0} /\ size >= bytes
    BY AlignIs, ArenaAssumption, Zenon
  <1>3. /\ i \in DOMAIN free_list /\ size <= free_list[i].size
        /\ free_list[i] \in Area /\ free_list[i].size \in Nat
    <2>1. free_list \in Seq(Area)
      BY InvFacts, Zenon DEF TypeOK
    <2>2. free_list[i] \in Area /\ i \in DOMAIN free_list
      BY <2>1
    <2>. QED BY <1>1, <1>2, <2>2, InArea, Zenon DEF FirstFit
  <1> HIDE DEF size
  <1>4. /\ Exact(free_list', allocations')
        /\ a \in Ranges /\ \A b \in allocations : b.offset # a.offset
    <2>1. a = NewRange(free_list[i].offset, size)
      BY Zenon DEF NewRange
    <2> HIDE DEF a
    <2>2. /\ Exact(Splice(free_list, i, i, Carve(free_list[i], size)), allocations \cup {a})
          /\ a \in Ranges /\ \A b \in allocations : b.offset # a.offset
      <3>1. Exact(free_list, allocations)
        BY InvFacts, Zenon
      <3>. QED BY <1>2, <1>3, <2>1, <3>1, AllocExact, Zenon
    <2>. QED BY <1>1, <2>2, Zenon
  <1>5. x \in Area
    <2>1. o \in Guard .. Size /\ bytes \in 1 .. Size
      BY <1>2, <1>4, Bounds DEF Ranges
    <2>. QED BY <2>1, Zenon DEF Area, Extent
  <1>6. /\ shmem' \in [Ctx -> Area \cup {None}] /\ objects' \in [Ctx -> [Res -> Area \cup {None}]]
        /\ res' \in [Res -> Area \cup {None}] /\ dying' \in Ctx \cup {None}
        /\ shmem \in [Ctx -> Area \cup {None}]
    <2> HIDE DEF x
    <2>1. TypeOK
      BY InvFacts, Zenon
    <2>. QED BY <1>1, <1>5, <2>1, Zenon DEF TypeOK
  <1> DEFINE h == <<c, None>>
  <1>7. h \in Users /\ Held(h) = None /\ Held(h)' = x
    BY <1>1, <1>6, HeldIs, Zenon DEF Held
  <1>8. \A g \in Users : g # h => Held(g)' = Held(g)
    BY <1>1, <1>6, HeldIs DEF Held
  <1>9. a.offset = o /\ a.size = Align(bytes) /\ a.refs = 1
    BY Zenon DEF size
  <1> HIDE DEF h, a
  <1>10. RefsCountHolders'
    BY <1>1, <1>4, <1>7, <1>8, <1>9, CountNew, Zenon
  <1>. QED BY <1>4, <1>6, <1>10, InvFrom, Zenon

LEMMA AttachStep ==
    ASSUME Inv, NEW c \in Ctx, NEW r \in Res, AttachResource(c, r)
    PROVE  Inv'
  <1> DEFINE off == res[r].offset
             bytes == res[r].size
             h == <<c, r>>
  <1>1. /\ res[r] # None /\ objects[c][r] = None /\ ArenaRetain(off, bytes)
        /\ objects' = [objects EXCEPT ![c][r] = Extent(off, Align(bytes))]
        /\ UNCHANGED <<shmem, res, dying>>
    BY Zenon DEF AttachResource
  <1>2. TypeOK /\ res[r] \in Area /\ bytes \in Nat \ {0}
    <2>1. TypeOK /\ res[r] \in Area
      BY <1>1, InvFacts, Zenon DEF TypeOK
    <2>. QED BY <2>1, InArea
  <1>3. Align(bytes) \in Nat \ {0} /\ Align(Align(bytes)) = Align(bytes)
    BY <1>2, AlignIs, Zenon
  <1> HIDE DEF off, bytes
  <1>4. PICK a \in allocations : /\ Lookup(off, bytes) = {a}
                                 /\ a.offset = off /\ a.size = Align(bytes)
                                 /\ \A b \in allocations : b.offset = off => b = a
    <2>1. Lookup(off, bytes) # {}
      BY <1>1, Zenon DEF ArenaRetain
    <2>. QED BY <2>1, RangeFound, InvFacts
  <1>5. /\ allocations' = (allocations \ {a}) \cup {[a EXCEPT !.refs = @ + 1]}
        /\ free_list' = free_list
    BY <1>1, <1>4, Zenon DEF ArenaRetain
  <1>6. a \in Ranges /\ a.refs + 1 \in Nat \ {0}
    <2>1. a \in Ranges
      BY InvFacts, Zenon
    <2>. QED BY <2>1, InRanges
  <1>7. Exact(free_list, allocations)'
    <2>1. Exact(free_list, (allocations \ {a}) \cup {[a EXCEPT !.refs = a.refs + 1]})
      BY <1>6, RecountExact, InvFacts, Zenon
    <2>. QED BY <1>5, <2>1, Zenon
  <1> DEFINE x == Extent(off, Align(bytes))
  <1>8. x \in Area
    BY <1>4, <1>6, InRanges, Zenon
  <1> HIDE DEF x
  <1>9. /\ objects' = [objects EXCEPT ![c][r] = x]
        /\ objects' \in [Ctx -> [Res -> Area \cup {None}]]
        /\ objects \in [Ctx -> [Res -> Area \cup {None}]]
    BY <1>1, <1>2, <1>8, Zenon DEF TypeOK, x
  <1>10. h \in Users /\ Held(h) = None /\ Held(h)' = x
    BY <1>1, <1>9, HeldIs, ArenaAssumption DEF Held
  <1>11. \A g \in Users : g # h => Held(g)' = Held(g)
    <2> TAKE g \in Users
    <2>1. CASE \E d \in Ctx : g = <<d, None>>
      BY <1>1, <2>1 DEF Held
    <2>2. CASE \E d \in Ctx, q \in Res : g = <<d, q>>
      <3>1. PICK d \in Ctx, q \in Res : g = <<d, q>>
        BY <2>2, Zenon
      <3>2. g # h => objects'[d][q] = objects[d][q]
        BY <1>9, <3>1, Zenon
      <3>. QED BY <3>1, <3>2, ArenaAssumption, Zenon DEF Held
    <2>. QED BY <2>1, <2>2, HeldIs, Zenon
  <1>12. RefsCountHolders'
    <2> HIDE DEF h
    <2>1. x = Extent(a.offset, Align(bytes)) /\ Align(Align(bytes)) = a.size
      BY <1>3, <1>4, Zenon DEF x
    <2>2. \A b \in allocations : b.offset = a.offset => b = a
      BY <1>4, Zenon
    <2>. QED BY <1>5, <1>10, <1>11, <2>1, <2>2, CountRetain, Zenon
  <1>. QED BY <1>1, <1>2, <1>7, <1>9, <1>12, InvFrom, Zenon DEF TypeOK

\* A user lets its range go: free_object, or the control buffer in destroy.
LEMMA ReleaseStep ==
    ASSUME Inv, NEW h \in Users, Held(h) # None, Held(h)' = None,
           \A g \in Users : g # h => Held(g)' = Held(g),
           ArenaFree(Held(h).offset, Held(h).size)
    PROVE  Exact(free_list, allocations)' /\ RefsCountHolders'
  <1>1. PICK off, bytes : off = Held(h).offset /\ bytes = Held(h).size
    OBVIOUS
  <1>2. PICK a \in allocations : /\ Lookup(off, bytes) = {a}
                                 /\ a.offset = off /\ a.size = Align(bytes)
                                 /\ \A b \in allocations : b.offset = off => b = a
    <2>1. Lookup(off, bytes) # {}
      BY <1>1, InvFacts, Zenon
    <2>. QED BY <2>1, RangeFound, InvFacts
  <1>3. a \in Ranges /\ a.refs \in Nat \ {0}
    <2>1. a \in Ranges
      BY InvFacts, Zenon
    <2>. QED BY <2>1, InRanges, Zenon
  <1>4. CASE a.refs = 1
    <2>1. allocations' = allocations \ {a}
      BY <1>1, <1>2, <1>4 DEF ArenaFree
    <2>2. PICK pos \in 1 .. Len(free_list) + 1 :
              /\ InsertAt(free_list, Extent(a.offset, a.size), pos)
              /\ free_list' = Insert(free_list, Extent(a.offset, a.size), pos)
      BY <1>1, <1>2, <1>4, Zenon DEF ArenaFree
    <2>3. Exact(free_list, allocations)'
      <3>1. Exact(Insert(free_list, Extent(a.offset, a.size), pos), allocations \ {a})
        BY <2>2, FreeExact, InvFacts, Zenon
      <3>. QED BY <2>1, <2>2, <3>1, Zenon
    <2>. QED BY <1>1, <1>2, <1>4, <2>1, <2>3, CountRelease, Zenon
  <1>5. CASE a.refs # 1
    <2>1. a.refs > 1 /\ a.refs - 1 \in Nat \ {0}
      BY <1>3, <1>5
    <2>2. allocations' = (allocations \ {a}) \cup {[a EXCEPT !.refs = @ - 1]} /\ free_list' = free_list
      BY <1>1, <1>2, <1>5, <2>1, Zenon DEF ArenaFree
    <2>3. Exact(free_list, allocations)'
      <3>1. Exact(free_list, (allocations \ {a}) \cup {[a EXCEPT !.refs = a.refs - 1]})
        BY <2>1, RecountExact, InvFacts, Zenon
      <3>. QED BY <2>2, <3>1, Zenon
    <2>. QED BY <1>1, <1>2, <1>5, <2>2, <2>3, CountRelease, Zenon
  <1>. QED BY <1>4, <1>5, Zenon

LEMMA FreeObjectStep ==
    ASSUME Inv, NEW c \in Ctx, NEW r \in Res, FreeObject(c, r)
    PROVE  Inv'
  <1> DEFINE h == <<c, r>>
  <1>1. /\ objects[c][r] # None /\ ArenaFree(objects[c][r].offset, objects[c][r].size)
        /\ objects' = [objects EXCEPT ![c][r] = None] /\ UNCHANGED <<shmem, res, dying>>
    BY Zenon DEF FreeObject
  <1>2. TypeOK
    BY InvFacts, Zenon
  <1>3. objects' \in [Ctx -> [Res -> Area \cup {None}]] /\ objects \in [Ctx -> [Res -> Area \cup {None}]]
    BY <1>1, <1>2, Zenon DEF TypeOK
  <1>4. h \in Users /\ Held(h) = objects[c][r] /\ Held(h)' = None
    BY <1>1, <1>3, HeldIs, ArenaAssumption, Zenon DEF Held
  <1>5. \A g \in Users : g # h => Held(g)' = Held(g)
    <2> TAKE g \in Users
    <2>1. CASE \E d \in Ctx : g = <<d, None>>
      BY <1>1, <2>1 DEF Held
    <2>2. CASE \E d \in Ctx, q \in Res : g = <<d, q>>
      <3>1. PICK d \in Ctx, q \in Res : g = <<d, q>>
        BY <2>2, Zenon
      <3>2. g # h => objects'[d][q] = objects[d][q]
        BY <1>1, <1>3, <3>1, Zenon
      <3>. QED BY <3>1, <3>2, ArenaAssumption, Zenon DEF Held
    <2>. QED BY <2>1, <2>2, HeldIs, Zenon
  <1>6. Exact(free_list, allocations)' /\ RefsCountHolders'
    <2> HIDE DEF h
    <2>1. Held(h) # None /\ ArenaFree(Held(h).offset, Held(h).size)
      BY <1>1, <1>4, Zenon
    <2>. QED BY <1>4, <1>5, <2>1, ReleaseStep, Zenon
  <1>. QED BY <1>1, <1>2, <1>3, <1>6, InvFrom, Zenon DEF TypeOK

LEMMA DestroyShmemStep ==
    ASSUME Inv, NEW c \in Ctx, DestroyShmem(c)
    PROVE  Inv'
  <1> DEFINE h == <<c, None>>
  <1>1. /\ dying' = c /\ shmem' = [shmem EXCEPT ![c] = None] /\ UNCHANGED <<objects, res>>
    BY Zenon DEF DestroyShmem
  <1>2. TypeOK
    BY InvFacts, Zenon
  <1>3. shmem' \in [Ctx -> Area \cup {None}] /\ shmem \in [Ctx -> Area \cup {None}]
    BY <1>1, <1>2, Zenon DEF TypeOK
  <1>4. h \in Users /\ Held(h) = shmem[c] /\ Held(h)' = None
    BY <1>1, <1>3, HeldIs, Zenon DEF Held
  <1>5. \A g \in Users : g # h => Held(g)' = Held(g)
    BY <1>1, <1>3, HeldIs DEF Held
  <1>6. Exact(free_list, allocations)' /\ RefsCountHolders'
    <2> HIDE DEF h
    <2>1. CASE shmem[c] # None
      <3>1. Held(h) # None /\ ArenaFree(Held(h).offset, Held(h).size)
        BY <1>4, <2>1, Zenon DEF DestroyShmem
      <3>. QED BY <1>4, <1>5, <3>1, ReleaseStep, Zenon
    <2>2. CASE shmem[c] = None
      <3>1. UNCHANGED <<free_list, allocations>>
        BY <2>2, Zenon DEF DestroyShmem
      <3>2. \A g \in Users : Held(g)' = Held(g)
        BY <1>4, <1>5, <2>2, Zenon
      <3>3. \A o : Holders(o)' = Holders(o)
        BY <3>2, Zenon DEF Holders
      <3>. QED BY <3>1, <3>2, <3>3, InvFacts, Zenon DEF RefsCountHolders, Lookup
    <2>. QED BY <2>1, <2>2, Zenon
  <1>. QED BY <1>1, <1>2, <1>3, <1>6, InvFrom, Zenon DEF TypeOK

\* The arena and its users stay as they are.
LEMMA QuietStep ==
    ASSUME Inv, UNCHANGED <<free_list, allocations, shmem, objects>>,
           res' \in [Res -> Area \cup {None}], dying' \in Ctx \cup {None}
    PROVE  Inv'
  <1>1. \A g \in Users : Held(g)' = Held(g)
    BY Zenon DEF Held
  <1>2. \A o : Holders(o)' = Holders(o)
    BY <1>1, Zenon DEF Holders
  <1>3. RefsCountHolders'
    BY <1>1, <1>2, InvFacts, Zenon DEF RefsCountHolders, Lookup
  <1>. QED BY <1>3, InvFacts, InvFrom, Zenon DEF TypeOK

LEMMA Step == Inv /\ [Next]_vars => Inv'
  <1> SUFFICES ASSUME Inv, [Next]_vars
               PROVE  Inv'
    OBVIOUS
  <1>1. TypeOK
    BY InvFacts, Zenon
  <1>2. ASSUME NEW c \in Ctx, NEW r \in Res, NEW bytes \in BlobSizes, NEW i \in 1 .. Len(free_list),
               GetArenaShmemBlob(c, r, bytes, i)
        PROVE  Inv'
    BY <1>2, AllocStep, Zenon
  <1>3. ASSUME NEW c \in Ctx, NEW r \in Res, AttachResource(c, r)
        PROVE  Inv'
    BY <1>3, AttachStep, Zenon
  <1>4. ASSUME NEW c \in Ctx, NEW r \in Res, AttachFails(c, r)
        PROVE  Inv'
    BY <1>1, <1>4, QuietStep, Zenon DEF AttachFails, vars, TypeOK
  <1>5. ASSUME NEW c \in Ctx, NEW r \in Res, DetachResource(c, r)
        PROVE  Inv'
    BY <1>5, FreeObjectStep, Zenon DEF DetachResource
  <1>6. ASSUME NEW r \in Res, ResourceUnref(r)
        PROVE  Inv'
    <2>1. res' \in [Res -> Area \cup {None}]
      BY <1>1, <1>6, Zenon DEF ResourceUnref, TypeOK
    <2>. QED BY <1>1, <1>6, <2>1, QuietStep, Zenon DEF ResourceUnref, TypeOK
  <1>7. ASSUME NEW r \in Res, DestroyObject(r)
        PROVE  Inv'
    <2>1. dying \in Ctx
      BY <1>1, <1>7, Zenon DEF DestroyObject, TypeOK
    <2>. QED BY <1>7, <2>1, FreeObjectStep, Zenon DEF DestroyObject
  <1>8. ASSUME NEW c \in Ctx, DestroyShmem(c)
        PROVE  Inv'
    BY <1>8, DestroyShmemStep, Zenon
  <1>9. CASE DestroyEnd
    BY <1>1, <1>9, QuietStep, Zenon DEF DestroyEnd, TypeOK
  <1>10. CASE UNCHANGED vars
    BY <1>1, <1>10, QuietStep, Zenon DEF vars, TypeOK
  <1>. QED BY <1>2, <1>3, <1>4, <1>5, <1>6, <1>7, <1>8, <1>9, <1>10, Zenon DEF Next

LEMMA Always == Spec => []Inv
  BY InitInv, Step, PTL DEF Spec

\* The ranges kgsl_blob_arena_alloc has handed out never overlap, and the free
\* list that it, kgsl_blob_arena_retain and kgsl_blob_arena_free leave is exactly
\* the maximal gaps between them, whatever contexts do and in whatever order.
THEOREM FreeListStaysExact == Spec => []ArenaConsistent
  <1>1. Inv => ArenaConsistent
    BY Zenon DEF Inv
  <1>. QED BY Always, <1>1, PTL

\* A range's refs are the number of control buffers and imported objects that
\* use it, so it returns to the free list when the last user goes, never before
\* (kgsl_renderer_attach_resource, kgsl_renderer_free_object,
\* kgsl_renderer_destroy).
THEOREM RefsStayExact == Spec => []RefsCountHolders
  <1>1. Inv => RefsCountHolders
    BY Zenon DEF Inv
  <1>. QED BY Always, <1>1, PTL

=============================================================================
