--------------------------- MODULE FileCacheProofs ---------------------------
(***************************************************************************)
(* What holds of the cache for any number of files of any length, any      *)
(* number of requests and any budget.                                      *)
(***************************************************************************)
EXTENDS FileCache, SequenceTheorems, WellFoundedInduction, TLAPS

-----------------------------------------------------------------------------
(* Sums over sequences.  The induction is over a set of numbers, in place  *)
(* of a predicate.                                                         *)

LEMMA Induction ==
    ASSUME NEW T, 0 \in T, \A n \in Nat : n \in T => n + 1 \in T
    PROVE  Nat \subseteq T
<1> SUFFICES ASSUME Nat \ T # {} PROVE FALSE
  OBVIOUS
<1>1. PICK n \in Nat \ T : \A k \in Nat \ T : <<k, n>> \notin OpToRel(<, Nat)
  BY NatLessThanWellFounded, WFMin, Zenon
<1>2. n # 0 /\ n - 1 \in Nat
  OBVIOUS
<1>3. <<n - 1, n>> \in OpToRel(<, Nat)
  BY <1>2 DEF OpToRel
<1>4. n - 1 \in T
  BY <1>1, <1>2, <1>3
<1> QED BY <1>2, <1>4

\* The sums of the first numbers of a sequence.
Sums(w) == CHOOSE sum :
    sum = [n \in 0..Len(w) |-> IF n = 0 THEN 0 ELSE sum[n - 1] + w[n]]

AreSums(w, sum) ==
    /\ sum \in [0..Len(w) -> Nat]
    /\ sum[0] = 0
    /\ \A n \in 1..Len(w) : sum[n] = sum[n - 1] + w[n]

LEMMA SumsExist ==
    ASSUME NEW w \in Seq(Nat)
    PROVE  AreSums(w, Sums(w))
<1> DEFINE Upto(m, f) == /\ f \in [0..m -> Nat]
                         /\ f[0] = 0
                         /\ \A n \in 1..m : f[n] = f[n - 1] + w[n]
           T == {m \in Nat : m <= Len(w) => \E f : Upto(m, f)}
<1>1. 0 \in T
  <2>1. Upto(0, [n \in 0..0 |-> 0])
    OBVIOUS
  <2> QED BY <2>1
<1>2. ASSUME NEW m \in Nat, m \in T PROVE m + 1 \in T
  <2>1. ASSUME NEW f, Upto(m, f), m + 1 <= Len(w) PROVE \E h : Upto(m + 1, h)
    <3> DEFINE h == [n \in 0..(m + 1) |-> IF n = m + 1 THEN f[m] + w[m + 1] ELSE f[n]]
    <3>1. f \in [0..m -> Nat] /\ f[0] = 0 /\ \A n \in 1..m : f[n] = f[n - 1] + w[n]
      BY <2>1
    <3>2. w[m + 1] \in Nat
      BY <2>1
    <3>3. h \in [0..(m + 1) -> Nat]
      BY <3>1, <3>2
    <3>4. \A n \in 0..(m + 1) : h[n] = IF n = m + 1 THEN f[m] + w[m + 1] ELSE f[n]
      OBVIOUS
    <3> HIDE DEF h
    <3>5. h[0] = 0
      BY <3>1, <3>4
    <3>6. ASSUME NEW n \in 1..(m + 1) PROVE h[n] = h[n - 1] + w[n]
      <4>1. n \in 0..(m + 1) /\ n - 1 \in 0..(m + 1) /\ n - 1 # m + 1
        OBVIOUS
      <4>2. h[n - 1] = f[n - 1]
        BY <3>4, <4>1
      <4>3. CASE n = m + 1
        <5>1. h[n] = f[m] + w[m + 1]
          BY <3>4, <4>1, <4>3
        <5>2. n - 1 = m
          BY <4>3
        <5> QED BY <4>2, <4>3, <5>1, <5>2
      <4>4. CASE n # m + 1
        <5>1. n \in 1..m
          BY <4>4
        <5> QED BY <3>1, <3>4, <4>1, <4>2, <4>4, <5>1
      <4> QED BY <4>3, <4>4
    <3>7. Upto(m + 1, h)
      BY <3>3, <3>5, <3>6
    <3> HIDE DEF Upto
    <3> QED BY <3>7
  <2> HIDE DEF Upto
  <2>2. m <= Len(w) => \E f : Upto(m, f)
    BY <1>2
  <2>3. m + 1 <= Len(w) => m <= Len(w)
    OBVIOUS
  <2>4. m + 1 <= Len(w) => \E f : Upto(m + 1, f)
    BY <2>1, <2>2, <2>3
  <2> QED BY <2>4
<1>3. Len(w) \in T
  <2> HIDE DEF T
  <2>1. Nat \subseteq T
    BY <1>1, <1>2, Induction
  <2>2. Len(w) \in Nat
    OBVIOUS
  <2> QED BY <2>1, <2>2
<1>4. PICK f : Upto(Len(w), f)
  <2> HIDE DEF Upto
  <2> QED BY <1>3
<1>5. f = [n \in 0..Len(w) |-> IF n = 0 THEN 0 ELSE f[n - 1] + w[n]]
  BY <1>4
<1>6. Sums(w) = [n \in 0..Len(w) |-> IF n = 0 THEN 0 ELSE Sums(w)[n - 1] + w[n]]
  BY <1>5, Zenon DEF Sums
<1> DEFINE g == Sums(w)
           G == {n \in Nat : n <= Len(w) => g[n] \in Nat}
<1> HIDE DEF g
<1>7. g = [n \in 0..Len(w) |-> IF n = 0 THEN 0 ELSE g[n - 1] + w[n]]
  BY <1>6 DEF g
<1>8. /\ g[0] = 0 /\ DOMAIN g = 0..Len(w)
      /\ \A n \in 1..Len(w) : g[n] = g[n - 1] + w[n]
  <2>1. 0 \in 0..Len(w) /\ \A n \in 1..Len(w) : n \in 0..Len(w) /\ n # 0
    OBVIOUS
  <2>2. DOMAIN g = 0..Len(w)
    BY <1>7
  <2>3. \A n \in 0..Len(w) : g[n] = IF n = 0 THEN 0 ELSE g[n - 1] + w[n]
    BY <1>7, Zenon
  <2> QED BY <2>1, <2>2, <2>3
<1>9. Nat \subseteq G
  <2>1. 0 \in G
    BY <1>8
  <2>2. ASSUME NEW n \in Nat, n \in G, n + 1 <= Len(w) PROVE g[n + 1] \in Nat
    <3>1. n + 1 \in 1..Len(w) /\ (n + 1) - 1 = n /\ n <= Len(w)
      BY <2>2
    <3>2. g[n + 1] = g[n] + w[n + 1]
      BY <1>8, <3>1
    <3>3. g[n] \in Nat /\ w[n + 1] \in Nat
      BY <2>2, <3>1
    <3> QED BY <3>2, <3>3
  <2>3. ASSUME NEW n \in Nat, n \in G PROVE n + 1 \in G
    BY <2>2, <2>3
  <2> HIDE DEF G
  <2> QED BY <2>1, <2>3, Induction
<1>10. AreSums(w, g)
  <2>1. \A n \in 0..Len(w) : g[n] \in Nat
    BY <1>9
  <2>2. g = [n \in 0..Len(w) |-> g[n]]
    BY <1>7
  <2>3. g \in [0..Len(w) -> Nat]
    BY <2>1, <2>2
  <2> QED BY <1>8, <2>3 DEF AreSums
<1> QED BY <1>10 DEF g

LEMMA TotalIsLastSum == \A w : Total(w) = Sums(w)[Len(w)]
BY Zenon DEF Total, Sums

LEMMA TotalOfNone == Total(<<>>) = 0
<1>1. <<>> \in Seq(Nat) /\ Len(<<>>) = 0
  OBVIOUS
<1> QED BY <1>1, SumsExist, TotalIsLastSum DEF AreSums

LEMMA SumsExtend ==
    ASSUME NEW w \in Seq(Nat), NEW v \in Seq(Nat), Len(v) = Len(w) + 1,
           \A n \in 1..Len(w) : v[n] = w[n],
           NEW f, AreSums(w, f), NEW g, AreSums(v, g)
    PROVE  f[Len(w)] \in Nat /\ g[Len(v)] = f[Len(w)] + v[Len(v)]
<1> DEFINE T == {n \in Nat : n <= Len(w) => f[n] = g[n]}
<1>1. 0 \in T
  BY DEF AreSums
<1>2. ASSUME NEW n \in Nat, n \in T PROVE n + 1 \in T
  BY <1>2 DEF AreSums
<1>3. Nat \subseteq T
  <2> HIDE DEF T
  <2> QED BY <1>1, <1>2, Induction
<1>4. f[Len(w)] = g[Len(w)]
  BY <1>3
<1>5. Len(v) \in 1..Len(v) /\ Len(v) - 1 = Len(w) /\ Len(w) \in 0..Len(w)
  OBVIOUS
<1>6. g[Len(v)] = g[Len(v) - 1] + v[Len(v)] /\ f[Len(w)] \in Nat
  BY <1>5 DEF AreSums
<1> QED BY <1>4, <1>5, <1>6

LEMMA TotalAppend ==
    ASSUME NEW w \in Seq(Nat), NEW k \in Nat
    PROVE  Total(w) \in Nat /\ Total(Append(w, k)) = Total(w) + k
<1> DEFINE v == Append(w, k)
<1>1. /\ v \in Seq(Nat) /\ Len(v) = Len(w) + 1 /\ v[Len(v)] = k
      /\ \A n \in 1..Len(w) : v[n] = w[n]
  OBVIOUS
<1> HIDE DEF v
<1>2. AreSums(w, Sums(w)) /\ AreSums(v, Sums(v))
  BY <1>1, SumsExist
<1>3. Sums(w)[Len(w)] \in Nat /\ Sums(v)[Len(v)] = Sums(w)[Len(w)] + k
  BY <1>1, <1>2, SumsExtend
<1> QED BY <1>3, TotalIsLastSum DEF v

LEMMA TotalNat ==
    ASSUME NEW w \in Seq(Nat)
    PROVE  Total(w) \in Nat
BY TotalAppend

LEMMA TotalConcat ==
    ASSUME NEW u \in Seq(Nat), NEW v \in Seq(Nat)
    PROVE  Total(u \o v) = Total(u) + Total(v)
<1> DEFINE T == {n \in Nat : \A w \in Seq(Nat) : Len(w) = n =>
                                Total(u \o w) = Total(u) + Total(w)}
<1>1. 0 \in T
  <2> SUFFICES ASSUME NEW w \in Seq(Nat), Len(w) = 0
               PROVE  Total(u \o w) = Total(u) + Total(w)
    OBVIOUS
  <2>1. w = <<>>
    OBVIOUS
  <2>2. u \o w = u
    BY <2>1
  <2> QED BY <2>1, <2>2, TotalOfNone, TotalNat
<1>2. ASSUME NEW n \in Nat, n \in T PROVE n + 1 \in T
  <2> SUFFICES ASSUME NEW w \in Seq(Nat), Len(w) = n + 1
               PROVE  Total(u \o w) = Total(u) + Total(w)
    OBVIOUS
  <2>1. PICK x \in Seq(Nat), k \in Nat : w = Append(x, k)
    <3>1. w # <<>>
      OBVIOUS
    <3> QED BY <3>1, SequenceEmptyOrAppend
  <2>2. Len(x) = n
    BY <2>1
  <2>3. Total(u \o x) = Total(u) + Total(x)
    BY <1>2, <2>2
  <2>4. u \o w = Append(u \o x, k) /\ u \o x \in Seq(Nat)
    BY <2>1
  <2>5. Total(w) = Total(x) + k /\ Total(u \o w) = Total(u \o x) + k
    BY <2>1, <2>4, TotalAppend
  <2> QED BY <2>3, <2>5, TotalNat
<1>3. Nat \subseteq T
  <2> HIDE DEF T
  <2> QED BY <1>1, <1>2, Induction
<1> QED BY <1>3

-----------------------------------------------------------------------------
(* The list: what moving an element to the front and cutting the list off   *)
(* do to its members and to their order.                                    *)

LEMMA RemoveFirstIs ==
    ASSUME NEW S, NEW s \in Seq(S), IsInjective(s), NEW p
    PROVE  \/ (p \notin ToSet(s) /\ RemoveFirst(s, p) = s)
           \/ \E k \in 1..Len(s) : s[k] = p /\ RemoveFirst(s, p) = RemoveAt(s, k)
<1>1. CASE p \notin ToSet(s)
  <2>1. ~ \E i \in 1..Len(s) : s[i] = p
    BY <1>1 DEF ToSet
  <2> QED BY <1>1, <2>1 DEF RemoveFirst
<1>2. CASE p \in ToSet(s)
  <2>1. PICK k \in 1..Len(s) : s[k] = p
    BY <1>2 DEF ToSet
  <2> DEFINE I == {i \in 1..Len(s) : s[i] = p}
  <2>2. I = {k}
    BY <2>1 DEF IsInjective
  <2>3. SelectInSeq(s, LAMBDA v : v = p) = k
    <3>1. Min({k}) = k
      BY <2>1 DEF Min
    <3>2. SelectInSeq(s, LAMBDA v : v = p) = IF I # {} THEN Min(I) ELSE 0
      BY DEF SelectInSeq
    <3> HIDE DEF I
    <3> QED BY <2>2, <3>1, <3>2
  <2> QED BY <2>1, <2>3 DEF RemoveFirst
<1> QED BY <1>1, <1>2

\* An element is taken out of a list.
LEMMA Removal ==
    ASSUME NEW S, NEW s \in Seq(S), IsInjective(s), NEW k \in 1..Len(s)
    PROVE  /\ RemoveAt(s, k) \in Seq(S)
           /\ Len(RemoveAt(s, k)) = Len(s) - 1
           /\ \A i \in 1..(Len(s) - 1) :
                 RemoveAt(s, k)[i] = IF i < k THEN s[i] ELSE s[i + 1]
<1>1. /\ SubSeq(s, 1, k - 1) \in Seq(S) /\ Len(SubSeq(s, 1, k - 1)) = k - 1
      /\ \A i \in 1..(k - 1) : SubSeq(s, 1, k - 1)[i] = s[i]
  <2>1. \A i \in 1..(k - 1) : s[i] \in S
    OBVIOUS
  <2> QED BY <2>1, SubSeqProperties
<1>2. /\ SubSeq(s, k + 1, Len(s)) \in Seq(S)
      /\ Len(SubSeq(s, k + 1, Len(s))) = Len(s) - k
      /\ \A i \in 1..(Len(s) - k) : SubSeq(s, k + 1, Len(s))[i] = s[k + i]
  <2>1. \A i \in (k + 1)..Len(s) : s[i] \in S
    OBVIOUS
  <2> QED BY <2>1, SubSeqProperties
<1>3. /\ RemoveAt(s, k) \in Seq(S)
      /\ Len(RemoveAt(s, k)) = (k - 1) + (Len(s) - k)
      /\ \A i \in 1..(k - 1) + (Len(s) - k) : RemoveAt(s, k)[i] =
            IF i <= k - 1 THEN SubSeq(s, 1, k - 1)[i]
            ELSE SubSeq(s, k + 1, Len(s))[i - (k - 1)]
  <2> DEFINE a == SubSeq(s, 1, k - 1)
             b == SubSeq(s, k + 1, Len(s))
  <2>1. a \in Seq(S) /\ b \in Seq(S) /\ Len(a) = k - 1 /\ Len(b) = Len(s) - k
    BY <1>1, <1>2
  <2>2. RemoveAt(s, k) = a \o b
    BY DEF RemoveAt
  <2> HIDE DEF a, b
  <2>3. /\ a \o b \in Seq(S) /\ Len(a \o b) = Len(a) + Len(b)
        /\ \A i \in 1..Len(a) + Len(b) :
              (a \o b)[i] = IF i <= Len(a) THEN a[i] ELSE b[i - Len(a)]
    BY <2>1, ConcatProperties
  <2>4. /\ RemoveAt(s, k) \in Seq(S)
        /\ Len(RemoveAt(s, k)) = (k - 1) + (Len(s) - k)
        /\ \A i \in 1..(k - 1) + (Len(s) - k) : RemoveAt(s, k)[i] =
              IF i <= k - 1 THEN a[i] ELSE b[i - (k - 1)]
    BY <2>1, <2>2, <2>3, Zenon
  <2> QED BY <2>4 DEF a, b
<1>4. (k - 1) + (Len(s) - k) = Len(s) - 1
  OBVIOUS
<1>5. ASSUME NEW i \in 1..(Len(s) - 1)
      PROVE  RemoveAt(s, k)[i] = IF i < k THEN s[i] ELSE s[i + 1]
  <2>1. CASE i < k
    BY <1>1, <1>3, <1>4, <2>1
  <2>2. CASE ~ i < k
    <3>1. i - (k - 1) \in 1..(Len(s) - k) /\ k + (i - (k - 1)) = i + 1 /\ ~ (i <= k - 1)
      BY <2>2
    <3> QED BY <1>2, <1>3, <1>4, <2>2, <3>1
  <2> QED BY <2>1, <2>2
<1> QED BY <1>3, <1>4, <1>5

LEMMA Removed ==
    ASSUME NEW S, NEW s \in Seq(S), IsInjective(s), NEW p
    PROVE  /\ RemoveFirst(s, p) \in Seq(S)
           /\ IsInjective(RemoveFirst(s, p))
           /\ ToSet(RemoveFirst(s, p)) = ToSet(s) \ {p}
           /\ \A q, r : Ahead(q, r, RemoveFirst(s, p)) <=>
                          q # p /\ r # p /\ Ahead(q, r, s)
<1>1. CASE p \notin ToSet(s) /\ RemoveFirst(s, p) = s
  BY <1>1 DEF ToSet, Ahead
<1>2. ASSUME NEW k \in 1..Len(s), s[k] = p, RemoveFirst(s, p) = RemoveAt(s, k)
      PROVE  /\ RemoveFirst(s, p) \in Seq(S)
             /\ IsInjective(RemoveFirst(s, p))
             /\ ToSet(RemoveFirst(s, p)) = ToSet(s) \ {p}
             /\ \A q, r : Ahead(q, r, RemoveFirst(s, p)) <=>
                            q # p /\ r # p /\ Ahead(q, r, s)
  <2> DEFINE t == RemoveFirst(s, p)
             From(i) == IF i < k THEN i ELSE i + 1
             To(j) == IF j < k THEN j ELSE j - 1
  <2>1. /\ t \in Seq(S) /\ Len(t) = Len(s) - 1 /\ Len(s) \in Nat
        /\ \A i \in 1..Len(t) : t[i] = s[From(i)]
    <3>1. /\ t \in Seq(S) /\ Len(t) = Len(s) - 1 /\ Len(s) \in Nat
          /\ \A i \in 1..(Len(s) - 1) : t[i] = IF i < k THEN s[i] ELSE s[i + 1]
      <4>1. /\ RemoveAt(s, k) \in Seq(S) /\ Len(RemoveAt(s, k)) = Len(s) - 1
            /\ \A i \in 1..(Len(s) - 1) :
                  RemoveAt(s, k)[i] = IF i < k THEN s[i] ELSE s[i + 1]
        BY Removal
      <4>2. t = RemoveAt(s, k)
        BY <1>2
      <4> HIDE DEF t
      <4> QED BY <4>1, <4>2
    <3> HIDE DEF t
    <3> QED BY <3>1
  <2> HIDE DEF t
  <2>2. /\ \A i \in 1..Len(t) : From(i) \in 1..Len(s) /\ From(i) # k /\ To(From(i)) = i
        /\ \A i, j \in 1..Len(t) : i < j => From(i) < From(j)
        /\ \A j \in 1..Len(s) : j # k => To(j) \in 1..Len(t) /\ From(To(j)) = j
        /\ \A i, j \in 1..Len(s) : i < j /\ i # k /\ j # k => To(i) < To(j)
    BY <2>1
  <2> HIDE DEF From, To
  <2>3. \A i, j \in 1..Len(s) : s[i] = s[j] => i = j
    BY DEF IsInjective
  <2>4. \A i \in 1..Len(t) : t[i] # p
    BY <1>2, <2>1, <2>2, <2>3
  <2>5. \A j \in 1..Len(s) : j # k => t[To(j)] = s[j]
    BY <2>1, <2>2
  <2>6. ASSUME NEW i \in 1..Len(t), NEW j \in 1..Len(t), t[i] = t[j] PROVE i = j
    <3>1. s[From(i)] = s[From(j)]
      BY <2>1, <2>6
    <3>2. From(i) = From(j)
      BY <2>2, <2>3, <3>1
    <3> QED BY <2>2, <3>2
  <2>7. IsInjective(t)
    BY <2>1, <2>6 DEF IsInjective
  <2>8. ToSet(t) = ToSet(s) \ {p}
    <3>1. ToSet(t) = {t[i] : i \in 1..Len(t)} /\ ToSet(s) = {s[i] : i \in 1..Len(s)}
      BY <2>1 DEF ToSet
    <3>2. \A i \in 1..Len(t) : \E j \in 1..Len(s) : t[i] = s[j]
      BY <2>1, <2>2
    <3>3. \A j \in 1..Len(s) : s[j] # p => \E i \in 1..Len(t) : t[i] = s[j]
      BY <1>2, <2>2, <2>5
    <3>4. ASSUME NEW x PROVE x \in ToSet(t) <=> x \in ToSet(s) /\ x # p
      BY <2>4, <3>1, <3>2, <3>3, Zenon
    <3> QED BY <3>4
  <2>9. ASSUME NEW q, NEW r, Ahead(q, r, t) PROVE q # p /\ r # p /\ Ahead(q, r, s)
    <3>1. PICK i, j \in 1..Len(t) : i < j /\ t[i] = q /\ t[j] = r
      BY <2>9 DEF Ahead
    <3>2. /\ From(i) \in 1..Len(s) /\ From(j) \in 1..Len(s) /\ From(i) < From(j)
          /\ s[From(i)] = q /\ s[From(j)] = r
      BY <2>1, <2>2, <3>1
    <3> QED BY <2>4, <3>1, <3>2 DEF Ahead
  <2>10. ASSUME NEW q, NEW r, q # p, r # p, Ahead(q, r, s) PROVE Ahead(q, r, t)
    <3>1. PICK i, j \in 1..Len(s) : i < j /\ s[i] = q /\ s[j] = r
      BY <2>10 DEF Ahead
    <3>2. i # k /\ j # k
      BY <1>2, <2>10, <3>1
    <3>3. /\ To(i) \in 1..Len(t) /\ To(j) \in 1..Len(t) /\ To(i) < To(j)
          /\ t[To(i)] = q /\ t[To(j)] = r
      BY <2>2, <2>5, <3>1, <3>2
    <3> QED BY <3>3 DEF Ahead
  <2> QED BY <2>1, <2>7, <2>8, <2>9, <2>10 DEF t
<1> QED BY <1>1, <1>2, RemoveFirstIs

LEMMA Fronted ==
    ASSUME NEW S, NEW s \in Seq(S), IsInjective(s), NEW p \in S
    PROVE  /\ ToFront(p, s) \in Seq(S)
           /\ IsInjective(ToFront(p, s))
           /\ ToSet(ToFront(p, s)) = ToSet(s) \cup {p}
           /\ Len(ToFront(p, s)) \in Nat \ {0} /\ ToFront(p, s)[1] = p
           /\ \A q, r : Ahead(q, r, ToFront(p, s)) <=>
                 r # p /\ ((Ahead(q, r, s) /\ q # p) \/ (q = p /\ r \in ToSet(s)))
<1> DEFINE t == RemoveFirst(s, p)
           f == ToFront(p, s)
<1>1. /\ t \in Seq(S) /\ IsInjective(t) /\ ToSet(t) = ToSet(s) \ {p}
      /\ \A q, r : Ahead(q, r, t) <=> q # p /\ r # p /\ Ahead(q, r, s)
  BY Removed
<1>2. f = <<p>> \o t
  BY DEF ToFront
<1> HIDE DEF t, f
<1>3. /\ f \in Seq(S) /\ Len(f) = Len(t) + 1 /\ Len(t) \in Nat /\ f[1] = p
      /\ \A i \in 1..Len(t) : f[i + 1] = t[i]
      /\ \A i \in 1..Len(f) : i # 1 => i - 1 \in 1..Len(t) /\ f[i] = t[i - 1]
  BY <1>1, <1>2
<1>4. ToSet(t) = {t[i] : i \in 1..Len(t)} /\ ToSet(f) = {f[i] : i \in 1..Len(f)}
  <2>1. DOMAIN t = 1..Len(t) /\ DOMAIN f = 1..Len(f)
    BY <1>1, <1>3
  <2> QED BY <2>1, Zenon DEF ToSet
<1>5. ASSUME NEW i \in 1..Len(f), NEW j \in 1..Len(f), f[i] = f[j] PROVE i = j
  <2>1. \A k, l \in 1..Len(t) : t[k] = t[l] => k = l
    BY <1>1 DEF IsInjective
  <2>2. \A k \in 1..Len(t) : t[k] # p
    BY <1>1, <1>4
  <2>3. i = 1 <=> j = 1
    BY <1>3, <1>5, <2>2
  <2>4. CASE i # 1 /\ j # 1
    <3>1. i - 1 \in 1..Len(t) /\ j - 1 \in 1..Len(t) /\ t[i - 1] = t[j - 1]
      BY <1>3, <1>5, <2>4, Zenon
    <3>2. i - 1 = j - 1
      BY <2>1, <3>1, Zenon
    <3> QED BY <1>3, <3>2
  <2> QED BY <2>3, <2>4
<1>6. IsInjective(f)
  BY <1>3, <1>5 DEF IsInjective
<1>7. ASSUME NEW x PROVE x \in ToSet(f) <=> x = p \/ x \in ToSet(t)
  <2>1. ASSUME x \in ToSet(f) PROVE x = p \/ x \in ToSet(t)
    BY <1>3, <1>4, <2>1
  <2>2. ASSUME x \in ToSet(t) PROVE x \in ToSet(f)
    <3>1. PICK i \in 1..Len(t) : x = t[i]
      BY <1>4, <2>2
    <3>2. i + 1 \in 1..Len(f) /\ x = f[i + 1]
      BY <1>3, <3>1
    <3> QED BY <1>4, <3>2
  <2>3. p \in ToSet(f)
    <3>1. 1 \in 1..Len(f)
      BY <1>3
    <3> QED BY <1>3, <1>4, <3>1
  <2> QED BY <2>1, <2>2, <2>3
<1>8. ASSUME NEW q, NEW r
      PROVE  Ahead(q, r, f) <=> Ahead(q, r, t) \/ (q = p /\ r \in ToSet(t))
  <2>1. ASSUME Ahead(q, r, f) PROVE Ahead(q, r, t) \/ (q = p /\ r \in ToSet(t))
    <3>1. PICK i, j \in 1..Len(f) : i < j /\ f[i] = q /\ f[j] = r
      BY <2>1 DEF Ahead
    <3>2. j - 1 \in 1..Len(t) /\ r = t[j - 1]
      BY <1>3, <3>1
    <3>3. CASE i = 1
      BY <1>3, <1>4, <3>1, <3>2, <3>3
    <3>4. CASE i # 1
      <4>1. i - 1 \in 1..Len(t) /\ q = t[i - 1]
        BY <1>3, <3>1, <3>4, Zenon
      <4>2. i - 1 < j - 1
        BY <1>3, <3>1
      <4>3. Ahead(q, r, t)
        BY <3>2, <4>1, <4>2 DEF Ahead
      <4> QED BY <4>3
    <3> QED BY <3>3, <3>4
  <2>2. ASSUME Ahead(q, r, t) PROVE Ahead(q, r, f)
    <3>1. PICK i, j \in 1..Len(t) : i < j /\ t[i] = q /\ t[j] = r
      BY <2>2 DEF Ahead
    <3>2. /\ i + 1 \in 1..Len(f) /\ j + 1 \in 1..Len(f) /\ i + 1 < j + 1
          /\ f[i + 1] = q /\ f[j + 1] = r
      BY <1>3, <3>1
    <3> QED BY <3>2 DEF Ahead
  <2>3. ASSUME q = p, r \in ToSet(t) PROVE Ahead(q, r, f)
    <3>1. PICK j \in 1..Len(t) : r = t[j]
      BY <1>4, <2>3
    <3>2. 1 \in 1..Len(f) /\ j + 1 \in 1..Len(f) /\ 1 < j + 1 /\ f[1] = q /\ f[j + 1] = r
      BY <1>3, <2>3, <3>1
    <3> QED BY <3>2 DEF Ahead
  <2> QED BY <2>1, <2>2, <2>3
<1>9. ToSet(f) = ToSet(s) \cup {p}
  <2>1. ASSUME NEW x PROVE x \in ToSet(f) <=> x \in ToSet(s) \cup {p}
    BY <1>1, <1>7
  <2> QED BY <2>1
<1>10. ASSUME NEW q, NEW r
       PROVE  Ahead(q, r, f) <=>
                 r # p /\ ((Ahead(q, r, s) /\ q # p) \/ (q = p /\ r \in ToSet(s)))
  BY <1>1, <1>8
<1> QED BY <1>3, <1>6, <1>9, <1>10 DEF f

LEMMA Cut ==
    ASSUME NEW S, NEW s \in Seq(S), IsInjective(s), NEW n \in 0..Len(s)
    PROVE  /\ SubSeq(s, 1, n) \in Seq(S) /\ Len(SubSeq(s, 1, n)) = n
           /\ IsInjective(SubSeq(s, 1, n))
           /\ ToSet(SubSeq(s, 1, n)) \subseteq ToSet(s)
           /\ \A q, r : Ahead(q, r, SubSeq(s, 1, n)) => Ahead(q, r, s)
<1> DEFINE t == SubSeq(s, 1, n)
<1>1. /\ t \in Seq(S) /\ Len(t) = n
      /\ \A i \in 1..n : t[i] = s[i] /\ i \in 1..Len(s)
  <2>1. \A i \in 1..n : s[i] \in S /\ i \in 1..Len(s)
    OBVIOUS
  <2> QED BY <2>1, SubSeqProperties
<1> HIDE DEF t
<1>2. IsInjective(t)
  BY <1>1 DEF IsInjective
<1>3. ToSet(t) \subseteq ToSet(s)
  BY <1>1 DEF ToSet
<1>4. ASSUME NEW q, NEW r, Ahead(q, r, t) PROVE Ahead(q, r, s)
  BY <1>1, <1>4 DEF Ahead
<1> QED BY <1>1, <1>2, <1>3, <1>4 DEF t

LEMMA SeqOfMembers ==
    ASSUME NEW S, NEW s \in Seq(S), NEW R, ToSet(s) \subseteq R
    PROVE  s \in Seq(R)
<1>1. \A i \in 1..Len(s) : s[i] \in R
  BY DEF ToSet
<1> QED BY <1>1

-----------------------------------------------------------------------------
(* What the elements of a list weigh.                                       *)

Weighed(S, table) == \A p \in S : table[p].data.size \in Nat

LEMMA WeightsAre ==
    ASSUME NEW S, NEW s \in Seq(S), NEW table, Weighed(S, table)
    PROVE  /\ Weights(s, table) \in Seq(Nat)
           /\ Len(Weights(s, table)) = Len(s)
           /\ \A i \in 1..Len(s) : Weights(s, table)[i] = table[s[i]].data.size
           /\ Bytes(s, table) \in Nat
<1>1. \A i \in 1..Len(s) : table[s[i]].data.size \in Nat
  BY DEF Weighed
<1>2. Weights(s, table) \in [1..Len(s) -> Nat]
  BY <1>1 DEF Weights
<1>3. Weights(s, table) \in Seq(Nat) /\ Len(Weights(s, table)) = Len(s)
  BY <1>2
<1>4. \A i \in 1..Len(s) : Weights(s, table)[i] = table[s[i]].data.size
  BY DEF Weights
<1> QED BY <1>3, <1>4, TotalNat DEF Bytes

LEMMA BytesConcat ==
    ASSUME NEW S, NEW table, Weighed(S, table)
    PROVE  \A s, t \in Seq(S) : Bytes(s \o t, table) = Bytes(s, table) + Bytes(t, table)
<1> SUFFICES ASSUME NEW s \in Seq(S), NEW t \in Seq(S)
             PROVE  Bytes(s \o t, table) = Bytes(s, table) + Bytes(t, table)
  OBVIOUS
<1> DEFINE u == s \o t
           a == Weights(s, table)
           b == Weights(t, table)
           c == Weights(u, table)
<1>1. /\ u \in Seq(S) /\ Len(u) = Len(s) + Len(t)
      /\ \A i \in 1..Len(s) + Len(t) : u[i] = IF i <= Len(s) THEN s[i] ELSE t[i - Len(s)]
  BY ConcatProperties
<1> HIDE DEF u
<1>2. /\ a \in Seq(Nat) /\ Len(a) = Len(s)
      /\ \A i \in 1..Len(s) : a[i] = table[s[i]].data.size
  BY WeightsAre
<1>3. /\ b \in Seq(Nat) /\ Len(b) = Len(t)
      /\ \A i \in 1..Len(t) : b[i] = table[t[i]].data.size
  BY WeightsAre
<1>4. /\ c \in Seq(Nat) /\ Len(c) = Len(u)
      /\ \A i \in 1..Len(u) : c[i] = table[u[i]].data.size
  BY <1>1, WeightsAre
<1> HIDE DEF a, b, c
<1>5. /\ a \o b \in Seq(Nat) /\ Len(a \o b) = Len(a) + Len(b)
      /\ \A i \in 1..Len(a) + Len(b) : (a \o b)[i] = IF i <= Len(a) THEN a[i] ELSE b[i - Len(a)]
  BY <1>2, <1>3, ConcatProperties
<1>6. ASSUME NEW i \in 1..Len(u) PROVE c[i] = (a \o b)[i]
  <2>0. Len(s) \in Nat /\ Len(t) \in Nat
    OBVIOUS
  <2>1. CASE i <= Len(s)
    <3>1. i \in 1..Len(s) /\ u[i] = s[i] /\ (a \o b)[i] = a[i]
      BY <1>1, <1>2, <1>3, <1>5, <2>0, <2>1
    <3> QED BY <1>2, <1>4, <3>1
  <2>2. CASE ~ i <= Len(s)
    <3>1. i - Len(s) \in 1..Len(t) /\ u[i] = t[i - Len(s)] /\ (a \o b)[i] = b[i - Len(s)]
      BY <1>1, <1>2, <1>3, <1>5, <2>0, <2>2
    <3> QED BY <1>3, <1>4, <3>1
  <2> QED BY <2>1, <2>2
<1>7. c = a \o b
  BY <1>1, <1>2, <1>3, <1>4, <1>5, <1>6, SeqEqual
<1>8. Total(c) = Total(a) + Total(b)
  BY <1>2, <1>3, <1>7, TotalConcat
<1> QED BY <1>8 DEF a, b, c, u, Bytes

LEMMA BytesOfOne ==
    ASSUME NEW S, NEW p \in S, NEW table, Weighed(S, table)
    PROVE  Bytes(<<p>>, table) = table[p].data.size
<1> DEFINE k == table[p].data.size
<1>1. k \in Nat
  BY DEF Weighed
<1>2. Weights(<<p>>, table) = Append(<<>>, k)
  <2>1. <<p>> \in Seq(S) /\ Len(<<p>>) = 1 /\ <<p>>[1] = p
    OBVIOUS
  <2>2. /\ Weights(<<p>>, table) \in Seq(Nat) /\ Len(Weights(<<p>>, table)) = 1
        /\ Weights(<<p>>, table)[1] = k
    <3> DEFINE u == <<p>>
    <3>1. u \in Seq(S) /\ Len(u) = 1 /\ u[1] = p
      BY <2>1
    <3> HIDE DEF u
    <3>2. /\ Weights(u, table) \in Seq(Nat) /\ Len(Weights(u, table)) = Len(u)
          /\ \A i \in 1..Len(u) : Weights(u, table)[i] = table[u[i]].data.size
      BY <3>1, WeightsAre
    <3>3. Weights(u, table)[1] = table[u[1]].data.size
      BY <3>1, <3>2
    <3> QED BY <3>1, <3>2, <3>3 DEF u
  <2> HIDE DEF k
  <2>3. Append(<<>>, k) \in Seq(Nat) /\ Len(Append(<<>>, k)) = 1 /\ Append(<<>>, k)[1] = k
    BY <1>1
  <2> QED BY <2>2, <2>3, SeqEqual
<1> HIDE DEF k
<1>3. Total(Append(<<>>, k)) = Total(<<>>) + k
  <2>1. <<>> \in Seq(Nat)
    OBVIOUS
  <2> QED BY <1>1, <2>1, TotalAppend
<1> QED BY <1>1, <1>2, <1>3, TotalOfNone DEF Bytes, k

LEMMA BytesAgree ==
    ASSUME NEW S, NEW s \in Seq(S), NEW t1, NEW t2, \A p \in S : t1[p] = t2[p]
    PROVE  Bytes(s, t1) = Bytes(s, t2)
<1>1. Weights(s, t1) = Weights(s, t2)
  BY DEF Weights
<1> QED BY <1>1 DEF Bytes

\* Taking an element out takes its weight off.
LEMMA BytesRemoved ==
    ASSUME NEW S, NEW s \in Seq(S), IsInjective(s), NEW p, NEW table, Weighed(S, table)
    PROVE  Bytes(s, table) = Bytes(RemoveFirst(s, p), table)
                               + (IF p \in ToSet(s) THEN table[p].data.size ELSE 0)
<1>1. CASE p \notin ToSet(s) /\ RemoveFirst(s, p) = s
  BY <1>1, WeightsAre
<1>2. ASSUME NEW k \in 1..Len(s), s[k] = p, RemoveFirst(s, p) = RemoveAt(s, k)
      PROVE  Bytes(s, table) = Bytes(RemoveFirst(s, p), table)
                                 + (IF p \in ToSet(s) THEN table[p].data.size ELSE 0)
  <2> DEFINE a == SubSeq(s, 1, k - 1)
             b == SubSeq(s, k + 1, Len(s))
  <2>1. a \in Seq(S) /\ b \in Seq(S) /\ p \in S /\ <<p>> \in Seq(S)
    BY <1>2
  <2>2. s = a \o (<<p>> \o b)
    <3>1. SubSeq(s, 1, Len(s)) = s
      OBVIOUS
    <3>2. SubSeq(s, 1, Len(s)) = a \o SubSeq(s, k, Len(s))
      <4>1. 1 \in 1..Len(s) + 1 /\ k - 1 \in 1 - 1..Len(s) /\ Len(s) \in k - 1..Len(s) /\ k - 1 + 1 = k
        OBVIOUS
      <4> QED BY <4>1, ConcatAdjacentSubSeq
    <3>3. SubSeq(s, k, Len(s)) = <<p>> \o b
      <4>1. Len(s) \in k..Len(s)
        OBVIOUS
      <4> QED BY <1>2, <4>1, SubSeqRecursiveFirst
    <3> QED BY <3>1, <3>2, <3>3
  <2>3. RemoveFirst(s, p) = a \o b
    BY <1>2 DEF RemoveAt
  <2> HIDE DEF a, b
  <2>4. <<p>> \o b \in Seq(S)
    BY <2>1
  <2>5. /\ Bytes(s, table) = Bytes(a, table) + Bytes(<<p>> \o b, table)
        /\ Bytes(<<p>> \o b, table) = Bytes(<<p>>, table) + Bytes(b, table)
        /\ Bytes(a \o b, table) = Bytes(a, table) + Bytes(b, table)
        /\ Bytes(<<p>>, table) = table[p].data.size
        /\ Bytes(a, table) \in Nat /\ Bytes(b, table) \in Nat
    <3>0. \A u, v \in Seq(S) : Bytes(u \o v, table) = Bytes(u, table) + Bytes(v, table)
      BY BytesConcat
    <3>1. Bytes(a \o (<<p>> \o b), table) = Bytes(a, table) + Bytes(<<p>> \o b, table)
      BY <2>1, <2>4, <3>0, Zenon
    <3>2. Bytes(<<p>> \o b, table) = Bytes(<<p>>, table) + Bytes(b, table)
      BY <2>1, <3>0, Zenon
    <3>3. Bytes(a \o b, table) = Bytes(a, table) + Bytes(b, table)
      BY <2>1, <3>0, Zenon
    <3>4. Bytes(<<p>>, table) = table[p].data.size
      BY <2>1, BytesOfOne, Zenon
    <3>5. Bytes(a, table) \in Nat /\ Bytes(b, table) \in Nat
      BY <2>1, WeightsAre, Zenon
    <3> QED BY <2>2, <3>1, <3>2, <3>3, <3>4, <3>5, Zenon
  <2>6. p \in ToSet(s)
    BY <1>2 DEF ToSet
  <2>7. table[p].data.size \in Nat
    BY <2>1 DEF Weighed
  <2> QED BY <2>3, <2>5, <2>6, <2>7
<1> QED BY <1>1, <1>2, RemoveFirstIs

LEMMA BytesFronted ==
    ASSUME NEW S, NEW s \in Seq(S), IsInjective(s), NEW p \in S, NEW table, Weighed(S, table)
    PROVE  Bytes(ToFront(p, s), table) =
              table[p].data.size + Bytes(RemoveFirst(s, p), table)
<1>1. RemoveFirst(s, p) \in Seq(S) /\ <<p>> \in Seq(S)
  BY Removed
<1>2. Bytes(<<p>> \o RemoveFirst(s, p), table) =
          Bytes(<<p>>, table) + Bytes(RemoveFirst(s, p), table)
  <2>1. \A u, v \in Seq(S) : Bytes(u \o v, table) = Bytes(u, table) + Bytes(v, table)
    BY BytesConcat
  <2> QED BY <1>1, <2>1, Zenon
<1>3. Bytes(<<p>>, table) = table[p].data.size
  BY BytesOfOne, Zenon
<1> QED BY <1>2, <1>3, Zenon DEF ToFront

\* What is left of the weight when the back of a list goes.
LEMMA BytesCut ==
    ASSUME NEW S, NEW s \in Seq(S), NEW n \in 0..Len(s), NEW table, Weighed(S, table)
    PROVE  Bytes(s, table) - Bytes(SubSeq(s, n + 1, Len(s)), table) =
              Bytes(SubSeq(s, 1, n), table)
<1>1. SubSeq(s, 1, n) \in Seq(S) /\ SubSeq(s, n + 1, Len(s)) \in Seq(S)
  OBVIOUS
<1>2. SubSeq(s, 1, n) \o SubSeq(s, n + 1, Len(s)) = SubSeq(s, 1, Len(s))
  <2>1. 1 \in 1..Len(s) + 1 /\ n \in 1 - 1..Len(s) /\ Len(s) \in n..Len(s)
    OBVIOUS
  <2> QED BY <2>1, ConcatAdjacentSubSeq
<1>3. SubSeq(s, 1, Len(s)) = s
  OBVIOUS
<1>4. Bytes(SubSeq(s, 1, n) \o SubSeq(s, n + 1, Len(s)), table) =
          Bytes(SubSeq(s, 1, n), table) + Bytes(SubSeq(s, n + 1, Len(s)), table)
  <2>1. \A u, v \in Seq(S) : Bytes(u \o v, table) = Bytes(u, table) + Bytes(v, table)
    BY BytesConcat
  <2> QED BY <1>1, <2>1, Zenon
<1>5. Bytes(SubSeq(s, 1, n), table) \in Nat /\ Bytes(SubSeq(s, n + 1, Len(s)), table) \in Nat
  BY <1>1, WeightsAre, Zenon
<1> DEFINE a == Bytes(SubSeq(s, 1, n), table)
           b == Bytes(SubSeq(s, n + 1, Len(s)), table)
<1>6. Bytes(s, table) = a + b /\ a \in Nat /\ b \in Nat
  BY <1>2, <1>3, <1>4, <1>5, Zenon
<1> HIDE DEF a, b
<1>7. Bytes(s, table) - b = a
  BY <1>6
<1> QED BY <1>7 DEF a, b

-----------------------------------------------------------------------------
(* The invariant: the cache by itself, and the requests against the disk.   *)

CacheInv ==
    /\ DOMAIN entries \subseteq Paths
    /\ \A p \in DOMAIN entries : entries[p] \in Entry
    /\ order \in Seq(Paths) /\ recent \in Seq(Paths)
    /\ used \in 0..MaxBytes
    /\ Accounted
    /\ OrderIsRecency
    /\ EntriesBounded
    /\ NotUnderOlderStamp
    /\ IsInjective(recent) /\ DOMAIN entries \subseteq ToSet(recent)

\* What a request has read is no newer than the disk, and once it has taken
\* the second stat no newer than that.
RequestOK(r) ==
    /\ req[r].pc # "idle" => req[r].path \in Paths /\ req[r].info \in Contents
    /\ req[r].pc \in {"read", "fresh"} => req[r].data \in Contents
    /\ req[r].pc = "read" => req[r].data.version <= disk[req[r].path].version
    /\ req[r].pc = "fresh" => req[r].data.version <= req[r].info.version

RequestsInv ==
    /\ disk \in [Paths -> [version : 0..MaxEdits, size : Sizes \cup {None}]]
    /\ req \in [Requests -> Request]
    /\ \A r \in Requests : RequestOK(r)

IInv == CacheInv /\ RequestsInv

-----------------------------------------------------------------------------
(* The cache's operations                                                   *)

LEMMA EntriesWeigh ==
    ASSUME CacheInv
    PROVE  /\ Weighed(DOMAIN entries, entries)
           /\ order \in Seq(DOMAIN entries) /\ IsInjective(order)
           /\ ToSet(order) = DOMAIN entries
           /\ used = Bytes(order, entries)
<1>1. \A p \in DOMAIN entries : entries[p].data.size \in Nat
  BY CacheAssumption DEF CacheInv, Entry, Contents
<1>2. ToSet(order) = DOMAIN entries /\ IsInjective(order) /\ used = Bytes(order, entries)
  BY DEF CacheInv, Accounted
<1>3. order \in Seq(DOMAIN entries)
  BY <1>2, SeqOfMembers DEF CacheInv
<1> QED BY <1>1, <1>2, <1>3 DEF Weighed

\* What is no longer ahead of anything in the list is no matter; what moves to
\* the front of the list does so in the history.
LEMMA MovesAgree ==
    ASSUME CacheInv, NEW p \in Paths, NEW q, NEW r, Ahead(q, r, ToFront(p, order))
    PROVE  Ahead(q, r, ToFront(p, recent))
<1>1. IsInjective(order) /\ IsInjective(recent) /\ ToSet(order) \subseteq ToSet(recent)
  BY DEF CacheInv, Accounted
<1>2. order \in Seq(Paths) /\ recent \in Seq(Paths)
  BY DEF CacheInv
<1>3. r # p /\ ((Ahead(q, r, order) /\ q # p) \/ (q = p /\ r \in ToSet(order)))
  BY <1>1, <1>2, Fronted
<1>4. Ahead(q, r, order) => Ahead(q, r, recent)
  <2>1. Ahead(q, r, order) => q \in Paths /\ r \in Paths
    BY <1>2 DEF Ahead
  <2> QED BY <2>1 DEF CacheInv, OrderIsRecency
<1>5. r # p /\ ((Ahead(q, r, recent) /\ q # p) \/ (q = p /\ r \in ToSet(recent)))
  BY <1>1, <1>3, <1>4
<1>6. \A x, y : Ahead(x, y, ToFront(p, recent)) <=>
          y # p /\ ((Ahead(x, y, recent) /\ x # p) \/ (x = p /\ y \in ToSet(recent)))
  BY <1>1, <1>2, Fronted
<1> QED BY <1>5, <1>6

LEMMA HitsKeep ==
    ASSUME CacheInv, NEW p \in Paths, NEW info, Hits(p, info)
    PROVE  CacheInv'
<1>1. /\ p \in DOMAIN entries /\ order' = ToFront(p, order) /\ recent' = ToFront(p, recent)
      /\ UNCHANGED <<entries, used>>
  BY DEF Hits, Holds
<1>2. order \in Seq(Paths) /\ recent \in Seq(Paths) /\ IsInjective(recent)
  BY DEF CacheInv
<1>3. /\ order' \in Seq(Paths) /\ IsInjective(order') /\ ToSet(order') = DOMAIN entries
  <2>1. ToFront(p, order) \in Seq(Paths) /\ IsInjective(ToFront(p, order))
        /\ ToSet(ToFront(p, order)) = ToSet(order) \cup {p}
    BY <1>2, EntriesWeigh, Fronted
  <2>2. ToSet(order) \cup {p} = DOMAIN entries
    BY <1>1, EntriesWeigh
  <2> QED BY <1>1, <2>1, <2>2
<1>4. /\ recent' \in Seq(Paths) /\ IsInjective(recent') /\ ToSet(recent) \subseteq ToSet(recent')
  BY <1>1, <1>2, Fronted
<1>5. Bytes(order', entries) = Bytes(order, entries)
  <2>1. Bytes(ToFront(p, order), entries) =
            entries[p].data.size + Bytes(RemoveFirst(order, p), entries)
    BY <1>1, EntriesWeigh, BytesFronted
  <2>2. Bytes(order, entries) = Bytes(RemoveFirst(order, p), entries)
            + (IF p \in ToSet(order) THEN entries[p].data.size ELSE 0)
    BY <1>1, EntriesWeigh, BytesRemoved
  <2>3. entries[p].data.size \in Nat /\ p \in ToSet(order)
    BY <1>1, EntriesWeigh DEF Weighed
  <2>4. Bytes(RemoveFirst(order, p), entries) \in Nat
    <3>1. RemoveFirst(order, p) \in Seq(DOMAIN entries)
      BY EntriesWeigh, Removed
    <3> QED BY <3>1, EntriesWeigh, WeightsAre
  <2> QED BY <1>1, <2>1, <2>2, <2>3, <2>4
<1>6. Accounted'
  BY <1>1, <1>3, <1>5, EntriesWeigh DEF Accounted
<1>7. OrderIsRecency'
  BY <1>1, MovesAgree DEF OrderIsRecency
<1>8. (EntriesBounded /\ NotUnderOlderStamp)'
  BY <1>1 DEF CacheInv, EntriesBounded, NotUnderOlderStamp
<1> QED BY <1>1, <1>3, <1>4, <1>6, <1>7, <1>8 DEF CacheInv

LEMMA CacheUnchanged ==
    ASSUME CacheInv, UNCHANGED cache
    PROVE  CacheInv'
<1>1. entries' = entries /\ order' = order /\ used' = used /\ recent' = recent
  BY DEF cache
<1> QED BY <1>1 DEF CacheInv, Accounted, OrderIsRecency, EntriesBounded, NotUnderOlderStamp

LEMMA MissesKeep ==
    ASSUME CacheInv, NEW p \in Paths, NEW info, Misses(p, info)
    PROVE  CacheInv'
<1>1. CASE p \notin DOMAIN entries
  <2>1. UNCHANGED cache
    BY <1>1 DEF Misses, cache
  <2> QED BY <2>1, CacheUnchanged
<1>2. CASE p \in DOMAIN entries
  <2> DEFINE rest == DOMAIN entries \ {p}
  <2>1. /\ entries' = Without(entries, p) /\ order' = RemoveFirst(order, p)
        /\ used' = used - entries[p].data.size /\ recent' = recent
    BY <1>2 DEF Misses
  <2>2. DOMAIN entries' = rest /\ \A q \in rest : entries'[q] = entries[q]
    BY <2>1 DEF Without
  <2>3. /\ order' \in Seq(DOMAIN entries) /\ IsInjective(order') /\ ToSet(order') = rest
        /\ \A q, r : Ahead(q, r, order') => Ahead(q, r, order)
    BY <2>1, EntriesWeigh, Removed
  <2>4. order' \in Seq(rest)
    BY <2>3, SeqOfMembers
  <2>5. Bytes(order', entries') = Bytes(order', entries)
    BY <2>2, <2>4, BytesAgree
  <2>6. Bytes(order, entries) = Bytes(order', entries) + entries[p].data.size
    BY <1>2, <2>1, EntriesWeigh, BytesRemoved
  <2>7. entries[p].data.size \in Nat /\ Bytes(order', entries) \in Nat
    BY <1>2, <2>3, EntriesWeigh, WeightsAre DEF Weighed
  <2>8. used' = Bytes(order', entries') /\ used' \in 0..MaxBytes
    <3>1. used = Bytes(order, entries) /\ used \in 0..MaxBytes /\ MaxBytes \in Nat
      BY EntriesWeigh, CacheAssumption DEF CacheInv
    <3> QED BY <2>1, <2>5, <2>6, <2>7, <3>1
  <2>9. Accounted'
    BY <2>2, <2>3, <2>8 DEF Accounted
  <2>10. OrderIsRecency'
    BY <2>1, <2>3 DEF CacheInv, OrderIsRecency
  <2>11. (EntriesBounded /\ NotUnderOlderStamp)'
    BY <2>2 DEF CacheInv, EntriesBounded, NotUnderOlderStamp
  <2>12. order' \in Seq(Paths)
    BY <2>3 DEF CacheInv
  <2> QED BY <2>1, <2>2, <2>8, <2>9, <2>10, <2>11, <2>12 DEF CacheInv
<1> QED BY <1>1, <1>2

\* What an entry that is put weighs once it is the only one of its path.
LEMMA PutWeighs ==
    ASSUME CacheInv, NEW p \in Paths, NEW data \in Contents, NEW info
    PROVE  /\ Weighed(DOMAIN entries \cup {p}, Filed(p, data, info))
           /\ used - (IF p \in DOMAIN entries THEN entries[p].data.size ELSE 0) + data.size
                = Bytes(ToFront(p, order), Filed(p, data, info))
<1> DEFINE old == IF p \in DOMAIN entries THEN entries[p].data.size ELSE 0
           table == Filed(p, data, info)
           all == DOMAIN entries \cup {p}
           rest == RemoveFirst(order, p)
<1>1. table[p] = [data |-> data, info |-> info]
      /\ \A q \in DOMAIN entries \ {p} : table[q] = entries[q]
  BY DEF Filed
<1>2. data.size \in Nat /\ table[p].data = data
  <2>1. data.size \in Sizes
    BY DEF Contents
  <2>2. table[p].data = data
    BY <1>1
  <2> QED BY <2>1, <2>2, CacheAssumption
<1> HIDE DEF table
<1>3. Weighed(all, table)
  <2>1. \A q \in DOMAIN entries : entries[q].data.size \in Nat
    BY EntriesWeigh DEF Weighed
  <2>2. ASSUME NEW q \in all PROVE table[q].data.size \in Nat
    <3>1. CASE q = p
      BY <1>2, <3>1
    <3>2. CASE q # p
      BY <1>1, <2>1, <3>2
    <3> QED BY <3>1, <3>2
  <2> QED BY <2>2 DEF Weighed
<1>4. order \in Seq(all)
  BY EntriesWeigh, SeqOfMembers
<1>5. Bytes(ToFront(p, order), table) = data.size + Bytes(rest, table)
  <2>1. p \in all /\ IsInjective(order)
    BY EntriesWeigh
  <2>2. Bytes(ToFront(p, order), table) = table[p].data.size + Bytes(rest, table)
    BY <1>3, <1>4, <2>1, BytesFronted
  <2> QED BY <1>2, <2>2
<1>6. rest \in Seq(DOMAIN entries \ {p}) /\ rest \in Seq(DOMAIN entries)
  <2>1. rest \in Seq(DOMAIN entries) /\ ToSet(rest) = DOMAIN entries \ {p}
    BY EntriesWeigh, Removed
  <2> QED BY <2>1, SeqOfMembers
<1>7. Bytes(rest, table) = Bytes(rest, entries)
  BY <1>1, <1>6, BytesAgree
<1>8. used = Bytes(rest, entries) + old
  <2>1. Bytes(order, entries) = Bytes(rest, entries)
            + (IF p \in ToSet(order) THEN entries[p].data.size ELSE 0)
    BY EntriesWeigh, BytesRemoved
  <2> QED BY <2>1, EntriesWeigh
<1>9. old \in Nat /\ Bytes(rest, entries) \in Nat
  <2>1. Bytes(rest, entries) \in Nat
    BY <1>6, EntriesWeigh, WeightsAre
  <2>2. old \in Nat
    BY EntriesWeigh DEF Weighed
  <2> QED BY <2>1, <2>2
<1>10. used - old + data.size = Bytes(ToFront(p, order), table)
  <2> HIDE DEF old, rest
  <2> QED BY <1>2, <1>5, <1>7, <1>8, <1>9
<1> QED BY <1>3, <1>10 DEF table

\* Evicting from the back keeps the account, and ends within the budget.
LEMMA EvictionKeepsAccount ==
    ASSUME NEW S, NEW listed \in Seq(S), IsInjective(listed), NEW table, Weighed(S, table),
           EvictOldest(listed, table, Bytes(listed, table))
    PROVE  /\ order' \in Seq(S) /\ IsInjective(order') /\ ToSet(order') \subseteq ToSet(listed)
           /\ \A q, r : Ahead(q, r, order') => Ahead(q, r, listed)
           /\ DOMAIN entries' = ToSet(order') /\ \A q \in ToSet(order') : entries'[q] = table[q]
           /\ used' = Bytes(order', entries') /\ used' \in 0..MaxBytes
<1> DEFINE Left(n) == Bytes(listed, table) - Bytes(SubSeq(listed, n + 1, Len(listed)), table)
<1>1. PICK n \in 0..Len(listed) :
          /\ n = 0 \/ Left(n) <= MaxBytes
          /\ order' = SubSeq(listed, 1, n)
          /\ entries' = [q \in ToSet(order') |-> table[q]]
          /\ used' = Left(n)
  BY DEF EvictOldest
<1>2. Left(n) = Bytes(order', table)
  BY <1>1, BytesCut
<1> HIDE DEF Left
<1>3. /\ order' \in Seq(S) /\ IsInjective(order') /\ ToSet(order') \subseteq ToSet(listed)
      /\ Len(order') = n /\ \A q, r : Ahead(q, r, order') => Ahead(q, r, listed)
  BY <1>1, Cut
<1>4. DOMAIN entries' = ToSet(order') /\ \A q \in ToSet(order') : entries'[q] = table[q]
  BY <1>1
<1>5. Bytes(order', entries') = Bytes(order', table)
  <2>1. order' \in Seq(ToSet(order'))
    BY <1>3, SeqOfMembers
  <2> QED BY <1>4, <2>1, BytesAgree
<1>6. Bytes(order', table) \in Nat /\ (n = 0 => Bytes(order', table) = 0)
  <2>1. Bytes(order', table) \in Nat
    BY <1>3, WeightsAre
  <2>2. ASSUME n = 0 PROVE Bytes(order', table) = 0
    <3>1. Weights(order', table) = <<>>
      <4>1. Weights(order', table) \in Seq(Nat) /\ Len(Weights(order', table)) = 0
        BY <1>3, <2>2, WeightsAre
      <4> QED BY <4>1
    <3> QED BY <3>1, TotalOfNone DEF Bytes
  <2> QED BY <2>1, <2>2
<1>7. used' \in 0..MaxBytes
  BY <1>1, <1>2, <1>6, CacheAssumption
<1> QED BY <1>1, <1>2, <1>3, <1>4, <1>5, <1>7

\* What put leaves behind: the new entry and some that were there.
LEMMA PutLeaves ==
    ASSUME CacheInv, NEW p \in Paths, NEW data \in Contents, NEW info \in Contents,
           Put(p, data, info)
    PROVE  /\ order' \in Seq(DOMAIN entries \cup {p}) /\ IsInjective(order')
           /\ \A q, r : Ahead(q, r, order') => Ahead(q, r, ToFront(p, order))
           /\ DOMAIN entries' = ToSet(order') /\ DOMAIN entries' \subseteq DOMAIN entries \cup {p}
           /\ p \in DOMAIN entries' =>
                 entries'[p] \in Entry /\ entries'[p].data = data /\ entries'[p].info = info
           /\ \A q \in DOMAIN entries' : q # p => entries'[q] = entries[q]
           /\ used' = Bytes(order', entries') /\ used' \in 0..MaxBytes
           /\ recent' = ToFront(p, recent)
<1> DEFINE listed == ToFront(p, order)
           table == Filed(p, data, info)
           all == DOMAIN entries \cup {p}
<1>1. EvictOldest(listed, table, Bytes(listed, table)) /\ recent' = ToFront(p, recent)
  <2>1. used - (IF p \in DOMAIN entries THEN entries[p].data.size ELSE 0) + data.size
            = Bytes(listed, table)
    BY PutWeighs
  <2> HIDE DEF listed, table
  <2>2. EvictOldest(listed, table,
            used - (IF p \in DOMAIN entries THEN entries[p].data.size ELSE 0) + data.size)
        /\ recent' = ToFront(p, recent)
    BY DEF Put, listed, table
  <2> QED BY <2>1, <2>2
<1>2. Weighed(all, table)
  BY PutWeighs
<1>3. /\ listed \in Seq(all) /\ IsInjective(listed) /\ ToSet(listed) = all
  <2>1. order \in Seq(all) /\ p \in all /\ IsInjective(order) /\ ToSet(order) = DOMAIN entries
    BY EntriesWeigh, SeqOfMembers
  <2>2. listed \in Seq(all) /\ IsInjective(listed) /\ ToSet(listed) = ToSet(order) \cup {p}
    <3> HIDE DEF all
    <3> QED BY <2>1, Fronted
  <2> QED BY <2>1, <2>2
<1>4. /\ table[p] = [data |-> data, info |-> info]
      /\ \A q \in DOMAIN entries \ {p} : table[q] = entries[q]
  BY DEF Filed
<1> HIDE DEF listed, table
<1>5. /\ order' \in Seq(all) /\ IsInjective(order') /\ ToSet(order') \subseteq all
      /\ \A q, r : Ahead(q, r, order') => Ahead(q, r, listed)
      /\ DOMAIN entries' = ToSet(order') /\ \A q \in ToSet(order') : entries'[q] = table[q]
      /\ used' = Bytes(order', entries') /\ used' \in 0..MaxBytes
  BY <1>1, <1>2, <1>3, EvictionKeepsAccount
<1>6. table[p] \in Entry /\ table[p].data = data /\ table[p].info = info
  BY <1>4 DEF Entry
<1> QED BY <1>1, <1>4, <1>5, <1>6 DEF listed

LEMMA PutKeeps ==
    ASSUME CacheInv, NEW p \in Paths, NEW data \in Contents, NEW info \in Contents,
           Cacheable(data.size), data.version <= info.version, Put(p, data, info)
    PROVE  CacheInv'
<1> DEFINE all == DOMAIN entries \cup {p}
<1>1. /\ order' \in Seq(all) /\ IsInjective(order')
      /\ \A q, r : Ahead(q, r, order') => Ahead(q, r, ToFront(p, order))
      /\ DOMAIN entries' = ToSet(order') /\ DOMAIN entries' \subseteq all
      /\ p \in DOMAIN entries' =>
            entries'[p] \in Entry /\ entries'[p].data = data /\ entries'[p].info = info
      /\ \A q \in DOMAIN entries' : q # p => entries'[q] = entries[q]
      /\ used' = Bytes(order', entries') /\ used' \in 0..MaxBytes
      /\ recent' = ToFront(p, recent)
  BY PutLeaves
<1>2. recent \in Seq(Paths) /\ IsInjective(recent) /\ DOMAIN entries \subseteq ToSet(recent)
      /\ DOMAIN entries \subseteq Paths
  BY DEF CacheInv
<1>3. /\ recent' \in Seq(Paths) /\ IsInjective(recent')
      /\ DOMAIN entries' \subseteq ToSet(recent') /\ DOMAIN entries' \subseteq Paths
  <2>1. /\ recent' \in Seq(Paths) /\ IsInjective(recent')
        /\ ToSet(recent') = ToSet(recent) \cup {p}
    BY <1>1, <1>2, Fronted
  <2> QED BY <1>1, <1>2, <2>1
<1>4. order' \in Seq(Paths)
  BY <1>1, <1>3, SeqOfMembers
<1>5. Accounted'
  BY <1>1 DEF Accounted
<1>6. OrderIsRecency'
  <2>1. ASSUME NEW q, NEW r, Ahead(q, r, order') PROVE Ahead(q, r, recent')
    <3>1. Ahead(q, r, ToFront(p, order))
      BY <1>1, <2>1
    <3>2. Ahead(q, r, ToFront(p, recent))
      BY <3>1, MovesAgree
    <3> QED BY <1>1, <3>2
  <2> QED BY <2>1 DEF OrderIsRecency
<1>7. ASSUME NEW q \in DOMAIN entries'
       PROVE  /\ entries'[q] \in Entry
              /\ entries'[q].data.size \in 1..MaxEntryBytes
              /\ entries'[q].data.version <= entries'[q].info.version
  <2>1. CASE q = p
    <3>1. entries'[q] \in Entry /\ entries'[q].data = data /\ entries'[q].info = info
      BY <1>1, <2>1
    <3>2. data.size \in 1..MaxEntryBytes
      <4>1. data.size \in Nat /\ data.size > 0 /\ data.size <= MaxEntryBytes
        BY CacheAssumption DEF Cacheable, Contents
      <4>2. MaxEntryBytes \in Nat
        BY CacheAssumption DEF MaxEntryBytes
      <4> QED BY <4>1, <4>2
    <3> QED BY <3>1, <3>2
  <2>2. CASE q # p
    <3>1. q \in DOMAIN entries /\ entries'[q] = entries[q]
      BY <1>1, <2>2
    <3> QED BY <3>1 DEF CacheInv, EntriesBounded, NotUnderOlderStamp
  <2> QED BY <2>1, <2>2
<1>8. (EntriesBounded /\ NotUnderOlderStamp)'
  <2>1. MaxEntryBytes' = MaxEntryBytes
    BY DEF MaxEntryBytes
  <2> QED BY <1>7, <2>1 DEF EntriesBounded, NotUnderOlderStamp
<1> QED BY <1>1, <1>3, <1>4, <1>5, <1>6, <1>7, <1>8 DEF CacheInv

-----------------------------------------------------------------------------
(* The steps of a request and of the disk                                   *)

LEMMA OnDisk ==
    ASSUME RequestsInv, NEW p \in Paths, Exists(p)
    PROVE  disk[p] \in Contents
BY DEF RequestsInv, Exists, Contents

\* A request that moves on by itself leaves the others as they are.
LEMMA OneMoves ==
    ASSUME RequestsInv, NEW r \in Requests, NEW new \in Request, Goes(r, new), disk' = disk,
           /\ new.pc # "idle" => new.path \in Paths /\ new.info \in Contents
           /\ new.pc \in {"read", "fresh"} => new.data \in Contents
           /\ new.pc = "read" => new.data.version <= disk[new.path].version
           /\ new.pc = "fresh" => new.data.version <= new.info.version
    PROVE  RequestsInv'
<1>1. req' \in [Requests -> Request] /\ req'[r] = new
      /\ \A o \in Requests : o # r => req'[o] = req[o]
  BY DEF RequestsInv, Goes
<1>2. ASSUME NEW o \in Requests PROVE RequestOK(o)'
  <2>1. CASE o = r
    BY <1>1, <2>1 DEF RequestOK
  <2>2. CASE o # r
    BY <1>1, <2>2 DEF RequestOK, RequestsInv
  <2> QED BY <2>1, <2>2
<1> QED BY <1>1, <1>2 DEF RequestsInv

LEMMA IdleIs == Idle \in Request /\ Idle.pc = "idle"
BY DEF Idle, Request

LEMMA GetKeeps ==
    ASSUME IInv, NEW r \in Requests, Get(r)
    PROVE  IInv'
<1> DEFINE p == req[r].path
           info == req[r].info
<1>1. /\ req[r] \in Request /\ req[r].pc = "stat" /\ p \in Paths /\ info \in Contents
      /\ disk' = disk
  BY DEF IInv, RequestsInv, RequestOK, Get
<1>2. CASE Hits(p, info) /\ Goes(r, Idle)
  BY <1>1, <1>2, HitsKeep, OneMoves, IdleIs DEF IInv
<1>3. CASE /\ Misses(p, info)
           /\ Goes(r, IF Cacheable(info.size) THEN [req[r] EXCEPT !.pc = "miss"] ELSE Idle)
  <2>1. CacheInv'
    BY <1>1, <1>3, MissesKeep DEF IInv
  <2>2. CASE Cacheable(info.size)
    <3> DEFINE new == [req[r] EXCEPT !.pc = "miss"]
    <3>1. new \in Request /\ new.pc = "miss" /\ new.path = p /\ new.info = info
      BY <1>1 DEF Request
    <3>2. Goes(r, new)
      BY <1>3, <2>2
    <3> HIDE DEF new
    <3> QED BY <1>1, <2>1, <3>1, <3>2, OneMoves DEF IInv
  <2>3. CASE ~ Cacheable(info.size)
    BY <1>1, <1>3, <2>1, <2>3, OneMoves, IdleIs DEF IInv
  <2> QED BY <2>2, <2>3
<1> QED BY <1>2, <1>3 DEF Get

LEMMA OtherStepsKeep ==
    ASSUME IInv, NEW r \in Requests, Stat(r) \/ Read(r) \/ StatAgain(r)
    PROVE  IInv'
<1> DEFINE old == req[r]
           p == old.path
<1>1. old \in Request /\ disk' = disk /\ CacheInv'
  BY CacheUnchanged DEF IInv, RequestsInv, Stat, Read, StatAgain
<1>2. ASSUME NEW q \in Paths, Exists(q), old.pc = "idle",
             Goes(r, [old EXCEPT !.pc = "stat", !.path = q, !.info = disk[q]])
      PROVE  IInv'
  <2> DEFINE new == [old EXCEPT !.pc = "stat", !.path = q, !.info = disk[q]]
  <2>1. disk[q] \in Contents
    BY <1>2, OnDisk DEF IInv
  <2>2. new \in Request /\ new.pc = "stat" /\ new.path = q /\ new.info = disk[q]
    BY <1>1, <2>1 DEF Request
  <2> HIDE DEF new
  <2> QED BY <1>1, <1>2, <2>1, <2>2, OneMoves DEF IInv, new
<1>3. CASE old.pc \in {"miss", "read"} /\ ~ Exists(p) /\ Goes(r, Idle)
  BY <1>1, <1>3, OneMoves, IdleIs DEF IInv
<1>4. CASE old.pc = "miss" /\ Exists(p) /\ Goes(r, [old EXCEPT !.pc = "read", !.data = disk[p]])
  <2> DEFINE new == [old EXCEPT !.pc = "read", !.data = disk[p]]
  <2>1. p \in Paths /\ old.info \in Contents
    BY <1>4 DEF IInv, RequestsInv, RequestOK
  <2>2. disk[p] \in Contents
    BY <1>4, <2>1, OnDisk DEF IInv
  <2>3. /\ new \in Request /\ new.pc = "read" /\ new.path = p /\ new.info = old.info
        /\ new.data = disk[p]
    BY <1>1, <2>2 DEF Request
  <2>4. new.data.version <= disk[new.path].version
    BY <2>2, <2>3 DEF Contents
  <2>5. Goes(r, new)
    BY <1>4
  <2> HIDE DEF new
  <2> QED BY <1>1, <2>1, <2>2, <2>3, <2>4, <2>5, OneMoves DEF IInv
<1>5. CASE old.pc = "read" /\ Exists(p) /\ Goes(r, [old EXCEPT !.pc = "fresh", !.info = disk[p]])
  <2> DEFINE new == [old EXCEPT !.pc = "fresh", !.info = disk[p]]
  <2>1. p \in Paths /\ old.data \in Contents /\ old.data.version <= disk[p].version
    BY <1>5 DEF IInv, RequestsInv, RequestOK
  <2>2. disk[p] \in Contents
    BY <1>5, <2>1, OnDisk DEF IInv
  <2>3. /\ new \in Request /\ new.pc = "fresh" /\ new.path = p /\ new.info = disk[p]
        /\ new.data = old.data
    BY <1>1, <2>2 DEF Request
  <2>4. Goes(r, new)
    BY <1>5
  <2> HIDE DEF new
  <2> QED BY <1>1, <2>1, <2>2, <2>3, <2>4, OneMoves DEF IInv
<1> QED BY <1>2, <1>3, <1>4, <1>5 DEF Stat, Read, StatAgain

LEMMA StoreKeeps ==
    ASSUME IInv, NEW r \in Requests, Store(r)
    PROVE  IInv'
<1>1. /\ req[r].pc = "fresh" /\ Goes(r, Idle) /\ disk' = disk
      /\ req[r].path \in Paths /\ req[r].data \in Contents /\ req[r].info \in Contents
      /\ req[r].data.version <= req[r].info.version
  BY DEF Store, IInv, RequestsInv, RequestOK
<1>2. CacheInv'
  <2>1. CASE Cacheable(req[r].data.size)
    BY <1>1, <2>1, PutKeeps DEF Store, IInv
  <2>2. CASE ~ Cacheable(req[r].data.size)
    BY <2>2, CacheUnchanged DEF Store, IInv
  <2> QED BY <2>1, <2>2
<1> QED BY <1>1, <1>2, OneMoves, IdleIs DEF IInv

LEMMA EditKeeps ==
    ASSUME IInv, NEW p \in Paths, Edit(p)
    PROVE  IInv'
<1>1. CacheInv'
  BY CacheUnchanged DEF Edit, IInv
<1>2. PICK size \in Sizes \cup {None} :
          disk' = [disk EXCEPT ![p] = [version |-> @.version + 1, size |-> size]]
  BY DEF Edit
<1>3. disk \in [Paths -> [version : 0..MaxEdits, size : Sizes \cup {None}]] /\ req' = req
      /\ disk[p].version < MaxEdits /\ MaxEdits \in Nat
  BY CacheAssumption DEF IInv, RequestsInv, Edit
<1>4. disk' \in [Paths -> [version : 0..MaxEdits, size : Sizes \cup {None}]]
  BY <1>2, <1>3
<1>5. \A q \in Paths : disk[q].version <= disk'[q].version
                      /\ disk[q].version \in Int /\ disk'[q].version \in Int
  BY <1>2, <1>3, <1>4
<1>6. ASSUME NEW r \in Requests PROVE RequestOK(r)'
  <2>1. RequestOK(r) /\ req'[r] = req[r]
    BY <1>3 DEF IInv, RequestsInv
  <2>2. CASE req[r].pc = "read"
    <3>1. /\ req[r].path \in Paths /\ req[r].data.version \in Int
          /\ req[r].data.version <= disk[req[r].path].version
      BY <2>1, <2>2, <1>3 DEF RequestOK, Contents
    <3>2. req[r].data.version <= disk'[req[r].path].version
      BY <1>5, <3>1
    <3> QED BY <2>1, <2>2, <3>2 DEF RequestOK
  <2>3. CASE req[r].pc # "read"
    BY <2>1, <2>3 DEF RequestOK
  <2> QED BY <2>2, <2>3
<1>7. RequestsInv'
  BY <1>3, <1>4, <1>6 DEF IInv, RequestsInv
<1> QED BY <1>1, <1>7 DEF IInv

-----------------------------------------------------------------------------
LEMMA InitHolds == Init => IInv
<1> SUFFICES ASSUME Init PROVE IInv
  OBVIOUS
<1>1. DOMAIN entries = {} /\ order = <<>> /\ recent = <<>> /\ used = 0
  BY DEF Init
<1>2. Bytes(order, entries) = 0 /\ ToSet(order) = {} /\ IsInjective(order) /\ IsInjective(recent)
  <2>1. Weights(order, entries) = <<>>
    BY <1>1 DEF Weights
  <2>2. ToSet(order) = {} /\ IsInjective(order) /\ IsInjective(recent)
    BY <1>1 DEF ToSet, IsInjective
  <2> QED BY <2>1, <2>2, TotalOfNone DEF Bytes
<1>3. OrderIsRecency
  BY <1>1 DEF OrderIsRecency, Ahead
<1>4. CacheInv
  BY <1>1, <1>2, <1>3, CacheAssumption
     DEF CacheInv, Accounted, EntriesBounded, NotUnderOlderStamp
<1>5. RequestsInv
  <2>1. req \in [Requests -> Request] /\ \A r \in Requests : req[r].pc = "idle"
    BY IdleIs DEF Init
  <2>2. disk \in [Paths -> [version : 0..MaxEdits, size : Sizes \cup {None}]]
    BY DEF Init, Contents
  <2> QED BY <2>1, <2>2 DEF RequestsInv, RequestOK
<1> QED BY <1>4, <1>5 DEF IInv

LEMMA StepHolds == IInv /\ [Next]_vars => IInv'
<1> SUFFICES ASSUME IInv, [Next]_vars PROVE IInv'
  OBVIOUS
<1>1. CASE UNCHANGED vars
  <2>1. CacheInv'
    BY <1>1, CacheUnchanged DEF vars, cache, IInv
  <2>2. RequestsInv'
    BY <1>1 DEF vars, IInv, RequestsInv, RequestOK
  <2> QED BY <2>1, <2>2 DEF IInv
<1>2. ASSUME NEW r \in Requests, Serve(r) PROVE IInv'
  BY <1>2, GetKeeps, OtherStepsKeep, StoreKeeps DEF Serve
<1>3. ASSUME NEW p \in Paths, Edit(p) PROVE IInv'
  BY <1>3, EditKeeps
<1> QED BY <1>1, <1>2, <1>3 DEF Next

LEMMA Invariant == Spec => []IInv
BY InitHolds, StepHolds, PTL DEF Spec

\* Every variable keeps its type.
THEOREM TypeCorrect == Spec => []TypeOK
<1>1. IInv => TypeOK
  BY CacheAssumption DEF IInv, CacheInv, RequestsInv, TypeOK
<1> QED BY <1>1, Invariant, PTL

\* Whatever is put into the cache and in which order, what it keeps weighs no
\* more than its budget (filecache.go:33 and 101).
THEOREM AlwaysWithinBudget == Spec => []WithinBudget
<1>1. IInv => WithinBudget
  BY CacheAssumption DEF IInv, CacheInv, Accounted, WithinBudget
<1> QED BY <1>1, Invariant, PTL

\* The byte count is what the entries weigh and the list is the map, through
\* any number of hits, misses, replacements and evictions (filecache.go:61-116).
THEOREM AlwaysAccounted == Spec => []Accounted
<1>1. IInv => Accounted
  BY DEF IInv, CacheInv
<1> QED BY <1>1, Invariant, PTL

\* The list is in the order of the last uses, so what eviction takes from the
\* back is the least recently used of what is cached (filecache.go:20).
THEOREM EvictsByRecency == Spec => []OrderIsRecency
<1>1. IInv => OrderIsRecency
  BY DEF IInv, CacheInv
<1> QED BY <1>1, Invariant, PTL

\* Whatever happens to a file between the stat and the read, no entry is over
\* the limit of one file (filecache.go:15 and 93).
THEOREM EntriesAlwaysBounded == Spec => []EntriesBounded
<1>1. IInv => EntriesBounded
  BY DEF IInv, CacheInv
<1> QED BY <1>1, Invariant, PTL

\* However requests and edits interleave, no file's bytes are filed under a
\* stat that is older than they are (fileserver.go:104).
THEOREM NeverUnderOlderStamp == Spec => []NotUnderOlderStamp
<1>1. IInv => NotUnderOlderStamp
  BY DEF IInv, CacheInv
<1> QED BY <1>1, Invariant, PTL

-----------------------------------------------------------------------------
(* What a file's previous contents need to be served (the disagreement that *)
(* HitsAreCurrent shows).                                                   *)

\* No file is changed between the read and the second stat of a request.
QuietReads ==
    \A p \in Paths : Edit(p) => \A r \in Requests : ~ (req[r].pc = "read" /\ req[r].path = p)

ReadsAreCurrent ==
    \A r \in Requests :
        /\ req[r].pc = "read" => req[r].data = disk[req[r].path]
        /\ req[r].pc = "fresh" => req[r].data = req[r].info

CurrentInv == HitsAreCurrent /\ ReadsAreCurrent

LEMMA OneMovesCurrent ==
    ASSUME RequestsInv, ReadsAreCurrent, NEW r \in Requests, NEW new, Goes(r, new), disk' = disk,
           /\ new.pc = "read" => new.data = disk[new.path]
           /\ new.pc = "fresh" => new.data = new.info
    PROVE  ReadsAreCurrent'
<1>1. req'[r] = new /\ \A o \in Requests : o # r => req'[o] = req[o]
  BY DEF RequestsInv, Goes
<1> QED BY <1>1 DEF ReadsAreCurrent

LEMMA CurrentStep ==
    ASSUME IInv, CurrentInv, [Next]_vars, [QuietReads]_vars
    PROVE  CurrentInv'
<1>1. CASE UNCHANGED vars
  BY <1>1 DEF vars, CurrentInv, HitsAreCurrent, ReadsAreCurrent
<1>2. ASSUME NEW p \in Paths, Edit(p) PROVE CurrentInv'
  <2>1. entries' = entries /\ req' = req
    BY <1>2 DEF Edit, cache
  <2>2. QuietReads
    BY <1>2 DEF vars, Edit, IInv, RequestsInv
  <2>3. \A r \in Requests : req[r].pc = "read" => disk'[req[r].path] = disk[req[r].path]
    BY <1>2, <2>2 DEF QuietReads, Edit, IInv, RequestsInv, RequestOK
  <2> QED BY <2>1, <2>3 DEF CurrentInv, HitsAreCurrent, ReadsAreCurrent
<1>3. ASSUME NEW r \in Requests, Serve(r) PROVE CurrentInv'
  <2> USE DEF IInv, CurrentInv
  <2>1. req[r] \in Request /\ disk' = disk
    BY <1>3 DEF RequestsInv, Serve, Stat, Get, Read, StatAgain, Store
  <2>2. CASE Stat(r)
    <3>1. PICK p : Goes(r, [req[r] EXCEPT !.pc = "stat", !.path = p, !.info = disk[p]])
      BY <2>2 DEF Stat
    <3>2. ReadsAreCurrent'
      BY <2>1, <3>1, OneMovesCurrent DEF Request
    <3>3. entries' = entries
      BY <2>2 DEF Stat, cache
    <3> QED BY <3>2, <3>3 DEF HitsAreCurrent
  <2>3. CASE Get(r)
    <3>1. PICK new : Goes(r, new) /\ new.pc \in {"idle", "miss"}
      <4>1. Goes(r, Idle) \/ Goes(r, [req[r] EXCEPT !.pc = "miss"])
        BY <2>3 DEF Get
      <4> QED BY <2>1, <4>1 DEF Idle, Request
    <3>2. ReadsAreCurrent'
      BY <2>1, <3>1, OneMovesCurrent
    <3>3. \A q \in DOMAIN entries' : q \in DOMAIN entries /\ entries'[q] = entries[q]
      BY <2>3 DEF Get, Hits, Misses, Without
    <3> QED BY <3>2, <3>3 DEF HitsAreCurrent
  <2>4. CASE Read(r)
    <3>1. PICK new : Goes(r, new) /\ (new.pc = "idle" \/ (new.pc = "read" /\ new.data = disk[new.path]))
      <4>1. Goes(r, Idle) \/ Goes(r, [req[r] EXCEPT !.pc = "read", !.data = disk[req[r].path]])
        BY <2>4 DEF Read
      <4> DEFINE new == [req[r] EXCEPT !.pc = "read", !.data = disk[req[r].path]]
      <4>2. new.pc = "read" /\ new.data = disk[new.path]
        BY <2>1 DEF Request
      <4> HIDE DEF new
      <4> QED BY <4>1, <4>2, IdleIs, Zenon DEF new
    <3>2. ReadsAreCurrent'
      BY <2>1, <3>1, OneMovesCurrent
    <3>3. entries' = entries
      BY <2>4 DEF Read, cache
    <3> QED BY <3>2, <3>3 DEF HitsAreCurrent
  <2>5. CASE StatAgain(r)
    <3>1. req[r].data = disk[req[r].path]
      BY <2>5 DEF StatAgain, ReadsAreCurrent
    <3>2. PICK new : Goes(r, new) /\ (new.pc = "idle" \/ (new.pc = "fresh" /\ new.data = new.info))
      <4>1. Goes(r, Idle) \/ Goes(r, [req[r] EXCEPT !.pc = "fresh", !.info = disk[req[r].path]])
        BY <2>5 DEF StatAgain
      <4> DEFINE new == [req[r] EXCEPT !.pc = "fresh", !.info = disk[req[r].path]]
      <4>2. new.pc = "fresh" /\ new.data = new.info
        BY <2>1, <3>1 DEF Request
      <4> HIDE DEF new
      <4> QED BY <4>1, <4>2, IdleIs, Zenon DEF new
    <3>3. ReadsAreCurrent'
      BY <2>1, <3>2, OneMovesCurrent
    <3>4. entries' = entries
      BY <2>5 DEF StatAgain, cache
    <3> QED BY <3>3, <3>4 DEF HitsAreCurrent
  <2>6. CASE Store(r)
    <3>1. PICK p \in Paths, data \in Contents :
              Goes(r, Idle) /\ (Put(p, data, data) \/ UNCHANGED cache)
      BY <2>6 DEF Store, RequestsInv, RequestOK, ReadsAreCurrent
    <3>2. ReadsAreCurrent'
      BY <2>1, <3>1, OneMovesCurrent, IdleIs
    <3>3. CASE Put(p, data, data)
      <4>1. /\ DOMAIN entries' \subseteq DOMAIN entries \cup {p}
            /\ p \in DOMAIN entries' => entries'[p].data = data /\ entries'[p].info = data
            /\ \A q \in DOMAIN entries' : q # p => entries'[q] = entries[q]
        BY <3>3, PutLeaves
      <4>2. HitsAreCurrent'
        BY <4>1 DEF HitsAreCurrent
      <4> QED BY <3>2, <4>2
    <3>4. CASE UNCHANGED cache
      BY <3>2, <3>4 DEF cache, HitsAreCurrent
    <3> QED BY <3>1, <3>3, <3>4
  <2> QED BY <1>3, <2>2, <2>3, <2>4, <2>5, <2>6 DEF Serve
<1> QED BY <1>1, <1>2, <1>3 DEF Next

\* If no file changes between a request's read and its second stat, a hit is
\* always what the file was at the stat it is asked for with: that window,
\* and not the one before the read, is all that filecache.go:12 overlooks.
THEOREM OnlyThatWindow == Spec /\ [][QuietReads]_vars => []HitsAreCurrent
<1>1. Init => CurrentInv
  BY DEF Init, CurrentInv, HitsAreCurrent, ReadsAreCurrent, Idle
<1>2. IInv /\ CurrentInv /\ [Next]_vars /\ [QuietReads]_vars => CurrentInv'
  BY CurrentStep
<1>3. CurrentInv => HitsAreCurrent
  BY DEF CurrentInv
<1> QED BY <1>1, <1>2, <1>3, Invariant, PTL DEF Spec
=============================================================================
