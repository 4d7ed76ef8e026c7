------------------------------ MODULE TextProofs ------------------------------
(* What the server reads in the texts, whatever they are: find, inner_div    *)
(* and getKeyValuePair by what they return, the two recursive ones by        *)
(* induction from the end of the text.                                       *)
EXTENDS ClientInvariant, SequenceTheorems, WellFoundedInduction, TLAPS

(* Every set of natural numbers that is not empty has a least one.           *)
LEMMA LeastNumber ==
  ASSUME NEW T \in SUBSET Nat, T # {}
  PROVE  \E x \in T : \A y \in T : x <= y
<1> DEFINE R == {ss \in Nat \X Nat : ss[1] < ss[2]}
<1>1. R = OpToRel(<, Nat)
  BY DEF OpToRel
<1>2. IsWellFoundedOn(R, Nat)
  <2> HIDE DEF R
  <2> QED
    BY <1>1, NatLessThanWellFounded
<1>3. PICK x \in T : \A y \in T : <<y, x>> \notin R
  <2> HIDE DEF R
  <2> QED
    BY <1>2, WFMin
<1>4. ASSUME NEW y \in T PROVE x <= y
  <2>1. x \in Nat /\ y \in Nat
    OBVIOUS
  <2>2. ~(y < x)
    BY <1>3, <2>1
  <2> QED
    BY <2>1, <2>2
<1> QED
  BY <1>4

(* Induction over the naturals, for a set in place of a predicate.           *)
LEMMA SetInduction ==
  ASSUME NEW S, 0 \in S, \A n \in Nat : n \in S => n + 1 \in S
  PROVE  Nat \subseteq S
<1> DEFINE T == Nat \ S
<1> SUFFICES ASSUME T # {} PROVE FALSE
  OBVIOUS
<1>1. PICK x \in T : \A y \in T : x <= y
  <2>1. T \in SUBSET Nat
    OBVIOUS
  <2> HIDE DEF T
  <2> QED
    BY <2>1, LeastNumber
<1>2. x \in Nat /\ x # 0
  OBVIOUS
<1>3. x - 1 \in Nat /\ (x - 1) + 1 = x /\ ~(x <= x - 1)
  BY <1>2
<1>4. x - 1 \in S
  BY <1>1, <1>3
<1> QED
  BY <1>3, <1>4

(* What find returns: the first place from "from" on, or 0.                  *)
LEMMA FindIs ==
  ASSUME NEW s, NEW c, NEW from \in Nat \ {0}, Len(s) \in Nat
  PROVE  \/ Find(s, c, from) = 0 /\ \A i \in from..Len(s) : s[i] # c
         \/ /\ Find(s, c, from) \in from..Len(s)
            /\ s[Find(s, c, from)] = c
            /\ \A i \in from..Find(s, c, from) - 1 : s[i] # c
<1> DEFINE at == {i \in from..Len(s) : s[i] = c}
<1>1. CASE at = {}
  <2>1. Find(s, c, from) = 0
    BY <1>1 DEF Find
  <2>2. \A i \in from..Len(s) : s[i] # c
    BY <1>1
  <2> QED
    BY <2>1, <2>2
<1>2. CASE at # {}
  <2>1. at \in SUBSET Nat
    OBVIOUS
  <2>2. \E x \in at : \A y \in at : x <= y
    <3> HIDE DEF at
    <3> QED
      BY <1>2, <2>1, LeastNumber
  <2>3. Find(s, c, from) = Min(at)
    BY <1>2 DEF Find
  <2>4. Min(at) \in at /\ \A y \in at : Min(at) <= y
    <3> HIDE DEF at
    <3> QED
      BY <2>2 DEF Min
  <2> DEFINE n == Min(at)
  <2>5. n \in from..Len(s) /\ s[n] = c
    BY <2>4
  <2>6. ASSUME NEW i \in from..n - 1 PROVE s[i] # c
    <3>1. i \in from..Len(s) /\ ~(n <= i)
      BY <2>5
    <3> QED
      BY <2>4, <3>1
  <2> HIDE DEF n
  <2>7. Find(s, c, from) = n
    BY <2>3 DEF n
  <2> QED
    BY <2>5, <2>6, <2>7
<1> QED
  BY <1>1, <1>2

(* Where it is found, and where it is not.                                   *)
LEMMA FindAt ==
  ASSUME NEW s, NEW c, NEW from \in Nat \ {0}, Len(s) \in Nat,
         NEW n \in from..Len(s), s[n] = c, \A i \in from..n - 1 : s[i] # c
  PROVE  Find(s, c, from) = n
<1>1. CASE Find(s, c, from) = 0 /\ \A i \in from..Len(s) : s[i] # c
  BY <1>1
<1>2. CASE /\ Find(s, c, from) \in from..Len(s)
           /\ s[Find(s, c, from)] = c
           /\ \A i \in from..Find(s, c, from) - 1 : s[i] # c
  <2>1. PICK m \in from..Len(s) : m = Find(s, c, from)
    BY <1>2
  <2>2. ~(m < n)
    <3>1. m < n => m \in from..n - 1
      OBVIOUS
    <3> QED
      BY <3>1, <2>1, <1>2
  <2>3. ~(n < m)
    <3>1. n < m => n \in from..m - 1
      OBVIOUS
    <3> QED
      BY <3>1, <2>1, <1>2
  <2> QED
    BY <2>1, <2>2, <2>3
<1> QED
  BY <1>1, <1>2, FindIs

LEMMA FindNone ==
  ASSUME NEW s, NEW c, NEW from \in Nat \ {0}, Len(s) \in Nat,
         \A i \in from..Len(s) : s[i] # c
  PROVE  Find(s, c, from) = 0
  BY FindIs

(* A piece of a sequence.                                                    *)
LEMMA PieceOf ==
  ASSUME NEW T, NEW s \in Seq(T), NEW m \in 1..Len(s) + 1, NEW n \in 0..Len(s), m <= n + 1
  PROVE  /\ SubSeq(s, m, n) \in Seq(T)
         /\ Len(SubSeq(s, m, n)) = n - m + 1
         /\ DOMAIN SubSeq(s, m, n) = 1..n - m + 1
         /\ \A i \in 1..n - m + 1 : SubSeq(s, m, n)[i] = s[m + i - 1]
<1>1. Len(s) \in Nat
  OBVIOUS
<1>2. m \in Int /\ n \in Int
  BY <1>1
<1>3. \A i \in m..n : s[i] \in T
  BY <1>1
<1>4. /\ SubSeq(s, m, n) \in Seq(T)
      /\ Len(SubSeq(s, m, n)) = IF m <= n THEN n - m + 1 ELSE 0
      /\ \A i \in 1..n - m + 1 : SubSeq(s, m, n)[i] = s[m + i - 1]
  BY <1>2, <1>3, SubSeqProperties
<1>5. (IF m <= n THEN n - m + 1 ELSE 0) = n - m + 1
  BY <1>1, <1>2
<1>6. Len(SubSeq(s, m, n)) = n - m + 1
  BY <1>4, <1>5
<1>7. DOMAIN SubSeq(s, m, n) = 1..Len(SubSeq(s, m, n))
  BY <1>4, LenProperties
<1> QED
  BY <1>4, <1>6, <1>7

(* A piece that is known symbol by symbol.                                   *)
LEMMA PieceIs ==
  ASSUME NEW T, NEW s \in Seq(T), NEW b \in Seq(T), NEW m \in 1..Len(s) + 1,
         m - 1 + Len(b) <= Len(s), \A i \in 1..Len(b) : s[m - 1 + i] = b[i]
  PROVE  SubSeq(s, m, m - 1 + Len(b)) = b
<1> DEFINE n == m - 1 + Len(b)
           p == SubSeq(s, m, n)
<1>1. Len(s) \in Nat /\ Len(b) \in Nat /\ n \in 0..Len(s) /\ m <= n + 1 /\ n - m + 1 = Len(b)
  OBVIOUS
<1>2. p \in Seq(T) /\ Len(p) = Len(b) /\ \A i \in 1..Len(b) : p[i] = s[m + i - 1]
  <2> HIDE DEF n
  <2> QED
    BY <1>1, PieceOf
<1>3. \A i \in 1..Len(b) : m + i - 1 = m - 1 + i
  BY <1>1
<1>4. \A i \in 1..Len(b) : p[i] = b[i]
  <2> HIDE DEF p
  <2> QED
    BY <1>2, <1>3
<1> HIDE DEF p
<1>5. p = b
  BY <1>2, <1>4, SeqEqual
<1> QED
  BY <1>5 DEF p

(* A function that is given from the end on: at each place it is either      *)
(* known, or known from its value at a later place.                          *)
Later(N, nxt) == \A i \in 1..N : nxt[i] # 0 => nxt[i] \in i + 1..N

Fits(f, N, base, nxt, step) ==
    \A i \in 1..N : f[i] = IF nxt[i] = 0 THEN base[i] ELSE step[i][f[nxt[i]]]

Exists(N, V, base, nxt, step) == \E f \in [1..N -> V] : Fits(f, N, base, nxt, step)

LEMMA FromTheEnd ==
  ASSUME NEW N \in Nat, NEW V, NEW base \in [1..N -> V], NEW nxt \in [1..N -> Nat],
         Later(N, nxt), NEW step \in [1..N -> [V -> V]]
  PROVE  Exists(N, V, base, nxt, step)
<1> USE DEF Later
<1> DEFINE Given(f, m) ==
              \A i \in N + 1 - m..N : f[i] = IF nxt[i] = 0 THEN base[i] ELSE step[i][f[nxt[i]]]
           S == {m \in Nat : m <= N => \E f \in [N + 1 - m..N -> V] : Given(f, m)}
<1>1. 0 \in S
  <2>1. [i \in N + 1 - 0..N |-> base[i]] \in [N + 1 - 0..N -> V]
    OBVIOUS
  <2>2. \A i \in N + 1 - 0..N : FALSE
    OBVIOUS
  <2>3. Given([i \in N + 1 - 0..N |-> base[i]], 0)
    BY <2>2
  <2> HIDE DEF Given
  <2> QED
    BY <2>1, <2>3
<1>2. ASSUME NEW m \in Nat, m \in S PROVE m + 1 \in S
  <2> SUFFICES ASSUME m + 1 <= N
               PROVE  \E f \in [N + 1 - (m + 1)..N -> V] : Given(f, m + 1)
    <3>1. m + 1 \in Nat
      OBVIOUS
    <3> HIDE DEF Given
    <3> QED
      BY <3>1
  <2>1. m <= N
    OBVIOUS
  <2>2. PICK f \in [N + 1 - m..N -> V] : Given(f, m)
    <3> HIDE DEF Given
    <3> QED
      BY <1>2, <2>1
  <2> DEFINE lo == N - m
  <2>3. /\ lo \in 1..N /\ N + 1 - (m + 1) = lo /\ N + 1 - m = lo + 1
        /\ \A i \in lo..N : i = lo \/ i \in lo + 1..N
        /\ \A i \in lo + 1..N : i \in 1..N /\ i # lo
    <3>1. lo \in 1..N /\ N + 1 - (m + 1) = lo /\ N + 1 - m = lo + 1
      OBVIOUS
    <3> HIDE DEF lo
    <3> QED
      BY <3>1
  <2> HIDE DEF lo
  <2> DEFINE x == IF nxt[lo] = 0 THEN base[lo] ELSE step[lo][f[nxt[lo]]]
             g == [i \in lo..N |-> IF i = lo THEN x ELSE f[i]]
  <2>4. x \in V
    <3>1. CASE nxt[lo] = 0
      BY <3>1, <2>3
    <3>2. CASE nxt[lo] # 0
      <4>1. nxt[lo] \in lo + 1..N
        BY <3>2, <2>3
      <4>2. f[nxt[lo]] \in V
        BY <4>1, <2>2, <2>3
      <4> QED
        BY <3>2, <4>2, <2>3
    <3> QED
      BY <3>1, <3>2
  <2>5. \A i \in lo + 1..N : f[i] \in V
    BY <2>2, <2>3
  <2>6. g \in [lo..N -> V]
    <3> HIDE DEF x
    <3> QED
      BY <2>3, <2>4, <2>5
  <2>7. \A i \in lo + 1..N : g[i] = f[i]
    <3>1. \A i \in lo + 1..N : i \in lo..N
      BY <2>3
    <3> QED
      BY <2>3, <3>1
  <2>8. g[lo] = x
    BY <2>3
  <2>9. \A i \in lo + 1..N : f[i] = IF nxt[i] = 0 THEN base[i] ELSE step[i][f[nxt[i]]]
    BY <2>2, <2>3
  <2>10. ASSUME NEW i \in lo..N
         PROVE  g[i] = IF nxt[i] = 0 THEN base[i] ELSE step[i][g[nxt[i]]]
    <3>1. nxt[i] # 0 => g[nxt[i]] = f[nxt[i]]
      <4>1. i \in 1..N
        BY <2>3
      <4>2. nxt[i] # 0 => nxt[i] \in i + 1..N
        BY <4>1
      <4>3. \A k \in i + 1..N : k \in lo + 1..N
        BY <4>1, <2>3
      <4> HIDE DEF g
      <4> QED
        BY <4>2, <4>3, <2>7
    <3>2. CASE i = lo
      <4> HIDE DEF g
      <4> QED
        BY <3>1, <3>2, <2>8
    <3>3. CASE i \in lo + 1..N
      <4> HIDE DEF g
      <4> QED
        BY <3>1, <3>3, <2>7, <2>9
    <3> QED
      BY <3>2, <3>3, <2>3
  <2>11. Given(g, m + 1)
    <3> HIDE DEF g
    <3> QED
      BY <2>3, <2>10
  <2> HIDE DEF Given, g
  <2> QED
    BY <2>3, <2>6, <2>11
<1>3. N \in S
  <2> HIDE DEF S
  <2> QED
    BY <1>1, <1>2, SetInduction
<1>4. PICK f \in [N + 1 - N..N -> V] : Given(f, N)
  <2>1. N <= N
    OBVIOUS
  <2> HIDE DEF Given
  <2> QED
    BY <1>3, <2>1
<1>5. N + 1 - N = 1
  OBVIOUS
<1> QED
  BY <1>4, <1>5 DEF Exists, Fits

(* inner_div says what it seems to say.                                      *)
Divided(s, values) ==
    values = [i \in 1..Len(s) + 1 |->
                LET n == Find(s, ",", i)
                IN  IF n = 0 THEN <<From(s, i)>> ELSE <<Before(s, i, n)>> \o values[n + 1]]

LEMMA InnerDivDef ==
  ASSUME NEW T, NEW s \in Seq(T)
  PROVE  \E values : Divided(s, values) /\ inner_div(s) = values[1]
<1> DEFINE N == Len(s) + 1
           V == Seq(Seq(T))
           find == [i \in 1..N |-> Find(s, ",", i)]
           nxt == [i \in 1..N |-> IF find[i] = 0 THEN 0 ELSE find[i] + 1]
           base == [i \in 1..N |-> <<From(s, i)>>]
           step == [i \in 1..N |->
                      [v \in V |-> IF find[i] = 0 THEN v ELSE <<Before(s, i, find[i])>> \o v]]
<1>1. Len(s) \in Nat /\ N \in Nat
  OBVIOUS
<1>2. \A i \in 1..N : find[i] = 0 \/ find[i] \in i..Len(s)
  <2>1. \A i \in 1..N : i \in Nat \ {0}
    OBVIOUS
  <2> QED
    BY <1>1, <2>1, FindIs
<1>3. base \in [1..N -> V]
  <2>1. ASSUME NEW i \in 1..N PROVE From(s, i) \in Seq(T)
    <3>1. Len(s) \in 0..Len(s) /\ i \in 1..Len(s) + 1 /\ i <= Len(s) + 1
      BY <1>1
    <3> QED
      BY <3>1, PieceOf DEF From
  <2>2. \A x \in Seq(T) : <<x>> \in V
    OBVIOUS
  <2> QED
    BY <2>1, <2>2
<1>4. step \in [1..N -> [V -> V]]
  <2>1. ASSUME NEW i \in 1..N, find[i] # 0 PROVE Before(s, i, find[i]) \in Seq(T)
    <3>1. find[i] - 1 \in 0..Len(s) /\ i \in 1..Len(s) + 1 /\ i <= (find[i] - 1) + 1
      <4>1. \A l \in Nat : \A k \in 1..l + 1 : \A n \in k..l :
               n - 1 \in 0..l /\ k <= (n - 1) + 1
        OBVIOUS
      <4> HIDE DEF find
      <4> QED
        BY <4>1, <1>1, <1>2, <2>1
    <3> HIDE DEF find
    <3> QED
      BY <3>1, PieceOf DEF Before
  <2>2. ASSUME NEW x \in Seq(T), NEW v \in V PROVE <<x>> \o v \in V
    <3>1. <<x>> \in Seq(Seq(T))
      OBVIOUS
    <3> QED
      BY <3>1, ConcatProperties
  <2>3. \A i \in 1..N : \A v \in V :
           (IF find[i] = 0 THEN v ELSE <<Before(s, i, find[i])>> \o v) \in V
    <3> HIDE DEF find, V
    <3> QED
      BY <2>1, <2>2
  <2> HIDE DEF find, V
  <2> QED
    BY <2>3
<1>5. nxt \in [1..N -> Nat] /\ \A i \in 1..N : nxt[i] # 0 => nxt[i] \in i + 1..N
  <2>1. ASSUME NEW i \in 1..N
        PROVE  nxt[i] = 0 \/ nxt[i] \in i + 1..N
    <3>1. CASE find[i] = 0
      BY <3>1
    <3>2. CASE find[i] # 0
      <4>1. find[i] \in i..Len(s) /\ nxt[i] = find[i] + 1
        <5>1. nxt[i] = find[i] + 1
          <6> HIDE DEF find
          <6> QED
            BY <3>2
        <5> HIDE DEF find, nxt
        <5> QED
          BY <5>1, <3>2, <1>2
      <4> HIDE DEF find, nxt
      <4> QED
        BY <4>1, <1>1
    <3> QED
      BY <3>1, <3>2
  <2>2. nxt = [i \in 1..N |-> nxt[i]]
    OBVIOUS
  <2>3. \A i \in 1..N : nxt[i] \in Nat
    <3>1. \A i \in 1..N : \A k \in i + 1..N : k \in Nat
      BY <1>1
    <3> HIDE DEF nxt
    <3> QED
      BY <2>1, <3>1
  <2> HIDE DEF nxt
  <2> QED
    BY <2>1, <2>2, <2>3
<1>6. PICK values \in [1..N -> V] :
         \A i \in 1..N : values[i] = IF nxt[i] = 0 THEN base[i] ELSE step[i][values[nxt[i]]]
  <2> HIDE DEF N, V, nxt, base, step, find
  <2>1. N \in Nat /\ nxt \in [1..N -> Nat]
    BY <1>1, <1>5
  <2>2. Later(N, nxt)
    BY <1>5 DEF Later
  <2>3. Exists(N, V, base, nxt, step)
    BY <2>1, <2>2, <1>3, <1>4, FromTheEnd
  <2> QED
    BY <2>3 DEF Exists, Fits
<1>7. ASSUME NEW i \in 1..N
      PROVE  values[i] = LET n == Find(s, ",", i)
                         IN  IF n = 0 THEN <<From(s, i)>> ELSE <<Before(s, i, n)>> \o values[n + 1]
  <2>1. find[i] = Find(s, ",", i)
    OBVIOUS
  <2>2. CASE find[i] = 0
    <3>1. nxt[i] = 0 /\ base[i] = <<From(s, i)>>
      BY <2>2
    <3> HIDE DEF nxt, base, step, find
    <3> QED
      BY <3>1, <2>1, <2>2, <1>6
  <2>3. CASE find[i] # 0
    <3>1. nxt[i] = find[i] + 1
      <4> HIDE DEF find
      <4> QED
        BY <2>3
    <3>2. nxt[i] \in 1..N /\ nxt[i] # 0
      <4>1. find[i] + 1 \in 1..N /\ find[i] + 1 # 0
        <5>1. find[i] \in i..Len(s)
          <6> HIDE DEF find
          <6> QED
            BY <1>2, <2>3
        <5> HIDE DEF find
        <5> QED
          BY <5>1, <1>1
      <4> HIDE DEF find, nxt
      <4> QED
        BY <3>1, <4>1
    <3>3. values[nxt[i]] \in V
      <4> HIDE DEF nxt, V
      <4> QED
        BY <3>2, <1>6
    <3>4. step[i][values[nxt[i]]] = <<Before(s, i, find[i])>> \o values[nxt[i]]
      <4> HIDE DEF nxt, V, find
      <4> QED
        BY <3>3, <2>3
    <3> HIDE DEF nxt, base, step, find
    <3> QED
      BY <3>1, <3>2, <3>4, <2>1, <2>3, <1>6
  <2> QED
    BY <2>2, <2>3
<1>8. Divided(s, values)
  <2>1. values = [i \in 1..N |-> values[i]]
    BY <1>6
  <2> QED
    BY <2>1, <1>7 DEF Divided
<1>9. \E v : Divided(s, v)
  BY <1>8
<1> QED
  BY <1>9 DEF inner_div, Divided

(* The pieces from a place on are divided at its commas.                     *)
CutFrom(pieces, s, k) ==
    \E cut \in [0..Len(pieces) -> 0..Len(s) + 1] :
       /\ cut[0] = k - 1 /\ cut[Len(pieces)] = Len(s) + 1
       /\ \A i \in 1..Len(pieces) :
             /\ cut[i - 1] < cut[i]
             /\ pieces[i] = SubSeq(s, cut[i - 1] + 1, cut[i] - 1)
             /\ Commas(pieces[i]) = {}
             /\ cut[i] \in Commas(s) \/ i = Len(pieces)

(* A piece without a comma in the text has none itself.                      *)
LEMMA NoCommas ==
  ASSUME NEW T, NEW s \in Seq(T), NEW m \in 1..Len(s) + 1, NEW n \in 0..Len(s), m <= n + 1,
         \A i \in m..n : i \notin Commas(s)
  PROVE  Commas(SubSeq(s, m, n)) = {}
<1>1. /\ DOMAIN SubSeq(s, m, n) = 1..n - m + 1
      /\ \A i \in 1..n - m + 1 : SubSeq(s, m, n)[i] = s[m + i - 1]
  BY PieceOf
<1>2. \A i \in 1..n - m + 1 : m + i - 1 \in m..n /\ m + i - 1 \in DOMAIN s
  <2>1. m \in Int /\ n \in Int /\ Len(s) \in Nat /\ DOMAIN s = 1..Len(s)
    OBVIOUS
  <2> QED
    BY <2>1
<1>3. \A i \in 1..n - m + 1 : m + i - 1 \in DOMAIN s /\ m + i - 1 \notin Commas(s)
  BY <1>2
<1> QED
  BY <1>1, <1>3, Zenon DEF Commas

LEMMA LastPiece ==
  ASSUME NEW T, NEW s \in Seq(T), NEW k \in 1..Len(s) + 1,
         \A i \in k..Len(s) : i \notin Commas(s)
  PROVE  <<From(s, k)>> \in Seq(Seq(T)) /\ CutFrom(<<From(s, k)>>, s, k)
<1> DEFINE p == SubSeq(s, k, Len(s))
           cut == [i \in 0..1 |-> IF i = 0 THEN k - 1 ELSE Len(s) + 1]
<1>1. Len(s) \in Nat
  OBVIOUS
<1>2. p \in Seq(T) /\ Commas(p) = {}
  <2>1. Len(s) \in 0..Len(s) /\ k <= Len(s) + 1
    BY <1>1
  <2> QED
    BY <2>1, PieceOf, NoCommas
<1>3. /\ cut \in [0..1 -> 0..Len(s) + 1] /\ cut[0] = k - 1 /\ cut[1] = Len(s) + 1
      /\ cut[0] < cut[1] /\ cut[0] + 1 = k /\ cut[1] - 1 = Len(s)
  <2>1. k - 1 \in 0..Len(s) + 1 /\ Len(s) + 1 \in 0..Len(s) + 1
        /\ k - 1 < Len(s) + 1 /\ (k - 1) + 1 = k /\ (Len(s) + 1) - 1 = Len(s)
    BY <1>1
  <2>2. cut \in [0..1 -> 0..Len(s) + 1]
    BY <2>1
  <2>3. cut[0] = k - 1 /\ cut[1] = Len(s) + 1
    OBVIOUS
  <2> HIDE DEF cut
  <2> QED
    BY <2>1, <2>2, <2>3
<1> DEFINE ps == <<p>>
<1>4. ps \in Seq(Seq(T)) /\ Len(ps) = 1 /\ ps[1] = p
  <2> HIDE DEF p
  <2> QED
    BY <1>2
<1> HIDE DEF ps, cut
<1>5. CutFrom(ps, s, k)
  <2>1. \A i \in 1..Len(ps) : i = 1 /\ i - 1 = 0
    BY <1>4
  <2>2. \A i \in 1..Len(ps) :
           /\ cut[i - 1] < cut[i]
           /\ ps[i] = SubSeq(s, cut[i - 1] + 1, cut[i] - 1)
           /\ Commas(ps[i]) = {}
           /\ cut[i] \in Commas(s) \/ i = Len(ps)
    BY <2>1, <1>2, <1>3, <1>4
  <2> HIDE DEF p
  <2> QED
    BY <2>2, <1>3, <1>4 DEF CutFrom
<1> QED
  BY <1>4, <1>5 DEF ps, From

LEMMA OnePieceMore ==
  ASSUME NEW T, NEW s \in Seq(T), NEW k \in 1..Len(s) + 1, NEW n \in k..Len(s), n \in Commas(s),
         \A i \in k..n - 1 : i \notin Commas(s),
         NEW rest \in Seq(Seq(T)), CutFrom(rest, s, n + 1)
  PROVE  <<Before(s, k, n)>> \o rest \in Seq(Seq(T)) /\ CutFrom(<<Before(s, k, n)>> \o rest, s, k)
<1> DEFINE p == SubSeq(s, k, n - 1)
           M == Len(rest)
           ps == <<p>> \o rest
<1>1. Len(s) \in Nat /\ M \in Nat /\ n \in Nat /\ DOMAIN s = 1..Len(s)
  OBVIOUS
<1>2. /\ n - 1 \in 0..Len(s) /\ k <= (n - 1) + 1 /\ n \in 1..Len(s) /\ (n + 1) - 1 = n
      /\ k - 1 \in 0..Len(s) + 1 /\ k - 1 < n /\ (k - 1) + 1 = k
  BY <1>1
<1>3. p \in Seq(T) /\ Commas(p) = {}
  BY <1>2, PieceOf, NoCommas
<1> HIDE DEF p
<1>4. /\ ps \in Seq(Seq(T)) /\ Len(ps) = M + 1 /\ ps[1] = p
      /\ \A i \in 2..M + 1 : ps[i] = rest[i - 1]
  <2>1. <<p>> \in Seq(Seq(T)) /\ Len(<<p>>) = 1 /\ <<p>>[1] = p
    BY <1>3
  <2>2. /\ ps \in Seq(Seq(T)) /\ Len(ps) = 1 + M
        /\ \A i \in 1..1 + M : ps[i] = IF i <= 1 THEN <<p>>[i] ELSE rest[i - 1]
    BY <2>1, ConcatProperties
  <2>3. 1 \in 1..1 + M /\ 1 + M = M + 1 /\ \A i \in 2..M + 1 : i \in 1..1 + M /\ ~(i <= 1)
    BY <1>1
  <2> HIDE DEF ps, M
  <2> QED
    BY <2>1, <2>2, <2>3
<1>5. PICK cut \in [0..M -> 0..Len(s) + 1] :
         /\ cut[0] = n /\ cut[M] = Len(s) + 1
         /\ \A i \in 1..M :
             /\ cut[i - 1] < cut[i]
             /\ rest[i] = SubSeq(s, cut[i - 1] + 1, cut[i] - 1)
             /\ Commas(rest[i]) = {}
             /\ cut[i] \in Commas(s) \/ i = M
  BY <1>2 DEF CutFrom
<1> HIDE DEF ps, M
<1> DEFINE more == [i \in 0..M + 1 |-> IF i = 0 THEN k - 1 ELSE cut[i - 1]]
<1>6. /\ more \in [0..M + 1 -> 0..Len(s) + 1]
      /\ more[0] = k - 1
      /\ \A i \in 1..M + 1 : more[i] = cut[i - 1]
  <2>1. \A i \in 0..M + 1 : i # 0 => i - 1 \in 0..M
    BY <1>1
  <2>2. \A i \in 0..M + 1 : i # 0 => cut[i - 1] \in 0..Len(s) + 1
    BY <2>1, <1>5
  <2>3. \A i \in 1..M + 1 : i \in 0..M + 1 /\ i # 0
    BY <1>1
  <2>4. 0 \in 0..M + 1
    BY <1>1
  <2> QED
    BY <2>2, <2>3, <2>4, <1>2
<1> HIDE DEF more
<1>7. more[1] = n /\ more[M + 1] = Len(s) + 1
  <2>1. 1 \in 1..M + 1 /\ M + 1 \in 1..M + 1 /\ (M + 1) - 1 = M /\ 1 - 1 = 0
    BY <1>1
  <2> QED
    BY <2>1, <1>5, <1>6
<1>8. M # 0
  <2> SUFFICES ASSUME M = 0 PROVE FALSE
    OBVIOUS
  <2>1. n = Len(s) + 1
    BY <1>5
  <2> QED
    BY <2>1, <1>1, <1>2
<1>9. ASSUME NEW i \in 1..M + 1
      PROVE  /\ more[i - 1] < more[i]
             /\ ps[i] = SubSeq(s, more[i - 1] + 1, more[i] - 1)
             /\ Commas(ps[i]) = {}
             /\ more[i] \in Commas(s) \/ i = M + 1
  <2>1. CASE i = 1
    <3>1. i - 1 = 0
      BY <2>1
    <3>3. ps[1] = SubSeq(s, more[0] + 1, more[1] - 1)
      BY <1>2, <1>4, <1>6, <1>7 DEF p
    <3> QED
      BY <2>1, <3>1, <3>3, <1>2, <1>3, <1>4, <1>6, <1>7
  <2>2. CASE i \in 2..M + 1
    <3>1. i - 1 \in 1..M /\ i - 1 \in 1..M + 1 /\ (i - 1 = M => i = M + 1)
      BY <2>2, <1>1
    <3>2. more[i] = cut[i - 1] /\ more[i - 1] = cut[(i - 1) - 1] /\ ps[i] = rest[i - 1]
      BY <2>2, <3>1, <1>4, <1>6
    <3> QED
      BY <3>1, <3>2, <1>5
  <2>3. i = 1 \/ i \in 2..M + 1
    BY <1>1
  <2> QED
    BY <2>1, <2>2, <2>3
<1>10. CutFrom(ps, s, k)
  BY <1>4, <1>6, <1>7, <1>9 DEF CutFrom
<1> QED
  BY <1>4, <1>10 DEF ps, p, Before

LEMMA DividedAtCommas ==
  ASSUME NEW T, NEW s \in Seq(T)
  PROVE  inner_div(s) \in Seq(Seq(T)) /\ CutAtCommas(inner_div(s), s)
<1>1. PICK values : Divided(s, values) /\ inner_div(s) = values[1]
  BY InnerDivDef
<1> DEFINE N == Len(s) + 1
           Good(i) == values[i] \in Seq(Seq(T)) /\ CutFrom(values[i], s, i)
           S == {m \in Nat : \A i \in 1..N : N - m <= i => Good(i)}
<1>2. Len(s) \in Nat /\ N \in Nat
  OBVIOUS
<1>3. \A i \in 1..N : values[i] =
         LET n == Find(s, ",", i)
         IN  IF n = 0 THEN <<From(s, i)>> ELSE <<Before(s, i, n)>> \o values[n + 1]
  BY <1>1 DEF Divided
<1>4. ASSUME NEW i \in 1..N,
             \A j \in 1..N : i < j => Good(j)
      PROVE  Good(i)
  <2>1. PICK n : n = Find(s, ",", i)
    OBVIOUS
  <2>2. \/ n = 0 /\ \A j \in i..Len(s) : s[j] # ","
        \/ /\ n \in i..Len(s) /\ s[n] = ","
           /\ \A j \in i..n - 1 : s[j] # ","
    <3>1. i \in Nat \ {0}
      BY <1>2
    <3> QED
      BY <2>1, <3>1, <1>2, FindIs
  <2>3. CASE n = 0 /\ \A j \in i..Len(s) : s[j] # ","
    <3>1. values[i] = <<From(s, i)>>
      BY <2>1, <2>3, <1>3
    <3>2. \A j \in i..Len(s) : j \notin Commas(s)
      BY <2>3, Zenon DEF Commas
    <3> QED
      BY <3>1, <3>2, LastPiece
  <2>4. CASE n \in i..Len(s) /\ s[n] = "," /\ \A j \in i..n - 1 : s[j] # ","
    <3>1. n # 0 /\ n + 1 \in 1..N /\ i < n + 1
      <4>1. n \in i..Len(s)
        BY <2>4
      <4> QED
        BY <4>1, <1>2
    <3>2. values[i] = <<Before(s, i, n)>> \o values[n + 1]
      BY <2>1, <3>1, <1>3
    <3>3. values[n + 1] \in Seq(Seq(T)) /\ CutFrom(values[n + 1], s, n + 1)
      BY <3>1, <1>4
    <3> QED
      <4>1. n \in DOMAIN s
        <5>1. n \in i..Len(s)
          BY <2>4
        <5> QED
          BY <5>1, <1>2
      <4>2. n \in Commas(s) /\ \A j \in i..n - 1 : j \notin Commas(s)
        BY <4>1, <2>4, Zenon DEF Commas
      <4>3. n \in i..Len(s)
        BY <2>4
      <4> QED
        BY <4>2, <4>3, <3>2, <3>3, OnePieceMore
  <2> QED
    BY <2>2, <2>3, <2>4
<1>5. 0 \in S
  <2>1. ASSUME NEW i \in 1..N, N - 0 <= i PROVE Good(i)
    <3>1. \A j \in 1..N : ~(i < j)
      BY <2>1, <1>2
    <3> HIDE DEF Good
    <3> QED
      BY <3>1, <1>4
  <2> HIDE DEF Good
  <2> QED
    BY <2>1
<1>6. ASSUME NEW m \in Nat, m \in S PROVE m + 1 \in S
  <2>1. ASSUME NEW i \in 1..N, N - (m + 1) <= i PROVE Good(i)
    <3>1. \A j \in 1..N : i < j => N - m <= j
      BY <2>1, <1>2
    <3>2. \A j \in 1..N : i < j => Good(j)
      <4> HIDE DEF Good
      <4> QED
        BY <3>1, <1>6
    <3> HIDE DEF Good
    <3> QED
      BY <3>2, <1>4
  <2>2. m + 1 \in Nat
    OBVIOUS
  <2> HIDE DEF Good
  <2> QED
    BY <2>1, <2>2
<1>7. Good(1)
  <2>1. N \in S
    <3> HIDE DEF S
    <3> QED
      BY <1>2, <1>5, <1>6, SetInduction
  <2>2. 1 \in 1..N /\ N - N <= 1
    BY <1>2
  <2> HIDE DEF Good
  <2> QED
    BY <2>1, <2>2
<1>8. inner_div(s) \in Seq(Seq(T)) /\ CutFrom(inner_div(s), s, 1)
  BY <1>1, <1>7
<1>9. 1 - 1 = 0
  OBVIOUS
<1> HIDE DEF N, Good, S
<1>10. CutAtCommas(inner_div(s), s)
  BY <1>8, <1>9, Zenon DEF CutFrom, CutAtCommas
<1> QED
  BY <1>8, <1>10

(* Its first piece is the text up to a comma.                                *)
LEMMA FirstPiece ==
  ASSUME NEW T, NEW s \in Seq(T)
  PROVE  UpToComma(Head(inner_div(s)), s)
<1> DEFINE ps == inner_div(s)
<1>1. ps \in Seq(Seq(T)) /\ CutAtCommas(ps, s)
  BY DividedAtCommas
<1> HIDE DEF ps
<1>2. PICK cut \in [0..Len(ps) -> 0..Len(s) + 1] :
       /\ cut[0] = 0 /\ cut[Len(ps)] = Len(s) + 1
       /\ \A i \in 1..Len(ps) :
             /\ cut[i - 1] < cut[i]
             /\ ps[i] = SubSeq(s, cut[i - 1] + 1, cut[i] - 1)
             /\ Commas(ps[i]) = {}
             /\ cut[i] \in Commas(s) \/ i = Len(ps)
  BY <1>1 DEF CutAtCommas
<1>3. Len(s) \in Nat /\ Len(ps) \in Nat /\ DOMAIN s = 1..Len(s)
  BY <1>1
<1>4. Len(ps) # 0
  <2> SUFFICES ASSUME Len(ps) = 0 PROVE FALSE
    OBVIOUS
  <2>1. 0 = Len(s) + 1
    BY <1>2
  <2> QED
    BY <2>1, <1>3
<1>5. 1 \in 1..Len(ps) /\ 1 \in 0..Len(ps) /\ 1 - 1 = 0
  BY <1>3, <1>4
<1> DEFINE c == cut[1]
           p == Head(ps)
<1>6. /\ c \in 0..Len(s) + 1 /\ 0 < c
      /\ p = SubSeq(s, 0 + 1, c - 1) /\ Commas(p) = {}
      /\ c \in Commas(s) \/ c = Len(s) + 1
  <2>1. p = ps[1]
    BY <1>1, <1>4
  <2>2. cut[0] < cut[1] /\ ps[1] = SubSeq(s, cut[0] + 1, cut[1] - 1) /\ Commas(ps[1]) = {}
        /\ (cut[1] \in Commas(s) \/ 1 = Len(ps))
    BY <1>2, <1>5
  <2> QED
    BY <2>1, <2>2, <1>2, <1>5
<1> HIDE DEF c, p
<1>7. /\ c - 1 \in 0..Len(s) /\ (c - 1) - 1 + 1 = c - 1 /\ 1 <= (c - 1) + 1 /\ 0 + 1 = 1
      /\ 1 \in 1..Len(s) + 1 /\ (c - 1) + 1 = c /\ c - 1 <= Len(s)
  BY <1>3, <1>6
<1>8. p = SubSeq(s, 1, c - 1)
  BY <1>6, <1>7
<1>9. /\ p \in Seq(T) /\ Len(p) = c - 1
      /\ \A i \in 1..c - 1 : p[i] = s[1 + i - 1]
  <2>1. /\ SubSeq(s, 1, c - 1) \in Seq(T)
        /\ Len(SubSeq(s, 1, c - 1)) = (c - 1) - 1 + 1
        /\ \A i \in 1..(c - 1) - 1 + 1 : SubSeq(s, 1, c - 1)[i] = s[1 + i - 1]
    BY <1>7, PieceOf
  <2> QED
    BY <2>1, <1>7, <1>8
<1>10. SubSeq(p, 1, Len(p)) = p
  <2>1. Len(p) \in Nat /\ 1 \in 1..Len(p) + 1 /\ 1 - 1 + Len(p) <= Len(p) /\ 1 - 1 + Len(p) = Len(p)
        /\ \A i \in 1..Len(p) : p[1 - 1 + i] = p[i]
    BY <1>9
  <2> QED
    BY <2>1, <1>9, PieceIs
<1>11. IsPrefix(p, s)
  BY <1>7, <1>8, <1>9, <1>10 DEF IsPrefix
<1>12. Len(p) + 1 \notin DOMAIN s \ Commas(s)
  <2>1. Len(p) + 1 = c
    BY <1>7, <1>9
  <2>2. Len(s) + 1 \notin 1..Len(s)
    BY <1>3
  <2> QED
    BY <2>1, <2>2, <1>3, <1>6
<1> QED
  BY <1>6, <1>11, <1>12 DEF UpToComma, p, ps

(* So does getKeyValuePair.                                                  *)
Paired(s, out) ==
    out = [i \in 1..Len(s) + 1 |->
            IF KeyEnd(s, i) = 0 THEN <<>>
            ELSE Pair(Key(s, i), Values(s, i),
                      IF ValuesEnd(s, i) = 0 THEN <<>> ELSE out[ValuesEnd(s, i) + 1])]

(* The pairs a text may give.                                                *)
PairsOf(T) == {<<>>} \cup UNION {[D -> Seq(Seq(T))] : D \in SUBSET Seq(T)}

LEMMA PairTypes ==
  ASSUME NEW T, NEW key \in Seq(T), NEW values \in Seq(Seq(T)), NEW rest \in PairsOf(T)
  PROVE  Pair(key, values, rest) \in PairsOf(T)
<1> DEFINE D == {key} \cup DOMAIN rest
           f == [k \in D |-> IF k \in DOMAIN rest THEN rest[k] ELSE values]
<1>1. DOMAIN rest \subseteq Seq(T) /\ \A k \in DOMAIN rest : rest[k] \in Seq(Seq(T))
  <2>1. CASE rest = <<>>
    <3>1. DOMAIN rest = {}
      BY <2>1
    <3> QED
      BY <3>1
  <2>2. CASE rest # <<>>
    <3>1. PICK E \in SUBSET Seq(T) : rest \in [E -> Seq(Seq(T))]
      BY <2>2 DEF PairsOf
    <3> QED
      BY <3>1
  <2> QED
    BY <2>1, <2>2
<1>2. D \in SUBSET Seq(T) /\ f \in [D -> Seq(Seq(T))]
  BY <1>1
<1>3. f \in PairsOf(T)
  <2> HIDE DEF D, f
  <2> QED
    BY <1>2 DEF PairsOf
<1> QED
  BY <1>3 DEF Pair

LEMMA BeforeTypes ==
  ASSUME NEW T, NEW s \in Seq(T), NEW i \in 1..Len(s) + 1, NEW n \in i..Len(s)
  PROVE  /\ Before(s, i, n) \in Seq(T)
         /\ From(s, i) \in Seq(T) /\ From(s, n + 1) \in Seq(T)
         /\ n + 1 \in 1..Len(s) + 1 /\ n \in Nat \ {0}
<1>1. Len(s) \in Nat
  OBVIOUS
<1>2. /\ n - 1 \in 0..Len(s) /\ i <= (n - 1) + 1 /\ Len(s) \in 0..Len(s) /\ i <= Len(s) + 1
      /\ n + 1 \in 1..Len(s) + 1 /\ n + 1 <= Len(s) + 1 /\ n \in Nat \ {0}
  BY <1>1
<1> QED
  BY <1>2, PieceOf DEF Before, From

(* Where a key and its values end.                                           *)
LEMMA EndsOf ==
  ASSUME NEW T, NEW s \in Seq(T), NEW i \in 1..Len(s) + 1, KeyEnd(s, i) # 0
  PROVE  /\ Key(s, i) \in Seq(T) /\ Values(s, i) \in Seq(Seq(T))
         /\ ValuesEnd(s, i) # 0 => ValuesEnd(s, i) + 1 \in i + 1..Len(s) + 1
<1>1. Len(s) \in Nat /\ i \in Nat \ {0}
  OBVIOUS
<1>2. KeyEnd(s, i) \in i..Len(s)
  BY <1>1, FindIs DEF KeyEnd
<1>3. KeyEnd(s, i) + 1 \in Nat \ {0} /\ KeyEnd(s, i) + 1 \in 1..Len(s) + 1
  BY <1>1, <1>2
<1>4. ValuesEnd(s, i) = 0 \/ ValuesEnd(s, i) \in KeyEnd(s, i) + 1..Len(s)
  BY <1>1, <1>3, FindIs DEF ValuesEnd
<1>5. Key(s, i) \in Seq(T) /\ From(s, KeyEnd(s, i) + 1) \in Seq(T)
  BY <1>2, BeforeTypes DEF Key
<1>6. ValuesEnd(s, i) # 0 => Before(s, KeyEnd(s, i) + 1, ValuesEnd(s, i)) \in Seq(T)
  BY <1>3, <1>4, BeforeTypes
<1>7. Values(s, i) \in Seq(Seq(T))
  BY <1>5, <1>6, DividedAtCommas DEF Values
<1>8. ValuesEnd(s, i) # 0 => ValuesEnd(s, i) + 1 \in i + 1..Len(s) + 1
  BY <1>1, <1>2, <1>4
<1> QED
  BY <1>5, <1>7, <1>8

LEMMA PairsDef ==
  ASSUME NEW T, NEW s \in Seq(T)
  PROVE  \E out : /\ Paired(s, out)
                  /\ getKeyValuePair(s) =
                        IF Find(s, "?", 1) = 0 THEN <<>> ELSE out[Find(s, "?", 1) + 1]
<1> DEFINE N == Len(s) + 1
           V == PairsOf(T)
           over(i) == KeyEnd(s, i) = 0 \/ ValuesEnd(s, i) = 0
           nxt == [i \in 1..N |-> IF over(i) THEN 0 ELSE ValuesEnd(s, i) + 1]
           base == [i \in 1..N |->
                      IF KeyEnd(s, i) = 0 THEN <<>> ELSE Pair(Key(s, i), Values(s, i), <<>>)]
           step == [i \in 1..N |->
                      [v \in V |-> IF over(i) THEN v ELSE Pair(Key(s, i), Values(s, i), v)]]
<1>1. Len(s) \in Nat /\ N \in Nat
  OBVIOUS
<1>2. \A i \in 1..N : KeyEnd(s, i) # 0 =>
         /\ Key(s, i) \in Seq(T) /\ Values(s, i) \in Seq(Seq(T))
         /\ ValuesEnd(s, i) # 0 => ValuesEnd(s, i) + 1 \in i + 1..N
  BY EndsOf
<1>3. base \in [1..N -> V]
  <2>1. <<>> \in V
    BY DEF PairsOf
  <2>2. \A i \in 1..N :
          (IF KeyEnd(s, i) = 0 THEN <<>> ELSE Pair(Key(s, i), Values(s, i), <<>>)) \in V
    <3> HIDE DEF N
    <3> QED
      BY <2>1, <1>2, PairTypes
  <2> HIDE DEF V, N
  <2> QED
    BY <2>2
<1>4. step \in [1..N -> [V -> V]]
  <2>1. \A i \in 1..N : \A v \in V :
           (IF over(i) THEN v ELSE Pair(Key(s, i), Values(s, i), v)) \in V
    <3> HIDE DEF N
    <3> QED
      BY <1>2, PairTypes
  <2> HIDE DEF V, N, over
  <2> QED
    BY <2>1
<1>5. nxt \in [1..N -> Nat] /\ Later(N, nxt)
  <2>1. \A i \in 1..N : nxt[i] = IF over(i) THEN 0 ELSE ValuesEnd(s, i) + 1
    <3> HIDE DEF N, over
    <3> QED
      OBVIOUS
  <2>2. nxt = [i \in 1..N |-> nxt[i]]
    <3> HIDE DEF N, over
    <3> QED
      OBVIOUS
  <2> HIDE DEF nxt
  <2>3. \A i \in 1..N : nxt[i] # 0 => nxt[i] \in i + 1..N
    <3> HIDE DEF N
    <3> QED
      BY <2>1, <1>2
  <2>4. \A i \in 1..N : \A k \in i + 1..N : k \in Nat
    BY <1>1
  <2>5. \A i \in 1..N : nxt[i] \in Nat
    BY <2>3, <2>4
  <2> HIDE DEF N
  <2> QED
    BY <2>2, <2>3, <2>5 DEF Later
<1>6. PICK out \in [1..N -> V] : Fits(out, N, base, nxt, step)
  <2> HIDE DEF N, V, nxt, base, step
  <2>1. N \in Nat /\ nxt \in [1..N -> Nat] /\ Later(N, nxt)
    BY <1>1, <1>5
  <2>2. Exists(N, V, base, nxt, step)
    BY <2>1, <1>3, <1>4, FromTheEnd
  <2> QED
    BY <2>2 DEF Exists
<1>7. ASSUME NEW i \in 1..N
      PROVE  out[i] = IF KeyEnd(s, i) = 0 THEN <<>>
                      ELSE Pair(Key(s, i), Values(s, i),
                                IF ValuesEnd(s, i) = 0 THEN <<>> ELSE out[ValuesEnd(s, i) + 1])
  <2>1. out[i] = IF nxt[i] = 0 THEN base[i] ELSE step[i][out[nxt[i]]]
    BY <1>6 DEF Fits
  <2>2. CASE KeyEnd(s, i) = 0
    <3>1. nxt[i] = 0 /\ base[i] = <<>>
      <4> HIDE DEF N
      <4> QED
        BY <2>2
    <3> HIDE DEF nxt, base, step
    <3> QED
      BY <3>1, <2>1, <2>2
  <2>3. CASE KeyEnd(s, i) # 0 /\ ValuesEnd(s, i) = 0
    <3>1. nxt[i] = 0 /\ base[i] = Pair(Key(s, i), Values(s, i), <<>>)
      <4> HIDE DEF N
      <4> QED
        BY <2>3
    <3> HIDE DEF nxt, base, step
    <3> QED
      BY <3>1, <2>1, <2>3
  <2>4. CASE KeyEnd(s, i) # 0 /\ ValuesEnd(s, i) # 0
    <3>1. ValuesEnd(s, i) + 1 \in i + 1..N
      BY <1>2, <2>4
    <3>2. ValuesEnd(s, i) + 1 \in 1..N /\ ValuesEnd(s, i) + 1 # 0
      BY <3>1, <1>1
    <3>3. nxt[i] = ValuesEnd(s, i) + 1
      <4> HIDE DEF N
      <4> QED
        BY <2>4
    <3>4. out[ValuesEnd(s, i) + 1] \in V
      <4> HIDE DEF N, V
      <4> QED
        BY <3>2, <1>6
    <3>5. step[i][out[ValuesEnd(s, i) + 1]] =
             Pair(Key(s, i), Values(s, i), out[ValuesEnd(s, i) + 1])
      <4> HIDE DEF N, V
      <4> QED
        BY <3>4, <2>4
    <3> HIDE DEF nxt, base, step
    <3> QED
      BY <3>2, <3>3, <3>5, <2>1, <2>4
  <2> QED
    BY <2>2, <2>3, <2>4
<1>8. Paired(s, out)
  <2>1. out = [i \in 1..N |-> out[i]]
    BY <1>6
  <2> QED
    BY <2>1, <1>7 DEF Paired
<1>9. \E o : Paired(s, o)
  BY <1>8
<1> QED
  BY <1>9, Zenon DEF getKeyValuePair, Paired

(* The places of a symbol in a text.                                         *)
At(s, c) == {i \in DOMAIN s : s[i] = c}

LEMMA FindsAt ==
  ASSUME NEW T, NEW s \in Seq(T), NEW c, NEW from \in Nat \ {0},
         NEW n \in from..Len(s), n \in At(s, c), \A i \in from..n - 1 : i \notin At(s, c)
  PROVE  Find(s, c, from) = n
<1>1. Len(s) \in Nat /\ DOMAIN s = 1..Len(s)
  OBVIOUS
<1>2. \A i \in from..n - 1 : i \in DOMAIN s
  BY <1>1
<1>3. s[n] = c /\ \A i \in from..n - 1 : s[i] # c
  BY <1>2 DEF At
<1> QED
  BY <1>1, <1>3, FindAt

LEMMA FindsNone ==
  ASSUME NEW T, NEW s \in Seq(T), NEW c, NEW from \in Nat \ {0},
         \A i \in from..Len(s) : i \notin At(s, c)
  PROVE  Find(s, c, from) = 0
<1>1. Len(s) \in Nat /\ DOMAIN s = 1..Len(s)
  OBVIOUS
<1>2. \A i \in from..Len(s) : i \in DOMAIN s
  BY <1>1
<1>3. \A i \in from..Len(s) : s[i] # c
  BY <1>2 DEF At
<1> QED
  BY <1>1, <1>3, FindNone

(* A text of four parts.                                                     *)
HasParts(s, a, b, c, d) ==
    /\ Len(s) = Len(a) + Len(b) + Len(c) + Len(d)
    /\ \A i \in 1..Len(a) : s[i] = a[i]
    /\ \A i \in 1..Len(b) : s[Len(a) + i] = b[i]
    /\ \A i \in 1..Len(c) : s[Len(a) + Len(b) + i] = c[i]
    /\ \A i \in 1..Len(d) : s[Len(a) + Len(b) + Len(c) + i] = d[i]

LEMMA FourParts ==
  ASSUME NEW T, NEW a \in Seq(T), NEW b \in Seq(T), NEW c \in Seq(T), NEW d \in Seq(T)
  PROVE  /\ ((a \o b) \o c) \o d \in Seq(T)
         /\ HasParts(((a \o b) \o c) \o d, a, b, c, d)
<1> DEFINE s == ((a \o b) \o c) \o d
<1>1. ASSUME NEW x \in Seq(T), NEW y \in Seq(T), NEW z, z = x \o y
      PROVE  /\ z \in Seq(T) /\ Len(z) = Len(x) + Len(y)
             /\ \A i \in 1..Len(x) : z[i] = x[i]
             /\ \A i \in 1..Len(y) : z[Len(x) + i] = y[i]
  <2>1. /\ z \in Seq(T) /\ Len(z) = Len(x) + Len(y)
        /\ \A i \in 1..Len(x) + Len(y) : z[i] = IF i <= Len(x) THEN x[i] ELSE y[i - Len(x)]
    BY <1>1, ConcatProperties
  <2>2. Len(x) \in Nat /\ Len(y) \in Nat
    OBVIOUS
  <2>3. \A i \in 1..Len(x) : i \in 1..Len(x) + Len(y) /\ i <= Len(x)
    BY <2>2
  <2>4. \A i \in 1..Len(y) : /\ Len(x) + i \in 1..Len(x) + Len(y)
                             /\ ~(Len(x) + i <= Len(x)) /\ (Len(x) + i) - Len(x) = i
    BY <2>2
  <2>5. \A i \in 1..Len(x) : z[i] = x[i]
    BY <2>1, <2>3
  <2>6. \A i \in 1..Len(y) : z[Len(x) + i] = y[i]
    BY <2>1, <2>4
  <2> QED
    BY <2>1, <2>5, <2>6
<1>2. PICK ab : ab = a \o b
  OBVIOUS
<1>3. /\ ab \in Seq(T) /\ Len(ab) = Len(a) + Len(b)
      /\ \A i \in 1..Len(a) : ab[i] = a[i]
      /\ \A i \in 1..Len(b) : ab[Len(a) + i] = b[i]
  BY <1>1, <1>2
<1>4. PICK abc : abc = ab \o c
  OBVIOUS
<1>5. /\ abc \in Seq(T) /\ Len(abc) = Len(ab) + Len(c)
      /\ \A i \in 1..Len(ab) : abc[i] = ab[i]
      /\ \A i \in 1..Len(c) : abc[Len(ab) + i] = c[i]
  <2>1. ab \in Seq(T)
    BY <1>3
  <2> QED
    BY <1>1, <1>4, <2>1
<1>6. s = abc \o d
  BY <1>2, <1>4
<1> HIDE DEF s
<1>7. /\ s \in Seq(T) /\ Len(s) = Len(abc) + Len(d)
      /\ \A i \in 1..Len(abc) : s[i] = abc[i]
      /\ \A i \in 1..Len(d) : s[Len(abc) + i] = d[i]
  <2>1. abc \in Seq(T)
    BY <1>5
  <2> QED
    BY <1>1, <1>6, <2>1
<1>8. Len(a) \in Nat /\ Len(b) \in Nat /\ Len(c) \in Nat /\ Len(d) \in Nat
  OBVIOUS
<1>9. Len(s) = Len(a) + Len(b) + Len(c) + Len(d)
  BY <1>3, <1>5, <1>7, <1>8
<1>10. \A i \in 1..Len(a) : s[i] = a[i]
  <2>1. \A i \in 1..Len(a) : i \in 1..Len(ab) /\ i \in 1..Len(abc)
    BY <1>3, <1>5, <1>8
  <2> QED
    BY <2>1, <1>3, <1>5, <1>7
<1>11. \A i \in 1..Len(b) : s[Len(a) + i] = b[i]
  <2>1. \A i \in 1..Len(b) : Len(a) + i \in 1..Len(ab) /\ Len(a) + i \in 1..Len(abc)
    BY <1>3, <1>5, <1>8
  <2> QED
    BY <2>1, <1>3, <1>5, <1>7
<1>12. \A i \in 1..Len(c) : s[Len(a) + Len(b) + i] = c[i]
  <2>1. \A i \in 1..Len(c) : Len(ab) + i \in 1..Len(abc)
    BY <1>3, <1>5, <1>8
  <2> QED
    BY <2>1, <1>3, <1>5, <1>7
<1>13. \A i \in 1..Len(d) : s[Len(a) + Len(b) + Len(c) + i] = d[i]
  BY <1>3, <1>5, <1>7
<1>14. s \in Seq(T) /\ HasParts(s, a, b, c, d)
  BY <1>7, <1>9, <1>10, <1>11, <1>12, <1>13 DEF HasParts
<1> QED
  BY <1>14 DEF s

(* A piece of one symbol.                                                    *)
LEMMA OneSymbol ==
  ASSUME NEW T, NEW s \in Seq(T), NEW k \in 1..Len(s)
  PROVE  SubSeq(s, k, k) = <<s[k]>>
<1> DEFINE p == SubSeq(s, k, k)
           q == <<s[k]>>
<1>1. k \in 1..Len(s) + 1 /\ k \in 0..Len(s) /\ k <= k + 1 /\ k - k + 1 = 1 /\ k + 1 - 1 = k
  OBVIOUS
<1>2. /\ p \in Seq(T) /\ Len(p) = 1
      /\ \A i \in 1..1 : p[i] = s[k + i - 1]
  BY <1>1, PieceOf
<1>3. p[1] = s[k] /\ s[k] \in T
  BY <1>1, <1>2
<1>4. q \in Seq(T) /\ Len(q) = 1 /\ q[1] = s[k]
  BY <1>3
<1> HIDE DEF p, q
<1>5. \A i \in 1..Len(p) : p[i] = q[i]
  BY <1>2, <1>3, <1>4
<1>6. p = q
  BY <1>2, <1>4, <1>5, SeqEqual
<1> QED
  BY <1>6 DEF p, q

(* One pair, and the others.                                                 *)
LEMMA PairIs ==
  ASSUME NEW k, NEW v, NEW r
  PROVE  /\ k \in DOMAIN Pair(k, v, r)
         /\ \A x \in DOMAIN r : x \in DOMAIN Pair(k, v, r) /\ Pair(k, v, r)[x] = r[x]
         /\ Pair(k, v, <<>>)[k] = v
<1>1. DOMAIN <<>> = {}
  OBVIOUS
<1> QED
  BY <1>1 DEF Pair

(* What the texts are made of.                                               *)
TextSymbol ==
    Symbol \cup {"/", "?", "=", "&", "Alias", "SysSetMethod", "ImgRetransmission",
                 "FromAlisa", "ToAlisa"}

LEMMA TextOf ==
  ASSUME NEW s \in Seq(Symbol)
  PROVE  s \in Seq(TextSymbol)
<1>1. Symbol \subseteq TextSymbol
  BY DEF TextSymbol
<1> QED
  BY <1>1, SeqMonotonic

LEMMA NoAnd ==
  ASSUME NEW T, NEW s \in Seq(T), "&" \notin ToSet(s)
  PROVE  \A i \in 1..Len(s) : i \in DOMAIN s /\ s[i] # "&"
<1>1. DOMAIN s = 1..Len(s)
  OBVIOUS
<1>2. \A i \in DOMAIN s : s[i] # "&"
  BY Zenon DEF ToSet
<1> QED
  BY <1>1, <1>2

(* The server reads the name in the address up to a comma.                   *)
LEMMA UriRead ==
  ASSUME NEW name \in Seq(Symbol), "&" \notin ToSet(name)
  PROVE  First(Uri(name), <<"Alias">>) = Head(inner_div(name))
<1> DEFINE a == <<"/", "?", "Alias", "=">>
           T == TextSymbol
           L == Len(name)
<1>1. a \in Seq(T) /\ Len(a) = 4
  BY DEF TextSymbol
<1>2. a[1] # "?" /\ a[2] = "?" /\ a[3] = "Alias" /\ a[3] # "=" /\ a[4] = "="
  OBVIOUS
<1> HIDE DEF a
<1>3. name \in Seq(T) /\ <<>> \in Seq(T) /\ L \in Nat
  BY TextOf
<1>4. PICK s : s = a \o name
  OBVIOUS
<1>5. /\ s \in Seq(T) /\ Len(s) = 4 + L
      /\ \A i \in 1..4 : s[i] = a[i]
      /\ \A i \in 1..L : s[4 + i] = name[i]
  <2>1. /\ a \o name \in Seq(T) /\ Len(a \o name) = Len(a) + Len(name)
        /\ \A i \in 1..Len(a) + Len(name) :
              (a \o name)[i] = IF i <= Len(a) THEN a[i] ELSE name[i - Len(a)]
    BY <1>1, <1>3, ConcatProperties
  <2>2. \A i \in 1..4 : i \in 1..4 + L /\ i <= 4
    BY <1>3
  <2>3. \A i \in 1..L : 4 + i \in 1..4 + L /\ ~(4 + i <= 4) /\ (4 + i) - 4 = i
    BY <1>3
  <2> HIDE DEF L, T
  <2>4. Len(name) = L
    BY DEF L
  <2> QED
    BY <2>1, <2>2, <2>3, <2>4, <1>1, <1>4
<1> HIDE DEF T
<1>6. DOMAIN s = 1..4 + L /\ 1 \in DOMAIN s /\ 2 \in DOMAIN s /\ 3 \in DOMAIN s /\ 4 \in DOMAIN s
  <2>1. DOMAIN s = 1..Len(s)
    BY <1>5
  <2> QED
    BY <2>1, <1>3, <1>5
<1>7. s[1] = a[1] /\ s[2] = a[2] /\ s[3] = a[3] /\ s[4] = a[4]
  BY <1>5
<1>8. 1 \notin At(s, "?") /\ 2 \in At(s, "?") /\ 3 \notin At(s, "=") /\ 4 \in At(s, "=")
  BY <1>2, <1>6, <1>7, Zenon DEF At
<1>9. \A i \in 5..4 + L : i \notin At(s, "&")
  <2>1. ASSUME NEW i \in 5..4 + L PROVE s[i] # "&"
    <3>1. i - 4 \in 1..L /\ 4 + (i - 4) = i
      BY <1>3
    <3>2. s[i] = name[i - 4]
      BY <3>1, <1>5
    <3>3. name[i - 4] # "&"
      BY <3>1, NoAnd
    <3> QED
      BY <3>2, <3>3, Zenon
  <2> QED
    BY <2>1, Zenon DEF At
<1>10. Find(s, "?", 1) = 2
  <2>1. 2 \in 1..Len(s) /\ 1 \in Nat \ {0} /\ \A i \in 1..2 - 1 : i = 1
    BY <1>3, <1>5
  <2>2. \A i \in 1..2 - 1 : i \notin At(s, "?")
    BY <2>1, <1>8
  <2> QED
    BY <2>1, <2>2, <1>5, <1>8, FindsAt
<1>11. KeyEnd(s, 3) = 4
  <2>1. 4 \in 3..Len(s) /\ 3 \in Nat \ {0} /\ \A i \in 3..4 - 1 : i = 3
    BY <1>3, <1>5
  <2>2. \A i \in 3..4 - 1 : i \notin At(s, "=")
    BY <2>1, <1>8
  <2> QED
    BY <2>1, <2>2, <1>5, <1>8, FindsAt DEF KeyEnd
<1>12. ValuesEnd(s, 3) = 0
  <2>1. 4 + 1 = 5 /\ 5 \in Nat \ {0}
    OBVIOUS
  <2>2. Find(s, "&", 5) = 0
    BY <2>1, <1>5, <1>9, FindsNone
  <2> QED
    BY <2>1, <2>2, <1>11 DEF ValuesEnd
<1>13. Key(s, 3) = <<"Alias">>
  <2>1. SubSeq(s, 3, 3) = <<s[3]>>
    <3>1. 3 \in 1..Len(s)
      BY <1>3, <1>5
    <3> QED
      BY <3>1, <1>5, OneSymbol
  <2>2. Key(s, 3) = SubSeq(s, 3, 3)
    BY <1>11 DEF Key, Before
  <2> QED
    BY <2>1, <2>2, <1>2, <1>7, Zenon
<1>14. Values(s, 3) = inner_div(name)
  <2>1. 5 \in 1..Len(s) + 1 /\ 5 - 1 + Len(name) <= Len(s) /\ 5 - 1 + Len(name) = Len(s)
        /\ \A i \in 1..Len(name) : 5 - 1 + i = 4 + i
    BY <1>3, <1>5
  <2>2. \A i \in 1..Len(name) : s[5 - 1 + i] = name[i]
    BY <2>1, <1>5
  <2>3. SubSeq(s, 5, 5 - 1 + Len(name)) = name
    BY <2>1, <2>2, <1>3, <1>5, PieceIs
  <2>4. From(s, 4 + 1) = name
    BY <2>1, <2>3 DEF From
  <2> QED
    BY <2>4, <1>11, <1>12 DEF Values
<1>15. PICK out : /\ Paired(s, out)
                  /\ getKeyValuePair(s) =
                        IF Find(s, "?", 1) = 0 THEN <<>> ELSE out[Find(s, "?", 1) + 1]
  BY <1>5, PairsDef
<1>16. getKeyValuePair(s) = out[3]
  BY <1>10, <1>15
<1>17. out[3] = Pair(<<"Alias">>, inner_div(name), <<>>)
  <2>1. 3 \in 1..Len(s) + 1
    BY <1>3, <1>5
  <2> QED
    BY <2>1, <1>11, <1>12, <1>13, <1>14, <1>15 DEF Paired
<1>18. \A k, v : Pair(k, v, <<>>)[k] = v
  BY DEF Pair
<1>19. Uri(name) = s
  BY <1>4 DEF Uri, a
<1> QED
  BY <1>16, <1>17, <1>18, <1>19 DEF First

(* The server reads the targets in the command between the commas.           *)
LEMMA CommandRead ==
  ASSUME NEW name \in Seq(Symbol), "&" \notin ToSet(name),
         NEW to \in Seq(Symbol), "&" \notin ToSet(to)
  PROVE  Targets(Command(name, to)) = inner_div(to)
<1> DEFINE a == <<"?", "SysSetMethod", "=", "ImgRetransmission", "&", "FromAlisa", "=">>
           c == <<"&", "ToAlisa", "=">>
           T == TextSymbol
           L == Len(name)
           M == Len(to)
<1>1. a \in Seq(T) /\ Len(a) = 7
  BY DEF TextSymbol
<1>2. c \in Seq(T) /\ Len(c) = 3
  BY DEF TextSymbol
<1>3. /\ a[1] = "?" /\ a[2] # "=" /\ a[3] = "=" /\ a[4] # "&" /\ a[5] = "&"
      /\ a[6] = "FromAlisa" /\ a[6] # "=" /\ a[7] = "="
  OBVIOUS
<1>4. c[1] = "&" /\ c[2] = "ToAlisa" /\ c[2] # "=" /\ c[3] = "="
  OBVIOUS
<1> HIDE DEF a, c
<1>5. name \in Seq(T) /\ to \in Seq(T) /\ L \in Nat /\ M \in Nat
  BY TextOf
<1>6. PICK s : s = ((a \o name) \o c) \o to
  OBVIOUS
<1>7. /\ s \in Seq(T) /\ Len(s) = 7 + L + 3 + M
      /\ \A i \in 1..7 : s[i] = a[i]
      /\ \A i \in 1..L : s[7 + i] = name[i]
      /\ \A i \in 1..3 : s[7 + L + i] = c[i]
      /\ \A i \in 1..M : s[7 + L + 3 + i] = to[i]
  <2> HIDE DEF T
  <2>1. /\ s \in Seq(T) /\ Len(s) = Len(a) + Len(name) + Len(c) + Len(to)
        /\ \A i \in 1..Len(a) : s[i] = a[i]
        /\ \A i \in 1..Len(name) : s[Len(a) + i] = name[i]
        /\ \A i \in 1..Len(c) : s[Len(a) + Len(name) + i] = c[i]
        /\ \A i \in 1..Len(to) : s[Len(a) + Len(name) + Len(c) + i] = to[i]
    <3>1. s \in Seq(T) /\ HasParts(s, a, name, c, to)
      BY <1>1, <1>2, <1>5, <1>6, FourParts
    <3> QED
      BY <3>1 DEF HasParts
  <2> QED
    BY <2>1, <1>1, <1>2
<1> HIDE DEF T, L, M
<1> DEFINE p == 8 + L
<1>8. /\ p \in Nat /\ p >= 8 /\ p - 8 = L /\ 7 + L + 1 = p /\ 7 + L + 2 = p + 1 /\ 7 + L + 3 = p + 2
      /\ Len(s) = p + 2 + M
  BY <1>5, <1>7
<1>9. \A i \in 8..p - 1 : s[i] # "&"
  <2>1. ASSUME NEW i \in 8..p - 1 PROVE s[i] # "&"
    <3>1. i - 7 \in 1..L /\ 7 + (i - 7) = i
      BY <1>5
    <3>2. s[i] = name[i - 7]
      BY <3>1, <1>7
    <3>3. name[i - 7] # "&"
      BY <3>1, NoAnd DEF L
    <3> QED
      BY <3>2, <3>3, Zenon
  <2> QED
    BY <2>1
<1> HIDE DEF p
<1>10. \A i \in p + 3..Len(s) : s[i] # "&"
  <2>1. ASSUME NEW i \in p + 3..Len(s) PROVE s[i] # "&"
    <3>1. i - (p + 2) \in 1..M /\ 7 + L + 3 + (i - (p + 2)) = i
      BY <1>5, <1>8
    <3>2. s[i] = to[i - (p + 2)]
      BY <3>1, <1>7
    <3>3. to[i - (p + 2)] # "&"
      BY <3>1, NoAnd DEF M
    <3> QED
      BY <3>2, <3>3, Zenon
  <2> QED
    BY <2>1
<1>11. /\ s[1] = a[1] /\ s[2] = a[2] /\ s[3] = a[3] /\ s[4] = a[4] /\ s[5] = a[5]
       /\ s[6] = a[6] /\ s[7] = a[7]
       /\ s[p] = c[1] /\ s[p + 1] = c[2] /\ s[p + 2] = c[3]
  BY <1>7, <1>8
<1>12. /\ DOMAIN s = 1..Len(s)
       /\ 1 \in 1..Len(s) /\ 2 \in 2..Len(s) /\ 3 \in 2..Len(s) /\ 4 \in 1..Len(s)
       /\ 5 \in 4..Len(s) /\ 6 \in 6..Len(s) /\ 7 \in 6..Len(s)
       /\ p \in 8..Len(s) /\ p + 1 \in 1..Len(s) /\ p + 2 \in p + 1..Len(s)
  <2>1. DOMAIN s = 1..Len(s)
    BY <1>7
  <2> QED
    BY <2>1, <1>5, <1>8
<1>13. /\ 1 \in DOMAIN s /\ 3 \in DOMAIN s /\ 5 \in DOMAIN s /\ 7 \in DOMAIN s
       /\ p \in DOMAIN s /\ p + 2 \in DOMAIN s
  BY <1>8, <1>12
<1>14. /\ 1 \in At(s, "?") /\ 2 \notin At(s, "=") /\ 3 \in At(s, "=")
       /\ 4 \notin At(s, "&") /\ 5 \in At(s, "&") /\ 6 \notin At(s, "=") /\ 7 \in At(s, "=")
       /\ p \in At(s, "&") /\ p + 1 \notin At(s, "=") /\ p + 2 \in At(s, "=")
  BY <1>3, <1>4, <1>11, <1>13, Zenon DEF At
<1>15. /\ \A i \in 8..p - 1 : i \notin At(s, "&")
       /\ \A i \in p + 3..Len(s) : i \notin At(s, "&")
  BY <1>9, <1>10, Zenon DEF At
<1>16. Find(s, "?", 1) = 1
  <2>1. 1 \in Nat \ {0} /\ \A i \in 1..1 - 1 : FALSE
    OBVIOUS
  <2>2. \A i \in 1..1 - 1 : i \notin At(s, "?")
    BY <2>1
  <2> QED
    BY <2>1, <2>2, <1>7, <1>12, <1>14, FindsAt
<1>17. KeyEnd(s, 2) = 3 /\ ValuesEnd(s, 2) = 5
  <2>1. 2 \in Nat \ {0} /\ 4 \in Nat \ {0} /\ 3 + 1 = 4
        /\ (\A i \in 2..3 - 1 : i = 2) /\ (\A i \in 4..5 - 1 : i = 4)
    OBVIOUS
  <2>2. (\A i \in 2..3 - 1 : i \notin At(s, "=")) /\ (\A i \in 4..5 - 1 : i \notin At(s, "&"))
    BY <2>1, <1>14
  <2>3. Find(s, "=", 2) = 3
    BY <2>1, <2>2, <1>7, <1>12, <1>14, FindsAt
  <2>4. Find(s, "&", 4) = 5
    BY <2>1, <2>2, <1>7, <1>12, <1>14, FindsAt
  <2> QED
    BY <2>1, <2>3, <2>4 DEF KeyEnd, ValuesEnd
<1>18. KeyEnd(s, 6) = 7 /\ ValuesEnd(s, 6) = p
  <2>1. 6 \in Nat \ {0} /\ 8 \in Nat \ {0} /\ 7 + 1 = 8 /\ (\A i \in 6..7 - 1 : i = 6)
    OBVIOUS
  <2>2. \A i \in 6..7 - 1 : i \notin At(s, "=")
    BY <2>1, <1>14
  <2>3. Find(s, "=", 6) = 7
    BY <2>1, <2>2, <1>7, <1>12, <1>14, FindsAt
  <2>4. Find(s, "&", 8) = p
    BY <2>1, <1>7, <1>12, <1>14, <1>15, FindsAt
  <2> QED
    BY <2>1, <2>3, <2>4 DEF KeyEnd, ValuesEnd
<1>19. KeyEnd(s, p + 1) = p + 2 /\ ValuesEnd(s, p + 1) = 0
  <2>1. p + 1 \in Nat \ {0} /\ p + 3 \in Nat \ {0} /\ (p + 2) + 1 = p + 3
        /\ (\A i \in p + 1..(p + 2) - 1 : i = p + 1)
    BY <1>8
  <2>2. \A i \in p + 1..(p + 2) - 1 : i \notin At(s, "=")
    BY <2>1, <1>14
  <2>3. Find(s, "=", p + 1) = p + 2
    BY <2>1, <2>2, <1>7, <1>12, <1>14, FindsAt
  <2>4. Find(s, "&", p + 3) = 0
    BY <2>1, <1>7, <1>15, FindsNone
  <2> QED
    BY <2>1, <2>3, <2>4 DEF KeyEnd, ValuesEnd
<1>20. Key(s, 6) = <<"FromAlisa">>
  <2>1. SubSeq(s, 6, 6) = <<s[6]>>
    <3>1. 6 \in 1..Len(s)
      BY <1>5, <1>8
    <3> QED
      BY <3>1, <1>7, OneSymbol
  <2>2. Key(s, 6) = SubSeq(s, 6, 6)
    BY <1>18 DEF Key, Before
  <2> QED
    BY <2>1, <2>2, <1>3, <1>11, Zenon
<1>21. Key(s, p + 1) = <<"ToAlisa">>
  <2>1. SubSeq(s, p + 1, p + 1) = <<s[p + 1]>>
    BY <1>7, <1>12, OneSymbol
  <2>2. (p + 2) - 1 = p + 1
    BY <1>8
  <2>3. Key(s, p + 1) = SubSeq(s, p + 1, p + 1)
    BY <2>2, <1>19 DEF Key, Before
  <2> QED
    BY <2>1, <2>3, <1>4, <1>11, Zenon
<1>22. Values(s, p + 1) = inner_div(to)
  <2>1. PICK m : m = p + 3
    OBVIOUS
  <2>2. /\ m \in 1..Len(s) + 1 /\ m - 1 + M <= Len(s) /\ m - 1 + M = Len(s)
        /\ \A i \in 1..M : m - 1 + i = 7 + L + 3 + i
        /\ (p + 2) + 1 = m
    BY <2>1, <1>5, <1>8
  <2>3. \A i \in 1..M : s[m - 1 + i] = to[i]
    BY <2>2, <1>7
  <2>4. From(s, (p + 2) + 1) = to
    <3>1. Len(to) = M
      BY DEF M
    <3>2. SubSeq(s, m, m - 1 + Len(to)) = to
      BY <2>2, <2>3, <3>1, <1>5, <1>7, PieceIs
    <3> QED
      BY <2>2, <3>1, <3>2 DEF From
  <2> QED
    BY <2>4, <1>19 DEF Values
<1>23. PICK out : /\ Paired(s, out)
                  /\ getKeyValuePair(s) =
                        IF Find(s, "?", 1) = 0 THEN <<>> ELSE out[Find(s, "?", 1) + 1]
  BY <1>7, PairsDef
<1>24. getKeyValuePair(s) = out[2]
  BY <1>16, <1>23
<1>25. \A i \in 1..Len(s) + 1 : out[i] =
          IF KeyEnd(s, i) = 0 THEN <<>>
          ELSE Pair(Key(s, i), Values(s, i),
                    IF ValuesEnd(s, i) = 0 THEN <<>> ELSE out[ValuesEnd(s, i) + 1])
  BY <1>23 DEF Paired
<1>26. 2 \in 1..Len(s) + 1 /\ 6 \in 1..Len(s) + 1 /\ p + 1 \in 1..Len(s) + 1 /\ p + 2 # 0 /\ p # 0
  BY <1>5, <1>8
<1>27. out[p + 1] = Pair(<<"ToAlisa">>, inner_div(to), <<>>)
  BY <1>19, <1>21, <1>22, <1>25, <1>26
<1>28. out[6] = Pair(<<"FromAlisa">>, Values(s, 6), out[p + 1])
  BY <1>18, <1>20, <1>25, <1>26
<1>29. out[2] = Pair(Key(s, 2), Values(s, 2), out[6])
  BY <1>17, <1>25, <1>26
<1> DEFINE from == <<"FromAlisa">>
           target == <<"ToAlisa">>
<1>31. /\ out[p + 1] = Pair(target, inner_div(to), <<>>)
       /\ out[6] = Pair(from, Values(s, 6), out[p + 1])
  BY <1>27, <1>28
<1> HIDE DEF from, target
<1>32. target \in DOMAIN out[p + 1] /\ out[p + 1][target] = inner_div(to)
  BY <1>31, PairIs
<1>33. /\ {from, target} \subseteq DOMAIN out[2]
       /\ out[2][target] = inner_div(to)
  <2>1. {from, target} \subseteq DOMAIN out[6] /\ out[6][target] = inner_div(to)
    <3>1. from \in DOMAIN out[6] /\ target \in DOMAIN out[6]
      BY <1>31, <1>32, PairIs
    <3>2. out[6][target] = inner_div(to)
      BY <1>31, <1>32, PairIs
    <3> QED
      BY <3>1, <3>2
  <2>2. \A x \in DOMAIN out[6] : x \in DOMAIN out[2] /\ out[2][x] = out[6][x]
    BY <1>29, PairIs
  <2> QED
    BY <2>1, <2>2
<1>34. Command(name, to) = s
  <2>1. Command(name, to) = ((a \o name) \o c) \o to
    BY DEF Command, a, c
  <2> QED
    BY <2>1, <1>6
<1> QED
  BY <1>24, <1>33, <1>34 DEF Targets, from, target

=============================================================================
