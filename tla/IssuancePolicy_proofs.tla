----------------------- MODULE IssuancePolicy_proofs -----------------------
(***************************************************************************)
(* What the registry writes into the extension of a certificate is what    *)
(* its certificate page reads out of it, for every OID of the encoder's    *)
(* range and every set of entitlements.                                    *)
(*                                                                         *)
(* The definitions of the codec recur over numbers and sequences: facts    *)
(* about them are proved at the least number that would be an exception    *)
(* (Least).  A recursive function is shown to exist first, by the same     *)
(* argument, so that the one that CHOOSE takes has its equation.           *)
(***************************************************************************)
EXTENDS IssuancePolicy, FiniteSetTheorems, FunctionTheorems, TLAPS

\* Every set of naturals has a least element.
LEMMA Least ==
    ASSUME NEW S \in SUBSET Nat, S # {}
    PROVE  \E n \in S : \A m \in S : n <= m
<1> DEFINE R == {ss \in Nat \X Nat : ss[1] < ss[2]}
<1>1. IsWellFoundedOn(R, Nat)
  BY NatLessThanWellFounded, Zenon DEF OpToRel
<1>2. PICK n \in S : \A m \in S : ~ (<<m, n>> \in R)
  <2> HIDE DEF R
  <2>1. QED BY <1>1, WFMin
<1>3. \A m \in S : ~(m < n)
  BY <1>2
<1>4. QED BY <1>3

Base == {128, 256}

\* What division by the two bases gives.
LEMMA Division ==
    ASSUME NEW n \in Nat, NEW base \in Base
    PROVE  /\ n \div base \in Nat /\ n % base \in 0..(base - 1)
           /\ n = base * (n \div base) + (n % base)
           /\ n >= base => n \div base < n
<1>1. CASE base = 128
  BY <1>1
<1>2. CASE base = 256
  BY <1>2
<1>3. QED BY <1>1, <1>2 DEF Base

\* What the local function of Digits is to be.
IsDigits(d, n, base) ==
    d = [m \in 0..n |-> IF m < base THEN <<m>> ELSE Append(d[m \div base], m % base)]

\* The equation of the function at a number.
LEMMA DigitsAt ==
    ASSUME NEW n, NEW base, NEW d, IsDigits(d, n, base), NEW m \in 0..n
    PROVE  d[m] = IF m < base THEN <<m>> ELSE Append(d[m \div base], m % base)
BY Zenon DEF IsDigits

\* There is such a function up to any number.
LEMMA DigitsExist ==
    ASSUME NEW base \in Base
    PROVE  \A n \in Nat : \E d : IsDigits(d, n, base)
<1> DEFINE S == {n \in Nat : ~ \E d : IsDigits(d, n, base)}
<1> SUFFICES ASSUME S # {} PROVE FALSE
  OBVIOUS
<1>1. PICK n \in S : \A m \in S : n <= m
  BY Least
<1>2. CASE n < base
  <2> DEFINE d == [m \in 0..n |-> <<m>>]
  <2>1. IsDigits(d, n, base)
    BY <1>2 DEF IsDigits, Base
  <2>2. QED BY <2>1
<1>3. CASE ~(n < base)
  <2>1. n - 1 \in Nat /\ n - 1 < n
    BY <1>3 DEF Base
  <2>2. PICK g : IsDigits(g, n - 1, base)
    BY <1>1, <2>1
  <2> DEFINE d == [m \in 0..n |-> IF m = n THEN Append(g[n \div base], n % base) ELSE g[m]]
  <2>3. ASSUME NEW m \in 0..n
        PROVE  d[m] = IF m < base THEN <<m>> ELSE Append(d[m \div base], m % base)
    <3>1. m >= base => m \div base \in 0..(m - 1)
      BY Division
    <3>2. CASE m = n
      <4>1. n >= base /\ n \div base \in 0..n /\ n \div base # n
        BY <1>3, <3>1, <3>2 DEF Base
      <4>2. d[n] = Append(g[n \div base], n % base) /\ d[n \div base] = g[n \div base]
        BY <4>1
      <4>3. QED BY <1>3, <3>2, <4>2
    <3>3. CASE m # n
      <4>1. m \in 0..(n - 1)
        BY <3>3
      <4>2. g[m] = IF m < base THEN <<m>> ELSE Append(g[m \div base], m % base)
        BY <2>2, <4>1, DigitsAt, Zenon
      <4>3. m >= base => d[m \div base] = g[m \div base]
        BY <3>1, <4>1
      <4>4. QED BY <3>3, <4>2, <4>3 DEF Base
    <3>4. QED BY <3>2, <3>3
  <2>4. IsDigits(d, n, base)
    BY <2>3, Zenon DEF IsDigits
  <2>5. QED BY <2>4
<1>4. QED BY <1>2, <1>3

\* Two such functions agree where both are defined.
LEMMA DigitsUnique ==
    ASSUME NEW base \in Base, NEW n \in Nat, NEW k \in 0..n, NEW d, NEW e,
           IsDigits(d, n, base), IsDigits(e, k, base)
    PROVE  \A m \in 0..k : d[m] = e[m]
<1> DEFINE S == {m \in 0..k : d[m] # e[m]}
<1> SUFFICES ASSUME S # {} PROVE FALSE
  OBVIOUS
<1>1. PICK m \in S : \A i \in S : m <= i
  <2>1. 0..k \subseteq Nat
    OBVIOUS
  <2>2. S \in SUBSET Nat
    BY <2>1, Zenon
  <2>3. QED BY <2>2, Least, Zenon
<1>2. /\ d[m] = IF m < base THEN <<m>> ELSE Append(d[m \div base], m % base)
      /\ e[m] = IF m < base THEN <<m>> ELSE Append(e[m \div base], m % base)
  <2>1. m \in 0..n /\ m \in 0..k
    OBVIOUS
  <2>2. QED BY <2>1, DigitsAt, Zenon
<1>3. m >= base => m \div base \in 0..k /\ m \div base < m
  BY Division
<1>4. m >= base => d[m \div base] = e[m \div base]
  BY <1>1, <1>3
<1>5. QED BY <1>2, <1>4 DEF Base

\* The recursion that Digits is meant to be.
LEMMA DigitsStep ==
    ASSUME NEW base \in Base, NEW n \in Nat
    PROVE  Digits(n, base) =
               IF n < base THEN <<n>> ELSE Append(Digits(n \div base, base), n % base)
<1> DEFINE f(k) == CHOOSE d : IsDigits(d, k, base)
<1>1. \A k \in Nat : IsDigits(f(k), k, base)
  BY DigitsExist, Zenon
<1>2. \A k \in Nat : Digits(k, base) = f(k)[k]
  BY Zenon DEF Digits, IsDigits
<1> HIDE DEF f
<1>3. f(n)[n] = IF n < base THEN <<n>> ELSE Append(f(n)[n \div base], n % base)
  <2>1. n \in 0..n
    OBVIOUS
  <2>2. QED BY <1>1, <2>1, DigitsAt, Zenon
<1>4. CASE n >= base
  <2>1. n \div base \in 0..n
    BY <1>4, Division
  <2>2. f(n)[n \div base] = f(n \div base)[n \div base]
    BY <1>1, <2>1, DigitsUnique
  <2>3. ~(n < base) /\ n \div base \in Nat
    BY <1>4, <2>1 DEF Base
  <2>4. QED BY <1>2, <1>3, <2>2, <2>3, Zenon
<1>5. CASE ~(n >= base)
  BY <1>2, <1>3, <1>5 DEF Base
<1>6. QED BY <1>4, <1>5

LEMMA Appended ==
    ASSUME NEW S, NEW s \in Seq(S), NEW x \in S
    PROVE  /\ Append(s, x) \in Seq(S) /\ Len(s) \in Nat /\ Len(Append(s, x)) = Len(s) + 1
           /\ DOMAIN Append(s, x) = 1..(Len(s) + 1) /\ DOMAIN s = 1..Len(s)
           /\ \A i \in 1..Len(s) : Append(s, x)[i] = s[i]
           /\ Append(s, x)[Len(s) + 1] = x
OBVIOUS

\* Digits are below their base, and there is one at least.
LEMMA DigitsType ==
    ASSUME NEW base \in Base
    PROVE  \A n \in Nat : Digits(n, base) \in Seq(0..(base - 1)) /\ Len(Digits(n, base)) >= 1
<1> DEFINE Fits(n) == Digits(n, base) \in Seq(0..(base - 1)) /\ Len(Digits(n, base)) >= 1
           S == {n \in Nat : ~Fits(n)}
<1> SUFFICES ASSUME S # {} PROVE FALSE
  OBVIOUS
<1> HIDE DEF Fits
<1>1. PICK n \in S : \A m \in S : n <= m
  BY Least
<1>2. CASE n < base
  <2>1. Digits(n, base) = <<n>> /\ n \in 0..(base - 1)
    BY <1>2, DigitsStep DEF Base
  <2>2. <<n>> \in Seq(0..(base - 1)) /\ Len(<<n>>) >= 1
    BY <2>1
  <2>3. Fits(n)
    BY <2>1, <2>2, Zenon DEF Fits
  <2>4. QED BY <2>3
<1>3. CASE ~(n < base)
  <2>1. n \div base \in Nat /\ n \div base < n /\ n % base \in 0..(base - 1)
    BY <1>3, Division DEF Base
  <2>2. Fits(n \div base)
    BY <1>1, <2>1
  <2>3. Digits(n, base) = Append(Digits(n \div base, base), n % base)
    BY <1>3, DigitsStep
  <2>4. Fits(n)
    BY <2>1, <2>2, <2>3, Appended DEF Fits
  <2>5. QED BY <2>4
<1>4. QED BY <1>2, <1>3

\* A number below 128^3 takes at most three octets.
LEMMA DigitsShort ==
    ASSUME NEW base \in Base, NEW n \in Nat
    PROVE  /\ n < base => Len(Digits(n, base)) = 1
           /\ n < 128 * 128 * 128 => Len(Digits(n, base)) <= 3
<1>1. ASSUME NEW m \in Nat, m < base PROVE Len(Digits(m, base)) = 1
  BY <1>1, DigitsStep
<1>2. ASSUME NEW m \in Nat
      PROVE  /\ Len(Digits(m, base)) \in Nat /\ Len(Digits(m \div base, base)) \in Nat
             /\ Len(Digits(m, base)) <= Len(Digits(m \div base, base)) + 1
  <2>1. /\ m \div base \in Nat /\ m % base \in 0..(base - 1)
        /\ Digits(m \div base, base) \in Seq(0..(base - 1)) /\ Digits(m, base) \in Seq(0..(base - 1))
    BY Division, DigitsType
  <2>2. CASE m < base
    <3>1. Len(Digits(m, base)) = 1
      BY <1>1, <1>2, <2>2, Zenon
    <3>2. Len(Digits(m \div base, base)) \in Nat
      BY <2>1
    <3>3. QED BY <3>1, <3>2
  <2>3. CASE ~(m < base)
    <3>1. Digits(m, base) = Append(Digits(m \div base, base), m % base)
      BY <2>3, DigitsStep
    <3>2. QED BY <2>1, <3>1, Appended
  <2>4. QED BY <2>2, <2>3
<1>3. ASSUME n < 128 * 128 * 128 PROVE Len(Digits(n, base)) <= 3
  <2> DEFINE m == n \div base
             l == m \div base
  <2>1. m \in Nat /\ l \in Nat
    BY Division
  <2>2. l < base
    <3>1. CASE base = 128
      BY <1>3, <3>1
    <3>2. CASE base = 256
      BY <1>3, <3>2
    <3>3. QED BY <3>1, <3>2 DEF Base
  <2> HIDE DEF m, l
  <2>3. Len(Digits(l, base)) = 1
    BY <1>1, <2>1, <2>2, Zenon
  <2>4. Len(Digits(m, base)) \in Nat /\ Len(Digits(m, base)) <= Len(Digits(l, base)) + 1
    BY <1>2, <2>1, Zenon DEF l
  <2>5. Len(Digits(n, base)) \in Nat /\ Len(Digits(n, base)) <= Len(Digits(m, base)) + 1
    BY <1>2, Zenon DEF m
  <2>6. QED BY <2>3, <2>4, <2>5
<1>4. QED BY <1>1, <1>3

\* The number that digits stand for, most significant first.
Evals(s, base, n) ==
    \E v \in [0..Len(s) -> Nat] :
        /\ v[0] = 0 /\ v[Len(s)] = n
        /\ \A k \in 1..Len(s) : v[k] = base * v[k - 1] + s[k]

LEMMA DigitsValue ==
    ASSUME NEW base \in Base
    PROVE  \A n \in Nat : Evals(Digits(n, base), base, n)
<1> DEFINE S == {n \in Nat : ~Evals(Digits(n, base), base, n)}
<1> SUFFICES ASSUME S # {} PROVE FALSE
  OBVIOUS
<1>1. PICK n \in S : \A m \in S : n <= m
  BY Least
<1>2. CASE n < base
  <2>1. Digits(n, base) = <<n>>
    BY <1>2, DigitsStep
  <2> DEFINE v == [k \in 0..1 |-> IF k = 0 THEN 0 ELSE n]
  <2>2. v \in [0..1 -> Nat] /\ v[0] = 0 /\ v[1] = n /\ v[1] = base * v[0] + n
    BY DEF Base
  <2> HIDE DEF v
  <2>3. Len(<<n>>) = 1 /\ <<n>>[1] = n
    OBVIOUS
  <2>4. Evals(<<n>>, base, n)
    BY <2>2, <2>3 DEF Evals
  <2>5. QED BY <2>1, <2>4
<1>3. CASE ~(n < base)
  <2> DEFINE m == n \div base
             s == Digits(m, base)
             t == Append(s, n % base)
  <2>1. m \in Nat /\ m < n /\ n % base \in 0..(base - 1) /\ n = base * m + (n % base)
    BY <1>3, Division DEF Base
  <2>2. Evals(s, base, m)
    BY <1>1, <2>1
  <2>3. Digits(n, base) = t
    BY <1>3, DigitsStep
  <2>4. s \in Seq(0..(base - 1))
    BY <2>1, DigitsType
  <2>5. /\ Len(s) \in Nat /\ Len(t) = Len(s) + 1 /\ t[Len(s) + 1] = n % base
        /\ \A i \in 1..Len(s) : t[i] = s[i]
    BY <2>1, <2>4, Appended
  <2> HIDE DEF m, s, t
  <2>6. PICK v \in [0..Len(s) -> Nat] :
            /\ v[0] = 0 /\ v[Len(s)] = m
            /\ \A k \in 1..Len(s) : v[k] = base * v[k - 1] + s[k]
    BY <2>2 DEF Evals
  <2> DEFINE x == [k \in 0..(Len(s) + 1) |-> IF k = Len(s) + 1 THEN n ELSE v[k]]
  <2>7. x \in [0..Len(t) -> Nat] /\ x[0] = 0 /\ x[Len(t)] = n
    BY <2>5, <2>6
  <2>8. ASSUME NEW k \in 1..Len(t) PROVE x[k] = base * x[k - 1] + t[k]
    <3>1. CASE k = Len(s) + 1
      <4>1. x[k - 1] = m /\ x[k] = n /\ t[k] = n % base
        BY <2>5, <2>6, <3>1
      <4>2. QED BY <2>1, <4>1
    <3>2. CASE k # Len(s) + 1
      <4>1. k \in 1..Len(s) /\ x[k] = v[k] /\ x[k - 1] = v[k - 1] /\ t[k] = s[k]
        BY <2>5, <3>2
      <4>2. QED BY <2>6, <4>1
    <3>3. QED BY <3>1, <3>2
  <2>9. Evals(t, base, n)
    BY <2>7, <2>8 DEF Evals
  <2>10. QED BY <2>3, <2>9
<1>4. QED BY <1>2, <1>3

\* A set of places has its greatest, which Max takes.
LEMMA Greatest ==
    ASSUME NEW n \in Nat, NEW S \in SUBSET (1..n), S # {}
    PROVE  Max(S) \in S /\ \A y \in S : y <= Max(S)
<1> DEFINE T == {n - x : x \in S}
<1>0. \A x \in S : x \in 1..n /\ n - x \in Nat /\ n - x \in T
  OBVIOUS
<1>1. T \in SUBSET Nat /\ T # {}
  BY <1>0
<1>2. PICK k \in T : \A m \in T : k <= m
  BY <1>1, Least
<1>3. PICK x \in S : k = n - x
  OBVIOUS
<1>4. \A y \in S : x >= y
  <2>1. \A y \in S : n - x <= n - y
    BY <1>0, <1>2, <1>3
  <2>2. QED BY <1>0, <2>1
<1>5. Max(S) \in S /\ \A y \in S : Max(S) >= y
  BY <1>4, Zenon DEF Max
<1>6. QED BY <1>0, <1>5

\* The two folds of the decoder, over the octets of a number and of an OID.
Fed(s, b) ==
    LET v == 128 * s.value + (b % 128)
    IN IF b < 128 THEN [arcs |-> Append(s.arcs, v), value |-> 0] ELSE [s EXCEPT !.value = v]

Feed(kind, x, b) == IF kind = "number" THEN 256 * x + b ELSE Fed(x, b)
Fresh(kind)      == IF kind = "number" THEN 0 ELSE [arcs |-> <<>>, value |-> 0]

IsFold(it, kind, s, n) ==
    it = [S \in SUBSET (1..n) |->
             IF S = {} THEN Fresh(kind) ELSE Feed(kind, it[S \ {Max(S)}], s[Max(S)])]

\* The fold of the community modules, over sets of places, exists.
LEMMA FoldExists ==
    ASSUME NEW kind, NEW s
    PROVE  \A n \in Nat : \E it : IsFold(it, kind, s, n)
<1> DEFINE T == {n \in Nat : ~ \E it : IsFold(it, kind, s, n)}
<1> SUFFICES ASSUME T # {} PROVE FALSE
  OBVIOUS
<1>1. PICK n \in T : \A m \in T : n <= m
  BY Least
<1>2. CASE n = 0
  <2> DEFINE it == [S \in SUBSET (1..n) |-> Fresh(kind)]
  <2>1. \A S \in SUBSET (1..n) : S = {}
    BY <1>2
  <2>2. it = [S \in SUBSET (1..n) |->
             IF S = {} THEN Fresh(kind) ELSE Feed(kind, it[S \ {Max(S)}], s[Max(S)])]
    BY <2>1, Zenon
  <2>3. IsFold(it, kind, s, n)
    BY <2>2, Zenon DEF IsFold
  <2>4. QED BY <2>3, Zenon
<1>3. CASE n # 0
  <2>1. n - 1 \in Nat /\ n - 1 < n
    BY <1>3
  <2>2. PICK g : IsFold(g, kind, s, n - 1)
    BY <1>1, <2>1
  <2> DEFINE it == [S \in SUBSET (1..n) |->
                       IF n \in S THEN Feed(kind, g[S \ {n}], s[n]) ELSE g[S]]
  <2>3. ASSUME NEW S \in SUBSET (1..n)
        PROVE  it[S] = IF S = {} THEN Fresh(kind) ELSE Feed(kind, it[S \ {Max(S)}], s[Max(S)])
    <3>1. CASE n \in S
      <4>1. Max(S) = n
        <5>1. Max(S) \in 1..n /\ n <= Max(S)
          BY <3>1, Greatest
        <5>2. QED BY <5>1
      <4>2. S \ {n} \in SUBSET (1..n) /\ n \notin S \ {n} /\ S # {}
        BY <3>1
      <4>3. it[S \ {n}] = g[S \ {n}] /\ it[S] = Feed(kind, g[S \ {n}], s[n])
        BY <3>1, <4>2, Zenon
      <4>4. QED BY <4>1, <4>2, <4>3, Zenon
    <3>2. CASE n \notin S
      <4>0. \A x \in 1..n : x # n => x \in 1..(n - 1)
        BY <2>1
      <4>1. S \in SUBSET (1..(n - 1)) /\ S \ {Max(S)} \in SUBSET (1..n) /\ n \notin S \ {Max(S)}
        BY <3>2, <4>0, Zenon
      <4>2. it[S \ {Max(S)}] = g[S \ {Max(S)}] /\ it[S] = g[S]
        BY <3>2, <4>1, Zenon
      <4>3. g[S] = IF S = {} THEN Fresh(kind) ELSE Feed(kind, g[S \ {Max(S)}], s[Max(S)])
        BY <2>2, <4>1, Zenon DEF IsFold
      <4>4. QED BY <4>2, <4>3, Zenon
    <3>3. QED BY <3>1, <3>2, Zenon
  <2>4. it = [S \in SUBSET (1..n) |->
             IF S = {} THEN Fresh(kind) ELSE Feed(kind, it[S \ {Max(S)}], s[Max(S)])]
    BY <2>3, Zenon
  <2>5. IsFold(it, kind, s, n)
    BY <2>4, Zenon DEF IsFold
  <2>6. QED BY <2>5, Zenon
<1>4. QED BY <1>2, <1>3

\* The states of a fold, octet by octet.
Run(v, kind, s) ==
    /\ DOMAIN v = 0..Len(s) /\ v[0] = Fresh(kind)
    /\ \A k \in 1..Len(s) : v[k] = Feed(kind, v[k - 1], s[k])

\* It goes from the first place to the last.
LEMMA FoldRuns ==
    ASSUME NEW kind, NEW s \in Seq(Nat), NEW it, IsFold(it, kind, s, Len(s))
    PROVE  \E v : Run(v, kind, s) /\ v[Len(s)] = it[1..Len(s)]
<1> DEFINE v == [k \in 0..Len(s) |-> it[1..k]]
<1>1. Len(s) \in Nat
  OBVIOUS
<1>4. \A S \in SUBSET (1..Len(s)) :
          it[S] = IF S = {} THEN Fresh(kind) ELSE Feed(kind, it[S \ {Max(S)}], s[Max(S)])
  BY Zenon DEF IsFold
<1>5. v[0] = Fresh(kind)
  <2>1. 1..0 = {} /\ 1..0 \in SUBSET (1..Len(s)) /\ 0 \in 0..Len(s)
    BY <1>1
  <2>2. QED BY <1>4, <2>1, Zenon
<1>6. ASSUME NEW k \in 1..Len(s) PROVE v[k] = Feed(kind, v[k - 1], s[k])
  <2>1. k \in 1..k /\ k \in Nat /\ k \in 0..Len(s) /\ k - 1 \in 0..Len(s)
    BY <1>1, <1>6
  <2>0. \A i \in 1..k : i \in 1..Len(s)
    BY <1>1, <1>6
  <2>2. 1..k \in SUBSET (1..Len(s)) /\ 1..k # {}
    BY <2>0, <2>1, Zenon
  <2>3. (1..k) \ {k} = 1..(k - 1)
    BY <2>1
  <2>4. Max(1..k) \in 1..k /\ k <= Max(1..k)
    BY <2>1, <2>2, Greatest
  <2>5. Max(1..k) = k
    BY <2>1, <2>4
  <2>6. it[1..k] = Feed(kind, it[1..(k - 1)], s[k])
    BY <1>4, <2>2, <2>3, <2>5, Zenon
  <2>7. QED BY <2>1, <2>6, Zenon
<1>7. v[Len(s)] = it[1..Len(s)]
  BY <1>1
<1>8. Run(v, kind, s)
  BY <1>5, <1>6 DEF Run
<1>9. QED BY <1>7, <1>8, Zenon

\* BigEndian is such a run.
LEMMA NumberRuns ==
    ASSUME NEW s \in Seq(Nat)
    PROVE  \E v : Run(v, "number", s) /\ BigEndian(s) = v[Len(s)]
<1> DEFINE it == CHOOSE it : it = [S \in SUBSET DOMAIN s |->
                     IF S = {} THEN 0 ELSE 256 * it[S \ {Max(S)}] + s[Max(S)]]
<1>1. DOMAIN s = 1..Len(s) /\ Len(s) \in Nat
  OBVIOUS
<1>2. BigEndian(s) = it[DOMAIN s]
  BY Zenon DEF BigEndian, FoldLeft, MapThenFoldSet
<1>3. Fresh("number") = 0 /\ \A x, b : Feed("number", x, b) = 256 * x + b
  BY Zenon DEF Fresh, Feed
<1>4. ASSUME NEW g
      PROVE  IsFold(g, "number", s, Len(s)) <=>
                 g = [S \in SUBSET DOMAIN s |->
                         IF S = {} THEN 0 ELSE 256 * g[S \ {Max(S)}] + s[Max(S)]]
  <2>0. ASSUME NEW S
        PROVE  (IF S = {} THEN Fresh("number") ELSE Feed("number", g[S \ {Max(S)}], s[Max(S)]))
               = (IF S = {} THEN 0 ELSE 256 * g[S \ {Max(S)}] + s[Max(S)])
    BY <1>3, ZenonT(40)
  <2>1. [S \in SUBSET (1..Len(s)) |->
            IF S = {} THEN Fresh("number") ELSE Feed("number", g[S \ {Max(S)}], s[Max(S)])]
        = [S \in SUBSET DOMAIN s |->
               IF S = {} THEN 0 ELSE 256 * g[S \ {Max(S)}] + s[Max(S)]]
    BY <1>1, <2>0, Zenon
  <2>2. QED BY <2>1, Zenon DEF IsFold
<1>5. IsFold(it, "number", s, Len(s))
  <2>1. PICK g : IsFold(g, "number", s, Len(s))
    BY <1>1, FoldExists, Zenon
  <2>2. QED BY <1>4, <2>1, ZenonT(40)
<1> HIDE DEF it
<1>6. QED BY <1>1, <1>2, <1>5, FoldRuns, Zenon

OidOf(ids) ==
    (IF ids[1] < 40 THEN <<0, ids[1]>>
     ELSE IF ids[1] < 80 THEN <<1, ids[1] - 40>> ELSE <<2, ids[1] - 80>>) \o Tail(ids)

\* DecodeOid is such a run, with the first arcs split.
LEMMA ArcsRun ==
    ASSUME NEW s \in Seq(Nat)
    PROVE  \E v : Run(v, "arcs", s) /\ DecodeOid(s) = OidOf(v[Len(s)].arcs)
<1> DEFINE it == CHOOSE it : it = [S \in SUBSET DOMAIN s |->
               IF S = {} THEN [arcs |-> <<>>, value |-> 0] ELSE Fed(it[S \ {Max(S)}], s[Max(S)])]
<1>1. DOMAIN s = 1..Len(s) /\ Len(s) \in Nat
  OBVIOUS
<1>2. DecodeOid(s) = OidOf(it[DOMAIN s].arcs)
  BY Zenon DEF DecodeOid, FoldLeft, MapThenFoldSet, Fed, OidOf
<1>3. Fresh("arcs") = [arcs |-> <<>>, value |-> 0] /\ \A x, b : Feed("arcs", x, b) = Fed(x, b)
  <2>1. "arcs" # "number"
    OBVIOUS
  <2>2. QED BY <2>1, Zenon DEF Fresh, Feed
<1>4. ASSUME NEW g
      PROVE  IsFold(g, "arcs", s, Len(s)) <=>
                 g = [S \in SUBSET DOMAIN s |->
                         IF S = {} THEN [arcs |-> <<>>, value |-> 0]
                         ELSE Fed(g[S \ {Max(S)}], s[Max(S)])]
  <2>1. [S \in SUBSET (1..Len(s)) |->
            IF S = {} THEN Fresh("arcs") ELSE Feed("arcs", g[S \ {Max(S)}], s[Max(S)])]
        = [S \in SUBSET DOMAIN s |->
               IF S = {} THEN [arcs |-> <<>>, value |-> 0] ELSE Fed(g[S \ {Max(S)}], s[Max(S)])]
    BY <1>1, <1>3, Zenon
  <2>2. QED BY <2>1, Zenon DEF IsFold
<1>5. IsFold(it, "arcs", s, Len(s))
  <2>1. PICK g : IsFold(g, "arcs", s, Len(s))
    BY <1>1, FoldExists, Zenon
  <2>2. QED BY <1>4, <2>1, Zenon
<1> HIDE DEF it
<1>6. PICK v : Run(v, "arcs", s) /\ v[Len(s)] = it[1..Len(s)]
  BY <1>5, FoldRuns, Zenon
<1>7. QED BY <1>1, <1>2, <1>6, Zenon

(***************************************************************************)
(* Octet strings and what stands where in them                             *)
(***************************************************************************)

Octets == 0..255

\* t stands in b, after the first p octets.
At(b, p, t) == p + Len(t) <= Len(b) /\ \A j \in 1..Len(t) : b[p + j] = t[j]

LEMMA SeqJoined ==
    ASSUME NEW S, NEW a \in Seq(S), NEW b \in Seq(S)
    PROVE  /\ a \o b \in Seq(S) /\ Len(a) \in Nat /\ Len(b) \in Nat
           /\ Len(a \o b) = Len(a) + Len(b)
           /\ \A i \in 1..Len(a) : (a \o b)[i] = a[i]
           /\ \A i \in 1..Len(b) : (a \o b)[Len(a) + i] = b[i]
OBVIOUS

LEMMA Same ==
    ASSUME NEW S, NEW a \in Seq(S), NEW b \in Seq(S), Len(a) = Len(b),
           \A i \in 1..Len(a) : a[i] = b[i]
    PROVE  a = b
OBVIOUS

\* Where two strings stand together, each of them stands.
LEMMA AtBoth ==
    ASSUME NEW S, NEW b, NEW p \in Nat, NEW s \in Seq(S), NEW t \in Seq(S), At(b, p, s \o t),
           Len(b) \in Nat
    PROVE  At(b, p, s) /\ At(b, p + Len(s), t)
<1>1. /\ Len(s) \in Nat /\ Len(t) \in Nat /\ p + Len(s) + Len(t) <= Len(b)
      /\ \A j \in 1..(Len(s) + Len(t)) : b[p + j] = (s \o t)[j]
  BY SeqJoined DEF At
<1>2. ASSUME NEW j \in 1..Len(s) PROVE b[p + j] = s[j]
  BY <1>1, SeqJoined
<1>3. ASSUME NEW j \in 1..Len(t) PROVE b[p + Len(s) + j] = t[j]
  <2>1. Len(s) + j \in 1..(Len(s) + Len(t)) /\ p + (Len(s) + j) = p + Len(s) + j
    BY <1>1
  <2>2. QED BY <1>1, <2>1, SeqJoined
<1>4. QED BY <1>1, <1>2, <1>3 DEF At

\* Strings that are joined stand in the result.
LEMMA AtJoined ==
    ASSUME NEW S, NEW a \in Seq(S), NEW b \in Seq(S)
    PROVE  /\ At(a \o b, 0, a) /\ At(a \o b, Len(a), b)
           /\ \A p \in Nat : \A t \in Seq(S) : At(a, p, t) => At(a \o b, p, t)
<1>1. At(a \o b, 0, a) /\ At(a \o b, Len(a), b)
  BY SeqJoined DEF At
<1>2. ASSUME NEW p \in Nat, NEW t \in Seq(S), At(a, p, t) PROVE At(a \o b, p, t)
  <2>1. Len(t) \in Nat
    BY <1>2
  <2>2. p + Len(t) <= Len(a) /\ \A j \in 1..Len(t) : p + j \in 1..Len(a) /\ a[p + j] = t[j]
    BY <1>2, <2>1, SeqJoined DEF At
  <2>3. QED BY <1>2, <2>1, <2>2, SeqJoined DEF At
<1>3. QED BY <1>1, <1>2

LEMMA AtSelf ==
    ASSUME NEW S, NEW a \in Seq(S)
    PROVE  At(a, 0, a)
BY DEF At

\* What stands somewhere is cut out there.
LEMMA AtCut ==
    ASSUME NEW S, NEW b \in Seq(S), NEW p \in Nat, NEW t \in Seq(S), At(b, p, t)
    PROVE  SubSeq(b, p + 1, p + Len(t)) = t
<1>1. Len(t) \in Nat /\ Len(b) \in Nat /\ p + Len(t) <= Len(b)
  BY DEF At
<1>2. /\ SubSeq(b, p + 1, p + Len(t)) \in Seq(S)
      /\ Len(SubSeq(b, p + 1, p + Len(t))) = Len(t)
      /\ \A j \in 1..Len(t) : SubSeq(b, p + 1, p + Len(t))[j] = b[p + j]
  BY <1>1
<1>3. \A j \in 1..Len(t) : SubSeq(b, p + 1, p + Len(t))[j] = t[j]
  BY <1>2 DEF At
<1>4. QED BY <1>2, <1>3, Same

(***************************************************************************)
(* A tag, a length and a content are read back                             *)
(***************************************************************************)

LEMMA One ==
    ASSUME NEW S, NEW x \in S
    PROVE  <<x>> \in Seq(S) /\ Len(<<x>>) = 1 /\ <<x>>[1] = x
OBVIOUS

LEMMA Wider ==
    ASSUME NEW S, NEW T, S \subseteq T, NEW s \in Seq(S)
    PROVE  s \in Seq(T) /\ Len(s) \in Nat /\ \A i \in 1..Len(s) : s[i] \in S
OBVIOUS

LEMMA OctetsNat ==
    ASSUME NEW s \in Seq(Octets)
    PROVE  s \in Seq(Nat) /\ Len(s) \in Nat /\ \A i \in 1..Len(s) : s[i] \in Octets
<1>1. Octets \subseteq Nat
  BY DEF Octets
<1>2. QED BY <1>1, Wider, Zenon

\* The octets of a number stand for it.
LEMMA BigEndianDigits ==
    ASSUME NEW n \in Nat
    PROVE  BigEndian(Digits(n, 256)) = n
<1>0. 256 \in Base /\ Digits(n, 256) \in Seq(Octets)
  BY DigitsType DEF Base, Octets
<1>1. PICK s : s = Digits(n, 256)
  OBVIOUS
<1>2. Evals(s, 256, n)
  BY <1>0, <1>1, DigitsValue
<1>3. s \in Seq(Nat) /\ Len(s) \in Nat
  BY <1>0, <1>1, OctetsNat, Zenon
<1>4. PICK v : Run(v, "number", s) /\ BigEndian(s) = v[Len(s)]
  BY <1>3, NumberRuns
<1>5. PICK w \in [0..Len(s) -> Nat] :
          /\ w[0] = 0 /\ w[Len(s)] = n
          /\ \A k \in 1..Len(s) : w[k] = 256 * w[k - 1] + s[k]
  BY <1>2 DEF Evals
<1>6. v[0] = 0 /\ \A k \in 1..Len(s) : v[k] = 256 * v[k - 1] + s[k]
  BY <1>4, Zenon DEF Run, Fresh, Feed
<1> DEFINE T == {k \in 0..Len(s) : v[k] # w[k]}
<1>7. T = {}
  <2> SUFFICES ASSUME T # {} PROVE FALSE
    OBVIOUS
  <2>1. PICK k \in T : \A m \in T : k <= m
    <3>1. T \in SUBSET Nat
      BY <1>3
    <3>2. QED BY <3>1, Least, Zenon
  <2>2. k # 0 /\ k \in 1..Len(s) /\ k - 1 \in 0..Len(s) /\ k - 1 \notin T
    BY <1>3, <1>5, <1>6, <2>1
  <2>3. v[k - 1] = w[k - 1]
    BY <2>2
  <2>4. v[k] = 256 * v[k - 1] + s[k] /\ w[k] = 256 * w[k - 1] + s[k]
    BY <1>5, <1>6, <2>2, ZenonT(40)
  <2>5. v[k] = w[k]
    BY <2>3, <2>4, Zenon
  <2>6. QED BY <2>5
<1>8. Len(s) \in 0..Len(s)
  BY <1>3
<1>9. QED BY <1>1, <1>4, <1>5, <1>7, <1>8

\* No content of the registry is near this long.
Lengths  == {n \in Nat : n < 128 * 128 * 128}
Short(c) == c \in Seq(Octets) /\ Len(c) \in Lengths

LEMMA OctetsJoined ==
    ASSUME NEW a \in Seq(Octets), NEW b \in Seq(Octets), NEW c, c = a \o b
    PROVE  /\ c \in Seq(Octets) /\ Len(a) \in Nat /\ Len(b) \in Nat /\ Len(c) \in Nat
           /\ Len(c) = Len(a) + Len(b)
OBVIOUS

LEMMA DigitsOctets ==
    ASSUME NEW m \in Nat
    PROVE  Digits(m, 256) \in Seq(0..255) /\ Len(Digits(m, 256)) >= 1
<1>1. 256 \in Base
  BY DEF Base
<1>2. Digits(m, 256) \in Seq(0..255)
  <2>1. Digits(m, 256) \in Seq(0..(256 - 1))
    BY <1>1, DigitsType, Zenon
  <2>2. 0..(256 - 1) = 0..255
    OBVIOUS
  <2>3. QED BY <2>1, <2>2, Zenon
<1>3. Len(Digits(m, 256)) >= 1
  BY <1>1, DigitsType, Zenon
<1>4. QED BY <1>2, <1>3

\* The long form: how many octets, and the octets.
LEMMA LengthRead ==
    ASSUME NEW n \in Nat, n \in Lengths, n >= 128
    PROVE  \E d \in Seq(Octets), k \in 1..3 :
               /\ k = Len(d) /\ 128 + k \in Octets
               /\ LengthOctets(n) = <<128 + k>> \o d /\ BigEndian(d) = n
<1>1. 256 \in Base /\ ~(n < 128)
  BY DEF Base
<1>2. Digits(n, 256) \in Seq(0..255) /\ Len(Digits(n, 256)) >= 1
  BY DigitsOctets, Zenon
<1>3. Len(Digits(n, 256)) <= 3
  <2>1. n < 128 * 128 * 128
    BY Zenon DEF Lengths
  <2>2. QED BY <1>1, <2>1, DigitsShort
<1>4. LengthOctets(n) = <<128 + Len(Digits(n, 256))>> \o Digits(n, 256)
  BY <1>1, Zenon DEF LengthOctets
<1>5. BigEndian(Digits(n, 256)) = n
  BY <1>1, BigEndianDigits
<1>6. PICK d : d = Digits(n, 256)
  OBVIOUS
<1>7. PICK k : k = Len(d)
  OBVIOUS
<1>8. d \in Seq(Octets)
  BY <1>2, <1>6, Zenon DEF Octets
<1>9. k \in Nat
  BY <1>7, <1>8, OctetsNat, Zenon
<1>10. k >= 1 /\ k <= 3
  BY <1>2, <1>3, <1>6, <1>7, Zenon
<1>11. k \in 1..3
  BY <1>9, <1>10
<1>12. \A i \in 1..3 : 128 + i \in Octets
  BY DEF Octets
<1>13. QED BY <1>4, <1>5, <1>6, <1>7, <1>8, <1>11, <1>12, Zenon

\* The short form.
LEMMA LengthShort ==
    ASSUME NEW n \in 0..127
    PROVE  n \in Octets /\ LengthOctets(n) = <<n>>
<1>1. n < 128 /\ n \in 0..255
  OBVIOUS
<1>2. QED BY <1>1, Zenon DEF Octets, LengthOctets

\* What the encoder writes is made of octets.
LEMMA TlvOctets ==
    ASSUME NEW tag \in Octets, NEW c, Short(c)
    PROVE  \E k \in 2..5 : Tlv(tag, c) \in Seq(Octets) /\ Len(Tlv(tag, c)) = Len(c) + k
<1>1. <<tag>> \in Seq(Octets) /\ Len(<<tag>>) = 1
  BY One
<1>2. PICK n : n = Len(c)
  OBVIOUS
<1>3. c \in Seq(Octets) /\ n \in Lengths
  BY <1>2, Zenon DEF Short
<1>0. n \in Nat
  BY <1>2, <1>3, OctetsNat, Zenon
<1>4. PICK h : h = LengthOctets(n)
  OBVIOUS
<1>5. \E k \in 1..4 : h \in Seq(Octets) /\ Len(h) = k
  <2>1. CASE n \in 0..127
    <3>1. h \in Seq(Octets) /\ Len(h) = 1
      BY <1>2, <1>4, <2>1, LengthShort, One, Zenon
    <3>2. 1 \in 1..4
      OBVIOUS
    <3>3. QED BY <3>1, <3>2, Zenon
  <2>2. CASE n >= 128
    <3>1. PICK d \in Seq(Octets), k \in 1..3 :
              k = Len(d) /\ 128 + k \in Octets /\ LengthOctets(n) = <<128 + k>> \o d
      BY <1>0, <1>3, <2>2, LengthRead, Zenon
    <3>2. PICK f : f = <<128 + k>>
      OBVIOUS
    <3>3. f \in Seq(Octets) /\ Len(f) = 1 /\ h = f \o d
      BY <1>4, <3>1, <3>2, One, Zenon
    <3>4. h \in Seq(Octets) /\ Len(h) = 1 + k
      BY <3>1, <3>3, OctetsJoined
    <3>5. k \in 1..3
      BY <3>1, Zenon
    <3>6. 1 + k \in 1..4
      BY <3>5
    <3>7. QED BY <3>4, <3>6, Zenon
  <2>3. n \in 0..127 \/ n >= 128
    BY <1>0
  <2>4. QED BY <2>1, <2>2, <2>3, Zenon
<1>6. PICK k \in 1..4 : h \in Seq(Octets) /\ Len(h) = k
  BY <1>5
<1>7. PICK t : t = <<tag>>
  OBVIOUS
<1>8. PICK g : g = t \o h
  OBVIOUS
<1>9. g \in Seq(Octets) /\ Len(g) = 1 + k
  BY <1>1, <1>6, <1>7, <1>8, OctetsJoined
<1>10. PICK v : v = g \o c
  OBVIOUS
<1>11. v = Tlv(tag, c)
  BY <1>2, <1>4, <1>7, <1>8, <1>10, Zenon DEF Tlv
<1>12. v \in Seq(Octets) /\ Len(v) = Len(c) + (1 + k)
  BY <1>3, <1>9, <1>10, OctetsJoined
<1>13. 1 + k \in 2..5
  BY <1>6
<1>14. QED BY <1>11, <1>12, <1>13, Zenon

\* A head and the content behind it.
LEMMA AtHead ==
    ASSUME NEW b \in Seq(Octets), NEW p \in Nat, NEW h \in Seq(Octets), NEW c \in Seq(Octets),
           NEW s, s = h \o c, At(b, p, s)
    PROVE  At(b, p, h) /\ At(b, p + Len(h), c) /\ p + Len(h) \in Nat
<1>1. Len(b) \in Nat /\ Len(h) \in Nat
  OBVIOUS
<1>2. p + Len(h) \in Nat
  BY <1>1
<1>3. QED BY <1>1, <1>2, AtBoth, Zenon

LEMMA AtFirst ==
    ASSUME NEW b, NEW p \in Nat, NEW h \in Seq(Octets), Len(h) = 1, At(b, p, h)
    PROVE  b[p + 1] = h[1]
BY DEF At

Octet(data, i, n, size) ==
    [tag |-> data[i], content |-> SubSeq(data, i + 2 + n, i + 2 + n + size - 1),
     next |-> i + 2 + n + size]

\* How the decoder reads the long form.
LEMMA ReadLong ==
    ASSUME NEW data, NEW i, NEW k, NEW size,
           ~(data[i + 1] < 128), data[i + 1] - 128 = k,
           BigEndian(SubSeq(data, i + 2, i + 1 + k)) = size
    PROVE  ReadTlv(data, i) = Octet(data, i, k, size)
<1>1. PICK n : n = IF data[i + 1] < 128 THEN 0 ELSE data[i + 1] - 128
  OBVIOUS
<1>2. PICK m : m = IF data[i + 1] < 128 THEN data[i + 1] ELSE BigEndian(SubSeq(data, i + 2, i + 1 + n))
  OBVIOUS
<1>3. ReadTlv(data, i) = Octet(data, i, n, m)
  BY <1>1, <1>2, ZenonT(40) DEF ReadTlv, Octet
<1>4. n = k
  BY <1>1, Zenon
<1>5. m = size
  BY <1>2, <1>4, Zenon
<1>6. QED BY <1>3, <1>4, <1>5, Zenon

\* The decoder reads back, at any offset of any string, the tag, the content and the
\* end of what the encoder has written there.
THEOREM TlvReadsBack ==
    ASSUME NEW b \in Seq(Octets), NEW p \in Nat, NEW tag \in Octets, NEW c, Short(c),
           At(b, p, Tlv(tag, c))
    PROVE  ReadTlv(b, p + 1) = [tag |-> tag, content |-> c, next |-> p + 1 + Len(Tlv(tag, c))]
<1>1. PICK n : n = Len(c)
  OBVIOUS
<1>2. c \in Seq(Octets) /\ n \in Lengths
  BY <1>1, Zenon DEF Short
<1>3. n \in Nat
  BY <1>1, <1>2, OctetsNat, Zenon
<1>4. PICK t : t = <<tag>>
  OBVIOUS
<1>5. t \in Seq(Octets) /\ Len(t) = 1 /\ t[1] = tag
  BY <1>4, One, Zenon
<1>6. PICK h : h = LengthOctets(n)
  OBVIOUS
<1>7. PICK g : g = t \o h
  OBVIOUS
<1>8. PICK s : s = g \o c
  OBVIOUS
<1>9. s = Tlv(tag, c)
  BY <1>1, <1>4, <1>6, <1>7, <1>8, Zenon DEF Tlv
<1>10. PICK z : z = p + 1 + Len(s)
  OBVIOUS
<1>11. ASSUME NEW k \in Nat, h \in Seq(Octets), Len(h) = k
       PROVE  /\ b[p + 1] = tag /\ At(b, p + 1, h)
              /\ SubSeq(b, p + (1 + k) + 1, p + (1 + k) + n) = c
              /\ z = p + 1 + (1 + k + n)
  <2>1. g \in Seq(Octets) /\ Len(g) = 1 + k
    <3>1. g \in Seq(Octets) /\ Len(g) = Len(t) + Len(h)
      BY <1>5, <1>7, <1>11, OctetsJoined, ZenonT(40)
    <3>2. QED BY <1>5, <1>11, <3>1, ZenonT(40)
  <2>2. At(b, p, g) /\ At(b, p + (1 + k), c) /\ p + (1 + k) \in Nat
    BY <1>2, <1>8, <1>9, <2>1, AtHead, Zenon
  <2>3. At(b, p, t) /\ At(b, p + 1, h)
    BY <1>5, <1>7, <1>11, <2>2, AtHead, Zenon
  <2>4. b[p + 1] = tag
    BY <1>5, <2>3, AtFirst, Zenon
  <2>5. SubSeq(b, p + (1 + k) + 1, p + (1 + k) + n) = c
    BY <1>1, <1>2, <2>2, AtCut, Zenon
  <2>6. Len(s) = 1 + k + n
    BY <1>1, <1>2, <1>8, <2>1, OctetsJoined
  <2>7. z = p + 1 + (1 + k + n)
    BY <1>10, <2>6, Zenon
  <2>8. QED BY <2>3, <2>4, <2>5, <2>7, Zenon
<1>12. CASE n \in 0..127
  <2>1. h \in Seq(Octets) /\ Len(h) = 1 /\ h[1] = n
    BY <1>6, <1>12, LengthShort, One, Zenon
  <2>2. 1 \in Nat /\ p + 1 \in Nat
    OBVIOUS
  <2>3. /\ b[p + 1] = tag /\ At(b, p + 1, h)
        /\ SubSeq(b, p + (1 + 1) + 1, p + (1 + 1) + n) = c
        /\ z = p + 1 + (1 + 1 + n)
    BY <1>11, <2>1, <2>2, Zenon
  <2>4. b[p + 1 + 1] = n
    BY <2>1, <2>2, <2>3, AtFirst, Zenon
  <2>5. /\ n < 128 /\ p + 1 + 2 + 0 = p + (1 + 1) + 1
        /\ p + (1 + 1) + 1 + n - 1 = p + (1 + 1) + n
        /\ p + (1 + 1) + 1 + n = p + 1 + (1 + 1 + n)
    BY <1>3, <1>12
  <2>6. ReadTlv(b, p + 1) = [tag |-> tag, content |-> c, next |-> z]
    BY <2>3, <2>4, <2>5, Zenon DEF ReadTlv
  <2>7. QED BY <1>9, <1>10, <2>6, Zenon
<1>13. CASE n >= 128
  <2>1. PICK d \in Seq(Octets), k \in 1..3 :
            /\ k = Len(d) /\ 128 + k \in Octets
            /\ LengthOctets(n) = <<128 + k>> \o d /\ BigEndian(d) = n
    BY <1>2, <1>3, <1>13, LengthRead, Zenon
  <2>2. k \in 1..3 /\ d \in Seq(Octets) /\ k = Len(d)
    BY <2>1, Zenon
  <2>3. /\ k \in Nat /\ 1 + k \in Nat /\ p + 1 \in Nat /\ p + 1 + 1 \in Nat
        /\ ~(128 + k < 128) /\ 128 + k - 128 = k /\ p + 1 + 2 = p + 1 + 1 + 1
        /\ p + 1 + 1 + 1 + k = p + (1 + (1 + k)) + 1
        /\ p + (1 + (1 + k)) + 1 + n - 1 = p + (1 + (1 + k)) + n
        /\ p + (1 + (1 + k)) + 1 + n = p + 1 + (1 + (1 + k) + n)
    BY <1>3, <2>2
  <2>4. PICK f : f = <<128 + k>>
    OBVIOUS
  <2>5. f \in Seq(Octets) /\ Len(f) = 1 /\ f[1] = 128 + k /\ h = f \o d
    BY <1>6, <2>1, <2>4, One, Zenon
  <2>6. h \in Seq(Octets) /\ Len(h) = 1 + k
    <3>1. h \in Seq(Octets) /\ Len(h) = Len(f) + Len(d)
      BY <2>2, <2>5, OctetsJoined, Zenon
    <3>2. QED BY <2>2, <2>5, <3>1, Zenon
  <2>7. /\ b[p + 1] = tag /\ At(b, p + 1, h)
        /\ SubSeq(b, p + (1 + (1 + k)) + 1, p + (1 + (1 + k)) + n) = c
        /\ z = p + 1 + (1 + (1 + k) + n)
    BY <1>11, <2>3, <2>6, Zenon
  <2>8. At(b, p + 1, f) /\ At(b, p + 1 + 1, d)
    BY <2>2, <2>3, <2>5, <2>7, AtHead, ZenonT(40)
  <2>9. b[p + 1 + 1] = 128 + k
    BY <2>3, <2>5, <2>8, AtFirst, Zenon
  <2>10. SubSeq(b, p + 1 + 1 + 1, p + 1 + 1 + k) = d
    BY <2>2, <2>3, <2>8, AtCut, ZenonT(40)
  <2>11. BigEndian(SubSeq(b, p + 1 + 1 + 1, p + 1 + 1 + k)) = n
    BY <2>1, <2>10, Zenon
  <2>12. ReadTlv(b, p + 1) = [tag |-> tag, content |-> c, next |-> z]
    <3>1. ReadTlv(b, p + 1) =
              [tag |-> b[p + 1], content |-> SubSeq(b, p + (1 + (1 + k)) + 1,
                                                    p + (1 + (1 + k)) + 1 + n - 1),
               next |-> p + (1 + (1 + k)) + 1 + n]
      <4>1. PICK i : i = p + 1
        OBVIOUS
      <4>2. PICK x : x = p + (1 + (1 + k)) + 1
        OBVIOUS
      <4>3. BigEndian(SubSeq(b, i + 2, i + 1 + k)) = n
        BY <2>3, <2>11, <4>1, Zenon
      <4>4. i + 2 + k = x
        BY <2>3, <4>1, <4>2, Zenon
      <4>5. ~(b[i + 1] < 128) /\ b[i + 1] - 128 = k
        <5>1. b[i + 1] = 128 + k
          BY <2>9, <4>1, Zenon
        <5>2. b[i + 1] - 128 = k
          BY <2>2, <5>1
        <5>3. ~(b[i + 1] < 128)
          BY <2>3, <5>1
        <5>4. QED BY <5>2, <5>3
      <4>6. ReadTlv(b, i) = [tag |-> b[i], content |-> SubSeq(b, x, x + n - 1), next |-> x + n]
        <5>1. ReadTlv(b, i) = Octet(b, i, k, n)
          BY <4>3, <4>5, ReadLong, ZenonT(40)
        <5>2. QED BY <4>4, <5>1, Zenon DEF Octet
      <4>7. QED BY <4>1, <4>2, <4>6, Zenon
    <3>2. QED BY <2>3, <2>7, <3>1, Zenon
  <2>13. QED BY <1>9, <1>10, <2>12, Zenon
<1>14. n \in 0..127 \/ n >= 128
  BY <1>3
<1>15. QED BY <1>12, <1>13, <1>14, Zenon

(***************************************************************************)
(* The arcs of an OID are read back                                        *)
(***************************************************************************)

\* The state of the decoder between two octets.
Reading(a, y) == [arcs |-> a, value |-> y]

Takes(x, b, y) == y = Fed(x, b)
Whole(v, p, a) == v[p] = Reading(a, 0)

\* An octet with the high bit leaves the arc open.
LEMMA FedHigh ==
    ASSUME NEW a, NEW y \in Nat, NEW d \in 0..127
    PROVE  Takes(Reading(a, y), d + 128, Reading(a, 128 * y + d))
<1>1. (d + 128) % 128 = d /\ ~(d + 128 < 128)
  OBVIOUS
<1>2. Fed(Reading(a, y), d + 128) =
          [Reading(a, y) EXCEPT !.value = 128 * Reading(a, y).value + ((d + 128) % 128)]
  BY <1>1, Zenon DEF Fed
<1>3. Reading(a, y).value = y
  BY DEF Reading
<1>4. PICK z : z = 128 * y + d
  OBVIOUS
<1>5. [Reading(a, y) EXCEPT !.value = z] = Reading(a, z)
  BY DEF Reading
<1>6. QED BY <1>1, <1>2, <1>3, <1>4, <1>5, Zenon DEF Takes

\* An octet without it completes the arc.
LEMMA FedLow ==
    ASSUME NEW a, NEW y \in Nat, NEW d \in 0..127
    PROVE  Takes(Reading(a, y), d, Reading(Append(a, 128 * y + d), 0))
<1>1. d % 128 = d /\ d < 128
  OBVIOUS
<1>2. Reading(a, y).value = y /\ Reading(a, y).arcs = a
  BY DEF Reading
<1>3. QED BY <1>1, <1>2, Zenon DEF Fed, Reading, Takes

LEMMA SeqParts ==
    ASSUME NEW S, NEW s \in Seq(S)
    PROVE  Len(s) \in Nat /\ DOMAIN s = 1..Len(s) /\ \A i \in 1..Len(s) : s[i] \in S
OBVIOUS

\* An arc is encoded in octets, one for each digit.
LEMMA ArcOctets ==
    ASSUME NEW n \in Nat
    PROVE  \E s \in Seq(0..127), l \in Nat :
               /\ s = Digits(n, 128) /\ l = Len(s) /\ l >= 1
               /\ EncodeArc(n) \in Seq(Octets) /\ Len(EncodeArc(n)) = l
               /\ \A i \in 1..l : s[i] \in 0..127
               /\ \A i \in 1..l : EncodeArc(n)[i] = IF i < l THEN s[i] + 128 ELSE s[i]
<1>1. 128 \in Base
  BY DEF Base
<1>2. Digits(n, 128) \in Seq(0..(128 - 1)) /\ Len(Digits(n, 128)) >= 1
  BY <1>1, DigitsType, Zenon
<1>3. 0..(128 - 1) = 0..127
  OBVIOUS
<1>4. PICK s : s = Digits(n, 128)
  OBVIOUS
<1>5. s \in Seq(0..127)
  BY <1>2, <1>3, <1>4, Zenon
<1>6. PICK l : l = Len(s)
  OBVIOUS
<1>7. l \in Nat /\ DOMAIN s = 1..l /\ \A i \in 1..l : s[i] \in 0..127
  BY <1>5, <1>6, SeqParts, Zenon
<1>8. l >= 1
  BY <1>2, <1>4, <1>6, Zenon
<1>9. PICK e : e = [i \in 1..l |-> IF i < l THEN s[i] + 128 ELSE s[i]]
  OBVIOUS
<1>10. e = EncodeArc(n)
  BY <1>4, <1>6, <1>7, <1>9, Zenon DEF EncodeArc
<1>11. ASSUME NEW i \in 1..l PROVE e[i] \in 0..255
  <2>1. PICK d \in 0..127 : d = s[i]
    BY <1>7
  <2>2. e[i] = IF i < l THEN d + 128 ELSE d
    BY <1>9, <2>1, Zenon
  <2>3. d + 128 \in 0..255 /\ d \in 0..255
    BY <2>1
  <2>4. CASE i < l
    <3>1. e[i] = d + 128
      BY <2>2, <2>4, Zenon
    <3>2. QED BY <2>3, <3>1
  <2>5. CASE ~(i < l)
    <3>1. e[i] = d
      BY <2>2, <2>5, Zenon
    <3>2. QED BY <2>3, <3>1
  <2>6. QED BY <2>4, <2>5
<1>12. e \in Seq(0..255) /\ Len(e) = l
  BY <1>7, <1>9, <1>11
<1>13. \A i \in 1..l : e[i] = IF i < l THEN s[i] + 128 ELSE s[i]
  BY <1>9, Zenon
<1>14. e \in Seq(Octets)
  BY <1>12, Zenon DEF Octets
<1>15. QED BY <1>4, <1>5, <1>6, <1>7, <1>8, <1>10, <1>12, <1>13, <1>14, ZenonT(40)

Values(w, s, l, base, n) ==
    /\ w \in [0..l -> Nat] /\ w[0] = 0 /\ w[l] = n
    /\ \A k \in 1..l : w[k] = base * w[k - 1] + s[k]

LEMMA EvalsAt ==
    ASSUME NEW s, NEW base, NEW n, NEW l, l = Len(s), Evals(s, base, n)
    PROVE  \E w : Values(w, s, l, base, n)
BY Zenon DEF Evals, Values

LEMMA RunTakes ==
    ASSUME NEW v, NEW s, Run(v, "arcs", s)
    PROVE  \A k \in 1..Len(s) : Takes(v[k - 1], s[k], v[k])
<1>1. "arcs" # "number"
  OBVIOUS
<1>2. QED BY <1>1, Zenon DEF Run, Takes, Feed

\* Between two arcs the decoder adds, octet by octet, the arc that was encoded.
LEMMA ArcRead ==
    ASSUME NEW body \in Seq(Octets), NEW v, Run(v, "arcs", body), NEW p \in Nat, NEW n \in Nat,
           At(body, p, EncodeArc(n)), NEW a, Whole(v, p, a)
    PROVE  Whole(v, p + Len(EncodeArc(n)), Append(a, n))
<1>0. v[p] = Reading(a, 0)
  BY DEF Whole
<1>1. PICK s \in Seq(0..127), l \in Nat :
          /\ s = Digits(n, 128) /\ l = Len(s) /\ l >= 1
          /\ EncodeArc(n) \in Seq(Octets) /\ Len(EncodeArc(n)) = l
          /\ \A i \in 1..l : s[i] \in 0..127
          /\ \A i \in 1..l : EncodeArc(n)[i] = IF i < l THEN s[i] + 128 ELSE s[i]
  BY ArcOctets, Zenon
<1>2. l \in Nat /\ l >= 1
  BY <1>1, Zenon
<1>3. PICK w : Values(w, s, l, 128, n)
  <2>1. 128 \in Base
    BY DEF Base
  <2>2. Evals(s, 128, n)
    BY <1>1, <2>1, DigitsValue, Zenon
  <2>3. QED BY <1>1, <2>2, EvalsAt, Zenon
<1>4. PICK m \in Nat : m = Len(body)
  OBVIOUS
<1>5. p + l <= m
  BY <1>1, <1>4, Zenon DEF At
<1>6. ASSUME NEW k \in 1..l
      PROVE  /\ k - 1 \in 0..l /\ s[k] \in 0..127
             /\ Takes(v[p + (k - 1)], IF k < l THEN s[k] + 128 ELSE s[k], v[p + k])
  <2>1. p + k \in 1..m /\ p + k - 1 = p + (k - 1) /\ k - 1 \in 0..l
    BY <1>2, <1>4, <1>5, <1>6
  <2>2. body[p + k] = IF k < l THEN s[k] + 128 ELSE s[k]
    BY <1>1, <1>6, Zenon DEF At
  <2>3. \A i \in 1..m : Takes(v[i - 1], body[i], v[i])
    BY <1>4, RunTakes, Zenon
  <2>4. Takes(v[p + (k - 1)], body[p + k], v[p + k])
    <3>1. PICK i \in 1..m : i = p + k /\ i - 1 = p + (k - 1)
      BY <2>1
    <3>2. Takes(v[i - 1], body[i], v[i])
      BY <2>3, <3>1, Zenon
    <3>3. QED BY <3>1, <3>2, Zenon
  <2>5. QED BY <1>1, <1>6, <2>1, <2>2, <2>4, Zenon
<1>7. \A k \in 0..(l - 1) : v[p + k] = Reading(a, w[k])
  <2> DEFINE T == {k \in 0..(l - 1) : v[p + k] # Reading(a, w[k])}
  <2> SUFFICES ASSUME T # {} PROVE FALSE
    OBVIOUS
  <2>1. PICK k \in T : \A j \in T : k <= j
    <3>1. T \in SUBSET Nat
      BY <1>2
    <3>2. QED BY <3>1, Least, Zenon
  <2>2. k \in 0..(l - 1) /\ v[p + k] # Reading(a, w[k])
    BY <2>1
  <2>3. CASE k = 0
    <3>1. p + 0 = p /\ w[0] = 0
      BY <1>3 DEF Values
    <3>2. QED BY <1>0, <2>2, <2>3, <3>1, Zenon
  <2>4. CASE k # 0
    <3>1. k \in 1..l /\ k < l /\ k - 1 \in 0..(l - 1) /\ ~(k <= k - 1)
      BY <1>2, <2>2, <2>4
    <3>2. v[p + (k - 1)] = Reading(a, w[k - 1])
      BY <2>1, <3>1, Zenon
    <3>3. Takes(v[p + (k - 1)], s[k] + 128, v[p + k]) /\ s[k] \in 0..127
      BY <1>6, <3>1, Zenon
    <3>4. w[k - 1] \in Nat /\ w[k] = 128 * w[k - 1] + s[k]
      <4>1. k - 1 \in 0..l
        BY <1>2, <3>1
      <4>2. w[k - 1] \in Nat
        BY <1>3, <4>1, Zenon DEF Values
      <4>3. w[k] = 128 * w[k - 1] + s[k]
        BY <1>3, <3>1, Zenon DEF Values
      <4>4. QED BY <4>2, <4>3, Zenon
    <3>5. Takes(Reading(a, w[k - 1]), s[k] + 128, Reading(a, 128 * w[k - 1] + s[k]))
      BY <3>3, <3>4, FedHigh, ZenonT(40)
    <3>6. v[p + k] = Reading(a, w[k])
      BY <3>2, <3>3, <3>4, <3>5, Zenon DEF Takes
    <3>7. QED BY <2>2, <3>6
  <2>5. QED BY <2>3, <2>4
<1>8. /\ l \in 1..l /\ l - 1 \in 0..(l - 1) /\ ~(l < l)
      /\ w[l - 1] \in Nat /\ n = 128 * w[l - 1] + s[l]
  BY <1>2, <1>3 DEF Values
<1>9. v[p + (l - 1)] = Reading(a, w[l - 1])
  BY <1>7, <1>8, Zenon
<1>10. Takes(v[p + (l - 1)], s[l], v[p + l]) /\ s[l] \in 0..127
  BY <1>6, <1>8, Zenon
<1>11. Takes(Reading(a, w[l - 1]), s[l], Reading(Append(a, 128 * w[l - 1] + s[l]), 0))
  BY <1>8, <1>10, FedLow, Zenon
<1>12. QED BY <1>1, <1>8, <1>9, <1>10, <1>11, Zenon DEF Takes, Whole

(***************************************************************************)
(* Octet strings one after the other                                       *)
(***************************************************************************)

IsFlat(f, seqs, n) == f = [i \in 1..n |-> IF i = 1 THEN seqs[i] ELSE f[i-1] \o seqs[i]]

\* The function of FlattenSeq exists.
LEMMA FlatExists ==
    ASSUME NEW seqs
    PROVE  \A n \in Nat : \E f : IsFlat(f, seqs, n)
<1> DEFINE T == {n \in Nat : ~ \E f : IsFlat(f, seqs, n)}
<1> SUFFICES ASSUME T # {} PROVE FALSE
  OBVIOUS
<1>1. PICK n \in T : \A m \in T : n <= m
  BY Least
<1>2. CASE n = 0
  <2> DEFINE f == [i \in 1..n |-> seqs[i]]
  <2>1. ASSUME NEW i \in 1..n PROVE FALSE
    BY <1>2, <2>1
  <2>2. f = [i \in 1..n |-> IF i = 1 THEN seqs[i] ELSE f[i-1] \o seqs[i]]
    BY <2>1, Zenon
  <2>3. IsFlat(f, seqs, n)
    BY <2>2, Zenon DEF IsFlat
  <2>4. QED BY <2>3, Zenon
<1>3. CASE n # 0
  <2>1. n - 1 \in Nat /\ n - 1 < n /\ n \in Nat /\ n >= 1
    BY <1>3
  <2>2. PICK g : IsFlat(g, seqs, n - 1)
    BY <1>1, <2>1
  <2> DEFINE f == [i \in 1..n |->
                      IF i = n THEN IF i = 1 THEN seqs[i] ELSE g[i-1] \o seqs[i] ELSE g[i]]
  <2>3. ASSUME NEW i \in 1..n
        PROVE  f[i] = IF i = 1 THEN seqs[i] ELSE f[i-1] \o seqs[i]
    <3>1. i # 1 => i - 1 \in 1..n /\ i - 1 # n
      BY <2>1, <2>3
    <3>2. i # n => i \in 1..(n - 1)
      BY <2>1, <2>3
    <3>3. i # 1 => f[i-1] = g[i-1]
      BY <3>1, Zenon
    <3>4. i # n => g[i] = IF i = 1 THEN seqs[i] ELSE g[i-1] \o seqs[i]
      <4>1. \A k \in 1..(n - 1) : g[k] = IF k = 1 THEN seqs[k] ELSE g[k-1] \o seqs[k]
        BY <2>2, Zenon DEF IsFlat
      <4>2. QED BY <3>2, <4>1, Zenon
    <3>5. f[i] = IF i = 1 THEN seqs[i] ELSE g[i-1] \o seqs[i]
      BY <2>3, <3>4, Zenon
    <3>6. QED BY <3>3, <3>5, Zenon
  <2>4. f = [i \in 1..n |-> IF i = 1 THEN seqs[i] ELSE f[i-1] \o seqs[i]]
    BY <2>3, Zenon
  <2>5. IsFlat(f, seqs, n)
    BY <2>4, Zenon DEF IsFlat
  <2>6. QED BY <2>5, Zenon
<1>4. QED BY <1>2, <1>3

\* What has been put together of the first sequences.
Joins(g, seqs, n) ==
    /\ g[0] = <<>> /\ \A k \in 0..n : g[k] \in Seq(Octets)
    /\ \A k \in 1..n : g[k] = g[k - 1] \o seqs[k]

LEMMA Nothing0 ==
    /\ <<>> \in Seq(Octets) /\ Len(<<>>) = 0
    /\ \A s \in Seq(Octets) : <<>> \o s = s
OBVIOUS

\* FlattenSeq joins the sequences one by one.
LEMMA FlatJoins ==
    ASSUME NEW n \in Nat, NEW seqs, seqs \in [1..n -> Seq(Octets)]
    PROVE  \E g : Joins(g, seqs, n) /\ FlattenSeq(seqs) = g[n]
<1>1. Len(seqs) = n
  OBVIOUS
<1>2. CASE n = 0
  <2> DEFINE g == [k \in 0..n |-> <<>>]
  <2>1. seqs = <<>> /\ FlattenSeq(seqs) = seqs
    <3>1. Len(seqs) = 0
      BY <1>1, <1>2
    <3>2. FlattenSeq(seqs) = seqs
      BY <3>1, Zenon DEF FlattenSeq
    <3>3. seqs = <<>>
      BY <3>1
    <3>4. QED BY <3>2, <3>3
  <2>2. 0 \in 0..n /\ n \in 0..n /\ \A k \in 1..n : FALSE
    BY <1>2
  <2>3. g[0] = <<>> /\ g[n] = <<>> /\ \A k \in 0..n : g[k] = <<>>
    BY <2>2, Zenon
  <2>4. Joins(g, seqs, n)
    BY <2>2, <2>3, Nothing0, Zenon DEF Joins
  <2>5. QED BY <2>1, <2>3, <2>4, Zenon
<1>3. CASE n # 0
  <2> DEFINE f == CHOOSE f : IsFlat(f, seqs, n)
             g == [k \in 0..n |-> IF k = 0 THEN <<>> ELSE f[k]]
  <2>1. IsFlat(f, seqs, n)
    BY FlatExists, Zenon
  <2>2. FlattenSeq(seqs) = f[n]
    BY <1>1, <1>3, Zenon DEF FlattenSeq, IsFlat
  <2> HIDE DEF f
  <2>3. 0 \in 0..n /\ n \in 0..n
    OBVIOUS
  <2>4. g[0] = <<>> /\ g[n] = f[n]
    BY <1>3, <2>3, Zenon
  <2>5. ASSUME NEW k \in 1..n PROVE g[k] = g[k - 1] \o seqs[k] \/ ~(g[k - 1] \in Seq(Octets))
    <3>1. k \in 0..n /\ k # 0 /\ k - 1 \in 0..n /\ (k = 1 => k - 1 = 0) /\ (k # 1 => k - 1 # 0)
      BY <2>5
    <3>2. g[k] = f[k]
      BY <3>1, Zenon
    <3>3. f[k] = IF k = 1 THEN seqs[k] ELSE f[k-1] \o seqs[k]
      <4>1. \A i \in 1..n : f[i] = IF i = 1 THEN seqs[i] ELSE f[i-1] \o seqs[i]
        BY <2>1, Zenon DEF IsFlat
      <4>2. QED BY <2>5, <4>1, Zenon
    <3>4. CASE k = 1
      <4>1. g[k - 1] = <<>> /\ f[k] = seqs[k]
        BY <2>4, <3>1, <3>3, <3>4, Zenon
      <4>2. seqs[k] \in Seq(Octets)
        BY <2>5, Zenon
      <4>3. <<>> \o seqs[k] = seqs[k]
        BY <4>2, Nothing0, Zenon
      <4>4. QED BY <3>2, <4>1, <4>3, Zenon
    <3>5. CASE k # 1
      <4>1. g[k - 1] = f[k - 1]
        BY <3>1, <3>5, Zenon
      <4>2. QED BY <3>2, <3>3, <3>5, <4>1, Zenon
    <3>6. QED BY <3>4, <3>5
  <2>6. \A k \in 0..n : g[k] \in Seq(Octets)
    <3> DEFINE T == {k \in 0..n : ~(g[k] \in Seq(Octets))}
    <3> HIDE DEF g
    <3> SUFFICES ASSUME T # {} PROVE FALSE
      OBVIOUS
    <3>1. PICK k \in T : \A j \in T : k <= j
      <4>1. T \in SUBSET Nat
        OBVIOUS
      <4>2. QED BY <4>1, Least, Zenon
    <3>2. CASE k = 0
      BY <2>4, <3>1, <3>2, Nothing0
    <3>3. CASE k # 0
      <4>1. k \in 1..n /\ k - 1 \in 0..n /\ ~(k <= k - 1)
        BY <3>1, <3>3
      <4>2. g[k - 1] \in Seq(Octets) /\ seqs[k] \in Seq(Octets)
        BY <3>1, <4>1, Zenon
      <4>3. g[k] = g[k - 1] \o seqs[k]
        BY <2>5, <4>1, <4>2, Zenon
      <4>4. g[k] \in Seq(Octets)
        BY <4>2, <4>3, OctetsJoined, Zenon
      <4>5. QED BY <3>1, <4>4
    <3>4. QED BY <3>2, <3>3
  <2>7. ASSUME NEW k \in 1..n PROVE g[k] = g[k - 1] \o seqs[k]
    <3>1. k - 1 \in 0..n
      BY <2>7
    <3>2. QED BY <2>5, <2>6, <2>7, <3>1, Zenon
  <2> HIDE DEF g
  <2>8. Joins(g, seqs, n)
    BY <2>4, <2>6, <2>7, Zenon DEF Joins
  <2>9. QED BY <2>2, <2>4, <2>8, Zenon
<1>4. QED BY <1>2, <1>3

\* Each sequence stands where those before it end.
LEMMA JoinsAt ==
    ASSUME NEW n \in Nat, NEW seqs, seqs \in [1..n -> Seq(Octets)], NEW g, Joins(g, seqs, n)
    PROVE  \A m \in 0..n : \A k \in 1..m : At(g[m], Len(g[k - 1]), seqs[k])
<1> DEFINE Lies(m) == \A k \in 1..m : At(g[m], Len(g[k - 1]), seqs[k])
           T == {m \in 0..n : ~Lies(m)}
<1> SUFFICES ASSUME T # {} PROVE FALSE
  OBVIOUS
<1> HIDE DEF Lies
<1>1. PICK m \in T : \A j \in T : m <= j
  <2>1. T \in SUBSET Nat
    OBVIOUS
  <2>2. QED BY <2>1, Least, Zenon
<1>2. CASE m = 0
  <2>1. \A k \in 1..m : FALSE
    BY <1>2
  <2>2. Lies(m)
    BY <2>1, Zenon DEF Lies
  <2>3. QED BY <1>1, <2>2
<1>3. CASE m # 0
  <2>1. m \in 1..n /\ m - 1 \in 0..n /\ ~(m <= m - 1)
    BY <1>1, <1>3
  <2>2. Lies(m - 1)
    BY <1>1, <2>1, Zenon
  <2>3. /\ g[m - 1] \in Seq(Octets) /\ seqs[m] \in Seq(Octets) /\ g[m] = g[m - 1] \o seqs[m]
    BY <2>1, Zenon DEF Joins
  <2>4. /\ At(g[m], Len(g[m - 1]), seqs[m])
        /\ \A p \in Nat : \A t \in Seq(Octets) : At(g[m - 1], p, t) => At(g[m], p, t)
    BY <2>3, AtJoined, Zenon
  <2>5. ASSUME NEW k \in 1..m PROVE At(g[m], Len(g[k - 1]), seqs[k])
    <3>1. CASE k = m
      BY <2>4, <3>1
    <3>2. CASE k # m
      <4>1. k \in 1..(m - 1) /\ k - 1 \in 0..n /\ k \in 1..n
        BY <2>1, <2>5, <3>2
      <4>2. At(g[m - 1], Len(g[k - 1]), seqs[k])
        BY <2>2, <4>1, Zenon DEF Lies
      <4>3. g[k - 1] \in Seq(Octets) /\ seqs[k] \in Seq(Octets)
        BY <4>1, Zenon DEF Joins
      <4>4. Len(g[k - 1]) \in Nat
        BY <4>3, OctetsNat, Zenon
      <4>5. QED BY <2>4, <4>2, <4>3, <4>4, Zenon
    <3>3. QED BY <3>1, <3>2
  <2>6. Lies(m)
    BY <2>5, Zenon DEF Lies
  <2>7. QED BY <1>1, <2>6
<1>4. QED BY <1>2, <1>3

\* What is put in front moves a string that stands somewhere.
LEMMA AtShifted ==
    ASSUME NEW a \in Seq(Octets), NEW b \in Seq(Octets), NEW p \in Nat, NEW t \in Seq(Octets),
           At(b, p, t)
    PROVE  At(a \o b, Len(a) + p, t)
<1>1. Len(t) \in Nat /\ Len(a) \in Nat /\ Len(b) \in Nat /\ p + Len(t) <= Len(b)
  BY DEF At
<1>2. ASSUME NEW j \in 1..Len(t) PROVE (a \o b)[Len(a) + p + j] = t[j]
  <2>1. p + j \in 1..Len(b) /\ Len(a) + (p + j) = Len(a) + p + j
    BY <1>1
  <2>2. b[p + j] = t[j]
    BY DEF At
  <2>3. (a \o b)[Len(a) + (p + j)] = b[p + j]
    BY <2>1, SeqJoined
  <2>4. QED BY <2>1, <2>2, <2>3
<1>3. Len(a) + p + Len(t) <= Len(a \o b)
  BY <1>1, SeqJoined
<1>4. QED BY <1>2, <1>3 DEF At

\* OIDs as X.660 has them.
Oids == {a \in Seq(Nat) : Len(a) >= 2 /\ a[1] \in 0..2 /\ (a[1] < 2 => a[2] < 40)}

\* What the decoder collects: the first arc stands for two.
Ids(arcs) == [i \in 1..(Len(arcs) - 1) |-> IF i = 1 THEN 40 * arcs[1] + arcs[2] ELSE arcs[i + 1]]

\* The sizes and arcs of an OID and of what the decoder collects of it.
LEMMA OidFirst ==
    ASSUME NEW arcs \in Oids
    PROVE  \E m \in Nat, n \in Nat :
               /\ m = Len(arcs) /\ m = n + 2 /\ m - 2 = n /\ m - 1 = n + 1
               /\ arcs \in Seq(Nat) /\ \A i \in 1..m : arcs[i] \in Nat
               /\ 40 * arcs[1] + arcs[2] \in Nat
               /\ Ids(arcs) \in Seq(Nat) /\ Len(Ids(arcs)) = n + 1
               /\ Ids(arcs)[1] = 40 * arcs[1] + arcs[2]
               /\ \A i \in 1..n : Ids(arcs)[i + 1] = arcs[i + 2]
<1>1. arcs \in Seq(Nat) /\ Len(arcs) >= 2
  BY Zenon DEF Oids
<1>2. PICK m : m = Len(arcs)
  OBVIOUS
<1>3. m \in Nat /\ \A i \in 1..m : arcs[i] \in Nat
  BY <1>1, <1>2, SeqParts, Zenon
<1>4. m >= 2
  BY <1>1, <1>2, Zenon
<1>5. PICK n \in Nat : m = n + 2 /\ m - 2 = n /\ m - 1 = n + 1
  <2>1. m - 2 \in Nat /\ m = m - 2 + 2 /\ m - 1 = m - 2 + 1
    BY <1>3, <1>4
  <2>2. QED BY <2>1, Zenon
<1>6. 1 \in 1..m /\ 2 \in 1..m
  BY <1>3, <1>4
<1>7. PICK x : x = 40 * arcs[1] + arcs[2]
  OBVIOUS
<1>8. x \in Nat
  <2>1. arcs[1] \in Nat /\ arcs[2] \in Nat
    BY <1>3, <1>6
  <2>2. QED BY <1>7, <2>1
<1>9. PICK s : s = [i \in 1..(n + 1) |-> IF i = 1 THEN x ELSE arcs[i + 1]]
  OBVIOUS
<1>10. s = Ids(arcs)
  BY <1>2, <1>5, <1>7, <1>9, Zenon DEF Ids
<1>11. ASSUME NEW i \in 1..(n + 1) PROVE s[i] \in Nat
  <2>1. i + 1 \in 1..m
    BY <1>5
  <2>2. s[i] = IF i = 1 THEN x ELSE arcs[i + 1]
    BY <1>9, Zenon
  <2>3. CASE i = 1
    BY <1>8, <2>2, <2>3
  <2>4. CASE i # 1
    BY <1>3, <2>1, <2>2, <2>4
  <2>5. QED BY <2>3, <2>4
<1>12. s \in Seq(Nat) /\ Len(s) = n + 1
  BY <1>9, <1>11
<1>13. s[1] = x
  <2>1. 1 \in 1..(n + 1)
    OBVIOUS
  <2>2. QED BY <1>9, <2>1, Zenon
<1>14. ASSUME NEW i \in 1..n PROVE s[i + 1] = arcs[i + 2]
  <2>1. i + 1 \in 1..(n + 1) /\ i + 1 # 1 /\ i + 1 + 1 = i + 2
    OBVIOUS
  <2>2. QED BY <1>9, <2>1, Zenon
<1>15. QED BY <1>1, <1>2, <1>3, <1>5, <1>7, <1>8, <1>10, <1>12, <1>13, <1>14, Zenon

\* A prefix of a sequence grows by one element.
LEMMA PrefixGrows ==
    ASSUME NEW S, NEW s \in Seq(S)
    PROVE  /\ SubSeq(s, 1, 0) = <<>> /\ SubSeq(s, 1, Len(s)) = s
           /\ \A k \in 0..(Len(s) - 1) : SubSeq(s, 1, k + 1) = Append(SubSeq(s, 1, k), s[k + 1])
<1>1. SubSeq(s, 1, 0) = <<>>
  OBVIOUS
<1>2. SubSeq(s, 1, Len(s)) = s
  OBVIOUS
<1>3. ASSUME NEW k \in 0..(Len(s) - 1)
      PROVE  SubSeq(s, 1, k + 1) = Append(SubSeq(s, 1, k), s[k + 1])
  <2>1. /\ SubSeq(s, 1, k + 1) \in Seq(S) /\ Len(SubSeq(s, 1, k + 1)) = k + 1
        /\ \A i \in 1..(k + 1) : SubSeq(s, 1, k + 1)[i] = s[i]
    OBVIOUS
  <2>2. /\ SubSeq(s, 1, k) \in Seq(S) /\ Len(SubSeq(s, 1, k)) = k /\ s[k + 1] \in S
        /\ \A i \in 1..k : SubSeq(s, 1, k)[i] = s[i]
    OBVIOUS
  <2>3. /\ Append(SubSeq(s, 1, k), s[k + 1]) \in Seq(S)
        /\ Len(Append(SubSeq(s, 1, k), s[k + 1])) = k + 1
        /\ \A i \in 1..k : Append(SubSeq(s, 1, k), s[k + 1])[i] = SubSeq(s, 1, k)[i]
        /\ Append(SubSeq(s, 1, k), s[k + 1])[k + 1] = s[k + 1]
    BY <2>2
  <2>4. ASSUME NEW i \in 1..(k + 1)
        PROVE  SubSeq(s, 1, k + 1)[i] = Append(SubSeq(s, 1, k), s[k + 1])[i]
    BY <2>1, <2>2, <2>3
  <2>5. QED BY <2>1, <2>3, <2>4, Same
<1>4. QED BY <1>1, <1>2, <1>3

\* The first two arcs are found in the number that stands for them.
LEMMA OidSplit ==
    ASSUME NEW arcs \in Oids
    PROVE  OidOf(Ids(arcs)) = arcs
<1>1. PICK m \in Nat, n \in Nat :
          /\ m = Len(arcs) /\ m = n + 2 /\ m - 2 = n /\ m - 1 = n + 1
          /\ arcs \in Seq(Nat) /\ \A i \in 1..m : arcs[i] \in Nat
          /\ 40 * arcs[1] + arcs[2] \in Nat
          /\ Ids(arcs) \in Seq(Nat) /\ Len(Ids(arcs)) = n + 1
          /\ Ids(arcs)[1] = 40 * arcs[1] + arcs[2]
          /\ \A i \in 1..n : Ids(arcs)[i + 1] = arcs[i + 2]
  BY OidFirst, Zenon
<1>2. PICK s : s = Ids(arcs)
  OBVIOUS
<1>3. m = n + 2 /\ s \in Seq(Nat) /\ Len(s) = n + 1 /\ arcs \in Seq(Nat) /\ Len(arcs) = m
  BY <1>1, <1>2, Zenon
<1>4. PICK x, y : x = arcs[1] /\ y = arcs[2]
  OBVIOUS
<1>5. x \in 0..2 /\ (x < 2 => y < 40)
  BY <1>4, Zenon DEF Oids
<1>6. y \in Nat
  <2>1. 2 \in 1..m
    BY <1>3
  <2>2. QED BY <1>1, <1>4, <2>1, Zenon
<1>7. PICK a : a = IF s[1] < 40 THEN <<0, s[1]>>
                   ELSE IF s[1] < 80 THEN <<1, s[1] - 40>> ELSE <<2, s[1] - 80>>
  OBVIOUS
<1>8. a = <<x, y>>
  <2>1. s[1] = 40 * x + y
    BY <1>1, <1>2, <1>4, Zenon
  <2>2. CASE x = 0
    <3>1. s[1] = y /\ s[1] < 40
      BY <1>5, <1>6, <2>1, <2>2
    <3>2. QED BY <1>7, <2>2, <3>1, Zenon
  <2>3. CASE x = 1
    <3>1. s[1] - 40 = y /\ s[1] < 80 /\ ~(s[1] < 40)
      BY <1>5, <1>6, <2>1, <2>3
    <3>2. QED BY <1>7, <2>3, <3>1, Zenon
  <2>4. CASE x = 2
    <3>1. s[1] - 80 = y /\ ~(s[1] < 80) /\ ~(s[1] < 40)
      BY <1>6, <2>1, <2>4
    <3>2. QED BY <1>7, <2>4, <3>1, Zenon
  <2>5. x = 0 \/ x = 1 \/ x = 2
    BY <1>5
  <2>6. QED BY <2>2, <2>3, <2>4, <2>5
<1>9. a \in Seq(Nat) /\ Len(a) = 2 /\ a[1] = x /\ a[2] = y
  <2>1. x \in Nat
    BY <1>5
  <2>2. <<x, y>> \in Seq(Nat) /\ Len(<<x, y>>) = 2 /\ <<x, y>>[1] = x /\ <<x, y>>[2] = y
    BY <1>6, <2>1
  <2>3. QED BY <1>8, <2>2, Zenon
<1>10. PICK t : t = Tail(s)
  OBVIOUS
<1>11. t \in Seq(Nat) /\ Len(t) = n /\ \A i \in 1..n : t[i] = s[i + 1]
  BY <1>3, <1>10
<1>12. PICK z : z = a \o t
  OBVIOUS
<1>13. z \in Seq(Nat) /\ Len(z) = m /\ \A i \in 1..m : z[i] = arcs[i]
  <2>1. /\ z \in Seq(Nat) /\ Len(z) = Len(a) + Len(t)
        /\ \A i \in 1..Len(a) : z[i] = a[i]
        /\ \A i \in 1..Len(t) : z[Len(a) + i] = t[i]
    <3>1. a \in Seq(Nat) /\ t \in Seq(Nat)
      BY <1>9, <1>11
    <3>2. /\ a \o t \in Seq(Nat) /\ Len(a \o t) = Len(a) + Len(t)
          /\ \A i \in 1..Len(a) : (a \o t)[i] = a[i]
          /\ \A i \in 1..Len(t) : (a \o t)[Len(a) + i] = t[i]
      BY <3>1, SeqJoined
    <3>3. QED BY <1>12, <3>2, Zenon
  <2>2. Len(a) = 2 /\ Len(t) = n
    BY <1>9, <1>11
  <2>3. Len(z) = 2 + n /\ (\A i \in 1..2 : z[i] = a[i]) /\ \A i \in 1..n : z[2 + i] = t[i]
    BY <2>1, <2>2, Zenon
  <2>4. 2 + n = m /\ 1 \in 1..2 /\ 2 \in 1..2
    BY <1>3
  <2>5. ASSUME NEW i \in 1..m PROVE z[i] = arcs[i]
    <3>1. CASE i = 1
      BY <1>4, <1>9, <2>3, <2>4, <3>1, Zenon
    <3>2. CASE i = 2
      BY <1>4, <1>9, <2>3, <2>4, <3>2, Zenon
    <3>3. CASE i # 1 /\ i # 2
      <4>1. PICK j \in 1..n : 2 + j = i /\ j + 2 = i
        <5>1. i - 2 \in 1..n /\ 2 + (i - 2) = i /\ i - 2 + 2 = i
          BY <1>3, <2>5, <3>3
        <5>2. QED BY <5>1, Zenon
      <4>2. z[2 + j] = t[j] /\ t[j] = s[j + 1]
        BY <1>11, <2>3, <4>1, Zenon
      <4>3. s[j + 1] = arcs[j + 2]
        BY <1>1, <1>2, <4>1, Zenon
      <4>4. QED BY <4>1, <4>2, <4>3, Zenon
    <3>4. QED BY <3>1, <3>2, <3>3
  <2>6. QED BY <2>1, <2>3, <2>4, <2>5, Zenon
<1>14. z = arcs
  BY <1>3, <1>13, Same, Zenon
<1>15. QED BY <1>2, <1>7, <1>10, <1>12, <1>14, Zenon DEF OidOf

LEMMA FoldStarts ==
    ASSUME NEW v, NEW s, Run(v, "arcs", s)
    PROVE  Whole(v, 0, <<>>)
<1>1. "arcs" # "number"
  OBVIOUS
<1>2. QED BY <1>1, Zenon DEF Run, Fresh, Whole, Reading

\* The decoder reads back the arcs that the encoder has written, for every OID.
THEOREM OidReadsBack ==
    ASSUME NEW arcs \in Oids
    PROVE  EncodeOid(arcs) \in Seq(Octets) /\ DecodeOid(EncodeOid(arcs)) = arcs
<1>1. PICK m \in Nat, n \in Nat :
          /\ m = Len(arcs) /\ m = n + 2 /\ m - 2 = n /\ m - 1 = n + 1
          /\ arcs \in Seq(Nat) /\ \A i \in 1..m : arcs[i] \in Nat
          /\ 40 * arcs[1] + arcs[2] \in Nat
          /\ Ids(arcs) \in Seq(Nat) /\ Len(Ids(arcs)) = n + 1
          /\ Ids(arcs)[1] = 40 * arcs[1] + arcs[2]
          /\ \A i \in 1..n : Ids(arcs)[i + 1] = arcs[i + 2]
  BY OidFirst, Zenon
<1>2. PICK s : s = Ids(arcs)
  OBVIOUS
<1>3. PICK x : x = 40 * arcs[1] + arcs[2]
  OBVIOUS
<1>4. PICK e : e = EncodeArc(x)
  OBVIOUS
<1>5. x \in Nat /\ e \in Seq(Octets)
  <2>1. x \in Nat
    BY <1>1, <1>3, Zenon
  <2>2. QED BY <1>4, <2>1, ArcOctets, Zenon
<1>6. PICK q : q = [i \in 1..n |-> EncodeArc(arcs[i + 2])]
  OBVIOUS
<1>7. ASSUME NEW i \in 1..n
      PROVE  q[i] = EncodeArc(s[i + 1]) /\ s[i + 1] \in Nat /\ q[i] \in Seq(Octets)
  <2>1. i + 2 \in 1..m
    BY <1>1
  <2>2. arcs[i + 2] \in Nat /\ s[i + 1] = arcs[i + 2]
    BY <1>1, <1>2, <2>1, Zenon
  <2>3. q[i] = EncodeArc(arcs[i + 2])
    BY <1>6, Zenon
  <2>4. QED BY <2>2, <2>3, ArcOctets, Zenon
<1>8. q \in [1..n -> Seq(Octets)]
  <2>1. \A i \in 1..n : EncodeArc(arcs[i + 2]) \in Seq(Octets)
    BY <1>6, <1>7, Zenon
  <2>2. QED BY <1>6, <2>1, Zenon
<1>9. PICK g : Joins(g, q, n) /\ FlattenSeq(q) = g[n]
  BY <1>8, FlatJoins, Zenon
<1>10. PICK b : b = e \o g[n]
  OBVIOUS
<1>11. 0 \in 0..n /\ n \in 0..n
  OBVIOUS
<1>12. b = EncodeOid(arcs)
  BY <1>1, <1>3, <1>4, <1>6, <1>9, <1>10, Zenon DEF EncodeOid
<1>13. g[n] \in Seq(Octets)
  BY <1>9, <1>11, Zenon DEF Joins
<1>14. b \in Seq(Octets)
  BY <1>5, <1>10, <1>13, OctetsJoined, Zenon
<1>15. PICK v : Run(v, "arcs", b) /\ DecodeOid(b) = OidOf(v[Len(b)].arcs)
  <2>1. b \in Seq(Nat)
    BY <1>14, OctetsNat, Zenon
  <2>2. QED BY <2>1, ArcsRun, Zenon
<1>16. Len(e) \in Nat /\ s \in Seq(Nat) /\ Len(s) - 1 = n
  <2>1. Len(e) \in Nat
    BY <1>5, OctetsNat, Zenon
  <2>2. s \in Seq(Nat) /\ Len(s) = n + 1
    BY <1>1, <1>2, Zenon
  <2>3. Len(s) - 1 = n
    BY <2>2
  <2>4. QED BY <2>1, <2>2, <2>3
<1>17. /\ SubSeq(s, 1, 0) = <<>> /\ SubSeq(s, 1, Len(s)) = s
       /\ \A k \in 0..n : SubSeq(s, 1, k + 1) = Append(SubSeq(s, 1, k), s[k + 1])
  <2>1. /\ SubSeq(s, 1, 0) = <<>> /\ SubSeq(s, 1, Len(s)) = s
        /\ \A k \in 0..(Len(s) - 1) : SubSeq(s, 1, k + 1) = Append(SubSeq(s, 1, k), s[k + 1])
    BY <1>16, PrefixGrows
  <2>2. QED BY <1>16, <2>1, Zenon
<1> DEFINE Good(k) == Whole(v, Len(e) + Len(g[k]), SubSeq(s, 1, k + 1))
<1>18. Good(0)
  <2>1. Whole(v, 0, <<>>)
    BY <1>15, FoldStarts, Zenon
  <2>2. At(b, 0, e)
    BY <1>5, <1>10, <1>13, AtJoined, Zenon
  <2>3. Whole(v, 0 + Len(e), Append(<<>>, x))
    BY <1>4, <1>5, <1>14, <1>15, <2>1, <2>2, ArcRead, Zenon
  <2>4. Append(<<>>, x) = SubSeq(s, 1, 0 + 1)
    <3>1. s[0 + 1] = x
      <4>1. 0 + 1 = 1
        OBVIOUS
      <4>2. QED BY <1>1, <1>2, <1>3, <4>1, Zenon
    <3>2. QED BY <1>11, <1>17, <3>1, Zenon
  <2>5. Len(g[0]) = 0
    <3>1. g[0] = <<>>
      BY <1>9, Zenon DEF Joins
    <3>2. QED BY <3>1, Nothing0, Zenon
  <2>6. 0 + Len(e) = Len(e) + Len(g[0])
    BY <1>16, <2>5
  <2>7. QED BY <2>3, <2>4, <2>6, Zenon
<1>19. ASSUME NEW k \in 1..n, Good(k - 1) PROVE Good(k)
  <2>1. k - 1 \in 0..n /\ k \in 0..n /\ n \in 0..n /\ k - 1 + 1 = k
    BY <1>19
  <2>2. g[k - 1] \in Seq(Octets) /\ q[k] \in Seq(Octets) /\ g[k] = g[k - 1] \o q[k]
    BY <1>7, <1>9, <1>19, <2>1, Zenon DEF Joins
  <2>3. Len(g[k - 1]) \in Nat /\ Len(q[k]) \in Nat
    BY <2>2, OctetsNat, Zenon
  <2>4. Len(g[k]) = Len(g[k - 1]) + Len(q[k])
    BY <2>2, OctetsJoined, Zenon
  <2>5. At(g[n], Len(g[k - 1]), q[k])
    BY <1>8, <1>9, <1>19, <2>1, JoinsAt, Zenon
  <2>6. At(b, Len(e) + Len(g[k - 1]), q[k])
    BY <1>5, <1>10, <1>13, <2>2, <2>3, <2>5, AtShifted, Zenon
  <2>7. Whole(v, Len(e) + Len(g[k - 1]), SubSeq(s, 1, k))
    BY <1>19, <2>1, Zenon
  <2>8. PICK p \in Nat : p = Len(e) + Len(g[k - 1])
    BY <1>16, <2>3
  <2>9. PICK a : a = s[k + 1]
    OBVIOUS
  <2>10. a \in Nat /\ q[k] = EncodeArc(a)
    BY <1>7, <1>19, <2>9, Zenon
  <2>11. At(b, p, EncodeArc(a)) /\ Whole(v, p, SubSeq(s, 1, k))
    BY <2>6, <2>7, <2>8, <2>10, Zenon
  <2>12. Whole(v, p + Len(EncodeArc(a)), Append(SubSeq(s, 1, k), a))
    BY <1>14, <1>15, <2>8, <2>10, <2>11, ArcRead, Zenon
  <2>13. p + Len(EncodeArc(a)) = Len(e) + Len(g[k])
    <3>1. Len(e) + Len(g[k - 1]) + Len(q[k]) = Len(e) + (Len(g[k - 1]) + Len(q[k]))
      <4>1. PICK i \in Nat, j \in Nat, l \in Nat :
                i = Len(e) /\ j = Len(g[k - 1]) /\ l = Len(q[k])
        BY <1>16, <2>3, Zenon
      <4>2. i \in Nat /\ j \in Nat /\ l \in Nat
        BY <4>1, Zenon
      <4>3. i + j + l = i + (j + l)
        BY <4>2
      <4>4. QED BY <4>1, <4>3, Zenon
    <3>2. QED BY <2>4, <2>8, <2>10, <3>1, Zenon
  <2>14. Append(SubSeq(s, 1, k), a) = SubSeq(s, 1, k + 1)
    BY <1>17, <2>1, <2>9, Zenon
  <2>15. QED BY <2>12, <2>13, <2>14, Zenon
<1>20. Good(n)
  <2> DEFINE T == {k \in 0..n : ~Good(k)}
  <2> HIDE DEF Good
  <2>0. T \in SUBSET Nat
    OBVIOUS
  <2>1. T = {}
    <3> SUFFICES ASSUME T # {} PROVE FALSE
      OBVIOUS
    <3>1. PICK k \in T : \A j \in T : k <= j
      BY <2>0, Least, Zenon
    <3>2. k # 0
      BY <1>18, <3>1
    <3>3. k \in 1..n /\ k - 1 \in 0..n /\ ~(k <= k - 1)
      BY <3>1, <3>2
    <3>4. Good(k - 1)
      BY <3>1, <3>3, Zenon
    <3>5. QED BY <1>19, <3>1, <3>3, <3>4, Zenon
  <2>2. QED BY <1>11, <2>1, Zenon
<1>21. Len(b) = Len(e) + Len(g[n])
  BY <1>5, <1>10, <1>13, OctetsJoined, Zenon
<1>22. SubSeq(s, 1, n + 1) = s
  <2>1. Len(s) = n + 1
    BY <1>1, <1>2, Zenon
  <2>2. QED BY <1>17, <2>1, Zenon
<1>23. v[Len(b)] = Reading(s, 0)
  BY <1>20, <1>21, <1>22, Zenon DEF Whole
<1>24. v[Len(b)].arcs = s
  <2>1. Reading(s, 0).arcs = s
    BY DEF Reading
  <2>2. QED BY <1>23, <2>1, Zenon
<1>25. QED BY <1>2, <1>12, <1>14, <1>15, <1>24, OidSplit, Zenon

(***************************************************************************)
(* The statements of an extension are read back                            *)
(***************************************************************************)

\* A statement about an OID stands between two offsets.
StatementAt(b, p, oid, next) ==
    \E more \in Seq(Octets) :
        /\ Short(EncodeOid(oid)) /\ Short(Tlv(6, EncodeOid(oid)) \o more)
        /\ At(b, p, Statement(oid, more)) /\ next = p + Len(Statement(oid, more))

IsRead(r, tag, c, next) == r.tag = tag /\ r.content = c /\ r.next = next

\* TlvReadsBack, field by field.
LEMMA TlvIsRead ==
    ASSUME NEW b \in Seq(Octets), NEW p \in Nat, NEW tag \in Octets, NEW c, Short(c),
           At(b, p, Tlv(tag, c))
    PROVE  IsRead(ReadTlv(b, p + 1), tag, c, p + 1 + Len(Tlv(tag, c)))
<1>1. ReadTlv(b, p + 1) = [tag |-> tag, content |-> c, next |-> p + 1 + Len(Tlv(tag, c))]
  BY TlvReadsBack
<1>2. PICK r : r = ReadTlv(b, p + 1)
  OBVIOUS
<1>3. PICK z : z = p + 1 + Len(Tlv(tag, c))
  OBVIOUS
<1>4. r = [tag |-> tag, content |-> c, next |-> z]
  BY <1>1, <1>2, <1>3, Zenon
<1>5. r.tag = tag /\ r.content = c /\ r.next = z
  BY <1>4
<1>6. QED BY <1>2, <1>3, <1>5, Zenon DEF IsRead

\* The loop reads the OID of a statement, and goes on where the statement ends.
LEMMA StatementRead ==
    ASSUME NEW b \in Seq(Octets), NEW p \in Nat, NEW oid \in Oids, NEW next,
           StatementAt(b, p, oid, next)
    PROVE  /\ next \in Nat /\ next >= p + 4 /\ next <= Len(b)
           /\ ReadTlv(b, p + 1).next = next + 1
           /\ ReadTlv(ReadTlv(b, p + 1).content, 1).tag = 6
           /\ DecodeOid(ReadTlv(ReadTlv(b, p + 1).content, 1).content) = oid
<1>1. PICK more \in Seq(Octets) :
          /\ Short(EncodeOid(oid)) /\ Short(Tlv(6, EncodeOid(oid)) \o more)
          /\ At(b, p, Statement(oid, more)) /\ next = p + Len(Statement(oid, more))
  BY Zenon DEF StatementAt
<1>2. PICK e : e = EncodeOid(oid)
  OBVIOUS
<1>3. PICK o : o = Tlv(6, e)
  OBVIOUS
<1>4. PICK c : c = o \o more
  OBVIOUS
<1>5. PICK t : t = Tlv(48, c)
  OBVIOUS
<1>6. t = Statement(oid, more) /\ Short(e) /\ Short(c) /\ At(b, p, t) /\ next = p + Len(t)
  BY <1>1, <1>2, <1>3, <1>4, <1>5, Zenon DEF Statement
<1>7. 6 \in Octets /\ 48 \in Octets /\ 0 \in Nat
  BY DEF Octets
<1>8. PICK j \in 2..5 : o \in Seq(Octets) /\ Len(o) = Len(e) + j
  BY <1>3, <1>6, <1>7, TlvOctets, Zenon
<1>9. PICK k \in 2..5 : t \in Seq(Octets) /\ Len(t) = Len(c) + k
  BY <1>5, <1>6, <1>7, TlvOctets, Zenon
<1>10. c \in Seq(Octets)
  BY <1>6, Zenon DEF Short
<1>11. next \in Nat /\ next >= p + 4 /\ next <= Len(b)
  <2>1. PICK n \in Nat, m \in Nat : n = Len(c) /\ m = Len(b)
    BY <1>10, OctetsNat, Zenon
  <2>0. n >= 2
    <3>1. PICK x \in Nat, y \in Nat : x = Len(e) /\ y = Len(more)
      BY <1>1, <1>6, OctetsNat, Zenon DEF Short
    <3>2. n = (x + j) + y
      <4>1. Len(c) = Len(o) + Len(more)
        BY <1>1, <1>4, <1>8, OctetsJoined
      <4>2. QED BY <1>8, <2>1, <3>1, <4>1, Zenon
    <3>3. x \in Nat /\ y \in Nat /\ j \in 2..5
      BY <1>8, <3>1, Zenon
    <3>4. QED BY <3>2, <3>3
  <2>2. n \in Nat /\ m \in Nat /\ k \in 2..5
    BY <1>9, <2>1, Zenon
  <2>3. next = p + (n + k) /\ p + (n + k) <= m
    BY <1>6, <1>9, <2>1, Zenon DEF At
  <2>4. next \in Nat /\ next >= p + 4 /\ next <= m
    BY <2>0, <2>2, <2>3
  <2>5. QED BY <2>1, <2>4, Zenon
<1>12. IsRead(ReadTlv(b, p + 1), 48, c, p + 1 + Len(t))
  BY <1>5, <1>6, <1>7, TlvIsRead, Zenon
<1>13. At(c, 0, o)
  BY <1>4, <1>8, AtJoined, Zenon
<1>14. IsRead(ReadTlv(c, 0 + 1), 6, e, 0 + 1 + Len(o))
  BY <1>3, <1>6, <1>7, <1>10, <1>13, TlvIsRead, Zenon
<1>15. DecodeOid(e) = oid
  BY <1>2, OidReadsBack
<1>16. p + 1 + Len(t) = next + 1
  <2>1. PICK n \in Nat : n = Len(t)
    BY <1>9, OctetsNat, Zenon
  <2>2. n \in Nat
    BY <2>1, Zenon
  <2>3. p + 1 + n = p + n + 1
    BY <2>2
  <2>4. QED BY <1>6, <2>1, <2>3, Zenon
<1>17. 0 + 1 = 1
  OBVIOUS
<1>18. ReadTlv(b, p + 1).content = c /\ ReadTlv(b, p + 1).next = next + 1
  BY <1>12, <1>16, Zenon DEF IsRead
<1>19. ReadTlv(c, 1).tag = 6 /\ ReadTlv(c, 1).content = e
  BY <1>14, <1>17, Zenon DEF IsRead
<1>20. QED BY <1>11, <1>15, <1>18, <1>19, Zenon

\* One turn of the loop over the statements.
Statements(c, s) ==
    LET stmt == ReadTlv(c, s.at)
        oid  == ReadTlv(stmt.content, 1)
    IN [at |-> stmt.next,
        lines |-> IF oid.tag = 6 THEN Append(s.lines, DecodeOid(oid.content)) ELSE s.lines]

Turn(c, n, s)    == IF s.at > n THEN s ELSE Statements(c, s)
Listed(at, q) == [at |-> at, lines |-> q]

IsLoop(f, c, n, m) ==
    f = [k \in 0..m |-> IF k = 0 THEN Listed(1, <<>>) ELSE Turn(c, n, f[k - 1])]

\* The function of the loop exists.
LEMMA LoopExists ==
    ASSUME NEW c, NEW n
    PROVE  \A m \in Nat : \E f : IsLoop(f, c, n, m)
<1> DEFINE T == {m \in Nat : ~ \E f : IsLoop(f, c, n, m)}
<1> SUFFICES ASSUME T # {} PROVE FALSE
  OBVIOUS
<1>1. PICK m \in T : \A k \in T : m <= k
  BY Least
<1>2. CASE m = 0
  <2> DEFINE f == [k \in 0..m |-> Listed(1, <<>>)]
  <2>1. ASSUME NEW k \in 0..m PROVE k = 0
    BY <1>2, <2>1
  <2>2. f = [k \in 0..m |-> IF k = 0 THEN Listed(1, <<>>) ELSE Turn(c, n, f[k - 1])]
    BY <2>1, Zenon
  <2>3. IsLoop(f, c, n, m)
    BY <2>2, Zenon DEF IsLoop
  <2>4. QED BY <2>3, Zenon
<1>3. CASE m # 0
  <2>1. m - 1 \in Nat /\ m - 1 < m /\ m \in Nat /\ m >= 1
    BY <1>3
  <2>2. PICK g : IsLoop(g, c, n, m - 1)
    BY <1>1, <2>1
  <2> DEFINE f == [k \in 0..m |-> IF k = m THEN Turn(c, n, g[k - 1]) ELSE g[k]]
  <2>3. ASSUME NEW k \in 0..m
        PROVE  f[k] = IF k = 0 THEN Listed(1, <<>>) ELSE Turn(c, n, f[k - 1])
    <3>1. k # 0 => k - 1 \in 0..m /\ k - 1 # m
      BY <2>1, <2>3
    <3>2. k # m => k \in 0..(m - 1)
      BY <2>1, <2>3
    <3>3. k # 0 => f[k - 1] = g[k - 1]
      BY <3>1, Zenon
    <3>4. k # m => g[k] = IF k = 0 THEN Listed(1, <<>>) ELSE Turn(c, n, g[k - 1])
      <4>1. \A j \in 0..(m - 1) : g[j] = IF j = 0 THEN Listed(1, <<>>) ELSE Turn(c, n, g[j - 1])
        BY <2>2, Zenon DEF IsLoop
      <4>2. QED BY <3>2, <4>1, Zenon
    <3>5. k = m => k # 0
      BY <1>3
    <3>6. f[k] = IF k = 0 THEN Listed(1, <<>>) ELSE Turn(c, n, g[k - 1])
      BY <2>3, <3>4, <3>5, Zenon
    <3>7. QED BY <3>3, <3>6, Zenon
  <2>4. f = [k \in 0..m |-> IF k = 0 THEN Listed(1, <<>>) ELSE Turn(c, n, f[k - 1])]
    BY <2>3, Zenon
  <2>5. IsLoop(f, c, n, m)
    BY <2>4, Zenon DEF IsLoop
  <2>6. QED BY <2>5, Zenon
<1>4. QED BY <1>2, <1>3

\* FormatQcStatements is such a loop, over the content of the outer sequence.
LEMMA FormatLoop ==
    ASSUME NEW der, ReadTlv(der, 1).tag = 48
    PROVE  \E c, f :
               /\ c = ReadTlv(der, 1).content
               /\ Len(c) \div 4 \in Nat => IsLoop(f, c, Len(c), Len(c) \div 4)
               /\ f[Len(c) \div 4].lines # <<>>
                      => FormatQcStatements(der) = f[Len(c) \div 4].lines
<1>1. PICK c : c = ReadTlv(der, 1).content
  OBVIOUS
<1>2. PICK f : f = CHOOSE g : IsLoop(g, ReadTlv(der, 1).content,
                         Len(ReadTlv(der, 1).content), Len(ReadTlv(der, 1).content) \div 4)
  OBVIOUS
<1>3. Len(c) \div 4 \in Nat => IsLoop(f, c, Len(c), Len(c) \div 4)
  BY <1>1, <1>2, LoopExists, Zenon
<1>4. f[Len(ReadTlv(der, 1).content) \div 4].lines # <<>>
          => FormatQcStatements(der) = f[Len(ReadTlv(der, 1).content) \div 4].lines
  BY <1>2, Zenon DEF FormatQcStatements, IsLoop, Turn, Statements, Listed
<1>5. QED BY <1>1, <1>3, <1>4, Zenon

\* b is one statement after the other, about the OIDs of q; p says where they end.
SpellsAt(b, q, p) ==
    /\ p[0] = 0 /\ p[Len(q)] = Len(b) /\ \A i \in 0..Len(q) : p[i] \in Nat
    /\ \A i \in 1..Len(q) : StatementAt(b, p[i - 1], q[i], p[i])
Spells(b, q) == b \in Seq(Octets) /\ q \in Seq(Oids) /\ \E p : SpellsAt(b, q, p)

Turns(b, s, t) == Turn(b, Len(b), s) = t

\* One turn of the loop adds one OID.
LEMMA TurnReads ==
    ASSUME NEW b \in Seq(Octets), NEW p \in Nat, NEW oid \in Oids, NEW next,
           StatementAt(b, p, oid, next), NEW q
    PROVE  Turns(b, Listed(p + 1, q), Listed(next + 1, Append(q, oid)))
<1>1. /\ next \in Nat /\ next >= p + 4 /\ next <= Len(b)
      /\ ReadTlv(b, p + 1).next = next + 1
      /\ ReadTlv(ReadTlv(b, p + 1).content, 1).tag = 6
      /\ DecodeOid(ReadTlv(ReadTlv(b, p + 1).content, 1).content) = oid
  BY StatementRead, Zenon
<1>2. PICK n \in Nat : n = Len(b)
  OBVIOUS
<1>3. next \in Nat /\ next >= p + 4 /\ next <= n /\ n \in Nat
  BY <1>1, <1>2, Zenon
<1>4. ~(p + 1 > n)
  BY <1>3
<1>5. PICK i : i = p + 1
  OBVIOUS
<1>6. PICK s : s = Listed(i, q)
  OBVIOUS
<1>7. s.at = i /\ s.lines = q
  BY <1>6 DEF Listed
<1>8. ~(s.at > Len(b))
  BY <1>2, <1>4, <1>5, <1>7, Zenon
<1>9. Turn(b, Len(b), s) = Statements(b, s)
  BY <1>8, Zenon DEF Turn
<1>10. Statements(b, s) = Listed(next + 1, Append(q, oid))
  BY <1>1, <1>5, <1>7, Zenon DEF Statements, Listed
<1>11. QED BY <1>5, <1>6, <1>9, <1>10, Zenon DEF Turns

\* The loop lists all OIDs, and then does nothing.
LEMMA LoopReads ==
    ASSUME NEW b, NEW q, NEW p, b \in Seq(Octets), q \in Seq(Oids), SpellsAt(b, q, p),
           NEW t, t = Len(b) \div 4, NEW f, IsLoop(f, b, Len(b), t)
    PROVE  f[t] = Listed(Len(b) + 1, q)
<1>1. PICK n \in Nat, m \in Nat : n = Len(q) /\ m = Len(b)
  OBVIOUS
<1>2. n \in Nat /\ m \in Nat /\ t \in Nat
  <2>1. n \in Nat /\ m \in Nat /\ t = m \div 4
    BY <1>1, Zenon
  <2>2. QED BY <2>1
<1>3. /\ p[0] = 0 /\ p[n] = m /\ \A i \in 0..n : p[i] \in Nat
      /\ \A i \in 1..n : StatementAt(b, p[i - 1], q[i], p[i])
  BY <1>1, Zenon DEF SpellsAt
<1>4. /\ SubSeq(q, 1, 0) = <<>> /\ SubSeq(q, 1, n) = q
      /\ \A k \in 0..(n - 1) : SubSeq(q, 1, k + 1) = Append(SubSeq(q, 1, k), q[k + 1])
  <2>1. /\ SubSeq(q, 1, 0) = <<>> /\ SubSeq(q, 1, Len(q)) = q
        /\ \A k \in 0..(Len(q) - 1) : SubSeq(q, 1, k + 1) = Append(SubSeq(q, 1, k), q[k + 1])
    BY PrefixGrows, Zenon
  <2>2. QED BY <1>1, <2>1, Zenon
<1>5. /\ \A i \in 1..n : q[i] \in Oids
  BY <1>1, SeqParts, Zenon
<1>6. \A k \in 0..t : f[k] = IF k = 0 THEN Listed(1, <<>>) ELSE Turn(b, m, f[k - 1])
  BY <1>1, Zenon DEF IsLoop
<1>7. ASSUME NEW i \in 1..n PROVE p[i - 1] \in Nat /\ p[i] \in Nat /\ p[i] >= p[i - 1] + 4
  <2>1. i - 1 \in 0..n /\ i \in 0..n
    BY <1>2, <1>7
  <2>2. p[i - 1] \in Nat /\ p[i] \in Nat
    BY <1>3, <2>1, Zenon
  <2>3. PICK a : a = p[i - 1]
    OBVIOUS
  <2>4. a \in Nat /\ q[i] \in Oids /\ StatementAt(b, a, q[i], p[i])
    BY <1>3, <1>5, <1>7, <2>2, <2>3, Zenon
  <2>5. p[i] >= a + 4
    BY <2>4, StatementRead, Zenon
  <2>6. QED BY <2>2, <2>3, <2>5, Zenon
<1>8. \A i \in 0..n : p[i] >= 4 * i
  <2> DEFINE T == {i \in 0..n : ~(p[i] >= 4 * i)}
  <2> SUFFICES ASSUME T # {} PROVE FALSE
    OBVIOUS
  <2>1. PICK i \in T : \A j \in T : i <= j
    <3>1. T \in SUBSET Nat
      OBVIOUS
    <3>2. QED BY <3>1, Least, Zenon
  <2>2. i \in 0..n /\ i # 0
    BY <1>3, <2>1
  <2>3. i \in 1..n /\ i - 1 \in 0..n /\ i \in Nat /\ ~(i <= i - 1)
    BY <2>2
  <2>4. p[i - 1] >= 4 * (i - 1)
    BY <2>1, <2>3, Zenon
  <2>5. p[i] \in Nat /\ p[i - 1] \in Nat /\ p[i] >= p[i - 1] + 4
    BY <1>7, <2>3, Zenon
  <2>6. p[i] >= 4 * i
    BY <2>3, <2>4, <2>5
  <2>7. QED BY <2>1, <2>6
<1>9. n <= t
  <2>1. n \in 0..n
    BY <1>2
  <2>2. p[n] >= 4 * n
    BY <1>8, <2>1, Zenon
  <2>3. m >= 4 * n
    BY <1>3, <2>2, Zenon
  <2>4. t = m \div 4
    BY <1>1, Zenon
  <2>5. QED BY <1>2, <2>3, <2>4
<1>10. \A k \in 0..n : f[k] = Listed(p[k] + 1, SubSeq(q, 1, k))
  <2> DEFINE Good(k) == f[k] = Listed(p[k] + 1, SubSeq(q, 1, k))
             T == {k \in 0..n : ~Good(k)}
  <2>1. Good(0)
    <3>1. p[0] + 1 = 1
      BY <1>3
    <3>2. 0 \in 0..t
      BY <1>2
    <3>3. f[0] = Listed(1, <<>>)
      BY <1>6, <3>2, Zenon
    <3>4. QED BY <1>4, <3>1, <3>3, Zenon
  <2>2. ASSUME NEW k \in 1..n, Good(k - 1) PROVE Good(k)
    <3>1. k \in 0..t /\ k # 0 /\ k - 1 \in 0..(n - 1) /\ k - 1 + 1 = k
      BY <1>2, <1>9, <2>2
    <3>2. PICK a : a = p[k - 1]
      OBVIOUS
    <3>3. a \in Nat /\ q[k] \in Oids /\ StatementAt(b, a, q[k], p[k])
      BY <1>3, <1>5, <1>7, <2>2, <3>2, Zenon
    <3>4. f[k - 1] = Listed(a + 1, SubSeq(q, 1, k - 1))
      BY <2>2, <3>2, Zenon
    <3>5. f[k] = Turn(b, m, f[k - 1])
      BY <1>6, <3>1, Zenon
    <3>6. Turns(b, Listed(a + 1, SubSeq(q, 1, k - 1)),
                Listed(p[k] + 1, Append(SubSeq(q, 1, k - 1), q[k])))
      BY <3>3, TurnReads, Zenon
    <3>7. Append(SubSeq(q, 1, k - 1), q[k]) = SubSeq(q, 1, k)
      BY <1>4, <3>1, Zenon
    <3>8. QED BY <1>1, <3>4, <3>5, <3>6, <3>7, Zenon DEF Turns
  <2> HIDE DEF Good
  <2>3. T = {}
    <3> SUFFICES ASSUME T # {} PROVE FALSE
      OBVIOUS
    <3>1. PICK k \in T : \A j \in T : k <= j
      <4>1. T \in SUBSET Nat
        OBVIOUS
      <4>2. QED BY <4>1, Least, Zenon
    <3>2. k \in 0..n /\ ~Good(k) /\ k # 0
      BY <2>1, <3>1
    <3>3. k \in 1..n /\ k - 1 \in 0..n /\ ~(k <= k - 1)
      BY <3>2
    <3>4. Good(k - 1)
      BY <3>1, <3>3, Zenon
    <3>5. QED BY <2>2, <3>2, <3>3, <3>4, Zenon
  <2>4. \A k \in 0..n : Good(k)
    BY <2>3, Zenon
  <2>5. QED BY <2>4, Zenon DEF Good
<1>11. Turn(b, m, Listed(m + 1, q)) = Listed(m + 1, q)
  <2>1. PICK s : s = Listed(m + 1, q)
    OBVIOUS
  <2>2. s.at > m
    <3>1. s.at = m + 1
      BY <2>1 DEF Listed
    <3>2. QED BY <1>2, <3>1
  <2>3. QED BY <2>1, <2>2, Zenon DEF Turn
<1>12. \A k \in n..t : f[k] = Listed(m + 1, q)
  <2> DEFINE Good(k) == f[k] = Listed(m + 1, q)
             T == {k \in n..t : ~Good(k)}
  <2>1. Good(n)
    <3>1. n \in 0..n
      BY <1>2
    <3>2. QED BY <1>3, <1>4, <1>10, <3>1, Zenon
  <2>2. ASSUME NEW k \in n..t, k # n, Good(k - 1) PROVE Good(k)
    <3>1. k \in 0..t /\ k # 0
      BY <1>2, <2>2
    <3>2. f[k] = Turn(b, m, f[k - 1])
      BY <1>6, <3>1, Zenon
    <3>3. QED BY <1>11, <2>2, <3>2, Zenon
  <2> HIDE DEF Good
  <2>3. T = {}
    <3> SUFFICES ASSUME T # {} PROVE FALSE
      OBVIOUS
    <3>1. PICK k \in T : \A j \in T : k <= j
      <4>1. T \in SUBSET Nat
        BY <1>2
      <4>2. QED BY <4>1, Least, Zenon
    <3>2. k \in n..t /\ ~Good(k) /\ k # n
      BY <2>1, <3>1
    <3>3. k - 1 \in n..t /\ ~(k <= k - 1)
      BY <1>2, <3>2
    <3>4. Good(k - 1)
      BY <3>1, <3>3, Zenon
    <3>5. QED BY <2>2, <3>2, <3>4, Zenon
  <2>4. \A k \in n..t : Good(k)
    BY <2>3, Zenon
  <2>5. QED BY <2>4, Zenon DEF Good
<1>13. t \in n..t
  BY <1>2, <1>9
<1>14. QED BY <1>1, <1>12, <1>13, Zenon

\* The certificate page lists the OIDs of the statements that an extension is made of,
\* in their order, each of them once for each statement.
THEOREM FormatReadsBack ==
    ASSUME NEW b, NEW q, Spells(b, q), Short(b), q # <<>>
    PROVE  FormatQcStatements(Tlv(48, b)) = q
<1>1. PICK p : b \in Seq(Octets) /\ q \in Seq(Oids) /\ SpellsAt(b, q, p)
  BY Zenon DEF Spells
<1>2. PICK der : der = Tlv(48, b)
  OBVIOUS
<1>3. 48 \in Octets /\ 0 \in Nat /\ 0 + 1 = 1
  BY DEF Octets
<1>4. der \in Seq(Octets)
  BY <1>2, <1>3, TlvOctets, Zenon
<1>5. At(der, 0, Tlv(48, b))
  BY <1>2, <1>4, AtSelf, Zenon
<1>6. IsRead(ReadTlv(der, 0 + 1), 48, b, 0 + 1 + Len(Tlv(48, b)))
  BY <1>3, <1>4, <1>5, TlvIsRead, Zenon
<1>7. ReadTlv(der, 1).tag = 48 /\ ReadTlv(der, 1).content = b
  BY <1>3, <1>6, Zenon DEF IsRead
<1>8. PICK f : /\ Len(b) \div 4 \in Nat => IsLoop(f, b, Len(b), Len(b) \div 4)
               /\ f[Len(b) \div 4].lines # <<>>
                      => FormatQcStatements(der) = f[Len(b) \div 4].lines
  BY <1>7, FormatLoop, ZenonT(40)
<1>9. Len(b) \div 4 \in Nat
  <2>1. PICK m \in Nat : m = Len(b)
    BY <1>1, OctetsNat, Zenon
  <2>2. m \div 4 \in Nat
    BY <2>1
  <2>3. QED BY <2>1, <2>2, Zenon
<1>10. f[Len(b) \div 4] = Listed(Len(b) + 1, q)
  BY <1>1, <1>8, <1>9, LoopReads, Zenon
<1>11. f[Len(b) \div 4].lines = q
  <2>1. PICK i : i = Len(b) + 1
    OBVIOUS
  <2>2. Listed(i, q).lines = q
    BY DEF Listed
  <2>3. QED BY <1>10, <2>1, <2>2, Zenon
<1>12. QED BY <1>2, <1>8, <1>11, Zenon

LEMMA SpellsNothing == Spells(<<>>, <<>>)
<1>1. PICK n : n = 0
  OBVIOUS
<1> DEFINE p == [i \in 0..n |-> 0]
<1>2. 0 \in 0..n /\ \A i \in 0..n : p[i] = 0 /\ p[i] \in Nat
  BY <1>1
<1>3. <<>> \in Seq(Octets) /\ <<>> \in Seq(Oids) /\ Len(<<>>) = n /\ \A i \in 1..n : FALSE
  BY <1>1
<1> HIDE DEF p
<1>4. SpellsAt(<<>>, <<>>, p)
  BY <1>1, <1>2, <1>3, Zenon DEF SpellsAt
<1>5. QED BY <1>3, <1>4, Zenon DEF Spells

LEMMA StatementOctets ==
    ASSUME NEW oid, NEW more, Short(Tlv(6, EncodeOid(oid)) \o more)
    PROVE  Statement(oid, more) \in Seq(Octets)
<1>1. 48 \in Octets
  BY DEF Octets
<1>2. QED BY <1>1, TlvOctets, Zenon DEF Statement

LEMMA StatementStays ==
    ASSUME NEW b \in Seq(Octets), NEW t \in Seq(Octets), NEW p \in Nat, NEW oid, NEW next,
           StatementAt(b, p, oid, next)
    PROVE  StatementAt(b \o t, p, oid, next)
<1>1. PICK more \in Seq(Octets) :
          /\ Short(EncodeOid(oid)) /\ Short(Tlv(6, EncodeOid(oid)) \o more)
          /\ At(b, p, Statement(oid, more)) /\ next = p + Len(Statement(oid, more))
  BY Zenon DEF StatementAt
<1>2. At(b \o t, p, Statement(oid, more))
  BY <1>1, StatementOctets, AtJoined, Zenon
<1>3. QED BY <1>1, <1>2, Zenon DEF StatementAt

\* One more statement, at the end.
LEMMA SpellsMore ==
    ASSUME NEW b, NEW q, Spells(b, q), NEW oid \in Oids, NEW more \in Seq(Octets),
           Short(EncodeOid(oid)), Short(Tlv(6, EncodeOid(oid)) \o more)
    PROVE  Spells(b \o Statement(oid, more), Append(q, oid))
<1>1. PICK p : b \in Seq(Octets) /\ q \in Seq(Oids) /\ SpellsAt(b, q, p)
  BY Zenon DEF Spells
<1>2. PICK t : t = Statement(oid, more)
  OBVIOUS
<1>3. PICK c : c = b \o t
  OBVIOUS
<1>4. PICK r : r = Append(q, oid)
  OBVIOUS
<1>5. t \in Seq(Octets)
  BY <1>2, StatementOctets, Zenon
<1>6. c \in Seq(Octets) /\ Len(b) \in Nat /\ Len(t) \in Nat /\ Len(c) \in Nat /\ Len(c) = Len(b) + Len(t)
  BY <1>1, <1>3, <1>5, OctetsJoined, Zenon
<1>7. /\ r \in Seq(Oids) /\ Len(q) \in Nat /\ Len(r) = Len(q) + 1
      /\ \A i \in 1..Len(q) : r[i] = q[i]
      /\ r[Len(q) + 1] = oid
  <2>1. q \in Seq(Oids)
    BY <1>1
  <2>2. /\ Append(q, oid) \in Seq(Oids) /\ Len(q) \in Nat /\ Len(Append(q, oid)) = Len(q) + 1
        /\ \A i \in 1..Len(q) : Append(q, oid)[i] = q[i]
        /\ Append(q, oid)[Len(q) + 1] = oid
    BY <2>1, Appended
  <2>3. QED BY <1>4, <2>2, Zenon
<1>8. PICK n \in Nat : n = Len(q)
  BY <1>7
<1>9. /\ p[0] = 0 /\ p[n] = Len(b) /\ \A i \in 0..n : p[i] \in Nat
      /\ \A i \in 1..n : StatementAt(b, p[i - 1], q[i], p[i])
  BY <1>1, <1>8, Zenon DEF SpellsAt
<1> DEFINE e == [i \in 0..(n + 1) |-> IF i = n + 1 THEN Len(c) ELSE p[i]]
<1>10. 0 \in 0..(n + 1) /\ n + 1 \in 0..(n + 1) /\ 0 # n + 1 /\ n # n + 1 /\ n \in 0..(n + 1)
  OBVIOUS
<1>11. e[0] = 0 /\ e[n + 1] = Len(c) /\ e[n] = Len(b)
  BY <1>9, <1>10, Zenon
<1>12. \A i \in 0..(n + 1) : e[i] \in Nat
  <2>1. \A i \in 0..(n + 1) : i # n + 1 => i \in 0..n
    OBVIOUS
  <2>2. QED BY <1>6, <1>9, <2>1, Zenon
<1>13. ASSUME NEW i \in 1..(n + 1) PROVE StatementAt(c, e[i - 1], r[i], e[i])
  <2>1. CASE i = n + 1
    <3>1. i - 1 = n
      BY <2>1
    <3>2. At(c, Len(b), t)
      BY <1>1, <1>3, <1>5, AtJoined, Zenon
    <3>3. StatementAt(c, Len(b), oid, Len(c))
      BY <1>2, <1>6, <3>2, Zenon DEF StatementAt
    <3>4. QED BY <1>7, <1>8, <1>11, <2>1, <3>1, <3>3, Zenon
  <2>2. CASE i # n + 1
    <3>1. i \in 1..n /\ i - 1 \in 0..n /\ i \in 0..(n + 1) /\ i - 1 \in 0..(n + 1) /\ i - 1 # n + 1
      BY <1>13, <2>2
    <3>2. e[i - 1] = p[i - 1] /\ e[i] = p[i] /\ r[i] = q[i]
      BY <1>7, <1>8, <2>2, <3>1, Zenon
    <3>3. StatementAt(c, p[i - 1], q[i], p[i])
      BY <1>1, <1>3, <1>5, <1>9, <3>1, StatementStays, Zenon
    <3>4. QED BY <3>2, <3>3, Zenon
  <2>3. QED BY <2>1, <2>2
<1> HIDE DEF e
<1>14. SpellsAt(c, r, e)
  BY <1>7, <1>8, <1>11, <1>12, <1>13, Zenon DEF SpellsAt
<1>15. QED BY <1>2, <1>3, <1>4, <1>6, <1>7, <1>14, Zenon DEF Spells

\* Only the empty string spells nothing.
LEMMA SpellsFirst ==
    ASSUME NEW b, NEW q, Spells(b, q)
    PROVE  b = <<>> <=> q = <<>>
<1>1. PICK p : b \in Seq(Octets) /\ q \in Seq(Oids) /\ SpellsAt(b, q, p)
  BY Zenon DEF Spells
<1>2. ASSUME b = <<>>, q # <<>> PROVE FALSE
  <2>1. Len(b) = 0 /\ 1 \in 1..Len(q) /\ q[1] \in Oids /\ 1 - 1 = 0
    BY <1>1, <1>2
  <2>2. StatementAt(b, 0, q[1], p[1])
    BY <1>1, <2>1, Zenon DEF SpellsAt
  <2>3. 0 \in Nat
    OBVIOUS
  <2>4. p[1] \in Nat /\ p[1] >= 0 + 4 /\ p[1] <= Len(b)
    BY <1>1, <2>1, <2>2, <2>3, StatementRead, Zenon
  <2>5. QED BY <2>1, <2>4
<1>3. ASSUME q = <<>> PROVE b = <<>>
  <2>1. Len(q) = 0
    BY <1>3
  <2>2. Len(b) = 0
    BY <1>1, <2>1, Zenon DEF SpellsAt
  <2>3. QED BY <1>1, <2>2
<1>4. QED BY <1>2, <1>3

(***************************************************************************)
(* The statements that a certificate is issued with are short              *)
(***************************************************************************)

Brief(c, n) == c \in Seq(Octets) /\ Len(c) <= n

LEMMA BriefShort ==
    ASSUME NEW n \in 0..1000, NEW c, Brief(c, n)
    PROVE  Short(c)
<1>1. c \in Seq(Octets) /\ Len(c) <= n
  BY Zenon DEF Brief
<1>2. PICK m \in Nat : m = Len(c)
  BY <1>1, OctetsNat, Zenon
<1>3. m \in Nat /\ m <= n
  BY <1>1, <1>2, ZenonT(40)
<1>4. m < 128 * 128 * 128
  BY <1>3
<1>5. m \in Lengths
  BY <1>3, <1>4, Zenon DEF Lengths
<1>6. QED BY <1>1, <1>2, <1>5, Zenon DEF Short

LEMMA BriefTlv ==
    ASSUME NEW n \in 0..1000, NEW c, Brief(c, n), NEW tag \in Octets
    PROVE  Brief(Tlv(tag, c), n + 5)
<1>1. PICK k \in 2..5 : Tlv(tag, c) \in Seq(Octets) /\ Len(Tlv(tag, c)) = Len(c) + k
  BY BriefShort, TlvOctets, ZenonT(40)
<1>2. c \in Seq(Octets) /\ Len(c) <= n
  BY Zenon DEF Brief
<1>3. PICK m \in Nat : m = Len(c)
  BY <1>2, OctetsNat, Zenon
<1>4. m \in Nat /\ m <= n /\ k \in 2..5
  BY <1>1, <1>2, <1>3, Zenon
<1>5. m + k <= n + 5
  BY <1>4
<1>6. QED BY <1>1, <1>3, <1>5, Zenon DEF Brief

LEMMA BriefJoined ==
    ASSUME NEW m \in Nat, NEW n \in Nat, NEW a, NEW b, Brief(a, m), Brief(b, n)
    PROVE  Brief(a \o b, m + n)
<1>1. a \in Seq(Octets) /\ b \in Seq(Octets) /\ Len(a) <= m /\ Len(b) <= n
  BY Zenon DEF Brief
<1>2. PICK c : c = a \o b
  OBVIOUS
<1>3. /\ c \in Seq(Octets) /\ Len(a) \in Nat /\ Len(b) \in Nat /\ Len(c) \in Nat
      /\ Len(c) = Len(a) + Len(b)
  BY <1>1, <1>2, OctetsJoined, Zenon
<1>4. Len(c) <= m + n
  BY <1>1, <1>3
<1>5. QED BY <1>2, <1>3, <1>4, Zenon DEF Brief

LEMMA BriefWider ==
    ASSUME NEW m \in Nat, NEW n \in Nat, m <= n, NEW a, Brief(a, m)
    PROVE  Brief(a, n)
<1>1. a \in Seq(Octets) /\ Len(a) <= m
  BY Zenon DEF Brief
<1>2. PICK i \in Nat : i = Len(a)
  BY <1>1, OctetsNat, Zenon
<1>3. i \in Nat /\ i <= m
  BY <1>1, <1>2, Zenon
<1>4. i <= n
  BY <1>3
<1>5. QED BY <1>1, <1>2, <1>4, Zenon DEF Brief

\* Arcs that take three octets at the most.
SmallArcs == {n \in Nat : n < 128 * 128 * 128}

LEMMA BriefArc ==
    ASSUME NEW n \in SmallArcs
    PROVE  Brief(EncodeArc(n), 3)
<1>1. 128 \in Base
  BY DEF Base
<1>2. n \in Nat /\ n < 128 * 128 * 128
  BY Zenon DEF SmallArcs
<1>3. PICK s \in Seq(0..127), l \in Nat :
          /\ s = Digits(n, 128) /\ l = Len(s) /\ l >= 1
          /\ EncodeArc(n) \in Seq(Octets) /\ Len(EncodeArc(n)) = l
          /\ \A i \in 1..l : s[i] \in 0..127
  BY <1>2, ArcOctets
<1>4. Len(Digits(n, 128)) <= 3
  BY <1>1, <1>2, DigitsShort, Zenon
<1>5. QED BY <1>3, <1>4, Zenon DEF Brief

\* What fits into 18 octets: six numbers of three each.
BriefOids ==
    {a \in Oids : Len(a) <= 7 /\ 40 * a[1] + a[2] \in SmallArcs /\ \A i \in 1..Len(a) : a[i] \in SmallArcs}

LEMMA BriefOid ==
    ASSUME NEW arcs \in BriefOids
    PROVE  Brief(EncodeOid(arcs), 18)
<1>1. /\ arcs \in Oids /\ Len(arcs) <= 7 /\ 40 * arcs[1] + arcs[2] \in SmallArcs
      /\ \A i \in 1..Len(arcs) : arcs[i] \in SmallArcs
  BY Zenon DEF BriefOids
<1>2. PICK m \in Nat, n \in Nat :
          /\ m = Len(arcs) /\ m = n + 2 /\ m - 2 = n /\ m - 1 = n + 1
          /\ arcs \in Seq(Nat) /\ \A i \in 1..m : arcs[i] \in Nat
          /\ 40 * arcs[1] + arcs[2] \in Nat
          /\ Ids(arcs) \in Seq(Nat) /\ Len(Ids(arcs)) = n + 1
          /\ Ids(arcs)[1] = 40 * arcs[1] + arcs[2]
          /\ \A i \in 1..n : Ids(arcs)[i + 1] = arcs[i + 2]
  BY <1>1, OidFirst, Zenon
<1>3. PICK e : e = EncodeArc(40 * arcs[1] + arcs[2])
  OBVIOUS
<1>4. Brief(e, 3)
  BY <1>1, <1>3, BriefArc, Zenon
<1>5. PICK q : q = [i \in 1..n |-> EncodeArc(arcs[i + 2])]
  OBVIOUS
<1>6. ASSUME NEW i \in 1..n PROVE q[i] = EncodeArc(arcs[i + 2]) /\ Brief(q[i], 3)
  <2>1. i + 2 \in 1..m
    BY <1>2
  <2>2. q[i] = EncodeArc(arcs[i + 2])
    BY <1>5, Zenon
  <2>3. QED BY <1>1, <1>2, <2>1, <2>2, BriefArc, Zenon
<1>7. q \in [1..n -> Seq(Octets)]
  <2>1. \A i \in 1..n : EncodeArc(arcs[i + 2]) \in Seq(Octets)
    BY <1>5, <1>6, Zenon DEF Brief
  <2>2. QED BY <1>5, <2>1, Zenon
<1>8. PICK g : Joins(g, q, n) /\ FlattenSeq(q) = g[n]
  BY <1>7, FlatJoins, Zenon
<1>9. EncodeOid(arcs) = e \o g[n]
  BY <1>2, <1>3, <1>5, <1>8, Zenon DEF EncodeOid
<1>10. \A k \in 0..n : Brief(g[k], 3 * k)
  <2> DEFINE T == {k \in 0..n : ~Brief(g[k], 3 * k)}
  <2> SUFFICES ASSUME T # {} PROVE FALSE
    OBVIOUS
  <2>1. PICK k \in T : \A j \in T : k <= j
    <3>1. T \in SUBSET Nat
      OBVIOUS
    <3>2. QED BY <3>1, Least, Zenon
  <2>2. k \in 0..n /\ ~Brief(g[k], 3 * k)
    BY <2>1
  <2>3. CASE k = 0
    <3>1. g[0] = <<>>
      BY <1>8, Zenon DEF Joins
    <3>2. Len(<<>>) <= 3 * k /\ <<>> \in Seq(Octets)
      BY <2>3
    <3>3. QED BY <2>2, <2>3, <3>1, <3>2, Zenon DEF Brief
  <2>4. CASE k # 0
    <3>1. k \in 1..n /\ k - 1 \in 0..n /\ ~(k <= k - 1) /\ 3 * (k - 1) \in Nat /\ 3 \in Nat
          /\ 3 * (k - 1) + 3 = 3 * k
      BY <2>2, <2>4
    <3>2. Brief(g[k - 1], 3 * (k - 1)) /\ Brief(q[k], 3)
      BY <1>6, <2>1, <3>1, Zenon
    <3>3. Brief(g[k - 1] \o q[k], 3 * (k - 1) + 3)
      BY <3>1, <3>2, BriefJoined, Zenon
    <3>4. g[k] = g[k - 1] \o q[k]
      BY <1>8, <3>1, Zenon DEF Joins
    <3>5. QED BY <2>2, <3>1, <3>3, <3>4, Zenon
  <2>5. QED BY <2>3, <2>4
<1>11. n \in 0..n /\ 3 * n \in Nat /\ 3 \in Nat /\ 18 \in Nat /\ 3 + 3 * n \in Nat /\ 3 + 3 * n <= 18
  BY <1>1, <1>2
<1>12. Brief(e \o g[n], 3 + 3 * n)
  BY <1>4, <1>10, <1>11, BriefJoined, Zenon
<1>13. QED BY <1>9, <1>11, <1>12, BriefWider, Zenon

\* A statement is 28 octets longer than what it adds to its OID.
LEMMA BriefStatement ==
    ASSUME NEW oid \in BriefOids, NEW more, NEW n \in 0..100, Brief(more, n),
           NEW k, k = n + 28
    PROVE  /\ oid \in Oids /\ more \in Seq(Octets)
           /\ Short(EncodeOid(oid)) /\ Short(Tlv(6, EncodeOid(oid)) \o more)
           /\ Brief(Statement(oid, more), k)
<1>1. /\ 6 \in Octets /\ 48 \in Octets /\ 18 \in 0..1000 /\ 18 + 5 = 23 /\ 23 \in Nat
      /\ n \in Nat /\ 23 + n \in 0..1000 /\ 23 + n + 5 = k
  BY DEF Octets
<1>2. Brief(EncodeOid(oid), 18)
  BY BriefOid, Zenon
<1>3. Brief(Tlv(6, EncodeOid(oid)), 23)
  BY <1>1, <1>2, BriefTlv, ZenonT(40)
<1>4. Brief(Tlv(6, EncodeOid(oid)) \o more, 23 + n)
  BY <1>1, <1>3, BriefJoined, ZenonT(40)
<1>5. Brief(Statement(oid, more), k)
  BY <1>1, <1>4, BriefTlv, ZenonT(40) DEF Statement
<1>6. Short(EncodeOid(oid)) /\ Short(Tlv(6, EncodeOid(oid)) \o more)
  BY <1>1, <1>2, <1>4, BriefShort, ZenonT(40)
<1>7. oid \in Oids /\ more \in Seq(Octets)
  BY Zenon DEF BriefOids, Brief
<1>8. QED BY <1>5, <1>6, <1>7

\* The arcs that occur.
UsedArcs == 0..20000

LEMMA ArcsSmall ==
    /\ \A n \in UsedArcs : n \in SmallArcs /\ n \in Nat
    /\ 40 * 0 + 4 \in SmallArcs
    /\ 0 \in UsedArcs /\ 4 \in UsedArcs
BY SMT DEF UsedArcs, SmallArcs

LEMMA ArcsUsed ==
    /\ 1 \in UsedArcs /\ 2 \in UsedArcs /\ 6 \in UsedArcs
    /\ 1862 \in UsedArcs /\ 19475 \in UsedArcs /\ \A k \in 1..10 : k \in UsedArcs
BY SMT DEF UsedArcs, SmallArcs

LEMMA Six ==
    ASSUME NEW S, NEW a \in S, NEW b \in S, NEW c \in S, NEW d \in S, NEW e \in S, NEW f \in S
    PROVE  /\ <<a, b, c, d, e, f>> \in Seq(S) /\ Len(<<a, b, c, d, e, f>>) = 6
           /\ <<a, b, c, d, e, f>>[1] = a /\ <<a, b, c, d, e, f>>[2] = b
OBVIOUS

LEMMA OidOfArcs ==
    ASSUME NEW t \in Seq(UsedArcs), Len(t) = 6 \/ Len(t) = 7, t[1] = 0, t[2] = 4
    PROVE  t \in BriefOids
<1>1. Len(t) >= 2 /\ Len(t) <= 7
  <2>1. 6 >= 2 /\ 6 <= 7 /\ 7 >= 2 /\ 7 <= 7
    OBVIOUS
  <2>2. QED BY <2>1, Zenon
<1>2. t \in Seq(Nat) /\ \A i \in 1..Len(t) : t[i] \in UsedArcs
  <2>1. UsedArcs \subseteq Nat
    BY ArcsSmall, Zenon
  <2>2. QED BY <2>1, Wider, Zenon
<1>3. 0 \in 0..2 /\ 4 < 40
  OBVIOUS
<1>4. t \in Oids
  BY <1>1, <1>2, <1>3, Zenon DEF Oids
<1>5. 40 * t[1] + t[2] \in SmallArcs
  BY ArcsSmall, Zenon
<1>6. \A i \in 1..Len(t) : t[i] \in SmallArcs
  BY <1>2, ArcsSmall, Zenon
<1>7. QED BY <1>1, <1>4, <1>5, <1>6, Zenon DEF BriefOids

LEMMA SixArcs ==
    ASSUME NEW x \in UsedArcs, NEW y \in UsedArcs, NEW z \in UsedArcs
    PROVE  /\ <<0, 4, 0, x, y, z>> \in BriefOids
           /\ \A w \in UsedArcs : Append(<<0, 4, 0, x, y, z>>, w) \in BriefOids
<1>1. PICK s : s = <<0, 4, 0, x, y, z>>
  OBVIOUS
<1>2. s \in Seq(UsedArcs) /\ Len(s) = 6 /\ s[1] = 0 /\ s[2] = 4
  BY <1>1, ArcsSmall, Six, Zenon
<1>3. s \in BriefOids
  BY <1>2, OidOfArcs, Zenon
<1>4. ASSUME NEW w \in UsedArcs PROVE Append(s, w) \in BriefOids
  <2>1. /\ Append(s, w) \in Seq(UsedArcs) /\ Len(Append(s, w)) = 7
        /\ Append(s, w)[1] = 0 /\ Append(s, w)[2] = 4
    <3>1. s \in Seq(UsedArcs)
      BY <1>2
    <3>2. /\ Append(s, w) \in Seq(UsedArcs) /\ Len(Append(s, w)) = Len(s) + 1
          /\ \A i \in 1..Len(s) : Append(s, w)[i] = s[i]
      BY <1>4, <3>1, Appended
    <3>3. 6 + 1 = 7 /\ 1 \in 1..6 /\ 2 \in 1..6
      OBVIOUS
    <3>4. QED BY <1>2, <3>2, <3>3, Zenon
  <2>2. QED BY <2>1, OidOfArcs, Zenon
<1>5. QED BY <1>1, <1>3, <1>4, Zenon

EntOid(k) == <<0, 4, 0, 19475, 1, k>>

\* The OIDs that the registry writes are brief, and different.
LEMMA KnownOids ==
    /\ QcComplianceOid \in BriefOids /\ QcTypeOid \in BriefOids
    /\ \A w \in {1, 2} : Append(QcTypeOid, w) \in BriefOids
    /\ \A k \in 1..10 : EntOid(k) \in BriefOids
    /\ QcComplianceOid # QcTypeOid
    /\ \A k \in 1..10 : EntOid(k) # QcComplianceOid /\ EntOid(k) # QcTypeOid
    /\ \A k, m \in 1..10 : EntOid(k) = EntOid(m) => k = m
<1>2. QcComplianceOid \in BriefOids
  BY ArcsSmall, ArcsUsed, SixArcs, SMT DEF QcComplianceOid
<1>3. QcTypeOid \in BriefOids /\ \A w \in UsedArcs : Append(QcTypeOid, w) \in BriefOids
  BY ArcsSmall, ArcsUsed, SixArcs, SMT DEF QcTypeOid
<1>4. ASSUME NEW k \in 1..10 PROVE EntOid(k) \in BriefOids
  <2>1. k \in UsedArcs
    BY <1>4, ArcsUsed, SMT
  <2>2. QED BY <2>1, ArcsSmall, ArcsUsed, SixArcs, SMT DEF EntOid
<1>5. /\ QcComplianceOid # QcTypeOid
      /\ \A k \in 1..10 : EntOid(k) # QcComplianceOid /\ EntOid(k) # QcTypeOid
      /\ \A k, m \in 1..10 : EntOid(k) = EntOid(m) => k = m
  BY DEF QcComplianceOid, QcTypeOid, EntOid
<1>6. \A w \in {1, 2} : Append(QcTypeOid, w) \in BriefOids
  BY <1>3, ArcsUsed, SMT
<1>7. QED BY <1>2, <1>3, <1>4, <1>5, <1>6, SMT

\* The entitlements have the last arcs 1 to 10, each one of them.
LEMMA EntitlementsCounted ==
    /\ Cardinality(DOMAIN EntitlementArcs) = 10
    /\ \A t \in DOMAIN EntitlementArcs : EntitlementArcs[t] \in 1..10
    /\ \A t, u \in DOMAIN EntitlementArcs : EntitlementArcs[t] = EntitlementArcs[u] => t = u
    /\ QualifiedEntitlements \subseteq DOMAIN EntitlementArcs
<1> DEFINE D == {"Service_Provider", "QEAA_Provider", "Non_Q_EAA_Provider",
                 "PUB_EAA_Provider", "PID_Provider", "QCert_for_ESeal_Provider",
                 "QCert_for_ESig_Provider", "rQSealCDs_Provider", "rQSigCDs_Provider",
                 "ESig_ESeal_Creation_Provider"}
<1>1. DOMAIN EntitlementArcs = D
  BY DEF EntitlementArcs
<1>2. /\ EntitlementArcs["Service_Provider"] = 1 /\ EntitlementArcs["QEAA_Provider"] = 2
      /\ EntitlementArcs["Non_Q_EAA_Provider"] = 3 /\ EntitlementArcs["PUB_EAA_Provider"] = 4
      /\ EntitlementArcs["PID_Provider"] = 5 /\ EntitlementArcs["QCert_for_ESeal_Provider"] = 6
      /\ EntitlementArcs["QCert_for_ESig_Provider"] = 7 /\ EntitlementArcs["rQSealCDs_Provider"] = 8
      /\ EntitlementArcs["rQSigCDs_Provider"] = 9
      /\ EntitlementArcs["ESig_ESeal_Creation_Provider"] = 10
  BY DEF EntitlementArcs
<1>3. \A t \in DOMAIN EntitlementArcs : EntitlementArcs[t] \in 1..10
  BY <1>1, <1>2
<1>4. \A t, u \in DOMAIN EntitlementArcs : EntitlementArcs[t] = EntitlementArcs[u] => t = u
  BY <1>1, <1>2
<1>5. Cardinality(DOMAIN EntitlementArcs) = 10
  <2>1. \A k \in 1..10 : \E t \in DOMAIN EntitlementArcs : EntitlementArcs[t] = k
    BY <1>1, <1>2
  <2>2. PICK f : f = [t \in DOMAIN EntitlementArcs |-> EntitlementArcs[t]]
    OBVIOUS
  <2>3. f \in Bijection(DOMAIN EntitlementArcs, 1..10)
    <3>1. /\ f \in [DOMAIN EntitlementArcs -> 1..10]
          /\ \A t, u \in DOMAIN EntitlementArcs : f[t] = f[u] => t = u
          /\ \A k \in 1..10 : \E t \in DOMAIN EntitlementArcs : f[t] = k
      BY <1>3, <1>4, <2>1, <2>2, Zenon
    <3>2. QED BY <3>1, Fun_IsBij, Zenon
  <2>4. ExistsBijection(DOMAIN EntitlementArcs, 1..10)
    BY <2>3, Zenon DEF ExistsBijection
  <2>5. ExistsBijection(1..10, DOMAIN EntitlementArcs)
    BY <2>4, Fun_ExistsBijSymmetric, Zenon
  <2>6. QED BY <2>5, FS_CountingElements
<1>6. QED BY <1>1, <1>3, <1>4, <1>5 DEF QualifiedEntitlements

(***************************************************************************)
(* What a certificate says of the entitlements of its entity               *)
(***************************************************************************)

\* A is what q lists, each of it once.
Lists(q, A) == A = {q[i] : i \in DOMAIN q} /\ IsFiniteSet(A) /\ Len(q) = Cardinality(A)

LEMMA ListsNothing == Lists(<<>>, {})
<1>1. {<<>>[i] : i \in DOMAIN <<>>} = {} /\ Len(<<>>) = 0
  OBVIOUS
<1>2. IsFiniteSet({}) /\ Cardinality({}) = 0
  BY FS_EmptySet
<1>3. QED BY <1>1, <1>2, Zenon DEF Lists

\* One more element, which has not been listed.
LEMMA ListsMore ==
    ASSUME NEW S, NEW q, q \in Seq(S), NEW A, Lists(q, A), NEW x \in S, x \notin A
    PROVE  Lists(Append(q, x), A \cup {x})
<1>1. A = {q[i] : i \in DOMAIN q} /\ IsFiniteSet(A) /\ Len(q) = Cardinality(A)
  BY Zenon DEF Lists
<1>2. PICK r : r = Append(q, x)
  OBVIOUS
<1>3. /\ Len(q) \in Nat /\ Len(Append(q, x)) = Len(q) + 1
      /\ DOMAIN Append(q, x) = 1..(Len(q) + 1) /\ DOMAIN q = 1..Len(q)
      /\ \A i \in 1..Len(q) : Append(q, x)[i] = q[i]
      /\ Append(q, x)[Len(q) + 1] = x
  BY Appended
<1>4. PICK n \in Nat : n = Len(q)
  BY <1>3
<1>5. /\ Len(r) = n + 1 /\ DOMAIN r = 1..(n + 1) /\ DOMAIN q = 1..n
      /\ \A i \in 1..n : r[i] = q[i]
      /\ r[n + 1] = x
  BY <1>2, <1>3, <1>4, Zenon
<1>6. \A i : i \in 1..(n + 1) <=> i \in 1..n \/ i = n + 1
  OBVIOUS
<1>7. A \cup {x} = {r[i] : i \in DOMAIN r}
  BY <1>1, <1>5, <1>6, Zenon
<1>8. IsFiniteSet(A \cup {x}) /\ Cardinality(A \cup {x}) = Cardinality(A) + 1
  BY <1>1, FS_AddElement
<1>9. Len(r) = Cardinality(A \cup {x})
  BY <1>1, <1>4, <1>5, <1>8, Zenon
<1>10. QED BY <1>2, <1>7, <1>8, <1>9, Zenon DEF Lists

\* b is the statements about A, in n octets at the most.
Tells(b, A, n) == Brief(b, n) /\ \E q : Spells(b, q) /\ Lists(q, A)

Longer(p, m, n) == p = m + (n + 28)

\* One more statement about an OID that is new.
LEMMA TellsMore ==
    ASSUME NEW m \in Nat, NEW b, NEW A, Tells(b, A, m), NEW x \in BriefOids, x \notin A,
           NEW n \in 0..100, NEW more, Brief(more, n), NEW p, Longer(p, m, n)
    PROVE  Tells(b \o Statement(x, more), A \cup {x}, p)
<1>0. PICK k \in Nat : k = n + 28
  OBVIOUS
<1>1. PICK q : Brief(b, m) /\ Spells(b, q) /\ Lists(q, A)
  BY Zenon DEF Tells
<1>2. /\ x \in Oids /\ more \in Seq(Octets)
      /\ Short(EncodeOid(x)) /\ Short(Tlv(6, EncodeOid(x)) \o more)
      /\ Brief(Statement(x, more), k)
  BY <1>0, BriefStatement, Zenon
<1>3. Spells(b \o Statement(x, more), Append(q, x))
  BY <1>1, <1>2, SpellsMore, Zenon
<1>4. q \in Seq(Oids)
  BY <1>1, Zenon DEF Spells
<1>5. Lists(Append(q, x), A \cup {x})
  BY <1>1, <1>2, <1>4, ListsMore, Zenon
<1>6. p = m + k
  BY <1>0, Zenon DEF Longer
<1>7. Brief(b \o Statement(x, more), p)
  BY <1>0, <1>1, <1>2, <1>6, BriefJoined, Zenon
<1>8. QED BY <1>3, <1>5, <1>7, Zenon DEF Tells

\* The entitlement that has a last arc, if the entity has it.
Held(ents, i) == {t \in ents \cap DOMAIN EntitlementArcs : EntitlementArcs[t] = i}
Type(l)       == Tlv(48, Tlv(6, EncodeOid(Append(QcTypeOid, IF l.type = "natural_person" THEN 1 ELSE 2))))
QcHead(l, ents) ==
    IF RequiresQualified(ents)
    THEN Statement(QcComplianceOid, <<>>) \o Statement(QcTypeOid, Type(l)) ELSE <<>>
Entry(ents, i)   == IF Held(ents, i) = {} THEN <<>> ELSE Statement(EntOid(i), <<>>)
HeadOids(ents)   == IF RequiresQualified(ents) THEN {QcComplianceOid, QcTypeOid} ELSE {}
UpTo(ents, k)    == HeadOids(ents) \cup {EntOid(i) : i \in {i \in 1..k : Held(ents, i) # {}}}

\* The statements of a qualified certificate come first.
LEMMA HeadTells ==
    ASSUME NEW l, NEW ents
    PROVE  Tells(QcHead(l, ents), HeadOids(ents), 84)
<1>1. Brief(<<>>, 0) /\ Tells(<<>>, {}, 0)
  <2>1. Len(<<>>) <= 0 /\ <<>> \in Seq(Octets)
    OBVIOUS
  <2>2. QED BY <2>1, ListsNothing, SpellsNothing, Zenon DEF Brief, Tells
<1>2. CASE ~RequiresQualified(ents)
  <2>1. 0 \in Nat /\ 84 \in Nat /\ 0 <= 84
    OBVIOUS
  <2>2. Brief(<<>>, 84)
    BY <1>1, <2>1, BriefWider, Zenon
  <2>3. QED BY <1>1, <1>2, <2>2, Zenon DEF Tells, QcHead, HeadOids
<1>3. CASE RequiresQualified(ents)
  <2>1. /\ 0 \in Nat /\ 28 \in Nat /\ 0 \in 0..100 /\ 28 \in 0..100
        /\ 28 = 0 + 28 /\ Longer(28, 0, 0) /\ Longer(84, 28, 28)
    BY DEF Longer
  <2>2. Tells(<<>> \o Statement(QcComplianceOid, <<>>), {} \cup {QcComplianceOid}, 28)
    <3>1. QcComplianceOid \in BriefOids /\ QcComplianceOid \notin {}
      BY KnownOids, Zenon
    <3>2. QED BY <1>1, <2>1, <3>1, TellsMore, ZenonT(40)
  <2>3. <<>> \o Statement(QcComplianceOid, <<>>) = Statement(QcComplianceOid, <<>>)
    <3>1. Brief(Statement(QcComplianceOid, <<>>), 28)
      BY <1>1, <2>1, KnownOids, BriefStatement, Zenon
    <3>2. QED BY <3>1, Nothing0, Zenon DEF Brief
  <2>4. Tells(Statement(QcComplianceOid, <<>>), {QcComplianceOid}, 28)
    <3>1. {} \cup {QcComplianceOid} = {QcComplianceOid}
      OBVIOUS
    <3>2. QED BY <2>2, <2>3, <3>1, Zenon
  <2>5. Brief(Type(l), 28)
    <3>1. PICK w \in {1, 2} : w = IF l.type = "natural_person" THEN 1 ELSE 2
      OBVIOUS
    <3>2. Brief(EncodeOid(Append(QcTypeOid, w)), 18)
      BY <3>1, KnownOids, BriefOid, Zenon
    <3>3. /\ 6 \in Octets /\ 48 \in Octets /\ 18 \in 0..1000 /\ 18 + 5 = 23 /\ 23 \in 0..1000
          /\ 23 + 5 = 28
      BY DEF Octets
    <3>4. Brief(Tlv(6, EncodeOid(Append(QcTypeOid, w))), 23)
      BY <3>2, <3>3, BriefTlv, ZenonT(40)
    <3>5. Brief(Tlv(48, Tlv(6, EncodeOid(Append(QcTypeOid, w)))), 28)
      BY <3>3, <3>4, BriefTlv, ZenonT(40)
    <3>6. QED BY <3>1, <3>5, Zenon DEF Type
  <2>6. Tells(Statement(QcComplianceOid, <<>>) \o Statement(QcTypeOid, Type(l)),
              {QcComplianceOid} \cup {QcTypeOid}, 84)
    <3>1. QcTypeOid \in BriefOids /\ QcTypeOid \notin {QcComplianceOid}
      BY KnownOids, Zenon
    <3>2. QED BY <2>1, <2>4, <2>5, <3>1, TellsMore, ZenonT(40)
  <2>7. {QcComplianceOid} \cup {QcTypeOid} = {QcComplianceOid, QcTypeOid}
    OBVIOUS
  <2>8. QED BY <1>3, <2>6, <2>7, Zenon DEF QcHead, HeadOids
<1>4. QED BY <1>2, <1>3

LEMMA Associates ==
    ASSUME NEW S, NEW a \in Seq(S), NEW b \in Seq(S), NEW c \in Seq(S)
    PROVE  (a \o b) \o c = a \o (b \o c)
OBVIOUS

\* Then one for each entitlement, in the order of their arcs.
LEMMA EntryTells ==
    ASSUME NEW ents, NEW k \in 1..10, NEW m \in Nat, NEW p \in Nat, Longer(p, m, 0), NEW b,
           Tells(b, UpTo(ents, k - 1), m)
    PROVE  Tells(b \o Entry(ents, k), UpTo(ents, k), p)
<1>1. k - 1 \in 0..9 /\ \A i : i \in 1..k <=> i \in 1..(k - 1) \/ i = k
  OBVIOUS
<1>2. CASE Held(ents, k) = {}
  <2>1. UpTo(ents, k) = UpTo(ents, k - 1)
    BY <1>1, <1>2, Zenon DEF UpTo
  <2>2. m <= p
    BY DEF Longer
  <2>3. Brief(b, p) /\ b \in Seq(Octets)
    BY <2>2, BriefWider, Zenon DEF Tells, Brief
  <2>4. b \o <<>> = b
    BY <2>3
  <2>5. b \o Entry(ents, k) = b
    BY <1>2, <2>4, Zenon DEF Entry
  <2>6. QED BY <2>1, <2>3, <2>5, Zenon DEF Tells
<1>3. CASE Held(ents, k) # {}
  <2>1. UpTo(ents, k) = UpTo(ents, k - 1) \cup {EntOid(k)}
    BY <1>1, <1>3, Zenon DEF UpTo
  <2>2. EntOid(k) \notin UpTo(ents, k - 1)
    <3>1. \A i \in 1..(k - 1) : i \in 1..10 /\ i # k
      BY <1>1
    <3>2. QED BY <3>1, KnownOids, Zenon DEF UpTo, HeadOids
  <2>3. EntOid(k) \in BriefOids
    BY KnownOids, Zenon
  <2>4. Brief(<<>>, 0) /\ 0 \in 0..100
    <3>1. Len(<<>>) <= 0 /\ <<>> \in Seq(Octets) /\ 0 \in 0..100
      OBVIOUS
    <3>2. QED BY <3>1, Zenon DEF Brief
  <2>5. Tells(b \o Statement(EntOid(k), <<>>), UpTo(ents, k - 1) \cup {EntOid(k)}, p)
    BY <2>2, <2>3, <2>4, TellsMore, Zenon
  <2>6. QED BY <1>3, <2>1, <2>5, Zenon DEF Entry
<1>4. QED BY <1>2, <1>3

\* What the statements of a certificate say, as a set of OIDs.
Stated(ents) == HeadOids(ents) \cup {EntitlementOid(t) : t \in ents}

\* After the last arc, every entitlement has been stated.
LEMMA AllStated ==
    ASSUME NEW ents \in SUBSET DOMAIN EntitlementArcs
    PROVE  UpTo(ents, 10) = Stated(ents)
<1>1. \A t \in DOMAIN EntitlementArcs : EntitlementOid(t) = EntOid(EntitlementArcs[t])
  BY DEF EntitlementOid, EntOid
<1>2. \A t \in ents : EntitlementArcs[t] \in 1..10 /\ t \in Held(ents, EntitlementArcs[t])
  BY EntitlementsCounted, Zenon DEF Held
<1>3. \A i \in 1..10 : \A t \in Held(ents, i) : t \in ents /\ EntitlementArcs[t] = i
  BY Zenon DEF Held
<1>4. {EntitlementOid(t) : t \in ents} = {EntOid(i) : i \in {i \in 1..10 : Held(ents, i) # {}}}
  BY <1>1, <1>2, <1>3
<1>5. QED BY <1>4, Zenon DEF UpTo, Stated

\* The lines of the certificate page, none if there is no extension.
PageLines(qc) == IF qc = <<>> THEN <<>> ELSE FormatQcStatements(qc)

\* The content of the extension tells of them all.
LEMMA BuiltAll ==
    ASSUME NEW l, NEW ents
    PROVE  \E all : /\ Tells(all, UpTo(ents, 10), 364)
                    /\ BuildQcStatements(l, ents) = IF all = <<>> THEN <<>> ELSE Tlv(48, all)
<1>1. PICK seqs : seqs = [i \in 1..10 |-> Entry(ents, i)]
  OBVIOUS
<1>2. PICK all : all = QcHead(l, ents) \o FlattenSeq(seqs)
  OBVIOUS
<1>3. BuildQcStatements(l, ents) = IF all = <<>> THEN <<>> ELSE Tlv(48, all)
  <2>1. PICK n : n = Cardinality(DOMAIN EntitlementArcs)
    OBVIOUS
  <2>2. n = 10
    BY <2>1, EntitlementsCounted
  <2>3. seqs = [i \in 1..n |-> Entry(ents, i)]
    BY <1>1, <2>2, Zenon
  <2>4. seqs = [i \in 1..Cardinality(DOMAIN EntitlementArcs) |->
                   IF {t \in ents \cap DOMAIN EntitlementArcs : EntitlementArcs[t] = i} = {}
                   THEN <<>> ELSE Statement(<<0, 4, 0, 19475, 1, i>>, <<>>)]
    BY <2>1, <2>3 DEF Entry, Held, EntOid
  <2>5. QED BY <1>2, <2>4, SMT DEF BuildQcStatements, QcHead, Type
<1>4. ASSUME NEW i \in 1..10 PROVE seqs[i] = Entry(ents, i) /\ seqs[i] \in Seq(Octets)
  <2>1. seqs[i] = Entry(ents, i)
    BY <1>1, <1>4, Zenon
  <2>2. Len(<<>>) <= 0 /\ <<>> \in Seq(Octets) /\ 0 \in 0..100 /\ 28 = 0 + 28
    OBVIOUS
  <2>3. Brief(Statement(EntOid(i), <<>>), 28)
    BY <1>4, <2>2, KnownOids, BriefStatement, Zenon DEF Brief
  <2>4. QED BY <2>1, <2>2, <2>3, Zenon DEF Entry, Brief
<1>5. seqs \in [1..10 -> Seq(Octets)]
  BY <1>1, <1>4, Zenon
<1>6. PICK g : Joins(g, seqs, 10) /\ FlattenSeq(seqs) = g[10]
  <2>1. 10 \in Nat
    OBVIOUS
  <2>2. QED BY <1>5, <2>1, FlatJoins, Zenon
<1>7. PICK h : h = QcHead(l, ents)
  OBVIOUS
<1>8. Tells(h, HeadOids(ents), 84) /\ h \in Seq(Octets)
  BY <1>7, HeadTells, Zenon DEF Tells, Brief
<1> DEFINE Told(k) == Tells(h \o g[k], UpTo(ents, k), 84 + 28 * k)
<1>9. Told(0)
  <2>1. g[0] = <<>>
    BY <1>6, Zenon DEF Joins
  <2>2. h \o <<>> = h /\ 84 + 28 * 0 = 84 /\ \A i \in 1..0 : FALSE
    BY <1>8
  <2>3. UpTo(ents, 0) = HeadOids(ents)
    BY <2>2, Zenon DEF UpTo
  <2>4. QED BY <1>8, <2>1, <2>2, <2>3, Zenon
<1>10. ASSUME NEW k \in 1..10, Told(k - 1) PROVE Told(k)
  <2>1. PICK m \in Nat, p \in Nat : m = 84 + 28 * (k - 1) /\ p = 84 + 28 * k /\ Longer(p, m, 0)
    BY DEF Longer
  <2>2. Tells(h \o g[k - 1], UpTo(ents, k - 1), m)
    BY <1>10, <2>1, Zenon
  <2>3. Tells((h \o g[k - 1]) \o Entry(ents, k), UpTo(ents, k), p)
    BY <1>10, <2>1, <2>2, EntryTells, Zenon
  <2>4. k - 1 \in 0..10
    BY <1>10
  <2>5. g[k] = g[k - 1] \o seqs[k] /\ g[k - 1] \in Seq(Octets)
    BY <1>6, <1>10, <2>4, Zenon DEF Joins
  <2>6. (h \o g[k - 1]) \o seqs[k] = h \o g[k]
    <3>1. seqs[k] \in Seq(Octets)
      BY <1>4, <1>10, Zenon
    <3>2. PICK x, y : x = g[k - 1] /\ y = seqs[k]
      OBVIOUS
    <3>3. h \in Seq(Octets) /\ x \in Seq(Octets) /\ y \in Seq(Octets)
      BY <1>8, <2>5, <3>1, <3>2, Zenon
    <3>4. (h \o x) \o y = h \o (x \o y)
      BY <3>3, Associates
    <3>5. QED BY <2>5, <3>2, <3>4, Zenon
  <2>7. QED BY <1>4, <1>10, <2>1, <2>3, <2>6, Zenon
<1>11. Told(10)
  <2> DEFINE T == {k \in 0..10 : ~Told(k)}
  <2> HIDE DEF Told
  <2>1. T = {}
    <3> SUFFICES ASSUME T # {} PROVE FALSE
      OBVIOUS
    <3>1. PICK k \in T : \A j \in T : k <= j
      <4>1. T \in SUBSET Nat
        OBVIOUS
      <4>2. QED BY <4>1, Least, Zenon
    <3>2. k \in 0..10 /\ ~Told(k) /\ k # 0
      BY <1>9, <3>1
    <3>3. k \in 1..10 /\ k - 1 \in 0..10 /\ ~(k <= k - 1)
      BY <3>2
    <3>4. Told(k - 1)
      BY <3>1, <3>3, Zenon
    <3>5. QED BY <1>10, <3>2, <3>3, <3>4, Zenon
  <2>2. 10 \in 0..10
    OBVIOUS
  <2>3. QED BY <2>1, <2>2, Zenon
<1>12. 84 + 28 * 10 = 364
  OBVIOUS
<1>13. QED BY <1>2, <1>3, <1>6, <1>7, <1>11, <1>12, Zenon

\* The page lists the OIDs of what a certificate states, each once, and nothing else.
THEOREM QcStatementsReadBack ==
    ASSUME NEW l, NEW ents \in SUBSET DOMAIN EntitlementArcs
    PROVE  /\ BuildQcStatements(l, ents) \in Seq(0..255)
           /\ Lists(PageLines(BuildQcStatements(l, ents)), Stated(ents))
<1>1. PICK all : /\ Tells(all, UpTo(ents, 10), 364)
                 /\ BuildQcStatements(l, ents) = IF all = <<>> THEN <<>> ELSE Tlv(48, all)
  BY BuiltAll, Zenon
<1>2. PICK q : Brief(all, 364) /\ Spells(all, q) /\ Lists(q, Stated(ents))
  BY <1>1, AllStated, Zenon DEF Tells
<1>3. PICK qc : qc = BuildQcStatements(l, ents)
  OBVIOUS
<1>4. all = <<>> <=> q = <<>>
  BY <1>2, SpellsFirst
<1>5. CASE all = <<>>
  <2>1. qc = <<>> /\ q = <<>> /\ <<>> \in Seq(0..255)
    BY <1>1, <1>3, <1>4, <1>5
  <2>2. QED BY <1>2, <1>3, <2>1, Zenon DEF PageLines
<1>6. CASE all # <<>>
  <2>1. 364 \in 0..1000 /\ 48 \in Octets /\ 0..255 = Octets
    BY DEF Octets
  <2>2. Short(all)
    BY <1>2, <2>1, BriefShort, ZenonT(40)
  <2>3. qc = Tlv(48, all)
    BY <1>1, <1>3, <1>6, Zenon
  <2>4. FormatQcStatements(qc) = q
    BY <1>2, <1>4, <1>6, <2>2, <2>3, FormatReadsBack
  <2>5. PICK k \in 2..5 : qc \in Seq(Octets) /\ Len(qc) = Len(all) + k
    BY <2>1, <2>2, <2>3, TlvOctets, ZenonT(40)
  <2>6. qc # <<>>
    <3>1. PICK n \in Nat : n = Len(all)
      BY <2>2, OctetsNat, Zenon DEF Short
    <3>2. Len(qc) = n + k /\ n \in Nat /\ k \in 2..5
      BY <2>5, <3>1, Zenon
    <3>3. Len(qc) # 0
      BY <3>2
    <3>4. QED BY <3>3
  <2>7. QED BY <1>2, <1>3, <2>1, <2>4, <2>5, <2>6, ZenonT(40) DEF PageLines
<1>7. QED BY <1>5, <1>6

\* A certificate states a qualified entitlement, and compliance, exactly if its policy is
\* one for qualified certificates.
LEMMA StatedQualified ==
    ASSUME NEW l, NEW ents \in SUBSET DOMAIN EntitlementArcs
    PROVE  /\ GetPolicyOid(l, ents) \in {PolicyOid.QCP_n, PolicyOid.QCP_l} <=> RequiresQualified(ents)
           /\ QcComplianceOid \in Stated(ents) <=> RequiresQualified(ents)
           /\ (\E t \in QualifiedEntitlements : EntitlementOid(t) \in Stated(ents))
                  <=> RequiresQualified(ents)
           /\ Stated(ents) \subseteq {QcComplianceOid, QcTypeOid}
                  \cup {EntitlementOid(t) : t \in DOMAIN EntitlementArcs}
<1>1. /\ PolicyOid["NCP_n"] = 1 /\ PolicyOid["NCP_l"] = 2
      /\ PolicyOid["QCP_n"] = 3 /\ PolicyOid["QCP_l"] = 4
  BY DEF PolicyOid
<1>2. GetPolicyOid(l, ents) \in {PolicyOid.QCP_n, PolicyOid.QCP_l} <=> RequiresQualified(ents)
  BY <1>1 DEF GetPolicyOid
<1>3. \A t \in DOMAIN EntitlementArcs :
          EntitlementOid(t) = EntOid(EntitlementArcs[t]) /\ EntitlementArcs[t] \in 1..10
  BY EntitlementsCounted DEF EntitlementOid, EntOid
<1>4. \A t \in DOMAIN EntitlementArcs :
          EntitlementOid(t) # QcComplianceOid /\ EntitlementOid(t) # QcTypeOid
  BY <1>3, KnownOids, Zenon
<1>5. \A t, u \in DOMAIN EntitlementArcs : EntitlementOid(t) = EntitlementOid(u) => t = u
  BY <1>3, KnownOids, EntitlementsCounted, Zenon
<1>6. QcComplianceOid \in Stated(ents) <=> RequiresQualified(ents)
  BY <1>4, Zenon DEF Stated, HeadOids
<1>7. ASSUME NEW t \in QualifiedEntitlements, EntitlementOid(t) \in Stated(ents)
      PROVE  t \in ents
  <2>1. t \in DOMAIN EntitlementArcs
    BY <1>7, EntitlementsCounted, Zenon
  <2>2. EntitlementOid(t) \notin HeadOids(ents)
    BY <1>4, <2>1, Zenon DEF HeadOids
  <2>3. PICK u \in ents : EntitlementOid(t) = EntitlementOid(u)
    BY <1>7, <2>2, Zenon DEF Stated
  <2>4. QED BY <1>5, <2>1, <2>3
<1>8. \A t \in ents : EntitlementOid(t) \in Stated(ents)
  BY Zenon DEF Stated
<1>9. RequiresQualified(ents) <=> \E t \in QualifiedEntitlements : t \in ents
  BY Zenon DEF RequiresQualified
<1>10. (\E t \in QualifiedEntitlements : EntitlementOid(t) \in Stated(ents))
           <=> RequiresQualified(ents)
  BY <1>7, <1>8, <1>9, Zenon
<1>11. Stated(ents) \subseteq {QcComplianceOid, QcTypeOid}
           \cup {EntitlementOid(t) : t \in DOMAIN EntitlementArcs}
  BY Zenon DEF Stated, HeadOids
<1>12. QED BY <1>2, <1>6, <1>10, <1>11

=============================================================================
