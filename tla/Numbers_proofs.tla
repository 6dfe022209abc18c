---------------------------- MODULE Numbers_proofs ----------------------------
(***************************************************************************)
(* Proofs about Decimals and Rlp.  What decimal_from_str accepts is stored *)
(* exactly and printed as it was, for strings of any length, any scale and *)
(* any width.  What the RLP encoders write is read back by the definition  *)
(* of RLP, and what a transaction's hash commits to is what its row says.  *)
(***************************************************************************)
EXTENDS Decimals, Rlp, TLAPS, SequenceTheorems, FiniteSetTheorems, WellFoundedInduction

-----------------------------------------------------------------------------
(* Induction, by least elements. *)

LEMMA LeastNat ==
  ASSUME NEW S, S \subseteq Nat, S # {}
  PROVE  \E i \in S : \A j \in S : i <= j
<1>1. IsWellFoundedOn({ss \in Nat \X Nat : ss[1] < ss[2]}, Nat)
  BY NatLessThanWellFounded DEF OpToRel
<1>2. PICK i \in S : \A j \in S : <<j, i>> \notin {ss \in Nat \X Nat : ss[1] < ss[2]}
  BY <1>1, WFMin
<1>3. \A j \in S : ~ (j < i)
  BY <1>2
<1>4. QED
  BY <1>3

(* A set that has the number n + 1 with n has all up to U. *)
LEMMA InductiveUpTo ==
  ASSUME NEW S, NEW U \in Nat, 0 \in S, \A n \in 0 .. U - 1 : n \in S => n + 1 \in S
  PROVE  0 .. U \subseteq S
<1> SUFFICES ASSUME 0 .. U \ S # {} PROVE FALSE
  OBVIOUS
<1>1. 0 .. U \ S \subseteq Nat
  OBVIOUS
<1>2. PICK i \in 0 .. U \ S : \A j \in 0 .. U \ S : i <= j
  BY <1>1, LeastNat
<1>3. i # 0 /\ i - 1 \in 0 .. U - 1 /\ i - 1 + 1 = i /\ i - 1 \in 0 .. U
  BY <1>2
<1>4. i - 1 \in S
  BY <1>2, <1>3
<1>5. QED
  BY <1>2, <1>3, <1>4

(* The recursive functions of Decimals are of this form; there is exactly  *)
(* one. *)
Recursion(g, U, base, c, F) ==
  /\ g \in [0 .. U -> Int]
  /\ g[0] = base /\ \A n \in 1 .. U : g[n] = c * g[n - 1] + F[n]

LEMMA RecursionExists ==
  ASSUME NEW U \in Nat, NEW base \in Int, NEW c \in Int, NEW F \in [1 .. U -> Int]
  PROVE  \E g : Recursion(g, U, base, c, F)
<1> DEFINE Is(g, m) == /\ g \in [0 .. m -> Int]
                       /\ g[0] = base /\ \A n \in 1 .. m : g[n] = c * g[n - 1] + F[n]
           S == {m \in 0 .. U : \E g : Is(g, m)}
<1>1. 0 \in S
  <2> DEFINE g == [n \in 0 .. 0 |-> base]
  <2>1. Is(g, 0) /\ 0 \in 0 .. U
    OBVIOUS
  <2> HIDE DEF Is, g
  <2>2. QED
    BY <2>1
<1>2. ASSUME NEW m \in 0 .. U - 1, m \in S PROVE m + 1 \in S
  <2>1. PICK g : Is(g, m)
    BY <1>2
  <2> DEFINE new == c * g[m] + F[m + 1]
             h == [n \in 0 .. m + 1 |-> IF n = m + 1 THEN new ELSE g[n]]
  <2>2. new \in Int
    BY <2>1
  <2>3. (\A n \in 0 .. m : h[n] = g[n]) /\ h[m + 1] = new
    OBVIOUS
  <2> HIDE DEF new
  <2>4. h \in [0 .. m + 1 -> Int]
    BY <2>1, <2>2
  <2> HIDE DEF h
  <2>5. ASSUME NEW n \in 1 .. m + 1 PROVE h[n] = c * h[n - 1] + F[n]
    <3>1. CASE n = m + 1
      BY <2>3, <3>1 DEF new
    <3>2. CASE n \in 1 .. m
      <4>1. n \in 0 .. m /\ n - 1 \in 0 .. m
        BY <3>2
      <4>2. QED
        BY <2>1, <2>3, <3>2, <4>1
    <3>3. QED
      BY <3>1, <3>2
  <2>6. Is(h, m + 1)
    BY <2>1, <2>3, <2>4, <2>5
  <2> HIDE DEF Is
  <2>7. QED
    BY <2>6
<1> HIDE DEF S
<1>3. U \in S
  <2>1. 0 .. U \subseteq S
    BY <1>1, <1>2, InductiveUpTo
  <2>2. QED
    BY <2>1
<1>4. QED
  BY <1>3 DEF S, Recursion

LEMMA RecursionUnique ==
  ASSUME NEW U \in Nat, NEW base, NEW c, NEW F, NEW f, NEW g,
         Recursion(f, U, base, c, F), Recursion(g, U, base, c, F)
  PROVE  \A n \in 0 .. U : f[n] = g[n]
<1> DEFINE S == {n \in 0 .. U : f[n] = g[n]}
<1>1. 0 \in S
  BY DEF Recursion
<1>2. ASSUME NEW n \in 0 .. U - 1, n \in S PROVE n + 1 \in S
  <2>1. n + 1 \in 1 .. U /\ n + 1 - 1 = n /\ n + 1 \in 0 .. U
    OBVIOUS
  <2>2. f[n + 1] = c * f[n + 1 - 1] + F[n + 1] /\ g[n + 1] = c * g[n + 1 - 1] + F[n + 1]
    BY <2>1 DEF Recursion
  <2>3. f[n + 1] = g[n + 1]
    BY <1>2, <2>1, <2>2
  <2>4. QED
    BY <2>1, <2>3
<1> HIDE DEF S
<1>3. 0 .. U \subseteq S
  BY <1>1, <1>2, InductiveUpTo
<1>4. QED
  BY <1>3 DEF S

-----------------------------------------------------------------------------
(* Powers.                                                                 *)

LEMMA PowersExist ==
  ASSUME NEW base \in Int
  PROVE  \E f : f = [n \in Nat |-> IF n = 0 THEN 1 ELSE base * f[n - 1]]
<1> DEFINE Is(f) == f = [n \in Nat |-> IF n = 0 THEN 1 ELSE base * f[n - 1]]
           zeros(m) == [n \in 1 .. m |-> 0]
           G == [m \in Nat |-> CHOOSE g : Recursion(g, m, 1, base, zeros(m))]
           f == [n \in Nat |-> G[n][n]]
<1>1. ASSUME NEW m \in Nat PROVE Recursion(G[m], m, 1, base, zeros(m))
  <2>1. zeros(m) \in [1 .. m -> Int] /\ 1 \in Int /\ base \in Int
    OBVIOUS
  <2> HIDE DEF zeros
  <2>2. \E g : Recursion(g, m, 1, base, zeros(m))
    BY <2>1, RecursionExists
  <2>3. QED
    BY <2>2
<1> HIDE DEF G
<1>2. ASSUME NEW n \in Nat PROVE f[n] = IF n = 0 THEN 1 ELSE base * f[n - 1]
  <2>1. CASE n = 0
    BY <1>1, <2>1 DEF Recursion
  <2>2. CASE n # 0
    <3>1. n - 1 \in Nat /\ n \in 1 .. n /\ n - 1 \in 0 .. n - 1 /\ n - 1 \in 0 .. n
      BY <2>2
    <3> DEFINE a == G[n]
               b == G[n - 1]
    <3>2. Recursion(a, n, 1, base, zeros(n)) /\ Recursion(b, n - 1, 1, base, zeros(n - 1))
      BY <1>1, <3>1
    <3> HIDE DEF a, b
    <3>3. Recursion([i \in 0 .. n - 1 |-> a[i]], n - 1, 1, base, zeros(n - 1))
      BY <3>1, <3>2 DEF Recursion
    <3> DEFINE cut == [i \in 0 .. n - 1 |-> a[i]]
    <3>4. cut[n - 1] = a[n - 1]
      BY <3>1
    <3> HIDE DEF zeros, cut
    <3>5. \A i \in 0 .. n - 1 : cut[i] = b[i]
      BY <3>1, <3>2, <3>3, RecursionUnique DEF cut
    <3>6. a[n - 1] = b[n - 1]
      BY <3>1, <3>4, <3>5
    <3>7. a[n] = base * a[n - 1] + 0 /\ a[n - 1] \in Int
      BY <3>1, <3>2 DEF Recursion, zeros
    <3>8. QED
      BY <2>2, <3>1, <3>6, <3>7 DEF a, b
  <2>3. QED
    BY <2>1, <2>2
<1>3. f = [n \in Nat |-> f[n]]
  OBVIOUS
<1> HIDE DEF f
<1>4. Is(f)
  BY <1>2, <1>3
<1> HIDE DEF Is
<1>5. \E g : Is(g)
  BY <1>4
<1>6. QED
  BY <1>5 DEF Is

LEMMA Power10Unfolds ==
  Power10 = [n \in Nat |-> IF n = 0 THEN 1 ELSE 10 * Power10[n - 1]]
<1> DEFINE Is(f) == f = [n \in Nat |-> IF n = 0 THEN 1 ELSE 10 * f[n - 1]]
<1>1. \E f : Is(f)
  BY PowersExist
<1>2. Power10 = CHOOSE f : Is(f)
  BY DEF Power10
<1> HIDE DEF Is
<1>3. Is(Power10)
  BY <1>1, <1>2
<1>4. QED
  BY <1>3 DEF Is

LEMMA Powers ==
  ASSUME NEW n \in Nat
  PROVE  /\ Power10[0] = 1 /\ Power10[n] \in Nat \ {0}
         /\ Power10[n + 1] = 10 * Power10[n]
<1> DEFINE S == {m \in Nat : Power10[m] \in Nat \ {0}}
<1>1. Power10[0] = 1 /\ 0 \in S
  BY Power10Unfolds
<1>2. ASSUME NEW m \in Nat PROVE Power10[m + 1] = 10 * Power10[m]
  <2>1. m + 1 \in Nat /\ m + 1 # 0 /\ m + 1 - 1 = m
    OBVIOUS
  <2>2. QED
    BY <2>1, Power10Unfolds
<1>3. ASSUME NEW m \in 0 .. n - 1, m \in S PROVE m + 1 \in S
  BY <1>2, <1>3
<1> HIDE DEF S
<1>4. n \in S
  BY <1>1, <1>3, InductiveUpTo
<1>5. QED
  BY <1>1, <1>2, <1>4 DEF S

-----------------------------------------------------------------------------
(* Digits. *)

AllDigits == {Dg(d) : d \in 0 .. 9}

LEMMA DigitTypes ==
  /\ \A c \in AllDigits : IsDigit(c) /\ c[2] \in 0 .. 9 /\ c # Point /\ c = Dg(c[2])
  /\ \A d : ~ IsDigit(Ch(d))
BY DEF AllDigits, Dg, IsDigit, Point, Ch

LEMMA Readings ==
  ASSUME NEW ds \in Seq(AllDigits)
  PROVE  /\ Len(ds) \in Nat /\ Reading(ds)[0] = 0
         /\ \A n \in 1 .. Len(ds) : /\ ds[n][2] \in 0 .. 9
                                    /\ Reading(ds)[n] = 10 * Reading(ds)[n - 1] + ds[n][2]
         /\ \A n \in 0 .. Len(ds) : Reading(ds)[n] \in Nat
<1> DEFINE U == Len(ds)
           F == [n \in 1 .. U |-> ds[n][2]]
           Is(g) == g = [n \in 0 .. U |-> IF n = 0 THEN 0 ELSE 10 * g[n - 1] + ds[n][2]]
<1>1. U \in Nat /\ \A n \in 1 .. U : ds[n][2] \in 0 .. 9
  <2>1. ASSUME NEW n \in 1 .. U PROVE ds[n][2] \in 0 .. 9
    <3>1. ds[n] \in AllDigits
      BY ElementOfSeq
    <3>2. QED
      BY <3>1, DigitTypes
  <2>2. QED
    BY <2>1, LenProperties
<1>2. F \in [1 .. U -> Int] /\ 0 \in Int /\ 10 \in Int
  BY <1>1
<1>3. \E g : Is(g)
  <2>1. PICK g : Recursion(g, U, 0, 10, F)
    <3> HIDE DEF F, U
    <3>1. QED
      BY <1>1, <1>2, RecursionExists
  <2>2. \A n \in 0 .. U : g[n] = IF n = 0 THEN 0 ELSE 10 * g[n - 1] + ds[n][2]
    BY <1>1, <2>1 DEF Recursion
  <2>3. g = [n \in 0 .. U |-> g[n]]
    BY <2>1 DEF Recursion
  <2>4. Is(g)
    BY <2>2, <2>3
  <2> HIDE DEF Is
  <2>5. QED
    BY <2>4
<1>4. Reading(ds) = CHOOSE g : Is(g)
  BY DEF Reading
<1> HIDE DEF Is
<1>5. Is(Reading(ds))
  BY <1>3, <1>4
<1>6. Reading(ds)[0] = 0 /\ \A n \in 1 .. U : Reading(ds)[n] = 10 * Reading(ds)[n - 1] + ds[n][2]
  BY <1>1, <1>5 DEF Is
<1> DEFINE S == {n \in 0 .. U : Reading(ds)[n] \in Nat}
<1>7. 0 \in S
  BY <1>1, <1>6
<1>8. ASSUME NEW n \in 0 .. U - 1, n \in S PROVE n + 1 \in S
  <2>1. n + 1 \in 1 .. U /\ n + 1 - 1 = n /\ n + 1 \in 0 .. U
    BY <1>1
  <2>2. Reading(ds)[n + 1] = 10 * Reading(ds)[n] + ds[n + 1][2]
    BY <1>6, <2>1
  <2>3. ds[n + 1][2] \in Nat /\ Reading(ds)[n] \in Nat
    BY <1>1, <1>8, <2>1
  <2> DEFINE a == Reading(ds)[n]
             d == ds[n + 1][2]
  <2>4. a \in Nat /\ d \in Nat /\ Reading(ds)[n + 1] = 10 * a + d
    BY <2>2, <2>3
  <2> HIDE DEF a, d
  <2>5. Reading(ds)[n + 1] \in Nat
    BY <2>4
  <2>6. QED
    BY <2>1, <2>5
<1> HIDE DEF S
<1>9. 0 .. U \subseteq S
  BY <1>1, <1>7, <1>8, InductiveUpTo
<1>10. QED
  BY <1>1, <1>6, <1>9 DEF S

LEMMA Weighings ==
  ASSUME NEW t, Len(t) \in Nat,
         \A n \in 1 .. Len(t) : IsDigit(t[n]) => t[n][2] * Weight(t, n) \in Int
  PROVE  /\ Weighed(t)[0] = 0
         /\ \A n \in 1 .. Len(t) :
              Weighed(t)[n] = Weighed(t)[n - 1] + IF IsDigit(t[n]) THEN t[n][2] * Weight(t, n) ELSE 0
         /\ \A n \in 0 .. Len(t) : Weighed(t)[n] \in Int
<1> DEFINE U == Len(t)
           W(n) == IF IsDigit(t[n]) THEN t[n][2] * Weight(t, n) ELSE 0
           F == [n \in 1 .. U |-> W(n)]
           Is(g) == g = [n \in 0 .. U |-> IF n = 0 THEN 0 ELSE g[n - 1] + W(n)]
<1>1. \A n \in 1 .. U : W(n) \in Int
  OBVIOUS
<1>2. Weighed(t) = CHOOSE g : Is(g)
  BY DEF Weighed
<1> HIDE DEF W
<1>3. F \in [1 .. U -> Int] /\ 0 \in Int /\ 1 \in Int /\ U \in Nat
  BY <1>1
<1>4. PICK g : Recursion(g, U, 0, 1, F)
  <2> HIDE DEF F, U
  <2>1. QED
    BY <1>3, RecursionExists
<1>5. Is(g)
  <2>1. ASSUME NEW n \in 0 .. U PROVE g[n] = IF n = 0 THEN 0 ELSE g[n - 1] + W(n)
    <3>1. n # 0 => n \in 1 .. U /\ n - 1 \in 0 .. U
      OBVIOUS
    <3>2. n # 0 => g[n] = 1 * g[n - 1] + W(n) /\ g[n - 1] \in Int
      BY <1>4, <3>1 DEF Recursion
    <3>3. QED
      BY <1>4, <3>2 DEF Recursion
  <2>2. g = [n \in 0 .. U |-> g[n]]
    BY <1>4 DEF Recursion
  <2>3. QED
    BY <2>1, <2>2
<1> HIDE DEF Is
<1>6. Is(Weighed(t))
  BY <1>2, <1>5
<1>7. Weighed(t)[0] = 0 /\ \A n \in 1 .. U : Weighed(t)[n] = Weighed(t)[n - 1] + W(n)
  BY <1>3, <1>6 DEF Is
<1> DEFINE S == {n \in 0 .. U : Weighed(t)[n] \in Int}
<1>8. 0 \in S
  BY <1>3, <1>7
<1>9. ASSUME NEW n \in 0 .. U - 1, n \in S PROVE n + 1 \in S
  <2>1. n + 1 \in 1 .. U /\ n + 1 - 1 = n /\ n + 1 \in 0 .. U
    BY <1>3
  <2>2. Weighed(t)[n + 1] = Weighed(t)[n] + W(n + 1)
    BY <1>7, <2>1
  <2>3. QED
    BY <1>1, <1>9, <2>1, <2>2
<1> HIDE DEF S
<1>10. 0 .. U \subseteq S
  BY <1>3, <1>8, <1>9, InductiveUpTo
<1>11. QED
  BY <1>7, <1>10 DEF S, W

(* A string: a sign if off is 1, the digits w, and, if there is a point,   *)
(* the digits f behind it. *)
Signs == {Ch("+"), Ch("-")}

Parts(t, off, w, f, dot) ==
  /\ off \in {0, 1} /\ dot \in BOOLEAN /\ (dot \/ f = << >>)
  /\ w \in Seq(AllDigits) /\ f \in Seq(AllDigits)
  /\ t = [i \in 1 .. Len(t) |-> t[i]]
  /\ Len(t) = off + Len(w) + IF dot THEN 1 + Len(f) ELSE 0
  /\ off = 1 => t[1] \in Signs
  /\ \A k \in 1 .. Len(w) : t[off + k] = w[k]
  /\ dot => /\ t[off + Len(w) + 1] = Point
            /\ \A k \in 1 .. Len(f) : t[off + Len(w) + 1 + k] = f[k]
  /\ Len(f) <= DECIMAL_SCALE /\ (w # << >> \/ f # << >>)

LEMMA PartsPlaces ==
  ASSUME NEW t, NEW off, NEW w, NEW f, NEW dot, Parts(t, off, w, f, dot), DECIMAL_SCALE \in Nat
  PROVE  /\ Len(t) \in Nat /\ Len(w) \in Nat /\ Len(f) \in Nat /\ DOMAIN t = 1 .. Len(t)
         /\ \A i \in 1 .. Len(t) :
              \/ i = 1 /\ off = 1 /\ t[i] \in Signs /\ ~ IsDigit(t[i]) /\ t[i] # Point
              \/ \E k \in 1 .. Len(w) : i = off + k /\ t[i] = w[k] /\ t[i] \in AllDigits
              \/ i = off + Len(w) + 1 /\ dot /\ t[i] = Point /\ ~ IsDigit(t[i])
              \/ dot /\ \E k \in 1 .. Len(f) : /\ i = off + Len(w) + 1 + k
                                               /\ t[i] = f[k] /\ t[i] \in AllDigits
         /\ PointOf(t) = off + Len(w) + 1
<1>1. off \in {0, 1} /\ Len(w) \in Nat /\ Len(f) \in Nat /\ Len(t) \in Nat /\ DOMAIN t = 1 .. Len(t)
  <2>1. Len(w) \in Nat /\ Len(f) \in Nat
    BY LenProperties DEF Parts
  <2>2. QED
    BY <2>1 DEF Parts
<1>2. \A c \in Signs : ~ IsDigit(c) /\ c # Point
  BY DEF Signs, Ch, IsDigit, Point
<1>3. ~ IsDigit(Point)
  BY DigitTypes DEF Point
<1>4. (\A k \in 1 .. Len(w) : w[k] \in AllDigits) /\ (\A k \in 1 .. Len(f) : f[k] \in AllDigits)
  BY ElementOfSeq DEF Parts
<1>5. ASSUME NEW i \in 1 .. Len(t)
      PROVE  \/ i = 1 /\ off = 1 /\ t[i] \in Signs /\ ~ IsDigit(t[i]) /\ t[i] # Point
             \/ \E k \in 1 .. Len(w) : i = off + k /\ t[i] = w[k] /\ t[i] \in AllDigits
             \/ i = off + Len(w) + 1 /\ dot /\ t[i] = Point /\ ~ IsDigit(t[i])
             \/ dot /\ \E k \in 1 .. Len(f) : /\ i = off + Len(w) + 1 + k
                                              /\ t[i] = f[k] /\ t[i] \in AllDigits
  <2>1. CASE i <= off
    BY <1>1, <1>2, <2>1 DEF Parts
  <2>2. CASE off < i /\ i <= off + Len(w)
    <3>1. i - off \in 1 .. Len(w) /\ i = off + (i - off)
      BY <1>1, <2>2
    <3>2. t[i] = w[i - off]
      BY <3>1 DEF Parts
    <3>3. QED
      BY <1>4, <3>1, <3>2
  <2>3. CASE i = off + Len(w) + 1
    BY <1>1, <1>3, <2>3 DEF Parts
  <2>4. CASE off + Len(w) + 1 < i
    <3>1. dot /\ Len(t) = off + Len(w) + 1 + Len(f)
      <4>1. Len(t) = off + Len(w) + IF dot THEN 1 + Len(f) ELSE 0
        BY DEF Parts
      <4>2. ASSUME ~ dot PROVE FALSE
        <5>1. Len(t) = off + Len(w)
          BY <1>1, <4>1, <4>2
        <5>2. QED
          BY <1>1, <2>4, <5>1
      <4>3. dot /\ Len(t) = off + Len(w) + (1 + Len(f))
        BY <4>1, <4>2
      <4>4. QED
        BY <1>1, <4>3
    <3>2. /\ i - (off + Len(w) + 1) \in 1 .. Len(f)
          /\ i = off + Len(w) + 1 + (i - (off + Len(w) + 1))
      BY <1>1, <2>4, <3>1
    <3>3. t[i] = f[i - (off + Len(w) + 1)]
      BY <3>1, <3>2 DEF Parts
    <3>4. QED
      BY <1>4, <3>1, <3>2, <3>3
  <2>5. QED
    BY <1>1, <2>1, <2>2, <2>3, <2>4
<1>6. PointOf(t) = off + Len(w) + 1
  <2> DEFINE p == off + Len(w) + 1
  <2>1. ASSUME NEW i \in 1 .. Len(t), t[i] = Point PROVE i = p /\ dot
    BY <1>5, <2>1, DigitTypes
  <2>2. CASE dot
    <3>1. p \in 1 .. Len(t) /\ t[p] = Point
      BY <1>1, <2>2 DEF Parts
    <3>2. Point \in Range(t)
      BY <1>1, <3>1 DEF Range
    <3>3. (CHOOSE i \in DOMAIN t : t[i] = Point) = p
      <4> HIDE DEF p
      <4>1. QED
        BY <1>1, <2>1, <3>1
    <3>4. QED
      BY <3>2, <3>3 DEF PointOf
  <2>3. CASE ~ dot
    <3>1. Point \notin Range(t)
      BY <1>1, <2>1, <2>3 DEF Range
    <3>2. Len(t) + 1 = p
      BY <1>1, <2>3 DEF Parts
    <3>3. QED
      BY <3>1, <3>2 DEF PointOf
  <2>4. QED
    BY <2>2, <2>3 DEF Parts
<1>7. QED
  BY <1>1, <1>5, <1>6

LEMMA Products ==
  ASSUME NEW a \in Nat, NEW b \in Nat
  PROVE  a * b \in Nat
OBVIOUS

(* One digit more, of weight p. *)
LEMMA OneMore ==
  ASSUME NEW a \in Nat, NEW d \in Nat, NEW p \in Nat
  PROVE  /\ a * (10 * p) + d * p = (10 * a + d) * p
         /\ a * p \in Nat /\ 0 * p = 0 /\ a + 0 = a
<1>1. a * (10 * p) = (10 * a) * p
  OBVIOUS
<1>2. (10 * a) * p + d * p = (10 * a + d) * p
  OBVIOUS
<1>3. QED
  BY <1>1, <1>2

(* The weights of the digits of a string. *)
LEMMA PartsWeights ==
  ASSUME DecimalsAssumption, NEW t, NEW off, NEW w, NEW f, NEW dot, Parts(t, off, w, f, dot)
  PROVE  /\ \A k \in 1 .. Len(w) : Weight(t, off + k) = Power10[DECIMAL_SCALE + Len(w) - k]
         /\ \A k \in 1 .. Len(f) : Weight(t, off + Len(w) + 1 + k) = Power10[DECIMAL_SCALE - k]
         /\ \A n \in 1 .. Len(t) : IsDigit(t[n]) => t[n][2] * Weight(t, n) \in Int
<1>1. DECIMAL_SCALE \in Nat /\ off \in {0, 1} /\ Len(f) <= DECIMAL_SCALE
  BY DecimalsAssumption DEF Parts
<1> DEFINE p == off + Len(w) + 1
<1>2. /\ Len(t) \in Nat /\ Len(w) \in Nat /\ Len(f) \in Nat
      /\ PointOf(t) = p
      /\ \A i \in 1 .. Len(t) :
              \/ i = 1 /\ off = 1 /\ t[i] \in Signs /\ ~ IsDigit(t[i]) /\ t[i] # Point
              \/ \E k \in 1 .. Len(w) : i = off + k /\ t[i] = w[k] /\ t[i] \in AllDigits
              \/ i = p /\ dot /\ t[i] = Point /\ ~ IsDigit(t[i])
              \/ dot /\ \E k \in 1 .. Len(f) : i = p + k /\ t[i] = f[k] /\ t[i] \in AllDigits
  BY <1>1, PartsPlaces
<1>3. ASSUME NEW k \in 1 .. Len(w)
      PROVE  Weight(t, off + k) = Power10[DECIMAL_SCALE + Len(w) - k] /\ DECIMAL_SCALE + Len(w) - k \in Nat
  <2>1. /\ (off + k < PointOf(t)) = TRUE
        /\ DECIMAL_SCALE + PointOf(t) - (off + k) - 1 = DECIMAL_SCALE + Len(w) - k
    BY <1>1, <1>2
  <2>2. DECIMAL_SCALE + Len(w) - k \in Nat
    BY <1>1, <1>2
  <2>3. Weight(t, off + k) = Power10[DECIMAL_SCALE + PointOf(t) - (off + k) - 1]
    BY <2>1, Zenon DEF Weight
  <2>4. QED
    BY <2>1, <2>2, <2>3, Zenon
<1>4. ASSUME NEW k \in 1 .. Len(f)
      PROVE  Weight(t, p + k) = Power10[DECIMAL_SCALE - k] /\ DECIMAL_SCALE - k \in Nat
  <2>1. ~ (p + k < PointOf(t)) /\ DECIMAL_SCALE - ((p + k) - PointOf(t)) = DECIMAL_SCALE - k
    BY <1>1, <1>2
  <2>2. DECIMAL_SCALE - k \in Nat
    BY <1>1, <1>2
  <2> HIDE DEF p
  <2> DEFINE j == p + k
  <2> HIDE DEF j
  <2>3. ~ (j < PointOf(t)) => Weight(t, j) = Power10[DECIMAL_SCALE - (j - PointOf(t))]
    BY DEF Weight
  <2>6. ~ (j < PointOf(t))
    BY <2>1 DEF j
  <2>7. Weight(t, j) = Power10[DECIMAL_SCALE - (j - PointOf(t))]
    BY <2>3, <2>6
  <2>5. Weight(t, p + k) = Power10[DECIMAL_SCALE - ((p + k) - PointOf(t))]
    BY <2>7 DEF j
  <2>4. QED
    BY <2>1, <2>2, <2>5, Zenon
<1>5. ASSUME NEW n \in 1 .. Len(t), IsDigit(t[n]) PROVE t[n][2] * Weight(t, n) \in Int
  <2> HIDE DEF p
  <2>1. \/ \E k \in 1 .. Len(w) : n = off + k /\ t[n] \in AllDigits
        \/ \E k \in 1 .. Len(f) : n = p + k /\ t[n] \in AllDigits
    BY <1>2, <1>5
  <2>2. Weight(t, n) \in Nat /\ t[n] \in AllDigits
    <3>1. \A e \in Nat : Power10[e] \in Nat
      BY Powers
    <3>2. \A k \in 1 .. Len(w) : Weight(t, off + k) \in Nat
      BY <1>3, <3>1
    <3>3. \A k \in 1 .. Len(f) : Weight(t, p + k) \in Nat
      BY <1>4, <3>1
    <3>4. QED
      BY <2>1, <3>2, <3>3
  <2>3. t[n][2] \in Nat
    BY <2>2, DigitTypes
  <2> DEFINE a == t[n][2]
             b == Weight(t, n)
  <2>4. a \in Nat /\ b \in Nat
    BY <2>2, <2>3
  <2> HIDE DEF a, b
  <2>5. a * b \in Nat
    BY <2>4, Products
  <2>6. QED
    BY <2>5 DEF a, b
<1>6. QED
  BY <1>3, <1>4, <1>5

LEMMA PartsDenote ==
  ASSUME DecimalsAssumption, NEW t, NEW off, NEW w, NEW f, NEW dot, Parts(t, off, w, f, dot)
  PROVE  /\ Number(w) \in Nat /\ Number(f) \in Nat
         /\ Weighed(t)[Len(t)] =
              Number(w) * Power10[DECIMAL_SCALE] + Number(f) * Power10[DECIMAL_SCALE - Len(f)]
<1> DEFINE SCALE == DECIMAL_SCALE
           U == Len(t)
           L == Len(w)
           G == Len(f)
           p == off + L + 1
           sum == Weighed(t)
           rw == Reading(w)
           rf == Reading(f)
           Pw(n) == Power10[n]
<1>1. /\ SCALE \in Nat /\ off \in {0, 1} /\ G <= SCALE /\ dot \in BOOLEAN
      /\ w \in Seq(AllDigits) /\ f \in Seq(AllDigits) /\ (dot \/ f = << >>)
      /\ U = off + L + IF dot THEN 1 + G ELSE 0
  BY DecimalsAssumption DEF Parts
<1>20. DECIMAL_SCALE \in Nat
  BY <1>1
<1>2. /\ U \in Nat /\ L \in Nat /\ G \in Nat
      /\ \A i \in 1 .. U :
              \/ i = 1 /\ off = 1 /\ t[i] \in Signs /\ ~ IsDigit(t[i]) /\ t[i] # Point
              \/ \E k \in 1 .. L : i = off + k /\ t[i] = w[k] /\ t[i] \in AllDigits
              \/ i = p /\ dot /\ t[i] = Point /\ ~ IsDigit(t[i])
              \/ dot /\ \E k \in 1 .. G : i = p + k /\ t[i] = f[k] /\ t[i] \in AllDigits
  BY <1>20, PartsPlaces
<1>3. /\ sum[0] = 0
      /\ \A n \in 1 .. U : sum[n] = sum[n - 1] + IF IsDigit(t[n]) THEN t[n][2] * Weight(t, n) ELSE 0
      /\ \A n \in 0 .. U : sum[n] \in Int
  BY <1>2, PartsWeights, Weighings
<1>4. /\ \A k \in 1 .. L : Weight(t, off + k) = Pw(SCALE + L - k) /\ t[off + k] = w[k]
      /\ \A k \in 1 .. G : Weight(t, p + k) = Pw(SCALE - k)
      /\ dot => t[p] = Point /\ \A k \in 1 .. G : t[p + k] = f[k]
  <2>1. /\ \A k \in 1 .. L : Weight(t, off + k) = Pw(SCALE + L - k)
        /\ \A k \in 1 .. G : Weight(t, p + k) = Pw(SCALE - k)
    BY PartsWeights
  <2>2. /\ \A k \in 1 .. L : t[off + k] = w[k]
        /\ dot => t[p] = Point /\ \A k \in 1 .. G : t[p + k] = f[k]
    BY DEF Parts
  <2>3. QED
    BY <2>1, <2>2
<1>5. /\ rw[0] = 0 /\ \A n \in 1 .. L : w[n][2] \in 0 .. 9 /\ rw[n] = 10 * rw[n - 1] + w[n][2]
      /\ \A n \in 0 .. L : rw[n] \in Nat
  BY <1>1, Readings
<1>6. /\ rf[0] = 0 /\ \A n \in 1 .. G : f[n][2] \in 0 .. 9 /\ rf[n] = 10 * rf[n - 1] + f[n][2]
      /\ \A n \in 0 .. G : rf[n] \in Nat
  BY <1>1, Readings
<1>7. /\ \A n \in Nat : Pw(n) \in Nat /\ Pw(n + 1) = 10 * Pw(n)
      /\ (\A k \in 1 .. L : IsDigit(w[k])) /\ (\A k \in 1 .. G : IsDigit(f[k]))
  BY <1>1, Powers, ElementOfSeq, DigitTypes
<1>8. off + L \in Nat /\ (dot => U = p + G) /\ (~ dot => U = off + L)
  <2>1. ASSUME dot PROVE U = p + G
    <3>1. U = off + L + (1 + G)
      BY <1>1, <2>1
    <3> HIDE DEF U, L, G
    <3>2. QED
      BY <1>1, <1>2, <3>1
  <2>2. ASSUME ~ dot PROVE U = off + L
    <3>1. U = off + L + 0
      BY <1>1, <2>2
    <3> HIDE DEF U, L, G
    <3>2. QED
      BY <1>1, <1>2, <3>1
  <2> HIDE DEF U, L, G
  <2>3. off + L \in Nat
    BY <1>1, <1>2
  <2>4. QED
    BY <2>1, <2>2, <2>3
<1> HIDE DEF sum, rw, rf, Pw, SCALE, U, L, G
<1> DEFINE S == {k \in 0 .. L : sum[off + k] = rw[k] * Pw(SCALE + L - k)}
<1>9. sum[off] = 0 /\ off + 0 = off
  <2>1. CASE off = 0
    BY <1>3, <2>1
  <2>2. CASE off = 1 /\ U >= 1
    <3>1. 1 \in 1 .. U /\ 1 - 1 = 0
      BY <1>2, <2>2
    <3>2. ~ IsDigit(t[1])
      <4>1. t[1] \in Signs
        BY <2>2 DEF Parts
      <4>2. QED
        BY <4>1 DEF Signs, IsDigit, Ch
    <3>3. sum[1] = sum[1 - 1] + 0
      BY <1>3, <3>1, <3>2
    <3>4. QED
      BY <1>3, <2>2, <3>1, <3>3
  <2>3. U >= off
    BY <1>1, <1>2, <1>8
  <2>4. QED
    BY <1>1, <2>1, <2>2, <2>3
<1>10. 0 \in S
  <2>1. SCALE + L - 0 \in Nat /\ 0 \in 0 .. L
    BY <1>1, <1>2
  <2>2. 0 * Pw(SCALE + L - 0) = 0
    BY <1>7, <2>1
  <2>3. QED
    BY <1>5, <1>9, <2>1, <2>2
<1>11. ASSUME NEW k \in 0 .. L - 1, k \in S PROVE k + 1 \in S
  <2> DEFINE q == SCALE + L - (k + 1)
             a == rw[k]
             d == w[k + 1][2]
             pq == Pw(q)
  <2>1. /\ q \in Nat /\ q + 1 = SCALE + L - k /\ k + 1 \in 1 .. L /\ k + 1 - 1 = k /\ k + 1 \in 0 .. L
        /\ off + (k + 1) \in 1 .. U /\ (off + (k + 1)) - 1 = off + k
    BY <1>1, <1>2, <1>8
  <2>2. sum[off + k] = a * (10 * pq)
    BY <1>7, <1>11, <2>1
  <2>3. sum[off + (k + 1)] = sum[off + k] + d * pq
    <3>1. t[off + (k + 1)] = w[k + 1] /\ IsDigit(w[k + 1]) /\ Weight(t, off + (k + 1)) = pq
      BY <1>4, <1>7, <2>1
    <3>2. sum[off + (k + 1)] = sum[(off + (k + 1)) - 1] + t[off + (k + 1)][2] * Weight(t, off + (k + 1))
      <4> HIDE DEF q
      <4>1. off + (k + 1) \in 1 .. U /\ IsDigit(t[off + (k + 1)])
        BY <2>1, <3>1
      <4> DEFINE Adds(i) == sum[i] = sum[i - 1] + t[i][2] * Weight(t, i)
      <4>2. \A i \in 1 .. U : IsDigit(t[i]) => Adds(i)
        BY <1>3
      <4> HIDE DEF Adds
      <4>3. Adds(off + (k + 1))
        BY <4>1, <4>2
      <4>4. QED
        BY <4>3 DEF Adds
    <3>3. QED
      BY <2>1, <3>1, <3>2
  <2>4. a \in Nat /\ d \in Nat /\ pq \in Nat /\ rw[k + 1] = 10 * a + d
    <3>1. rw[k + 1] = 10 * rw[k + 1 - 1] + d /\ d \in 0 .. 9
      BY <1>5, <2>1
    <3>2. rw[k + 1] = 10 * a + d /\ d \in Nat
      BY <2>1, <3>1
    <3>3. a \in Nat /\ pq \in Nat
      <4>1. k \in 0 .. L
        BY <1>2
      <4> HIDE DEF q
      <4>2. QED
        BY <1>5, <1>7, <2>1, <4>1
    <3>4. QED
      BY <3>2, <3>3
  <2> HIDE DEF a, d, pq
  <2>5. sum[off + (k + 1)] = (10 * a + d) * pq
    BY <2>2, <2>3, <2>4, OneMore
  <2>6. QED
    BY <2>1, <2>4, <2>5 DEF pq
<1> HIDE DEF S
<1>12. sum[off + L] = rw[L] * Pw(SCALE) /\ rw[L] \in Nat
  <2>1. 0 .. L \subseteq S
    BY <1>2, <1>10, <1>11, InductiveUpTo
  <2>2. L \in 0 .. L /\ SCALE + L - L = SCALE
    BY <1>1, <1>2
  <2>3. QED
    BY <1>5, <2>1, <2>2 DEF S
<1> DEFINE V == rw[L] * Pw(SCALE)
           Q == {k \in 0 .. G : sum[p + k] = V + rf[k] * Pw(SCALE - k)}
<1>13. V \in Nat
  BY <1>1, <1>7, <1>12, OneMore
<1> HIDE DEF V
<1>14. CASE dot
  <2>1. p \in 1 .. U /\ p - 1 = off + L /\ p + 0 = p /\ U = p + G /\ p \in Nat
    BY <1>2, <1>8, <1>14
  <2> HIDE DEF p
  <2>2. sum[p] = sum[p - 1] + 0
    BY <1>3, <1>4, <1>14, <2>1 DEF Point, IsDigit, Ch
  <2>3. sum[p] = V
    BY <1>12, <1>13, <2>1, <2>2 DEF V
  <2>4. 0 \in Q
    <3>1. SCALE - 0 \in Nat /\ 0 \in 0 .. G
      BY <1>1, <1>2
    <3>2. 0 * Pw(SCALE - 0) = 0 /\ V + 0 = V
      BY <1>7, <1>13, <3>1
    <3>3. QED
      BY <1>6, <2>1, <2>3, <3>1, <3>2
  <2>5. ASSUME NEW k \in 0 .. G - 1, k \in Q PROVE k + 1 \in Q
    <3> DEFINE q == SCALE - (k + 1)
               a == rf[k]
               d == f[k + 1][2]
               pq == Pw(q)
    <3>1. /\ q \in Nat /\ q + 1 = SCALE - k /\ k + 1 \in 1 .. G /\ k + 1 - 1 = k /\ k + 1 \in 0 .. G
          /\ p + (k + 1) \in 1 .. U /\ (p + (k + 1)) - 1 = p + k
      BY <1>1, <1>2, <2>1
    <3>2. sum[p + k] = V + a * (10 * pq)
      BY <1>7, <2>5, <3>1
    <3>3. sum[p + (k + 1)] = sum[p + k] + d * pq
      <4>1. t[p + (k + 1)] = f[k + 1] /\ IsDigit(f[k + 1]) /\ Weight(t, p + (k + 1)) = pq
        BY <1>4, <1>7, <1>14, <3>1
      <4>2. sum[p + (k + 1)] = sum[(p + (k + 1)) - 1] + t[p + (k + 1)][2] * Weight(t, p + (k + 1))
        <5> HIDE DEF q
        <5>1. p + (k + 1) \in 1 .. U /\ IsDigit(t[p + (k + 1)])
          BY <3>1, <4>1
        <5> DEFINE Adds(i) == sum[i] = sum[i - 1] + t[i][2] * Weight(t, i)
        <5>2. \A i \in 1 .. U : IsDigit(t[i]) => Adds(i)
          BY <1>3
        <5> HIDE DEF Adds
        <5>3. Adds(p + (k + 1))
          BY <5>1, <5>2
        <5>4. QED
          BY <5>3 DEF Adds
      <4>3. QED
        BY <3>1, <4>1, <4>2
    <3>4. a \in Nat /\ d \in Nat /\ pq \in Nat /\ rf[k + 1] = 10 * a + d
      <4>1. rf[k + 1] = 10 * rf[k + 1 - 1] + d /\ d \in 0 .. 9
        BY <1>6, <3>1
      <4>2. rf[k + 1] = 10 * a + d /\ d \in Nat
        BY <3>1, <4>1
      <4>3. a \in Nat /\ pq \in Nat
        <5>1. k \in 0 .. G
          BY <1>2
        <5> HIDE DEF q
        <5>2. QED
          BY <1>6, <1>7, <3>1, <5>1
      <4>4. QED
        BY <4>2, <4>3
    <3> HIDE DEF a, d, pq
    <3>5. a * (10 * pq) + d * pq = (10 * a + d) * pq /\ a * (10 * pq) \in Nat /\ d * pq \in Nat
      BY <3>4, OneMore
    <3>6. ASSUME NEW x \in Nat, NEW y \in Nat, NEW z \in Nat PROVE x + y + z = x + (y + z)
      OBVIOUS
    <3>7. sum[p + (k + 1)] = V + (10 * a + d) * pq
      BY <1>13, <3>2, <3>3, <3>5, <3>6
    <3>8. QED
      BY <3>1, <3>4, <3>7 DEF pq
  <2> HIDE DEF Q
  <2>6. 0 .. G \subseteq Q
    BY <1>2, <2>4, <2>5, InductiveUpTo
  <2>7. G \in 0 .. G
    BY <1>2
  <2>8. sum[U] = V + rf[G] * Pw(SCALE - G) /\ rf[G] \in Nat
    BY <1>6, <2>1, <2>6, <2>7 DEF Q
  <2>9. QED
    BY <1>12, <2>8 DEF V, SCALE, Pw, sum, rf, rw, G, L, U, Number
<1>15. CASE ~ dot
  <2>1. f = << >> /\ G = 0
    BY <1>1, <1>15 DEF G
  <2>2. SCALE - G \in Nat /\ 0 * Pw(SCALE - G) = 0 /\ V + 0 = V
    BY <1>1, <1>2, <1>7, <1>13, <2>1
  <2>3. rf[G] = 0 /\ sum[U] = V + rf[G] * Pw(SCALE - G)
    BY <1>6, <1>8, <1>12, <1>15, <2>1, <2>2 DEF V
  <2>4. 0 \in Nat
    OBVIOUS
  <2>5. QED
    BY <1>12, <2>3, <2>4 DEF V, SCALE, Pw, sum, rf, rw, G, L, U, Number
<1>16. QED
  BY <1>1, <1>14, <1>15

LEMMA PartsWellFormed ==
  ASSUME DecimalsAssumption, NEW t, NEW off, NEW w, NEW f, NEW dot, Parts(t, off, w, f, dot)
  PROVE  WellFormed(t) /\ (t[1] = Ch("-") => off = 1)
<1>1. DECIMAL_SCALE \in Nat /\ off \in {0, 1} /\ Len(f) <= DECIMAL_SCALE
  BY DecimalsAssumption DEF Parts
<1> DEFINE p == off + Len(w) + 1
<1>2. /\ Len(t) \in Nat /\ Len(w) \in Nat /\ Len(f) \in Nat /\ DOMAIN t = 1 .. Len(t)
      /\ \A i \in 1 .. Len(t) :
              \/ i = 1 /\ off = 1 /\ t[i] \in Signs /\ ~ IsDigit(t[i]) /\ t[i] # Point
              \/ \E k \in 1 .. Len(w) : i = off + k /\ t[i] = w[k] /\ t[i] \in AllDigits
              \/ i = p /\ dot /\ t[i] = Point /\ ~ IsDigit(t[i])
              \/ dot /\ \E k \in 1 .. Len(f) : i = p + k /\ t[i] = f[k] /\ t[i] \in AllDigits
  BY <1>1, PartsPlaces
<1>3. (dot => Len(t) = p + Len(f)) /\ (~ dot => Len(t) = off + Len(w) /\ f = << >>)
  <2>1. /\ Len(t) = off + Len(w) + IF dot THEN 1 + Len(f) ELSE 0
        /\ dot \/ f = << >>
    BY DEF Parts
  <2>2. ASSUME dot PROVE Len(t) = p + Len(f)
    <3>1. Len(t) = off + Len(w) + (1 + Len(f))
      BY <2>1, <2>2
    <3>2. QED
      BY <1>1, <1>2, <3>1
  <2>3. ASSUME ~ dot PROVE Len(t) = off + Len(w)
    <3>1. Len(t) = off + Len(w) + 0
      BY <2>1, <2>3
    <3>2. QED
      BY <1>1, <1>2, <3>1
  <2>4. QED
    BY <2>1, <2>2, <2>3
<1>10. p \in Nat /\ p >= 1
  BY <1>1, <1>2
<1>4. \E i \in DOMAIN t : IsDigit(t[i])
  <2>1. CASE w # << >>
    <3>1. 1 \in 1 .. Len(w) /\ off + 1 \in 1 .. Len(t)
      <4>1. Len(w) # 0
        BY <2>1, EmptySeq DEF Parts
      <4>2. Len(t) = p + Len(f) \/ Len(t) = off + Len(w)
        BY <1>3, <2>1 DEF Parts
      <4>3. off \in Nat /\ Len(w) \in Nat /\ Len(f) \in Nat /\ Len(t) \in Nat
        BY <1>1, <1>2
      <4>4. Len(t) >= off + Len(w) /\ Len(w) >= 1
        BY <4>1, <4>2, <4>3
      <4>5. QED
        BY <4>3, <4>4
    <3>2. t[off + 1] = w[1] /\ IsDigit(w[1])
      BY <3>1, ElementOfSeq, DigitTypes DEF Parts
    <3>3. QED
      BY <1>2, <3>1, <3>2
  <2>2. CASE f # << >>
    <3>1. 1 \in 1 .. Len(f) /\ p + 1 \in 1 .. Len(t) /\ dot
      <4>1. Len(f) # 0
        BY <2>2, EmptySeq DEF Parts
      <4>2. dot /\ Len(t) = p + Len(f)
        BY <1>3, <2>2 DEF Parts
      <4> HIDE DEF p
      <4>3. QED
        BY <1>2, <1>10, <4>1, <4>2
    <3>2. t[p + 1] = f[1] /\ IsDigit(f[1])
      BY <3>1, ElementOfSeq, DigitTypes DEF Parts
    <3>3. QED
      BY <1>2, <3>1, <3>2
  <2>3. QED
    BY <2>1, <2>2 DEF Parts
<1>5. \A i \in DOMAIN t : IsDigit(t[i]) \/ t[i] = Point \/ (i = 1 /\ t[i] \in {Ch("+"), Ch("-")})
  BY <1>2, DigitTypes DEF Signs
<1>6. \A i \in DOMAIN t : t[i] = Point => i = p /\ dot
  BY <1>2, DigitTypes
<1>7. \A i \in DOMAIN t : t[i] = Point => Len(t) - i <= DECIMAL_SCALE
  <2> HIDE DEF p
  <2>1. ASSUME NEW a \in Nat, NEW b \in Nat, NEW c \in Nat, a = b + c PROVE a - b = c
    BY <2>1
  <2>4. Len(t) \in Nat /\ p \in Nat /\ Len(f) \in Nat
    BY <1>2, <1>10
  <2>3. dot => Len(t) - p = Len(f)
    BY <1>3, <2>1, <2>4
  <2>2. QED
    BY <1>1, <1>6, <2>3
<1>8. t[1] = Ch("-") => off = 1
  <2>1. 1 \in 1 .. Len(t)
    BY <1>2, <1>4
  <2>2. \A c \in AllDigits \cup {Point} : c # Ch("-")
    BY DEF AllDigits, Dg, Ch, Point
  <2>3. QED
    BY <1>2, <2>1, <2>2
<1> HIDE DEF p
<1>9. QED
  BY <1>4, <1>5, <1>6, <1>7, <1>8 DEF WellFormed

-----------------------------------------------------------------------------
(* The parts of the argument, as Split leaves them.                        *)
Sign == IF s # << >> /\ s[1] \in Signs THEN 1 ELSE 0
HasPoint == Points # {}

Divided ==
  /\ Sign \in {0, 1} /\ HasPoint \in BOOLEAN /\ (HasPoint \/ frac = << >>)
  /\ Len(s) = Sign + Len(whole) + IF HasPoint THEN 1 + Len(frac) ELSE 0
  /\ \A k \in 1 .. Len(whole) : s[Sign + k] = whole[k]
  /\ HasPoint => /\ s[Sign + Len(whole) + 1] = Point
                 /\ \A k \in 1 .. Len(frac) : s[Sign + Len(whole) + 1 + k] = frac[k]
  /\ \A i \in 1 .. Len(s) : s[i] = Point => HasPoint /\ i = Sign + Len(whole) + 1

Magnitude == Number(whole) * DECIMAL_MULTIPLIER + Number(frac) * Padding

DecimalsInv ==
  /\ parsing \in {"split", "check", "whole", "frac", "ok", "error"}
  /\ negative \in BOOLEAN
  /\ s \in Seq(Chars) /\ whole \in Seq(Chars) /\ frac \in Seq(Chars)
  /\ parsing \notin {"split", "error"} => Divided /\ negative = (s # << >> /\ s[1] = Ch("-"))
  /\ parsing \in {"whole", "frac", "ok"} => Parts(s, Sign, whole, frac, HasPoint)
  /\ parsing \in {"split", "check", "whole", "error"} => value \in 0 .. MAX
  /\ parsing = "frac" => value \in 0 .. MAX /\ value = Number(whole) * DECIMAL_MULTIPLIER
  /\ parsing = "ok" => /\ Magnitude \in 0 .. MAX
                       /\ value = IF negative THEN -Magnitude ELSE Magnitude
  /\ parsing = "error" => ~WellFormed(s) \/ Denoted(s) > MAX \/ -Denoted(s) > MAX

LEMMA CharKinds ==
  ASSUME DecimalsAssumption
  PROVE  /\ \A c \in Chars : IsDigit(c) <=> c \in AllDigits
         /\ \A c \in Signs : ~ IsDigit(c) /\ c # Point
         /\ ~ IsDigit(Point)
         /\ Ch("-") # Ch("+") /\ \A c \in AllDigits : c \notin Signs /\ c # Point
<1>1. Digits \subseteq 0 .. 9
  BY DecimalsAssumption
<1>2. \A d \in Digits : Dg(d) \in AllDigits
  BY <1>1 DEF AllDigits
<1>3. \A c : ~ IsDigit(Ch(c))
  BY DEF IsDigit, Ch
<1>4. \A c \in AllDigits : IsDigit(c)
  BY DigitTypes
<1>5. \A c \in Chars : IsDigit(c) <=> c \in AllDigits
  BY <1>2, <1>3, <1>4 DEF Chars, Point
<1>6. \A c \in Signs : ~ IsDigit(c) /\ c # Point
  BY DEF Signs, Ch, IsDigit, Point
<1>7. Ch("-") # Ch("+")
  BY DEF Ch
<1>8. QED
  BY <1>3, <1>4, <1>5, <1>6, <1>7 DEF Point

(* The argument without its sign. *)
LEMMA UnsignedShape ==
  ASSUME s \in Seq(Chars)
  PROVE  /\ Sign \in {0, 1} /\ Sign \in Nat /\ Len(s) \in Nat /\ Unsigned \in Seq(Chars)
         /\ Len(Unsigned) \in Nat /\ Len(s) = Sign + Len(Unsigned)
         /\ \A k \in 1 .. Len(Unsigned) : Unsigned[k] = s[Sign + k]
         /\ DOMAIN Unsigned = 1 .. Len(Unsigned)
         /\ Points = {k \in 1 .. Len(Unsigned) : s[Sign + k] = Point}
         /\ Sign = 1 => s # << >> /\ s[1] \in Signs
         /\ Sign = 0 => s = << >> \/ s[1] \notin Signs
<1>1. Len(s) \in Nat /\ Sign \in {0, 1}
  BY LenProperties DEF Sign
<1>2. CASE Sign = 1
  <2>1. s # << >> /\ s[1] \in Signs /\ Unsigned = Tail(s)
    BY <1>2 DEF Sign, Unsigned, Signs
  <2>2. /\ Tail(s) \in Seq(Chars) /\ Len(Tail(s)) = Len(s) - 1 /\ DOMAIN Tail(s) = 1 .. Len(Tail(s))
        /\ \A k \in 1 .. Len(Tail(s)) : Tail(s)[k] = s[1 + k]
    <3>1. Tail(s) \in Seq(Chars) /\ Len(Tail(s)) = Len(s) - 1 /\ \A k \in 1 .. Len(Tail(s)) : Tail(s)[k] = s[k + 1]
      BY <2>1, HeadTailProperties
    <3>2. QED
      BY <3>1, LenProperties
  <2>3. Len(s) = Sign + Len(Unsigned) /\ Len(Unsigned) \in Nat
    BY <1>1, <1>2, <2>1, <2>2, LenProperties
  <2>4. \A k \in 1 .. Len(Unsigned) : Unsigned[k] = s[Sign + k]
    BY <1>2, <2>1, <2>2
  <2>5. DOMAIN Unsigned = 1 .. Len(Unsigned)
    BY <2>1, <2>2
  <2>6. Points = {k \in 1 .. Len(Unsigned) : s[Sign + k] = Point}
    BY <2>4, <2>5 DEF Points
  <2>7. QED
    BY <1>1, <1>2, <2>1, <2>2, <2>3, <2>4, <2>5, <2>6
<1>3. CASE Sign = 0
  <2>1. (s = << >> \/ s[1] \notin Signs) /\ Unsigned = s
    BY <1>3 DEF Sign, Unsigned, Signs
  <2>2. Len(s) = Sign + Len(Unsigned) /\ DOMAIN Unsigned = 1 .. Len(Unsigned)
    BY <1>1, <1>3, <2>1, LenProperties
  <2>3. \A k \in 1 .. Len(Unsigned) : Unsigned[k] = s[Sign + k]
    BY <1>1, <1>3, <2>1
  <2>4. Points = {k \in 1 .. Len(Unsigned) : s[Sign + k] = Point}
    BY <2>2, <2>3 DEF Points
  <2>5. QED
    BY <1>1, <1>3, <2>1, <2>2, <2>3, <2>4
<1>4. QED
  BY <1>1, <1>2, <1>3

LEMMA StepSplit ==
  ASSUME DecimalsAssumption, DecimalsInv, Split
  PROVE  DecimalsInv'
<1>1. /\ parsing = "split" /\ s \in Seq(Chars) /\ s' = s /\ value' = value /\ value \in 0 .. MAX
      /\ negative' = (s # << >> /\ s[1] = Ch("-"))
      /\ whole \in Seq(Chars) /\ frac \in Seq(Chars)
  BY DEF Split, DecimalsInv
<1> DEFINE u == Unsigned
           n == Len(u)
<1>2. /\ Sign \in {0, 1} /\ Sign \in Nat /\ Len(s) \in Nat /\ u \in Seq(Chars)
      /\ n \in Nat /\ Len(s) = Sign + n
      /\ \A k \in 1 .. n : u[k] = s[Sign + k]
      /\ DOMAIN u = 1 .. n
      /\ Points = {k \in 1 .. n : s[Sign + k] = Point}
      /\ Sign = 1 => s # << >> /\ s[1] \in Signs
      /\ Sign = 0 => s = << >> \/ s[1] \notin Signs
  BY <1>1, UnsignedShape
<1>3. CASE u = << >> \/ Cardinality(Points) > 1
  <2>1. parsing' = "error" /\ UNCHANGED <<whole, frac>>
    BY <1>3 DEF Split
  <2>2. ~ WellFormed(s)
    <3>1. CASE u = << >>
      <4>1. n = 0 /\ Len(s) = Sign
        BY <1>2, <3>1
      <4>2. \A i \in DOMAIN s : ~ IsDigit(s[i])
        <5>1. DOMAIN s = 1 .. Sign
          BY <1>1, <4>1, LenProperties
        <5>2. QED
          BY <1>2, <5>1, CharKinds
      <4>3. QED
        BY <4>2 DEF WellFormed
    <3>2. CASE Cardinality(Points) > 1
      <4>1. PICK i \in Points, j \in Points : i # j
        <5> SUFFICES ASSUME \A i, j \in Points : i = j PROVE FALSE
          OBVIOUS
        <5>1. CASE Points = {}
          BY <3>2, <5>1, FS_EmptySet
        <5>2. CASE Points # {}
          <6>1. PICK i : Points = {i}
            BY <5>2
          <6>2. Cardinality(Points) = 1
            BY <6>1, FS_Singleton
          <6>3. QED
            BY <3>2, <6>2
        <5>3. QED
          BY <5>1, <5>2
      <4>2. i \in 1 .. n /\ j \in 1 .. n /\ s[Sign + i] = Point /\ s[Sign + j] = Point
        BY <1>2
      <4>3. Sign + i \in DOMAIN s /\ Sign + j \in DOMAIN s /\ Sign + i # Sign + j
        <5>1. Sign + i \in 1 .. Len(s) /\ Sign + j \in 1 .. Len(s) /\ Sign + i # Sign + j
          BY <1>2, <4>1, <4>2
        <5>2. QED
          BY <1>1, <5>1, LenProperties
      <4>4. QED
        BY <4>2, <4>3 DEF WellFormed
    <3>3. QED
      BY <1>3, <3>1, <3>2
  <2>3. ~ WellFormed(s')
    BY <1>1, <2>2
  <2>4. negative' \in BOOLEAN
    BY <1>1
  <2>5. QED
    BY <1>1, <2>1, <2>3, <2>4 DEF DecimalsInv
<1>4. CASE ~ (u = << >> \/ Cardinality(Points) > 1)
  <2> DEFINE p == IF Points = {} THEN n + 1 ELSE CHOOSE i \in Points : TRUE
  <2>1. whole' = SubSeq(u, 1, p - 1) /\ frac' = SubSeq(u, p + 1, n) /\ parsing' = "check"
    BY <1>4 DEF Split
  <2>2. \A i, j \in Points : i = j
    <3> SUFFICES ASSUME NEW i \in Points, NEW j \in Points, i # j PROVE FALSE
      OBVIOUS
    <3>1. IsFiniteSet(Points)
      <4>1. Points \subseteq 1 .. n /\ IsFiniteSet(1 .. n)
        BY <1>2, FS_Interval
      <4>2. QED
        BY <4>1, FS_Subset
    <3>2. IsFiniteSet({i, j}) /\ Cardinality({i, j}) = 2 /\ {i, j} \subseteq Points
      <4>1. IsFiniteSet({i}) /\ Cardinality({i}) = 1
        BY FS_Singleton
      <4>2. IsFiniteSet({i} \cup {j}) /\ Cardinality({i} \cup {j}) = 1 + 1
        BY <4>1, FS_AddElement
      <4>3. {i} \cup {j} = {i, j}
        OBVIOUS
      <4>4. QED
        BY <4>2, <4>3
    <3>3. Cardinality({i, j}) <= Cardinality(Points) /\ Cardinality(Points) \in Nat
      BY <3>1, <3>2, FS_Subset, FS_CardinalityType
    <3>4. QED
      BY <1>4, <3>2, <3>3
  <2>3. /\ p \in 1 .. n + 1 /\ (Points # {} => p \in Points)
        /\ Points = {} => p = n + 1
    BY <1>2
  <2> HIDE DEF p
  <2>4. /\ whole' \in Seq(Chars) /\ Len(whole') = p - 1
        /\ \A k \in 1 .. p - 1 : whole'[k] = u[k]
    <3>1. \A i \in 1 .. p - 1 : u[i] \in Chars
      BY <1>2, <2>3, ElementOfSeq
    <3>2. 1 \in Int /\ p - 1 \in Int /\ 1 - 1 <= p - 1 /\ (p - 1) - 1 + 1 = p - 1
      BY <1>2, <2>3
    <3>3. QED
      BY <1>2, <2>1, <2>3, SubSeqProperties
  <2>5. /\ frac' \in Seq(Chars) /\ Len(frac') = IF p <= n THEN n - p ELSE 0
        /\ \A k \in 1 .. Len(frac') : frac'[k] = u[p + k]
        /\ p = n + 1 => frac' = << >>
    <3>1. \A i \in p + 1 .. n : u[i] \in Chars
      BY <1>2, <2>3, ElementOfSeq
    <3>2. p + 1 \in Int /\ n \in Int /\ p \in Nat
      BY <1>2, <2>3
    <3> DEFINE q == p + 1
    <3>3. /\ frac' \in Seq(Chars) /\ Len(frac') = IF q <= n THEN n - q + 1 ELSE 0
          /\ \A k \in 1 .. n - q + 1 : frac'[k] = u[q + k - 1]
      <4> HIDE DEF q
      <4>1. \A i \in q .. n : u[i] \in Chars
        BY <3>1 DEF q
      <4>2. q \in Int /\ n \in Int
        BY <3>2 DEF q
      <4>3. frac' = SubSeq(u, q, n)
        BY <2>1 DEF q
      <4> HIDE DEF u, n
      <4>4. QED
        BY <4>1, <4>2, <4>3, SubSeqProperties
    <3>4. n - q + 1 = n - p
      BY <1>2, <3>2
    <3>5. \A k \in 1 .. n - p : q + k - 1 = p + k
      BY <3>2
    <3>6. Len(frac') = IF p <= n THEN n - p ELSE 0
      <4>1. (q <= n) => p <= n
        BY <1>2, <3>2
      <4>2. ~ (q <= n) /\ p <= n => n - p = 0
        <5>1. n \in Nat
          BY <1>2
        <5> HIDE DEF n, u
        <5>2. QED
          BY <3>2, <5>1
      <4>3. QED
        BY <3>3, <3>4, <4>1, <4>2
    <3>7. p = n + 1 => frac' = << >>
      BY <1>2, <2>3, <3>3, <3>6, EmptySeq
    <3> HIDE DEF q
    <3>8. \A k \in 1 .. Len(frac') : frac'[k] = u[p + k]
      <4>1. 1 .. Len(frac') \subseteq 1 .. n - p
        <5>1. n \in Nat
          BY <1>2
        <5> DEFINE l == Len(frac')
        <5> HIDE DEF n, u, l
        <5>2. l = IF p <= n THEN n - p ELSE 0
          BY <3>6 DEF l
        <5>3. 1 .. l \subseteq 1 .. n - p
          BY <3>2, <5>1, <5>2
        <5>4. QED
          BY <5>3 DEF l
      <4>2. QED
        BY <3>3, <3>4, <3>5, <4>1
    <3>9. QED
      BY <3>3, <3>6, <3>7, <3>8
  <2>6. Sign' = Sign /\ HasPoint' = HasPoint
    BY <1>1 DEF Sign, HasPoint, Points, Unsigned
  <2> DEFINE w == whole'
             f == frac'
             lw == Len(w)
             lf == Len(f)
  <2>7. /\ Len(s) = Sign + lw + IF HasPoint THEN 1 + lf ELSE 0
        /\ lw \in Nat /\ lf \in Nat /\ p = lw + 1 /\ (HasPoint => lf = n - p /\ p \in 1 .. n)
        /\ HasPoint \/ f = << >>
    <3>1. CASE HasPoint
      <4>1. p \in 1 .. n /\ lw = p - 1 /\ lf = n - p
        <5>1. p \in 1 .. n
          BY <1>2, <2>3, <3>1 DEF HasPoint
        <5>2. n \in Nat
          BY <1>2
        <5>3. p <= n
          <6> HIDE DEF n, u
          <6>1. QED
            BY <5>1, <5>2
        <5>4. QED
          BY <2>4, <2>5, <5>1, <5>3
      <4>2. QED
        <5> HIDE DEF lw, lf, n
        <5>1. lw \in Nat /\ lf \in Nat /\ p = lw + 1 /\ Len(s) = Sign + lw + (1 + lf)
          BY <1>2, <4>1
        <5>2. QED
          BY <3>1, <4>1, <5>1
    <3>2. CASE ~ HasPoint
      <4>1. p = n + 1 /\ lw = p - 1 /\ lf = 0 /\ f = << >>
        BY <1>2, <2>3, <2>4, <2>5, <3>2 DEF HasPoint
      <4>2. QED
        <5> HIDE DEF lw, lf, n
        <5>1. lw \in Nat /\ lf \in Nat /\ p = lw + 1 /\ Len(s) = Sign + lw + 0
          BY <1>2, <4>1
        <5>2. QED
          BY <3>2, <4>1, <5>1
    <3>3. QED
      BY <3>1, <3>2
  <2>8. \A k \in 1 .. lw : s[Sign + k] = w[k]
    BY <1>2, <2>3, <2>4
  <2>9. ASSUME HasPoint PROVE /\ s[Sign + lw + 1] = Point
                              /\ \A k \in 1 .. lf : s[Sign + lw + 1 + k] = f[k]
    <3>1. p \in Points /\ s[Sign + p] = Point
      BY <1>2, <2>3, <2>9 DEF HasPoint
    <3>2. Sign + p = Sign + lw + 1
      <4>1. Sign \in Nat /\ lw \in Nat /\ p = lw + 1
        BY <1>2, <2>7
      <4> HIDE DEF lw
      <4>2. QED
        BY <4>1
    <3>3. ASSUME NEW k \in 1 .. lf PROVE s[Sign + lw + 1 + k] = f[k]
      <4>1. p + k \in 1 .. n /\ Sign + (p + k) = Sign + lw + 1 + k
        BY <1>2, <2>7, <2>9
      <4>2. f[k] = u[p + k]
        BY <2>5
      <4>3. u[p + k] = s[Sign + (p + k)]
        BY <1>2, <4>1
      <4> HIDE DEF lw, lf, u
      <4>4. QED
        BY <4>1, <4>2, <4>3
    <3> HIDE DEF lw, lf
    <3>4. QED
      BY <3>1, <3>2, <3>3
  <2>10. ASSUME NEW i \in 1 .. Len(s), s[i] = Point PROVE HasPoint /\ i = Sign + lw + 1
    <3>1. i # Sign
      BY <1>2, <2>10, CharKinds
    <3>2. i - Sign \in 1 .. n /\ Sign + (i - Sign) = i
      BY <1>2, <3>1
    <3>3. i - Sign \in Points
      BY <1>2, <2>10, <3>2
    <3>4. p = i - Sign /\ HasPoint
      BY <2>2, <2>3, <3>3 DEF HasPoint
    <3> HIDE DEF lw, lf, n
    <3>5. QED
      BY <1>2, <2>7, <3>4
  <2>11. Divided'
    <3>1. HasPoint \in BOOLEAN
      BY DEF HasPoint
    <3> HIDE DEF p
    <3>2. QED
      BY <1>1, <1>2, <2>6, <2>7, <2>8, <2>9, <2>10, <3>1 DEF Divided
  <2>12. negative' \in BOOLEAN /\ negative' = (s' # << >> /\ s'[1] = Ch("-"))
    BY <1>1
  <2> HIDE DEF w, f, lw, lf
  <2>13. QED
    BY <1>1, <2>1, <2>4, <2>5, <2>11, <2>12 DEF DecimalsInv
<1>5. QED
  BY <1>3, <1>4

LEMMA MagnitudeFacts ==
  ASSUME DecimalsAssumption, s \in Seq(Chars), Parts(s, Sign, whole, frac, HasPoint)
  PROVE  /\ WellFormed(s)
         /\ Number(whole) * DECIMAL_MULTIPLIER \in Nat /\ Number(frac) * Padding \in Nat
         /\ Magnitude \in Nat /\ Magnitude >= Number(whole) * DECIMAL_MULTIPLIER
         /\ Denoted(s) = IF s # << >> /\ s[1] = Ch("-") THEN -Magnitude ELSE Magnitude
<1>1. /\ Number(whole) \in Nat /\ Number(frac) \in Nat
      /\ Weighed(s)[Len(s)] =
              Number(whole) * Power10[DECIMAL_SCALE] + Number(frac) * Power10[DECIMAL_SCALE - Len(frac)]
  BY PartsDenote
<1>2. DECIMAL_SCALE \in Nat /\ DECIMAL_SCALE - Len(frac) \in Nat
  BY DecimalsAssumption, LenProperties DEF Parts
<1>3. DECIMAL_MULTIPLIER \in Nat /\ Padding \in Nat
  BY <1>2, Powers DEF DECIMAL_MULTIPLIER, Padding
<1>4. Number(whole) * DECIMAL_MULTIPLIER \in Nat /\ Number(frac) * Padding \in Nat
  BY <1>1, <1>3, OneMore
<1>5. Weighed(s)[Len(s)] = Magnitude
  BY <1>1 DEF Magnitude, DECIMAL_MULTIPLIER, Padding
<1>6. Magnitude \in Nat /\ Magnitude >= Number(whole) * DECIMAL_MULTIPLIER
  <2>1. ASSUME NEW a \in Nat, NEW b \in Nat PROVE a + b \in Nat /\ a + b >= a
    OBVIOUS
  <2>2. QED
    BY <1>4, <2>1 DEF Magnitude
<1>7. Denoted(s) = IF s # << >> /\ s[1] = Ch("-") THEN -Magnitude ELSE Magnitude
  <2>1. Denoted(s) = (IF s # << >> /\ s[1] = Ch("-") THEN -1 ELSE 1) * Magnitude
    BY <1>5 DEF Denoted
  <2>2. ASSUME NEW a \in Nat PROVE (-1) * a = -a /\ 1 * a = a
    OBVIOUS
  <2>3. QED
    BY <1>6, <2>1, <2>2
<1>8. WellFormed(s)
  BY PartsWellFormed
<1>9. QED
  BY <1>4, <1>6, <1>7, <1>8

LEMMA StepCheck ==
  ASSUME DecimalsAssumption, DecimalsInv, Check
  PROVE  DecimalsInv'
<1>1. /\ parsing = "check" /\ s \in Seq(Chars) /\ UNCHANGED <<s, negative, whole, frac, value>>
      /\ whole \in Seq(Chars) /\ frac \in Seq(Chars) /\ negative \in BOOLEAN
      /\ Divided /\ negative = (s # << >> /\ s[1] = Ch("-")) /\ value \in 0 .. MAX
  BY DEF Check, DecimalsInv
<1>2. Sign' = Sign /\ HasPoint' = HasPoint
  BY <1>1 DEF Sign, HasPoint, Points, Unsigned
<1>3. /\ Len(s) \in Nat /\ Len(whole) \in Nat /\ Len(frac) \in Nat /\ DECIMAL_SCALE \in Nat
      /\ DOMAIN s = 1 .. Len(s) /\ DOMAIN whole = 1 .. Len(whole) /\ DOMAIN frac = 1 .. Len(frac)
      /\ Sign \in Nat /\ Sign \in {0, 1}
      /\ Sign = 1 => s # << >> /\ s[1] \in Signs
      /\ Sign = 0 => s = << >> \/ s[1] \notin Signs
  BY <1>1, LenProperties, UnsignedShape, DecimalsAssumption
<1> DEFINE p == Sign + Len(whole) + 1
           bad == \/ whole = << >> /\ frac = << >>
                  \/ Len(frac) > DECIMAL_SCALE
                  \/ \E c \in Range(whole) \union Range(frac) : ~IsDigit(c)
<1>4. /\ HasPoint => Len(s) = p + Len(frac)
      /\ ~ HasPoint => Len(s) = Sign + Len(whole) /\ frac = << >>
      /\ p \in Nat /\ p >= 1
  <2>1. ASSUME HasPoint PROVE Len(s) = p + Len(frac)
    <3>1. Len(s) = Sign + Len(whole) + (1 + Len(frac))
      BY <1>1, <2>1 DEF Divided
    <3>2. QED
      BY <1>3, <3>1
  <2>2. ASSUME ~ HasPoint PROVE Len(s) = Sign + Len(whole)
    <3>1. Len(s) = Sign + Len(whole) + 0
      BY <1>1, <2>2 DEF Divided
    <3>2. QED
      BY <1>3, <3>1
  <2>3. p \in Nat /\ p >= 1
    BY <1>3
  <2>4. ~ HasPoint => frac = << >>
    BY <1>1 DEF Divided
  <2> HIDE DEF p
  <2>5. QED
    BY <2>1, <2>2, <2>3, <2>4
<1>5. /\ \A k \in 1 .. Len(whole) : s[Sign + k] = whole[k] /\ Sign + k \in 1 .. Len(s)
      /\ HasPoint => /\ s[p] = Point /\ p \in 1 .. Len(s)
                     /\ \A k \in 1 .. Len(frac) : s[p + k] = frac[k] /\ p + k \in 1 .. Len(s)
      /\ \A i \in 1 .. Len(s) : s[i] = Point => HasPoint /\ i = p
  <2>1. /\ \A k \in 1 .. Len(whole) : s[Sign + k] = whole[k]
        /\ HasPoint => s[p] = Point /\ \A k \in 1 .. Len(frac) : s[p + k] = frac[k]
        /\ \A i \in 1 .. Len(s) : s[i] = Point => HasPoint /\ i = p
    BY <1>1 DEF Divided
  <2>2. \A k \in 1 .. Len(whole) : Sign + k \in 1 .. Len(s)
    <3> DEFINE a == Sign
               b == Len(whole)
               c == Len(s)
               d == Len(frac)
    <3>1. c >= a + b
      <4>1. c = a + b + 1 + d \/ c = a + b
        BY <1>4
      <4>2. a \in Nat /\ b \in Nat /\ c \in Nat /\ d \in Nat
        BY <1>3
      <4> HIDE DEF a, b, c, d
      <4>3. QED
        BY <4>1, <4>2
    <3>2. a \in Nat /\ b \in Nat /\ c \in Nat /\ c >= a + b
      BY <1>3, <3>1
    <3> HIDE DEF a, b, c
    <3>3. \A k \in 1 .. b : a + k \in 1 .. c
      BY <3>2
    <3>4. QED
      BY <3>3 DEF a, b, c
  <2> HIDE DEF p
  <2>3. HasPoint => p \in 1 .. Len(s) /\ \A k \in 1 .. Len(frac) : p + k \in 1 .. Len(s)
    BY <1>3, <1>4
  <2>4. QED
    BY <2>1, <2>2, <2>3
<1>6. CASE bad
  <2>1. parsing' = "error"
    BY <1>6 DEF Check
  <2>2. ~ WellFormed(s)
    <3>1. CASE whole = << >> /\ frac = << >>
      <4>1. ASSUME NEW i \in 1 .. Len(s) PROVE ~ IsDigit(s[i])
        <5>1. Len(whole) = 0 /\ Len(frac) = 0
          BY <3>1, EmptySeq
        <5> DEFINE a == Sign
                   n == Len(s)
        <5>4. a \in Nat /\ n \in Nat /\ i \in 1 .. n /\ p = a + 1
          BY <1>3, <5>1
        <5>8. HasPoint => n = p + 0
          BY <1>4, <5>1
        <5>9. ~ HasPoint => n = a + 0
          BY <1>4, <5>1
        <5>5. (n = p \/ n = a) /\ (HasPoint \/ n = a)
          <6> HIDE DEF a, n, p
          <6>1. QED
            BY <5>4, <5>8, <5>9
        <5>7. a \in {0, 1}
          BY <1>3
        <5>2. i = Sign \/ (i = p /\ HasPoint)
          <6> HIDE DEF a, n, p
          <6>1. i = a \/ (i = p /\ HasPoint)
            BY <5>4, <5>5, <5>7
          <6>2. QED
            BY <6>1 DEF a
        <5>3. QED
          BY <1>3, <1>5, <5>2, CharKinds
      <4>2. QED
        BY <1>3, <4>1 DEF WellFormed
    <3>2. CASE Len(frac) > DECIMAL_SCALE
      <4>1. HasPoint
        <5>1. frac # << >>
          <6>1. Len(<< >>) = 0
            BY EmptySeq
          <6>2. QED
            BY <1>3, <3>2, <6>1
        <5>2. QED
          BY <1>4, <5>1
      <4> HIDE DEF p
      <4>5. ASSUME NEW a \in Nat, NEW b \in Nat, NEW c \in Nat, a = b + c PROVE a - b = c
        BY <4>5
      <4>6. Len(s) - p = Len(frac)
        <5>1. Len(s) \in Nat /\ p \in Nat /\ Len(frac) \in Nat /\ Len(s) = p + Len(frac)
          BY <1>3, <1>4, <4>1
        <5>2. QED
          BY <4>5, <5>1
      <4>2. p \in DOMAIN s /\ s[p] = Point /\ Len(s) - p = Len(frac)
        BY <1>3, <1>5, <4>1, <4>6
      <4>3. ~ (Len(s) - p <= DECIMAL_SCALE)
        BY <1>3, <3>2, <4>2
      <4>4. QED
        BY <4>2, <4>3 DEF WellFormed
    <3>3. CASE \E c \in Range(whole) \union Range(frac) : ~IsDigit(c)
      <4>1. PICK i \in 1 .. Len(s) : /\ ~ IsDigit(s[i]) /\ s[i] # Point
                                     /\ i # 1 \/ s[i] \notin Signs
        <5>1. PICK c \in Range(whole) \union Range(frac) : ~ IsDigit(c)
          BY <3>3
        <5>2. CASE c \in Range(whole)
          <6>1. PICK k \in 1 .. Len(whole) : c = whole[k]
            BY <1>3, <5>2 DEF Range
          <6>2. Sign + k \in 1 .. Len(s) /\ s[Sign + k] = c /\ Sign + k # p
            BY <1>3, <1>5, <6>1
          <6>3. Sign + k = 1 => Sign = 0 /\ s # << >>
            BY <1>3, <6>2, EmptySeq
          <6> HIDE DEF p
          <6>4. ~ IsDigit(s[Sign + k]) /\ s[Sign + k] # Point
            BY <1>5, <5>1, <6>2
          <6>5. Sign + k # 1 \/ s[Sign + k] \notin Signs
            BY <1>3, <6>3
          <6>6. QED
            BY <6>2, <6>4, <6>5
        <5>3. CASE c \in Range(frac)
          <6>1. PICK k \in 1 .. Len(frac) : c = frac[k]
            BY <1>3, <5>3 DEF Range
          <6>2. HasPoint
            <7>1. frac # << >>
              <8>1. Len(<< >>) = 0
                BY EmptySeq
              <8>2. QED
                BY <1>3, <6>1, <8>1
            <7>2. QED
              BY <1>4, <7>1
          <6> HIDE DEF p
          <6>3. p + k \in 1 .. Len(s) /\ s[p + k] = c /\ p + k # p /\ p + k # 1
            BY <1>3, <1>4, <1>5, <6>1, <6>2
          <6>4. ~ IsDigit(s[p + k]) /\ s[p + k] # Point
            BY <1>5, <5>1, <6>3
          <6>5. QED
            BY <6>3, <6>4
        <5>4. QED
          BY <5>1, <5>2, <5>3
      <4>2. QED
        BY <1>3, <4>1 DEF WellFormed, Signs
    <3>4. QED
      BY <1>6, <3>1, <3>2, <3>3
  <2>3. ~ WellFormed(s')
    BY <1>1, <2>2
  <2> HIDE DEF bad
  <2>4. QED
    BY <1>1, <2>1, <2>3 DEF DecimalsInv
<1>7. CASE ~ bad
  <2>1. parsing' = "whole"
    BY <1>7 DEF Check
  <2>2. ASSUME NEW ds \in Seq(Chars), \A c \in Range(ds) : IsDigit(c) PROVE ds \in Seq(AllDigits)
    <3>1. \A k \in 1 .. Len(ds) : ds[k] \in AllDigits
      BY <2>2, ElementOfSeq, LenProperties, CharKinds DEF Range
    <3>2. Len(ds) \in Nat /\ ds = [k \in 1 .. Len(ds) |-> ds[k]]
      BY LenProperties
    <3>3. QED
      BY <3>1, <3>2, SeqDef
  <2>3. whole \in Seq(AllDigits) /\ frac \in Seq(AllDigits)
    BY <1>1, <1>7, <2>2
  <2>4. s = [i \in 1 .. Len(s) |-> s[i]]
    BY <1>1, LenProperties
  <2>5. Len(frac) <= DECIMAL_SCALE /\ (whole # << >> \/ frac # << >>)
    BY <1>3, <1>7
  <2>6. Parts(s, Sign, whole, frac, HasPoint)
    BY <1>1, <1>3, <2>3, <2>4, <2>5 DEF Parts, Divided
  <2>7. Parts(s, Sign, whole, frac, HasPoint)' /\ Divided'
    BY <1>1, <1>2, <2>6 DEF Parts, Divided
  <2> HIDE DEF bad
  <2>8. QED
    BY <1>1, <2>1, <2>7 DEF DecimalsInv
<1>8. QED
  BY <1>6, <1>7

LEMMA StepWhole ==
  ASSUME DecimalsAssumption, DecimalsInv, Whole
  PROVE  DecimalsInv'
<1>1. /\ parsing = "whole" /\ s \in Seq(Chars) /\ UNCHANGED <<s, negative, whole, frac>>
      /\ whole \in Seq(Chars) /\ frac \in Seq(Chars) /\ negative \in BOOLEAN
      /\ Divided /\ negative = (s # << >> /\ s[1] = Ch("-")) /\ value \in 0 .. MAX
      /\ Parts(s, Sign, whole, frac, HasPoint)
  BY DEF Whole, DecimalsInv
<1>2. /\ Parts(s, Sign, whole, frac, HasPoint)' /\ Divided'
      /\ negative' = (s' # << >> /\ s'[1] = Ch("-"))
  <2>1. Sign' = Sign /\ HasPoint' = HasPoint
    BY <1>1 DEF Sign, HasPoint, Points, Unsigned
  <2>2. QED
    BY <1>1, <2>1 DEF Parts, Divided
<1> DEFINE v == Number(whole) * DECIMAL_MULTIPLIER
           magnitude == Magnitude
<1>3. /\ v \in Nat /\ magnitude \in Nat /\ magnitude >= v /\ MAX \in Nat
      /\ (Denoted(s) = -magnitude \/ Denoted(s) = magnitude)
  BY <1>1, MagnitudeFacts, DecimalsAssumption
<1>4. /\ IF v <= MAX THEN value' = v /\ parsing' = "frac" ELSE parsing' = "error" /\ UNCHANGED value
      /\ Number(whole)' * DECIMAL_MULTIPLIER = v
  BY <1>1 DEF Whole, Fits
<1> HIDE DEF v, magnitude
<1>5. CASE v <= MAX
  <2>1. value' = v /\ parsing' = "frac" /\ value' \in 0 .. MAX
    BY <1>3, <1>4, <1>5
  <2>2. QED
    BY <1>1, <1>2, <1>4, <2>1 DEF DecimalsInv
<1>6. CASE ~ (v <= MAX)
  <2>1. magnitude > MAX /\ - (- magnitude) > MAX
    BY <1>3, <1>6
  <2>2. Denoted(s) > MAX \/ -Denoted(s) > MAX
    BY <1>3, <2>1
  <2>3. (Denoted(s) > MAX \/ -Denoted(s) > MAX)'
    BY <1>1, <2>2
  <2>4. parsing' = "error" /\ value' = value
    BY <1>4, <1>6
  <2>5. QED
    BY <1>1, <2>3, <2>4 DEF DecimalsInv
<1>7. QED
  BY <1>5, <1>6

LEMMA StepFrac ==
  ASSUME DecimalsAssumption, DecimalsInv, Frac
  PROVE  DecimalsInv'
<1>1. /\ parsing = "frac" /\ s \in Seq(Chars) /\ UNCHANGED <<s, negative, whole, frac>>
      /\ whole \in Seq(Chars) /\ frac \in Seq(Chars) /\ negative \in BOOLEAN
      /\ Divided /\ negative = (s # << >> /\ s[1] = Ch("-")) /\ value \in 0 .. MAX
      /\ Parts(s, Sign, whole, frac, HasPoint) /\ value = Number(whole) * DECIMAL_MULTIPLIER
  BY DEF Frac, DecimalsInv
<1>2. /\ Parts(s, Sign, whole, frac, HasPoint)' /\ Divided'
      /\ negative' = (s' # << >> /\ s'[1] = Ch("-"))
  <2>1. Sign' = Sign /\ HasPoint' = HasPoint
    BY <1>1 DEF Sign, HasPoint, Points, Unsigned
  <2>2. QED
    BY <1>1, <2>1 DEF Parts, Divided
<1> DEFINE v == Magnitude
<1>3. /\ v \in Nat /\ MAX \in Nat /\ (Denoted(s) = -v \/ Denoted(s) = v)
  BY <1>1, MagnitudeFacts, DecimalsAssumption
<1>4. /\ IF v <= MAX THEN value' = (IF negative THEN -v ELSE v) /\ parsing' = "ok"
         ELSE parsing' = "error" /\ UNCHANGED value
      /\ Magnitude' = v
  <2>1. value + Number(frac) * Padding = v
    BY <1>1 DEF Magnitude
  <2>2. Magnitude' = v
    BY <1>1 DEF Magnitude, Padding
  <2> HIDE DEF v
  <2>3. QED
    BY <2>1, <2>2 DEF Frac, Fits
<1> HIDE DEF v
<1>5. CASE v <= MAX
  <2>1. value' = (IF negative' THEN -v ELSE v) /\ parsing' = "ok" /\ v \in 0 .. MAX
    BY <1>1, <1>3, <1>4, <1>5
  <2>2. QED
    BY <1>1, <1>2, <1>4, <2>1 DEF DecimalsInv
<1>6. CASE ~ (v <= MAX)
  <2>1. v > MAX /\ - (- v) > MAX
    BY <1>3, <1>6
  <2>2. Denoted(s) > MAX \/ -Denoted(s) > MAX
    BY <1>3, <2>1
  <2>3. (Denoted(s) > MAX \/ -Denoted(s) > MAX)'
    BY <1>1, <2>2
  <2>4. parsing' = "error" /\ value' = value
    BY <1>4, <1>6
  <2>5. QED
    BY <1>1, <2>3, <2>4 DEF DecimalsInv
<1>7. QED
  BY <1>5, <1>6

LEMMA DecimalsInvariant ==
  ASSUME DecimalsAssumption
  PROVE  DecimalsSpec => []DecimalsInv
<1>1. ASSUME DecimalsInit PROVE DecimalsInv
  <2>1. s \in Seq(Chars) /\ << >> \in Seq(Chars)
    BY <1>1, DecimalsAssumption, SeqDef DEF DecimalsInit, BoundedSeq, SeqOf
  <2>2. 0 \in 0 .. MAX
    BY DecimalsAssumption
  <2>3. QED
    BY <1>1, <2>1, <2>2 DEF DecimalsInit, DecimalsInv
<1>2. ASSUME DecimalsInv, [DecimalsNext]_decimalVars PROVE DecimalsInv'
  <2>1. CASE UNCHANGED decimalVars
    <3>1. UNCHANGED <<s, parsing, negative, whole, frac, value>>
      BY <2>1 DEF decimalVars
    <3>2. Sign' = Sign /\ HasPoint' = HasPoint /\ Magnitude' = Magnitude
      BY <3>1 DEF Sign, HasPoint, Points, Unsigned, Magnitude, Padding
    <3>3. Divided' <=> Divided
      BY <3>1, <3>2 DEF Divided
    <3>4. Parts(s, Sign, whole, frac, HasPoint)' <=> Parts(s, Sign, whole, frac, HasPoint)
      BY <3>1, <3>2
    <3>5. WellFormed(s)' <=> WellFormed(s)
      BY <3>1
    <3>6. QED
      BY <1>2, <3>1, <3>2, <3>3, <3>4, <3>5 DEF DecimalsInv
  <2>2. QED
    BY <1>2, <2>1, StepSplit, StepCheck, StepWhole, StepFrac DEF DecimalsNext
<1>3. QED
  BY <1>1, <1>2, PTL DEF DecimalsSpec

(* What is read of a number always fits its type.                          *)
THEOREM DecimalsTypeCorrect ==
  ASSUME DecimalsAssumption
  PROVE  DecimalsSpec => []DecimalsTypeOK
<1>1. ASSUME DecimalsInv PROVE DecimalsTypeOK
  <2>1. MAX \in Nat
    BY DecimalsAssumption
  <2>2. CASE parsing = "ok"
    <3> DEFINE v == Magnitude
    <3>1. v \in 0 .. MAX /\ value = IF negative THEN -v ELSE v
      BY <1>1, <2>2 DEF DecimalsInv
    <3> HIDE DEF v
    <3>2. value \in -MAX .. MAX
      BY <2>1, <3>1
    <3>3. QED
      BY <1>1, <3>2 DEF DecimalsInv, DecimalsTypeOK
  <2>3. CASE parsing # "ok"
    <3>1. value \in 0 .. MAX
      BY <1>1, <2>3 DEF DecimalsInv
    <3>2. value \in -MAX .. MAX
      BY <2>1, <3>1
    <3>3. QED
      BY <1>1, <3>2 DEF DecimalsInv, DecimalsTypeOK
  <2>4. QED
    BY <2>2, <2>3
<1>2. QED
  BY <1>1, DecimalsInvariant, PTL

(* decimal_from_str (src/src/storage/mod.rs): a number is stored exactly   *)
(* or the string is rejected, and only one that is no number, has more     *)
(* digits behind the point than the scale or does not fit is rejected, for *)
(* strings of any length, any scale and any width.                         *)
THEOREM DecimalsExactOrRejected ==
  ASSUME DecimalsAssumption
  PROVE  DecimalsSpec => []ExactOrRejected
<1>1. ASSUME DecimalsInv PROVE ExactOrRejected
  <2>1. CASE parsing = "ok"
    <3>1. /\ Parts(s, Sign, whole, frac, HasPoint) /\ s \in Seq(Chars)
          /\ negative = (s # << >> /\ s[1] = Ch("-"))
          /\ value = IF negative THEN -Magnitude ELSE Magnitude
      BY <1>1, <2>1 DEF DecimalsInv
    <3>2. WellFormed(s) /\ Denoted(s) = IF negative THEN -Magnitude ELSE Magnitude
      BY <3>1, MagnitudeFacts
    <3>3. QED
      BY <2>1, <3>1, <3>2 DEF ExactOrRejected
  <2>2. CASE parsing = "error"
    BY <1>1, <2>2 DEF DecimalsInv, ExactOrRejected
  <2>3. QED
    BY <2>1, <2>2 DEF ExactOrRejected
<1>2. QED
  BY <1>1, DecimalsInvariant, PTL

-----------------------------------------------------------------------------
(* Printing.                                                               *)

LEMMA DivMod ==
  ASSUME NEW n \in Nat, NEW m \in Nat \ {0}
  PROVE  n \div m \in Nat /\ n % m \in 0 .. m - 1 /\ n = m * (n \div m) + (n % m)
OBVIOUS

LEMMA DivUnique ==
  ASSUME NEW n \in Nat, NEW m \in Nat \ {0}, NEW a \in Nat, NEW x \in 0 .. m - 1, n = m * a + x
  PROVE  n \div m = a
<1> DEFINE c == n \div m
           y == n % m
<1>1. c \in Nat /\ y \in 0 .. m - 1 /\ m * a + x = m * c + y
  BY DivMod
<1> HIDE DEF c, y
<1>2. ASSUME a >= c + 1 PROVE FALSE
  <2>1. PICK d \in Nat : a = c + 1 + d
    <3>1. a - (c + 1) \in Nat /\ a = c + 1 + (a - (c + 1))
      BY <1>1, <1>2
    <3>2. QED
      BY <3>1
  <2>2. m * (c + 1 + d) = m * c + m + m * d /\ m * d >= 0
    BY <1>1
  <2>3. m * a = m * c + m + m * d
    BY <2>1, <2>2
  <2> DEFINE mc == m * c
             md == m * d
             ma == m * a
  <2>4. mc \in Nat /\ md \in Nat /\ ma \in Nat
    BY <1>1
  <2> HIDE DEF mc, md, ma
  <2>5. ma = mc + m + md /\ ma + x = mc + y
    BY <1>1, <2>3 DEF ma, mc, md
  <2>6. QED
    BY <1>1, <2>4, <2>5
<1>3. ASSUME c >= a + 1 PROVE FALSE
  <2>1. PICK d \in Nat : c = a + 1 + d
    <3>1. c - (a + 1) \in Nat /\ c = a + 1 + (c - (a + 1))
      BY <1>1, <1>3
    <3>2. QED
      BY <3>1
  <2>2. m * (a + 1 + d) = m * a + m + m * d /\ m * d >= 0
    BY <1>1
  <2>3. m * c = m * a + m + m * d
    BY <2>1, <2>2
  <2> DEFINE mc == m * c
             md == m * d
             ma == m * a
  <2>4. mc \in Nat /\ md \in Nat /\ ma \in Nat
    BY <1>1
  <2> HIDE DEF mc, md, ma
  <2>5. mc = ma + m + md /\ ma + x = mc + y
    BY <1>1, <2>3 DEF ma, mc, md
  <2>6. QED
    BY <1>1, <2>4, <2>5
<1>4. QED
  BY <1>1, <1>2, <1>3 DEF c

(* The next place of n in a number to some base. *)
LEMMA NextPlace ==
  ASSUME NEW base \in Nat \ {0}, NEW n \in Nat, NEW p \in Nat \ {0}
  PROVE  /\ n \div p \in Nat /\ n \div (base * p) \in Nat /\ (n \div p) % base \in 0 .. base - 1
         /\ base * p \in Nat \ {0}
         /\ n \div p = base * (n \div (base * p)) + ((n \div p) % base)
<1> DEFINE q == n \div p
           r == n % p
           a == q \div base
           b == q % base
<1>1. q \in Nat /\ r \in 0 .. p - 1 /\ n = p * q + r
  BY DivMod
<1> HIDE DEF q, r
<1>2. a \in Nat /\ b \in 0 .. base - 1 /\ q = base * a + b
  BY <1>1, DivMod
<1> HIDE DEF a, b
<1>3. n = (base * p) * a + (p * b + r)
  <2>1. p * q = p * (base * a + b)
    BY <1>2
  <2>2. p * (base * a + b) = (base * p) * a + p * b
    BY <1>2
  <2> DEFINE pq == p * q
             pa == (base * p) * a
             pb == p * b
  <2>3. pa \in Nat /\ pb \in Nat /\ pq = pa + pb /\ n = pq + r
    BY <1>1, <1>2, <2>1, <2>2
  <2> HIDE DEF pa, pb, pq
  <2>4. n = pa + (pb + r)
    BY <1>1, <2>3
  <2>5. QED
    BY <2>4 DEF pa, pb
<1>4. p * b + r \in 0 .. base * p - 1 /\ base * p \in Nat \ {0}
  <2>1. PICK d \in Nat : base = b + 1 + d
    <3>1. base - 1 - b \in Nat /\ base = b + 1 + (base - 1 - b)
      BY <1>2
    <3>2. QED
      BY <3>1
  <2>2. (b + 1 + d) * p = p * b + p + d * p
    BY <1>2
  <2> DEFINE pb == p * b
             dp == d * p
             bp == base * p
  <2>3. pb \in Nat /\ dp \in Nat /\ bp = pb + p + dp
    BY <1>2, <2>1, <2>2
  <2> HIDE DEF pb, dp, bp
  <2>4. pb + r \in 0 .. bp - 1 /\ bp \in Nat \ {0}
    BY <1>1, <2>3
  <2>5. QED
    BY <2>4 DEF pb, bp
<1>5. n \div (base * p) = a
  <2> DEFINE m == base * p
             x == p * b + r
  <2>1. m \in Nat \ {0} /\ x \in 0 .. m - 1 /\ n = m * a + x
    BY <1>3, <1>4
  <2> HIDE DEF m, x
  <2>2. n \div m = a
    BY <1>2, <2>1, DivUnique
  <2>3. QED
    BY <2>2 DEF m
<1>6. QED
  BY <1>1, <1>2, <1>4, <1>5 DEF q, b

LEMMA NextDigit ==
  ASSUME NEW n \in Nat, NEW p \in Nat \ {0}
  PROVE  /\ n \div p \in Nat /\ n \div (10 * p) \in Nat /\ (n \div p) % 10 \in 0 .. 9
         /\ n \div p = 10 * (n \div (10 * p)) + ((n \div p) % 10)
<1> DEFINE ten == 10
<1>1. ten \in Nat \ {0} /\ ten - 1 = 9
  OBVIOUS
<1> HIDE DEF ten
<1>2. /\ n \div p \in Nat /\ n \div (ten * p) \in Nat /\ (n \div p) % ten \in 0 .. ten - 1
      /\ n \div p = ten * (n \div (ten * p)) + ((n \div p) % ten)
  BY <1>1, NextPlace
<1>3. QED
  BY <1>1, <1>2 DEF ten

LEMMA PaddedReads ==
  ASSUME NEW n \in Nat, NEW width \in Nat, n < Power10[width]
  PROVE  /\ Padded(n, width) \in Seq(AllDigits) /\ Len(Padded(n, width)) = width
         /\ \A k \in 0 .. width : Reading(Padded(n, width))[k] = n \div Power10[width - k]
         /\ Number(Padded(n, width)) = n
<1> DEFINE ds == Padded(n, width)
           P(m) == Power10[m]
<1>1. \A m \in Nat : P(m) \in Nat \ {0} /\ P(m + 1) = 10 * P(m) /\ P(0) = 1
  BY Powers
<1>2. \A k \in 1 .. width : (n \div P(width - k)) % 10 \in 0 .. 9
  <2> SUFFICES ASSUME NEW k \in 1 .. width PROVE (n \div P(width - k)) % 10 \in 0 .. 9
    OBVIOUS
  <2>1. width - k \in Nat
    OBVIOUS
  <2>2. P(width - k) \in Nat \ {0}
    BY <1>1, <2>1
  <2> HIDE DEF P
  <2>3. QED
    BY <2>2, NextDigit
<1>3. /\ ds = [i \in 1 .. width |-> Dg((n \div P(width - i)) % 10)]
      /\ ds \in [1 .. width -> AllDigits]
  <2> HIDE DEF P
  <2>1. \A i \in 1 .. width : Dg((n \div P(width - i)) % 10) \in AllDigits
    BY <1>2 DEF AllDigits
  <2>2. ds = [i \in 1 .. width |-> Dg((n \div P(width - i)) % 10)]
    BY DEF Padded, P
  <2> HIDE DEF ds
  <2>3. QED
    BY <2>1, <2>2
<1>4. ds \in Seq(AllDigits) /\ Len(ds) = width
  <2>1. ds \in Seq(AllDigits)
    BY <1>3, SeqDef
  <2>2. DOMAIN ds = 1 .. Len(ds) /\ Len(ds) \in Nat /\ DOMAIN ds = 1 .. width
    BY <1>3, <2>1, LenProperties
  <2> DEFINE l == Len(ds)
  <2>3. l \in Nat /\ 1 .. l = 1 .. width
    BY <2>2
  <2> HIDE DEF l
  <2>4. l = width
    BY <2>3
  <2>5. QED
    BY <2>1, <2>4 DEF l
<1>5. /\ Reading(ds)[0] = 0
      /\ \A k \in 1 .. width : Reading(ds)[k] = 10 * Reading(ds)[k - 1] + ds[k][2]
  BY <1>4, Readings
<1>6. \A k \in 1 .. width : ds[k][2] = (n \div P(width - k)) % 10
  BY <1>3 DEF Dg
<1> HIDE DEF ds, P
<1> DEFINE S == {k \in 0 .. width : Reading(ds)[k] = n \div P(width - k)}
<1>7. 0 \in S
  <2>1. P(width) \in Nat \ {0} /\ n \in 0 .. P(width) - 1 /\ n = P(width) * 0 + n
    BY <1>1 DEF P
  <2>2. n \div P(width) = 0
    BY <2>1, DivUnique
  <2>3. width - 0 = width /\ 0 \in 0 .. width
    OBVIOUS
  <2>4. QED
    BY <1>5, <2>2, <2>3
<1>8. ASSUME NEW k \in 0 .. width - 1, k \in S PROVE k + 1 \in S
  <2> DEFINE q == width - (k + 1)
             a == P(q)
  <2>1. /\ q \in Nat /\ q + 1 = width - k /\ k + 1 \in 1 .. width /\ k + 1 - 1 = k /\ k + 1 \in 0 .. width
    OBVIOUS
  <2>2. a \in Nat \ {0} /\ P(width - k) = 10 * a
    BY <1>1, <2>1
  <2> HIDE DEF q
  <2>3. Reading(ds)[k + 1] = 10 * Reading(ds)[k + 1 - 1] + ((n \div P(width - (k + 1))) % 10)
    BY <1>5, <1>6, <2>1
  <2>4. Reading(ds)[k + 1] = 10 * (n \div (10 * a)) + ((n \div a) % 10)
    BY <1>8, <2>1, <2>2, <2>3 DEF q
  <2> HIDE DEF a
  <2>5. n \div a = 10 * (n \div (10 * a)) + ((n \div a) % 10)
    BY <2>2, NextDigit
  <2>6. Reading(ds)[k + 1] = n \div a
    BY <2>4, <2>5
  <2>7. QED
    BY <2>1, <2>6 DEF a, q
<1> HIDE DEF S
<1>9. 0 .. width \subseteq S
  BY <1>7, <1>8, InductiveUpTo
<1>10. \A k \in 0 .. width : Reading(ds)[k] = n \div P(width - k)
  BY <1>9 DEF S
<1>11. Number(ds) = n
  <2>1. width \in 0 .. width /\ width - width = 0
    OBVIOUS
  <2>2. Reading(ds)[width] = n \div 1
    BY <1>1, <1>10, <2>1
  <2>3. n \div 1 = n
    OBVIOUS
  <2>4. QED
    BY <1>4, <2>2, <2>3 DEF Number
<1>12. QED
  BY <1>4, <1>10, <1>11 DEF ds, P

LEMMA PlainReads ==
  ASSUME NEW n \in Nat
  PROVE  /\ Plain(n) \in Seq(AllDigits) /\ Len(Plain(n)) >= 1 /\ Number(Plain(n)) = n
         /\ Plain(n)[1] = Dg(0) => Len(Plain(n)) = 1
         /\ n = 0 => Plain(n) = <<Dg(0)>>
<1> DEFINE Fit(w) == n < Power10[w] /\ (w = 1 \/ n >= Power10[w - 1])
           width == CHOOSE w \in 1 .. n + 1 : Fit(w)
<1>1. \A m \in Nat : Power10[m] \in Nat \ {0} /\ Power10[m + 1] = 10 * Power10[m] /\ Power10[0] = 1
  BY Powers
<1>2. n + 1 < Power10[n + 1]
  <2> DEFINE S == {m \in Nat : m < Power10[m]}
  <2>1. 0 \in S
    BY <1>1
  <2>2. ASSUME NEW m \in 0 .. (n + 1) - 1, m \in S PROVE m + 1 \in S
    <3>1. Power10[m + 1] = 10 * Power10[m] /\ Power10[m] \in Nat /\ m < Power10[m]
      BY <1>1, <2>2
    <3>2. QED
      BY <3>1
  <2> HIDE DEF S
  <2>3. 0 .. n + 1 \subseteq S /\ n + 1 \in 0 .. n + 1
    BY <2>1, <2>2, InductiveUpTo
  <2>4. n + 1 \in S
    BY <2>3
  <2>5. QED
    BY <2>4 DEF S
<1>3. \E w \in 1 .. n + 1 : Fit(w)
  <2> DEFINE S == {w \in Nat \ {0} : n < Power10[w]}
  <2>1. n + 1 \in S
    BY <1>1, <1>2
  <2>2. PICK w \in S : \A j \in S : w <= j
    BY <2>1, LeastNat
  <2>3. w \in 1 .. n + 1 /\ n < Power10[w]
    BY <2>1, <2>2
  <2>4. CASE w # 1
    <3>1. w - 1 \in Nat \ {0} /\ ~ (w <= w - 1)
      BY <2>3, <2>4
    <3>2. ~ (n < Power10[w - 1])
      BY <2>2, <3>1
    <3>3. n >= Power10[w - 1]
      BY <1>1, <3>1, <3>2
    <3>4. Fit(w)
      BY <2>3, <3>3
    <3> HIDE DEF Fit, S
    <3>5. QED
      BY <2>3, <3>4
  <2>5. CASE w = 1
    <3>1. Fit(w)
      BY <2>3, <2>5
    <3> HIDE DEF Fit, S
    <3>2. QED
      BY <2>3, <3>1
  <2>6. QED
    BY <2>4, <2>5
<1>4. width \in 1 .. n + 1 /\ Fit(width)
  <2> HIDE DEF Fit
  <2>1. QED
    BY <1>3
<1>5. Plain(n) = Padded(n, width)
  BY DEF Plain
<1> HIDE DEF width
<1>6. width \in Nat /\ width >= 1 /\ n < Power10[width]
  BY <1>4
<1> DEFINE ds == Padded(n, width)
<1>7. /\ ds \in Seq(AllDigits) /\ Len(ds) = width /\ Number(ds) = n
      /\ \A k \in 0 .. width : Reading(ds)[k] = n \div Power10[width - k]
  BY <1>6, PaddedReads
<1> HIDE DEF ds
<1>8. ds[1][2] = n \div Power10[width - 1]
  <2>1. 1 \in 1 .. width /\ 1 \in 0 .. width /\ 1 - 1 = 0
    BY <1>6
  <2>2. Reading(ds)[0] = 0 /\ ds[1][2] \in 0 .. 9 /\ Reading(ds)[1] = 10 * Reading(ds)[1 - 1] + ds[1][2]
    BY <1>7, <2>1, Readings
  <2>3. Reading(ds)[1] = ds[1][2]
    BY <2>1, <2>2
  <2>4. QED
    BY <1>7, <2>1, <2>3
<1>9. ASSUME ds[1] = Dg(0), width # 1 PROVE FALSE
  <2>1. ds[1][2] = 0
    BY <1>9 DEF Dg
  <2> DEFINE p == Power10[width - 1]
  <2>2. width - 1 \in Nat /\ n >= p
    BY <1>4, <1>6, <1>9
  <2>3. p \in Nat \ {0}
    BY <1>1, <2>2
  <2>4. n \div p = 0
    BY <1>8, <2>1
  <2> HIDE DEF p
  <2>5. n = p * 0 + (n % p) /\ n % p \in 0 .. p - 1
    BY <2>3, <2>4, DivMod
  <2>6. QED
    BY <2>2, <2>3, <2>5
<1>10. ASSUME n = 0 PROVE ds = <<Dg(0)>>
  <2>1. width = 1
    <3>1. width # 1 => width - 1 \in Nat /\ n >= Power10[width - 1]
      BY <1>4, <1>6
    <3>2. QED
      BY <1>1, <1>10, <3>1
  <2>2. ds = [i \in 1 .. 1 |-> ds[i]]
    BY <1>7, <2>1, LenProperties
  <2>3. ds[1] = Dg(0)
    <3>1. ds[1] \in AllDigits
      <4>1. 1 \in 1 .. Len(ds)
        BY <1>7, <2>1
      <4>2. QED
        BY <1>7, <4>1, ElementOfSeq
    <3>2. ds[1][2] = 0 \div 1
      BY <1>1, <1>8, <1>10, <2>1
    <3>3. 0 \div 1 = 0
      OBVIOUS
    <3>4. QED
      BY <3>1, <3>2, <3>3, DigitTypes
  <2>4. QED
    BY <2>2, <2>3
<1>11. QED
  BY <1>5, <1>6, <1>7, <1>9, <1>10 DEF ds

(* The digits of the fraction, without the zeros at the end.               *)
LEMMA TrimmedReads ==
  ASSUME NEW width \in Nat, NEW n \in 1 .. Power10[width] - 1
  PROVE  LET f == Trimmed(Padded(n, width))
         IN  /\ f \in Seq(AllDigits) /\ Len(f) \in 1 .. width /\ f[Len(f)] # Dg(0)
             /\ Number(f) * Power10[width - Len(f)] = n
<1> DEFINE ds == Padded(n, width)
           f == Trimmed(ds)
           kept == {i \in DOMAIN ds : ds[i] # Dg(0)}
           Greatest(i) == i \in kept /\ \A j \in kept : j <= i
           K == CHOOSE i \in kept : \A j \in kept : j <= i
           rd == Reading(ds)
           rf == Reading(f)
           P(m) == Power10[m]
<1>1. \A m \in Nat : P(m) \in Nat /\ P(m + 1) = 10 * P(m) /\ P(0) = 1
  BY Powers
<1>2. n \in Nat /\ n # 0 /\ n < Power10[width]
  BY Powers
<1>3. ds \in Seq(AllDigits) /\ Len(ds) = width /\ Number(ds) = n /\ DOMAIN ds = 1 .. width
  BY <1>2, PaddedReads, LenProperties
<1>4. /\ rd[0] = 0 /\ \A k \in 1 .. width : ds[k][2] \in 0 .. 9 /\ rd[k] = 10 * rd[k - 1] + ds[k][2]
      /\ \A k \in 0 .. width : rd[k] \in Nat
      /\ rd[width] = n
  BY <1>3, Readings DEF Number
<1>5. f = SubSeq(ds, 1, K)
  BY DEF Trimmed
<1> HIDE DEF ds, f, rd, rf, P
<1>6. kept # {}
  <2> SUFFICES ASSUME kept = {} PROVE FALSE
    OBVIOUS
  <2> DEFINE S == {k \in 0 .. width : rd[k] = 0}
  <2>1. 0 \in S
    BY <1>4
  <2>2. ASSUME NEW k \in 0 .. width - 1, k \in S PROVE k + 1 \in S
    <3>1. k + 1 \in 1 .. width /\ k + 1 - 1 = k /\ k + 1 \in 0 .. width
      OBVIOUS
    <3>2. ds[k + 1] = Dg(0)
      BY <1>3, <3>1
    <3>3. ds[k + 1][2] = 0
      BY <3>2 DEF Dg
    <3>4. rd[k + 1] = 10 * rd[k + 1 - 1] + ds[k + 1][2] /\ rd[k] = 0
      BY <1>4, <2>2, <3>1
    <3>6. rd[k + 1] = 10 * 0 + 0
      BY <3>1, <3>3, <3>4
    <3>5. QED
      BY <3>1, <3>6
  <2> HIDE DEF S
  <2>3. 0 .. width \subseteq S /\ width \in 0 .. width
    BY <2>1, <2>2, InductiveUpTo
  <2>4. width \in S
    BY <2>3
  <2>5. QED
    BY <1>2, <1>4, <2>4 DEF S
<1>7. Greatest(K)
  <2> DEFINE S == {width - i : i \in kept}
  <2>1. S \subseteq Nat /\ S # {}
    BY <1>3, <1>6
  <2>2. PICK x \in S : \A y \in S : x <= y
    BY <2>1, LeastNat
  <2>3. PICK i \in kept : x = width - i
    BY <2>2
  <2>4. ASSUME NEW j \in kept PROVE j <= i
    <3>1. x <= width - j /\ i \in 1 .. width /\ j \in 1 .. width
      BY <1>3, <2>2
    <3>2. QED
      BY <2>3, <3>1
  <2> HIDE DEF kept, S
  <2>5. QED
    BY <2>4
<1>8. K \in 1 .. width /\ ds[K] # Dg(0) /\ \A j \in K + 1 .. width : ds[j] = Dg(0)
  <2>1. K \in 1 .. width /\ ds[K] # Dg(0)
    BY <1>3, <1>7
  <2> HIDE DEF K
  <2>2. ASSUME NEW j \in K + 1 .. width PROVE ds[j] = Dg(0)
    <3>1. j \in 1 .. width /\ ~ (j <= K)
      BY <2>1
    <3>2. QED
      BY <1>3, <1>7, <3>1
  <2>3. QED
    BY <2>1, <2>2
<1> HIDE DEF K, kept
<1>9. f \in Seq(AllDigits) /\ Len(f) = K /\ \A k \in 1 .. K : f[k] = ds[k]
  <2>1. \A i \in 1 .. K : ds[i] \in AllDigits
    BY <1>3, <1>8, ElementOfSeq
  <2>2. 1 \in Int /\ K \in Int /\ 1 <= K /\ K - 1 + 1 = K
    BY <1>8
  <2>3. /\ f \in Seq(AllDigits) /\ Len(f) = IF 1 <= K THEN K - 1 + 1 ELSE 0
        /\ \A k \in 1 .. K - 1 + 1 : f[k] = ds[1 + k - 1]
    BY <1>5, <2>1, <2>2, SubSeqProperties
  <2>4. \A k \in 1 .. K : 1 + k - 1 = k
    BY <2>2
  <2>5. QED
    BY <2>2, <2>3, <2>4
<1>10. /\ rf[0] = 0 /\ \A k \in 1 .. K : rf[k] = 10 * rf[k - 1] + f[k][2]
       /\ \A k \in 0 .. K : rf[k] \in Nat
  BY <1>9, Readings DEF rf
<1>11. rf[K] = rd[K]
  <2> DEFINE S == {k \in 0 .. K : rf[k] = rd[k]}
  <2>1. 0 \in S
    BY <1>4, <1>8, <1>10
  <2>2. ASSUME NEW k \in 0 .. K - 1, k \in S PROVE k + 1 \in S
    <3>1. k + 1 \in 1 .. K /\ k + 1 - 1 = k /\ k + 1 \in 0 .. K /\ k + 1 \in 1 .. width
      BY <1>8
    <3>2. rf[k + 1] = 10 * rf[k] + f[k + 1][2] /\ rd[k + 1] = 10 * rd[k] + ds[k + 1][2]
      BY <1>4, <1>10, <3>1
    <3>3. f[k + 1] = ds[k + 1] /\ rf[k] = rd[k]
      BY <1>9, <2>2, <3>1
    <3>4. QED
      BY <3>1, <3>2, <3>3
  <2> HIDE DEF S
  <2>3. 0 .. K \subseteq S /\ K \in 0 .. K
    BY <1>8, <2>1, <2>2, InductiveUpTo
  <2>4. K \in S
    BY <2>3
  <2>5. QED
    BY <2>4 DEF S
<1>12. rd[K] * P(width - K) = n
  <2> DEFINE L == width - K
             S == {j \in 0 .. L : rd[K + j] = rd[K] * P(j)}
  <2>1. L \in Nat /\ rd[K] \in Nat /\ K + L = width /\ K \in Nat
    BY <1>4, <1>8
  <2>2. 0 \in S
    <3>1. K + 0 = K /\ 0 \in 0 .. L /\ P(0) = 1 /\ rd[K] * 1 = rd[K]
      BY <1>1, <2>1
    <3>2. QED
      BY <3>1
  <2>3. ASSUME NEW j \in 0 .. L - 1, j \in S PROVE j + 1 \in S
    <3>1. /\ K + (j + 1) \in 1 .. width /\ (K + (j + 1)) - 1 = K + j /\ j + 1 \in 0 .. L /\ j \in Nat
          /\ K + (j + 1) \in K + 1 .. width
      BY <1>8, <2>1
    <3>2. ds[K + (j + 1)][2] = 0
      BY <1>8, <3>1 DEF Dg
    <3>3. rd[K + (j + 1)] = 10 * rd[(K + (j + 1)) - 1] + ds[K + (j + 1)][2]
      BY <1>4, <3>1
    <3>4. rd[K + (j + 1)] = 10 * (rd[K] * P(j)) + 0 /\ P(j) \in Nat /\ P(j + 1) = 10 * P(j)
      BY <1>1, <2>3, <3>1, <3>2, <3>3
    <3>5. ASSUME NEW a \in Nat, NEW b \in Nat PROVE 10 * (a * b) + 0 = a * (10 * b)
      OBVIOUS
    <3>6. rd[K + (j + 1)] = rd[K] * P(j + 1)
      BY <2>1, <3>4, <3>5
    <3>7. QED
      BY <3>1, <3>6
  <2> HIDE DEF S
  <2>4. 0 .. L \subseteq S
    BY <2>1, <2>2, <2>3, InductiveUpTo
  <2>5. L \in 0 .. L
    BY <2>1
  <2>6. L \in S
    BY <2>4, <2>5
  <2>7. QED
    BY <1>4, <2>1, <2>6 DEF S
<1>13. f[Len(f)] # Dg(0)
  BY <1>8, <1>9
<1>14. Number(f) * Power10[width - Len(f)] = n
  BY <1>9, <1>11, <1>12 DEF Number, rf, P
<1>15. QED
  BY <1>8, <1>9, <1>13, <1>14 DEF f, ds

Shown(v) ==
  LET t == DecimalString(v)
      point == PointOf(t)
      first == IF t[1] = Ch("-") THEN 2 ELSE 1
  IN  /\ WellFormed(t) /\ Denoted(t) = v /\ t[1] # Ch("+")
      /\ v = 0 => t = <<Dg(0)>>
      /\ point > first /\ (t[first] = Dg(0) => point = first + 1)
      /\ point <= Len(t) => t[Len(t)] \notin {Point, Dg(0)}

LEMMA Prints ==
  ASSUME DecimalsAssumption, NEW v \in Int
  PROVE  Shown(v)
<1> DEFINE n == IF v < 0 THEN -v ELSE v
           sign == IF v < 0 THEN <<Ch("-")>> ELSE << >>
           M == DECIMAL_MULTIPLIER
           fract == n % M
           w == Plain(n \div M)
           dot == fract # 0
           f == IF dot THEN Trimmed(Padded(fract, DECIMAL_SCALE)) ELSE << >>
           tail == IF dot THEN <<Point>> \o f ELSE << >>
           t == DecimalString(v)
           off == IF v < 0 THEN 1 ELSE 0
<1>1. DECIMAL_SCALE \in Nat /\ M \in Nat \ {0} /\ M = Power10[DECIMAL_SCALE]
  BY DecimalsAssumption, Powers DEF DECIMAL_MULTIPLIER
<1>2. n \in Nat /\ (v < 0 => n # 0) /\ (v = 0 => n = 0) /\ v = IF v < 0 THEN -n ELSE n
  OBVIOUS
<1>3. t = (sign \o w) \o tail
  BY DEF DecimalString, FracDigits
<1> HIDE DEF n, M, t
<1>4. n \div M \in Nat /\ fract \in 0 .. M - 1 /\ n = M * (n \div M) + fract
  BY <1>1, <1>2, DivMod
<1>5. /\ w \in Seq(AllDigits) /\ Len(w) \in Nat /\ Len(w) >= 1 /\ Number(w) = n \div M
      /\ w[1] = Dg(0) => Len(w) = 1
      /\ n \div M = 0 => w = <<Dg(0)>>
  BY <1>4, PlainReads, LenProperties
<1> HIDE DEF fract, w
<1>6. ASSUME dot
      PROVE  /\ f \in Seq(AllDigits) /\ Len(f) \in Nat /\ Len(f) <= DECIMAL_SCALE
             /\ Number(f) * Power10[DECIMAL_SCALE - Len(f)] = fract
             /\ dot => Len(f) >= 1 /\ f[Len(f)] # Dg(0)
             /\ ~ dot => f = << >>
  <2>1. /\ f \in Seq(AllDigits) /\ Len(f) \in 1 .. DECIMAL_SCALE /\ f[Len(f)] # Dg(0)
        /\ Number(f) * Power10[DECIMAL_SCALE - Len(f)] = fract
    <3>1. fract \in 1 .. Power10[DECIMAL_SCALE] - 1
      BY <1>1, <1>4, <1>6
    <3>2. QED
      BY <1>1, <1>6, <3>1, TrimmedReads
  <2>2. Len(f) \in Nat /\ Len(f) >= 1 /\ Len(f) <= DECIMAL_SCALE
    <3> DEFINE l == Len(f)
    <3> HIDE DEF f
    <3>1. l \in 1 .. DECIMAL_SCALE
      BY <2>1
    <3> HIDE DEF l
    <3>2. l \in Nat /\ l >= 1 /\ l <= DECIMAL_SCALE
      BY <1>1, <3>1
    <3>3. QED
      BY <3>2 DEF l
  <2> HIDE DEF f, dot
  <2>3. QED
    BY <1>6, <2>1, <2>2
<1>7. ASSUME ~ dot
      PROVE  /\ f \in Seq(AllDigits) /\ Len(f) \in Nat /\ Len(f) <= DECIMAL_SCALE
             /\ Number(f) * Power10[DECIMAL_SCALE - Len(f)] = fract
             /\ dot => Len(f) >= 1 /\ f[Len(f)] # Dg(0)
             /\ ~ dot => f = << >>
  <2>1. f = << >> /\ fract = 0
    BY <1>7
  <2>2. << >> \in Seq(AllDigits) /\ Len(<< >>) = 0
    BY EmptySeq
  <2>3. Number(<< >>) = 0
    BY <2>2, Readings DEF Number
  <2>4. Number(<< >>) * Power10[DECIMAL_SCALE - 0] = 0
    <3>1. DECIMAL_SCALE - 0 \in Nat
      BY <1>1
    <3>2. Power10[DECIMAL_SCALE - 0] \in Nat /\ 0 \in Nat
      BY <3>1, Powers
    <3>3. QED
      BY <2>3, <3>2, OneMore
  <2> HIDE DEF f, dot
  <2>5. QED
    BY <1>1, <1>7, <2>1, <2>2, <2>4
<1>8. /\ f \in Seq(AllDigits) /\ Len(f) \in Nat /\ Len(f) <= DECIMAL_SCALE
      /\ Number(f) * Power10[DECIMAL_SCALE - Len(f)] = fract
      /\ dot => Len(f) >= 1 /\ f[Len(f)] # Dg(0)
      /\ ~ dot => f = << >>
  BY <1>6, <1>7
<1>9. tail = IF dot THEN <<Point>> \o f ELSE << >>
  OBVIOUS
<1>10. dot \in BOOLEAN /\ (~ dot => fract = 0)
  OBVIOUS
<1> HIDE DEF f, dot
<1> DEFINE Kinds == AllDigits \cup {Ch("-"), Point}
<1>11. sign \in Seq(Kinds) /\ Len(sign) = off /\ off \in {0, 1} /\ off \in Nat /\ (off = 1 => sign[1] = Ch("-"))
  <2>1. CASE v < 0
    <3>1. sign = <<Ch("-")>> /\ off = 1 /\ Ch("-") \in Kinds
      BY <2>1
    <3> HIDE DEF sign, off, Kinds
    <3>2. QED
      BY <3>1
  <2>2. CASE ~ (v < 0)
    <3>1. sign = << >> /\ off = 0
      BY <2>2
    <3> HIDE DEF sign, off, Kinds
    <3>2. QED
      BY <3>1, EmptySeq
  <2>3. QED
    BY <2>1, <2>2
<1>12. w \in Seq(Kinds) /\ f \in Seq(Kinds)
  <2>1. AllDigits \subseteq Kinds
    OBVIOUS
  <2> HIDE DEF Kinds
  <2>2. QED
    BY <1>5, <1>8, <2>1, SeqMonotonic
<1>13. /\ tail \in Seq(Kinds) /\ Len(tail) = IF dot THEN 1 + Len(f) ELSE 0
       /\ dot => tail[1] = Point /\ \A k \in 1 .. Len(f) : tail[1 + k] = f[k]
  <2>1. CASE dot
    <3>1. tail = <<Point>> \o f /\ Point \in Kinds
      BY <1>9, <2>1
    <3> HIDE DEF tail, Kinds
    <3>2. <<Point>> \in Seq(Kinds) /\ Len(<<Point>>) = 1 /\ <<Point>>[1] = Point
      BY <3>1
    <3> DEFINE one == <<Point>>
    <3> HIDE DEF one
    <3>3. /\ tail \in Seq(Kinds) /\ Len(tail) = 1 + Len(f)
          /\ \A i \in 1 .. 1 + Len(f) : tail[i] = IF i <= 1 THEN one[i] ELSE f[i - 1]
      BY <1>12, <3>1, <3>2, ConcatProperties DEF one
    <3> DEFINE l == Len(f)
    <3>4. l \in Nat
      BY <1>8
    <3> HIDE DEF l
    <3>5. 1 \in 1 .. 1 + l /\ \A k \in 1 .. l : 1 + k \in 1 .. 1 + l /\ ~ (1 + k <= 1) /\ (1 + k) - 1 = k
      BY <3>4
    <3>6. tail[1] = one[1]
      BY <3>3, <3>5 DEF l
    <3>7. \A k \in 1 .. Len(f) : tail[1 + k] = f[k]
      BY <3>3, <3>5 DEF l
    <3>8. QED
      BY <2>1, <3>2, <3>3, <3>6, <3>7 DEF one
  <2>2. CASE ~ dot
    <3>1. tail = << >>
      BY <1>9, <2>2
    <3> HIDE DEF tail, Kinds
    <3>2. QED
      BY <2>2, <3>1, EmptySeq
  <2>3. QED
    BY <2>1, <2>2
<1> HIDE DEF sign, tail, off, Kinds
<1> DEFINE a == off
           l == Len(w)
           g == Len(tail)
           x == sign \o w
<1>14. l \in Nat /\ g \in Nat /\ a \in Nat
  BY <1>5, <1>11, <1>13, LenProperties
<1>15. /\ x \in Seq(Kinds) /\ Len(x) = a + l
       /\ \A i \in 1 .. a + l : x[i] = IF i <= a THEN sign[i] ELSE w[i - a]
  BY <1>11, <1>12, ConcatProperties
<1>16. /\ t \in Seq(Kinds) /\ Len(t) = (a + l) + g
       /\ \A i \in 1 .. (a + l) + g : t[i] = IF i <= a + l THEN x[i] ELSE tail[i - (a + l)]
  <2>1. x \in Seq(Kinds) /\ tail \in Seq(Kinds) /\ t = x \o tail /\ Len(x) = a + l
    BY <1>3, <1>13, <1>15
  <2> HIDE DEF x, a, l
  <2>2. /\ t \in Seq(Kinds) /\ Len(t) = Len(x) + g
        /\ \A i \in 1 .. Len(x) + g : t[i] = IF i <= Len(x) THEN x[i] ELSE tail[i - Len(x)]
    BY <2>1, ConcatProperties
  <2> HIDE DEF g
  <2>3. QED
    BY <2>1, <2>2
<1> HIDE DEF a, l, g, x
<1>17. /\ a = 1 => t[1] = Ch("-")
       /\ \A k \in 1 .. l : t[a + k] = w[k]
       /\ \A k \in 1 .. g : t[(a + l) + k] = tail[k]
  <2>1. ASSUME a = 1 PROVE t[1] = Ch("-")
    <3>1. 1 \in 1 .. a + l /\ 1 \in 1 .. (a + l) + g /\ 1 <= a + l /\ 1 <= a
      BY <1>14, <2>1
    <3>2. t[1] = sign[1]
      BY <1>15, <1>16, <3>1
    <3>3. QED
      BY <1>11, <2>1, <3>2 DEF a
  <2>2. ASSUME NEW k \in 1 .. l PROVE t[a + k] = w[k]
    <3>1. /\ a + k \in 1 .. a + l /\ a + k \in 1 .. (a + l) + g /\ a + k <= a + l /\ ~ (a + k <= a)
          /\ (a + k) - a = k
      BY <1>14
    <3>2. t[a + k] = x[a + k] /\ x[a + k] = w[(a + k) - a]
      BY <1>15, <1>16, <3>1
    <3>3. QED
      BY <3>1, <3>2
  <2>3. ASSUME NEW k \in 1 .. g PROVE t[(a + l) + k] = tail[k]
    <3>1. (a + l) + k \in 1 .. (a + l) + g /\ ~ ((a + l) + k <= a + l) /\ ((a + l) + k) - (a + l) = k
      BY <1>14
    <3>2. t[(a + l) + k] = tail[((a + l) + k) - (a + l)]
      BY <1>16, <3>1
    <3>3. QED
      BY <3>1, <3>2
  <2>4. QED
    BY <2>1, <2>2, <2>3
<1>18. ASSUME dot PROVE /\ t[a + l + 1] = Point
                        /\ \A k \in 1 .. Len(f) : t[a + l + 1 + k] = f[k]
  <2> DEFINE h == Len(f)
  <2>1. h \in Nat /\ g = 1 + h /\ tail[1] = Point /\ \A k \in 1 .. h : tail[1 + k] = f[k]
    BY <1>8, <1>13, <1>18 DEF g
  <2> HIDE DEF h
  <2>2. 1 \in 1 .. g
    BY <2>1
  <2>3. ASSUME NEW k \in 1 .. h PROVE t[a + l + 1 + k] = f[k]
    <3>1. 1 + k \in 1 .. g /\ a + l + 1 + k = (a + l) + (1 + k)
      BY <1>14, <2>1
    <3>2. QED
      BY <1>17, <2>1, <3>1
  <2>4. QED
    BY <1>17, <2>1, <2>2, <2>3 DEF h
<1>19. Parts(t, a, w, f, dot)
  <2>1. Len(t) = a + Len(w) + IF dot THEN 1 + Len(f) ELSE 0
    BY <1>13, <1>16 DEF l, g
  <2>2. a = 1 => t[1] \in Signs
    BY <1>17 DEF Signs
  <2>3. t = [i \in 1 .. Len(t) |-> t[i]]
    BY <1>16, LenProperties
  <2>4. w # << >>
    BY <1>5, EmptySeq
  <2>5. \A k \in 1 .. Len(w) : t[a + k] = w[k]
    BY <1>17 DEF l
  <2>6. dot => /\ t[a + Len(w) + 1] = Point
               /\ \A k \in 1 .. Len(f) : t[a + Len(w) + 1 + k] = f[k]
    BY <1>18 DEF l
  <2>7. a \in {0, 1} /\ dot \in BOOLEAN /\ (dot \/ f = << >>)
    BY <1>8, <1>10, <1>11 DEF a
  <2>8. QED
    BY <1>5, <1>8, <2>1, <2>2, <2>3, <2>4, <2>5, <2>6, <2>7 DEF Parts
<1>20. WellFormed(t)
  BY <1>19, PartsWellFormed
<1>21. Weighed(t)[Len(t)] = n
  <2>1. Weighed(t)[Len(t)] = Number(w) * M + fract
    BY <1>1, <1>8, <1>19, PartsDenote
  <2> DEFINE d == n \div M
  <2>2. Number(w) = d /\ d \in Nat /\ n = M * d + fract
    BY <1>4, <1>5
  <2> HIDE DEF d
  <2>3. d * M = M * d
    BY <1>1, <2>2
  <2>4. QED
    BY <2>1, <2>2, <2>3
<1>22. /\ PointOf(t) = a + l + 1
       /\ dot => Len(t) = a + l + 1 + Len(f)
       /\ ~ dot => Len(t) = a + l
  <2>1. PointOf(t) = a + l + 1
    BY <1>1, <1>19, PartsPlaces DEF l
  <2> DEFINE h == Len(f)
  <2>2. h \in Nat /\ Len(t) = (a + l) + g /\ g = IF dot THEN 1 + h ELSE 0
    BY <1>8, <1>13, <1>16 DEF g
  <2> HIDE DEF h
  <2>3. dot => Len(t) = a + l + 1 + h
    <3>1. dot => g = 1 + h
      BY <2>2
    <3>2. QED
      BY <1>14, <2>2, <3>1
  <2>4. ~ dot => Len(t) = a + l
    <3>1. ~ dot => g = 0
      BY <2>2
    <3>2. QED
      BY <1>14, <2>2, <3>1
  <2>5. QED
    BY <2>1, <2>3, <2>4 DEF h
<1>23. l >= 1 /\ t[a + 1] = w[1] /\ w[1] \in AllDigits
  <2>1. l >= 1
    BY <1>5 DEF l
  <2>2. 1 \in 1 .. l
    BY <1>14, <2>1
  <2>3. QED
    BY <1>5, <1>17, <2>1, <2>2, ElementOfSeq DEF l
<1>24. /\ v < 0 => a = 1 /\ t[1] = Ch("-")
       /\ ~ (v < 0) => a = 0 /\ t[1] \in AllDigits
  BY <1>17, <1>23 DEF a, off
<1>25. (t[1] = Ch("-") <=> v < 0) /\ t[1] # Ch("+") /\ t # << >>
  <2>1. \A c \in AllDigits : c # Ch("-") /\ c # Ch("+")
    BY DEF AllDigits, Dg, Ch
  <2>2. Ch("-") # Ch("+")
    BY DEF Ch
  <2>3. Len(t) # 0
    BY <1>14, <1>16, <1>23
  <2>4. QED
    BY <1>24, <2>1, <2>2, <2>3, EmptySeq
<1>26. Denoted(t) = v
  <2>1. Denoted(t) = (IF v < 0 THEN -1 ELSE 1) * n
    BY <1>21, <1>25 DEF Denoted
  <2>2. QED
    BY <1>2, <2>1
<1>27. ASSUME v = 0 PROVE t = <<Dg(0)>>
  <2>1. n = 0 /\ a = 0
    BY <1>2, <1>24, <1>27
  <2>2. n \div M = 0
    <3>1. 0 = M * 0 + 0 /\ 0 \in 0 .. M - 1
      BY <1>1
    <3>2. QED
      BY <1>1, <2>1, <3>1, DivUnique
  <2>3. fract = 0
    <3> DEFINE d == n \div M
    <3>1. d = 0 /\ n = M * d + fract /\ fract \in 0 .. M - 1
      BY <1>4, <2>2
    <3> HIDE DEF d
    <3>2. QED
      BY <1>1, <2>1, <3>1
  <2>4. ~ dot
    BY <2>3 DEF dot
  <2>5. w = <<Dg(0)>> /\ Len(t) = l /\ l = 1
    <3>1. w = <<Dg(0)>>
      BY <1>5, <2>2
    <3>2. l = 1
      BY <3>1 DEF l
    <3>3. QED
      BY <1>14, <1>22, <2>1, <2>4, <3>1, <3>2
  <2>6. t = [i \in 1 .. 1 |-> t[i]] /\ t[1] = Dg(0)
    <3>1. t = [i \in 1 .. Len(t) |-> t[i]]
      BY <1>19 DEF Parts
    <3>2. t[1] = w[1]
      BY <1>14, <1>23, <2>1
    <3>3. QED
      BY <2>5, <3>1, <3>2
  <2>7. QED
    BY <2>6
<1> DEFINE point == PointOf(t)
           first == IF t[1] = Ch("-") THEN 2 ELSE 1
<1>28. point = a + l + 1 /\ first = a + 1
  BY <1>22, <1>24, <1>25
<1>29. point > first /\ (t[first] = Dg(0) => point = first + 1)
  <2>1. t[first] = Dg(0) => l = 1
    BY <1>5, <1>23, <1>28 DEF l
  <2> HIDE DEF point, first
  <2>2. QED
    BY <1>14, <1>23, <1>28, <2>1
<1>30. ASSUME point <= Len(t) PROVE t[Len(t)] \notin {Point, Dg(0)}
  <2> DEFINE h == Len(f)
  <2>1. dot
    <3> SUFFICES ASSUME ~ dot PROVE FALSE
      OBVIOUS
    <3>1. Len(t) = a + l
      BY <1>22
    <3> HIDE DEF point
    <3>2. QED
      BY <1>14, <1>28, <1>30, <3>1
  <2>2. h \in Nat /\ h >= 1 /\ Len(t) = a + l + 1 + h /\ f[h] # Dg(0)
    BY <1>8, <1>22, <2>1
  <2>3. h \in 1 .. h
    <3> HIDE DEF h
    <3>1. QED
      BY <2>2
  <2>4. f[h] \in AllDigits
    BY <1>8, <2>3, ElementOfSeq
  <2>5. t[Len(t)] = f[h]
    BY <1>18, <2>1, <2>2, <2>3
  <2>6. QED
    BY <2>2, <2>4, <2>5, DigitTypes
<1> HIDE DEF point, first
<1>31. QED
  BY <1>20, <1>25, <1>26, <1>27, <1>29, <1>30 DEF Shown, point, first, t

(* decimal_string (src/src/websocket/messages.rs) prints what              *)
(* decimal_from_str stored, for every number of the type: the text denotes *)
(* the same number and is the shortest that does.                          *)
THEOREM DecimalsPrintBack ==
  ASSUME DecimalsAssumption
  PROVE  DecimalsSpec => []PrintsBack
<1>1. ASSUME DecimalsTypeOK PROVE PrintsBack
  <2>1. value \in Int
    BY <1>1, DecimalsAssumption DEF DecimalsTypeOK
  <2>2. Shown(value)
    BY <2>1, Prints
  <2>3. QED
    BY <2>2 DEF Shown, PrintsBack
<1>2. QED
  BY <1>1, DecimalsTypeCorrect, PTL

-----------------------------------------------------------------------------
(* RLP: numbers of digits to a base, leading zeros, prefixes. *)

LEMMA Horners ==
  ASSUME NEW base \in Nat, NEW ds \in Seq(Nat)
  PROVE  /\ Len(ds) \in Nat /\ Horner(base, ds)[0] = 0
         /\ \A n \in 1 .. Len(ds) : /\ ds[n] \in Nat
                                    /\ Horner(base, ds)[n] = base * Horner(base, ds)[n - 1] + ds[n]
         /\ \A n \in 0 .. Len(ds) : Horner(base, ds)[n] \in Nat
<1> DEFINE U == Len(ds)
           F == [n \in 1 .. U |-> ds[n]]
           Is(g) == g = [n \in 0 .. U |-> IF n = 0 THEN 0 ELSE base * g[n - 1] + ds[n]]
           H == Horner(base, ds)
<1>1. U \in Nat /\ \A n \in 1 .. U : ds[n] \in Nat
  BY ElementOfSeq, LenProperties
<1>2. F \in [1 .. U -> Int] /\ 0 \in Int /\ base \in Int
  BY <1>1
<1>3. \E g : Is(g)
  <2>1. PICK g : Recursion(g, U, 0, base, F)
    <3> HIDE DEF F, U
    <3>1. QED
      BY <1>1, <1>2, RecursionExists
  <2>2. \A n \in 0 .. U : g[n] = IF n = 0 THEN 0 ELSE base * g[n - 1] + ds[n]
    BY <1>1, <2>1 DEF Recursion
  <2>3. g = [n \in 0 .. U |-> g[n]]
    BY <2>1 DEF Recursion
  <2>4. Is(g)
    BY <2>2, <2>3
  <2> HIDE DEF Is
  <2>5. QED
    BY <2>4
<1>4. H = CHOOSE g : Is(g)
  BY DEF Horner
<1> HIDE DEF Is, H
<1>5. Is(H)
  BY <1>3, <1>4
<1>6. H[0] = 0 /\ \A n \in 1 .. U : H[n] = base * H[n - 1] + ds[n]
  BY <1>1, <1>5 DEF Is
<1> DEFINE S == {n \in 0 .. U : H[n] \in Nat}
<1>7. 0 \in S
  BY <1>1, <1>6
<1>8. ASSUME NEW n \in 0 .. U - 1, n \in S PROVE n + 1 \in S
  <2>1. n + 1 \in 1 .. U /\ n + 1 - 1 = n /\ n + 1 \in 0 .. U
    BY <1>1
  <2> DEFINE a == H[n]
             d == ds[n + 1]
  <2>2. a \in Nat /\ d \in Nat /\ H[n + 1] = base * a + d
    BY <1>1, <1>6, <1>8, <2>1
  <2> HIDE DEF a, d
  <2>3. base * a \in Nat
    BY <2>2, Products
  <2>4. H[n + 1] \in Nat
    BY <2>2, <2>3
  <2>5. QED
    BY <2>1, <2>4
<1> HIDE DEF S
<1>9. 0 .. U \subseteq S
  BY <1>1, <1>7, <1>8, InductiveUpTo
<1>10. QED
  BY <1>1, <1>6, <1>9 DEF S, H

(* Zeros in front of a number do not change it. *)
LEMMA ZerosInFront ==
  ASSUME NEW base \in Nat, NEW x \in Seq(Nat), NEW y \in Seq(Nat), NEW z \in Nat,
         Len(x) = z + Len(y), \A i \in 1 .. z : x[i] = 0, \A i \in 1 .. Len(y) : x[z + i] = y[i]
  PROVE  Horner(base, x)[Len(x)] = Horner(base, y)[Len(y)]
<1> DEFINE X == Horner(base, x)
           Y == Horner(base, y)
<1>1. /\ Len(x) \in Nat /\ X[0] = 0
      /\ \A n \in 1 .. Len(x) : X[n] = base * X[n - 1] + x[n]
      /\ \A n \in 0 .. Len(x) : X[n] \in Nat
  BY Horners
<1>2. /\ Len(y) \in Nat /\ Y[0] = 0
      /\ \A n \in 1 .. Len(y) : Y[n] = base * Y[n - 1] + y[n]
      /\ \A n \in 0 .. Len(y) : Y[n] \in Nat
  BY Horners
<1> HIDE DEF X, Y
<1> DEFINE Z == {n \in 0 .. z : X[n] = 0}
<1>3. 0 \in Z
  BY <1>1
<1>4. ASSUME NEW n \in 0 .. z - 1, n \in Z PROVE n + 1 \in Z
  <2>1. n + 1 \in 1 .. z /\ n + 1 - 1 = n /\ n + 1 \in 0 .. z /\ n + 1 \in 1 .. Len(x)
    BY <1>2
  <2>2. X[n + 1] = base * X[n] + x[n + 1] /\ X[n] = 0 /\ x[n + 1] = 0
    BY <1>1, <1>4, <2>1
  <2>3. X[n + 1] = 0
    BY <2>2
  <2>4. QED
    BY <2>1, <2>3
<1> HIDE DEF Z
<1>5. 0 .. z \subseteq Z
  BY <1>3, <1>4, InductiveUpTo
<1>6. X[z] = 0
  BY <1>5 DEF Z
<1> DEFINE S == {n \in 0 .. Len(y) : X[z + n] = Y[n]}
<1>7. 0 \in S
  BY <1>2, <1>6
<1>8. ASSUME NEW n \in 0 .. Len(y) - 1, n \in S PROVE n + 1 \in S
  <2>1. /\ n + 1 \in 1 .. Len(y) /\ n + 1 - 1 = n /\ n + 1 \in 0 .. Len(y)
        /\ z + (n + 1) \in 1 .. Len(x) /\ z + (n + 1) - 1 = z + n
    BY <1>2
  <2> DEFINE m == z + (n + 1)
  <2> HIDE DEF m
  <2>2. Y[n + 1] = base * Y[n] + y[n + 1]
    BY <1>2, <2>1
  <2>3. X[z + (n + 1)] = base * X[z + n] + x[z + (n + 1)]
    <3>1. X[m] = base * X[m - 1] + x[m]
      BY <1>1, <2>1 DEF m
    <3>2. m - 1 = z + n
      BY <2>1 DEF m
    <3>3. QED
      BY <3>1, <3>2 DEF m
  <2>4. X[z + n] = Y[n] /\ x[z + (n + 1)] = y[n + 1]
    BY <1>8, <2>1 DEF S
  <2>5. X[z + (n + 1)] = Y[n + 1]
    BY <2>2, <2>3, <2>4
  <2>6. QED
    BY <2>1, <2>5
<1> HIDE DEF S
<1>9. 0 .. Len(y) \subseteq S
  BY <1>2, <1>7, <1>8, InductiveUpTo
<1>10. X[z + Len(y)] = Y[Len(y)]
  <2>1. Len(y) \in 0 .. Len(y)
    BY <1>2
  <2>2. QED
    BY <1>9, <2>1 DEF S
<1>11. QED
  BY <1>10 DEF X, Y

(* Bytes. *)
Bytes == 0 .. 255

LEMMA BytesAreNumbers ==
  ASSUME NEW b \in Seq(Bytes)
  PROVE  b \in Seq(Nat) /\ Len(b) \in Nat /\ DOMAIN b = 1 .. Len(b)
<1>1. Bytes \subseteq Nat
  BY DEF Bytes
<1>2. QED
  BY <1>1, SeqMonotonic, LenProperties

LEMMA NoBytes == << >> \in Seq(Bytes) /\ Len(<< >>) = 0 /\ NumberIn(<< >>) = 0
<1>1. << >> \in Seq(Nat) /\ << >> \in Seq(Bytes) /\ Len(<< >>) = 0
  BY EmptySeq
<1>2. Horner(256, << >>)[0] = 0
  <2> DEFINE w == 256
             y == << >>
  <2>1. w \in Nat /\ y \in Seq(Nat)
    BY <1>1
  <2> HIDE DEF w, y
  <2>2. Horner(w, y)[0] = 0
    BY <2>1, Horners
  <2>3. QED
    BY <2>2 DEF w, y
<1>3. QED
  BY <1>1, <1>2 DEF NumberIn

LEMMA StrippedReads ==
  ASSUME NEW b \in Seq(Bytes)
  PROVE  /\ Stripped(b) \in Seq(Bytes) /\ Len(Stripped(b)) \in 0 .. Len(b)
         /\ NumberIn(Stripped(b)) = NumberIn(b)
         /\ Stripped(b) # << >> => Stripped(b)[1] # 0
<1> DEFINE nonzero == {i \in DOMAIN b : b[i] # 0}
           L == Len(b)
<1>1. L \in Nat /\ DOMAIN b = 1 .. L /\ b \in Seq(Nat)
  BY BytesAreNumbers
<1>2. CASE nonzero = {}
  <2>1. Stripped(b) = << >>
    BY <1>2 DEF Stripped
  <2>2. \A i \in 1 .. L : b[i] = 0
    BY <1>1, <1>2
  <2> DEFINE y == << >>
  <2>3. y \in Seq(Nat) /\ Len(y) = 0
    BY EmptySeq
  <2> HIDE DEF y
  <2>4. L = L + Len(y) /\ \A i \in 1 .. Len(y) : b[L + i] = y[i]
    BY <1>1, <2>3
  <2>5. Horner(256, b)[L] = Horner(256, y)[Len(y)]
    <3> DEFINE w == 256
    <3>1. w \in Nat /\ Len(b) = L + Len(y)
      BY <1>1, <2>3
    <3>2. \A i \in 1 .. Len(y) : b[L + i] = y[i]
      BY <2>4
    <3> HIDE DEF L, nonzero, w
    <3>3. Horner(w, b)[Len(b)] = Horner(w, y)[Len(y)]
      BY <1>1, <2>2, <2>3, <3>1, <3>2, ZerosInFront
    <3>4. QED
      BY <3>3 DEF w, L
  <2>6. NumberIn(b) = NumberIn(<< >>)
    BY <2>5 DEF NumberIn, y
  <2>7. 0 \in 0 .. L
    BY <1>1
  <2>8. QED
    BY <2>1, <2>6, <2>7, NoBytes
<1>3. CASE nonzero # {}
  <2> DEFINE k == CHOOSE i \in nonzero : \A j \in nonzero : i <= j
             y == SubSeq(b, k, L)
  <2>1. \E i \in nonzero : \A j \in nonzero : i <= j
    <3>1. nonzero \subseteq Nat
      BY <1>1
    <3> HIDE DEF nonzero
    <3>2. QED
      BY <1>3, <3>1, LeastNat
  <2>2. k \in nonzero /\ \A j \in nonzero : k <= j
    BY <2>1
  <2>3. Stripped(b) = y
    BY <1>3 DEF Stripped
  <2> HIDE DEF k
  <2>4. k \in 1 .. L /\ b[k] # 0 /\ \A i \in 1 .. k - 1 : b[i] = 0
    <3>1. k \in 1 .. L /\ b[k] # 0
      BY <1>1, <2>2
    <3>2. ASSUME NEW i \in 1 .. k - 1 PROVE b[i] = 0
      <4>1. i \in 1 .. L /\ ~ (k <= i)
        BY <1>1, <3>1
      <4>2. QED
        BY <1>1, <2>2, <4>1
    <3>3. QED
      BY <3>1, <3>2
  <2>5. /\ y \in Seq(Bytes) /\ Len(y) = L - k + 1
        /\ \A i \in 1 .. L - k + 1 : y[i] = b[k + i - 1]
    <3>1. k \in Int /\ L \in Int /\ k <= L
      BY <1>1, <2>4
    <3>2. \A i \in k .. L : b[i] \in Bytes
      <4>1. \A i \in 1 .. L : b[i] \in Bytes
        BY ElementOfSeq
      <4>2. QED
        BY <1>1, <2>4, <4>1
    <3> HIDE DEF L
    <3>3. QED
      BY <3>1, <3>2, SubSeqProperties
  <2>6. y \in Seq(Nat) /\ k - 1 \in Nat /\ L = (k - 1) + Len(y) /\ Len(y) \in 1 .. L
    <3>1. y \in Seq(Nat)
      BY <2>5, BytesAreNumbers
    <3> HIDE DEF L, y
    <3>2. QED
      BY <1>1, <2>4, <2>5, <3>1
  <2> HIDE DEF y, L
  <2>7. \A i \in 1 .. Len(y) : b[(k - 1) + i] = y[i]
    <3>1. ASSUME NEW i \in 1 .. Len(y) PROVE b[(k - 1) + i] = y[i]
      <4>1. i \in 1 .. L - k + 1 /\ k + i - 1 = (k - 1) + i
        BY <1>1, <2>4, <2>5
      <4>2. QED
        BY <2>5, <4>1
    <3>2. QED
      BY <3>1
  <2>8. Horner(256, b)[L] = Horner(256, y)[Len(y)]
    <3> DEFINE w == 256
               z == k - 1
    <3>1. w \in Nat /\ Len(b) = z + Len(y) /\ z \in Nat
      BY <2>6 DEF L
    <3>2. /\ \A i \in 1 .. z : b[i] = 0
          /\ \A i \in 1 .. Len(y) : b[z + i] = y[i]
      BY <2>4, <2>7
    <3> HIDE DEF w, z
    <3>3. Horner(w, b)[Len(b)] = Horner(w, y)[Len(y)]
      BY <1>1, <2>6, <3>1, <3>2, ZerosInFront
    <3>4. QED
      BY <3>3 DEF w, L
  <2>9. y[1] = b[k]
    <3>1. 1 \in 1 .. L - k + 1 /\ k + 1 - 1 = k
      BY <1>1, <2>4
    <3>2. QED
      BY <2>5, <3>1
  <2>10. QED
    <3>1. Len(y) \in 0 .. L
      BY <1>1, <2>6
    <3>2. QED
      BY <2>3, <2>4, <2>5, <2>8, <2>9, <3>1 DEF NumberIn, L
<1>4. QED
  BY <1>2, <1>3

LEMMA Powers256 ==
  ASSUME NEW n \in Nat
  PROVE  Power256[0] = 1 /\ Power256[n] \in Nat \ {0} /\ Power256[n + 1] = 256 * Power256[n]
<1> DEFINE w == 256
           Is(f) == f = [k \in Nat |-> IF k = 0 THEN 1 ELSE w * f[k - 1]]
<1>1. w \in Nat \ {0}
  OBVIOUS
<1>2. Power256 = CHOOSE f : Is(f)
  BY DEF Power256
<1> HIDE DEF w
<1>3. \E f : Is(f)
  BY <1>1, PowersExist
<1> HIDE DEF Is
<1>4. Is(Power256)
  BY <1>2, <1>3
<1>5. Power256[0] = 1 /\ \A m \in Nat : Power256[m + 1] = w * Power256[m]
  <2>1. \A m \in Nat : m + 1 \in Nat /\ m + 1 # 0 /\ m + 1 - 1 = m
    OBVIOUS
  <2>2. QED
    BY <1>4, <2>1 DEF Is
<1> DEFINE S == {m \in Nat : Power256[m] \in Nat \ {0}}
<1>6. 0 \in S
  BY <1>5
<1>7. ASSUME NEW m \in 0 .. n - 1, m \in S PROVE m + 1 \in S
  <2> DEFINE p == Power256[m]
  <2>1. p \in Nat \ {0} /\ Power256[m + 1] = w * p /\ m + 1 \in Nat
    BY <1>5, <1>7
  <2> HIDE DEF p
  <2>2. w * p \in Nat \ {0}
    BY <1>1, <2>1
  <2>3. QED
    BY <2>1, <2>2
<1> HIDE DEF S
<1>8. n \in S
  BY <1>6, <1>7, InductiveUpTo
<1>9. QED
  BY <1>5, <1>8 DEF S, w

LEMMA MaxLengthIsNumber == ASSUME RlpAssumption PROVE MaxLength \in Nat /\ U64Bytes \in Nat
<1>1. U64Bytes \in Nat
  BY DEF RlpAssumption
<1>2. Power256[U64Bytes] \in Nat \ {0}
  BY <1>1, Powers256
<1>3. QED
  BY <1>1, <1>2 DEF MaxLength

LEMMA MinimalReads ==
  ASSUME RlpAssumption, NEW n \in 0 .. MaxLength
  PROVE  /\ Minimal(n) \in Seq(Bytes) /\ Len(Minimal(n)) \in 0 .. 8
         /\ NumberIn(Minimal(n)) = n
         /\ n # 0 => Minimal(n) # << >>
         /\ Minimal(n) # << >> => Minimal(n)[1] # 0
<1> DEFINE K == U64Bytes
           b == [i \in 1 .. K |-> (n \div Power256[K - i]) % 256]
<1>1. K \in Nat /\ n \in Nat /\ n <= Power256[K] - 1 /\ K \in 1 .. 8
  BY MaxLengthIsNumber DEF MaxLength, RlpAssumption
<1>2. Minimal(n) = Stripped(b)
  BY DEF Minimal
<1> HIDE DEF K
<1> DEFINE w == 256
           d(i) == (n \div Power256[K - i]) % w
<1>3. w \in Nat \ {0} /\ \A x \in 0 .. w - 1 : x \in Bytes
  BY DEF Bytes
<1>4. \A i \in 1 .. K : b[i] = d(i)
  OBVIOUS
<1>5. Power256[0] = 1 /\ \A m \in Nat : Power256[m] \in Nat \ {0} /\ Power256[m + 1] = w * Power256[m]
  BY Powers256
<1> HIDE DEF w
<1>6. ASSUME NEW i \in 1 .. K
      PROVE  /\ d(i) \in Bytes /\ n \div Power256[K - i] \in Nat
             /\ n \div Power256[K - i] = w * (n \div Power256[K - (i - 1)]) + d(i)
  <2> DEFINE p == Power256[K - i]
  <2>1. K - i \in Nat /\ K - i + 1 = K - (i - 1)
    BY <1>1
  <2>2. p \in Nat \ {0} /\ Power256[K - (i - 1)] = w * p
    BY <1>5, <2>1
  <2> HIDE DEF p
  <2>3. /\ n \div p \in Nat /\ (n \div p) % w \in 0 .. w - 1
        /\ n \div p = w * (n \div (w * p)) + ((n \div p) % w)
    BY <1>1, <1>3, <2>2, NextPlace
  <2>4. d(i) = (n \div p) % w
    BY DEF p
  <2> HIDE DEF d
  <2>5. QED
    BY <1>3, <2>2, <2>3, <2>4 DEF p
<1>7. n \div Power256[K] = 0
  <2> DEFINE p == Power256[K]
  <2>1. p \in Nat \ {0} /\ n <= p - 1
    BY <1>1, <1>5
  <2> HIDE DEF p
  <2>2. n \in 0 .. p - 1 /\ n = p * 0 + n
    BY <1>1, <2>1
  <2>3. n \div p = 0
    BY <1>1, <2>1, <2>2, DivUnique
  <2>4. QED
    BY <2>3 DEF p
<1>8. b \in Seq(Bytes) /\ Len(b) = K
  <2>1. \A i \in 1 .. K : b[i] \in Bytes
    BY <1>4, <1>6
  <2>2. DOMAIN b = 1 .. K /\ b = [i \in 1 .. K |-> b[i]]
    OBVIOUS
  <2> HIDE DEF b
  <2>3. b \in [1 .. K -> Bytes]
    BY <2>1, <2>2
  <2>4. b \in Seq(Bytes)
    BY <1>1, <2>3, SeqDef
  <2>5. QED
    BY <1>1, <2>2, <2>4, BytesAreNumbers
<1> HIDE DEF b, d
<1>9. NumberIn(b) = n
  <2> DEFINE H == Horner(w, b)
             S == {i \in 0 .. K : H[i] = n \div Power256[K - i]}
  <2>1. H[0] = 0 /\ \A i \in 1 .. K : H[i] = w * H[i - 1] + b[i]
    <3>1. b \in Seq(Nat)
      BY <1>8, BytesAreNumbers
    <3>2. QED
      BY <1>3, <1>8, <3>1, Horners
  <2> HIDE DEF H
  <2>2. 0 \in S
    <3>1. 0 \in 0 .. K /\ K - 0 = K
      BY <1>1
    <3>2. QED
      BY <1>7, <2>1, <3>1
  <2>3. ASSUME NEW i \in 0 .. K - 1, i \in S PROVE i + 1 \in S
    <3> DEFINE c == i + 1
    <3>1. c \in 1 .. K /\ c \in 0 .. K /\ c - 1 = i
      BY <1>1
    <3> HIDE DEF c
    <3>2. H[c] = w * H[i] + b[c] /\ H[i] = n \div Power256[K - i] /\ b[c] = d(c)
      BY <1>4, <2>1, <2>3, <3>1
    <3>3. n \div Power256[K - c] = w * (n \div Power256[K - i]) + d(c)
      BY <1>6, <3>1
    <3>4. H[c] = n \div Power256[K - c]
      BY <3>2, <3>3
    <3>5. QED
      BY <3>1, <3>4 DEF c
  <2> HIDE DEF S
  <2>4. K \in S
    BY <1>1, <2>2, <2>3, InductiveUpTo
  <2>5. H[K] = n \div 1 /\ n \div 1 = n
    <3>1. K - K = 0
      BY <1>1
    <3>2. H[K] = n \div Power256[K - K]
      BY <2>4 DEF S
    <3>3. Power256[K - K] = 1
      BY <1>5, <3>1
    <3>4. n \div 1 = n
      BY <1>1
    <3>5. QED
      BY <3>2, <3>3, <3>4
  <2>6. QED
    BY <1>8, <2>5 DEF H, NumberIn, w
<1>10. /\ Stripped(b) \in Seq(Bytes) /\ Len(Stripped(b)) \in 0 .. 8
       /\ NumberIn(Stripped(b)) = n
       /\ Stripped(b) # << >> => Stripped(b)[1] # 0
  <2>1. /\ Stripped(b) \in Seq(Bytes) /\ Len(Stripped(b)) \in 0 .. K
        /\ NumberIn(Stripped(b)) = NumberIn(b)
        /\ Stripped(b) # << >> => Stripped(b)[1] # 0
    BY <1>8, StrippedReads
  <2>2. 0 .. K \subseteq 0 .. 8
    BY <1>1
  <2>3. QED
    BY <1>9, <2>1, <2>2
<1>11. n # 0 => Stripped(b) # << >>
  BY <1>10, NoBytes
<1>12. QED
  BY <1>2, <1>10, <1>11

(* x stands in e, behind the first a bytes. *)
Stands(x, e, a) == \A j \in 1 .. Len(x) : e[a + j] = x[j]

LEMMA CutOut ==
  ASSUME NEW x \in Seq(Bytes), NEW e \in Seq(Bytes), NEW a \in Nat, Stands(x, e, a)
  PROVE  SubSeq(e, a + 1, a + Len(x)) = x
<1> DEFINE L == Len(x)
           y == SubSeq(e, a + 1, a + L)
<1>1. L \in Nat /\ \A j \in 1 .. L : x[j] \in Bytes
  BY BytesAreNumbers, ElementOfSeq
<1>2. \A j \in 1 .. L : e[a + j] = x[j]
  BY DEF Stands
<1>3. \A j \in a + 1 .. a + L : e[j] \in Bytes
  <2>1. ASSUME NEW j \in a + 1 .. a + L PROVE e[j] \in Bytes
    <3>1. j - a \in 1 .. L /\ a + (j - a) = j
      BY <1>1
    <3>2. QED
      BY <1>2, <1>1, <3>1
  <2>2. QED
    BY <2>1
<1>4. /\ y \in Seq(Bytes) /\ Len(y) = IF a + 1 <= a + L THEN (a + L) - (a + 1) + 1 ELSE 0
      /\ \A i \in 1 .. (a + L) - (a + 1) + 1 : y[i] = e[(a + 1) + i - 1]
  <2>1. a + 1 \in Int /\ a + L \in Int
    BY <1>1
  <2> HIDE DEF L
  <2>2. QED
    BY <1>3, <2>1, SubSeqProperties
<1> HIDE DEF y
<1>5. Len(y) = L /\ \A i \in 1 .. L : y[i] = x[i]
  <2>1. (a + L) - (a + 1) + 1 = L /\ (a + 1 <= a + L <=> L > 0) /\ \A i \in 1 .. L : (a + 1) + i - 1 = a + i
    BY <1>1
  <2>2. Len(y) = L
    BY <1>1, <1>4, <2>1
  <2>3. ASSUME NEW i \in 1 .. L PROVE y[i] = x[i]
    BY <1>2, <1>4, <2>1
  <2>4. QED
    BY <2>2, <2>3
<1>6. QED
  BY <1>4, <1>5, SeqEqual DEF y

LEMMA ItemKinds ==
  ASSUME NEW e, NEW i \in Nat, e[i] \in Bytes
  PROVE  /\ e[i] < 128 => ItemAt(e, i) = [list |-> FALSE, first |-> i, last |-> i]
         /\ e[i] >= 128 /\ e[i] < 184 =>
              ItemAt(e, i) = [list |-> FALSE, first |-> i + 1, last |-> i + e[i] - 128]
         /\ e[i] >= 184 /\ e[i] < 192 =>
              ItemAt(e, i) = [list |-> FALSE, first |-> i + 1 + (e[i] - 183),
                last |-> i + 1 + (e[i] - 183) + NumberIn(SubSeq(e, i + 1, i + (e[i] - 183))) - 1]
         /\ e[i] >= 192 /\ e[i] < 248 =>
              ItemAt(e, i) = [list |-> TRUE, first |-> i + 1, last |-> i + e[i] - 192]
         /\ e[i] >= 248 =>
              ItemAt(e, i) = [list |-> TRUE, first |-> i + 1 + (e[i] - 247),
                last |-> i + 1 + (e[i] - 247) + NumberIn(SubSeq(e, i + 1, i + (e[i] - 247))) - 1]
<1> DEFINE b == e[i]
<1>1. b \in Int /\ b >= 0
  BY DEF Bytes
<1>2. e[i] < 128 => ItemAt(e, i) = [list |-> FALSE, first |-> i, last |-> i]
  BY <1>1 DEF ItemAt
<1>3. e[i] >= 128 /\ e[i] < 184 =>
        ItemAt(e, i) = [list |-> FALSE, first |-> i + 1, last |-> i + e[i] - 128]
  BY <1>1 DEF ItemAt
<1>4. e[i] >= 184 /\ e[i] < 192 =>
        ItemAt(e, i) = [list |-> FALSE, first |-> i + 1 + (e[i] - 183),
          last |-> i + 1 + (e[i] - 183) + NumberIn(SubSeq(e, i + 1, i + (e[i] - 183))) - 1]
  BY <1>1 DEF ItemAt
<1>5. e[i] >= 192 /\ e[i] < 248 =>
        ItemAt(e, i) = [list |-> TRUE, first |-> i + 1, last |-> i + e[i] - 192]
  BY <1>1 DEF ItemAt
<1>6. e[i] >= 248 =>
        ItemAt(e, i) = [list |-> TRUE, first |-> i + 1 + (e[i] - 247),
          last |-> i + 1 + (e[i] - 247) + NumberIn(SubSeq(e, i + 1, i + (e[i] - 247))) - 1]
  BY <1>1 DEF ItemAt
<1>7. QED
  BY <1>2, <1>3, <1>4, <1>5, <1>6

Offsets(list, short, long) ==
  \/ list = FALSE /\ short = 128 /\ long = 183
  \/ list = TRUE /\ short = 192 /\ long = 247

LEMMA PrefixShape ==
  ASSUME RlpAssumption, NEW list, NEW short, NEW long, Offsets(list, short, long), NEW len \in 0 .. MaxLength,
         NEW pre, pre = RlpPrefix(short, long, len), NEW m, m = Minimal(len)
  PROVE  /\ pre \in Seq(Bytes) /\ Len(pre) \in 1 .. 9
         /\ len < 56 => Len(pre) = 1 /\ pre[1] = short + len
         /\ len >= 56 => /\ Len(m) \in 1 .. 8 /\ Len(pre) = 1 + Len(m)
                         /\ pre[1] = long + Len(m) /\ \A j \in 1 .. Len(m) : pre[1 + j] = m[j]
<1>1. len \in Nat
  BY MaxLengthIsNumber
<1>2. CASE len < 56
  <2> DEFINE b == short + len
  <2>1. b \in Bytes
    <3>1. short = 128 => short + len \in 0 .. 255
      BY <1>1, <1>2
    <3>2. short = 192 => short + len \in 0 .. 255
      BY <1>1, <1>2
    <3>3. QED
      BY <3>1, <3>2 DEF Bytes, Offsets
  <2>2. pre = <<b>>
    BY <1>2 DEF RlpPrefix
  <2> HIDE DEF b
  <2>3. pre \in Seq(Bytes) /\ Len(pre) = 1 /\ pre[1] = b
    BY <2>1, <2>2
  <2>4. 1 \in 1 .. 9 /\ ~ (len >= 56)
    BY <1>1, <1>2
  <2>5. QED
    BY <1>2, <2>3, <2>4 DEF b
<1>3. CASE len >= 56
  <2> DEFINE b == long + Len(m)
             k == Len(m)
  <2>1. m \in Seq(Bytes) /\ k \in 0 .. 8 /\ m # << >>
    BY <1>1, <1>3, MinimalReads
  <2>2. k \in 1 .. 8
    BY <2>1, EmptySeq
  <2>3. b \in Bytes
    <3> HIDE DEF k
    <3>1. long = 183 => long + k \in 0 .. 255
      BY <2>2
    <3>2. long = 247 => long + k \in 0 .. 255
      BY <2>2
    <3>3. QED
      BY <3>1, <3>2 DEF Bytes, Offsets, k
  <2>4. pre = <<b>> \o m
    <3>1. ~ (len < 56)
      BY <1>1, <1>3
    <3>2. QED
      BY <3>1 DEF RlpPrefix
  <2> HIDE DEF b, k
  <2>5. <<b>> \in Seq(Bytes) /\ Len(<<b>>) = 1 /\ <<b>>[1] = b
    BY <2>3
  <2>6. /\ pre \in Seq(Bytes) /\ Len(pre) = 1 + k
        /\ \A i \in 1 .. 1 + k : pre[i] = IF i <= 1 THEN <<b>>[i] ELSE m[i - 1]
    <3> DEFINE s1 == <<b>>
    <3>1. s1 \in Seq(Bytes) /\ Len(s1) = 1 /\ pre = s1 \o m
      BY <2>4, <2>5
    <3> HIDE DEF s1
    <3>2. /\ s1 \o m \in Seq(Bytes) /\ Len(s1 \o m) = Len(s1) + Len(m)
          /\ \A i \in 1 .. Len(s1) + Len(m) : (s1 \o m)[i] = IF i <= Len(s1) THEN s1[i] ELSE m[i - Len(s1)]
      <4>1. m \in Seq(Bytes)
        BY <2>1
      <4>2. QED
        BY ONLY <3>1, <4>1, ConcatProperties
    <3>3. QED
      BY <3>1, <3>2 DEF k, s1
  <2>7. pre[1] = b
    <3>1. 1 \in 1 .. 1 + k /\ 1 <= 1
      BY <2>2
    <3>2. QED
      BY <2>5, <2>6, <3>1
  <2>8. ASSUME NEW j \in 1 .. k PROVE pre[1 + j] = m[j]
    <3>1. 1 + j \in 1 .. 1 + k /\ ~ (1 + j <= 1) /\ (1 + j) - 1 = j
      BY <2>2
    <3>2. QED
      BY <2>6, <3>1
  <2>9. 1 + k \in 1 .. 9 /\ ~ (len < 56)
    BY <1>1, <1>3, <2>2
  <2>10. QED
    BY <2>2, <2>6, <2>7, <2>8, <2>9 DEF b, k
<1>4. QED
  BY <1>1, <1>2, <1>3

(* The item behind the first o bytes: where it ends, and its payload.      *)
ReadsAs(e, o, list, last, p) ==
  LET item == ItemAt(e, o + 1)
  IN  item.list = list /\ item.last = last /\ Payload(e, item) = p

(* A prefix says where the payload ends. *)
LEMMA PrefixReads ==
  ASSUME RlpAssumption, NEW list, NEW short, NEW long, Offsets(list, short, long),
         NEW p \in Seq(Bytes), Len(p) \in 0 .. MaxLength,
         NEW pre, pre = RlpPrefix(short, long, Len(p)),
         NEW e \in Seq(Bytes), NEW o \in Nat, Stands(pre, e, o),
         NEW a, a = o + Len(pre), Stands(p, e, a)
  PROVE  ReadsAs(e, o, list, a + Len(p), p)
<1> DEFINE L   == Len(p)
           m   == Minimal(L)
           k   == Len(pre)
           i   == o + 1
           item == ItemAt(e, i)
           b == e[i]
<1>1. L \in 0 .. MaxLength /\ L \in Nat
  BY MaxLengthIsNumber
<1>2. /\ pre \in Seq(Bytes) /\ k \in 1 .. 9
      /\ L < 56 => k = 1 /\ pre[1] = short + L
      /\ L >= 56 => /\ Len(m) \in 1 .. 8 /\ k = 1 + Len(m)
                    /\ pre[1] = long + Len(m) /\ \A j \in 1 .. Len(m) : pre[1 + j] = m[j]
  <2>1. pre = RlpPrefix(short, long, L) /\ m = Minimal(L)
    OBVIOUS
  <2> HIDE DEF L, m
  <2>2. /\ pre \in Seq(Bytes) /\ Len(pre) \in 1 .. 9
        /\ L < 56 => Len(pre) = 1 /\ pre[1] = short + L
        /\ L >= 56 => /\ Len(m) \in 1 .. 8 /\ Len(pre) = 1 + Len(m)
                      /\ pre[1] = long + Len(m) /\ \A j \in 1 .. Len(m) : pre[1 + j] = m[j]
    <3>1. RlpAssumption /\ Offsets(list, short, long)
      OBVIOUS
    <3>2. QED
      BY ONLY <1>1, <2>1, <3>1, PrefixShape
  <2>3. QED
    BY <2>2
<1>3. \A j \in 1 .. k : e[o + j] = pre[j]
  BY DEF Stands
<1>4. m \in Seq(Bytes) /\ NumberIn(m) = L
  <2> HIDE DEF L
  <2>1. QED
    BY <1>1, MinimalReads
<1>5. pre[1] \in Bytes
  <2>1. 1 \in 1 .. k
    BY <1>2
  <2>2. QED
    BY <1>2, <2>1, ElementOfSeq
<1>6. e[o + 1] = pre[1] /\ o + 1 \in Nat
  <2>1. 1 \in 1 .. k
    BY <1>2
  <2>2. QED
    BY <1>3, <2>1
<1> HIDE DEF m, k
<1>7. i \in Nat /\ b \in Bytes
  BY <1>5, <1>6
<1>8. i = o + 1
  OBVIOUS
<1> HIDE DEF i
<1>9. /\ b >= 128 /\ b < 184 =>
           ItemAt(e, i) = [list |-> FALSE, first |-> i + 1, last |-> i + b - 128]
      /\ b >= 184 /\ b < 192 =>
           ItemAt(e, i) = [list |-> FALSE, first |-> i + 1 + (b - 183),
             last |-> i + 1 + (b - 183) + NumberIn(SubSeq(e, i + 1, i + (b - 183))) - 1]
      /\ b >= 192 /\ b < 248 =>
           ItemAt(e, i) = [list |-> TRUE, first |-> i + 1, last |-> i + b - 192]
      /\ b >= 248 =>
           ItemAt(e, i) = [list |-> TRUE, first |-> i + 1 + (b - 247),
             last |-> i + 1 + (b - 247) + NumberIn(SubSeq(e, i + 1, i + (b - 247))) - 1]
  BY <1>7, ItemKinds
<1> HIDE DEF item, b
<1>10. item = [list |-> list, first |-> o + 1 + k, last |-> o + k + L]
  <2>1. CASE L < 56
    <3>1. k = 1 /\ b = short + L
      BY <1>2, <1>6, <1>8, <2>1 DEF b
    <3> HIDE DEF L
    <3>2. ASSUME list = FALSE, short = 128
          PROVE  item = [list |-> FALSE, first |-> i + 1, last |-> i + b - 128]
      <4>1. b >= 128 /\ b < 184
        BY <1>1, <2>1, <3>1, <3>2
      <4>2. QED
        BY <1>7, <1>9, <3>2, <4>1 DEF item
    <3>3. ASSUME list = TRUE, short = 192
          PROVE  item = [list |-> TRUE, first |-> i + 1, last |-> i + b - 192]
      <4>1. b >= 192 /\ b < 248
        BY <1>1, <2>1, <3>1, <3>3
      <4>2. QED
        BY <1>7, <1>9, <3>3, <4>1 DEF item
    <3>4. list = FALSE /\ short = 128 => i + b - 128 = o + k + L
      BY <1>1, <1>8, <3>1
    <3>5. list = TRUE /\ short = 192 => i + b - 192 = o + k + L
      BY <1>1, <1>8, <3>1
    <3>6. i + 1 = o + 1 + k
      BY <1>8, <3>1
    <3>7. QED
      BY <3>6, <3>2, <3>3, <3>4, <3>5 DEF Offsets
  <2>2. CASE L >= 56
    <3> DEFINE n == Len(m)
    <3>1. n \in 1 .. 8 /\ k = 1 + n /\ b = long + n
      BY <1>2, <1>6, <1>8, <2>2 DEF b
    <3>2. SubSeq(e, o + 2, o + 1 + n) = m
      <4>1. ASSUME NEW j \in 1 .. n PROVE e[(o + 1) + j] = m[j]
        <5>1. 1 + j \in 1 .. k /\ o + (1 + j) = (o + 1) + j
          BY <3>1
        <5>2. pre[1 + j] = m[j]
          BY <1>2, <2>2
        <5> HIDE DEF n, L
        <5>3. e[o + (1 + j)] = pre[1 + j]
          BY <1>3, <5>1
        <5>4. QED
          BY <5>1, <5>2, <5>3
      <4>2. i + 1 = o + 2 /\ i + n = o + 1 + n
        BY <1>8
      <4>3. Stands(m, e, i)
        BY <1>8, <4>1 DEF Stands
      <4> HIDE DEF n, L
      <4>4. SubSeq(e, i + 1, i + Len(m)) = m
        BY <1>4, <1>7, <4>3, CutOut
      <4>5. QED
        BY <4>2, <4>4 DEF n
    <3> HIDE DEF n, L
    <3>3. ASSUME list = FALSE, long = 183
          PROVE  item = [list |-> FALSE, first |-> i + 1 + (b - 183),
                    last |-> i + 1 + (b - 183) + NumberIn(SubSeq(e, i + 1, i + (b - 183))) - 1]
      <4>1. b >= 184 /\ b < 192
        BY <3>1, <3>3
      <4>2. QED
        BY <1>7, <1>9, <3>3, <4>1 DEF item
    <3>4. ASSUME list = TRUE, long = 247
          PROVE  item = [list |-> TRUE, first |-> i + 1 + (b - 247),
                    last |-> i + 1 + (b - 247) + NumberIn(SubSeq(e, i + 1, i + (b - 247))) - 1]
      <4>1. b >= 248
        BY <3>1, <3>4
      <4>2. QED
        BY <1>7, <1>9, <3>4, <4>1 DEF item
    <3>5. /\ list = FALSE /\ long = 183 => b - 183 = n
          /\ list = TRUE /\ long = 247 => b - 247 = n
      BY <3>1
    <3>6. item = [list |-> list, first |-> i + 1 + n,
                  last |-> i + 1 + n + NumberIn(SubSeq(e, i + 1, i + n)) - 1]
      BY <3>3, <3>4, <3>5 DEF Offsets
    <3>7. i + 1 = o + 2 /\ i + n = o + 1 + n
      BY <1>8, <3>1
    <3>8. item = [list |-> list, first |-> o + 2 + n, last |-> o + 2 + n + L - 1]
      BY <1>4, <3>2, <3>6, <3>7
    <3>9. o + 2 + n = o + 1 + k /\ o + 2 + n + L - 1 = o + k + L
      BY ONLY <1>1, <3>1, o \in Nat
    <3>10. QED
      BY <3>8, <3>9
  <2>3. QED
    <3> HIDE DEF L
    <3>1. L < 56 \/ L >= 56
      BY <1>1
    <3>2. QED
      BY <2>1, <2>2, <3>1
<1>11. Payload(e, item) = p
  <2>1. a \in Nat /\ a + 1 = o + 1 + k /\ a + L = o + k + L
    BY <1>1, <1>2 DEF k
  <2>2. SubSeq(e, a + 1, a + Len(p)) = p
    BY <2>1, CutOut
  <2>3. item.first = a + 1 /\ item.last = a + L
    BY <1>10, <2>1
  <2>4. QED
    BY <2>2, <2>3 DEF Payload
<1>12. item.list = list /\ item.last = a + L
  <2>1. o + k + L = a + L
    BY DEF k
  <2>2. QED
    BY <1>10, <2>1
<1>13. QED
  BY <1>11, <1>12, <1>8 DEF ReadsAs, item

(* A byte string is read back from any place where its encoding stands.    *)
LEMMA BytesReadBack ==
  ASSUME RlpAssumption, NEW p \in Seq(Bytes), Len(p) \in 0 .. MaxLength, NEW r, r = RlpBytes(p)
  PROVE  /\ r \in Seq(Bytes) /\ Len(r) \in Nat \ {0} /\ Len(r) \in Len(p) .. Len(p) + 9
         /\ \A e \in Seq(Bytes), o \in Nat : Stands(r, e, o) => ReadsAs(e, o, FALSE, o + Len(r), p)
<1> DEFINE L == Len(p)
<1>1. L \in Nat /\ DOMAIN p = 1 .. L
  BY BytesAreNumbers
<1>2. CASE L = 1 /\ p[1] < 128
  <2>1. r = p
    BY <1>2 DEF RlpBytes
  <2>2. p[1] \in Bytes
    <3>1. 1 \in 1 .. Len(p)
      BY <1>2
    <3> HIDE DEF L
    <3>2. QED
      BY <3>1, ElementOfSeq
  <2>3. ASSUME NEW e \in Seq(Bytes), NEW o \in Nat, Stands(p, e, o)
        PROVE  ReadsAs(e, o, FALSE, o + 1, p)
    <3> DEFINE i == o + 1
    <3>1. i \in Nat /\ e[i] = p[1]
      BY <1>2, <2>3 DEF Stands
    <3> HIDE DEF i
    <3>2. ItemAt(e, i) = [list |-> FALSE, first |-> i, last |-> i]
      BY <1>2, <2>2, <3>1, ItemKinds
    <3>3. SubSeq(e, i, i) = p
      <4>1. SubSeq(e, o + 1, o + Len(p)) = p
        BY <2>3, CutOut
      <4>2. QED
        BY <1>2, <4>1 DEF i
    <3>4. QED
      BY <3>2, <3>3 DEF ReadsAs, Payload, i
  <2>4. Len(r) = 1 /\ r \in Seq(Bytes) /\ 1 \in Len(p) .. Len(p) + 9
    BY <1>2, <2>1
  <2> HIDE DEF L
  <2>5. ASSUME NEW e \in Seq(Bytes), NEW o \in Nat, Stands(r, e, o)
        PROVE  ReadsAs(e, o, FALSE, o + Len(r), p)
    <3>1. o + Len(r) = o + 1
      BY <2>4
    <3>2. ReadsAs(e, o, FALSE, o + 1, p)
      BY <2>1, <2>3, <2>5
    <3>3. QED
      BY <3>1, <3>2
  <2>6. Len(r) \in Nat \ {0} /\ Len(r) \in Len(p) .. Len(p) + 9
    BY <2>4
  <2>7. QED
    BY <2>4, <2>5, <2>6
<1>3. CASE ~ (L = 1 /\ p[1] < 128)
  <2> DEFINE short == 128
             long == 183
             list == FALSE
             pre == RlpPrefix(short, long, L)
             k == Len(pre)
  <2>1. r = pre \o p
    BY <1>3 DEF RlpBytes
  <2>2. Offsets(list, short, long)
    BY DEF Offsets
  <2> HIDE DEF short, long, list
  <2>3. pre \in Seq(Bytes) /\ k \in 1 .. 9
    <3> HIDE DEF L
    <3>1. L \in 0 .. MaxLength
      BY DEF L
    <3> DEFINE m == Minimal(L)
    <3>2. pre = RlpPrefix(short, long, L) /\ m = Minimal(L)
      OBVIOUS
    <3> HIDE DEF m, pre
    <3>3. QED
      BY <2>2, <3>1, <3>2, PrefixShape
  <2>4. pre = RlpPrefix(short, long, Len(p))
    OBVIOUS
  <2> HIDE DEF pre
  <2>5. /\ r \in Seq(Bytes) /\ Len(r) = k + L
        /\ \A i \in 1 .. k + L : r[i] = IF i <= k THEN pre[i] ELSE p[i - k]
    BY <2>1, <2>3, ConcatProperties
  <2>6. ASSUME NEW e \in Seq(Bytes), NEW o \in Nat, Stands(r, e, o)
        PROVE  ReadsAs(e, o, FALSE, o + Len(r), p)
    <3> DEFINE a == o + k
    <3>1. \A j \in 1 .. k + L : e[o + j] = r[j]
      BY <2>5, <2>6 DEF Stands
    <3> HIDE DEF L, k
    <3>2. ASSUME NEW j \in 1 .. k PROVE e[o + j] = pre[j]
      <4>1. j \in 1 .. k + L /\ j <= k
        BY <1>1, <2>3
      <4>2. QED
        BY <2>5, <3>1, <4>1
    <3>3. ASSUME NEW j \in 1 .. L PROVE e[a + j] = p[j]
      <4>1. k + j \in 1 .. k + L /\ ~ (k + j <= k) /\ (k + j) - k = j /\ o + (k + j) = a + j
        BY <1>1, <2>3
      <4>2. e[o + (k + j)] = r[k + j] /\ r[k + j] = p[j]
        BY <2>5, <3>1, <4>1
      <4>3. QED
        BY <4>1, <4>2
    <3>4. Stands(pre, e, o) /\ Stands(p, e, a)
      BY <3>2, <3>3 DEF Stands, k, L
    <3>5. a = o + Len(pre)
      BY DEF k
    <3> HIDE DEF a
    <3>6. ReadsAs(e, o, list, a + Len(p), p)
      BY <2>2, <2>4, <3>4, <3>5, PrefixReads
    <3>7. a + Len(p) = o + Len(r)
      <4>1. a + L = o + (k + L)
        BY <1>1, <2>3 DEF a
      <4>2. QED
        BY <2>5, <4>1 DEF L
    <3>8. QED
      BY <3>6, <3>7 DEF list
  <2>7. k + L \in L .. L + 9 /\ k + L \in Nat \ {0}
    <3> HIDE DEF k, L
    <3>1. QED
      BY <1>1, <2>3
  <2>8. QED
    BY <2>5, <2>6, <2>7
<1>4. QED
  BY <1>2, <1>3

(* Two hexadecimal digits are a byte.                                      *)
LEMMA QuantityReads ==
  ASSUME NEW h \in Seq(0 .. 16), IsHex(h), N \in Nat, Len(h) <= 2 * N
  PROVE  /\ UintFromHex(h) \in Seq(Bytes) /\ Len(UintFromHex(h)) = N
         /\ NumberIn(UintFromHex(h)) = ValueOfHex(h)
<1> DEFINE L == Len(h)
           M == 2 * N
           u == UintFromHex(h)
           x == [i \in 1 .. M |-> FromRight(h, M - i + 1)]
<1>1. L \in Nat /\ DOMAIN h = 1 .. L /\ h \in Seq(Nat) /\ M \in Nat /\ L <= M
  <2>1. 0 .. 16 \subseteq Nat
    OBVIOUS
  <2>2. QED
    BY <2>1, SeqMonotonic, LenProperties
<1>2. \A i \in 1 .. L : h[i] \in 0 .. 15
  <2>1. ASSUME NEW i \in 1 .. L PROVE h[i] \in 0 .. 15
    <3>1. h[i] \in 0 .. 16 /\ h[i] < 16
      BY <1>1, ElementOfSeq DEF IsHex
    <3>2. QED
      BY <3>1
  <2>2. QED
    BY <2>1
<1> HIDE DEF L, M
<1>3. ASSUME NEW q \in Nat \ {0} PROVE FromRight(h, q) \in 0 .. 15
  <2>1. CASE q <= L
    <3>1. L - q + 1 \in 1 .. L /\ FromRight(h, q) = h[L - q + 1]
      BY <1>1, <2>1 DEF FromRight, L
    <3>2. QED
      BY <1>2, <3>1
  <2>2. CASE ~ (q <= L)
    <3>1. FromRight(h, q) = 0
      BY <2>2 DEF FromRight, L
    <3>2. QED
      BY <3>1
  <2>3. QED
    BY <2>1, <2>2
<1>4. \A i \in 1 .. M : x[i] \in 0 .. 15
  <2>1. ASSUME NEW i \in 1 .. M PROVE x[i] \in 0 .. 15
    <3>1. M - i + 1 \in Nat \ {0} /\ x[i] = FromRight(h, M - i + 1)
      BY <1>1
    <3>2. QED
      BY <1>3, <3>1
  <2>2. QED
    BY <2>1
<1>5. x \in Seq(Nat) /\ Len(x) = M
  <2>1. DOMAIN x = 1 .. M /\ x = [i \in 1 .. M |-> x[i]]
    OBVIOUS
  <2>2. \A i \in 1 .. M : x[i] \in Nat
    BY <1>4
  <2> HIDE DEF x
  <2>3. x \in [1 .. M -> Nat]
    BY <2>1, <2>2
  <2>4. x \in Seq(Nat)
    BY <1>1, <2>3, SeqDef
  <2>5. QED
    BY <1>1, <2>1, <2>4, LenProperties
<1>6. Horner(16, x)[Len(x)] = Horner(16, h)[Len(h)]
  <2> DEFINE z == M - L
             w == 16
  <2>1. z \in Nat /\ Len(x) = z + Len(h) /\ w \in Nat
    BY <1>1, <1>5 DEF L
  <2>2. ASSUME NEW i \in 1 .. z PROVE x[i] = 0
    <3>1. i \in 1 .. M /\ ~ (M - i + 1 <= L)
      BY <1>1
    <3>2. QED
      BY <3>1 DEF FromRight, L
  <2>3. ASSUME NEW i \in 1 .. Len(h) PROVE x[z + i] = h[i]
    <3>1. z + i \in 1 .. M /\ M - (z + i) + 1 <= L /\ L - (M - (z + i) + 1) + 1 = i
      BY <1>1 DEF L
    <3>2. x[z + i] = FromRight(h, M - (z + i) + 1)
      BY <3>1
    <3> HIDE DEF z
    <3>3. QED
      BY <3>1, <3>2 DEF FromRight, L
  <2> HIDE DEF x, z, w
  <2>4. Horner(w, x)[Len(x)] = Horner(w, h)[Len(h)]
    BY <1>1, <1>5, <2>1, <2>2, <2>3, ZerosInFront
  <2>5. QED
    BY <2>4 DEF w
<1>7. \A b \in 1 .. N : u[b] = 16 * x[2 * b - 1] + x[2 * b] /\ 2 * b - 1 \in 1 .. M /\ 2 * b \in 1 .. M
  <2>1. ASSUME NEW b \in 1 .. N
        PROVE  u[b] = 16 * x[2 * b - 1] + x[2 * b] /\ 2 * b - 1 \in 1 .. M /\ 2 * b \in 1 .. M
    <3>1. 2 * b - 1 \in 1 .. M /\ 2 * b \in 1 .. M
      BY DEF M
    <3>2. M - (2 * b - 1) + 1 = 2 * (N - b) + 2 /\ M - 2 * b + 1 = 2 * (N - b) + 1
      BY DEF M
    <3>3. x[2 * b - 1] = FromRight(h, M - (2 * b - 1) + 1) /\ x[2 * b] = FromRight(h, M - 2 * b + 1)
      BY <3>1
    <3>4. u[b] = 16 * FromRight(h, 2 * (N - b) + 2) + FromRight(h, 2 * (N - b) + 1)
      BY DEF UintFromHex
    <3> HIDE DEF x, u
    <3>5. QED
      BY <3>1, <3>2, <3>3, <3>4
  <2>2. QED
    BY <2>1
<1>8. u \in Seq(Bytes) /\ Len(u) = N
  <2>1. DOMAIN u = 1 .. N /\ u = [b \in 1 .. N |-> u[b]]
    BY DEF UintFromHex
  <2> HIDE DEF u, x
  <2>2. ASSUME NEW b \in 1 .. N PROVE u[b] \in Bytes
    <3> DEFINE p == x[2 * b - 1]
               q == x[2 * b]
    <3>1. p \in 0 .. 15 /\ q \in 0 .. 15 /\ u[b] = 16 * p + q
      BY <1>4, <1>7
    <3> HIDE DEF p, q
    <3>2. QED
      BY <3>1 DEF Bytes
  <2>3. u \in [1 .. N -> Bytes]
    BY <2>1, <2>2
  <2>4. u \in Seq(Bytes)
    BY <2>3, SeqDef
  <2>5. Len(u) = N
    BY <2>1, <2>4, LenProperties
  <2>6. QED
    BY <2>4, <2>5
<1>9. Horner(256, u)[N] = Horner(16, x)[M]
  <2> DEFINE X == Horner(16, x)
             Y == Horner(256, u)
             S == {b \in 0 .. N : Y[b] = X[2 * b]}
  <2>1. /\ X[0] = 0 /\ \A n \in 1 .. M : X[n] = 16 * X[n - 1] + x[n]
        /\ \A n \in 0 .. M : X[n] \in Nat
    <3> DEFINE w == 16
    <3>1. w \in Nat
      OBVIOUS
    <3> HIDE DEF w, x
    <3>2. /\ Horner(w, x)[0] = 0 /\ \A n \in 1 .. M : Horner(w, x)[n] = w * Horner(w, x)[n - 1] + x[n]
          /\ \A n \in 0 .. M : Horner(w, x)[n] \in Nat
      BY <1>5, <3>1, Horners
    <3>3. QED
      BY <3>2 DEF w
  <2>2. Y[0] = 0 /\ \A n \in 1 .. N : Y[n] = 256 * Y[n - 1] + u[n]
    <3> DEFINE w == 256
    <3>1. w \in Nat /\ u \in Seq(Nat)
      BY <1>8, BytesAreNumbers
    <3> HIDE DEF w, u
    <3>2. Horner(w, u)[0] = 0 /\ \A n \in 1 .. N : Horner(w, u)[n] = w * Horner(w, u)[n - 1] + u[n]
      BY <1>8, <3>1, Horners
    <3>3. QED
      BY <3>2 DEF w
  <2> HIDE DEF X, Y, x, u
  <2>3. 0 \in S
    <3>1. 2 * 0 = 0 /\ 0 \in 0 .. N
      OBVIOUS
    <3>2. QED
      BY <2>1, <2>2, <3>1
  <2>4. ASSUME NEW b \in 0 .. N - 1, b \in S PROVE b + 1 \in S
    <3> DEFINE c == b + 1
    <3>1. c \in 1 .. N /\ c \in 0 .. N /\ c - 1 = b /\ 2 * c - 1 - 1 = 2 * b
      OBVIOUS
    <3>2. 2 * c - 1 \in 1 .. M /\ 2 * c \in 1 .. M /\ u[c] = 16 * x[2 * c - 1] + x[2 * c]
      BY <1>7, <3>1
    <3>3. X[2 * c] = 16 * X[2 * c - 1] + x[2 * c]
      BY <2>1, <3>2
    <3>4. X[2 * c - 1] = 16 * X[2 * b] + x[2 * c - 1]
      <4> DEFINE m == 2 * c - 1
      <4>1. m \in 1 .. M /\ m - 1 = 2 * b
        BY <3>1, <3>2
      <4> HIDE DEF m
      <4>2. X[m] = 16 * X[2 * b] + x[m]
        BY <2>1, <4>1
      <4>3. QED
        BY <4>2 DEF m
    <3>5. Y[c] = 256 * X[2 * b] + u[c]
      BY <2>2, <2>4, <3>1
    <3>6. 2 * b \in 0 .. M
      BY DEF M
    <3> DEFINE v == X[2 * b]
               p == x[2 * c - 1]
               q == x[2 * c]
    <3>7. v \in Nat /\ p \in 0 .. 15 /\ q \in 0 .. 15
      BY <1>4, <2>1, <3>2, <3>6
    <3> HIDE DEF c, v, p, q
    <3>8. 256 * v + (16 * p + q) = 16 * (16 * v + p) + q
      BY <3>7
    <3>9. Y[c] = X[2 * c]
      BY <3>2, <3>3, <3>4, <3>5, <3>8 DEF v, p, q
    <3>10. QED
      BY <3>1, <3>9 DEF c
  <2> HIDE DEF S
  <2>5. N \in S
    <3>1. N \in 0 .. N
      OBVIOUS
    <3>2. QED
      BY <2>3, <2>4, <3>1, InductiveUpTo
  <2>6. QED
    BY <2>5 DEF S, X, Y, M
<1>10. QED
  BY <1>5, <1>6, <1>8, <1>9 DEF NumberIn, ValueOfHex, L

(* What an input is encoded as. *)
RlpInv ==
  /\ input \in Inputs
  /\ input.kind = "string" /\ output # Fails => output = RlpBytes(input.value)
  /\ input.kind = "quantity" /\ output # Fails => output = RlpQuantity(input.value)
  /\ input.kind = "tx" /\ txRow # NoRow =>
       /\ output = SignedTransaction(input.value) /\ output # Fails
       /\ txRow = TransactionRow(input.value, TRUE)

LEMMA RlpInvariant == RlpSpec => []RlpInv
<1>1. RlpInit => RlpInv
  BY DEF RlpInit, RlpInv
<1>2. RlpInv /\ [Encode]_rlpVars => RlpInv'
  <2>1. RlpInv /\ UNCHANGED rlpVars => RlpInv'
    BY DEF RlpInv, rlpVars, Inputs, Fails
  <2>2. RlpInv /\ Encode => RlpInv'
    <3> SUFFICES ASSUME RlpInv, Encode PROVE RlpInv'
      OBVIOUS
    <3>1. input' = input /\ input \in Inputs /\ (input \in Inputs)'
      BY DEF Encode, RlpInv, Inputs
    <3>2. CASE EncodeString
      BY <3>1, <3>2 DEF EncodeString, RlpInv
    <3>3. CASE EncodeQuantity
      BY <3>1, <3>3 DEF EncodeQuantity, RlpInv
    <3>4. CASE RegularTx
      BY <3>1, <3>4 DEF RegularTx, RlpInv
    <3>5. CASE UnsignedTx
      BY <3>1, <3>5 DEF UnsignedTx, RlpInv
    <3>6. QED
      BY <3>2, <3>3, <3>4, <3>5 DEF Encode
  <2>3. QED
    BY <2>1, <2>2
<1>3. QED
  BY <1>1, <1>2, PTL DEF RlpSpec

(* What is read at the beginning of an encoding that fills all of e. *)
LEMMA ReadWhole ==
  ASSUME RlpAssumption, NEW p \in Seq(Bytes), Len(p) \in 0 .. MaxLength, NEW r, r = RlpBytes(p)
  PROVE  LET item == ItemAt(r, 1)
         IN  item.list = FALSE /\ item.last = Len(r) /\ Payload(r, item) = p
<1>1. r \in Seq(Bytes) /\ Len(r) \in Nat
  BY BytesReadBack
<1>2. \A e \in Seq(Bytes), o \in Nat : Stands(r, e, o) => ReadsAs(e, o, FALSE, o + Len(r), p)
  BY BytesReadBack
<1> DEFINE z == 0
<1>3. z \in Nat /\ z + 1 = 1 /\ z + Len(r) = Len(r) /\ \A j \in 1 .. Len(r) : z + j = j
  BY <1>1
<1> HIDE DEF z
<1>4. Stands(r, r, z)
  BY <1>3 DEF Stands
<1>5. ReadsAs(r, z, FALSE, z + Len(r), p)
  BY <1>1, <1>2, <1>3, <1>4
<1>6. QED
  BY <1>3, <1>5 DEF ReadsAs

(***************************************************************************)
(* rlp_bytes and rlp_quantity: what they write is read back by the         *)
(* definition of RLP, for byte strings of any length a line can have: the  *)
(* bytes themselves, or the number that the digits stand for, without      *)
(* leading zeros.                                                          *)
(***************************************************************************)
THEOREM RlpItemsDecode ==
  ASSUME RlpAssumption PROVE RlpSpec => []ItemsDecode
<1>1. RlpInv => ItemsDecode
  <2> SUFFICES ASSUME RlpInv, output # Fails
               PROVE  LET item == ItemAt(output, 1)
                          payload == Payload(output, item)
                      IN  /\ input.kind = "string" =>
                               ~ item.list /\ item.last = Len(output) /\ payload = input.value
                          /\ input.kind = "quantity" =>
                               /\ ~ item.list /\ item.last = Len(output)
                               /\ NumberIn(payload) = ValueOfHex(input.value)
                               /\ payload # << >> => payload[1] # 0
    BY DEF ItemsDecode
  <2> DEFINE h == input.value
             item == ItemAt(output, 1)
             payload == Payload(output, item)
  <2>1. CASE input.kind = "string"
    <3>1. h \in Strings /\ output = RlpBytes(h)
      BY <2>1 DEF RlpInv, Inputs
    <3> HIDE DEF h
    <3>2. h \in Seq(Bytes) /\ Len(h) \in 0 .. MaxLength
      <4>1. h \in Seq(Bytes) /\ Len(h) <= MaxLength
        BY <3>1 DEF RlpAssumption, Bytes
      <4>2. MaxLength \in Nat
        BY MaxLengthIsNumber
      <4>3. QED
        BY <4>1, <4>2, LenProperties
    <3>3. item.list = FALSE /\ item.last = Len(output) /\ payload = h
      BY <3>1, <3>2, ReadWhole
    <3>4. QED
      BY <2>1, <3>3 DEF h
  <2>2. CASE input.kind = "quantity"
    <3>1. h \in HexStrings /\ output = RlpQuantity(h)
      BY <2>2 DEF RlpInv, Inputs
    <3> HIDE DEF h
    <3>2. h \in Seq(0 .. 16) /\ N \in Nat
      BY <3>1 DEF RlpAssumption
    <3>3. ~ (Len(h) > 2 * N) /\ IsHex(h) /\ output = RlpBytes(Stripped(UintFromHex(h)))
      BY <3>1 DEF RlpQuantity
    <3> DEFINE u == UintFromHex(h)
               p == Stripped(u)
    <3>4. u \in Seq(Bytes) /\ Len(u) = N /\ NumberIn(u) = ValueOfHex(h)
      <4>1. Len(h) <= 2 * N
        BY <3>2, <3>3, LenProperties
      <4>2. QED
        BY <3>2, <3>3, <4>1, QuantityReads
    <3> HIDE DEF u
    <3>5. /\ p \in Seq(Bytes) /\ Len(p) \in 0 .. N
          /\ NumberIn(p) = ValueOfHex(h)
          /\ p # << >> => p[1] # 0
      BY <3>4, StrippedReads
    <3>6. output = RlpBytes(p)
      BY <3>3 DEF u
    <3> HIDE DEF p
    <3>7. Len(p) \in 0 .. MaxLength
      <4>1. N <= MaxLength /\ MaxLength \in Int
        BY MaxLengthIsNumber DEF RlpAssumption
      <4>2. QED
        BY <3>2, <3>5, <4>1
    <3>8. item.list = FALSE /\ item.last = Len(output) /\ payload = p
      BY <3>5, <3>6, <3>7, ReadWhole
    <3> HIDE DEF item, payload
    <3>9. NumberIn(payload) = ValueOfHex(input.value) /\ (payload # << >> => payload[1] # 0)
      <4>1. payload = p
        BY <3>8
      <4>2. NumberIn(payload) = ValueOfHex(h)
        BY <3>5, <4>1
      <4>3. payload # << >> => payload[1] # 0
        BY <3>5, <4>1
      <4>4. QED
        BY <4>2, <4>3 DEF h
    <3>10. ~ (input.kind = "string")
      BY <2>2
    <3>11. QED
      BY <3>8, <3>9, <3>10 DEF item, payload
  <2>3. QED
    BY <2>1, <2>2
<1>2. QED
  BY <1>1, RlpInvariant, PTL

-----------------------------------------------------------------------------
(* A transaction on its two ways.                                          *)

(* Lists, one behind the other.                                            *)
Flattening(lists) ==
  LET flatten[i \in 1 .. Len(lists)] ==
        IF i = 1 THEN lists[i] ELSE flatten[i - 1] \o lists[i]
  IN  flatten

FirstOf(lists, n) == IF n = 0 THEN << >> ELSE Flattening(lists)[n]

LEMMA FlatteningExists ==
  ASSUME NEW U \in Nat, NEW F
  PROVE  \E g : g = [i \in 1 .. U |-> IF i = 1 THEN F[i] ELSE g[i - 1] \o F[i]]
<1> DEFINE Is(g, m) == g = [i \in 1 .. m |-> IF i = 1 THEN F[i] ELSE g[i - 1] \o F[i]]
           S == {m \in Nat : \E g : Is(g, m)}
<1>1. 0 \in S
  <2>1. Is([i \in 1 .. 0 |-> 0], 0)
    OBVIOUS
  <2>2. QED
    BY <2>1
<1>2. ASSUME NEW m \in 0 .. U - 1, m \in S PROVE m + 1 \in S
  <2>1. PICK g : Is(g, m)
    BY <1>2
  <2> DEFINE new == IF m = 0 THEN F[1] ELSE g[m] \o F[m + 1]
             h == [i \in 1 .. m + 1 |-> IF i = m + 1 THEN new ELSE g[i]]
  <2> HIDE DEF new
  <2>2. \A i \in 1 .. m : h[i] = g[i]
    OBVIOUS
  <2>3. ASSUME NEW i \in 1 .. m + 1 PROVE h[i] = IF i = 1 THEN F[i] ELSE h[i - 1] \o F[i]
    <3>1. CASE i = m + 1
      <4>1. h[i] = new
        BY <3>1
      <4>2. m # 0 => h[i - 1] = g[m]
        BY <2>2, <3>1
      <4> HIDE DEF h
      <4>3. QED
        BY <3>1, <4>1, <4>2 DEF new
    <3>2. CASE i \in 1 .. m
      <4>1. g[i] = IF i = 1 THEN F[i] ELSE g[i - 1] \o F[i]
        BY <2>1, <3>2
      <4>2. i # 1 => h[i - 1] = g[i - 1]
        BY <2>2, <3>2
      <4>3. h[i] = g[i]
        BY <2>2, <3>2
      <4> HIDE DEF h
      <4>4. QED
        BY <4>1, <4>2, <4>3
    <3>3. QED
      BY <3>1, <3>2
  <2>4. Is(h, m + 1)
    <3>1. h = [i \in 1 .. m + 1 |-> h[i]]
      OBVIOUS
    <3> HIDE DEF h
    <3>2. QED
      BY <2>3, <3>1
  <2> HIDE DEF Is, h
  <2>5. m + 1 \in Nat /\ \E f : Is(f, m + 1)
    BY <2>4
  <2>6. QED
    BY <2>5
<1> HIDE DEF S
<1>3. U \in S
  BY <1>1, <1>2, InductiveUpTo
<1>4. QED
  BY <1>3 DEF S

LEMMA FlatteningUnfolds ==
  ASSUME NEW lists, Len(lists) \in Nat
  PROVE  \A i \in 1 .. Len(lists) :
           Flattening(lists)[i]
             = IF i = 1 THEN lists[i] ELSE Flattening(lists)[i - 1] \o lists[i]
<1> DEFINE Is(g) == g = [i \in 1 .. Len(lists) |->
                           IF i = 1 THEN lists[i] ELSE g[i - 1] \o lists[i]]
<1>1. \E g : Is(g)
  BY FlatteningExists
<1>2. Flattening(lists) = CHOOSE g : Is(g)
  BY DEF Flattening
<1> HIDE DEF Is
<1>3. Is(Flattening(lists))
  BY <1>1, <1>2
<1>4. QED
  BY <1>3 DEF Is

LEMMA FirstOfLists ==
  ASSUME NEW S, NEW lists \in Seq(Seq(S))
  PROVE  /\ FirstOf(lists, 0) = << >>
         /\ \A n \in 0 .. Len(lists) : FirstOf(lists, n) \in Seq(S)
         /\ \A n \in 0 .. Len(lists) - 1 : FirstOf(lists, n + 1) = FirstOf(lists, n) \o lists[n + 1]
         /\ FlattenSeq(lists) = FirstOf(lists, Len(lists))
<1> DEFINE U == Len(lists)
           bad == {n \in 0 .. U : FirstOf(lists, n) \notin Seq(S)}
<1>1. U \in Nat
  BY LenProperties
<1>2. FirstOf(lists, 0) = << >>
  BY DEF FirstOf
<1>3. ASSUME NEW n \in 0 .. U - 1 PROVE FirstOf(lists, n + 1) = FirstOf(lists, n) \o lists[n + 1]
  <2>1. n + 1 \in 1 .. U /\ n + 1 # 0 /\ n + 1 - 1 = n /\ (n + 1 = 1 <=> n = 0)
    BY <1>1
  <2>2. lists[n + 1] \in Seq(S)
    BY <2>1, ElementOfSeq
  <2>3. FirstOf(lists, n + 1)
          = IF n = 0 THEN lists[n + 1] ELSE Flattening(lists)[n] \o lists[n + 1]
    BY <1>1, <2>1, FlatteningUnfolds DEF FirstOf
  <2>4. << >> \o lists[n + 1] = lists[n + 1]
    BY <2>2, ConcatEmptySeq
  <2>5. QED
    BY <2>3, <2>4 DEF FirstOf
<1>4. ASSUME NEW n \in 0 .. U PROVE FirstOf(lists, n) \in Seq(S)
  <2> SUFFICES ASSUME bad # {} PROVE FALSE
    OBVIOUS
  <2>1. bad \subseteq Nat
    OBVIOUS
  <2>2. PICK i \in bad : \A j \in bad : i <= j
    BY <2>1, LeastNat
  <2>3. i # 0
    <3>1. << >> \in Seq(S)
      BY EmptySeq
    <3>2. QED
      BY <1>2, <2>2, <3>1
  <2>4. i - 1 \in 0 .. U - 1 /\ i - 1 \in 0 .. U /\ i - 1 \notin bad /\ i - 1 + 1 = i /\ i \in 1 .. U
    BY <1>1, <2>1, <2>2, <2>3
  <2>5. FirstOf(lists, i) = FirstOf(lists, i - 1) \o lists[i]
    BY <1>3, <2>4
  <2>6. FirstOf(lists, i - 1) \in Seq(S) /\ lists[i] \in Seq(S)
    BY <2>4, ElementOfSeq
  <2>7. FirstOf(lists, i) \in Seq(S)
    BY <2>5, <2>6, ConcatProperties
  <2>8. QED
    BY <2>2, <2>7
<1>5. FlattenSeq(lists) = FirstOf(lists, U)
  <2>1. CASE U = 0
    <3>1. lists = << >>
      BY <2>1, EmptySeq
    <3>2. QED
      BY <2>1, <3>1 DEF FlattenSeq, FirstOf
  <2>2. CASE U # 0
    BY <2>2 DEF FlattenSeq, FirstOf, Flattening
  <2>3. QED
    BY <2>1, <2>2
<1>6. QED
  BY <1>2, <1>3, <1>4, <1>5


(* Each list stands in the whole, behind the lists before it.              *)
LEMMA ListsStand ==
  ASSUME NEW S, NEW lists \in Seq(Seq(S)), NEW U, U = Len(lists)
  PROVE  /\ \A n \in 0 .. U : FirstOf(lists, n) \in Seq(S) /\ Len(FirstOf(lists, n)) \in Nat
         /\ \A n \in 1 .. U :
              /\ Len(FirstOf(lists, n)) = Len(FirstOf(lists, n - 1)) + Len(lists[n])
              /\ lists[n] \in Seq(S) /\ Len(lists[n]) \in Nat
              /\ Stands(lists[n], FlattenSeq(lists), Len(FirstOf(lists, n - 1)))
              /\ Len(FirstOf(lists, n)) <= Len(FlattenSeq(lists))
         /\ FlattenSeq(lists) = FirstOf(lists, U) /\ FirstOf(lists, 0) = << >>
<1> DEFINE F(n) == FirstOf(lists, n)
           at(n) == Len(F(n))
<1>1. U \in Nat
  BY LenProperties
<1>2. /\ F(0) = << >> /\ FlattenSeq(lists) = F(U)
      /\ \A n \in 0 .. U : F(n) \in Seq(S)
      /\ \A n \in 0 .. U - 1 : F(n + 1) = F(n) \o lists[n + 1]
  BY FirstOfLists
<1>3. ASSUME NEW n \in 0 .. U PROVE at(n) \in Nat
  BY <1>2, LenProperties
<1>4. ASSUME NEW n \in 1 .. U
      PROVE  /\ n - 1 \in 0 .. U /\ n \in 0 .. U /\ lists[n] \in Seq(S) /\ Len(lists[n]) \in Nat
             /\ at(n) = at(n - 1) + Len(lists[n])
             /\ \A i \in 1 .. at(n - 1) : F(n)[i] = F(n - 1)[i]
             /\ \A i \in 1 .. Len(lists[n]) : F(n)[at(n - 1) + i] = lists[n][i]
  <2>1. n - 1 \in 0 .. U - 1 /\ n - 1 \in 0 .. U /\ n - 1 + 1 = n /\ n \in 0 .. U
    BY <1>1
  <2>2. lists[n] \in Seq(S) /\ Len(lists[n]) \in Nat
    <3>1. lists[n] \in Seq(S)
      BY ElementOfSeq
    <3>2. QED
      BY <3>1, LenProperties
  <2> DEFINE x == F(n - 1)
             y == lists[n]
  <2>3. F(n) = x \o y
    BY <1>2, <2>1
  <2>4. x \in Seq(S) /\ y \in Seq(S) /\ Len(x) \in Nat /\ Len(y) \in Nat
    BY <1>2, <1>3, <2>1, <2>2
  <2> HIDE DEF x, y
  <2>5. /\ Len(x \o y) = Len(x) + Len(y)
        /\ \A i \in 1 .. Len(x) + Len(y) : (x \o y)[i] = IF i <= Len(x) THEN x[i] ELSE y[i - Len(x)]
    BY <2>4, ConcatProperties
  <2>6. \A i \in 1 .. Len(x) : (x \o y)[i] = x[i]
    BY <2>4, <2>5
  <2>7. ASSUME NEW i \in 1 .. Len(y) PROVE (x \o y)[Len(x) + i] = y[i]
    <3>1. Len(x) + i \in 1 .. Len(x) + Len(y) /\ ~ (Len(x) + i <= Len(x)) /\ (Len(x) + i) - Len(x) = i
      BY <2>4
    <3>2. QED
      BY <2>5, <3>1
  <2>8. QED
    BY <2>1, <2>2, <2>3, <2>5, <2>6, <2>7 DEF x, y
<1> DEFINE Keeps(m) == \A n \in 1 .. U : n <= m =>
                         Stands(lists[n], F(m), at(n - 1)) /\ at(n) <= at(m)
           T == {m \in 0 .. U : Keeps(m)}
<1> HIDE DEF F
<1>5. 0 \in T
  BY <1>1
<1>6. ASSUME NEW m \in 0 .. U - 1, m \in T PROVE m + 1 \in T
  <2> DEFINE k == m + 1
  <2>1. k \in 1 .. U /\ k \in 0 .. U /\ k - 1 = m
    BY <1>1
  <2> HIDE DEF k
  <2>2. /\ at(k) = at(m) + Len(lists[k]) /\ at(m) \in Nat /\ Len(lists[k]) \in Nat
        /\ \A i \in 1 .. at(m) : F(k)[i] = F(m)[i]
        /\ \A i \in 1 .. Len(lists[k]) : F(k)[at(m) + i] = lists[k][i]
    BY <1>1, <1>3, <1>4, <2>1
  <2>3. ASSUME NEW n \in 1 .. U, n <= k
        PROVE  Stands(lists[n], F(k), at(n - 1)) /\ at(n) <= at(k)
    <3>1. CASE n = k
      BY <2>1, <2>2, <3>1 DEF Stands
    <3>2. CASE n # k
      <4>1. n <= m
        BY <2>1, <2>3, <3>2
      <4>2. Stands(lists[n], F(m), at(n - 1)) /\ at(n) <= at(m)
        BY <1>6, <4>1
      <4>3. at(n - 1) \in Nat /\ at(n) \in Nat /\ at(n) = at(n - 1) + Len(lists[n]) /\ Len(lists[n]) \in Nat
        BY <1>3, <1>4
      <4> HIDE DEF at
      <4>4. ASSUME NEW j \in 1 .. Len(lists[n]) PROVE F(k)[at(n - 1) + j] = lists[n][j]
        <5>1. at(n - 1) + j \in 1 .. at(m)
          <6> DEFINE a == at(n - 1)
                     b == at(n)
                     c == at(m)
                     l == Len(lists[n])
          <6>1. a \in Nat /\ b = a + l /\ b <= c /\ c \in Nat /\ l \in Nat /\ j \in 1 .. l
            BY <2>2, <4>2, <4>3
          <6> HIDE DEF a, b, c, l
          <6>2. a + j \in 1 .. c
            BY <6>1
          <6>3. QED
            BY <6>2 DEF a, c
        <5>2. F(m)[at(n - 1) + j] = lists[n][j]
          BY <4>2 DEF Stands
        <5>3. QED
          BY <2>2, <5>1, <5>2
      <4>5. at(n) <= at(k)
        BY <2>2, <4>2, <4>3
      <4>6. QED
        BY <4>4, <4>5 DEF Stands
    <3>3. QED
      BY <3>1, <3>2
  <2>4. QED
    BY <2>1, <2>3 DEF k
<1> HIDE DEF T
<1>7. U \in T
  <2>1. 0 .. U \subseteq T
    BY ONLY <1>1, <1>5, <1>6, InductiveUpTo
  <2>2. U \in 0 .. U
    BY <1>1
  <2>3. QED
    BY <2>1, <2>2
<1>8. ASSUME NEW n \in 1 .. U PROVE Stands(lists[n], F(U), at(n - 1)) /\ at(n) <= at(U)
  BY <1>1, <1>7 DEF T
<1>9. QED
  BY <1>2, <1>3, <1>4, <1>8 DEF F

(* A function that refers to later places only exists.                     *)
Backward(g, U, Next, Head1, End) ==
  g = [i \in 1 .. U + 1 |->
         IF i <= U /\ Next[i] \in i .. U THEN Head1[i] \o g[Next[i] + 1] ELSE End[i]]

LEMMA BackwardExists ==
  ASSUME NEW U \in Nat, NEW Next, NEW Head1, NEW End
  PROVE  \E g : Backward(g, U, Next, Head1, End)
<1> DEFINE Is(g, lo) == g = [i \in lo .. U + 1 |->
                               IF i <= U /\ Next[i] \in i .. U THEN Head1[i] \o g[Next[i] + 1]
                               ELSE End[i]]
           S == {m \in 0 .. U : \E g : Is(g, U + 1 - m)}
<1>1. 0 \in S
  <2> DEFINE h == [i \in U + 1 .. U + 1 |-> End[i]]
  <2>1. \A i \in U + 1 .. U + 1 : ~ (i <= U) /\ h[i] = End[i]
    OBVIOUS
  <2>2. h = [i \in U + 1 .. U + 1 |-> h[i]]
    OBVIOUS
  <2> HIDE DEF h
  <2>3. Is(h, U + 1)
    BY <2>1, <2>2
  <2>4. U + 1 - 0 = U + 1 /\ 0 \in 0 .. U
    OBVIOUS
  <2> HIDE DEF Is
  <2>5. QED
    BY <2>3, <2>4
<1>2. ASSUME NEW m \in 0 .. U - 1, m \in S PROVE m + 1 \in S
  <2> DEFINE lo == U - m
  <2>1. lo \in 1 .. U /\ U + 1 - m = lo + 1 /\ U + 1 - (m + 1) = lo /\ m + 1 \in 0 .. U
    OBVIOUS
  <2>2. PICK g : Is(g, lo + 1)
    BY <1>2, <2>1
  <2> HIDE DEF lo
  <2> DEFINE new == IF lo <= U /\ Next[lo] \in lo .. U THEN Head1[lo] \o g[Next[lo] + 1] ELSE End[lo]
             h == [i \in lo .. U + 1 |-> IF i = lo THEN new ELSE g[i]]
  <2> HIDE DEF new
  <2>3. /\ \A i \in lo + 1 .. U + 1 : h[i] = g[i]
        /\ h[lo] = new /\ h = [i \in lo .. U + 1 |-> h[i]]
    BY <2>1
  <2> HIDE DEF h
  <2>4. ASSUME NEW i \in lo .. U + 1
        PROVE  h[i] = IF i <= U /\ Next[i] \in i .. U THEN Head1[i] \o h[Next[i] + 1] ELSE End[i]
    <3>1. i <= U /\ Next[i] \in i .. U => Next[i] + 1 \in lo + 1 .. U + 1
      BY <2>1
    <3>2. i <= U /\ Next[i] \in i .. U => h[Next[i] + 1] = g[Next[i] + 1]
      BY <2>3, <3>1
    <3>3. CASE i = lo
      BY <2>3, <3>2, <3>3 DEF new
    <3>4. CASE i # lo
      <4>1. i \in lo + 1 .. U + 1
        BY <2>1, <3>4
      <4>2. g[i] = IF i <= U /\ Next[i] \in i .. U THEN Head1[i] \o g[Next[i] + 1] ELSE End[i]
        BY <2>2, <4>1
      <4>3. QED
        BY <2>3, <3>2, <4>1, <4>2
    <3>5. QED
      BY <3>3, <3>4
  <2>5. Is(h, lo)
    BY <2>3, <2>4
  <2> HIDE DEF Is
  <2>6. QED
    BY <2>1, <2>5
<1>3. U \in S
  <2> HIDE DEF S
  <2>1. 0 .. U \subseteq S
    BY <1>1, <1>2, InductiveUpTo
  <2>2. QED
    BY <2>1
<1>4. U + 1 - U = 1
  OBVIOUS
<1> HIDE DEF Is
<1>5. \E g : Is(g, 1)
  BY <1>3, <1>4
<1>6. QED
  BY <1>5 DEF Is, Backward

(* The items from a place on.                                              *)
ItemsFrom(e) ==
  LET rest[i \in 1 .. Len(e) + 1] ==
        IF IsItem(e, i) THEN <<Payload(e, ItemAt(e, i))>> \o rest[ItemAt(e, i).last + 1]
        ELSE IF i <= Len(e) THEN <<None>> ELSE << >>
  IN  rest

LEMMA ItemsUnfold ==
  ASSUME NEW e, Len(e) \in Nat
  PROVE  /\ Items(e) = ItemsFrom(e)[1] /\ ItemsFrom(e)[Len(e) + 1] = << >>
         /\ \A i \in 1 .. Len(e) : IsItem(e, i) =>
              ItemsFrom(e)[i] = <<Payload(e, ItemAt(e, i))>> \o ItemsFrom(e)[ItemAt(e, i).last + 1]
<1> DEFINE U == Len(e)
           D == 1 .. U + 1
           Next == [i \in D |-> ItemAt(e, i).last]
           Head1 == [i \in D |-> <<Payload(e, ItemAt(e, i))>>]
           End == [i \in D |-> IF i <= U THEN <<None>> ELSE << >>]
           Is(g) == g = [i \in D |->
                           IF IsItem(e, i) THEN <<Payload(e, ItemAt(e, i))>> \o g[ItemAt(e, i).last + 1]
                           ELSE IF i <= U THEN <<None>> ELSE << >>]
           R == ItemsFrom(e)
<1>1. \E g : Is(g)
  <2>1. PICK g : Backward(g, U, Next, Head1, End)
    <3> HIDE DEF U, Next, Head1, End
    <3>1. U \in Nat
      BY DEF U
    <3>2. QED
      BY <3>1, BackwardExists
  <2>2. \A i \in D : /\ Next[i] = ItemAt(e, i).last /\ Head1[i] = <<Payload(e, ItemAt(e, i))>>
                     /\ End[i] = IF i <= U THEN <<None>> ELSE << >>
    OBVIOUS
  <2>3. \A i \in D : g[i] = IF i <= U /\ Next[i] \in i .. U THEN Head1[i] \o g[Next[i] + 1] ELSE End[i]
    BY <2>1 DEF Backward
  <2>4. \A i \in D : IsItem(e, i) <=> i <= U /\ ItemAt(e, i).last \in i .. U
    BY DEF IsItem
  <2>5. g = [i \in D |-> g[i]]
    BY <2>1 DEF Backward
  <2> HIDE DEF U, Next, Head1, End, D
  <2>6. \A i \in D : g[i] = IF IsItem(e, i) THEN <<Payload(e, ItemAt(e, i))>> \o g[ItemAt(e, i).last + 1]
                            ELSE IF i <= U THEN <<None>> ELSE << >>
    BY <2>2, <2>3, <2>4
  <2>7. Is(g)
    BY <2>5, <2>6
  <2> HIDE DEF Is
  <2>8. QED
    BY <2>7
<1>2. R = CHOOSE g : Is(g)
  BY DEF ItemsFrom
<1>3. Items(e) = R[1]
  BY DEF Items, ItemsFrom
<1> HIDE DEF Is, R
<1>4. Is(R)
  BY <1>1, <1>2
<1>5. U + 1 \in D /\ ~ (U + 1 <= U) /\ ~ IsItem(e, U + 1) /\ \A i \in 1 .. U : i \in D
  BY DEF IsItem
<1>6. \A i \in D : R[i] = IF IsItem(e, i) THEN <<Payload(e, ItemAt(e, i))>> \o R[ItemAt(e, i).last + 1]
                          ELSE IF i <= U THEN <<None>> ELSE << >>
  BY <1>4 DEF Is
<1> HIDE DEF U, D
<1>7. R[U + 1] = << >>
  BY <1>5, <1>6
<1>8. \A i \in 1 .. U : IsItem(e, i) => R[i] = <<Payload(e, ItemAt(e, i))>> \o R[ItemAt(e, i).last + 1]
  BY <1>5, <1>6
<1>9. QED
  BY <1>3, <1>7, <1>8 DEF R, U

(* x is an item with this payload, wherever it stands.                     *)
Encodes(x, list, p) ==
  /\ x \in Seq(Bytes) /\ Len(x) \in Nat \ {0} /\ p \in Seq(Bytes)
  /\ \A e \in Seq(Bytes), o \in Nat : Stands(x, e, o) => ReadsAs(e, o, list, o + Len(x), p)

LEMMA Tuples ==
  ASSUME NEW S, NEW m \in Nat, NEW f, f = [j \in 1 .. m |-> f[j]], \A j \in 1 .. m : f[j] \in S
  PROVE  f \in Seq(S) /\ Len(f) = m
<1>1. f \in [1 .. m -> S]
  OBVIOUS
<1>2. f \in Seq(S)
  BY <1>1, SeqDef
<1>3. DOMAIN f = 1 .. m
  OBVIOUS
<1>4. QED
  BY <1>2, <1>3, LenProperties

LEMMA Prepended ==
  ASSUME NEW S, NEW m \in Nat, NEW p \in S, NEW f \in Seq(S), Len(f) = m,
         NEW g \in Seq(S), Len(g) = m + 1, g[1] = p, \A j \in 1 .. m : g[j + 1] = f[j]
  PROVE  <<p>> \o f = g
<1> DEFINE x == <<p>>
<1>1. x \in Seq(S) /\ Len(x) = 1 /\ x[1] = p
  OBVIOUS
<1> HIDE DEF x
<1>2. /\ x \o f \in Seq(S) /\ Len(x \o f) = 1 + m
      /\ \A j \in 1 .. 1 + m : (x \o f)[j] = IF j <= 1 THEN x[j] ELSE f[j - 1]
  <2>1. f \in Seq(S) /\ Len(f) = m
    OBVIOUS
  <2>2. /\ x \o f \in Seq(S) /\ Len(x \o f) = Len(x) + Len(f)
        /\ \A j \in 1 .. Len(x) + Len(f) : (x \o f)[j] = IF j <= Len(x) THEN x[j] ELSE f[j - Len(x)]
    BY ONLY <1>1, <2>1, ConcatProperties
  <2>3. QED
    BY <1>1, <2>1, <2>2
<1>3. ASSUME NEW j \in 1 .. m + 1 PROVE (x \o f)[j] = g[j]
  <2>1. j \in 1 .. 1 + m
    OBVIOUS
  <2>2. CASE j = 1
    BY <1>1, <1>2, <2>1, <2>2
  <2>3. CASE j # 1
    <3>1. j - 1 \in 1 .. m /\ ~ (j <= 1) /\ (j - 1) + 1 = j
      BY <2>3
    <3>2. QED
      BY <1>2, <2>1, <3>1
  <2>4. QED
    BY <2>2, <2>3
<1>4. Len(x \o f) = m + 1
  BY <1>2
<1>5. x \o f = g
  BY <1>2, <1>3, <1>4, SeqEqual
<1>6. QED
  BY <1>5 DEF x

(* Items one behind the other are read one by one.                         *)
LEMMA ItemsRead ==
  ASSUME NEW xs \in Seq(Seq(Bytes)), NEW U, U = Len(xs), NEW kinds, NEW ps, ps = [k \in 1 .. U |-> ps[k]],
         \A k \in 1 .. U : Encodes(xs[k], kinds[k], ps[k])
  PROVE  Items(FlattenSeq(xs)) = ps
<1> DEFINE e == FlattenSeq(xs)
           at(n) == Len(FirstOf(xs, n))
           R == ItemsFrom(e)
           rest(m) == [j \in 1 .. m |-> ps[(U - m) + j]]
           T == {m \in 0 .. U : R[at(U - m) + 1] = rest(m)}
<1>1. U \in Nat
  BY LenProperties
<1>2. /\ e \in Seq(Bytes) /\ Len(e) = at(U) /\ at(0) = 0
      /\ \A n \in 0 .. U : at(n) \in Nat
      /\ \A n \in 1 .. U : /\ at(n) = at(n - 1) + Len(xs[n]) /\ Stands(xs[n], e, at(n - 1))
                           /\ at(n) <= Len(e)
  <2>1. xs \in Seq(Seq(Bytes)) /\ U = Len(xs)
    OBVIOUS
  <2>2. /\ \A n \in 0 .. U : FirstOf(xs, n) \in Seq(Bytes) /\ Len(FirstOf(xs, n)) \in Nat
        /\ \A n \in 1 .. U :
             /\ Len(FirstOf(xs, n)) = Len(FirstOf(xs, n - 1)) + Len(xs[n])
             /\ Stands(xs[n], FlattenSeq(xs), Len(FirstOf(xs, n - 1)))
             /\ Len(FirstOf(xs, n)) <= Len(FlattenSeq(xs))
        /\ FlattenSeq(xs) = FirstOf(xs, U) /\ FirstOf(xs, 0) = << >>
    BY ONLY <2>1, ListsStand
  <2>3. 0 \in 0 .. U /\ U \in 0 .. U
    BY <1>1
  <2>4. Len(<< >>) = 0
    BY EmptySeq
  <2>5. QED
    BY <2>2, <2>3, <2>4
<1> HIDE DEF e, at
<1>3. /\ Items(e) = R[1] /\ R[Len(e) + 1] = << >>
      /\ \A i \in 1 .. Len(e) : IsItem(e, i) =>
           R[i] = <<Payload(e, ItemAt(e, i))>> \o R[ItemAt(e, i).last + 1]
  <2>1. Len(e) \in Nat
    BY <1>2, LenProperties
  <2>2. QED
    BY <2>1, ItemsUnfold
<1> HIDE DEF R
<1>4. 0 \in T
  <2>1. U - 0 = U /\ 0 \in 0 .. U
    BY <1>1
  <2>2. rest(0) = << >>
    OBVIOUS
  <2> HIDE DEF rest
  <2>3. QED
    BY <1>2, <1>3, <2>1, <2>2
<1>5. ASSUME NEW m \in 0 .. U - 1, m \in T PROVE m + 1 \in T
  <2> DEFINE n == U - m
             o == at(n - 1)
             i == o + 1
             x == xs[n]
             p == ps[n]
  <2>1. n \in 1 .. U /\ U - (m + 1) = n - 1 /\ m + 1 \in 0 .. U /\ n - 1 \in 0 .. U
    BY <1>1
  <2>2. R[at(n) + 1] = rest(m)
    BY <1>5
  <2> HIDE DEF n
  <2>3. /\ at(n) = o + Len(x) /\ Stands(x, e, o) /\ o \in Nat
        /\ at(n) <= Len(e) /\ Encodes(x, kinds[n], p)
    BY <1>2, <2>1
  <2> HIDE DEF x, p, o
  <2>4. Len(x) \in Nat \ {0} /\ p \in Seq(Bytes) /\ ReadsAs(e, o, kinds[n], o + Len(x), p)
    BY <1>2, <2>3 DEF Encodes
  <2>5. ItemAt(e, i).last = at(n) /\ Payload(e, ItemAt(e, i)) = p
    BY <2>3, <2>4 DEF ReadsAs
  <2>6. at(n) \in i .. Len(e) /\ i <= Len(e) /\ i \in 1 .. Len(e)
    <3>1. Len(e) \in Nat
      BY <1>2, LenProperties
    <3>2. QED
      BY <2>3, <2>4, <3>1
  <2>7. IsItem(e, i)
    BY <2>5, <2>6 DEF IsItem
  <2>8. R[i] = <<p>> \o rest(m)
    <3> HIDE DEF i, rest
    <3>1. R[i] = <<Payload(e, ItemAt(e, i))>> \o R[ItemAt(e, i).last + 1]
      BY <1>3, <2>6, <2>7
    <3>2. QED
      BY <2>2, <2>5, <3>1
  <2>9. <<p>> \o rest(m) = rest(m + 1)
    <3>1. /\ rest(m) = [j \in 1 .. m |-> rest(m)[j]] /\ \A j \in 1 .. m : rest(m)[j] = ps[n + j]
          /\ rest(m + 1) = [j \in 1 .. m + 1 |-> rest(m + 1)[j]]
          /\ \A j \in 1 .. m + 1 : rest(m + 1)[j] = ps[(n - 1) + j]
      <4>1. n = U - m /\ n - 1 = U - (m + 1)
        BY <2>1 DEF n
      <4>2. QED
        BY <4>1
    <3> DEFINE f == rest(m)
               g == rest(m + 1)
               SB == Seq(Bytes)
    <3>2. m \in Nat /\ m + 1 \in Nat /\ n + m = U /\ n \in Nat
      BY <1>1 DEF n
    <3>3. /\ f = [j \in 1 .. m |-> f[j]] /\ \A j \in 1 .. m : f[j] = ps[n + j]
          /\ g = [j \in 1 .. m + 1 |-> g[j]] /\ \A j \in 1 .. m + 1 : g[j] = ps[(n - 1) + j]
      BY <3>1
    <3> HIDE DEF f, g, rest
    <3>4. \A k \in 1 .. U : ps[k] \in SB
      BY DEF Encodes
    <3>5. (\A j \in 1 .. m : f[j] \in SB) /\ (\A j \in 1 .. m + 1 : g[j] \in SB)
      <4>1. \A j \in 1 .. m : n + j \in 1 .. U
        BY <3>2
      <4>2. \A j \in 1 .. m + 1 : (n - 1) + j \in 1 .. U
        BY ONLY <1>1, <2>1, <3>2
      <4> HIDE DEF SB
      <4>3. QED
        BY <3>3, <3>4, <4>1, <4>2
    <3>6. p \in SB
      BY <2>4
    <3> HIDE DEF SB
    <3>7. f \in Seq(SB) /\ Len(f) = m /\ g \in Seq(SB) /\ Len(g) = m + 1
      <4>1. f \in Seq(SB) /\ Len(f) = m
        BY <3>2, <3>3, <3>5, Tuples
      <4>2. g \in Seq(SB) /\ Len(g) = m + 1
        BY <3>2, <3>3, <3>5, Tuples
      <4>3. QED
        BY <4>1, <4>2
    <3>8. g[1] = p
      <4>1. 1 \in 1 .. m + 1 /\ (n - 1) + 1 = n
        BY <3>2
      <4>2. QED
        BY <3>3, <4>1 DEF p
    <3>9. ASSUME NEW j \in 1 .. m PROVE g[j + 1] = f[j]
      <4>1. j \in 1 .. m
        OBVIOUS
      <4>2. j + 1 \in 1 .. m + 1 /\ (n - 1) + (j + 1) = n + j
        BY ONLY <3>2, <4>1
      <4>3. QED
        BY <3>3, <4>2
    <3>10. <<p>> \o f = g
      BY ONLY <3>2, <3>6, <3>7, <3>8, <3>9, Prepended
    <3>11. QED
      BY <3>10 DEF f, g
  <2> HIDE DEF rest
  <2>10. QED
    BY <2>1, <2>8, <2>9 DEF o
<1> HIDE DEF T
<1>6. U \in T
  <2>1. 0 .. U \subseteq T
    BY ONLY <1>1, <1>4, <1>5, InductiveUpTo
  <2>2. U \in 0 .. U
    BY <1>1
  <2>3. QED
    BY <2>1, <2>2
<1>7. R[1] = [j \in 1 .. U |-> ps[j]]
  <2>1. U - U = 0 /\ 0 + 1 = 1
    BY <1>1
  <2>2. R[at(0) + 1] = rest(U)
    BY <1>6, <2>1 DEF T
  <2>3. rest(U) = [j \in 1 .. U |-> ps[j]]
    BY <1>1
  <2> HIDE DEF rest
  <2>4. QED
    BY <1>2, <2>1, <2>2, <2>3
<1>8. QED
  BY <1>3, <1>7 DEF e

(* What the encoders write are bytes, and more of them, whatever the length. *)
LEMMA PrefixIsBytes ==
  ASSUME RlpAssumption, NEW list, NEW short, NEW long, Offsets(list, short, long), NEW len \in Nat
  PROVE  RlpPrefix(short, long, len) \in Seq(Bytes) /\ RlpPrefix(short, long, len) # << >>
<1> DEFINE K == U64Bytes
           w == 256
           b == [i \in 1 .. K |-> (len \div Power256[K - i]) % 256]
           m == Minimal(len)
<1>1. K \in Nat /\ K \in 1 .. 8
  BY DEF RlpAssumption
<1>2. m = Stripped(b)
  BY DEF Minimal
<1>3. b \in Seq(Bytes) /\ Len(b) = K
  <2>1. b = [i \in 1 .. K |-> b[i]]
    OBVIOUS
  <2>2. ASSUME NEW i \in 1 .. K PROVE b[i] \in Bytes
    <3> DEFINE q == Power256[K - i]
    <3>1. b[i] = (len \div q) % w
      OBVIOUS
    <3>2. K - i \in Nat
      BY <1>1
    <3>3. q \in Nat \ {0}
      BY <3>2, Powers256
    <3>4. w \in Nat \ {0} /\ \A x \in 0 .. w - 1 : x \in Bytes
      BY DEF Bytes
    <3> HIDE DEF q, w, b
    <3>5. (len \div q) % w \in 0 .. w - 1
      BY <3>3, <3>4, NextPlace
    <3>6. QED
      BY <3>1, <3>4, <3>5
  <2> HIDE DEF b, K
  <2>3. QED
    BY <1>1, <2>1, <2>2, Tuples
<1> HIDE DEF b
<1>4. m \in Seq(Bytes) /\ Len(m) \in 0 .. 8
  <2>1. Stripped(b) \in Seq(Bytes) /\ Len(Stripped(b)) \in 0 .. Len(b)
    BY <1>3, StrippedReads
  <2>2. 0 .. K \subseteq 0 .. 8
    BY <1>1
  <2> HIDE DEF K, m
  <2>3. QED
    BY <1>2, <1>3, <2>1, <2>2
<1> HIDE DEF m
<1>5. CASE len < 56
  <2>1. short + len \in Bytes
    <3>1. short = 128 => short + len \in 0 .. 255
      BY <1>5
    <3>2. short = 192 => short + len \in 0 .. 255
      BY <1>5
    <3>3. QED
      BY <3>1, <3>2 DEF Bytes, Offsets
  <2>2. RlpPrefix(short, long, len) = <<short + len>>
    BY <1>5 DEF RlpPrefix
  <2>3. QED
    BY <2>1, <2>2
<1>6. CASE ~ (len < 56)
  <2> DEFINE c == long + Len(m)
             x == <<c>>
  <2>1. c \in Bytes
    <3> DEFINE k == Len(m)
    <3>1. k \in 0 .. 8
      BY <1>4
    <3> HIDE DEF k
    <3>2. long = 183 => long + k \in 0 .. 255
      BY <3>1
    <3>3. long = 247 => long + k \in 0 .. 255
      BY <3>1
    <3>4. QED
      BY <3>2, <3>3 DEF Bytes, Offsets, k
  <2>2. RlpPrefix(short, long, len) = x \o m
    BY <1>6 DEF RlpPrefix, m
  <2> HIDE DEF c
  <2>3. x \in Seq(Bytes) /\ Len(x) = 1
    BY <2>1
  <2> HIDE DEF x
  <2>4. x \o m \in Seq(Bytes) /\ Len(x \o m) = Len(x) + Len(m)
    BY <1>4, <2>3, ConcatProperties
  <2>5. Len(x \o m) # 0
    BY <1>4, <2>3, <2>4
  <2>6. QED
    BY <2>2, <2>4, <2>5, EmptySeq
<1>7. QED
  BY <1>5, <1>6

LEMMA PrefixGrows ==
  ASSUME RlpAssumption, NEW list, NEW short, NEW long, Offsets(list, short, long), NEW p \in Seq(Bytes),
         NEW r, r = RlpPrefix(short, long, Len(p)) \o p
  PROVE  r \in Seq(Bytes) /\ Len(r) \in Nat \ {0} /\ Len(p) <= Len(r) /\ r[1] = RlpPrefix(short, long, Len(p))[1]
<1> DEFINE pre == RlpPrefix(short, long, Len(p))
<1>1. Len(p) \in Nat
  BY LenProperties
<1>2. pre \in Seq(Bytes) /\ pre # << >>
  BY <1>1, PrefixIsBytes
<1> HIDE DEF pre
<1>3. Len(pre) \in Nat \ {0}
  BY <1>2, EmptySeq, LenProperties
<1>4. /\ pre \o p \in Seq(Bytes) /\ Len(pre \o p) = Len(pre) + Len(p)
      /\ \A i \in 1 .. Len(pre) + Len(p) : (pre \o p)[i] = IF i <= Len(pre) THEN pre[i] ELSE p[i - Len(pre)]
  <2>1. p \in Seq(Bytes)
    OBVIOUS
  <2>2. QED
    BY ONLY <1>2, <2>1, ConcatProperties
<1>5. r = pre \o p
  BY DEF pre
<1>6. 1 \in 1 .. Len(pre) + Len(p) /\ 1 <= Len(pre)
  BY <1>1, <1>3
<1>7. QED
  BY <1>1, <1>3, <1>4, <1>5, <1>6 DEF pre

LEMMA StringGrows ==
  ASSUME RlpAssumption, NEW p \in Seq(Bytes), NEW r, r = RlpBytes(p)
  PROVE  r \in Seq(Bytes) /\ Len(r) \in Nat \ {0} /\ Len(p) <= Len(r)
<1>1. Len(p) \in Nat
  BY LenProperties
<1>2. CASE Len(p) = 1 /\ p[1] < 128
  <2>1. r = p
    BY <1>2 DEF RlpBytes
  <2>2. Len(r) = 1 /\ Len(p) = 1 /\ r \in Seq(Bytes)
    BY <1>2, <2>1
  <2>3. QED
    BY ONLY <2>2
<1>3. CASE ~ (Len(p) = 1 /\ p[1] < 128)
  <2> DEFINE short == 128
             long == 183
  <2>1. Offsets(FALSE, short, long) /\ r = RlpPrefix(short, long, Len(p)) \o p
    BY <1>3 DEF Offsets, RlpBytes
  <2> HIDE DEF short, long
  <2>2. QED
    BY <2>1, PrefixGrows
<1>4. QED
  BY <1>2, <1>3

LEMMA ListGrows ==
  ASSUME RlpAssumption, NEW xs \in Seq(Seq(Bytes)), NEW e, e = FlattenSeq(xs), NEW r, r = RlpList(xs)
  PROVE  /\ r \in Seq(Bytes) /\ Len(r) \in Nat \ {0} /\ Len(e) <= Len(r)
         /\ e \in Seq(Bytes) /\ Len(e) \in Nat /\ Len(xs) \in Nat
         /\ \A k \in 1 .. Len(xs) : xs[k] \in Seq(Bytes) /\ Len(xs[k]) \in Nat /\ Len(xs[k]) <= Len(e)
<1> DEFINE short == 192
           long == 247
<1>1. Offsets(TRUE, short, long) /\ r = RlpPrefix(short, long, Len(e)) \o e
  BY DEF Offsets, RlpList
<1> HIDE DEF short, long
<1> DEFINE U == Len(xs)
           at(n) == Len(FirstOf(xs, n))
<1>2. U \in Nat /\ U = Len(xs)
  BY LenProperties
<1> HIDE DEF U
<1>3. /\ \A n \in 0 .. U : FirstOf(xs, n) \in Seq(Bytes) /\ Len(FirstOf(xs, n)) \in Nat
      /\ \A n \in 1 .. U :
           /\ Len(FirstOf(xs, n)) = Len(FirstOf(xs, n - 1)) + Len(xs[n])
           /\ xs[n] \in Seq(Bytes) /\ Len(xs[n]) \in Nat
           /\ Len(FirstOf(xs, n)) <= Len(FlattenSeq(xs))
      /\ FlattenSeq(xs) = FirstOf(xs, U)
  <2>1. xs \in Seq(Seq(Bytes))
    OBVIOUS
  <2>2. QED
    BY ONLY <1>2, <2>1, ListsStand
<1>4. e \in Seq(Bytes) /\ Len(e) \in Nat
  <2>1. U \in 0 .. U
    BY <1>2
  <2>2. QED
    BY <1>3, <2>1
<1>5. ASSUME NEW k \in 1 .. U PROVE xs[k] \in Seq(Bytes) /\ Len(xs[k]) \in Nat /\ Len(xs[k]) <= Len(e)
  <2>1. k - 1 \in 0 .. U /\ k \in 0 .. U
    BY <1>2
  <2> DEFINE a == at(k - 1)
             b == at(k)
             l == Len(xs[k])
             m == Len(e)
  <2>2. a \in Nat /\ b = a + l /\ l \in Nat /\ b <= m /\ xs[k] \in Seq(Bytes)
    BY <1>3, <2>1
  <2>3. m \in Nat
    BY <1>4
  <2> HIDE DEF a, b, l, m
  <2>4. l <= m
    BY <2>2, <2>3
  <2>5. QED
    BY <2>2, <2>4 DEF l, m
<1>6. r \in Seq(Bytes) /\ Len(r) \in Nat \ {0} /\ Len(e) <= Len(r)
  BY <1>1, <1>4, PrefixGrows
<1>7. QED
  BY <1>2, <1>4, <1>5, <1>6 DEF U

LEMMA PrefixedReads ==
  ASSUME RlpAssumption, NEW list, NEW short, NEW long, Offsets(list, short, long),
         NEW p \in Seq(Bytes), Len(p) \in 0 .. MaxLength,
         NEW r, r = RlpPrefix(short, long, Len(p)) \o p
  PROVE  Encodes(r, list, p)
<1> DEFINE L == Len(p)
           pre == RlpPrefix(short, long, L)
           k == Len(pre)
<1>1. L \in Nat /\ L \in 0 .. MaxLength
  BY LenProperties
<1>2. pre \in Seq(Bytes) /\ k \in Nat
  <2>1. pre \in Seq(Bytes)
    BY <1>1, PrefixIsBytes
  <2> HIDE DEF pre
  <2>2. QED
    BY <2>1, LenProperties
<1>3. pre = RlpPrefix(short, long, Len(p)) /\ r = pre \o p
  OBVIOUS
<1> HIDE DEF pre
<1>4. /\ r \in Seq(Bytes) /\ Len(r) = k + L
      /\ \A i \in 1 .. k + L : r[i] = IF i <= k THEN pre[i] ELSE p[i - k]
  <2>1. p \in Seq(Bytes)
    OBVIOUS
  <2>2. /\ pre \o p \in Seq(Bytes) /\ Len(pre \o p) = Len(pre) + Len(p)
        /\ \A i \in 1 .. Len(pre) + Len(p) :
             (pre \o p)[i] = IF i <= Len(pre) THEN pre[i] ELSE p[i - Len(pre)]
    BY ONLY <1>2, <2>1, ConcatProperties
  <2>3. QED
    BY <1>3, <2>2
<1>5. Len(r) \in Nat \ {0}
  BY <1>3, PrefixGrows
<1>6. ASSUME NEW e \in Seq(Bytes), NEW o \in Nat, Stands(r, e, o)
      PROVE  ReadsAs(e, o, list, o + Len(r), p)
  <2> DEFINE a == o + k
  <2>1. \A j \in 1 .. k + L : e[o + j] = r[j]
    BY <1>4, <1>6 DEF Stands
  <2> HIDE DEF L, k
  <2>2. ASSUME NEW j \in 1 .. k PROVE e[o + j] = pre[j]
    <3>1. j \in 1 .. k + L /\ j <= k
      BY <1>1, <1>2
    <3>2. QED
      BY <1>4, <2>1, <3>1
  <2>3. ASSUME NEW j \in 1 .. L PROVE e[a + j] = p[j]
    <3>1. k + j \in 1 .. k + L /\ ~ (k + j <= k) /\ (k + j) - k = j /\ o + (k + j) = a + j
      BY <1>1, <1>2
    <3>2. e[o + (k + j)] = r[k + j] /\ r[k + j] = p[j]
      BY <1>4, <2>1, <3>1
    <3>3. QED
      BY <3>1, <3>2
  <2>4. Stands(pre, e, o) /\ Stands(p, e, a)
    BY <2>2, <2>3 DEF Stands, k, L
  <2>5. a = o + Len(pre)
    BY DEF k
  <2> HIDE DEF a
  <2>6. ReadsAs(e, o, list, a + Len(p), p)
    BY <1>3, <2>4, <2>5, PrefixReads
  <2>7. a + Len(p) = o + Len(r)
    <3>1. a + L = o + (k + L)
      BY <1>1, <1>2 DEF a
    <3>2. QED
      BY <1>4, <3>1 DEF L
  <2>8. QED
    BY <2>6, <2>7
<1>7. QED
  BY <1>4, <1>5, <1>6 DEF Encodes

LEMMA ListEncodes ==
  ASSUME RlpAssumption, NEW xs \in Seq(Seq(Bytes)), NEW e, e = FlattenSeq(xs), Len(e) <= MaxLength
  PROVE  Encodes(RlpList(xs), TRUE, e)
<1> DEFINE short == 192
           long == 247
           r == RlpList(xs)
<1>1. Offsets(TRUE, short, long) /\ r = RlpPrefix(short, long, Len(e)) \o e
  BY DEF Offsets, RlpList
<1>2. e \in Seq(Bytes) /\ Len(e) \in Nat
  BY ListGrows
<1>3. Len(e) \in 0 .. MaxLength
  BY <1>2, MaxLengthIsNumber
<1> HIDE DEF short, long, r
<1>4. Encodes(r, TRUE, e)
  BY <1>1, <1>2, <1>3, PrefixedReads
<1>5. QED
  BY <1>4 DEF r

LEMMA StringEncodes ==
  ASSUME RlpAssumption, NEW p \in Seq(Bytes), Len(p) <= MaxLength
  PROVE  Encodes(RlpBytes(p), FALSE, p)
<1>1. Len(p) \in 0 .. MaxLength
  BY MaxLengthIsNumber, LenProperties
<1> DEFINE r == RlpBytes(p)
<1>2. /\ r \in Seq(Bytes) /\ Len(r) \in Nat \ {0}
      /\ \A e \in Seq(Bytes), o \in Nat : Stands(r, e, o) => ReadsAs(e, o, FALSE, o + Len(r), p)
  BY <1>1, BytesReadBack
<1>3. QED
  BY <1>2 DEF Encodes

-----------------------------------------------------------------------------
(* The fields of a transaction. *)

(* x is bytes, and if usize counts them an item with this payload.         *)
Field(x, list, p) == x \in Seq(Bytes) /\ (Len(x) <= MaxLength => Encodes(x, list, p))

LEMMA StringField ==
  ASSUME RlpAssumption, NEW p \in Seq(Bytes), NEW x, x = RlpBytes(p)
  PROVE  Field(x, FALSE, p)
<1>1. x \in Seq(Bytes) /\ Len(x) \in Nat /\ Len(p) <= Len(x)
  BY StringGrows
<1>2. ASSUME Len(x) <= MaxLength PROVE Encodes(x, FALSE, p)
  <2>1. Len(p) \in Nat /\ MaxLength \in Nat
    BY MaxLengthIsNumber, LenProperties
  <2>2. Len(p) <= MaxLength
    BY <1>1, <1>2, <2>1
  <2>3. QED
    BY <2>2, StringEncodes
<1>3. QED
  BY <1>1, <1>2 DEF Field

LEMMA HexDigits ==
  ASSUME NEW h \in Hex
  PROVE  h \in Seq(Nat) /\ Len(h) \in Nat /\ DOMAIN h = 1 .. Len(h) /\ \A i \in 1 .. Len(h) : h[i] \in 0 .. 16
<1>1. 0 .. 16 \subseteq Nat /\ h \in Seq(0 .. 16)
  BY DEF Hex
<1>2. QED
  BY <1>1, SeqMonotonic, LenProperties, ElementOfSeq

(* The bytes that a quantity is encoded from, and what they stand for.     *)
Quantity(h) == Stripped(UintFromHex(h))

QuantityStands(h) ==
  /\ Field(RlpQuantity(h), FALSE, Quantity(h)) /\ IsHex(h)
  /\ NumberIn(Quantity(h)) = Uint256(h) /\ NumberIn(Quantity(h)) = ValueOfHex(h)

LEMMA QuantityFields ==
  ASSUME RlpAssumption, NEW h \in Hex, RlpQuantity(h) # Fails PROVE QuantityStands(h)
<1> DEFINE x == RlpQuantity(h)
           u == UintFromHex(h)
           p == Stripped(u)
<1>1. h \in Seq(0 .. 16) /\ N \in Nat /\ Len(h) \in Nat
  BY HexDigits DEF RlpAssumption, Hex
<1>2. ~ (Len(h) > 2 * N) /\ IsHex(h) /\ x = RlpBytes(p)
  BY DEF RlpQuantity
<1>3. u \in Seq(Bytes) /\ NumberIn(u) = ValueOfHex(h)
  <2>1. Len(h) <= 2 * N
    BY <1>1, <1>2
  <2>2. QED
    BY <1>1, <1>2, <2>1, QuantityReads
<1>4. p = Stripped(u) /\ Uint256(h) = NumberIn(u)
  BY DEF Uint256
<1>5. x = RlpQuantity(h) /\ p = Quantity(h)
  BY DEF Quantity
<1> HIDE DEF u, x, p
<1>6. p \in Seq(Bytes) /\ NumberIn(p) = NumberIn(u)
  BY <1>3, <1>4, StrippedReads
<1>7. Field(x, FALSE, p)
  BY <1>2, <1>6, StringField
<1>8. QED
  BY <1>2, <1>3, <1>4, <1>5, <1>6, <1>7 DEF QuantityStands

(* What from_str_radix takes is the same number, and fits. *)
LEMMA ParsedU64 ==
  ASSUME RlpAssumption, NEW h \in Hex, NEW n, n = ParseU64Hex(h), n # NoU64
  PROVE  n \in 0 .. MaxU64 /\ (IsHex(h) => n = ValueOfHex(h))
<1>1. h \in Seq(0 .. 16) /\ MaxU64 \in Nat
  BY DEF Hex, RlpAssumption
<1>2. /\ Len(h) \in Nat /\ DOMAIN h = 1 .. Len(h) /\ \A i \in 1 .. Len(h) : h[i] \in 0 .. 16
  BY HexDigits
<1> DEFINE plus == Len(h) > 1 /\ h[1] = 16
           d == IF plus THEN Tail(h) ELSE h
<1>3. d \in Seq(0 .. 16)
  <2>1. CASE plus
    <3>1. h # << >>
      BY <2>1, EmptySeq
    <3>2. Tail(h) \in Seq(0 .. 16)
      BY <1>1, <3>1, HeadTailProperties
    <3>3. QED
      BY <2>1, <3>2
  <2>2. CASE ~ plus
    BY <1>1, <2>2
  <2>3. QED
    BY <2>1, <2>2
<1>4. ~ (d = << >> \/ ~ IsHex(d) \/ ValueOfHex(d) > MaxU64) /\ n = ValueOfHex(d)
  BY DEF ParseU64Hex
<1>5. IsHex(h) => d = h
  <2>1. plus => 1 \in DOMAIN h
    BY <1>2
  <2>2. plus => ~ (h[1] < 16)
    OBVIOUS
  <2>3. QED
    BY <2>1, <2>2 DEF IsHex
<1> HIDE DEF d
<1>6. ValueOfHex(d) \in Nat
  <2> DEFINE w == 16
  <2>1. w \in Nat /\ d \in Hex
    BY <1>3 DEF Hex
  <2>2. d \in Seq(Nat)
    BY <2>1, HexDigits
  <2> HIDE DEF w
  <2>3. Len(d) \in Nat /\ \A i \in 0 .. Len(d) : Horner(w, d)[i] \in Nat
    BY <2>1, <2>2, Horners
  <2>4. Len(d) \in 0 .. Len(d)
    BY <2>3
  <2>5. QED
    BY <2>3, <2>4 DEF ValueOfHex, w
<1>7. n \in 0 .. MaxU64
  BY <1>1, <1>4, <1>6
<1>8. QED
  BY <1>4, <1>5, <1>7

LEMMA U64Encodes ==
  ASSUME RlpAssumption, NEW n \in 0 .. MaxU64, NEW x, x = RlpU64(n), NEW p, p = Minimal(n)
  PROVE  Field(x, FALSE, p) /\ NumberIn(p) = n
<1>1. n \in 0 .. MaxLength
  BY MaxLengthIsNumber DEF RlpAssumption
<1>2. p \in Seq(Bytes) /\ NumberIn(p) = n
  BY <1>1, MinimalReads
<1>3. x = RlpBytes(p)
  BY DEF RlpU64
<1>4. QED
  BY <1>2, <1>3, StringField

LEMMA DataReads ==
  ASSUME NEW h \in Hex, NEW x, x = RlpHexData(h), x # Fails, NEW p, p = HexBytes(h)
  PROVE  p \in Seq(Bytes) /\ x = RlpBytes(p)
<1>1. /\ Len(h) \in Nat /\ DOMAIN h = 1 .. Len(h) /\ \A i \in 1 .. Len(h) : h[i] \in 0 .. 16
  BY HexDigits
<1>2. IsHex(h) /\ x = RlpBytes(p)
  BY DEF RlpHexData
<1> DEFINE m == Len(h) \div 2
<1>3. m \in Nat /\ 2 * m <= Len(h)
  BY <1>1
<1>4. p = [b \in 1 .. m |-> 16 * h[2 * b - 1] + h[2 * b]]
  BY DEF HexBytes
<1> HIDE DEF m
<1>5. \A i \in 1 .. Len(h) : h[i] \in 0 .. 15
  <2>1. ASSUME NEW i \in 1 .. Len(h) PROVE h[i] \in 0 .. 15
    <3>1. h[i] \in 0 .. 16 /\ h[i] < 16
      BY <1>1, <1>2 DEF IsHex
    <3>2. QED
      BY <3>1
  <2>2. QED
    BY <2>1
<1>6. ASSUME NEW b \in 1 .. m PROVE p[b] \in Bytes
  <2> DEFINE u == h[2 * b - 1]
             v == h[2 * b]
  <2>1. 2 * b - 1 \in 1 .. Len(h) /\ 2 * b \in 1 .. Len(h)
    BY <1>1, <1>3
  <2>2. u \in 0 .. 15 /\ v \in 0 .. 15 /\ p[b] = 16 * u + v
    BY <1>4, <1>5, <2>1
  <2> HIDE DEF u, v
  <2>3. QED
    BY <2>2 DEF Bytes
<1>7. p = [b \in 1 .. m |-> p[b]]
  BY <1>4
<1>8. p \in Seq(Bytes)
  BY <1>3, <1>6, <1>7, Tuples
<1>9. QED
  BY <1>2, <1>8

LEMMA FixedReads ==
  ASSUME NEW h \in Hex, NEW n, NEW x, x = RlpFixed(h, n), x # Fails, NEW p, p = HexBytes(h)
  PROVE  p \in Seq(Bytes) /\ x = RlpBytes(p)
<1>1. x = RlpHexData(h)
  BY DEF RlpFixed
<1>2. QED
  BY <1>1, DataReads

LEMMA TriedList ==
  ASSUME NEW xs, TryRlpList(xs) # Fails
  PROVE  TryRlpList(xs) = RlpList(xs) /\ \A k \in DOMAIN xs : xs[k] # Fails
BY DEF TryRlpList, Range

LEMMA PairFlattens ==
  ASSUME NEW a \in Seq(Bytes), NEW b \in Seq(Bytes)
  PROVE  <<a, b>> \in Seq(Seq(Bytes)) /\ FlattenSeq(<<a, b>>) = a \o b
<1> DEFINE xs == <<a, b>>
<1>1. xs \in Seq(Seq(Bytes)) /\ Len(xs) = 2 /\ xs[1] = a /\ xs[2] = b
  OBVIOUS
<1> HIDE DEF xs
<1>2. /\ FirstOf(xs, 0) = << >>
      /\ \A n \in 0 .. Len(xs) - 1 : FirstOf(xs, n + 1) = FirstOf(xs, n) \o xs[n + 1]
      /\ FlattenSeq(xs) = FirstOf(xs, Len(xs))
  BY <1>1, FirstOfLists
<1>3. 0 \in 0 .. Len(xs) - 1 /\ 1 \in 0 .. Len(xs) - 1 /\ 0 + 1 = 1 /\ 1 + 1 = 2
  BY <1>1
<1>4. FirstOf(xs, 1) = << >> \o a
  BY <1>1, <1>2, <1>3
<1>5. FirstOf(xs, 2) = FirstOf(xs, 1) \o b
  BY <1>1, <1>2, <1>3
<1>6. << >> \o a = a
  BY ConcatEmptySeq
<1>7. FlattenSeq(xs) = a \o b
  BY <1>1, <1>2, <1>4, <1>5, <1>6
<1>8. QED
  BY <1>1, <1>7 DEF xs

(* What is hashed of an access list, item by item. *)
AccessItems(list) ==
  [i \in DOMAIN list |->
     LET item == list[i] IN
       RlpBytes(HexBytes(item.address))
         \o RlpList([k \in DOMAIN item.keys |-> RlpBytes(HexBytes(item.keys[k]))])]

LEMMA KeysRead ==
  ASSUME RlpAssumption, NEW keys \in Seq(Hex), NEW n,
         NEW ks, ks = [k \in DOMAIN keys |-> RlpFixed(keys[k], n)], NEW r, r = TryRlpList(ks), r # Fails
  PROVE  /\ r \in Seq(Bytes)
         /\ r = RlpList([k \in DOMAIN keys |-> RlpBytes(HexBytes(keys[k]))])
<1>1. r = RlpList(ks) /\ \A k \in DOMAIN ks : ks[k] # Fails
  BY TriedList
<1>2. Len(keys) \in Nat /\ DOMAIN keys = 1 .. Len(keys) /\ DOMAIN ks = DOMAIN keys
  BY LenProperties
<1>3. ASSUME NEW k \in 1 .. Len(keys)
      PROVE  ks[k] = RlpBytes(HexBytes(keys[k])) /\ ks[k] \in Seq(Bytes)
  <2> DEFINE h == keys[k]
             p == HexBytes(h)
             x == ks[k]
  <2>1. h \in Hex /\ x = RlpFixed(h, n) /\ x # Fails
    BY <1>1, <1>2, ElementOfSeq
  <2> HIDE DEF h, p, x
  <2>2. p = HexBytes(h)
    BY DEF p
  <2>3. p \in Seq(Bytes) /\ x = RlpBytes(p)
    BY <2>1, <2>2, FixedReads
  <2>4. x \in Seq(Bytes)
    BY <2>3, StringGrows
  <2>5. QED
    BY <2>2, <2>3, <2>4 DEF h, x
<1>4. ks = [k \in 1 .. Len(keys) |-> ks[k]] /\ ks = [k \in DOMAIN keys |-> RlpBytes(HexBytes(keys[k]))]
  BY <1>2, <1>3
<1>5. ks \in Seq(Seq(Bytes))
  <2> DEFINE SB == Seq(Bytes)
             U == Len(keys)
  <2>1. U \in Nat /\ ks = [k \in 1 .. U |-> ks[k]] /\ \A k \in 1 .. U : ks[k] \in SB
    BY <1>2, <1>3, <1>4
  <2> HIDE DEF SB, U
  <2>2. ks \in Seq(SB)
    BY ONLY <2>1, Tuples
  <2>3. QED
    BY <2>2 DEF SB
<1>6. r \in Seq(Bytes)
  BY <1>1, <1>5, ListGrows
<1>7. QED
  BY <1>1, <1>4, <1>6

LEMMA AccessItemReads ==
  ASSUME RlpAssumption, NEW item \in [address : Hex, keys : Seq(Hex)],
         NEW x, x = TryRlpList(<<RlpFixed(item.address, AddressBytes),
                      TryRlpList([k \in DOMAIN item.keys |-> RlpFixed(item.keys[k], N)])>>),
         x # Fails,
         NEW p, p = RlpBytes(HexBytes(item.address))
                      \o RlpList([k \in DOMAIN item.keys |-> RlpBytes(HexBytes(item.keys[k]))])
  PROVE  Field(x, TRUE, p)
<1> DEFINE h == item.address
           keys == item.keys
           ks == [k \in DOMAIN keys |-> RlpFixed(keys[k], N)]
           a == RlpFixed(h, AddressBytes)
           b == TryRlpList(ks)
           q == HexBytes(h)
           xs == <<a, b>>
<1>1. h \in Hex /\ keys \in Seq(Hex)
  OBVIOUS
<1>2. x = TryRlpList(xs)
  OBVIOUS
<1>3. p = RlpBytes(q) \o RlpList([k \in DOMAIN keys |-> RlpBytes(HexBytes(keys[k]))])
  OBVIOUS
<1>4. ks = [k \in DOMAIN keys |-> RlpFixed(keys[k], N)] /\ b = TryRlpList(ks)
      /\ a = RlpFixed(h, AddressBytes) /\ q = HexBytes(h)
  OBVIOUS
<1> HIDE DEF h, keys, ks, a, b, q
<1>5. x = RlpList(xs) /\ \A k \in DOMAIN xs : xs[k] # Fails
  BY <1>2, TriedList
<1>6. a # Fails /\ b # Fails
  <2>1. 1 \in DOMAIN xs /\ 2 \in DOMAIN xs /\ xs[1] = a /\ xs[2] = b
    OBVIOUS
  <2> HIDE DEF xs
  <2>2. QED
    BY <1>5, <2>1
<1>7. a = RlpBytes(q) /\ a \in Seq(Bytes)
  <2>1. q \in Seq(Bytes) /\ a = RlpBytes(q)
    BY <1>1, <1>4, <1>6, FixedReads
  <2>2. QED
    BY <2>1, StringGrows
<1>8. b \in Seq(Bytes) /\ b = RlpList([k \in DOMAIN keys |-> RlpBytes(HexBytes(keys[k]))])
  BY <1>1, <1>4, <1>6, KeysRead
<1>9. p = a \o b
  BY <1>3, <1>7, <1>8
<1>10. xs \in Seq(Seq(Bytes)) /\ FlattenSeq(xs) = p
  BY <1>7, <1>8, <1>9, PairFlattens
<1> HIDE DEF xs
<1>11. x \in Seq(Bytes) /\ Len(x) \in Nat /\ Len(p) <= Len(x) /\ Len(p) \in Nat
  BY <1>5, <1>10, ListGrows
<1>12. ASSUME Len(x) <= MaxLength PROVE Encodes(x, TRUE, p)
  <2>1. Len(p) <= MaxLength
    BY <1>11, <1>12, MaxLengthIsNumber
  <2>2. QED
    BY <1>5, <1>10, <2>1, ListEncodes
<1>13. QED
  BY <1>11, <1>12 DEF Field

(* The first byte tells a list. *)
BeginsList(r) == r[1] \in 192 .. 255

LEMMA PrefixBegins ==
  ASSUME RlpAssumption, NEW list, NEW short, NEW long, Offsets(list, short, long), short = 192,
         NEW e, e \in Seq(Bytes), Len(e) \in 0 .. MaxLength,
         NEW r, r = RlpPrefix(short, long, Len(e)) \o e
  PROVE  BeginsList(r)
<1>1. r[1] = RlpPrefix(short, long, Len(e))[1]
  BY PrefixGrows
<1> DEFINE L == Len(e)
           pre == RlpPrefix(short, long, L)
           m == Minimal(L)
<1>2. L \in Nat /\ L \in 0 .. MaxLength
  BY MaxLengthIsNumber, LenProperties
<1>3. short = 192 /\ long = 247
  BY DEF Offsets
<1>4. pre = RlpPrefix(short, long, L) /\ m = Minimal(L) /\ r[1] = pre[1]
  BY <1>1
<1> HIDE DEF L, pre, m
<1>5. /\ L < 56 => pre[1] = short + L
      /\ L >= 56 => Len(m) \in 1 .. 8 /\ pre[1] = long + Len(m)
  <2>1. Offsets(list, short, long)
    OBVIOUS
  <2>2. QED
    BY ONLY RlpAssumption, <1>2, <1>4, <2>1, PrefixShape
<1>6. CASE L < 56
  <2>1. short + L \in 192 .. 255
    BY <1>2, <1>3, <1>6
  <2>2. QED
    BY <1>4, <1>5, <1>6, <2>1 DEF BeginsList
<1>7. CASE ~ (L < 56)
  <2>1. L >= 56
    BY <1>2, <1>7
  <2> DEFINE k == Len(m)
  <2>2. k \in 1 .. 8 /\ pre[1] = long + k
    BY <1>5, <2>1
  <2> HIDE DEF k
  <2>3. long + k \in 192 .. 255
    BY <1>3, <2>2
  <2>4. QED
    BY <1>4, <2>2, <2>3 DEF BeginsList
<1>8. QED
  BY <1>6, <1>7

LEMMA ListBegins ==
  ASSUME RlpAssumption, NEW xs \in Seq(Seq(Bytes)), Len(FlattenSeq(xs)) <= MaxLength
  PROVE  BeginsList(RlpList(xs))
<1> DEFINE short == 192
           long == 247
           list == TRUE
           e == FlattenSeq(xs)
           r == RlpList(xs)
<1>1. Offsets(list, short, long)
  BY DEF Offsets
<1>2. r = RlpPrefix(short, long, Len(e)) \o e
  BY DEF RlpList
<1>3. e \in Seq(Bytes) /\ Len(e) \in 0 .. MaxLength
  <2>1. e \in Seq(Bytes) /\ Len(e) \in Nat
    BY ListGrows
  <2>2. Len(e) <= MaxLength /\ MaxLength \in Nat
    BY MaxLengthIsNumber
  <2> HIDE DEF e
  <2>3. QED
    BY <2>1, <2>2
<1>4. short = 192
  OBVIOUS
<1> HIDE DEF short, long, list, e, r
<1>5. BeginsList(r)
  BY <1>1, <1>2, <1>3, <1>4, PrefixBegins
<1>6. QED
  BY <1>5 DEF r

LEMMA WholeItem ==
  ASSUME NEW r, NEW list, NEW p, Encodes(r, list, p), NEW item, item = ItemAt(r, 1)
  PROVE  item.list = list /\ item.last = Len(r) /\ Payload(r, item) = p
<1>1. r \in Seq(Bytes) /\ Len(r) \in Nat
  BY DEF Encodes
<1> DEFINE z == 0
<1>2. z \in Nat /\ z + 1 = 1 /\ z + Len(r) = Len(r) /\ \A j \in 1 .. Len(r) : z + j = j
  BY <1>1
<1> HIDE DEF z
<1>3. Stands(r, r, z)
  BY <1>2 DEF Stands
<1>4. ReadsAs(r, z, list, z + Len(r), p)
  BY <1>1, <1>2, <1>3 DEF Encodes
<1>5. QED
  BY <1>2, <1>4 DEF ReadsAs

(* Fields of these kinds, with these payloads.                             *)
Fields(xs, kinds, ps, U) ==
  /\ xs = [k \in 1 .. U |-> xs[k]] /\ ps = [k \in 1 .. U |-> ps[k]]
  /\ \A k \in 1 .. U : Field(xs[k], kinds[k], ps[k])

(* An item of e, which consists of items with these payloads.              *)
Consists(r, e, ps) == Len(r) <= MaxLength => Items(e) = ps /\ BeginsList(r)

(* A list of fields: the whole is an item, and its items are the fields.   *)
LEMMA FieldsRead ==
  ASSUME RlpAssumption, NEW U \in Nat, NEW xs, NEW kinds, NEW ps, Fields(xs, kinds, ps, U),
         NEW e, e = FlattenSeq(xs), NEW r, r = RlpList(xs)
  PROVE  Field(r, TRUE, e) /\ Consists(r, e, ps)
<1>1. /\ xs = [k \in 1 .. U |-> xs[k]] /\ ps = [k \in 1 .. U |-> ps[k]]
      /\ \A k \in 1 .. U : Field(xs[k], kinds[k], ps[k])
  BY DEF Fields
<1>2. xs \in Seq(Seq(Bytes)) /\ Len(xs) = U
  <2> DEFINE SB == Seq(Bytes)
  <2>1. xs = [k \in 1 .. U |-> xs[k]]
    BY <1>1
  <2>2. \A k \in 1 .. U : xs[k] \in SB
    BY <1>1 DEF Field
  <2> HIDE DEF SB
  <2>3. xs \in Seq(SB) /\ Len(xs) = U
    BY <2>1, <2>2, Tuples
  <2>4. QED
    BY <2>3 DEF SB
<1>3. /\ r \in Seq(Bytes) /\ Len(r) \in Nat /\ Len(e) <= Len(r) /\ Len(e) \in Nat
      /\ \A k \in 1 .. Len(xs) : Len(xs[k]) \in Nat /\ Len(xs[k]) <= Len(e)
  BY <1>2, ListGrows
<1>4. ASSUME Len(r) <= MaxLength
      PROVE  Encodes(r, TRUE, e) /\ Items(e) = ps /\ BeginsList(r)
  <2>1. Len(e) <= MaxLength /\ \A k \in 1 .. U : Len(xs[k]) <= MaxLength
    BY <1>2, <1>3, <1>4, MaxLengthIsNumber
  <2>2. \A k \in 1 .. U : Encodes(xs[k], kinds[k], ps[k])
    BY <1>1, <2>1 DEF Field
  <2>3. Items(FlattenSeq(xs)) = ps
    <3>1. ps = [k \in 1 .. U |-> ps[k]] /\ U = Len(xs)
      BY <1>1, <1>2
    <3>2. xs \in Seq(Seq(Bytes))
      BY <1>2
    <3>3. QED
      BY ONLY <2>2, <3>1, <3>2, ItemsRead
  <2>4. Encodes(r, TRUE, e)
    BY <1>2, <2>1, ListEncodes
  <2>5. BeginsList(r)
    BY <1>2, <2>1, ListBegins
  <2>6. QED
    BY <2>3, <2>4, <2>5
<1>5. QED
  BY <1>3, <1>4 DEF Field, Consists

LEMMA AccessListReads ==
  ASSUME RlpAssumption, NEW list \in Seq([address : Hex, keys : Seq(Hex)]),
         NEW x, x = RlpAccessList(list), x # Fails
  PROVE  \E p : Field(x, TRUE, p) /\ (Len(x) <= MaxLength => Items(p) = AccessItems(list))
<1> DEFINE xs == [i \in DOMAIN list |->
                    TryRlpList(<<RlpFixed(list[i].address, AddressBytes),
                      TryRlpList([k \in DOMAIN list[i].keys |-> RlpFixed(list[i].keys[k], N)])>>)]
           ps == AccessItems(list)
           U == Len(list)
           kinds == [i \in 1 .. U |-> TRUE]
           e == FlattenSeq(xs)
<1>1. U \in Nat /\ DOMAIN list = 1 .. U
  BY LenProperties
<1>2. x = TryRlpList(xs)
  BY DEF RlpAccessList
<1>3. \A i \in DOMAIN list :
        xs[i] = TryRlpList(<<RlpFixed(list[i].address, AddressBytes),
                  TryRlpList([k \in DOMAIN list[i].keys |-> RlpFixed(list[i].keys[k], N)])>>)
  OBVIOUS
<1>4. xs = [i \in DOMAIN list |-> xs[i]]
  OBVIOUS
<1> HIDE DEF xs
<1>5. \A i \in DOMAIN list :
        ps[i] = RlpBytes(HexBytes(list[i].address))
                  \o RlpList([k \in DOMAIN list[i].keys |-> RlpBytes(HexBytes(list[i].keys[k]))])
  BY DEF AccessItems
<1>6. ps = [i \in DOMAIN list |-> ps[i]]
  BY DEF AccessItems
<1> HIDE DEF ps
<1>7. x = RlpList(xs) /\ \A i \in DOMAIN list : xs[i] # Fails
  <2>1. DOMAIN xs = DOMAIN list
    BY <1>4
  <2>2. QED
    BY <1>2, <2>1, TriedList
<1>8. ASSUME NEW i \in 1 .. U PROVE Field(xs[i], kinds[i], ps[i])
  <2> DEFINE item == list[i]
             y == xs[i]
             p == ps[i]
  <2>1. item \in [address : Hex, keys : Seq(Hex)]
    <3> DEFINE S == [address : Hex, keys : Seq(Hex)]
    <3>1. list \in Seq(S)
      OBVIOUS
    <3> HIDE DEF S
    <3>2. item \in S
      BY <1>1, <3>1, ElementOfSeq
    <3>3. QED
      BY <3>2 DEF S
  <2>2. y = TryRlpList(<<RlpFixed(item.address, AddressBytes),
               TryRlpList([k \in DOMAIN item.keys |-> RlpFixed(item.keys[k], N)])>>)
    BY <1>1, <1>3
  <2>3. p = RlpBytes(HexBytes(item.address))
              \o RlpList([k \in DOMAIN item.keys |-> RlpBytes(HexBytes(item.keys[k]))])
    BY <1>1, <1>5
  <2>4. y # Fails /\ kinds[i] = TRUE
    BY <1>1, <1>7
  <2> HIDE DEF item, y, p
  <2>5. Field(y, TRUE, p)
    BY <2>1, <2>2, <2>3, <2>4, AccessItemReads
  <2>6. QED
    BY <2>4, <2>5 DEF y, p
<1>9. xs = [i \in 1 .. U |-> xs[i]] /\ ps = [i \in 1 .. U |-> ps[i]] /\ e = FlattenSeq(xs)
  BY <1>1, <1>4, <1>6
<1> HIDE DEF U, kinds, e
<1>10. Field(x, TRUE, e) /\ (Len(x) <= MaxLength => Items(e) = ps)
  <2>1. x = RlpList(xs)
    BY <1>7
  <2>2. U \in Nat
    BY <1>1
  <2>3. Fields(xs, kinds, ps, U)
    BY <1>8, <1>9 DEF Fields
  <2>4. e = FlattenSeq(xs)
    BY <1>9
  <2>5. Field(x, TRUE, e) /\ Consists(x, e, ps)
    BY <2>1, <2>2, <2>3, <2>4, FieldsRead
  <2>6. QED
    BY <2>5 DEF Consists
<1>11. QED
  BY <1>10 DEF ps

(* h is f and behind it g. *)
Behind(f, g, h, m, l) ==
  /\ m \in Nat /\ l \in Nat /\ Len(f) = m /\ Len(g) = l /\ Len(h) = m + l
  /\ \A i \in 1 .. m : h[i] = f[i]
  /\ \A i \in 1 .. l : h[m + i] = g[i]

LEMMA Joined ==
  ASSUME NEW S, NEW f \in Seq(S), NEW g \in Seq(S), NEW h \in Seq(S), NEW m, NEW l, Behind(f, g, h, m, l)
  PROVE  f \o g = h
<1> DEFINE k == f \o g
<1>1. /\ m \in Nat /\ l \in Nat /\ Len(f) = m /\ Len(g) = l /\ Len(h) = m + l
      /\ \A i \in 1 .. m : h[i] = f[i]
      /\ \A i \in 1 .. l : h[m + i] = g[i]
  BY DEF Behind
<1>2. k \in Seq(S) /\ Len(k) = m + l
  BY <1>1, ConcatProperties
<1>3. \A i \in 1 .. m + l : k[i] = IF i <= m THEN f[i] ELSE g[i - m]
  BY <1>1, ConcatProperties
<1> HIDE DEF k
<1>4. ASSUME NEW i \in 1 .. m + l PROVE k[i] = h[i]
  <2>1. CASE i <= m
    BY <1>1, <1>3, <2>1
  <2>2. CASE ~ (i <= m)
    <3>1. i - m \in 1 .. l /\ m + (i - m) = i
      BY <1>1, <2>2
    <3>2. k[i] = g[i - m]
      BY <1>3, <2>2
    <3>3. QED
      BY <1>1, <3>1, <3>2
  <2>3. QED
    BY <2>1, <2>2
<1>5. k = h
  BY <1>1, <1>2, <1>4, SeqEqual
<1>6. QED
  BY <1>5 DEF k

LEMMA SixJoined ==
  ASSUME NEW n, NEW p, NEW a, NEW b, NEW c, NEW d
  PROVE  <<n>> \o <<p>> \o <<a, b, c, d>>
           = <<n, p, a, b, c, d>>
<1> DEFINE S == {n, p, a, b, c, d}
<1>1. n \in S /\ p \in S /\ a \in S /\ b \in S /\ c \in S /\ d \in S
  OBVIOUS
<1> HIDE DEF S
<1>2. <<n>> \o <<p>> = <<n, p>>
  <2> DEFINE f == <<n>>
             g == <<p>>
             h == <<n, p>>
  <2>1. f \in Seq(S) /\ g \in Seq(S) /\ h \in Seq(S)
    BY <1>1
  <2>2. Behind(f, g, h, 1, 1)
    BY DEF Behind
  <2> HIDE DEF f, g, h
  <2>3. f \o g = h
    BY <2>1, <2>2, Joined
  <2>4. QED
    BY <2>3 DEF f, g, h
<1>3. <<n, p>> \o <<a, b, c, d>> = <<n, p, a, b, c, d>>
  <2> DEFINE f == <<n, p>>
             g == <<a, b, c, d>>
             h == <<n, p, a, b, c, d>>
  <2>1. f \in Seq(S) /\ g \in Seq(S) /\ h \in Seq(S)
    BY <1>1
  <2>2. Behind(f, g, h, 2, 4)
    BY DEF Behind
  <2> HIDE DEF f, g, h
  <2>3. f \o g = h
    BY <2>1, <2>2, Joined
  <2>4. QED
    BY <2>3 DEF f, g, h
<1>4. QED
  BY <1>2, <1>3

LEMMA SevenJoined ==
  ASSUME NEW n, NEW p, NEW o, NEW a, NEW b, NEW c, NEW d
  PROVE  <<n>> \o <<p, o>> \o <<a, b, c, d>>
           = <<n, p, o, a, b, c, d>>
<1> DEFINE S == {n, p, o, a, b, c, d}
<1>1. n \in S /\ p \in S /\ o \in S /\ a \in S /\ b \in S /\ c \in S /\ d \in S
  OBVIOUS
<1> HIDE DEF S
<1>2. <<n>> \o <<p, o>> = <<n, p, o>>
  <2> DEFINE f == <<n>>
             g == <<p, o>>
             h == <<n, p, o>>
  <2>1. f \in Seq(S) /\ g \in Seq(S) /\ h \in Seq(S)
    BY <1>1
  <2>2. Behind(f, g, h, 1, 2)
    BY DEF Behind
  <2> HIDE DEF f, g, h
  <2>3. f \o g = h
    BY <2>1, <2>2, Joined
  <2>4. QED
    BY <2>3 DEF f, g, h
<1>3. <<n, p, o>> \o <<a, b, c, d>> = <<n, p, o, a, b, c, d>>
  <2> DEFINE f == <<n, p, o>>
             g == <<a, b, c, d>>
             h == <<n, p, o, a, b, c, d>>
  <2>1. f \in Seq(S) /\ g \in Seq(S) /\ h \in Seq(S)
    BY <1>1
  <2>2. Behind(f, g, h, 3, 4)
    BY DEF Behind
  <2> HIDE DEF f, g, h
  <2>3. f \o g = h
    BY <2>1, <2>2, Joined
  <2>4. QED
    BY <2>3 DEF f, g, h
<1>4. QED
  BY <1>2, <1>3

LEMMA NineJoined ==
  ASSUME NEW n, NEW p, NEW a, NEW b, NEW c, NEW d, NEW v, NEW t, NEW u
  PROVE  <<n, p, a, b, c, d>> \o <<v>> \o <<t, u>>
           = <<n, p, a, b, c, d, v, t, u>>
<1> DEFINE S == {n, p, a, b, c, d, v, t, u}
<1>1. n \in S /\ p \in S /\ a \in S /\ b \in S /\ c \in S /\ d \in S /\ v \in S /\ t \in S /\ u \in S
  OBVIOUS
<1> HIDE DEF S
<1>2. <<n, p, a, b, c, d>> \o <<v>> = <<n, p, a, b, c, d, v>>
  <2> DEFINE f == <<n, p, a, b, c, d>>
             g == <<v>>
             h == <<n, p, a, b, c, d, v>>
  <2>1. f \in Seq(S) /\ g \in Seq(S) /\ h \in Seq(S)
    BY <1>1
  <2>2. Behind(f, g, h, 6, 1)
    BY DEF Behind
  <2> HIDE DEF f, g, h
  <2>3. f \o g = h
    BY <2>1, <2>2, Joined
  <2>4. QED
    BY <2>3 DEF f, g, h
<1>3. <<n, p, a, b, c, d, v>> \o <<t, u>> = <<n, p, a, b, c, d, v, t, u>>
  <2> DEFINE f == <<n, p, a, b, c, d, v>>
             g == <<t, u>>
             h == <<n, p, a, b, c, d, v, t, u>>
  <2>1. f \in Seq(S) /\ g \in Seq(S) /\ h \in Seq(S)
    BY <1>1
  <2>2. Behind(f, g, h, 7, 2)
    BY DEF Behind
  <2> HIDE DEF f, g, h
  <2>3. f \o g = h
    BY <2>1, <2>2, Joined
  <2>4. QED
    BY <2>3 DEF f, g, h
<1>4. QED
  BY <1>2, <1>3

LEMMA ElevenJoined ==
  ASSUME NEW e, NEW n, NEW p, NEW a, NEW b, NEW c, NEW d, NEW l, NEW v, NEW t, NEW u
  PROVE  <<e>> \o <<n, p, a, b, c, d>> \o <<l, v>> \o <<t, u>>
           = <<e, n, p, a, b, c, d, l, v, t, u>>
<1> DEFINE S == {e, n, p, a, b, c, d, l, v, t, u}
<1>1. e \in S /\ n \in S /\ p \in S /\ a \in S /\ b \in S /\ c \in S /\ d \in S
      /\ l \in S /\ v \in S /\ t \in S /\ u \in S
  OBVIOUS
<1> HIDE DEF S
<1>2. <<e>> \o <<n, p, a, b, c, d>> = <<e, n, p, a, b, c, d>>
  <2> DEFINE f == <<e>>
             g == <<n, p, a, b, c, d>>
             h == <<e, n, p, a, b, c, d>>
  <2>1. f \in Seq(S) /\ g \in Seq(S) /\ h \in Seq(S)
    BY <1>1
  <2>2. Behind(f, g, h, 1, 6)
    BY DEF Behind
  <2> HIDE DEF f, g, h
  <2>3. f \o g = h
    BY <2>1, <2>2, Joined
  <2>4. QED
    BY <2>3 DEF f, g, h
<1>3. <<e, n, p, a, b, c, d>> \o <<l, v>> = <<e, n, p, a, b, c, d, l, v>>
  <2> DEFINE f == <<e, n, p, a, b, c, d>>
             g == <<l, v>>
             h == <<e, n, p, a, b, c, d, l, v>>
  <2>1. f \in Seq(S) /\ g \in Seq(S) /\ h \in Seq(S)
    BY <1>1
  <2>2. Behind(f, g, h, 7, 2)
    BY DEF Behind
  <2> HIDE DEF f, g, h
  <2>3. f \o g = h
    BY <2>1, <2>2, Joined
  <2>4. QED
    BY <2>3 DEF f, g, h
<1>4. <<e, n, p, a, b, c, d, l, v>> \o <<t, u>> = <<e, n, p, a, b, c, d, l, v, t, u>>
  <2> DEFINE f == <<e, n, p, a, b, c, d, l, v>>
             g == <<t, u>>
             h == <<e, n, p, a, b, c, d, l, v, t, u>>
  <2>1. f \in Seq(S) /\ g \in Seq(S) /\ h \in Seq(S)
    BY <1>1
  <2>2. Behind(f, g, h, 9, 2)
    BY DEF Behind
  <2> HIDE DEF f, g, h
  <2>3. f \o g = h
    BY <2>1, <2>2, Joined
  <2>4. QED
    BY <2>3 DEF f, g, h
<1>5. QED
  BY <1>2, <1>3, <1>4

LEMMA TwelveJoined ==
  ASSUME NEW e, NEW n, NEW p, NEW o, NEW a, NEW b, NEW c, NEW d, NEW l, NEW v, NEW t, NEW u
  PROVE  <<e>> \o <<n, p, o, a, b, c, d>> \o <<l, v>> \o <<t, u>>
           = <<e, n, p, o, a, b, c, d, l, v, t, u>>
<1> DEFINE S == {e, n, p, o, a, b, c, d, l, v, t, u}
<1>1. e \in S /\ n \in S /\ p \in S /\ o \in S /\ a \in S /\ b \in S /\ c \in S /\ d \in S
      /\ l \in S /\ v \in S /\ t \in S /\ u \in S
  OBVIOUS
<1> HIDE DEF S
<1>2. <<e>> \o <<n, p, o, a, b, c, d>> = <<e, n, p, o, a, b, c, d>>
  <2> DEFINE f == <<e>>
             g == <<n, p, o, a, b, c, d>>
             h == <<e, n, p, o, a, b, c, d>>
  <2>1. f \in Seq(S) /\ g \in Seq(S) /\ h \in Seq(S)
    BY <1>1
  <2>2. Behind(f, g, h, 1, 7)
    BY DEF Behind
  <2> HIDE DEF f, g, h
  <2>3. f \o g = h
    BY <2>1, <2>2, Joined
  <2>4. QED
    BY <2>3 DEF f, g, h
<1>3. <<e, n, p, o, a, b, c, d>> \o <<l, v>> = <<e, n, p, o, a, b, c, d, l, v>>
  <2> DEFINE f == <<e, n, p, o, a, b, c, d>>
             g == <<l, v>>
             h == <<e, n, p, o, a, b, c, d, l, v>>
  <2>1. f \in Seq(S) /\ g \in Seq(S) /\ h \in Seq(S)
    BY <1>1
  <2>2. Behind(f, g, h, 8, 2)
    BY DEF Behind
  <2> HIDE DEF f, g, h
  <2>3. f \o g = h
    BY <2>1, <2>2, Joined
  <2>4. QED
    BY <2>3 DEF f, g, h
<1>4. <<e, n, p, o, a, b, c, d, l, v>> \o <<t, u>> = <<e, n, p, o, a, b, c, d, l, v, t, u>>
  <2> DEFINE f == <<e, n, p, o, a, b, c, d, l, v>>
             g == <<t, u>>
             h == <<e, n, p, o, a, b, c, d, l, v, t, u>>
  <2>1. f \in Seq(S) /\ g \in Seq(S) /\ h \in Seq(S)
    BY <1>1
  <2>2. Behind(f, g, h, 10, 2)
    BY DEF Behind
  <2> HIDE DEF f, g, h
  <2>3. f \o g = h
    BY <2>1, <2>2, Joined
  <2>4. QED
    BY <2>3 DEF f, g, h
<1>5. QED
  BY <1>2, <1>3, <1>4

(* What stands in a row.                                                   *)
Columns(row, tx) ==
  /\ ParseU64Hex(tx.nonce) # NoU64 /\ ParseU64Hex(tx.gas) # NoU64
  /\ ParseU64Hex(tx.y_parity) # NoU64
  /\ tx.chain_id # None => ParseU64Hex(tx.chain_id) # NoU64
  /\ row.transaction_type = tx.type
  /\ row.chain_id = (IF tx.chain_id = None THEN None ELSE <<ParseU64Hex(tx.chain_id)>>)
  /\ row.nonce = ParseU64Hex(tx.nonce) /\ row.gas = ParseU64Hex(tx.gas)
  /\ \A c \in PriceColumns : row.prices[c] =
       IF c \in DOMAIN tx.prices THEN <<Uint256(tx.prices[c])>> ELSE None
  /\ row.to_address = (IF tx.to = None THEN None ELSE HexBytes(tx.to))
  /\ row.value = Uint256(tx.value) /\ row.input = tx.input /\ row.access_list = tx.access_list
  /\ row.signature = <<Uint256(tx.r), Uint256(tx.s), ParseU64Hex(tx.y_parity)>>

LEMMA RowReads ==
  ASSUME NEW tx, NEW row, row = TransactionRow(tx, TRUE), row # NoRow PROVE Columns(row, tx)
<1>1. ~ (\E f \in {tx.nonce, tx.gas} \union ({tx.chain_id} \ {None}) \union {tx.y_parity} :
           ParseU64Hex(f) = NoU64)
  BY DEF TransactionRow
<1> DEFINE chain == IF tx.chain_id = None THEN None ELSE <<ParseU64Hex(tx.chain_id)>>
           nonce == ParseU64Hex(tx.nonce)
           gas == ParseU64Hex(tx.gas)
           ps == [c \in PriceColumns |->
                    IF c \in DOMAIN tx.prices THEN <<Uint256(tx.prices[c])>> ELSE None]
           to == IF tx.to = None THEN None ELSE HexBytes(tx.to)
           val == Uint256(tx.value)
           signature == <<Uint256(tx.r), Uint256(tx.s), ParseU64Hex(tx.y_parity)>>
<1>2. row = [parsed |-> TRUE, transaction_type |-> tx.type, chain_id |-> chain, nonce |-> nonce,
             gas |-> gas, prices |-> ps, to_address |-> to, value |-> val, input |-> tx.input,
             access_list |-> tx.access_list, signature |-> signature]
  BY DEF TransactionRow
<1>3. /\ ParseU64Hex(tx.nonce) # NoU64 /\ ParseU64Hex(tx.gas) # NoU64
      /\ ParseU64Hex(tx.y_parity) # NoU64
      /\ tx.chain_id # None => ParseU64Hex(tx.chain_id) # NoU64
  BY <1>1
<1>4. \A c \in PriceColumns : ps[c] = IF c \in DOMAIN tx.prices THEN <<Uint256(tx.prices[c])>> ELSE None
  OBVIOUS
<1> HIDE DEF chain, nonce, gas, ps, to, val, signature
<1>5. /\ row.transaction_type = tx.type /\ row.chain_id = chain /\ row.nonce = nonce /\ row.gas = gas
      /\ row.prices = ps /\ row.to_address = to /\ row.value = val /\ row.input = tx.input
      /\ row.access_list = tx.access_list /\ row.signature = signature
  BY ONLY <1>2
<1>6. QED
  BY <1>3, <1>4, <1>5 DEF Columns, chain, nonce, gas, to, val, signature

LEMMA SignedReads ==
  ASSUME NEW tx, NEW out, out = SignedTransaction(tx), out # Fails
  PROVE  /\ out = Encoded(tx) /\ ParseU64Hex(tx.y_parity) \in {0, 1}
         /\ tx.type = "Legacy" => ~ (LegacyV(tx) > MaxU64)
BY DEF SignedTransaction

(* A list is read as items with these payloads.                            *)
ReadsAsList(body, ps) ==
  LET item == ItemAt(body, 1)
  IN  /\ item.list = TRUE /\ item.last = Len(body) /\ Items(Payload(body, item)) = ps
      /\ BeginsList(body)

LEMMA ListReads ==
  ASSUME RlpAssumption, NEW U \in Nat, NEW xs, NEW kinds, NEW ps, Fields(xs, kinds, ps, U),
         NEW r, r = RlpList(xs), Len(r) <= MaxLength
  PROVE  ReadsAsList(r, ps)
<1> DEFINE e == FlattenSeq(xs)
           item == ItemAt(r, 1)
<1>1. e = FlattenSeq(xs) /\ item = ItemAt(r, 1)
  OBVIOUS
<1> HIDE DEF e
<1>2. Field(r, TRUE, e) /\ Consists(r, e, ps)
  BY <1>1, FieldsRead
<1>3. Encodes(r, TRUE, e)
  BY <1>2 DEF Field
<1>4. Items(e) = ps /\ BeginsList(r)
  BY <1>2 DEF Consists
<1> HIDE DEF item
<1>5. item.list = TRUE /\ item.last = Len(r) /\ Payload(r, item) = e
  BY <1>1, <1>3, WholeItem
<1>6. QED
  BY <1>1, <1>4, <1>5 DEF ReadsAsList

LEMMA NineFields ==
  ASSUME NEW x1, NEW x2, NEW x3, NEW x4, NEW x5, NEW x6, NEW x7, NEW x8, NEW x9,
         NEW k1, NEW k2, NEW k3, NEW k4, NEW k5, NEW k6, NEW k7, NEW k8, NEW k9,
         NEW p1, NEW p2, NEW p3, NEW p4, NEW p5, NEW p6, NEW p7, NEW p8, NEW p9,
         Field(x1, k1, p1), Field(x2, k2, p2), Field(x3, k3, p3),
         Field(x4, k4, p4), Field(x5, k5, p5), Field(x6, k6, p6),
         Field(x7, k7, p7), Field(x8, k8, p8), Field(x9, k9, p9)
  PROVE  Fields(<<x1, x2, x3, x4, x5, x6, x7, x8, x9>>,
                <<k1, k2, k3, k4, k5, k6, k7, k8, k9>>,
                <<p1, p2, p3, p4, p5, p6, p7, p8, p9>>, 9)
<1> DEFINE xs == <<x1, x2, x3, x4, x5, x6, x7, x8, x9>>
           kinds == <<k1, k2, k3, k4, k5, k6, k7, k8, k9>>
           ps == <<p1, p2, p3, p4, p5, p6, p7, p8, p9>>
<1>1. xs = [k \in 1 .. 9 |-> xs[k]] /\ ps = [k \in 1 .. 9 |-> ps[k]]
  OBVIOUS
<1>2. ASSUME NEW k \in 1 .. 9 PROVE Field(xs[k], kinds[k], ps[k])
  <2>1. Field(xs[1], kinds[1], ps[1])
    OBVIOUS
  <2>2. Field(xs[2], kinds[2], ps[2])
    OBVIOUS
  <2>3. Field(xs[3], kinds[3], ps[3])
    OBVIOUS
  <2>4. Field(xs[4], kinds[4], ps[4])
    OBVIOUS
  <2>5. Field(xs[5], kinds[5], ps[5])
    OBVIOUS
  <2>6. Field(xs[6], kinds[6], ps[6])
    OBVIOUS
  <2>7. Field(xs[7], kinds[7], ps[7])
    OBVIOUS
  <2>8. Field(xs[8], kinds[8], ps[8])
    OBVIOUS
  <2>9. Field(xs[9], kinds[9], ps[9])
    OBVIOUS
  <2> HIDE DEF xs, kinds, ps
  <2>10. QED
    BY <2>1, <2>2, <2>3, <2>4, <2>5, <2>6, <2>7, <2>8, <2>9
<1> HIDE DEF xs, kinds, ps
<1>3. Fields(xs, kinds, ps, 9)
  BY <1>1, <1>2 DEF Fields
<1>4. QED
  BY <1>3 DEF xs, kinds, ps

LEMMA ElevenFields ==
  ASSUME NEW x1, NEW x2, NEW x3, NEW x4, NEW x5, NEW x6, NEW x7, NEW x8, NEW x9, NEW x10, NEW x11,
         NEW k1, NEW k2, NEW k3, NEW k4, NEW k5, NEW k6, NEW k7, NEW k8, NEW k9, NEW k10, NEW k11,
         NEW p1, NEW p2, NEW p3, NEW p4, NEW p5, NEW p6, NEW p7, NEW p8, NEW p9, NEW p10, NEW p11,
         Field(x1, k1, p1), Field(x2, k2, p2), Field(x3, k3, p3),
         Field(x4, k4, p4), Field(x5, k5, p5), Field(x6, k6, p6),
         Field(x7, k7, p7), Field(x8, k8, p8), Field(x9, k9, p9),
         Field(x10, k10, p10), Field(x11, k11, p11)
  PROVE  Fields(<<x1, x2, x3, x4, x5, x6, x7, x8, x9, x10, x11>>,
                <<k1, k2, k3, k4, k5, k6, k7, k8, k9, k10, k11>>,
                <<p1, p2, p3, p4, p5, p6, p7, p8, p9, p10, p11>>, 11)
<1> DEFINE xs == <<x1, x2, x3, x4, x5, x6, x7, x8, x9, x10, x11>>
           kinds == <<k1, k2, k3, k4, k5, k6, k7, k8, k9, k10, k11>>
           ps == <<p1, p2, p3, p4, p5, p6, p7, p8, p9, p10, p11>>
<1>1. xs = [k \in 1 .. 11 |-> xs[k]] /\ ps = [k \in 1 .. 11 |-> ps[k]]
  OBVIOUS
<1>2. ASSUME NEW k \in 1 .. 11 PROVE Field(xs[k], kinds[k], ps[k])
  <2>1. Field(xs[1], kinds[1], ps[1])
    OBVIOUS
  <2>2. Field(xs[2], kinds[2], ps[2])
    OBVIOUS
  <2>3. Field(xs[3], kinds[3], ps[3])
    OBVIOUS
  <2>4. Field(xs[4], kinds[4], ps[4])
    OBVIOUS
  <2>5. Field(xs[5], kinds[5], ps[5])
    OBVIOUS
  <2>6. Field(xs[6], kinds[6], ps[6])
    OBVIOUS
  <2>7. Field(xs[7], kinds[7], ps[7])
    OBVIOUS
  <2>8. Field(xs[8], kinds[8], ps[8])
    OBVIOUS
  <2>9. Field(xs[9], kinds[9], ps[9])
    OBVIOUS
  <2>10. Field(xs[10], kinds[10], ps[10])
    OBVIOUS
  <2>11. Field(xs[11], kinds[11], ps[11])
    OBVIOUS
  <2> HIDE DEF xs, kinds, ps
  <2>12. QED
    BY <2>1, <2>2, <2>3, <2>4, <2>5, <2>6, <2>7, <2>8, <2>9, <2>10, <2>11
<1> HIDE DEF xs, kinds, ps
<1>3. Fields(xs, kinds, ps, 11)
  BY <1>1, <1>2 DEF Fields
<1>4. QED
  BY <1>3 DEF xs, kinds, ps

LEMMA TwelveFields ==
  ASSUME NEW x1, NEW x2, NEW x3, NEW x4, NEW x5, NEW x6, NEW x7, NEW x8, NEW x9, NEW x10, NEW x11, NEW x12,
         NEW k1, NEW k2, NEW k3, NEW k4, NEW k5, NEW k6, NEW k7, NEW k8, NEW k9, NEW k10, NEW k11, NEW k12,
         NEW p1, NEW p2, NEW p3, NEW p4, NEW p5, NEW p6, NEW p7, NEW p8, NEW p9, NEW p10, NEW p11, NEW p12,
         Field(x1, k1, p1), Field(x2, k2, p2), Field(x3, k3, p3),
         Field(x4, k4, p4), Field(x5, k5, p5), Field(x6, k6, p6),
         Field(x7, k7, p7), Field(x8, k8, p8), Field(x9, k9, p9),
         Field(x10, k10, p10), Field(x11, k11, p11), Field(x12, k12, p12)
  PROVE  Fields(<<x1, x2, x3, x4, x5, x6, x7, x8, x9, x10, x11, x12>>,
                <<k1, k2, k3, k4, k5, k6, k7, k8, k9, k10, k11, k12>>,
                <<p1, p2, p3, p4, p5, p6, p7, p8, p9, p10, p11, p12>>, 12)
<1> DEFINE xs == <<x1, x2, x3, x4, x5, x6, x7, x8, x9, x10, x11, x12>>
           kinds == <<k1, k2, k3, k4, k5, k6, k7, k8, k9, k10, k11, k12>>
           ps == <<p1, p2, p3, p4, p5, p6, p7, p8, p9, p10, p11, p12>>
<1>1. xs = [k \in 1 .. 12 |-> xs[k]] /\ ps = [k \in 1 .. 12 |-> ps[k]]
  OBVIOUS
<1>2. ASSUME NEW k \in 1 .. 12 PROVE Field(xs[k], kinds[k], ps[k])
  <2>1. Field(xs[1], kinds[1], ps[1])
    OBVIOUS
  <2>2. Field(xs[2], kinds[2], ps[2])
    OBVIOUS
  <2>3. Field(xs[3], kinds[3], ps[3])
    OBVIOUS
  <2>4. Field(xs[4], kinds[4], ps[4])
    OBVIOUS
  <2>5. Field(xs[5], kinds[5], ps[5])
    OBVIOUS
  <2>6. Field(xs[6], kinds[6], ps[6])
    OBVIOUS
  <2>7. Field(xs[7], kinds[7], ps[7])
    OBVIOUS
  <2>8. Field(xs[8], kinds[8], ps[8])
    OBVIOUS
  <2>9. Field(xs[9], kinds[9], ps[9])
    OBVIOUS
  <2>10. Field(xs[10], kinds[10], ps[10])
    OBVIOUS
  <2>11. Field(xs[11], kinds[11], ps[11])
    OBVIOUS
  <2>12. Field(xs[12], kinds[12], ps[12])
    OBVIOUS
  <2> HIDE DEF xs, kinds, ps
  <2>13. QED
    BY <2>1, <2>2, <2>3, <2>4, <2>5, <2>6, <2>7, <2>8, <2>9, <2>10, <2>11, <2>12
<1> HIDE DEF xs, kinds, ps
<1>3. Fields(xs, kinds, ps, 12)
  BY <1>1, <1>2 DEF Fields
<1>4. QED
  BY <1>3 DEF xs, kinds, ps

LEMMA TxTypes ==
  ASSUME NEW tx \in Tx
  PROVE  /\ tx.type \in {"Legacy", "Eip2930", "Eip1559"} /\ tx.chain_id \in Hex \union {None}
         /\ tx.nonce \in Hex /\ tx.gas \in Hex /\ tx.value \in Hex /\ tx.input \in Hex
         /\ tx.to \in Hex \union {None} /\ tx.y_parity \in Hex /\ tx.r \in Hex /\ tx.s \in Hex
         /\ tx.access_list \in Seq([address : Hex, keys : Seq(Hex)])
         /\ "gas_price" \in DOMAIN tx.prices =>
              tx.prices.gas_price \in Hex /\ DOMAIN tx.prices = {"gas_price"}
         /\ "gas_price" \notin DOMAIN tx.prices =>
              /\ tx.prices.max_fee_per_gas \in Hex /\ tx.prices.max_priority_fee_per_gas \in Hex
              /\ DOMAIN tx.prices = {"max_fee_per_gas", "max_priority_fee_per_gas"}
<1> DEFINE S == Seq([address : Hex, keys : Seq(Hex)])
           T == {"Legacy", "Eip2930", "Eip1559"}
           O == Hex \union {None}
           P == [gas_price : Hex] \union [max_fee_per_gas : Hex, max_priority_fee_per_gas : Hex]
           p == tx.prices
<1>1. tx \in [type : T, chain_id : O, nonce : Hex, prices : P, gas : Hex, to : O, value : Hex,
              input : Hex, access_list : S, y_parity : Hex, r : Hex, s : Hex]
  BY DEF Tx
<1> HIDE DEF S, T, O, P
<1>2. /\ tx.type \in T /\ tx.chain_id \in O /\ tx.nonce \in Hex /\ p \in P /\ tx.gas \in Hex
      /\ tx.to \in O /\ tx.value \in Hex /\ tx.input \in Hex /\ tx.access_list \in S
      /\ tx.y_parity \in Hex /\ tx.r \in Hex /\ tx.s \in Hex
  BY <1>1
<1> HIDE DEF p
<1>3. \/ p \in [gas_price : Hex]
      \/ p \in [max_fee_per_gas : Hex, max_priority_fee_per_gas : Hex]
  BY <1>2 DEF P
<1>4. CASE p \in [gas_price : Hex]
  <2>1. p.gas_price \in Hex /\ DOMAIN p = {"gas_price"}
    BY <1>4
  <2>2. QED
    BY <1>2, <2>1 DEF p, S, T, O
<1>5. CASE p \in [max_fee_per_gas : Hex, max_priority_fee_per_gas : Hex]
  <2>1. /\ p.max_fee_per_gas \in Hex /\ p.max_priority_fee_per_gas \in Hex
        /\ DOMAIN p = {"max_fee_per_gas", "max_priority_fee_per_gas"}
    BY <1>5
  <2>2. "gas_price" \notin DOMAIN p
    BY <2>1
  <2>3. QED
    BY <1>2, <2>1, <2>2 DEF p, S, T, O
<1>6. QED
  BY <1>3, <1>4, <1>5

(* The bytes that a recipient is encoded from.                             *)
Recipient(to) == IF to = None THEN << >> ELSE HexBytes(to)

LEMMA RecipientFields ==
  ASSUME RlpAssumption, NEW to \in Hex \union {None}, RlpOptionalAddress(to) # Fails
  PROVE  /\ Field(RlpOptionalAddress(to), FALSE, Recipient(to))
         /\ to # None => Recipient(to) # None
<1>1. CASE to = None
  <2> DEFINE e == << >>
             x == RlpOptionalAddress(to)
  <2>1. x = RlpBytes(e) /\ Recipient(to) = e
    BY <1>1 DEF RlpOptionalAddress, Recipient
  <2>2. e \in Seq(Bytes) /\ Len(e) = 0
    BY EmptySeq
  <2> HIDE DEF e, x
  <2>3. Field(x, FALSE, e)
    BY <2>1, <2>2, StringField
  <2>4. QED
    BY <1>1, <2>1, <2>3 DEF x
<1>2. CASE to # None
  <2> DEFINE x == RlpOptionalAddress(to)
             p == Recipient(to)
  <2>1. to \in Hex /\ x = RlpFixed(to, AddressBytes) /\ p = HexBytes(to) /\ x # Fails
    BY <1>2 DEF RlpOptionalAddress, Recipient
  <2> HIDE DEF x, p
  <2>2. p \in Seq(Bytes) /\ x = RlpBytes(p)
    BY <2>1, FixedReads
  <2>3. Field(x, FALSE, p)
    BY <2>2, StringField
  <2>4. p # None
    <3> SUFFICES ASSUME p = None PROVE FALSE
      OBVIOUS
    <3> DEFINE z == -1
    <3>1. z \notin Bytes
      BY DEF Bytes
    <3>2. p = <<z>>
      <4>1. None = <<z>>
        BY DEF None
      <4> HIDE DEF z
      <4>2. QED
        BY <4>1
    <3> HIDE DEF z
    <3>3. Len(p) = 1 /\ p[1] = z
      BY ONLY <3>2
    <3>4. 1 \in 1 .. Len(p)
      BY ONLY <3>3
    <3>5. p[1] \in Bytes
      BY ONLY <2>2, <3>4, ElementOfSeq
    <3>6. QED
      BY ONLY <3>1, <3>3, <3>5
  <2>5. QED
    BY <2>3, <2>4 DEF x, p
<1>3. QED
  BY <1>1, <1>2

LEMMA DataFields ==
  ASSUME RlpAssumption, NEW h \in Hex, RlpHexData(h) # Fails
  PROVE  Field(RlpHexData(h), FALSE, HexBytes(h))
<1> DEFINE x == RlpHexData(h)
           p == HexBytes(h)
<1>1. x = RlpHexData(h) /\ x # Fails /\ p = HexBytes(h)
  OBVIOUS
<1> HIDE DEF x, p
<1>2. p \in Seq(Bytes) /\ x = RlpBytes(p)
  BY <1>1, DataReads
<1>3. Field(x, FALSE, p)
  BY <1>2, StringField
<1>4. QED
  BY <1>3 DEF x, p

LEMMA U64Fields ==
  ASSUME RlpAssumption, NEW n \in 0 .. MaxU64
  PROVE  Field(RlpU64(n), FALSE, Minimal(n)) /\ NumberIn(Minimal(n)) = n
<1> DEFINE x == RlpU64(n)
           p == Minimal(n)
<1>1. x = RlpU64(n) /\ p = Minimal(n)
  OBVIOUS
<1> HIDE DEF x, p
<1>2. Field(x, FALSE, p) /\ NumberIn(p) = n
  BY <1>1, U64Encodes
<1>3. QED
  BY <1>2 DEF x, p

(* The fields that all envelopes have.                                     *)
LEMMA CommonOne ==
  ASSUME NEW tx, tx.type # "Eip1559"
  PROVE  Common(tx) = <<RlpQuantity(tx.nonce), RlpQuantity(tx.prices.gas_price), RlpQuantity(tx.gas),
                        RlpOptionalAddress(tx.to), RlpQuantity(tx.value), RlpHexData(tx.input)>>
<1> DEFINE price == tx.prices.gas_price
<1>1. Prices(tx) = <<price>>
  BY DEF Prices
<1> HIDE DEF price
<1>2. [i \in DOMAIN Prices(tx) |-> RlpQuantity(Prices(tx)[i])] = <<RlpQuantity(price)>>
  BY <1>1
<1> DEFINE n == RlpQuantity(tx.nonce)
           p == RlpQuantity(price)
           a == RlpQuantity(tx.gas)
           b == RlpOptionalAddress(tx.to)
           c == RlpQuantity(tx.value)
           d == RlpHexData(tx.input)
<1>3. Common(tx) = <<n>> \o <<p>> \o <<a, b, c, d>>
  BY <1>2 DEF Common
<1> HIDE DEF n, p, a, b, c, d
<1>4. <<n>> \o <<p>> \o <<a, b, c, d>> = <<n, p, a, b, c, d>>
  BY ONLY SixJoined
<1>5. QED
  BY <1>3, <1>4 DEF n, p, a, b, c, d, price

LEMMA CommonTwo ==
  ASSUME NEW tx, tx.type = "Eip1559"
  PROVE  Common(tx) = <<RlpQuantity(tx.nonce), RlpQuantity(tx.prices.max_priority_fee_per_gas),
                        RlpQuantity(tx.prices.max_fee_per_gas), RlpQuantity(tx.gas),
                        RlpOptionalAddress(tx.to), RlpQuantity(tx.value), RlpHexData(tx.input)>>
<1> DEFINE tip == tx.prices.max_priority_fee_per_gas
           fee == tx.prices.max_fee_per_gas
<1>1. Prices(tx) = <<tip, fee>>
  BY DEF Prices
<1> HIDE DEF tip, fee
<1>2. [i \in DOMAIN Prices(tx) |-> RlpQuantity(Prices(tx)[i])] = <<RlpQuantity(tip), RlpQuantity(fee)>>
  BY <1>1
<1> DEFINE n == RlpQuantity(tx.nonce)
           p == RlpQuantity(tip)
           o == RlpQuantity(fee)
           a == RlpQuantity(tx.gas)
           b == RlpOptionalAddress(tx.to)
           c == RlpQuantity(tx.value)
           d == RlpHexData(tx.input)
<1>3. Common(tx) = <<n>> \o <<p, o>> \o <<a, b, c, d>>
  BY <1>2 DEF Common
<1> HIDE DEF n, p, o, a, b, c, d
<1>4. Common(tx) = <<n, p, o, a, b, c, d>>
  BY <1>3, SevenJoined
<1>5. QED
  BY <1>4 DEF n, p, o, a, b, c, d, tip, fee

(* The type of an envelope stands in front of its list.                    *)
LEMMA EnvelopeReads ==
  ASSUME NEW b \in Bytes, NEW body \in Seq(Bytes), NEW out, out = <<b>> \o body
  PROVE  out[1] = b /\ Tail(out) = body /\ Len(body) \in Nat /\ Len(out) = Len(body) + 1
<1> DEFINE f == <<b>>
<1>1. f \in Seq(Bytes) /\ Len(f) = 1 /\ f[1] = b
  OBVIOUS
<1>2. out = f \o body
  OBVIOUS
<1> HIDE DEF f
<1>3. /\ out \in Seq(Bytes) /\ Len(out) = 1 + Len(body) /\ Len(body) \in Nat
      /\ \A i \in 1 .. 1 + Len(body) : out[i] = IF i <= 1 THEN f[i] ELSE body[i - 1]
  BY <1>1, <1>2, ConcatProperties, LenProperties
<1>4. out[1] = b
  <2>1. 1 \in 1 .. 1 + Len(body)
    BY <1>3
  <2>2. QED
    BY <1>1, <1>3, <2>1
<1>5. out # << >>
  BY <1>3, EmptySeq
<1>6. /\ Tail(out) \in Seq(Bytes) /\ Len(Tail(out)) = Len(out) - 1
      /\ \A i \in 1 .. Len(Tail(out)) : Tail(out)[i] = out[i + 1]
  BY <1>3, <1>5, HeadTailProperties
<1>7. ASSUME NEW i \in 1 .. Len(body) PROVE Tail(out)[i] = body[i]
  <2>1. i \in 1 .. Len(Tail(out)) /\ i + 1 \in 1 .. 1 + Len(body) /\ ~ (i + 1 <= 1) /\ (i + 1) - 1 = i
    BY <1>3, <1>6
  <2>2. QED
    BY <1>3, <1>6, <2>1
<1>8. Len(Tail(out)) = Len(body)
  BY <1>3, <1>6
<1>9. Tail(out) = body
  BY <1>6, <1>7, <1>8, SeqEqual
<1>10. QED
  BY <1>3, <1>4, <1>9

(* What a line's transaction is read back as, type by type.                *)
LegacyFields(tx) ==
  <<Quantity(tx.nonce), Quantity(tx.prices.gas_price), Quantity(tx.gas), Recipient(tx.to),
    Quantity(tx.value), HexBytes(tx.input), Minimal(LegacyV(tx)), Quantity(tx.r), Quantity(tx.s)>>

LEMMA LegacyReads ==
  ASSUME RlpAssumption, NEW tx \in Tx, tx.type = "Legacy", "gas_price" \in DOMAIN tx.prices,
         NEW out, out = Encoded(tx), out # Fails, Len(out) <= MaxLength, LegacyV(tx) \in 0 .. MaxU64
  PROVE  /\ ReadsAsList(out, LegacyFields(tx))
         /\ \A h \in {tx.nonce, tx.prices.gas_price, tx.gas, tx.value, tx.r, tx.s} : QuantityStands(h)
         /\ tx.to # None => Recipient(tx.to) # None
<1> DEFINE price == tx.prices.gas_price
           v == LegacyV(tx)
<1>1. /\ tx.nonce \in Hex /\ price \in Hex /\ tx.gas \in Hex /\ tx.to \in Hex \union {None}
      /\ tx.value \in Hex /\ tx.input \in Hex /\ tx.r \in Hex /\ tx.s \in Hex
  BY TxTypes
<1> HIDE DEF price, v
<1> DEFINE n == RlpQuantity(tx.nonce)
           p == RlpQuantity(price)
           a == RlpQuantity(tx.gas)
           b == RlpOptionalAddress(tx.to)
           c == RlpQuantity(tx.value)
           d == RlpHexData(tx.input)
           w == RlpU64(v)
           t == RlpQuantity(tx.r)
           u == RlpQuantity(tx.s)
           xs == <<n, p, a, b, c, d, w, t, u>>
<1>2. out = TryRlpList(xs)
  <2>1. Common(tx) = <<n, p, a, b, c, d>>
    BY CommonOne DEF price
  <2>2. out = TryRlpList(Common(tx) \o <<w>> \o <<t, u>>)
    BY DEF Encoded, v
  <2> HIDE DEF n, p, a, b, c, d, w, t, u
  <2>3. <<n, p, a, b, c, d>> \o <<w>> \o <<t, u>> = xs
    BY ONLY NineJoined
  <2>4. QED
    BY <2>1, <2>2, <2>3
<1>3. n # Fails /\ p # Fails /\ a # Fails /\ b # Fails /\ c # Fails /\ d # Fails /\ t # Fails /\ u # Fails
  <2> HIDE DEF n, p, a, b, c, d, w, t, u
  <2>1. /\ xs[1] = n /\ xs[2] = p /\ xs[3] = a /\ xs[4] = b /\ xs[5] = c /\ xs[6] = d
        /\ xs[8] = t /\ xs[9] = u /\ DOMAIN xs = 1 .. 9
    OBVIOUS
  <2> HIDE DEF xs
  <2>2. \A k \in DOMAIN xs : xs[k] # Fails
    BY <1>2, TriedList
  <2>3. \A k \in 1 .. 9 : xs[k] # Fails
    BY <2>1, <2>2
  <2>4. QED
    BY <2>1, <2>3
<1>4. out = RlpList(xs)
  <2> HIDE DEF xs
  <2>1. QED
    BY <1>2, TriedList
<1>5. /\ QuantityStands(tx.nonce) /\ QuantityStands(price) /\ QuantityStands(tx.gas)
      /\ QuantityStands(tx.value) /\ QuantityStands(tx.r) /\ QuantityStands(tx.s)
  BY <1>1, <1>3, QuantityFields
<1> DEFINE no == FALSE
<1>6. /\ Field(n, no, Quantity(tx.nonce)) /\ Field(p, no, Quantity(price)) /\ Field(a, no, Quantity(tx.gas))
      /\ Field(c, no, Quantity(tx.value)) /\ Field(t, no, Quantity(tx.r)) /\ Field(u, no, Quantity(tx.s))
  BY <1>5 DEF QuantityStands
<1>7. Field(b, no, Recipient(tx.to)) /\ (tx.to # None => Recipient(tx.to) # None)
  BY <1>1, <1>3, RecipientFields
<1>8. Field(d, no, HexBytes(tx.input))
  BY <1>1, <1>3, DataFields
<1>9. Field(w, no, Minimal(v))
  BY U64Fields DEF v
<1> DEFINE ps == <<Quantity(tx.nonce), Quantity(price), Quantity(tx.gas), Recipient(tx.to),
                   Quantity(tx.value), HexBytes(tx.input), Minimal(v), Quantity(tx.r), Quantity(tx.s)>>
           kinds == <<no, no, no, no, no, no, no, no, no>>
<1> HIDE DEF no, n, p, a, b, c, d, w, t, u
<1>10. Fields(xs, kinds, ps, 9)
  BY ONLY <1>6, <1>7, <1>8, <1>9, NineFields
<1> HIDE DEF xs, kinds, ps
<1>11. ReadsAsList(out, ps)
  <2> DEFINE U == 9
  <2>1. U \in Nat /\ Fields(xs, kinds, ps, U)
    BY <1>10
  <2> HIDE DEF U
  <2>2. QED
    BY <1>4, <2>1, ListReads
<1>12. ps = LegacyFields(tx)
  BY DEF LegacyFields, ps, price, v
<1>13. QED
  BY <1>5, <1>7, <1>11, <1>12 DEF price

LEMMA FieldsFit ==
  ASSUME RlpAssumption, NEW U \in Nat, NEW xs, NEW kinds, NEW ps, Fields(xs, kinds, ps, U),
         NEW r, r = RlpList(xs)
  PROVE  r \in Seq(Bytes) /\ (Len(r) <= MaxLength => \A k \in 1 .. U : Len(xs[k]) <= MaxLength)
<1>1. xs \in Seq(Seq(Bytes)) /\ Len(xs) = U
  <2> DEFINE SB == Seq(Bytes)
  <2>1. xs = [k \in 1 .. U |-> xs[k]] /\ \A k \in 1 .. U : xs[k] \in SB
    BY DEF Fields, Field
  <2> HIDE DEF SB
  <2>2. xs \in Seq(SB) /\ Len(xs) = U
    BY <2>1, Tuples
  <2>3. QED
    BY <2>2 DEF SB
<1> DEFINE e == FlattenSeq(xs)
<1>2. /\ r \in Seq(Bytes) /\ Len(r) \in Nat /\ Len(e) <= Len(r) /\ Len(e) \in Nat
      /\ \A k \in 1 .. Len(xs) : Len(xs[k]) \in Nat /\ Len(xs[k]) <= Len(e)
  BY <1>1, ListGrows
<1> HIDE DEF e
<1>3. QED
  BY <1>1, <1>2, MaxLengthIsNumber

Eip2930Fields(tx, access) ==
  <<Quantity(tx.chain_id), Quantity(tx.nonce), Quantity(tx.prices.gas_price),
    Quantity(tx.gas), Recipient(tx.to), Quantity(tx.value), HexBytes(tx.input), access,
    Minimal(ParseU64Hex(tx.y_parity)), Quantity(tx.r), Quantity(tx.s)>>

LEMMA Eip2930Reads ==
  ASSUME RlpAssumption, NEW tx \in Tx, tx.type = "Eip2930", "gas_price" \in DOMAIN tx.prices,
         tx.chain_id # None, NEW out, out = Encoded(tx), out # Fails, Len(out) <= MaxLength,
         ParseU64Hex(tx.y_parity) \in 0 .. MaxU64
  PROVE  /\ \E access : /\ ReadsAsList(Tail(out), Eip2930Fields(tx, access))
                        /\ Items(access) = AccessItems(tx.access_list)
         /\ out[1] = 1
         /\ \A h \in {tx.chain_id, tx.nonce, tx.prices.gas_price, tx.gas, tx.value, tx.r, tx.s} :
              QuantityStands(h)
         /\ tx.to # None => Recipient(tx.to) # None
<1> DEFINE price == tx.prices.gas_price
           v == ParseU64Hex(tx.y_parity)
<1>1. /\ tx.nonce \in Hex /\ tx.gas \in Hex /\ tx.to \in Hex \union {None} /\ tx.chain_id \in Hex
      /\ tx.value \in Hex /\ tx.input \in Hex /\ tx.r \in Hex /\ tx.s \in Hex
      /\ tx.access_list \in Seq([address : Hex, keys : Seq(Hex)])
  BY TxTypes
<1>2. price \in Hex
  BY TxTypes
<1> HIDE DEF price, v
<1> DEFINE e == RlpQuantity(tx.chain_id)
           n == RlpQuantity(tx.nonce)
           p == RlpQuantity(price)
           a == RlpQuantity(tx.gas)
           b == RlpOptionalAddress(tx.to)
           c == RlpQuantity(tx.value)
           d == RlpHexData(tx.input)
           l == RlpAccessList(tx.access_list)
           w == RlpU64(v)
           t == RlpQuantity(tx.r)
           u == RlpQuantity(tx.s)
           xs == <<e, n, p, a, b, c, d, l, w, t, u>>
           body == TryRlpList(xs)
<1>3. body # Fails /\ out = <<1>> \o body
  <2> DEFINE typed == TryRlpList(<<e>> \o Common(tx) \o <<l, w>> \o <<t, u>>)
  <2>1. Common(tx) = <<n, p, a, b, c, d>>
    BY CommonOne DEF price
  <2>2. out = IF typed = Fails THEN Fails ELSE <<1>> \o typed
    BY DEF Encoded, v
  <2> HIDE DEF e, n, p, a, b, c, d, l, w, t, u
  <2>3. <<e>> \o <<n, p, a, b, c, d>> \o <<l, w>> \o <<t, u>> = xs
    BY ONLY ElevenJoined
  <2>4. typed = body
    BY <2>1, <2>3
  <2> HIDE DEF typed, body
  <2>5. QED
    BY <2>2, <2>4
<1>4. body = RlpList(xs) /\ \A k \in DOMAIN xs : xs[k] # Fails
  <2> HIDE DEF xs
  <2>1. QED
    BY <1>3, TriedList
<1>5. e # Fails /\ n # Fails /\ p # Fails /\ a # Fails /\ b # Fails /\ c # Fails /\ d # Fails
      /\ l # Fails /\ t # Fails /\ u # Fails
  <2> HIDE DEF e, n, p, a, b, c, d, l, w, t, u, body
  <2>1. /\ DOMAIN xs = 1 .. 11
        /\ xs[1] = e /\ xs[2] = n /\ xs[3] = p /\ xs[4] = a /\ xs[5] = b /\ xs[6] = c
        /\ xs[7] = d /\ xs[8] = l /\ xs[10] = t /\ xs[11] = u
    OBVIOUS
  <2> HIDE DEF xs
  <2>2. \A k \in 1 .. 11 : xs[k] # Fails
    BY <1>4, <2>1
  <2>3. QED
    BY <2>1, <2>2
<1>6. /\ QuantityStands(tx.chain_id) /\ QuantityStands(tx.nonce) /\ QuantityStands(price) /\ QuantityStands(tx.gas)
      /\ QuantityStands(tx.value) /\ QuantityStands(tx.r) /\ QuantityStands(tx.s)
  BY <1>1, <1>2, <1>5, QuantityFields
<1> DEFINE no == FALSE
           yes == TRUE
<1>7. /\ Field(e, no, Quantity(tx.chain_id)) /\ Field(n, no, Quantity(tx.nonce)) /\ Field(p, no, Quantity(price))
      /\ Field(a, no, Quantity(tx.gas)) /\ Field(c, no, Quantity(tx.value)) /\ Field(t, no, Quantity(tx.r))
      /\ Field(u, no, Quantity(tx.s))
  BY <1>6 DEF QuantityStands
<1>8. Field(b, no, Recipient(tx.to)) /\ (tx.to # None => Recipient(tx.to) # None)
  BY <1>1, <1>5, RecipientFields
<1>9. Field(d, no, HexBytes(tx.input))
  BY <1>1, <1>5, DataFields
<1>10. Field(w, no, Minimal(v))
  BY U64Fields DEF v
<1>11. PICK access : Field(l, yes, access)
                      /\ (Len(l) <= MaxLength => Items(access) = AccessItems(tx.access_list))
  BY <1>1, <1>5, AccessListReads
<1> DEFINE ps == <<Quantity(tx.chain_id), Quantity(tx.nonce), Quantity(price), Quantity(tx.gas), Recipient(tx.to),
                   Quantity(tx.value), HexBytes(tx.input), access, Minimal(v), Quantity(tx.r), Quantity(tx.s)>>
           kinds == <<no, no, no, no, no, no, no, yes, no, no, no>>
<1> HIDE DEF no, yes, e, n, p, a, b, c, d, l, w, t, u
<1>12. Fields(xs, kinds, ps, 11) /\ xs[8] = l
  BY ONLY <1>7, <1>8, <1>9, <1>10, <1>11, ElevenFields
<1> HIDE DEF xs, kinds, ps, body
<1> DEFINE U == 11
<1>13. U \in Nat /\ Fields(xs, kinds, ps, U) /\ 8 \in 1 .. U
  BY <1>12
<1> HIDE DEF U
<1>14. body \in Seq(Bytes) /\ (Len(body) <= MaxLength => \A k \in 1 .. U : Len(xs[k]) <= MaxLength)
  BY <1>4, <1>13, FieldsFit
<1>15. out[1] = 1 /\ Tail(out) = body /\ Len(body) \in Nat /\ Len(out) = Len(body) + 1
  <2> DEFINE z == 1
  <2>1. z \in Bytes /\ out = <<z>> \o body
    BY <1>3 DEF Bytes
  <2> HIDE DEF z
  <2>2. out[1] = z /\ Tail(out) = body /\ Len(body) \in Nat /\ Len(out) = Len(body) + 1
    BY ONLY <1>14, <2>1, EnvelopeReads
  <2>3. QED
    BY <2>2 DEF z
<1>16. Len(body) <= MaxLength
  BY <1>15, MaxLengthIsNumber
<1>17. ReadsAsList(body, ps)
  BY <1>4, <1>13, <1>16, ListReads
<1>18. Items(access) = AccessItems(tx.access_list)
  BY <1>11, <1>12, <1>13, <1>14, <1>16
<1>19. ps = Eip2930Fields(tx, access)
  BY DEF Eip2930Fields, ps, price, v
<1>20. QED
  <2>1. \A h \in {tx.chain_id, tx.nonce, price, tx.gas, tx.value, tx.r, tx.s} : QuantityStands(h)
    BY <1>6
  <2>2. QED
    BY <1>8, <1>15, <1>17, <1>18, <1>19, <2>1 DEF price

Eip1559Fields(tx, access) ==
  <<Quantity(tx.chain_id), Quantity(tx.nonce), Quantity(tx.prices.max_priority_fee_per_gas),
    Quantity(tx.prices.max_fee_per_gas),
    Quantity(tx.gas), Recipient(tx.to), Quantity(tx.value), HexBytes(tx.input), access,
    Minimal(ParseU64Hex(tx.y_parity)), Quantity(tx.r), Quantity(tx.s)>>

LEMMA Eip1559Reads ==
  ASSUME RlpAssumption, NEW tx \in Tx, tx.type = "Eip1559", "gas_price" \notin DOMAIN tx.prices,
         tx.chain_id # None, NEW out, out = Encoded(tx), out # Fails, Len(out) <= MaxLength,
         ParseU64Hex(tx.y_parity) \in 0 .. MaxU64
  PROVE  /\ \E access : /\ ReadsAsList(Tail(out), Eip1559Fields(tx, access))
                        /\ Items(access) = AccessItems(tx.access_list)
         /\ out[1] = 2
         /\ \A h \in {tx.chain_id, tx.nonce, tx.prices.max_priority_fee_per_gas,
                     tx.prices.max_fee_per_gas, tx.gas, tx.value, tx.r, tx.s} :
              QuantityStands(h)
         /\ tx.to # None => Recipient(tx.to) # None
<1> DEFINE tip == tx.prices.max_priority_fee_per_gas
           fee == tx.prices.max_fee_per_gas
           v == ParseU64Hex(tx.y_parity)
<1>1. /\ tx.nonce \in Hex /\ tx.gas \in Hex /\ tx.to \in Hex \union {None} /\ tx.chain_id \in Hex
      /\ tx.value \in Hex /\ tx.input \in Hex /\ tx.r \in Hex /\ tx.s \in Hex
      /\ tx.access_list \in Seq([address : Hex, keys : Seq(Hex)])
  BY TxTypes
<1>2. tip \in Hex /\ fee \in Hex
  BY TxTypes
<1> HIDE DEF tip, fee, v
<1> DEFINE e == RlpQuantity(tx.chain_id)
           n == RlpQuantity(tx.nonce)
           p == RlpQuantity(tip)
           o == RlpQuantity(fee)
           a == RlpQuantity(tx.gas)
           b == RlpOptionalAddress(tx.to)
           c == RlpQuantity(tx.value)
           d == RlpHexData(tx.input)
           l == RlpAccessList(tx.access_list)
           w == RlpU64(v)
           t == RlpQuantity(tx.r)
           u == RlpQuantity(tx.s)
           xs == <<e, n, p, o, a, b, c, d, l, w, t, u>>
           body == TryRlpList(xs)
<1>3. body # Fails /\ out = <<2>> \o body
  <2> DEFINE typed == TryRlpList(<<e>> \o Common(tx) \o <<l, w>> \o <<t, u>>)
  <2>1. Common(tx) = <<n, p, o, a, b, c, d>>
    BY CommonTwo DEF tip, fee
  <2>2. out = IF typed = Fails THEN Fails ELSE <<2>> \o typed
    BY DEF Encoded, v
  <2> HIDE DEF e, n, p, o, a, b, c, d, l, w, t, u
  <2>3. <<e>> \o <<n, p, o, a, b, c, d>> \o <<l, w>> \o <<t, u>> = xs
    BY ONLY TwelveJoined
  <2>4. typed = body
    BY <2>1, <2>3
  <2> HIDE DEF typed, body
  <2>5. QED
    BY <2>2, <2>4
<1>4. body = RlpList(xs) /\ \A k \in DOMAIN xs : xs[k] # Fails
  <2> HIDE DEF xs
  <2>1. QED
    BY <1>3, TriedList
<1>5. e # Fails /\ n # Fails /\ p # Fails /\ o # Fails /\ a # Fails /\ b # Fails /\ c # Fails
      /\ d # Fails /\ l # Fails /\ t # Fails /\ u # Fails
  <2> HIDE DEF e, n, p, o, a, b, c, d, l, w, t, u, body
  <2>1. /\ DOMAIN xs = 1 .. 12
        /\ xs[1] = e /\ xs[2] = n /\ xs[3] = p /\ xs[4] = o /\ xs[5] = a /\ xs[6] = b
        /\ xs[7] = c /\ xs[8] = d /\ xs[9] = l /\ xs[11] = t /\ xs[12] = u
    OBVIOUS
  <2> HIDE DEF xs
  <2>2. \A k \in 1 .. 12 : xs[k] # Fails
    BY <1>4, <2>1
  <2>3. QED
    BY <2>1, <2>2
<1>6. /\ QuantityStands(tx.chain_id) /\ QuantityStands(tx.nonce) /\ QuantityStands(tip) /\ QuantityStands(fee)
      /\ QuantityStands(tx.gas) /\ QuantityStands(tx.value) /\ QuantityStands(tx.r) /\ QuantityStands(tx.s)
  BY <1>1, <1>2, <1>5, QuantityFields
<1> DEFINE no == FALSE
           yes == TRUE
<1>7. /\ Field(e, no, Quantity(tx.chain_id)) /\ Field(n, no, Quantity(tx.nonce)) /\ Field(p, no, Quantity(tip))
      /\ Field(o, no, Quantity(fee)) /\ Field(a, no, Quantity(tx.gas)) /\ Field(c, no, Quantity(tx.value))
      /\ Field(t, no, Quantity(tx.r)) /\ Field(u, no, Quantity(tx.s))
  BY <1>6 DEF QuantityStands
<1>8. Field(b, no, Recipient(tx.to)) /\ (tx.to # None => Recipient(tx.to) # None)
  BY <1>1, <1>5, RecipientFields
<1>9. Field(d, no, HexBytes(tx.input))
  BY <1>1, <1>5, DataFields
<1>10. Field(w, no, Minimal(v))
  BY U64Fields DEF v
<1>11. PICK access : Field(l, yes, access)
                      /\ (Len(l) <= MaxLength => Items(access) = AccessItems(tx.access_list))
  BY <1>1, <1>5, AccessListReads
<1> DEFINE ps == <<Quantity(tx.chain_id), Quantity(tx.nonce), Quantity(tip), Quantity(fee),
                   Quantity(tx.gas), Recipient(tx.to),
                   Quantity(tx.value), HexBytes(tx.input), access, Minimal(v), Quantity(tx.r), Quantity(tx.s)>>
           kinds == <<no, no, no, no, no, no, no, no, yes, no, no, no>>
<1> HIDE DEF no, yes, e, n, p, o, a, b, c, d, l, w, t, u
<1>12. Fields(xs, kinds, ps, 12) /\ xs[9] = l
  BY ONLY <1>7, <1>8, <1>9, <1>10, <1>11, TwelveFields
<1> HIDE DEF xs, kinds, ps, body
<1> DEFINE U == 12
<1>13. U \in Nat /\ Fields(xs, kinds, ps, U) /\ 9 \in 1 .. U
  BY <1>12
<1> HIDE DEF U
<1>14. body \in Seq(Bytes) /\ (Len(body) <= MaxLength => \A k \in 1 .. U : Len(xs[k]) <= MaxLength)
  BY <1>4, <1>13, FieldsFit
<1>15. out[1] = 2 /\ Tail(out) = body /\ Len(body) \in Nat /\ Len(out) = Len(body) + 1
  <2> DEFINE z == 2
  <2>1. z \in Bytes /\ out = <<z>> \o body
    BY <1>3 DEF Bytes
  <2> HIDE DEF z
  <2>2. out[1] = z /\ Tail(out) = body /\ Len(body) \in Nat /\ Len(out) = Len(body) + 1
    BY ONLY <1>14, <2>1, EnvelopeReads
  <2>3. QED
    BY <2>2 DEF z
<1>16. Len(body) <= MaxLength
  BY <1>15, MaxLengthIsNumber
<1>17. ReadsAsList(body, ps)
  BY <1>4, <1>13, <1>16, ListReads
<1>18. Items(access) = AccessItems(tx.access_list)
  BY <1>11, <1>12, <1>13, <1>14, <1>16
<1>19. ps = Eip1559Fields(tx, access)
  BY DEF Eip1559Fields, ps, tip, fee, v
<1>20. QED
  <2>1. \A h \in {tx.chain_id, tx.nonce, tip, fee, tx.gas, tx.value, tx.r, tx.s} : QuantityStands(h)
    BY <1>6
  <2>2. QED
    BY <1>8, <1>15, <1>17, <1>18, <1>19, <2>1 DEF tip, fee

(* The columns that every type has, from a list whose fields are known.    *)
CommonIn(fs, at, rest, row) ==
  /\ NumberIn(fs[at + 1]) = row.nonce /\ NumberIn(fs[rest + 1]) = row.gas
  /\ fs[rest + 2] = (IF row.to_address = None THEN << >> ELSE row.to_address)
  /\ NumberIn(fs[rest + 3]) = row.value /\ fs[rest + 4] = HexBytes(row.input)
  /\ <<NumberIn(fs[Len(fs) - 1]), NumberIn(fs[Len(fs)])>> = SubSeq(row.signature, 1, 2)

LEMMA FirstTwo ==
  ASSUME NEW S, NEW a \in S, NEW b \in S, NEW c \in S PROVE SubSeq(<<a, b, c>>, 1, 2) = <<a, b>>
<1> DEFINE f == <<a, b, c>>
           g == SubSeq(f, 1, 2)
           h == <<a, b>>
<1>1. f \in Seq(S) /\ Len(f) = 3 /\ f[1] = a /\ f[2] = b
  OBVIOUS
<1>2. h \in Seq(S) /\ Len(h) = 2 /\ h[1] = a /\ h[2] = b
  OBVIOUS
<1> HIDE DEF f, h
<1>3. g \in Seq(S) /\ Len(g) = 2 /\ g[1] = f[1] /\ g[2] = f[2]
  BY <1>1, SubSeqProperties
<1> HIDE DEF g
<1>4. \A i \in 1 .. 2 : g[i] = h[i]
  BY <1>1, <1>2, <1>3
<1>5. g = h
  BY <1>2, <1>3, <1>4, SeqEqual
<1>6. QED
  BY <1>5 DEF f, g, h

LEMMA CommonStands ==
  ASSUME RlpAssumption, NEW tx \in Tx, NEW row, row = TransactionRow(tx, TRUE), row # NoRow,
         \A h \in {tx.nonce, tx.gas, tx.value, tx.r, tx.s} : QuantityStands(h),
         tx.to # None => Recipient(tx.to) # None,
         NEW fs, NEW at, NEW rest, NEW last, last = Len(fs), fs[at + 1] = Quantity(tx.nonce),
         fs[rest + 1] = Quantity(tx.gas), fs[rest + 2] = Recipient(tx.to),
         fs[rest + 3] = Quantity(tx.value), fs[rest + 4] = HexBytes(tx.input),
         fs[last - 1] = Quantity(tx.r), fs[last] = Quantity(tx.s)
  PROVE  CommonIn(fs, at, rest, row)
<1>1. Columns(row, tx)
  BY RowReads
<1>2. /\ ParseU64Hex(tx.nonce) # NoU64 /\ ParseU64Hex(tx.gas) # NoU64
      /\ row.nonce = ParseU64Hex(tx.nonce) /\ row.gas = ParseU64Hex(tx.gas)
      /\ row.to_address = (IF tx.to = None THEN None ELSE HexBytes(tx.to))
      /\ row.value = Uint256(tx.value) /\ row.input = tx.input
      /\ row.signature = <<Uint256(tx.r), Uint256(tx.s), ParseU64Hex(tx.y_parity)>>
  BY <1>1 DEF Columns
<1>3. ASSUME NEW h \in {tx.nonce, tx.gas}
      PROVE  NumberIn(Quantity(h)) = ParseU64Hex(h)
  <2> DEFINE n == ParseU64Hex(h)
  <2>1. h \in Hex /\ n = ParseU64Hex(h) /\ n # NoU64
    BY <1>2, TxTypes
  <2> HIDE DEF n
  <2>2. IsHex(h) => n = ValueOfHex(h)
    BY <2>1, ParsedU64
  <2>3. IsHex(h) /\ NumberIn(Quantity(h)) = ValueOfHex(h)
    BY DEF QuantityStands
  <2>4. QED
    BY <2>2, <2>3 DEF n
<1>4. \A h \in {tx.value, tx.r, tx.s} : NumberIn(Quantity(h)) = Uint256(h)
  BY DEF QuantityStands
<1>5. NumberIn(fs[at + 1]) = row.nonce /\ NumberIn(fs[rest + 1]) = row.gas
  BY <1>2, <1>3
<1>6. fs[rest + 2] = (IF row.to_address = None THEN << >> ELSE row.to_address)
  BY <1>2 DEF Recipient
<1>7. NumberIn(fs[rest + 3]) = row.value /\ fs[rest + 4] = HexBytes(row.input)
  BY <1>2, <1>4
<1>8. <<NumberIn(fs[last - 1]), NumberIn(fs[last])>> = SubSeq(row.signature, 1, 2)
  <2> DEFINE a == Uint256(tx.r)
             b == Uint256(tx.s)
             c == ParseU64Hex(tx.y_parity)
             S == {a, b, c}
  <2>1. row.signature = <<a, b, c>>
    BY <1>2
  <2>2. a \in S /\ b \in S /\ c \in S
    OBVIOUS
  <2>3. NumberIn(fs[last - 1]) = a /\ NumberIn(fs[last]) = b
    BY <1>4
  <2> HIDE DEF a, b, c, S
  <2>4. SubSeq(<<a, b, c>>, 1, 2) = <<a, b>>
    BY <2>2, FirstTwo
  <2>5. QED
    BY <2>1, <2>3, <2>4
<1>9. QED
  BY <1>5, <1>6, <1>7, <1>8 DEF CommonIn

(* v of a legacy transaction is two things at once.                        *)
LEMMA FromV ==
  ASSUME NEW parity \in {0, 1}, NEW chain \in Nat
  PROVE  /\ parity + 27 < 35 /\ (parity + 27) - 27 = parity
         /\ LET v == parity + (chain * 2 + 35)
            IN  ~ (v < 35) /\ (v - 35) \div 2 = chain /\ (v - 35) % 2 = parity
<1> DEFINE v == parity + (chain * 2 + 35)
<1>1. v - 35 = 2 * chain + parity /\ ~ (v < 35)
  OBVIOUS
<1> HIDE DEF v
<1>2. (2 * chain + parity) \div 2 = chain /\ (2 * chain + parity) % 2 = parity
  OBVIOUS
<1>3. QED
  BY <1>1, <1>2 DEF v

LEMMA LegacyVReads ==
  ASSUME RlpAssumption, NEW tx \in Tx, NEW row, row = TransactionRow(tx, TRUE), row # NoRow,
         ParseU64Hex(tx.y_parity) \in {0, 1}, NEW v, v = LegacyV(tx)
  PROVE  /\ v \in Nat
         /\ row.chain_id = (IF v < 35 THEN None ELSE <<(v - 35) \div 2>>)
         /\ row.signature[3] = (IF v < 35 THEN v - 27 ELSE (v - 35) % 2)
<1> DEFINE parity == ParseU64Hex(tx.y_parity)
           chain == ParseU64Hex(tx.chain_id)
<1>1. parity \in {0, 1}
  OBVIOUS
<1>2. /\ row.chain_id = (IF tx.chain_id = None THEN None ELSE <<chain>>)
      /\ row.signature[3] = parity
      /\ tx.chain_id # None => chain # NoU64
  <2>1. Columns(row, tx)
    BY RowReads
  <2> DEFINE a == Uint256(tx.r)
             b == Uint256(tx.s)
  <2>2. row.signature = <<a, b, parity>>
    BY <2>1 DEF Columns
  <2> HIDE DEF a, b, parity
  <2>3. row.signature[3] = parity
    BY ONLY <2>2
  <2> HIDE DEF chain
  <2>4. /\ row.chain_id = (IF tx.chain_id = None THEN None ELSE <<chain>>)
        /\ tx.chain_id # None => chain # NoU64
    BY <2>1 DEF Columns, chain
  <2>5. QED
    BY <2>3, <2>4
<1>3. v = parity + IF tx.chain_id = None THEN 27 ELSE chain * 2 + 35
  BY DEF LegacyV
<1>4. tx.chain_id # None => chain \in Nat
  <2>1. SUFFICES ASSUME tx.chain_id # None PROVE chain \in Nat
    OBVIOUS
  <2> DEFINE h == tx.chain_id
  <2>2. h \in Hex /\ chain = ParseU64Hex(h) /\ chain # NoU64
    BY <1>2, <2>1, TxTypes
  <2> HIDE DEF h, chain
  <2>3. chain \in 0 .. MaxU64
    BY <2>2, ParsedU64
  <2>4. QED
    BY <2>3
<1> HIDE DEF parity, chain
<1>5. CASE tx.chain_id = None
  <2>1. v = parity + 27
    BY <1>3, <1>5
  <2>2. v \in Nat /\ v < 35 /\ v - 27 = parity
    BY <1>1, <2>1
  <2>3. QED
    BY <1>2, <1>5, <2>2
<1>6. CASE tx.chain_id # None
  <2>1. v = parity + (chain * 2 + 35) /\ chain \in Nat
    BY <1>3, <1>4, <1>6
  <2>2. v \in Nat /\ ~ (v < 35) /\ (v - 35) \div 2 = chain /\ (v - 35) % 2 = parity
    BY <1>1, <2>1, FromV
  <2>3. QED
    BY <1>2, <1>6, <2>2
<1>7. QED
  BY <1>5, <1>6

(* The fees stand in the order of their names.                             *)
Place(fees, c) == CHOOSE i \in DOMAIN fees : fees[i] = c

PricesIn(fs, at, fees, row) ==
  \A c \in PriceColumns : row.prices[c] =
    IF c \in Range(fees) THEN <<NumberIn(fs[at + 1 + Place(fees, c)])>> ELSE None

LEMMA OnePrice ==
  ASSUME NEW tx \in Tx, NEW row, Columns(row, tx), "gas_price" \in DOMAIN tx.prices,
         QuantityStands(tx.prices.gas_price), NEW fs, NEW at, fs[at + 1 + 1] = Quantity(tx.prices.gas_price),
         NEW fees, fees = <<"gas_price">>
  PROVE  PricesIn(fs, at, fees, row)
<1> DEFINE price == tx.prices.gas_price
<1>1. DOMAIN tx.prices = {"gas_price"}
  BY TxTypes
<1>2. DOMAIN fees = {1} /\ fees[1] = "gas_price"
  OBVIOUS
<1>3. Range(fees) = {"gas_price"} /\ Place(fees, "gas_price") = 1
  BY <1>2 DEF Range, Place
<1>4. NumberIn(fs[at + 1 + 1]) = Uint256(price)
  BY DEF QuantityStands
<1>5. ASSUME NEW c \in PriceColumns
      PROVE  row.prices[c] = IF c \in Range(fees) THEN <<NumberIn(fs[at + 1 + Place(fees, c)])>> ELSE None
  <2>1. row.prices[c] = IF c \in DOMAIN tx.prices THEN <<Uint256(tx.prices[c])>> ELSE None
    BY DEF Columns
  <2>2. CASE c = "gas_price"
    BY <1>1, <1>3, <1>4, <2>1, <2>2
  <2>3. CASE c # "gas_price"
    BY <1>1, <1>3, <2>1, <2>3
  <2>4. QED
    BY <2>2, <2>3
<1>6. QED
  BY <1>5 DEF PricesIn

LEMMA TwoPrices ==
  ASSUME NEW tx \in Tx, NEW row, Columns(row, tx), "gas_price" \notin DOMAIN tx.prices,
         QuantityStands(tx.prices.max_priority_fee_per_gas), QuantityStands(tx.prices.max_fee_per_gas),
         NEW fs, NEW at, fs[at + 1 + 1] = Quantity(tx.prices.max_priority_fee_per_gas),
         fs[at + 1 + 2] = Quantity(tx.prices.max_fee_per_gas),
         NEW fees, fees = <<"max_priority_fee_per_gas", "max_fee_per_gas">>
  PROVE  PricesIn(fs, at, fees, row)
<1>1. DOMAIN tx.prices = {"max_fee_per_gas", "max_priority_fee_per_gas"}
  BY TxTypes
<1>2. /\ DOMAIN fees = {1, 2} /\ fees[1] = "max_priority_fee_per_gas" /\ fees[2] = "max_fee_per_gas"
  OBVIOUS
<1>3. /\ Range(fees) = {"max_fee_per_gas", "max_priority_fee_per_gas"}
      /\ Place(fees, "max_priority_fee_per_gas") = 1 /\ Place(fees, "max_fee_per_gas") = 2
  BY <1>2 DEF Range, Place
<1>4. /\ NumberIn(fs[at + 1 + 1]) = Uint256(tx.prices.max_priority_fee_per_gas)
      /\ NumberIn(fs[at + 1 + 2]) = Uint256(tx.prices.max_fee_per_gas)
  BY DEF QuantityStands
<1>5. ASSUME NEW c \in PriceColumns
      PROVE  row.prices[c] = IF c \in Range(fees) THEN <<NumberIn(fs[at + 1 + Place(fees, c)])>> ELSE None
  <2>1. row.prices[c] = IF c \in DOMAIN tx.prices THEN <<Uint256(tx.prices[c])>> ELSE None
    BY DEF Columns
  <2>2. CASE c = "max_priority_fee_per_gas"
    BY <1>1, <1>3, <1>4, <2>1, <2>2
  <2>3. CASE c = "max_fee_per_gas"
    BY <1>1, <1>3, <1>4, <2>1, <2>3
  <2>4. CASE c \notin {"max_priority_fee_per_gas", "max_fee_per_gas"}
    BY <1>1, <1>3, <2>1, <2>4
  <2>5. QED
    BY <2>2, <2>3, <2>4
<1>6. QED
  BY <1>5 DEF PricesIn

(* The two kinds of envelopes, field by field.                             *)
LEMMA LegacyColumns ==
  ASSUME NEW fs, NEW row, CommonIn(fs, 0, 2, row), PricesIn(fs, 0, Fees("Legacy"), row), Len(fs) = 9,
         row.chain_id = (IF NumberIn(fs[7]) < 35 THEN None ELSE <<(NumberIn(fs[7]) - 35) \div 2>>),
         row.signature[3] = (IF NumberIn(fs[7]) < 35 THEN NumberIn(fs[7]) - 27
                             ELSE (NumberIn(fs[7]) - 35) % 2)
  PROVE  ColumnsIn(fs, "Legacy", row)
<1> DEFINE type == "Legacy"
           at == IF type = "Legacy" THEN 0 ELSE 1
           fees == Fees(type)
           rest == at + 1 + Len(fees)
           v == NumberIn(fs[rest + 5])
           last == Len(fs)
<1>1. at = 0 /\ type = "Legacy" /\ fees = Fees("Legacy")
  OBVIOUS
<1>2. rest = 2 /\ rest + 5 = 7 /\ last = rest + 7
  <2>1. Len(fees) = 1
    BY DEF Fees
  <2> HIDE DEF fees
  <2>2. rest = 2
    BY <2>1
  <2> HIDE DEF rest
  <2>3. QED
    BY <2>2
<1> HIDE DEF type, at, fees, rest
<1>3. /\ NumberIn(fs[at + 1]) = row.nonce /\ NumberIn(fs[rest + 1]) = row.gas
      /\ fs[rest + 2] = (IF row.to_address = None THEN << >> ELSE row.to_address)
      /\ NumberIn(fs[rest + 3]) = row.value /\ fs[rest + 4] = HexBytes(row.input)
      /\ <<NumberIn(fs[last - 1]), NumberIn(fs[last])>> = SubSeq(row.signature, 1, 2)
  BY <1>1, <1>2 DEF CommonIn
<1>4. \A c \in PriceColumns : row.prices[c] =
        IF c \in Range(fees) THEN <<NumberIn(fs[at + 1 + CHOOSE i \in DOMAIN fees : fees[i] = c])>> ELSE None
  BY <1>1 DEF PricesIn, Place
<1>5. /\ row.chain_id = (IF v < 35 THEN None ELSE <<(v - 35) \div 2>>)
      /\ row.signature[3] = (IF v < 35 THEN v - 27 ELSE (v - 35) % 2)
  BY <1>2
<1> HIDE DEF v, last
<1>6. ColumnsIn(fs, type, row)
  BY <1>1, <1>2, <1>3, <1>4, <1>5 DEF ColumnsIn, at, fees, rest, v, last
<1>7. QED
  BY <1>1, <1>6

LEMMA TypedColumns ==
  ASSUME NEW fs, NEW row, NEW type \in {"Eip2930", "Eip1559"}, NEW rest \in {3, 4}, NEW last,
         rest = 2 + Len(Fees(type)), last = rest + 8, last = Len(fs),
         CommonIn(fs, 1, rest, row), PricesIn(fs, 1, Fees(type), row),
         <<NumberIn(fs[1])>> = row.chain_id, NumberIn(fs[last - 2]) = row.signature[3],
         Items(fs[rest + 5]) = AccessItems(row.access_list)
  PROVE  ColumnsIn(fs, type, row)
<1> DEFINE at == IF type = "Legacy" THEN 0 ELSE 1
           fees == Fees(type)
           back == at + 1 + Len(fees)
<1>1. at = 1 /\ type # "Legacy" /\ fees = Fees(type)
  OBVIOUS
<1>2. back = rest
  BY <1>1
<1> HIDE DEF at, fees
<1>3. /\ NumberIn(fs[at + 1]) = row.nonce /\ NumberIn(fs[rest + 1]) = row.gas
      /\ fs[rest + 2] = (IF row.to_address = None THEN << >> ELSE row.to_address)
      /\ NumberIn(fs[rest + 3]) = row.value /\ fs[rest + 4] = HexBytes(row.input)
      /\ <<NumberIn(fs[last - 1]), NumberIn(fs[last])>> = SubSeq(row.signature, 1, 2)
  BY <1>1 DEF CommonIn
<1>4. \A c \in PriceColumns : row.prices[c] =
        IF c \in Range(fees) THEN <<NumberIn(fs[at + 1 + CHOOSE i \in DOMAIN fees : fees[i] = c])>> ELSE None
  BY <1>1 DEF PricesIn, Place
<1>5. Items(fs[rest + 5]) = [i \in DOMAIN row.access_list |->
        LET item == row.access_list[i] IN
          RlpBytes(HexBytes(item.address))
            \o RlpList([k \in DOMAIN item.keys |-> RlpBytes(HexBytes(item.keys[k]))])]
  BY DEF AccessItems
<1>6. QED
  BY <1>1, <1>2, <1>3, <1>4, <1>5 DEF ColumnsIn, at, fees, back

(* What RowMatchesHash says of a preimage and a row.                       *)
Agree(out, row) ==
  LET body == ListIn(out)
      item == ItemAt(body, 1)
  IN  /\ item.list /\ item.last = Len(body)
      /\ row.transaction_type = TypeOf(out)
      /\ ColumnsIn(Items(Payload(body, item)), TypeOf(out), row)

LEMMA ListAgrees ==
  ASSUME NEW out, NEW row, NEW body, body = ListIn(out), NEW fs, ReadsAsList(body, fs),
         NEW type, type = TypeOf(out), row.transaction_type = type, ColumnsIn(fs, type, row)
  PROVE  Agree(out, row)
BY DEF Agree, ReadsAsList

LEMMA LegacyAgrees ==
  ASSUME RlpAssumption, NEW tx \in Tx, tx.type = "Legacy", "gas_price" \in DOMAIN tx.prices,
         NEW out, out = SignedTransaction(tx), out # Fails, Len(out) <= MaxLength,
         NEW row, row = TransactionRow(tx, TRUE), row # NoRow
  PROVE  Agree(out, row)
<1> DEFINE v == LegacyV(tx)
           fs == LegacyFields(tx)
<1>1. /\ out = Encoded(tx) /\ ParseU64Hex(tx.y_parity) \in {0, 1} /\ ~ (v > MaxU64)
  BY SignedReads
<1>2. Columns(row, tx)
  BY RowReads
<1>3. /\ v \in Nat
      /\ row.chain_id = (IF v < 35 THEN None ELSE <<(v - 35) \div 2>>)
      /\ row.signature[3] = (IF v < 35 THEN v - 27 ELSE (v - 35) % 2)
  BY <1>1, LegacyVReads
<1>4. v \in 0 .. MaxU64
  BY <1>1, <1>3 DEF RlpAssumption
<1>5. /\ ReadsAsList(out, fs)
      /\ \A h \in {tx.nonce, tx.prices.gas_price, tx.gas, tx.value, tx.r, tx.s} : QuantityStands(h)
      /\ tx.to # None => Recipient(tx.to) # None
  BY <1>1, <1>4, LegacyReads
<1>6. /\ Len(fs) = 9 /\ fs[1] = Quantity(tx.nonce) /\ fs[2] = Quantity(tx.prices.gas_price)
      /\ fs[3] = Quantity(tx.gas) /\ fs[4] = Recipient(tx.to) /\ fs[5] = Quantity(tx.value)
      /\ fs[6] = HexBytes(tx.input) /\ fs[7] = Minimal(v) /\ fs[8] = Quantity(tx.r)
      /\ fs[9] = Quantity(tx.s)
  BY DEF LegacyFields
<1> HIDE DEF v, fs
<1>7. CommonIn(fs, 0, 2, row)
  <2> DEFINE at == 0
             rest == 2
             last == 9
  <2>1. /\ last = Len(fs) /\ fs[at + 1] = Quantity(tx.nonce) /\ fs[rest + 1] = Quantity(tx.gas)
        /\ fs[rest + 2] = Recipient(tx.to) /\ fs[rest + 3] = Quantity(tx.value)
        /\ fs[rest + 4] = HexBytes(tx.input) /\ fs[last - 1] = Quantity(tx.r)
        /\ fs[last] = Quantity(tx.s)
    BY <1>6
  <2> HIDE DEF at, rest, last
  <2>2. \A h \in {tx.nonce, tx.gas, tx.value, tx.r, tx.s} : QuantityStands(h)
    BY <1>5
  <2>3. CommonIn(fs, at, rest, row)
    BY <1>5, <2>1, <2>2, CommonStands
  <2>4. QED
    BY <2>3 DEF at, rest
<1>8. PricesIn(fs, 0, Fees("Legacy"), row)
  <2> DEFINE at == 0
             fees == Fees("Legacy")
  <2>1. fees = <<"gas_price">> /\ fs[at + 1 + 1] = Quantity(tx.prices.gas_price)
    BY <1>6 DEF Fees
  <2> HIDE DEF at, fees
  <2>2. QuantityStands(tx.prices.gas_price)
    BY <1>5
  <2>3. PricesIn(fs, at, fees, row)
    BY <1>2, <2>1, <2>2, OnePrice
  <2>4. QED
    BY <2>3 DEF at, fees
<1>9. NumberIn(fs[7]) = v
  BY <1>4, <1>6, U64Fields
<1>10. ColumnsIn(fs, "Legacy", row)
  BY <1>3, <1>6, <1>7, <1>8, <1>9, LegacyColumns
<1>11. ListIn(out) = out /\ TypeOf(out) = "Legacy"
  <2> DEFINE b == out[1]
  <2>1. b \in 192 .. 255
    BY <1>5 DEF ReadsAsList, BeginsList
  <2> HIDE DEF b
  <2>2. ~ (b < 3) /\ b # 1 /\ b # 2
    BY <2>1
  <2>3. QED
    BY <2>2 DEF ListIn, TypeOf, b
<1>12. row.transaction_type = "Legacy"
  BY <1>2 DEF Columns
<1>13. QED
  BY <1>5, <1>10, <1>11, <1>12, ListAgrees

LEMMA ParityStands ==
  ASSUME RlpAssumption, NEW tx \in Tx, NEW row, row = TransactionRow(tx, TRUE), row # NoRow
  PROVE  /\ ParseU64Hex(tx.y_parity) \in 0 .. MaxU64
         /\ NumberIn(Minimal(ParseU64Hex(tx.y_parity))) = row.signature[3]
<1> DEFINE h == tx.y_parity
           n == ParseU64Hex(h)
<1>1. Columns(row, tx)
  BY RowReads
<1>2. h \in Hex /\ n = ParseU64Hex(h) /\ n # NoU64
  BY <1>1, TxTypes DEF Columns
<1>3. n = row.signature[3]
  <2> DEFINE a == Uint256(tx.r)
             b == Uint256(tx.s)
  <2>1. row.signature = <<a, b, n>>
    BY <1>1 DEF Columns
  <2> HIDE DEF a, b, n
  <2>2. QED
    BY ONLY <2>1
<1> HIDE DEF h, n
<1>4. n \in 0 .. MaxU64
  BY <1>2, ParsedU64
<1>5. NumberIn(Minimal(n)) = n
  BY <1>4, U64Fields
<1>6. QED
  BY <1>3, <1>4, <1>5 DEF n, h

LEMMA ChainStands ==
  ASSUME RlpAssumption, NEW tx \in Tx, NEW row, row = TransactionRow(tx, TRUE), row # NoRow,
         tx.chain_id # None, QuantityStands(tx.chain_id)
  PROVE  <<NumberIn(Quantity(tx.chain_id))>> = row.chain_id
<1> DEFINE h == tx.chain_id
           n == ParseU64Hex(h)
<1>1. Columns(row, tx)
  BY RowReads
<1>2. h \in Hex /\ n = ParseU64Hex(h) /\ n # NoU64 /\ row.chain_id = <<n>>
  BY <1>1, TxTypes DEF Columns
<1>3. IsHex(h) /\ NumberIn(Quantity(h)) = ValueOfHex(h)
  BY DEF QuantityStands
<1> HIDE DEF h, n
<1>4. n = ValueOfHex(h)
  BY <1>2, <1>3, ParsedU64
<1>5. QED
  BY <1>2, <1>3, <1>4 DEF h

LEMMA Eip2930Agrees ==
  ASSUME RlpAssumption, NEW tx \in Tx, tx.type = "Eip2930", "gas_price" \in DOMAIN tx.prices,
         tx.chain_id # None, NEW out, out = SignedTransaction(tx), out # Fails, Len(out) <= MaxLength,
         NEW row, row = TransactionRow(tx, TRUE), row # NoRow
  PROVE  Agree(out, row)
<1>1. out = Encoded(tx)
  BY SignedReads
<1>2. Columns(row, tx)
  BY RowReads
<1>3. /\ ParseU64Hex(tx.y_parity) \in 0 .. MaxU64
      /\ NumberIn(Minimal(ParseU64Hex(tx.y_parity))) = row.signature[3]
  BY ParityStands
<1>4. /\ \E access : /\ ReadsAsList(Tail(out), Eip2930Fields(tx, access))
                     /\ Items(access) = AccessItems(tx.access_list)
      /\ out[1] = 1
      /\ \A h \in {tx.chain_id, tx.nonce, tx.prices.gas_price, tx.gas, tx.value, tx.r, tx.s} :
           QuantityStands(h)
      /\ tx.to # None => Recipient(tx.to) # None
  BY <1>1, <1>3, Eip2930Reads
<1>5. PICK access : /\ ReadsAsList(Tail(out), Eip2930Fields(tx, access))
                    /\ Items(access) = AccessItems(tx.access_list)
  BY <1>4
<1> DEFINE fs == Eip2930Fields(tx, access)
           parity == ParseU64Hex(tx.y_parity)
<1>6. /\ Len(fs) = 11 /\ fs[1] = Quantity(tx.chain_id) /\ fs[2] = Quantity(tx.nonce)
      /\ fs[3] = Quantity(tx.prices.gas_price)
      /\ fs[4] = Quantity(tx.gas) /\ fs[5] = Recipient(tx.to) /\ fs[6] = Quantity(tx.value)
      /\ fs[7] = HexBytes(tx.input) /\ fs[8] = access /\ fs[9] = Minimal(parity)
      /\ fs[10] = Quantity(tx.r) /\ fs[11] = Quantity(tx.s)
  BY DEF Eip2930Fields
<1>7. ReadsAsList(Tail(out), fs)
  BY <1>5
<1> HIDE DEF fs, parity
<1>8. CommonIn(fs, 1, 3, row)
  <2> DEFINE at == 1
             rest == 3
             last == 11
  <2>1. /\ last = Len(fs) /\ fs[at + 1] = Quantity(tx.nonce) /\ fs[rest + 1] = Quantity(tx.gas)
        /\ fs[rest + 2] = Recipient(tx.to) /\ fs[rest + 3] = Quantity(tx.value)
        /\ fs[rest + 4] = HexBytes(tx.input) /\ fs[last - 1] = Quantity(tx.r)
        /\ fs[last] = Quantity(tx.s)
    BY <1>6
  <2> HIDE DEF at, rest, last
  <2>2. \A h \in {tx.nonce, tx.gas, tx.value, tx.r, tx.s} : QuantityStands(h)
    BY <1>4
  <2>3. CommonIn(fs, at, rest, row)
    BY <1>4, <2>1, <2>2, CommonStands
  <2>4. QED
    BY <2>3 DEF at, rest
<1>9. PricesIn(fs, 1, Fees("Eip2930"), row)
  <2> DEFINE at == 1
             fees == Fees("Eip2930")
  <2>1. fees = <<"gas_price">>
    BY DEF Fees
  <2>2. fs[at + 1 + 1] = Quantity(tx.prices.gas_price)
    BY <1>6
  <2> HIDE DEF at, fees
  <2>3. QuantityStands(tx.prices.gas_price)
    BY <1>4
  <2>4. PricesIn(fs, at, fees, row)
    BY <1>2, <2>1, <2>2, <2>3, OnePrice
  <2>5. QED
    BY <2>4 DEF at, fees
<1>10. <<NumberIn(fs[1])>> = row.chain_id
  <2>1. QuantityStands(tx.chain_id)
    BY <1>4
  <2>2. QED
    BY <1>6, <2>1, ChainStands
<1>11. row.transaction_type = "Eip2930" /\ row.access_list = tx.access_list
  BY <1>2 DEF Columns
<1>12. ColumnsIn(fs, "Eip2930", row)
  <2> DEFINE type == "Eip2930"
             rest == 3
             last == 11
  <2>1. type \in {"Eip2930", "Eip1559"} /\ rest \in {3, 4} /\ last = rest + 8 /\ last = Len(fs)
    BY <1>6
  <2>2. rest = 2 + Len(Fees(type))
    BY DEF Fees
  <2>3. CommonIn(fs, 1, rest, row) /\ PricesIn(fs, 1, Fees(type), row)
    BY <1>8, <1>9
  <2>4. fs[last - 2] = Minimal(parity) /\ fs[rest + 5] = access
    BY <1>6
  <2> HIDE DEF type, rest, last
  <2>5. NumberIn(fs[last - 2]) = row.signature[3]
    BY <1>3, <2>4 DEF parity
  <2>6. Items(fs[rest + 5]) = AccessItems(row.access_list)
    BY <1>5, <1>11, <2>4
  <2>7. ColumnsIn(fs, type, row)
    BY <1>10, <2>1, <2>2, <2>3, <2>5, <2>6, TypedColumns
  <2>8. QED
    BY <2>7 DEF type
<1>13. ListIn(out) = Tail(out) /\ TypeOf(out) = "Eip2930"
  BY <1>4 DEF ListIn, TypeOf
<1>14. QED
  BY <1>7, <1>11, <1>12, <1>13, ListAgrees

LEMMA Eip1559Agrees ==
  ASSUME RlpAssumption, NEW tx \in Tx, tx.type = "Eip1559", "gas_price" \notin DOMAIN tx.prices,
         tx.chain_id # None, NEW out, out = SignedTransaction(tx), out # Fails, Len(out) <= MaxLength,
         NEW row, row = TransactionRow(tx, TRUE), row # NoRow
  PROVE  Agree(out, row)
<1>1. out = Encoded(tx)
  BY SignedReads
<1>2. Columns(row, tx)
  BY RowReads
<1>3. /\ ParseU64Hex(tx.y_parity) \in 0 .. MaxU64
      /\ NumberIn(Minimal(ParseU64Hex(tx.y_parity))) = row.signature[3]
  BY ParityStands
<1>4. /\ \E access : /\ ReadsAsList(Tail(out), Eip1559Fields(tx, access))
                     /\ Items(access) = AccessItems(tx.access_list)
      /\ out[1] = 2
      /\ \A h \in {tx.chain_id, tx.nonce, tx.prices.max_priority_fee_per_gas,
                  tx.prices.max_fee_per_gas, tx.gas, tx.value, tx.r, tx.s} :
           QuantityStands(h)
      /\ tx.to # None => Recipient(tx.to) # None
  BY <1>1, <1>3, Eip1559Reads
<1>5. PICK access : /\ ReadsAsList(Tail(out), Eip1559Fields(tx, access))
                    /\ Items(access) = AccessItems(tx.access_list)
  BY <1>4
<1> DEFINE fs == Eip1559Fields(tx, access)
           parity == ParseU64Hex(tx.y_parity)
<1>6. /\ Len(fs) = 12 /\ fs[1] = Quantity(tx.chain_id) /\ fs[2] = Quantity(tx.nonce)
      /\ fs[3] = Quantity(tx.prices.max_priority_fee_per_gas) /\ fs[4] = Quantity(tx.prices.max_fee_per_gas)
      /\ fs[5] = Quantity(tx.gas) /\ fs[6] = Recipient(tx.to) /\ fs[7] = Quantity(tx.value)
      /\ fs[8] = HexBytes(tx.input) /\ fs[9] = access /\ fs[10] = Minimal(parity)
      /\ fs[11] = Quantity(tx.r) /\ fs[12] = Quantity(tx.s)
  BY DEF Eip1559Fields
<1>7. ReadsAsList(Tail(out), fs)
  BY <1>5
<1> HIDE DEF fs, parity
<1>8. CommonIn(fs, 1, 4, row)
  <2> DEFINE at == 1
             rest == 4
             last == 12
  <2>1. /\ last = Len(fs) /\ fs[at + 1] = Quantity(tx.nonce) /\ fs[rest + 1] = Quantity(tx.gas)
        /\ fs[rest + 2] = Recipient(tx.to) /\ fs[rest + 3] = Quantity(tx.value)
        /\ fs[rest + 4] = HexBytes(tx.input) /\ fs[last - 1] = Quantity(tx.r)
        /\ fs[last] = Quantity(tx.s)
    BY <1>6
  <2> HIDE DEF at, rest, last
  <2>2. \A h \in {tx.nonce, tx.gas, tx.value, tx.r, tx.s} : QuantityStands(h)
    BY <1>4
  <2>3. CommonIn(fs, at, rest, row)
    BY <1>4, <2>1, <2>2, CommonStands
  <2>4. QED
    BY <2>3 DEF at, rest
<1>9. PricesIn(fs, 1, Fees("Eip1559"), row)
  <2> DEFINE at == 1
             fees == Fees("Eip1559")
  <2>1. fees = <<"max_priority_fee_per_gas", "max_fee_per_gas">>
    BY DEF Fees
  <2>2. fs[at + 1 + 1] = Quantity(tx.prices.max_priority_fee_per_gas)
      /\ fs[at + 1 + 2] = Quantity(tx.prices.max_fee_per_gas)
    BY <1>6
  <2> HIDE DEF at, fees
  <2>3. QuantityStands(tx.prices.max_priority_fee_per_gas) /\ QuantityStands(tx.prices.max_fee_per_gas)
    BY <1>4
  <2>4. PricesIn(fs, at, fees, row)
    BY <1>2, <2>1, <2>2, <2>3, TwoPrices
  <2>5. QED
    BY <2>4 DEF at, fees
<1>10. <<NumberIn(fs[1])>> = row.chain_id
  <2>1. QuantityStands(tx.chain_id)
    BY <1>4
  <2>2. QED
    BY <1>6, <2>1, ChainStands
<1>11. row.transaction_type = "Eip1559" /\ row.access_list = tx.access_list
  BY <1>2 DEF Columns
<1>12. ColumnsIn(fs, "Eip1559", row)
  <2> DEFINE type == "Eip1559"
             rest == 4
             last == 12
  <2>1. type \in {"Eip2930", "Eip1559"} /\ rest \in {3, 4} /\ last = rest + 8 /\ last = Len(fs)
    BY <1>6
  <2>2. rest = 2 + Len(Fees(type))
    BY DEF Fees
  <2>3. CommonIn(fs, 1, rest, row) /\ PricesIn(fs, 1, Fees(type), row)
    BY <1>8, <1>9
  <2>4. fs[last - 2] = Minimal(parity) /\ fs[rest + 5] = access
    BY <1>6
  <2> HIDE DEF type, rest, last
  <2>5. NumberIn(fs[last - 2]) = row.signature[3]
    BY <1>3, <2>4 DEF parity
  <2>6. Items(fs[rest + 5]) = AccessItems(row.access_list)
    BY <1>5, <1>11, <2>4
  <2>7. ColumnsIn(fs, type, row)
    BY <1>10, <2>1, <2>2, <2>3, <2>5, <2>6, TypedColumns
  <2>8. QED
    BY <2>7 DEF type
<1>13. ListIn(out) = Tail(out) /\ TypeOf(out) = "Eip1559"
  BY <1>4 DEF ListIn, TypeOf
<1>14. QED
  BY <1>7, <1>11, <1>12, <1>13, ListAgrees

(***************************************************************************)
(* parse_data: for a transaction of any type, with whatever values, the    *)
(* preimage that signed_transaction_hash hashes reads back, field by       *)
(* field, as the columns that transaction_row fills, wherever the one and  *)
(* the other take the strings.                                             *)
(***************************************************************************)
THEOREM RlpRowMatchesHash ==
  ASSUME RlpAssumption, TxsAssumption PROVE RlpSpec => []RowMatchesHash
<1>1. RlpInv => RowMatchesHash
  <2> SUFFICES ASSUME RlpInv, input.kind = "tx", txRow # NoRow PROVE Agree(output, txRow)
    BY DEF RowMatchesHash, Agree
  <2> DEFINE tx == input.value
             out == output
             row == txRow
  <2>1. out = SignedTransaction(tx) /\ out # Fails /\ row = TransactionRow(tx, TRUE) /\ row # NoRow
    BY DEF RlpInv
  <2>2. tx \in Txs
    BY DEF RlpInv, Inputs
  <2> HIDE DEF tx, out, row
  <2>3. /\ tx \in Tx /\ Len(SignedTransaction(tx)) <= MaxLength
        /\ tx.type # "Legacy" => tx.chain_id # None
        /\ tx.type = "Eip1559" <=> "gas_price" \notin DOMAIN tx.prices
    BY <2>2 DEF TxsAssumption
  <2>4. Len(out) <= MaxLength
    BY <2>1, <2>3
  <2>5. tx.type \in {"Legacy", "Eip2930", "Eip1559"}
    BY <2>3, TxTypes
  <2>6. CASE tx.type = "Legacy"
    BY <2>1, <2>3, <2>4, <2>6, LegacyAgrees DEF out, row
  <2>7. CASE tx.type = "Eip2930"
    BY <2>1, <2>3, <2>4, <2>7, Eip2930Agrees DEF out, row
  <2>8. CASE tx.type = "Eip1559"
    BY <2>1, <2>3, <2>4, <2>8, Eip1559Agrees DEF out, row
  <2>9. QED
    BY <2>5, <2>6, <2>7, <2>8
<1>2. QED
  BY <1>1, RlpInvariant, PTL

=============================================================================
