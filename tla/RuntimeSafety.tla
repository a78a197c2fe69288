---------------------------- MODULE RuntimeSafety ----------------------------
(***************************************************************************)
(* What compiled code computes, for every number of bits a byte has: how   *)
(* many bytes of each number are those of Java, and what the array         *)
(* functions report and do.                                                *)
(***************************************************************************)
EXTENDS Runtime, WellFoundedInduction, TLAPS

-----------------------------------------------------------------------------
(* Quotients and remainders. *)

LEMMA Divides ==
  ASSUME NEW x \in Int, NEW p \in Nat \ {0}
  PROVE  /\ x % p \in 0 .. p - 1 /\ x \div p \in Int
         /\ x = p * (x \div p) + (x % p)
BY SMT

LEMMA DividesOnce ==
  ASSUME NEW p \in Nat \ {0}, NEW q \in Int, NEW r \in 0 .. p - 1
  PROVE  (p * q + r) % p = r /\ (p * q + r) \div p = q
<1> DEFINE x == p * q + r
<1>1. x \in Int
  BY SMT
<1>2. /\ x % p \in 0 .. p - 1 /\ x \div p \in Int
      /\ x = p * (x \div p) + (x % p)
  BY <1>1, Divides
<1> DEFINE d == x \div p - q
<1>3. d \in Int /\ p * d = r - (x % p)
  BY <1>1, <1>2, SMT
<1>4. ~(d >= 1)
  <2> SUFFICES ASSUME d >= 1 PROVE FALSE
    OBVIOUS
  <2> HIDE DEF d
  <2>1. p * d >= p
    BY <1>3, SMT
  <2> QED
    BY <1>2, <1>3, <2>1, SMT
<1>5. ~(d <= 0 - 1)
  <2> SUFFICES ASSUME d <= 0 - 1 PROVE FALSE
    OBVIOUS
  <2> HIDE DEF d
  <2>1. p * d <= 0 - p
    BY <1>3, SMT
  <2> QED
    BY <1>2, <1>3, <2>1, SMT
<1>6. d = 0
  BY <1>3, <1>4, <1>5, SMT
<1> QED
  BY <1>1, <1>2, <1>3, <1>6, SMT

(* Numbers with the same remainder differ by a multiple. *)
Same(x, y, p) == \E z \in Int : x = y + p * z

LEMMA SameRemainder ==
  ASSUME NEW x \in Int, NEW y \in Int, NEW p \in Nat \ {0}
  PROVE  Same(x, y, p) <=> x % p = y % p
<1>1. ASSUME NEW z \in Int, x = y + p * z
      PROVE  x % p = y % p
  <2> DEFINE q == y \div p
             r == y % p
  <2>1. r \in 0 .. p - 1 /\ q \in Int /\ y = p * q + r
    BY Divides
  <2> HIDE DEF q, r
  <2>2. x = p * (q + z) + r /\ q + z \in Int
    BY <1>1, <2>1, SMT
  <2>3. x % p = r
    BY <2>1, <2>2, DividesOnce
  <2>4. y % p = r
    BY <2>1, DividesOnce
  <2> QED
    BY <2>3, <2>4
<1>2. ASSUME x % p = y % p
      PROVE  \E z \in Int : x = y + p * z
  <2> DEFINE a == x \div p
             b == y \div p
             r == x % p
  <2>1. a \in Int /\ b \in Int /\ r \in Int /\ x = p * a + r /\ y = p * b + r
    BY <1>2, Divides, SMT
  <2> HIDE DEF a, b, r
  <2>2. a - b \in Int /\ x = y + p * (a - b)
    BY <2>1, SMT
  <2> QED
    BY <2>2
<1> QED
  BY <1>1, <1>2 DEF Same

LEMMA SameSums ==
  ASSUME NEW p \in Nat, NEW x \in Int, NEW y \in Int, NEW u \in Int, NEW v \in Int,
         Same(x, y, p), Same(u, v, p)
  PROVE  Same(x + u, y + v, p) /\ Same(x - u, y - v, p) /\ Same(x * u, y * v, p)
<1>1. PICK a \in Int : x = y + p * a
  BY DEF Same
<1>2. PICK b \in Int : u = v + p * b
  BY DEF Same
<1>3. a + b \in Int /\ x + u = (y + v) + p * (a + b)
  BY <1>1, <1>2, SMT
<1>4. a - b \in Int /\ x - u = (y - v) + p * (a - b)
  BY <1>1, <1>2, SMT
<1> DEFINE c == (a * v) + (y * b) + (p * (a * b))
<1>5. c \in Int /\ x * u = (y * v) + p * c
  BY <1>1, <1>2, SMT
<1> HIDE DEF c
<1> QED
  BY <1>3, <1>4, <1>5 DEF Same

-----------------------------------------------------------------------------
(* Powers of two: the recursive definition does define them. *)

LEMMA LeastOf ==
  ASSUME NEW S, S \subseteq Nat, S # {}
  PROVE  \E j \in S : \A k_1 \in S : j <= k_1
<1> DEFINE Less == {p \in Nat \X Nat : p[1] < p[2]}
<1>1. IsWellFoundedOn(Less, Nat)
  BY NatLessThanWellFounded, Zenon DEF OpToRel
<1> HIDE DEF Less
<1>2. PICK j \in S : \A k_1 \in S : ~(<<k_1, j>> \in Less)
  BY <1>1, WFMin, Zenon
<1>3. \A k_1 \in S : <<k_1, j>> \in Less <=> k_1 < j
  BY SMT DEF Less
<1>4. ASSUME NEW k_1 \in S PROVE j <= k_1
  <2>1. j \in Nat /\ k_1 \in Nat
    OBVIOUS
  <2>2. ~(k_1 < j)
    BY <1>2, <1>3, Zenon
  <2> QED
    BY <2>1, <2>2, SMT
<1> QED
  BY <1>4, Zenon

LEMMA FromZeroOn ==
  ASSUME NEW S, 0 \in S, \A n \in Nat : n \in S => n + 1 \in S
  PROVE  \A n \in Nat : n \in S
<1> DEFINE T == {n \in Nat : n \notin S}
<1> SUFFICES ASSUME T # {} PROVE FALSE
  OBVIOUS
<1>1. PICK n \in T : \A i \in T : n <= i
  BY LeastOf
<1>2. n \in Nat /\ n \notin S /\ n # 0
  OBVIOUS
<1>3. n - 1 \in Nat /\ (n - 1) + 1 = n /\ ~(n <= n - 1)
  BY <1>2, SMT
<1>4. n - 1 \in S
  BY <1>1, <1>3
<1> QED
  BY <1>2, <1>3, <1>4

(* The powers up to the n-th. *)
Powers(f, n) == f = [i \in 0 .. n |-> IF i = 0 THEN 1 ELSE 2 * f[i - 1]]

LEMMA PowersExist ==
  ASSUME NEW n \in Nat
  PROVE  \E f : Powers(f, n)
<1> DEFINE S == {j \in Nat : \E f : Powers(f, j)}
<1>1. 0 \in S
  <2> DEFINE f == [i \in 0 .. 0 |-> 1]
  <2>1. \A i \in 0 .. 0 : i = 0
    BY SMT
  <2>2. Powers(f, 0)
    BY <2>1 DEF Powers
  <2> QED
    BY <2>2
<1>2. ASSUME NEW j \in Nat, j \in S
      PROVE  j + 1 \in S
  <2>1. PICK f : Powers(f, j)
    BY <1>2
  <2> DEFINE Val(h, i) == IF i = 0 THEN 1 ELSE 2 * h[i - 1]
             g == [i \in 0 .. j + 1 |-> Val(f, i)]
  <2>2. \A i \in 0 .. j : f[i] = Val(f, i)
    BY <2>1 DEF Powers
  <2>3. \A i \in 0 .. j + 1 : i # 0 => i - 1 \in 0 .. j
    BY SMT
  <2>4. \A i \in 0 .. j : i \in 0 .. j + 1
    BY SMT
  <2>5. \A i \in 0 .. j : g[i] = f[i]
    BY <2>2, <2>4
  <2>6. g = [i \in 0 .. j + 1 |-> Val(f, i)]
    OBVIOUS
  <2> HIDE DEF g
  <2>7. \A i \in 0 .. j + 1 : Val(g, i) = Val(f, i)
    BY <2>3, <2>5
  <2> HIDE DEF Val
  <2>8. g = [i \in 0 .. j + 1 |-> Val(g, i)]
    BY <2>6, <2>7
  <2>9. Powers(g, j + 1)
    BY <2>8 DEF Powers, Val
  <2> QED
    BY <2>9
<1> HIDE DEF S
<1>3. n \in S
  BY <1>1, <1>2, FromZeroOn
<1> QED
  BY <1>3 DEF S

LEMMA PowersAgree ==
  ASSUME NEW n \in Nat, NEW f, NEW g, Powers(f, n), Powers(g, n + 1)
  PROVE  f[n] = g[n]
<1> DEFINE S == {i \in Nat : i <= n => f[i] = g[i]}
<1>1. \A i \in 0 .. n : i \in 0 .. n + 1
  BY SMT
<1>2. 0 \in S
  <2>1. 0 \in 0 .. n /\ 0 \in 0 .. n + 1
    BY SMT
  <2>2. f[0] = 1 /\ g[0] = 1
    BY <2>1 DEF Powers
  <2> QED
    BY <2>2
<1>3. ASSUME NEW i \in Nat, i \in S
      PROVE  i + 1 \in S
  <2> SUFFICES ASSUME i + 1 <= n PROVE f[i + 1] = g[i + 1]
    OBVIOUS
  <2>1. i + 1 \in 0 .. n /\ i + 1 # 0 /\ (i + 1) - 1 = i /\ i <= n
    BY SMT
  <2>2. f[i + 1] = 2 * f[i] /\ g[i + 1] = 2 * g[i]
    BY <1>1, <2>1 DEF Powers
  <2> QED
    BY <1>3, <2>1, <2>2
<1> HIDE DEF S
<1>4. n \in S
  BY <1>2, <1>3, FromZeroOn
<1> QED
  BY <1>4, SMT DEF S

LEMMA PowerNext ==
  /\ Pow2[0] = 1
  /\ \A n \in Nat : Pow2[n + 1] = 2 * Pow2[n]
<1> DEFINE F(n) == CHOOSE f : Powers(f, n)
           h == [n \in Nat |-> F(n)[n]]
           Val(f, n) == IF n = 0 THEN 1 ELSE 2 * f[n - 1]
<1>1. \A n \in Nat : Powers(F(n), n)
  BY PowersExist
<1> HIDE DEF F
<1>2. \A n \in Nat : h[n] = F(n)[n]
  OBVIOUS
<1>3. ASSUME NEW n \in Nat
      PROVE  F(n)[n] = Val(h, n)
  <2>1. n \in 0 .. n
    BY SMT
  <2>2. F(n)[n] = IF n = 0 THEN 1 ELSE 2 * F(n)[n - 1]
    BY <1>1, <2>1 DEF Powers
  <2>3. CASE n = 0
    BY <2>2, <2>3
  <2>4. CASE n # 0
    <3> DEFINE p == n - 1
    <3>1. p \in Nat /\ p + 1 = n
      BY <2>4, SMT
    <3> HIDE DEF p
    <3>2. F(p)[p] = F(n)[p]
      BY <1>1, <3>1, PowersAgree
    <3>3. h[p] = F(p)[p]
      BY <1>2, <3>1
    <3> HIDE DEF h
    <3> QED
      BY <2>2, <2>4, <3>2, <3>3 DEF p
  <2> QED
    BY <2>3, <2>4
<1>4. h = [n \in Nat |-> Val(h, n)]
  <2>1. h = [n \in Nat |-> F(n)[n]]
    OBVIOUS
  <2> HIDE DEF h, Val
  <2> QED
    BY <1>3, <2>1
<1> HIDE DEF h
<1>5. Pow2 = [n \in Nat |-> IF n = 0 THEN 1 ELSE 2 * Pow2[n - 1]]
  BY <1>4 DEF Pow2
<1>6. Pow2[0] = 1
  BY <1>5
<1>7. ASSUME NEW n \in Nat
      PROVE  Pow2[n + 1] = 2 * Pow2[n]
  <2>1. n + 1 \in Nat /\ n + 1 # 0 /\ (n + 1) - 1 = n
    BY SMT
  <2> QED
    BY <1>5, <2>1
<1> QED
  BY <1>6, <1>7

LEMMA PowersAre ==
  \A n \in Nat : Pow2[n] \in Nat \ {0}
<1> DEFINE S == {n \in Nat : Pow2[n] \in Nat \ {0}}
<1>1. 0 \in S
  BY PowerNext
<1>2. \A n \in Nat : n \in S => n + 1 \in S
  BY PowerNext, SMT
<1> HIDE DEF S
<1>3. \A n \in Nat : n \in S
  BY <1>1, <1>2, FromZeroOn
<1> QED
  BY <1>3 DEF S

LEMMA PowerOfSum ==
  \A a, n \in Nat : Pow2[a + n] = Pow2[a] * Pow2[n]
<1> SUFFICES ASSUME NEW a \in Nat PROVE \A n \in Nat : Pow2[a + n] = Pow2[a] * Pow2[n]
  OBVIOUS
<1> DEFINE S == {n \in Nat : Pow2[a + n] = Pow2[a] * Pow2[n]}
<1>1. 0 \in S
  <2>1. a + 0 = a /\ Pow2[a] * 1 = Pow2[a]
    BY PowersAre, SMT
  <2> QED
    BY <2>1, PowerNext
<1>2. ASSUME NEW n \in Nat, n \in S
      PROVE  n + 1 \in S
  <2>1. a + (n + 1) = (a + n) + 1 /\ a + n \in Nat
    BY SMT
  <2>2. Pow2[a + (n + 1)] = 2 * Pow2[a + n] /\ Pow2[n + 1] = 2 * Pow2[n]
    BY <2>1, PowerNext
  <2>3. Pow2[a] \in Nat /\ Pow2[n] \in Nat
    BY PowersAre
  <2>4. 2 * (Pow2[a] * Pow2[n]) = Pow2[a] * (2 * Pow2[n])
    BY <2>3, SMT
  <2> QED
    BY <1>2, <2>2, <2>4
<1> HIDE DEF S
<1>3. \A n \in Nat : n \in S
  BY <1>1, <1>2, FromZeroOn
<1> QED
  BY <1>3 DEF S

-----------------------------------------------------------------------------
(* How many numbers some bytes can hold. *)

LEMMA ModulusIs ==
  ASSUME NEW n \in 0 .. 8
  PROVE  ByteBits * n \in Nat /\ Modulus(n) = Pow2[ByteBits * n] /\ Modulus(n) \in Nat \ {0}
<1>1. ByteBits * n \in Nat
  BY ByteAssumption, SMT
<1> QED
  BY <1>1, PowersAre DEF Modulus, Moduli

LEMMA MoreBytes ==
  ASSUME NEW n \in 0 .. 8, NEW t \in 0 .. 8, t <= n
  PROVE  \E k \in Nat \ {0} : Modulus(n) = Modulus(t) * k
<1> DEFINE a == ByteBits * t
           b == ByteBits * (n - t)
<1>1. a \in Nat /\ b \in Nat /\ ByteBits * n = a + b
  <2>1. n - t \in Nat /\ n = t + (n - t)
    BY SMT
  <2>2. ByteBits * (t + (n - t)) = ByteBits * t + ByteBits * (n - t)
    BY <2>1, ByteAssumption, SMT
  <2>3. a \in Nat
    BY ByteAssumption, SMT
  <2>4. b \in Nat
    BY <2>1, ByteAssumption, SMT
  <2> QED
    BY <2>1, <2>2, <2>3, <2>4
<1>2. Modulus(n) = Pow2[a + b] /\ Modulus(t) = Pow2[a]
  BY <1>1, ModulusIs
<1> HIDE DEF a, b
<1>3. Pow2[a + b] = Pow2[a] * Pow2[b] /\ Pow2[b] \in Nat \ {0}
  BY <1>1, PowerOfSum, PowersAre
<1> QED
  BY <1>2, <1>3

LEMMA ModuliAre ==
  /\ Modulus(0) = 1
  /\ \A n \in 1 .. 8 : \E h \in Nat \ {0} : Modulus(n) = 2 * h
  /\ Modulus(4) \in Nat /\ Modulus(4) >= 16
  /\ Modulus(8) = Modulus(4) * Modulus(4)
<1>1. Modulus(0) = 1
  <2>1. ByteBits * 0 = 0
    BY ByteAssumption, SMT
  <2>2. 0 \in 0 .. 8
    BY SMT
  <2> QED
    BY <2>1, <2>2, ModulusIs, PowerNext
<1>2. ASSUME NEW n \in 1 .. 8
      PROVE  \E h \in Nat \ {0} : Modulus(n) = 2 * h
  <2> DEFINE p == ByteBits * n - 1
  <2>1. n \in 0 .. 8 /\ p \in Nat /\ p + 1 = ByteBits * n
    BY ByteAssumption, SMT
  <2>2. Modulus(n) = Pow2[p + 1]
    BY <2>1, ModulusIs
  <2> HIDE DEF p
  <2> QED
    BY <2>1, <2>2, PowerNext, PowersAre
<1>3. Modulus(4) \in Nat /\ Modulus(4) >= 16
  <2> DEFINE b == ByteBits * 4 - 4
  <2>1. 4 \in 0 .. 8 /\ b \in Nat /\ (((b + 1) + 1) + 1) + 1 = ByteBits * 4
    BY ByteAssumption, SMT
  <2>2. Modulus(4) = Pow2[(((b + 1) + 1) + 1) + 1]
    BY <2>1, ModulusIs
  <2> HIDE DEF b
  <2>3. /\ Pow2[b] \in Nat \ {0}
        /\ Pow2[b + 1] = 2 * Pow2[b]
        /\ Pow2[(b + 1) + 1] = 2 * Pow2[b + 1]
        /\ Pow2[((b + 1) + 1) + 1] = 2 * Pow2[(b + 1) + 1]
        /\ Pow2[(((b + 1) + 1) + 1) + 1] = 2 * Pow2[((b + 1) + 1) + 1]
    BY <2>1, PowerNext, PowersAre
  <2> QED
    BY <2>2, <2>3, SMT
<1>4. Modulus(8) = Modulus(4) * Modulus(4)
  <2> DEFINE b == ByteBits * 4
  <2>1. 4 \in 0 .. 8 /\ 8 \in 0 .. 8 /\ b \in Nat /\ b + b = ByteBits * 8
    BY ByteAssumption, SMT
  <2>2. Modulus(4) = Pow2[b] /\ Modulus(8) = Pow2[b + b]
    BY <2>1, ModulusIs
  <2> HIDE DEF b
  <2> QED
    BY <2>1, <2>2, PowerOfSum
<1> QED
  BY <1>1, <1>2, <1>3, <1>4

(* Their lowest bytes are the same. *)
Alike(x, y, t) == Same(x, y, Modulus(t))

LEMMA AlikeIs ==
  ASSUME NEW x \in Int, NEW y \in Int, NEW t \in 0 .. 8
  PROVE  Alike(x, y, t) <=> Unsigned(x, t) = Unsigned(y, t)
BY ModulusIs, SameRemainder DEF Alike, Unsigned

LEMMA SameTogether ==
  ASSUME NEW p \in Nat, NEW x \in Int, NEW y \in Int, NEW z \in Int
  PROVE  /\ Same(x, x, p)
         /\ Same(x, y, p) => Same(y, x, p)
         /\ Same(x, y, p) /\ Same(y, z, p) => Same(x, z, p)
<1>1. Same(x, x, p)
  <2>1. x = x + p * 0
    BY SMT
  <2> QED
    BY <2>1 DEF Same
<1>2. ASSUME Same(x, y, p) PROVE Same(y, x, p)
  <2>1. PICK a \in Int : x = y + p * a
    BY <1>2 DEF Same
  <2>2. 0 - a \in Int /\ y = x + p * (0 - a)
    BY <2>1, SMT
  <2> QED
    BY <2>2 DEF Same
<1>3. ASSUME Same(x, y, p), Same(y, z, p) PROVE Same(x, z, p)
  <2>1. PICK a \in Int : x = y + p * a
    BY <1>3 DEF Same
  <2>2. PICK b \in Int : y = z + p * b
    BY <1>3 DEF Same
  <2>3. a + b \in Int /\ x = z + p * (a + b)
    BY <2>1, <2>2, SMT
  <2> QED
    BY <2>3 DEF Same
<1> QED
  BY <1>1, <1>2, <1>3

LEMMA AlikeTogether ==
  ASSUME NEW t \in 0 .. 8, NEW x \in Int, NEW y \in Int, NEW z \in Int
  PROVE  /\ Alike(x, x, t)
         /\ Alike(x, y, t) => Alike(y, x, t)
         /\ Alike(x, y, t) /\ Alike(y, z, t) => Alike(x, z, t)
<1>1. Modulus(t) \in Nat
  BY ModulusIs
<1> QED
  BY <1>1, SameTogether DEF Alike

LEMMA FewerAlike ==
  ASSUME NEW n \in 0 .. 8, NEW t \in 0 .. 8, t <= n,
         NEW x \in Int, NEW y \in Int, Alike(x, y, n)
  PROVE  Alike(x, y, t)
<1>1. PICK k \in Nat : Modulus(n) = Modulus(t) * k
  BY MoreBytes
<1>2. PICK z \in Int : x = y + (Modulus(t) * k) * z
  BY <1>1 DEF Alike, Same
<1>3. Modulus(t) \in Nat
  BY ModulusIs
<1>4. k * z \in Int /\ x = y + Modulus(t) * (k * z)
  BY <1>2, <1>3, SMT
<1> QED
  BY <1>4 DEF Alike, Same

LEMMA NoneAlike ==
  ASSUME NEW x \in Int, NEW y \in Int
  PROVE  Alike(x, y, 0)
<1>1. x - y \in Int /\ x = y + 1 * (x - y)
  BY SMT
<1> QED
  BY <1>1, ModuliAre DEF Alike, Same

LEMMA Apart ==
  ASSUME NEW p \in Nat, NEW x \in Int, NEW y \in Int, Same(x, y, p), x - y < p, y - x < p
  PROVE  x = y
<1>1. PICK z \in Int : x = y + p * z
  BY DEF Same
<1>2. ~(z >= 1)
  <2> SUFFICES ASSUME z >= 1 PROVE FALSE
    OBVIOUS
  <2>1. p * z >= p
    BY SMT
  <2> QED
    BY <1>1, <2>1, SMT
<1>3. ~(z <= 0 - 1)
  <2> SUFFICES ASSUME z <= 0 - 1 PROVE FALSE
    OBVIOUS
  <2>1. p * z <= 0 - p
    BY SMT
  <2> QED
    BY <1>1, <2>1, SMT
<1>4. z = 0
  BY <1>2, <1>3, SMT
<1> QED
  BY <1>1, <1>4, SMT

(* The numbers of n bytes. *)
Fits(x, n) == x \in Int /\ 2 * x < Modulus(n) /\ 0 - Modulus(n) <= 2 * x

LEMMA SignedIs ==
  ASSUME NEW x \in Int, NEW n \in 0 .. 8
  PROVE  Fits(Signed(x, n), n) /\ Alike(Signed(x, n), x, n)
<1> DEFINE p == Modulus(n)
           u == x % p
           q == x \div p
<1>1. p \in Nat \ {0}
  BY ModulusIs
<1>2. u \in 0 .. p - 1 /\ q \in Int /\ x = p * q + u
  BY <1>1, Divides
<1>3. Signed(x, n) = IF 2 * u < p THEN u ELSE u - p
  BY DEF Signed, Unsigned
<1> HIDE DEF p, u, q
<1>4. CASE 2 * u < p
  <2>1. 0 - q \in Int /\ u = x + p * (0 - q)
    BY <1>1, <1>2, SMT
  <2>2. Same(u, x, p)
    BY <2>1 DEF Same
  <2>3. u \in Int /\ 0 - p <= 2 * u
    BY <1>1, <1>2, SMT
  <2> QED
    BY <1>3, <1>4, <2>2, <2>3 DEF Fits, Alike, p
<1>5. CASE ~(2 * u < p)
  <2>1. 0 - q - 1 \in Int /\ u - p = x + p * (0 - q - 1)
    BY <1>1, <1>2, SMT
  <2>2. Same(u - p, x, p)
    BY <2>1 DEF Same
  <2>3. u - p \in Int /\ 0 - p <= 2 * (u - p) /\ 2 * (u - p) < p
    BY <1>1, <1>2, <1>5, SMT
  <2> QED
    BY <1>3, <1>5, <2>2, <2>3 DEF Fits, Alike, p
<1> QED
  BY <1>4, <1>5

LEMMA FitsOnce ==
  ASSUME NEW n \in 0 .. 8, NEW x, NEW y, Fits(x, n), Fits(y, n), Alike(x, y, n)
  PROVE  x = y
<1>1. Modulus(n) \in Nat /\ x \in Int /\ y \in Int
  BY ModulusIs DEF Fits
<1>2. x - y < Modulus(n) /\ y - x < Modulus(n)
  BY <1>1, SMT DEF Fits
<1> QED
  BY <1>1, <1>2, Apart DEF Alike

LEMMA SignedOnce ==
  ASSUME NEW n \in 0 .. 8, NEW x
  PROVE  /\ Fits(x, n) => Signed(x, n) = x
         /\ x \in Int /\ x = Signed(x, n) => Fits(x, n)
<1>1. ASSUME Fits(x, n) PROVE Signed(x, n) = x
  <2>1. x \in Int
    BY <1>1 DEF Fits
  <2>2. Fits(Signed(x, n), n) /\ Alike(Signed(x, n), x, n)
    BY <2>1, SignedIs
  <2> QED
    BY <1>1, <2>2, FitsOnce
<1> QED
  BY <1>1, SignedIs

LEMMA SignedAlike ==
  ASSUME NEW n \in 0 .. 8, NEW x \in Int, NEW y \in Int, Alike(x, y, n)
  PROVE  Signed(x, n) = Signed(y, n)
BY AlikeIs DEF Signed

-----------------------------------------------------------------------------
(* The lowest bits of a result are made of the lowest bits of the operands. *)

Lows(f, op, x, y, bits) ==
  f = [n \in 0 .. bits |->
         IF n = 0 THEN 0 ELSE f[n - 1] + Pow2[n - 1] * BitOf(op, Bit(x, n - 1), Bit(y, n - 1))]

LEMMA LowsExist ==
  ASSUME NEW op, NEW x, NEW y, NEW n \in Nat
  PROVE  \E f : Lows(f, op, x, y, n)
<1> DEFINE S == {j \in Nat : \E f : Lows(f, op, x, y, j)}
           Val(h, i) == IF i = 0 THEN 0
                        ELSE h[i - 1] + Pow2[i - 1] * BitOf(op, Bit(x, i - 1), Bit(y, i - 1))
<1>1. 0 \in S
  <2> DEFINE f == [i \in 0 .. 0 |-> 0]
  <2>1. \A i \in 0 .. 0 : i = 0
    BY SMT
  <2>2. \A i \in 0 .. 0 : Val(f, i) = 0
    BY <2>1
  <2>3. f = [i \in 0 .. 0 |-> Val(f, i)]
    BY <2>2
  <2> HIDE DEF f, Val
  <2>4. Lows(f, op, x, y, 0)
    BY <2>3 DEF Lows, Val
  <2> QED
    BY <2>4
<1>2. ASSUME NEW j \in Nat, j \in S
      PROVE  j + 1 \in S
  <2>1. PICK f : Lows(f, op, x, y, j)
    BY <1>2
  <2> DEFINE g == [i \in 0 .. j + 1 |-> Val(f, i)]
  <2>2. f = [i \in 0 .. j |-> Val(f, i)]
    BY <2>1 DEF Lows
  <2>3. \A i \in 0 .. j + 1 : i # 0 => i - 1 \in 0 .. j
    BY SMT
  <2>4. \A i \in 0 .. j : i \in 0 .. j + 1
    BY SMT
  <2> HIDE DEF Val
  <2>5. \A i \in 0 .. j : g[i] = f[i]
    BY <2>2, <2>4
  <2>6. g = [i \in 0 .. j + 1 |-> Val(f, i)]
    OBVIOUS
  <2> HIDE DEF g
  <2>7. \A i \in 0 .. j + 1 : Val(g, i) = Val(f, i)
    BY <2>3, <2>5 DEF Val
  <2>8. g = [i \in 0 .. j + 1 |-> Val(g, i)]
    BY <2>6, <2>7
  <2>9. Lows(g, op, x, y, j + 1)
    BY <2>8 DEF Lows, Val
  <2> QED
    BY <2>9
<1> HIDE DEF S
<1>3. n \in S
  BY <1>1, <1>2, FromZeroOn
<1> QED
  BY <1>3 DEF S

LEMMA LowStep ==
  ASSUME NEW op, NEW x, NEW y, NEW bits \in Nat, NEW f, Lows(f, op, x, y, bits)
  PROVE  /\ f[0] = 0
         /\ \A n \in Nat : n + 1 <= bits =>
              f[n + 1] = f[n] + Pow2[n] * BitOf(op, Bit(x, n), Bit(y, n))
<1>1. 0 \in 0 .. bits
  BY SMT
<1>2. ASSUME NEW n \in Nat, n + 1 <= bits
      PROVE  n + 1 \in 0 .. bits /\ n + 1 # 0 /\ (n + 1) - 1 = n
  BY <1>2, SMT
<1> QED
  BY <1>1, <1>2 DEF Lows

LEMMA BitIs ==
  ASSUME NEW x \in Int, NEW y \in Int, NEW n \in Nat, NEW k \in Nat, n < k, Same(x, y, Pow2[k])
  PROVE  Bit(x, n) = Bit(y, n)
<1> DEFINE p == Pow2[n]
           c == k - n - 1
<1>1. p \in Nat \ {0}
  BY PowersAre
<1>2. c \in Nat /\ k = n + (c + 1) /\ c + 1 \in Nat
  BY SMT
<1>3. Pow2[k] = p * (2 * Pow2[c]) /\ Pow2[c] \in Nat
  <2> HIDE DEF c
  <2>1. Pow2[n + (c + 1)] = Pow2[n] * Pow2[c + 1]
    BY <1>2, PowerOfSum
  <2>2. Pow2[c + 1] = 2 * Pow2[c] /\ Pow2[c] \in Nat
    BY <1>2, PowerNext, PowersAre
  <2> QED
    BY <1>2, <2>1, <2>2
<1>4. PICK z \in Int : x = y + Pow2[k] * z
  BY DEF Same
<1> DEFINE w == Pow2[c] * z
           q == y \div p
           r == y % p
<1>5. r \in 0 .. p - 1 /\ q \in Int /\ y = p * q + r
  BY <1>1, Divides
<1> HIDE DEF p, c, q, r
<1>6. w \in Int
  BY <1>3, SMT
<1>7. Pow2[k] * z = p * (2 * w)
  BY <1>1, <1>3, SMT
<1> HIDE DEF w
<1>8. q + 2 * w \in Int /\ x = p * (q + 2 * w) + r
  <2>1. x = (p * q + r) + p * (2 * w)
    BY <1>4, <1>5, <1>7
  <2> QED
    BY <1>1, <1>5, <1>6, <2>1, SMT
<1>9. x \div p = q + 2 * w /\ y \div p = q
  BY <1>1, <1>5, <1>8, DividesOnce
<1>10. (q + 2 * w) % 2 = q % 2
  BY <1>5, <1>6, SMT
<1> QED
  BY <1>9, <1>10 DEF Bit, p

LEMMA BitOfIs ==
  ASSUME NEW op \in BitwiseOps, NEW a, NEW b
  PROVE  BitOf(op, a, b) \in {0, 1}
BY DEF BitOf, BitwiseOps

LEMMA LowsAre ==
  ASSUME NEW op \in BitwiseOps, NEW x, NEW y, NEW bits \in Nat, NEW f, Lows(f, op, x, y, bits)
  PROVE  \A n \in Nat : n <= bits => f[n] \in Nat
<1> DEFINE S == {n \in Nat : n <= bits => f[n] \in Nat}
<1>1. 0 \in S
  <2>1. f[0] = 0
    BY LowStep
  <2> QED
    BY <2>1
<1>2. ASSUME NEW n \in Nat, n \in S PROVE n + 1 \in S
  <2> SUFFICES ASSUME n + 1 <= bits PROVE f[n + 1] \in Nat
    OBVIOUS
  <2> DEFINE b == BitOf(op, Bit(x, n), Bit(y, n))
  <2>1. f[n + 1] = f[n] + Pow2[n] * b
    BY LowStep
  <2>2. b \in {0, 1}
    BY BitOfIs
  <2> HIDE DEF b
  <2>3. f[n] \in Nat
    BY <1>2, SMT
  <2>4. Pow2[n] \in Nat
    BY PowersAre
  <2> QED
    BY <2>1, <2>2, <2>3, <2>4, SMT
<1> HIDE DEF S
<1>3. \A n \in Nat : n \in S
  BY <1>1, <1>2, FromZeroOn
<1> QED
  BY <1>3 DEF S

LEMMA SameLows ==
  ASSUME NEW op, NEW x \in Int, NEW y \in Int, NEW u \in Int, NEW v \in Int, NEW k \in Nat,
         Same(x, u, Pow2[k]), Same(y, v, Pow2[k]),
         NEW m \in Nat, NEW n \in Nat, k <= m, k <= n,
         NEW f, Lows(f, op, x, y, m), NEW g, Lows(g, op, u, v, n)
  PROVE  f[k] = g[k]
<1> DEFINE S == {i \in Nat : i <= k => f[i] = g[i]}
<1>1. 0 \in S
  <2> HIDE DEF S
  <2>1. 0 \in 0 .. m /\ 0 \in 0 .. n
    BY SMT
  <2>2. f[0] = 0 /\ g[0] = 0
    BY <2>1 DEF Lows
  <2> USE DEF S
  <2> QED
    BY <2>2
<1>2. ASSUME NEW i \in Nat, i \in S PROVE i + 1 \in S
  <2> SUFFICES ASSUME i + 1 <= k PROVE f[i + 1] = g[i + 1]
    OBVIOUS
  <2>1. i + 1 <= m /\ i + 1 <= n /\ i < k /\ i <= k
    BY SMT
  <2>2. f[i + 1] = f[i] + Pow2[i] * BitOf(op, Bit(x, i), Bit(y, i))
    BY <2>1, LowStep
  <2>3. g[i + 1] = g[i] + Pow2[i] * BitOf(op, Bit(u, i), Bit(v, i))
    BY <2>1, LowStep
  <2>4. Bit(x, i) = Bit(u, i) /\ Bit(y, i) = Bit(v, i)
    BY <2>1, BitIs
  <2> QED
    BY <1>2, <2>1, <2>2, <2>3, <2>4
<1> HIDE DEF S
<1>3. k \in S
  BY <1>1, <1>2, FromZeroOn
<1> QED
  BY <1>3, SMT DEF S

LEMMA HigherBits ==
  ASSUME NEW op \in BitwiseOps, NEW x, NEW y, NEW bits \in Nat, NEW f, Lows(f, op, x, y, bits),
         NEW k \in Nat, k <= bits
  PROVE  Same(f[bits], f[k], Pow2[k])
<1> DEFINE S == {i \in Nat : k + i <= bits => Same(f[k + i], f[k], Pow2[k])}
<1>1. Pow2[k] \in Nat /\ f[k] \in Int
  <2>1. f[k] \in Nat
    BY LowsAre
  <2> QED
    BY <2>1, PowersAre, SMT
<1>2. 0 \in S
  <2>1. k + 0 = k
    BY SMT
  <2> QED
    BY <1>1, <2>1, SameTogether
<1>3. ASSUME NEW i \in Nat, i \in S PROVE i + 1 \in S
  <2> SUFFICES ASSUME k + (i + 1) <= bits PROVE Same(f[k + (i + 1)], f[k], Pow2[k])
    OBVIOUS
  <2> DEFINE n == k + i
             b == BitOf(op, Bit(x, n), Bit(y, n))
  <2>1. n \in Nat /\ k + (i + 1) = n + 1 /\ n + 1 <= bits /\ n <= bits
    BY SMT
  <2>2. f[n + 1] = f[n] + Pow2[n] * b
    BY <2>1, LowStep
  <2>3. b \in {0, 1} /\ f[n] \in Nat
    BY <2>1, BitOfIs, LowsAre
  <2>4. Pow2[n] = Pow2[k] * Pow2[i] /\ Pow2[i] \in Nat
    BY PowerOfSum, PowersAre
  <2>5. PICK z \in Int : f[n] = f[k] + Pow2[k] * z
    BY <1>3, <2>1 DEF Same
  <2> HIDE DEF n, b
  <2>6. z + Pow2[i] * b \in Int
    BY <2>3, <2>4, SMT
  <2>7. (Pow2[k] * Pow2[i]) * b = Pow2[k] * (Pow2[i] * b)
    BY <1>1, <2>3, <2>4, SMT
  <2> DEFINE c == Pow2[i] * b
  <2>8. c \in Int
    BY <2>3, <2>4, SMT
  <2> HIDE DEF c
  <2>9. f[n + 1] = f[k] + Pow2[k] * (z + c)
    <3>1. f[n + 1] = (f[k] + Pow2[k] * z) + Pow2[k] * c
      BY <2>2, <2>4, <2>5, <2>7 DEF c
    <3> QED
      BY <1>1, <2>8, <3>1, SMT
  <2>10. z + c \in Int
    BY <2>8, SMT
  <2>11. Same(f[n + 1], f[k], Pow2[k])
    BY <2>9, <2>10 DEF Same
  <2> QED
    BY <2>1, <2>11
<1> HIDE DEF S
<1>4. bits - k \in S
  <2>1. bits - k \in Nat
    BY SMT
  <2> QED
    BY <1>2, <1>3, <2>1, FromZeroOn
<1>5. k + (bits - k) = bits /\ bits <= bits
  BY SMT
<1> QED
  BY <1>4, <1>5 DEF S

LEMMA BitwiseIs ==
  ASSUME NEW op \in BitwiseOps, NEW bits \in Nat, NEW x, NEW y
  PROVE  /\ Bitwise(op, x, y, bits) \in Int
         /\ \E f : Lows(f, op, x, y, bits) /\ Bitwise(op, x, y, bits) = f[bits]
<1> DEFINE F == CHOOSE f : Lows(f, op, x, y, bits)
<1>1. Lows(F, op, x, y, bits)
  BY LowsExist
<1>2. Bitwise(op, x, y, bits) = F[bits]
  BY DEF Bitwise, Lows
<1> HIDE DEF F
<1>3. F[bits] \in Nat
  BY <1>1, LowsAre, SMT
<1>4. F[bits] \in Int
  BY <1>3, SMT
<1> QED
  BY <1>1, <1>2, <1>4

LEMMA BitwiseAlike ==
  ASSUME NEW op \in BitwiseOps, NEW m \in 0 .. 8, NEW n \in 0 .. 8, NEW t \in 0 .. 8, t <= m, t <= n,
         NEW x \in Int, NEW y \in Int, NEW u \in Int, NEW v \in Int,
         Alike(x, u, t), Alike(y, v, t)
  PROVE  Alike(Bitwise(op, x, y, ByteBits * m), Bitwise(op, u, v, ByteBits * n), t)
<1> DEFINE k == ByteBits * t
           a == ByteBits * m
           b == ByteBits * n
<1>1. k \in Nat /\ a \in Nat /\ b \in Nat
  BY ModulusIs
<1>2. k <= a /\ k <= b
  BY ByteAssumption, SMT
<1>3. Modulus(t) = Pow2[k]
  BY ModulusIs
<1> HIDE DEF k, a, b
<1>4. Same(x, u, Pow2[k]) /\ Same(y, v, Pow2[k])
  BY <1>3 DEF Alike
<1>5. PICK f : Lows(f, op, x, y, a) /\ Bitwise(op, x, y, a) = f[a]
  BY <1>1, BitwiseIs
<1>6. PICK g : Lows(g, op, u, v, b) /\ Bitwise(op, u, v, b) = g[b]
  BY <1>1, BitwiseIs
<1>7. f[k] = g[k]
  BY <1>1, <1>2, <1>4, <1>5, <1>6, SameLows
<1>8. Same(f[a], f[k], Pow2[k]) /\ Same(g[b], g[k], Pow2[k])
  BY <1>1, <1>2, <1>5, <1>6, HigherBits
<1>9. f[a] \in Int /\ g[b] \in Int /\ f[k] \in Int
  <2>1. f[a] \in Nat /\ g[b] \in Nat /\ f[k] \in Nat
    BY <1>1, <1>2, <1>5, <1>6, LowsAre, SMT
  <2> QED
    BY <2>1, SMT
<1>10. Alike(f[a], f[k], t) /\ Alike(g[b], f[k], t)
  BY <1>3, <1>7, <1>8 DEF Alike
<1>11. Alike(f[a], g[b], t)
  BY <1>9, <1>10, AlikeTogether
<1> QED
  BY <1>5, <1>6, <1>11 DEF a, b

LEMMA ComputedIs ==
  ASSUME NEW op \in Ops, NEW n \in 0 .. 8, NEW x \in Int, NEW y \in Int
  PROVE  Fits(Computed(op, x, y, n), n)
<1>1. CASE op = "add"
  <2>1. x + y \in Int
    OBVIOUS
  <2> QED
    BY <1>1, <2>1, SignedIs DEF Computed, BitwiseOps
<1>2. CASE op = "sub"
  <2>1. x - y \in Int
    OBVIOUS
  <2> QED
    BY <1>2, <2>1, SignedIs DEF Computed, BitwiseOps
<1>3. CASE op = "mul"
  <2>1. x * y \in Int
    BY SMT
  <2> QED
    BY <1>3, <2>1, SignedIs DEF Computed, BitwiseOps
<1>4. CASE op \in BitwiseOps
  <2>1. Bitwise(op, x, y, ByteBits * n) \in Int
    BY <1>4, BitwiseIs, ModulusIs
  <2>2. Computed(op, x, y, n) = Signed(Bitwise(op, x, y, ByteBits * n), n)
    BY <1>4 DEF Computed, BitwiseOps
  <2> QED
    BY <2>1, <2>2, SignedIs
<1> QED
  BY <1>1, <1>2, <1>3, <1>4 DEF Ops

LEMMA SignedBoth ==
  ASSUME NEW m \in 0 .. 8, NEW n \in 0 .. 8, NEW t \in 0 .. 8, t <= m, t <= n,
         NEW x \in Int, NEW y \in Int, Alike(x, y, t)
  PROVE  Alike(Signed(x, m), Signed(y, n), t)
<1> DEFINE a == Signed(x, m)
           b == Signed(y, n)
<1>1. a \in Int /\ b \in Int /\ Alike(a, x, m) /\ Alike(b, y, n)
  BY SignedIs DEF Fits
<1> HIDE DEF a, b
<1>2. Alike(a, x, t) /\ Alike(b, y, t)
  BY <1>1, FewerAlike
<1>3. Alike(a, y, t)
  BY <1>1, <1>2, AlikeTogether
<1>4. Alike(y, b, t)
  BY <1>1, <1>2, AlikeTogether
<1>5. Alike(a, b, t)
  BY <1>1, <1>3, <1>4, AlikeTogether
<1> QED
  BY <1>5 DEF a, b

LEMMA ComputedAlike ==
  ASSUME NEW op \in Ops, NEW m \in 0 .. 8, NEW n \in 0 .. 8, NEW t \in 0 .. 8, t <= m, t <= n,
         NEW x \in Int, NEW y \in Int, NEW u \in Int, NEW v \in Int,
         Alike(x, u, t), Alike(y, v, t)
  PROVE  Alike(Computed(op, x, y, m), Computed(op, u, v, n), t)
<1> USE ModulusIs
<1>1. /\ x + y \in Int /\ u + v \in Int /\ Alike(x + y, u + v, t)
      /\ x - y \in Int /\ u - v \in Int /\ Alike(x - y, u - v, t)
      /\ x * y \in Int /\ u * v \in Int /\ Alike(x * y, u * v, t)
  <2>1. Modulus(t) \in Nat
    OBVIOUS
  <2>2. Alike(x + y, u + v, t) /\ Alike(x - y, u - v, t) /\ Alike(x * y, u * v, t)
    BY <2>1, SameSums DEF Alike
  <2> QED
    BY <2>2, SMT
<1>2. CASE op = "add"
  BY <1>1, <1>2, SignedBoth DEF Computed, BitwiseOps
<1>3. CASE op = "sub"
  BY <1>1, <1>3, SignedBoth DEF Computed, BitwiseOps
<1>4. CASE op = "mul"
  BY <1>1, <1>4, SignedBoth DEF Computed, BitwiseOps
<1>5. CASE op \in BitwiseOps
  <2> DEFINE a == Bitwise(op, x, y, ByteBits * m)
             b == Bitwise(op, u, v, ByteBits * n)
  <2>1. a \in Int /\ b \in Int
    BY <1>5, BitwiseIs
  <2>2. Alike(a, b, t)
    BY <1>5, BitwiseAlike
  <2>3. Computed(op, x, y, m) = Signed(a, m) /\ Computed(op, u, v, n) = Signed(b, n)
    BY <1>5 DEF Computed, BitwiseOps
  <2> HIDE DEF a, b
  <2> QED
    BY <2>1, <2>2, <2>3, SignedBoth
<1> QED
  BY <1>2, <1>3, <1>4, <1>5 DEF Ops

-----------------------------------------------------------------------------
(* Registers, ints and unsigned numbers. *)

LEMMA ModulusLess ==
  ASSUME NEW n \in 0 .. 8, NEW t \in 0 .. 8, t < n
  PROVE  2 * Modulus(t) <= Modulus(n)
<1> DEFINE a == ByteBits * t
           c == ByteBits * (n - t) - 1
<1>1. a \in Nat /\ c \in Nat /\ ByteBits * n = a + (c + 1)
  <2> DEFINE d == n - t
  <2>1. d \in Nat \ {0} /\ n = t + d
    BY SMT
  <2> HIDE DEF d
  <2>2. ByteBits * d \in Nat \ {0} /\ a \in Nat /\ ByteBits * (t + d) = a + ByteBits * d
    BY <2>1, ByteAssumption, SMT
  <2>3. c = ByteBits * d - 1
    BY DEF d
  <2> QED
    BY <2>1, <2>2, <2>3, SMT
<1>2. Modulus(n) = Pow2[a + (c + 1)] /\ Modulus(t) = Pow2[a]
  BY <1>1, ModulusIs
<1> HIDE DEF a, c
<1>3. c + 1 \in Nat
  BY <1>1, SMT
<1>4. Pow2[a + (c + 1)] = Pow2[a] * Pow2[c + 1]
  BY <1>1, <1>3, PowerOfSum
<1>5. Pow2[c + 1] = 2 * Pow2[c] /\ Pow2[c] \in Nat \ {0} /\ Pow2[a] \in Nat
  BY <1>1, PowerNext, PowersAre
<1>6. Pow2[a] * (2 * Pow2[c]) >= 2 * Pow2[a]
  BY <1>5, SMT
<1> QED
  BY <1>2, <1>4, <1>5, <1>6

LEMMA FitsMore ==
  ASSUME NEW n \in 0 .. 8, NEW t \in 0 .. 8, t <= n, NEW x, Fits(x, t)
  PROVE  Fits(x, n)
<1>1. CASE t = n
  BY <1>1
<1>2. CASE t < n
  <2>1. 2 * Modulus(t) <= Modulus(n)
    BY <1>2, ModulusLess
  <2>2. Modulus(t) \in Nat /\ Modulus(n) \in Nat
    BY ModulusIs
  <2> QED
    BY <2>1, <2>2, SMT DEF Fits
<1> QED
  BY <1>1, <1>2, SMT

LEMMA HalfIs ==
  ASSUME NEW n \in 1 .. 8
  PROVE  Modulus(n) \div 2 \in Nat \ {0} /\ 2 * (Modulus(n) \div 2) = Modulus(n)
<1>1. PICK h \in Nat \ {0} : Modulus(n) = 2 * h
  BY ModuliAre
<1>2. (2 * h) \div 2 = h
  BY SMT
<1> QED
  BY <1>1, <1>2

LEMMA RegisterIs ==
  ASSUME NEW x
  PROVE  x \in Register <=> Fits(x, 8)
<1> DEFINE h == Modulus(8) \div 2
<1>1. h \in Nat \ {0} /\ Modulus(8) = 2 * h
  BY HalfIs
<1> HIDE DEF h
<1>2. x \in 0 - h .. h - 1 <=> x \in Int /\ 2 * x < 2 * h /\ 0 - 2 * h <= 2 * x
  BY <1>1, SMT
<1> QED
  BY <1>1, <1>2 DEF Register, Fits, h

LEMMA IntMaxIs ==
  /\ IntMax \in Nat /\ 2 * IntMax + 2 = Modulus(4)
  /\ \A x : x \in 0 .. IntMax <=> Fits(x, 4) /\ x >= 0
<1> DEFINE h == Modulus(4) \div 2
<1>1. h \in Nat \ {0} /\ Modulus(4) = 2 * h /\ IntMax = h - 1
  BY HalfIs DEF IntMax
<1> HIDE DEF h
<1>2. ASSUME NEW x
      PROVE  x \in 0 .. h - 1 <=> (x \in Int /\ 2 * x < 2 * h /\ 0 - 2 * h <= 2 * x) /\ x >= 0
  BY <1>1, SMT
<1>3. \A x : x \in 0 .. IntMax <=> Fits(x, 4) /\ x >= 0
  BY <1>1, <1>2 DEF Fits
<1>4. IntMax \in Nat /\ 2 * IntMax + 2 = Modulus(4)
  BY <1>1, SMT
<1> QED
  BY <1>3, <1>4

LEMMA SmallFit ==
  \A x \in -1 .. 1 : Fits(x, 4) /\ Fits(x, 8) /\ (x \in Register)
<1> SUFFICES ASSUME NEW x \in -1 .. 1 PROVE Fits(x, 4) /\ Fits(x, 8) /\ (x \in Register)
  OBVIOUS
<1>1. Fits(x, 4)
  BY ModuliAre, SMT DEF Fits
<1>2. Fits(x, 8)
  BY <1>1, FitsMore
<1> QED
  BY <1>1, <1>2, RegisterIs

LEMMA UnsignedIs ==
  ASSUME NEW x \in Int, NEW n \in 0 .. 8
  PROVE  /\ Unsigned(x, n) \in 0 .. Modulus(n) - 1
         /\ Unsigned(x, n) \in Int
         /\ Alike(Unsigned(x, n), x, n)
         /\ x \in 0 .. Modulus(n) - 1 => Unsigned(x, n) = x
<1> DEFINE p == Modulus(n)
           u == x % p
           q == x \div p
<1>1. p \in Nat \ {0}
  BY ModulusIs
<1>2. u \in 0 .. p - 1 /\ q \in Int /\ x = p * q + u
  BY <1>1, Divides
<1>3. Unsigned(x, n) = u
  BY DEF Unsigned
<1> HIDE DEF p, u, q
<1>4. 0 - q \in Int /\ u = x + p * (0 - q)
  BY <1>1, <1>2, SMT
<1>5. Same(u, x, p)
  BY <1>4 DEF Same
<1>6. ASSUME x \in 0 .. p - 1
      PROVE  u = x
  <2>1. u - x < p /\ x - u < p /\ u \in Int
    BY <1>1, <1>2, <1>6, SMT
  <2> QED
    BY <1>1, <1>5, <2>1, Apart
<1>7. u \in Int
  BY <1>1, <1>2, SMT
<1> QED
  BY <1>2, <1>3, <1>5, <1>6, <1>7 DEF Alike, p

LEMMA FitsUnsigned ==
  ASSUME NEW n \in 0 .. 8, NEW x, Fits(x, n), x >= 0
  PROVE  x \in 0 .. Modulus(n) - 1 /\ Unsigned(x, n) = x
<1>1. x \in Int /\ Modulus(n) \in Nat
  BY ModulusIs DEF Fits
<1>2. x \in 0 .. Modulus(n) - 1
  BY <1>1, SMT DEF Fits
<1> QED
  BY <1>1, <1>2, UnsignedIs

-----------------------------------------------------------------------------
(* Results of arithmetic. *)

(* A number of which the bytes that are to be right are. *)
Number(v) == v \in Value /\ Alike(v.m, v.j, v.t)

IntNumber(v) == Number(v) /\ Fits(v.j, 4)

LEMMA NumberIs ==
  ASSUME NEW v, Number(v)
  PROVE  /\ v.m \in Int /\ v.j \in Int /\ v.t \in 0 .. 8 /\ v.t \in Trust
         /\ Fits(v.m, 8) /\ Fits(v.j, 8)
         /\ \A t \in 0 .. 8 : t <= v.t => Alike(v.m, v.j, t)
         /\ v.t = 8 => v.m = v.j
<1>1. v.m \in Register /\ v.j \in Register /\ v.t \in Trust /\ Alike(v.m, v.j, v.t)
  BY DEF Number, Value
<1>2. Fits(v.m, 8) /\ Fits(v.j, 8)
  BY <1>1, RegisterIs
<1>3. v.m \in Int /\ v.j \in Int
  BY <1>2 DEF Fits
<1>4. v.t \in 0 .. 8
  BY <1>1 DEF Trust
<1>5. \A t \in 0 .. 8 : t <= v.t => Alike(v.m, v.j, t)
  BY <1>1, <1>3, <1>4, FewerAlike
<1>6. v.t = 8 => v.m = v.j
  BY <1>1, <1>2, FitsOnce
<1> QED
  BY <1>1, <1>2, <1>3, <1>4, <1>5, <1>6

LEMMA NumberMade ==
  ASSUME NEW m, NEW j, NEW t \in Trust, Fits(m, 8), Fits(j, 8), t \in 0 .. 8 => Alike(m, j, t)
  PROVE  Number([m |-> m, j |-> j, t |-> t])
<1>1. t \in 0 .. 8
  BY DEF Trust
<1>2. m \in Register /\ j \in Register
  BY RegisterIs
<1> QED
  BY <1>1, <1>2 DEF Number, Value

LEMMA LeastIs ==
  ASSUME NEW x \in Trust, NEW y \in Trust
  PROVE  Least(x, y) \in Trust /\ Least(x, y) <= x /\ Least(x, y) <= y
BY SMT DEF Least, Trust

LEMMA IntResultRight ==
  ASSUME NEW op \in Ops, NEW x, NEW y, IntNumber(x), IntNumber(y)
  PROVE  IntNumber(IntResult(op, x, y))
<1> USE NumberIs DEF IntNumber
<1> DEFINE t  == Least(x.t, y.t)
           m  == Computed(op, x.m, y.m, 8)
           j  == Computed(op, x.j, y.j, 4)
           j8 == Computed(op, x.j, y.j, 8)
           u  == IF j = j8 THEN t ELSE Least(t, 4)
<1>1. t \in Trust /\ t <= x.t /\ t <= y.t /\ t \in 0 .. 8
  BY LeastIs DEF Trust
<1>2. Alike(x.m, x.j, t) /\ Alike(y.m, y.j, t)
  BY <1>1
<1>3. Fits(m, 8) /\ Fits(j, 4) /\ Fits(j8, 8)
  BY ComputedIs
<1>4. Fits(j, 8)
  BY <1>3, FitsMore
<1>5. Alike(m, j8, t)
  BY <1>1, <1>2, ComputedAlike
<1>6. Least(t, 4) \in Trust /\ Least(t, 4) <= t /\ Least(t, 4) <= 4 /\ Least(t, 4) \in 0 .. 8
  BY <1>1, LeastIs DEF Trust
<1>7. Alike(m, j, Least(t, 4))
  <2>1. Alike(x.m, x.j, Least(t, 4)) /\ Alike(y.m, y.j, Least(t, 4))
    BY <1>1, <1>2, <1>6, FewerAlike
  <2> QED
    BY <1>6, <2>1, ComputedAlike
<1>8. u \in Trust /\ Alike(m, j, u)
  BY <1>1, <1>5, <1>6, <1>7
<1>9. IntResult(op, x, y) = [m |-> m, j |-> j, t |-> u]
  BY DEF IntResult
<1> HIDE DEF t, m, j, j8, u
<1>10. Number([m |-> m, j |-> j, t |-> u])
  BY <1>3, <1>4, <1>8, NumberMade
<1> QED
  BY <1>3, <1>9, <1>10

LEMMA LongResultRight ==
  ASSUME NEW op \in Ops, NEW x, NEW y, Number(x), Number(y)
  PROVE  Number(LongResult(op, x, y))
<1> USE NumberIs
<1> DEFINE t == Least(x.t, y.t)
           m == Computed(op, x.m, y.m, 8)
           j == Computed(op, x.j, y.j, 8)
<1>1. t \in Trust /\ t <= x.t /\ t <= y.t /\ t \in 0 .. 8
  BY LeastIs DEF Trust
<1>2. Alike(x.m, x.j, t) /\ Alike(y.m, y.j, t)
  BY <1>1
<1>3. Fits(m, 8) /\ Fits(j, 8)
  BY ComputedIs
<1>4. Alike(m, j, t)
  BY <1>1, <1>2, ComputedAlike
<1>5. LongResult(op, x, y) = [m |-> m, j |-> j, t |-> t]
  BY DEF LongResult
<1> HIDE DEF t, m, j
<1> QED
  BY <1>1, <1>3, <1>4, <1>5, NumberMade

LEMMA QuotientIs ==
  ASSUME NEW x \in Int, NEW y \in Int, y # 0
  PROVE  Quotient(x, y) \in Int
<1> DEFINE a == IF x < 0 THEN 0 - x ELSE x
           b == IF y < 0 THEN 0 - y ELSE y
<1>1. a \in Int /\ b \in Nat \ {0}
  BY SMT
<1>2. a \div b \in Int
  BY <1>1, Divides
<1>3. Quotient(x, y) = IF (x < 0) = (y < 0) THEN a \div b ELSE 0 - (a \div b)
  BY DEF Quotient
<1> HIDE DEF a, b
<1> QED
  BY <1>2, <1>3, SMT

LEMMA TrustIs ==
  ASSUME NEW x, NEW y, Number(x), Number(y)
  PROVE  /\ TrustIfExact(x, y) \in {0, 8}
         /\ TrustIfExact(x, y) = 8 => x.m = x.j /\ y.m = y.j
BY NumberIs DEF TrustIfExact

LEMMA DivResultRight ==
  ASSUME NEW x, NEW y, Number(x), Number(y), ~Traps(x.m, y.m), y.j # 0
  PROVE  Number(DivResult(x, y))
<1> USE NumberIs
<1> DEFINE m == Quotient(x.m, y.m)
           q == Quotient(x.j, y.j)
           j == Signed(q, 8)
           t == TrustIfExact(x, y)
<1>1. m \in Int /\ m = Signed(m, 8) /\ q \in Int
  BY QuotientIs DEF Traps
<1>2. Fits(m, 8) /\ Fits(j, 8)
  BY <1>1, SignedOnce, SignedIs
<1>3. t \in Trust /\ (t = 0 \/ t = 8)
  BY TrustIs DEF Trust
<1>4. Alike(m, j, t)
  <2>1. CASE t = 0
    BY <1>2, <2>1, NoneAlike DEF Fits
  <2>2. CASE t = 8
    <3>1. m = j
      BY <1>1, <2>2, TrustIs
    <3> QED
      BY <1>1, <1>2, <2>2, <3>1, AlikeTogether
  <2> QED
    BY <1>3, <2>1, <2>2
<1>5. DivResult(x, y) = [m |-> m, j |-> j, t |-> t]
  BY DEF DivResult
<1> HIDE DEF m, j, t
<1> QED
  BY <1>2, <1>3, <1>4, <1>5, NumberMade

LEMMA CmpResultRight ==
  ASSUME NEW x, NEW y, Number(x), Number(y)
  PROVE  IntNumber(CmpResult(x, y))
<1> USE NumberIs
<1> DEFINE m == IF x.m = y.m THEN 0 ELSE 1
           j == CASE x.j < y.j -> 0 - 1 [] x.j = y.j -> 0 [] x.j > y.j -> 1
           t == IF j < 0 THEN 0 ELSE TrustIfExact(x, y)
<1>1. m \in -1 .. 1 /\ j \in -1 .. 1
  BY SMT
<1>2. Fits(m, 8) /\ Fits(j, 8) /\ Fits(j, 4)
  BY <1>1, SmallFit
<1>3. t \in Trust /\ (t = 0 \/ t = 8)
  BY TrustIs DEF Trust
<1>4. Alike(m, j, t)
  <2>1. CASE t = 0
    <3>1. m \in Int /\ j \in Int
      BY <1>1, SMT
    <3> HIDE DEF m, j, t
    <3> QED
      BY <2>1, <3>1, NoneAlike
  <2>2. CASE t = 8
    <3>1. j >= 0 /\ x.m = x.j /\ y.m = y.j
      BY <1>1, <2>2, TrustIs
    <3>2. m = j
      BY <3>1, SMT
    <3> QED
      BY <1>1, <2>2, <3>2, AlikeTogether
  <2> QED
    BY <1>3, <2>1, <2>2
<1>5. CmpResult(x, y) = [m |-> m, j |-> j, t |-> t]
  BY DEF CmpResult
<1> HIDE DEF m, j, t
<1>6. Number([m |-> m, j |-> j, t |-> t])
  BY <1>2, <1>3, <1>4, NumberMade
<1> QED
  BY <1>2, <1>5, <1>6 DEF IntNumber

-----------------------------------------------------------------------------
(* Elements of arrays. *)

LEMMA SizeIs ==
  ASSUME NEW type \in Types
  PROVE  /\ SizeOf(type) = JavaSize(type) /\ SizeOf(type) \in {1, 2, 4, 8} /\ SizeOf(type) \in 0 .. 8
         /\ SizeOf(type) \in Trust
         /\ type # "long" => SizeOf(type) \in 0 .. 4
         /\ type \in {"byte", "char", "short", "int", "long"}
<1>1. type \in {"byte", "char", "short", "int", "long"}
  BY RuntimeAssumption
<1> QED
  BY <1>1 DEF SizeOf, JavaSize, Trust

(* What an element is. *)
IsElement(type, e) ==
  /\ type = "char" => e \in 0 .. Modulus(2) - 1
  /\ type # "char" => Fits(e, SizeOf(type))

LEMMA ElementIs ==
  ASSUME NEW type \in Types, NEW j, Fits(j, 8)
  PROVE  IsElement(type, Element(type, j)) /\ Alike(Element(type, j), j, SizeOf(type))
<1>1. j \in Int /\ 1 \in 0 .. 8 /\ 2 \in 0 .. 8 /\ 4 \in 0 .. 8 /\ 8 \in 0 .. 8
  BY SMT DEF Fits
<1>2. CASE type = "byte"
  BY <1>1, <1>2, SignedIs DEF Element, SizeOf, IsElement
<1>3. CASE type = "char"
  <2>1. Element(type, j) = Unsigned(j, 2) /\ SizeOf(type) = 2
    BY <1>3 DEF Element, SizeOf
  <2> QED
    BY <1>1, <1>3, <2>1, UnsignedIs DEF IsElement
<1>4. CASE type = "short"
  BY <1>1, <1>4, SignedIs DEF Element, SizeOf, IsElement
<1>5. CASE type = "int"
  BY <1>1, <1>5, SignedIs DEF Element, SizeOf, IsElement
<1>6. CASE type = "long"
  <2>1. Element(type, j) = j /\ SizeOf(type) = 8
    BY <1>6 DEF Element, SizeOf
  <2> QED
    BY <1>1, <1>6, <2>1, AlikeTogether DEF IsElement
<1> QED
  BY <1>2, <1>3, <1>4, <1>5, <1>6, SizeIs

LEMMA ElementsFit ==
  ASSUME NEW type \in Types, NEW e, IsElement(type, e)
  PROVE  /\ e \in Int /\ Fits(e, 8)
         /\ type # "long" => Fits(e, 4)
         /\ e >= 0 => e \in 0 .. Modulus(SizeOf(type)) - 1
<1>1. CASE type = "char"
  <2>1. SizeOf(type) = 2 /\ e \in 0 .. Modulus(2) - 1
    BY <1>1 DEF SizeOf, IsElement
  <2>2. 2 * Modulus(2) <= Modulus(4) /\ Modulus(2) \in Nat /\ Modulus(4) \in Nat
    BY ModulusLess, ModulusIs
  <2>3. Fits(e, 4)
    BY <2>1, <2>2, SMT DEF Fits
  <2>4. Fits(e, 8)
    BY <2>3, FitsMore
  <2> QED
    BY <2>1, <2>3, <2>4 DEF Fits
<1>2. CASE type # "char"
  <2>1. Fits(e, SizeOf(type)) /\ e \in Int
    BY <1>2 DEF IsElement, Fits
  <2>2. Fits(e, 8)
    BY <2>1, SizeIs, FitsMore
  <2>3. type # "long" => Fits(e, 4)
    BY <2>1, SizeIs, FitsMore
  <2>4. e >= 0 => e \in 0 .. Modulus(SizeOf(type)) - 1
    BY <2>1, SizeIs, FitsUnsigned
  <2> QED
    BY <2>1, <2>2, <2>3, <2>4
<1> QED
  BY <1>1, <1>2

LEMMA ZeroIsElement ==
  ASSUME NEW type \in Types
  PROVE  IsElement(type, 0) /\ 0 \in 0 .. Modulus(SizeOf(type)) - 1
<1>1. Modulus(2) \in Nat \ {0} /\ Modulus(SizeOf(type)) \in Nat \ {0}
  BY SizeIs, ModulusIs
<1> QED
  BY <1>1, SizeIs, SMT DEF IsElement, Fits

-----------------------------------------------------------------------------
(* Arrays. *)

ArrayRecord ==
  [type : Types, header : Register, bytes : Nat, cells : UNION {[0 .. n - 1 -> Int] : n \in Nat},
   t : Trust, length : Nat,
   values : UNION {[0 .. n - 1 -> Int] : n \in Nat}, trust : UNION {[0 .. n - 1 -> Trust] : n \in Nat}]

(* An array holds what it is to hold, and only as much as it is to be      *)
(* right in is relied upon: the length is that of Java, if the number was  *)
(* that led to it.                                                         *)
ArrayRight(a) ==
  /\ a.bytes \div SizeOf(a.type) \in Nat
  /\ a.cells \in [0 .. (a.bytes \div SizeOf(a.type)) - 1 -> 0 .. Modulus(SizeOf(a.type)) - 1]
  /\ a.length \in 0 .. IntMax
  /\ a.values \in [0 .. a.length - 1 -> Int]
  /\ a.trust \in [0 .. a.length - 1 -> Trust]
  /\ \A i \in 0 .. a.length - 1 : IsElement(a.type, a.values[i]) /\ a.trust[i] <= SizeOf(a.type)
  /\ Alike(a.header, a.length, a.t)
  /\ a.t = 8 => a.bytes \div SizeOf(a.type) = a.length
  /\ \A i \in (0 .. (a.bytes \div SizeOf(a.type)) - 1) \cap (0 .. a.length - 1) :
       Alike(a.cells[i], a.values[i], a.trust[i])

NumbersRight ==
  /\ \A v \in ints : IntNumber(v)
  /\ \A v \in longs : Number(v)

ArraysRight == arrays \in Seq(ArrayRecord) /\ \A k \in DOMAIN arrays : ArrayRight(arrays[k])

LastRight ==
  /\ machine \in {"running", "crashed", "astray"}
  /\ last \in [threw : BOOLEAN, reported : BOOLEAN, exact : BOOLEAN, low : BOOLEAN, large : BOOLEAN]

IInv == NumbersRight /\ ArraysRight /\ LastRight /\ ReportsWhatJavaRefuses /\ AcceptedIsDone

-----------------------------------------------------------------------------
(* The invariant is what is to be shown. *)

LEMMA CellsAre ==
  ASSUME NEW a \in ArrayRecord, ArrayRight(a)
  PROVE  /\ a.type \in Types /\ a.header \in Register /\ a.t \in Trust
         /\ Fits(a.header, 8) /\ a.header \in Int /\ a.bytes \in Nat
         /\ DOMAIN a.cells = 0 .. (a.bytes \div SizeOf(a.type)) - 1
         /\ DOMAIN a.values = 0 .. a.length - 1
         /\ a.length \in 0 .. IntMax /\ a.length \in Nat /\ Fits(a.length, 4) /\ Fits(a.length, 8)
         /\ a.t = 8 => a.header = a.length
<1>1. a.type \in Types /\ a.header \in Register /\ a.t \in Trust /\ a.bytes \in Nat
  BY DEF ArrayRecord
<1>2. Fits(a.header, 8) /\ a.header \in Int
  BY <1>1, RegisterIs DEF Fits
<1>3. /\ DOMAIN a.cells = 0 .. (a.bytes \div SizeOf(a.type)) - 1
      /\ DOMAIN a.values = 0 .. a.length - 1
      /\ a.length \in 0 .. IntMax
  BY DEF ArrayRight
<1>4. Fits(a.length, 4) /\ Fits(a.length, 8) /\ a.length \in Nat
  <2>1. Fits(a.length, 4) /\ a.length >= 0
    BY <1>3, IntMaxIs
  <2> QED
    BY <2>1, FitsMore DEF Fits
<1>5. a.t = 8 => a.header = a.length
  BY <1>2, <1>4, FitsOnce DEF ArrayRight
<1> QED
  BY <1>1, <1>2, <1>3, <1>4, <1>5

LEMMA IInvTyped ==
  ASSUME IInv
  PROVE  TypeOK
<1>1. ints \subseteq Value /\ longs \subseteq Value
  BY DEF IInv, NumbersRight, IntNumber, Number
<1>2. \A v \in ints : v.j = Signed(v.j, 4)
  BY SignedOnce DEF IInv, NumbersRight, IntNumber
<1>3. ASSUME NEW k \in DOMAIN arrays
      PROVE  LET a == arrays[k]
             IN /\ a.type \in Types /\ a.header \in Register /\ a.t \in Trust
                /\ DOMAIN a.cells = 0 .. (a.bytes \div SizeOf(a.type)) - 1
                /\ a.length \in 0 .. IntMax
                /\ a.values \in [0 .. a.length - 1 -> Register]
                /\ a.trust \in [0 .. a.length - 1 -> Trust]
  <2> DEFINE a == arrays[k]
  <2>1. a \in ArrayRecord /\ ArrayRight(a)
    BY <1>3 DEF IInv, ArraysRight
  <2> HIDE DEF a
  <2>2. /\ a.type \in Types /\ a.header \in Register /\ a.t \in Trust
        /\ DOMAIN a.cells = 0 .. (a.bytes \div SizeOf(a.type)) - 1
        /\ a.length \in 0 .. IntMax
    BY <2>1, CellsAre
  <2>3. a.values \in [0 .. a.length - 1 -> Int] /\ a.trust \in [0 .. a.length - 1 -> Trust]
    BY <2>1 DEF ArrayRight
  <2>4. \A i \in 0 .. a.length - 1 : a.values[i] \in Register
    BY <2>1, <2>2, ElementsFit, RegisterIs DEF ArrayRight
  <2>5. a.values \in [0 .. a.length - 1 -> Register]
    BY <2>3, <2>4
  <2> QED
    BY <2>2, <2>3, <2>5 DEF a
<1> QED
  BY <1>1, <1>2, <1>3 DEF TypeOK, IInv, LastRight

LEMMA IInvTrusted ==
  ASSUME IInv
  PROVE  TrustedBytesRight
<1>1. ASSUME NEW v \in ints \cup longs
      PROVE  Unsigned(v.m, v.t) = Unsigned(v.j, v.t)
  <2>1. Number(v)
    BY <1>1 DEF IInv, NumbersRight, IntNumber
  <2> QED
    BY <2>1, NumberIs, AlikeIs DEF Number
<1>2. ASSUME NEW k \in DOMAIN arrays
      PROVE  LET a == arrays[k]
             IN /\ Unsigned(a.header, a.t) = Unsigned(a.length, a.t)
                /\ a.t = 8 => DOMAIN a.cells = DOMAIN a.values
                /\ \A i \in DOMAIN a.cells \cap DOMAIN a.values :
                     Unsigned(a.cells[i], a.trust[i]) = Unsigned(a.values[i], a.trust[i])
  <2> DEFINE a == arrays[k]
  <2>1. a \in ArrayRecord /\ ArrayRight(a)
    BY <1>2 DEF IInv, ArraysRight
  <2> HIDE DEF a
  <2>2. a.t \in 0 .. 8
    BY <2>1, CellsAre DEF Trust
  <2>3. Unsigned(a.header, a.t) = Unsigned(a.length, a.t)
    BY <2>1, <2>2, CellsAre, AlikeIs DEF ArrayRight
  <2>4. a.t = 8 => DOMAIN a.cells = DOMAIN a.values
    BY <2>1, CellsAre DEF ArrayRight
  <2>5. ASSUME NEW i \in DOMAIN a.cells \cap DOMAIN a.values
        PROVE  Unsigned(a.cells[i], a.trust[i]) = Unsigned(a.values[i], a.trust[i])
    <3>1. i \in 0 .. (a.bytes \div SizeOf(a.type)) - 1 /\ i \in 0 .. a.length - 1
      BY <2>1, <2>5, CellsAre
    <3>2. Alike(a.cells[i], a.values[i], a.trust[i])
      BY <2>1, <3>1 DEF ArrayRight
    <3>3. a.trust[i] \in 0 .. 8
      BY <2>1, <3>1 DEF ArrayRight, Trust
    <3>4. a.values[i] \in Int
      BY <2>1, <3>1 DEF ArrayRight
    <3>5. a.cells[i] \in 0 .. Modulus(SizeOf(a.type)) - 1
      BY <2>1, <3>1 DEF ArrayRight
    <3>6. Modulus(SizeOf(a.type)) \in Nat
      BY <2>1, CellsAre, SizeIs, ModulusIs
    <3>7. a.cells[i] \in Int
      BY <3>5, <3>6, SMT
    <3> QED
      BY <3>2, <3>3, <3>4, <3>7, AlikeIs
  <2> QED
    BY <2>3, <2>4, <2>5 DEF a
<1> QED
  BY <1>1, <1>2 DEF TrustedBytesRight

LEMMA InitIInv ==
  ASSUME Init
  PROVE  IInv
<1>1. ASSUME NEW x, Fits(x, 8)
      PROVE  Number(Exact(x))
  <2>1. 8 \in Trust /\ x \in Int
    BY <1>1 DEF Trust, Fits
  <2>2. Number([m |-> x, j |-> x, t |-> 8])
    BY <1>1, <2>1, NumberMade, AlikeTogether
  <2> QED
    BY <2>2 DEF Exact
<1>2. \A v \in ints : IntNumber(v)
  <2> SUFFICES ASSUME NEW i \in Ints PROVE IntNumber(Exact(i))
    BY DEF Init
  <2>1. Fits(i, 4)
    BY RuntimeAssumption, SignedOnce
  <2>2. Fits(i, 8)
    BY <2>1, FitsMore
  <2>3. Exact(i).j = i
    BY DEF Exact
  <2> QED
    BY <1>1, <2>1, <2>2, <2>3 DEF IntNumber
<1>3. \A v \in longs : Number(v)
  <2> SUFFICES ASSUME NEW i \in Longs PROVE Number(Exact(i))
    BY DEF Init
  <2>1. Fits(i, 8)
    BY RuntimeAssumption, SignedOnce
  <2> QED
    BY <1>1, <2>1
<1>4. ArraysRight
  BY DEF Init, ArraysRight
<1>5. LastRight /\ ReportsWhatJavaRefuses /\ AcceptedIsDone
  BY DEF Init, NoCall, LastRight, ReportsWhatJavaRefuses, AcceptedIsDone
<1> QED
  BY <1>2, <1>3, <1>4, <1>5 DEF IInv, NumbersRight

-----------------------------------------------------------------------------
(* Each action. *)

LEMMA QuietStep ==
  ASSUME LastRight, last' = NoCall, machine' \in {"running", "crashed", "astray"}
  PROVE  LastRight' /\ ReportsWhatJavaRefuses' /\ AcceptedIsDone'
BY DEF LastRight, NoCall, ReportsWhatJavaRefuses, AcceptedIsDone

LEMMA ArithmeticStep ==
  ASSUME IInv, IntOp \/ Ineg \/ LongOp \/ Ldiv \/ Lcmp
  PROVE  IInv'
<1>1. NumbersRight /\ ArraysRight /\ LastRight
  BY DEF IInv
<1>2. last' = NoCall /\ arrays' = arrays /\ machine' \in {"running", "crashed", "astray"}
  BY <1>1 DEF IntOp, Ineg, LongOp, Ldiv, Lcmp, Arithmetic, LastRight
<1>3. ArraysRight'
  BY <1>1, <1>2 DEF ArraysRight
<1>4. (LastRight /\ ReportsWhatJavaRefuses /\ AcceptedIsDone)'
  BY <1>1, <1>2, QuietStep
<1>5. NumbersRight'
  <2>1. CASE IntOp
    <3>1. PICK op \in Ops, x \in ints, y \in ints :
            ints' = ints \cup {IntResult(op, x, y)} /\ longs' = longs
      BY <2>1 DEF IntOp
    <3>2. IntNumber(IntResult(op, x, y))
      BY <1>1, <3>1, IntResultRight DEF NumbersRight
    <3> QED
      BY <1>1, <3>1, <3>2 DEF NumbersRight
  <2>2. CASE Ineg
    <3>1. PICK x \in ints : ints' = ints \cup {IntResult("sub", Exact(0), x)} /\ longs' = longs
      BY <2>2 DEF Ineg
    <3>2. IntNumber(Exact(0))
      <4>1. Fits(0, 4) /\ Fits(0, 8) /\ 8 \in Trust /\ Alike(0, 0, 8)
        BY SmallFit, AlikeTogether DEF Trust
      <4>2. Number([m |-> 0, j |-> 0, t |-> 8])
        BY <4>1, NumberMade
      <4> QED
        BY <4>1, <4>2 DEF IntNumber, Exact
    <3>3. "sub" \in Ops
      BY DEF Ops
    <3>4. IntNumber(IntResult("sub", Exact(0), x))
      BY <1>1, <3>1, <3>2, <3>3, IntResultRight DEF NumbersRight
    <3> QED
      BY <1>1, <3>1, <3>4 DEF NumbersRight
  <2>3. CASE LongOp
    <3>1. PICK op \in Ops, x \in longs, y \in longs :
            longs' = longs \cup {LongResult(op, x, y)} /\ ints' = ints
      BY <2>3 DEF LongOp
    <3>2. Number(LongResult(op, x, y))
      BY <1>1, <3>1, LongResultRight DEF NumbersRight
    <3> QED
      BY <1>1, <3>1, <3>2 DEF NumbersRight
  <2>4. CASE Ldiv
    <3>1. PICK x \in longs, y \in longs :
            IF Traps(x.m, y.m)
            THEN machine' = "crashed" /\ UNCHANGED longs
            ELSE /\ longs' = IF y.j = 0 THEN longs ELSE longs \cup {DivResult(x, y)}
                 /\ UNCHANGED machine
      BY <2>4 DEF Ldiv
    <3>2. ints' = ints
      BY <2>4 DEF Ldiv
    <3>3. CASE longs' = longs
      BY <1>1, <3>2, <3>3 DEF NumbersRight
    <3>4. CASE ~Traps(x.m, y.m) /\ y.j # 0 /\ longs' = longs \cup {DivResult(x, y)}
      <4>1. Number(DivResult(x, y))
        BY <1>1, <3>4, DivResultRight DEF NumbersRight
      <4> QED
        BY <1>1, <3>2, <3>4, <4>1 DEF NumbersRight
    <3> QED
      BY <3>1, <3>3, <3>4
  <2>5. CASE Lcmp
    <3>1. PICK x \in longs, y \in longs : ints' = ints \cup {CmpResult(x, y)} /\ longs' = longs
      BY <2>5 DEF Lcmp
    <3>2. IntNumber(CmpResult(x, y))
      BY <1>1, <3>1, CmpResultRight DEF NumbersRight
    <3> QED
      BY <1>1, <3>1, <3>2 DEF NumbersRight
  <2> QED
    BY <2>1, <2>2, <2>3, <2>4, <2>5
<1> QED
  BY <1>3, <1>4, <1>5 DEF IInv

LEMMA ArrayLengthStep ==
  ASSUME IInv, ArrayLength
  PROVE  IInv'
<1>1. NumbersRight /\ ArraysRight /\ LastRight
  BY DEF IInv
<1>2. last' = NoCall /\ arrays' = arrays /\ machine' = machine /\ longs' = longs
  BY DEF ArrayLength
<1>3. PICK k \in DOMAIN arrays :
        ints' = ints \cup {[m |-> arrays[k].header, j |-> arrays[k].length, t |-> arrays[k].t]}
  BY DEF ArrayLength
<1>4. IntNumber([m |-> arrays[k].header, j |-> arrays[k].length, t |-> arrays[k].t])
  <2> DEFINE a == arrays[k]
  <2>1. a \in ArrayRecord /\ ArrayRight(a)
    BY <1>1, <1>3 DEF ArraysRight
  <2> HIDE DEF a
  <2>2. /\ Fits(a.header, 8) /\ Fits(a.length, 8) /\ Fits(a.length, 4) /\ a.t \in Trust
        /\ Alike(a.header, a.length, a.t)
    BY <2>1, CellsAre DEF ArrayRight
  <2>3. Number([m |-> a.header, j |-> a.length, t |-> a.t])
    BY <2>2, NumberMade
  <2>4. IntNumber([m |-> a.header, j |-> a.length, t |-> a.t])
    BY <2>2, <2>3 DEF IntNumber
  <2> QED
    BY <2>4 DEF a
<1>5. NumbersRight'
  BY <1>1, <1>2, <1>3, <1>4 DEF NumbersRight
<1>6. ArraysRight'
  BY <1>1, <1>2 DEF ArraysRight
<1>7. (LastRight /\ ReportsWhatJavaRefuses /\ AcceptedIsDone)'
  BY <1>1, <1>2, QuietStep DEF LastRight
<1> QED
  BY <1>5, <1>6, <1>7 DEF IInv

(* A number, the low half of which is right, says what Java does, if it is *)
(* that of an int that is not negative.                                    *)
LEMMA HalfIsEnough ==
  ASSUME NEW v, IntNumber(v), v.t >= 4
  PROVE  /\ Signed(v.m, 4) = v.j
         /\ Unsigned(v.m, 8) \in 0 .. IntMax => Unsigned(v.m, 8) = v.j
<1> USE NumberIs DEF IntNumber
<1>1. Alike(v.m, v.j, 4)
  OBVIOUS
<1>2. Signed(v.m, 4) = v.j
  <2>1. Signed(v.m, 4) = Signed(v.j, 4)
    BY <1>1, SignedAlike
  <2> QED
    BY <2>1, SignedOnce
<1> DEFINE u == Unsigned(v.m, 8)
<1>3. ASSUME u \in 0 .. IntMax
      PROVE  u = v.j
  <2> HIDE DEF IntNumber
  <2> DEFINE m == v.m
  <2>1. m \in Int /\ v.j \in Int /\ 8 \in 0 .. 8 /\ u = Unsigned(m, 8)
    BY DEF IntNumber
  <2> HIDE DEF m, u
  <2>2. Alike(u, m, 8) /\ u \in Int
    BY <2>1, UnsignedIs
  <2>3. Alike(u, m, 4)
    BY <2>1, <2>2, FewerAlike
  <2>4. Alike(u, v.j, 4)
    BY <1>1, <2>1, <2>2, <2>3, AlikeTogether DEF m
  <2>5. Fits(u, 4)
    BY <1>3, IntMaxIs DEF u
  <2>6. u = v.j
    BY <2>4, <2>5, FitsOnce DEF IntNumber
  <2> QED
    BY <2>6 DEF u
<1> QED
  BY <1>2, <1>3

(* What an access finds, when all is right. *)
LEMMA CellIs ==
  ASSUME NEW a \in ArrayRecord, ArrayRight(a), NEW v, IntNumber(v), v.t = 8, a.t = 8,
         v.j \in 0 .. a.length - 1
  PROVE  /\ ~OutOfBounds(a, v.m) /\ Cell(a, v.m) = v.j
         /\ v.j \in DOMAIN a.cells /\ v.j \in DOMAIN a.values
<1> DEFINE n == a.length
           s == SizeOf(a.type)
           j == v.j
<1>1. v.m = j /\ a.header = n /\ n \in Nat /\ n \in 0 .. IntMax
  BY NumberIs, CellsAre DEF IntNumber
<1>2. DOMAIN a.cells = 0 .. n - 1 /\ DOMAIN a.values = 0 .. n - 1
  BY CellsAre DEF ArrayRight
<1>3. s \in {1, 2, 4, 8}
  BY CellsAre, SizeIs
<1>4. Modulus(4) \in Nat /\ Modulus(4) >= 16 /\ 2 * n < Modulus(4)
  BY <1>1, ModuliAre, IntMaxIs, SMT
<1>5. Modulus(8) \in Nat /\ Modulus(8) >= 16 * Modulus(4)
  <2> DEFINE M == Modulus(4)
  <2>1. M \in Nat /\ M >= 16 /\ Modulus(8) = M * M
    BY <1>4, ModuliAre
  <2> HIDE DEF M
  <2>2. M * M >= 16 * M /\ M * M \in Nat
    BY <2>1, SMT
  <2> QED
    BY <2>1, <2>2 DEF M
<1> HIDE DEF n, s, j
<1>6. j \in Nat /\ j < n
  BY <1>1, SMT DEF j, n
<1>7. j * s \in 0 .. Modulus(8) - 1 /\ (j * s) \div s = j
  BY <1>3, <1>4, <1>5, <1>6, <1>1, SMT
<1>8. Unsigned(j, 8) = j /\ Unsigned(n, 8) = n
  <2>1. j \in 0 .. Modulus(8) - 1 /\ n \in 0 .. Modulus(8) - 1 /\ j \in Int /\ n \in Int
    BY <1>1, <1>4, <1>5, <1>6, SMT
  <2> QED
    BY <2>1, UnsignedIs
<1>9. ~OutOfBounds(a, v.m)
  BY <1>1, <1>6, <1>8, SMT DEF OutOfBounds, j, n
<1>10. Cell(a, v.m) = j
  <2>1. Cell(a, v.m) = Unsigned(j * s, 8) \div s
    BY <1>1 DEF Cell, s
  <2>2. j * s \in Int
    BY <1>7, <1>3, <1>6, SMT
  <2>3. Unsigned(j * s, 8) = j * s
    BY <1>7, <2>2, UnsignedIs
  <2> QED
    BY <1>7, <2>1, <2>3
<1>11. j \in 0 .. n - 1
  BY <1>1, <1>6, SMT
<1> QED
  BY <1>2, <1>9, <1>10, <1>11 DEF j

LEMMA AccessStep ==
  ASSUME NEW a \in ArrayRecord, ArrayRight(a), NEW v, IntNumber(v), Access(a, v)
  PROVE  (LastRight /\ ReportsWhatJavaRefuses /\ AcceptedIsDone)'
<1>1. /\ last' = [threw |-> v.j \notin 0 .. a.length - 1, reported |-> OutOfBounds(a, v.m),
                  exact |-> v.t = 8 /\ a.t = 8, low |-> v.t >= 4 /\ a.t = 8, large |-> FALSE]
      /\ machine' = IF Cell(a, v.m) \in DOMAIN a.cells THEN "running" ELSE "astray"
  BY DEF Access
<1>2. OutOfBounds(a, v.m) \in BOOLEAN
  BY DEF OutOfBounds
<1>3. LastRight'
  <2>1. last' \in [threw : BOOLEAN, reported : BOOLEAN, exact : BOOLEAN, low : BOOLEAN, large : BOOLEAN]
    BY <1>1, <1>2
  <2> QED
    BY <1>1, <2>1 DEF LastRight
<1>4. ReportsWhatJavaRefuses'
  <2> SUFFICES ASSUME v.t >= 4, a.t = 8, v.j \notin 0 .. a.length - 1
               PROVE  OutOfBounds(a, v.m)
    BY <1>1 DEF ReportsWhatJavaRefuses
  <2> DEFINE u == Unsigned(v.m, 8)
             n == a.length
  <2>1. a.header = n /\ n \in 0 .. IntMax /\ n \in Nat /\ IntMax \in Nat /\ Fits(n, 8)
    BY CellsAre, IntMaxIs
  <2>2. u \in 0 .. Modulus(8) - 1 /\ u \in Int /\ Modulus(8) \in Nat
    <3>1. v.m \in Int /\ 8 \in 0 .. 8
      BY NumberIs DEF IntNumber
    <3> QED
      BY <3>1, UnsignedIs, ModulusIs
  <2>3. Unsigned(n, 8) = n
    BY <2>1, FitsUnsigned
  <2>4. u \in 0 .. IntMax => u = v.j
    BY HalfIsEnough
  <2>5. v.j \notin 0 .. n - 1
    OBVIOUS
  <2>6. OutOfBounds(a, v.m) = (u >= n)
    BY <2>1, <2>3 DEF OutOfBounds
  <2> HIDE DEF u, n
  <2>7. u >= n
    BY <2>1, <2>2, <2>4, <2>5, SMT
  <2> QED
    BY <2>6, <2>7
<1>5. AcceptedIsDone'
  <2> SUFFICES ASSUME v.t = 8, a.t = 8, v.j \in 0 .. a.length - 1
               PROVE  ~OutOfBounds(a, v.m) /\ machine' = "running"
    BY <1>1 DEF AcceptedIsDone
  <2> QED
    BY <1>1, CellIs
<1> QED
  BY <1>3, <1>4, <1>5

LEMMA LoadedRight ==
  ASSUME NEW a \in ArrayRecord, ArrayRight(a), NEW v, IntNumber(v),
         v.j \in 0 .. a.length - 1, Cell(a, v.m) \in DOMAIN a.cells
  PROVE  /\ Number(Loaded(a, v))
         /\ a.type # "long" => IntNumber(Loaded(a, v))
<1> DEFINE c == Cell(a, v.m)
           s == SizeOf(a.type)
           x == a.cells[c]
           m == Signed(x, 8)
           j == a.values[v.j]
           t == a.trust[v.j]
           u == IF v.t < 8 \/ a.t < 8 THEN 0 ELSE IF t = JavaSize(a.type) /\ j >= 0 THEN 8 ELSE t
<1>1. Loaded(a, v) = [m |-> m, j |-> j, t |-> u]
  BY DEF Loaded
<1>2. s \in 0 .. 8 /\ s = JavaSize(a.type) /\ Modulus(s) \in Nat \ {0} /\ a.type \in Types
  BY CellsAre, SizeIs, ModulusIs
<1>3. x \in 0 .. Modulus(s) - 1
  BY CellsAre DEF ArrayRight
<1>4. x \in Int
  BY <1>2, <1>3, SMT
<1>5. IsElement(a.type, j) /\ t \in Trust /\ t <= s /\ t \in 0 .. 8
  BY <1>2, SMT DEF ArrayRight, Trust
<1>6. /\ j \in Int /\ Fits(j, 8) /\ (a.type # "long" => Fits(j, 4))
      /\ j >= 0 => j \in 0 .. Modulus(s) - 1
  BY <1>2, <1>5, ElementsFit
<1>7. Fits(m, 8) /\ Alike(m, x, 8) /\ m \in Int
  <2> HIDE DEF x
  <2>1. 8 \in 0 .. 8
    BY SMT
  <2> QED
    BY <1>4, <2>1, SignedIs DEF Fits
<1>8. u \in Trust /\ Alike(m, j, u)
  <2>1. CASE v.t < 8 \/ a.t < 8
    BY <1>6, <1>7, <2>1, NoneAlike DEF Trust
  <2>2. CASE ~(v.t < 8 \/ a.t < 8)
    <3>1. v.t = 8 /\ a.t = 8
      BY <2>2, NumberIs, CellsAre, SMT DEF IntNumber, Trust
    <3>2. c = v.j /\ v.j \in DOMAIN a.cells
      BY <3>1, CellIs
    <3>3. v.j \in (0 .. (a.bytes \div s) - 1) \cap (0 .. a.length - 1)
      BY <3>2, CellsAre
    <3>4. Alike(x, j, t)
      BY <3>2, <3>3 DEF ArrayRight
    <3>5. Alike(m, j, t)
      <4> HIDE DEF x, m, j, t
      <4>1. Alike(m, x, t)
        BY <1>4, <1>5, <1>7, FewerAlike
      <4> QED
        BY <1>4, <1>5, <1>6, <1>7, <3>4, <4>1, AlikeTogether
    <3>6. ASSUME t = JavaSize(a.type), j >= 0
          PROVE  Alike(m, j, 8)
      <4> HIDE DEF x, m, j, t
      <4>1. x - j < Modulus(s) /\ j - x < Modulus(s)
        BY <1>2, <1>3, <1>4, <1>6, <3>6, SMT
      <4>2. Same(x, j, Modulus(s)) /\ Modulus(s) \in Nat
        BY <1>2, <3>4, <3>6 DEF Alike
      <4>3. x = j
        BY <1>4, <1>6, <4>1, <4>2, Apart
      <4> QED
        BY <1>7, <4>3
    <3>7. 8 \in Trust
      BY DEF Trust
    <3> HIDE DEF x, m, j, t
    <3>8. u = IF t = JavaSize(a.type) /\ j >= 0 THEN 8 ELSE t
      BY <2>2
    <3> QED
      BY <1>5, <3>5, <3>6, <3>7, <3>8
  <2> QED
    BY <2>1, <2>2
<1> HIDE DEF m, j, t, u
<1>9. Number([m |-> m, j |-> j, t |-> u])
  BY <1>6, <1>7, <1>8, NumberMade
<1> QED
  BY <1>1, <1>6, <1>9 DEF IntNumber

LEMMA ArrayLoadStep ==
  ASSUME IInv, ArrayLoad
  PROVE  IInv'
<1>1. NumbersRight /\ ArraysRight /\ LastRight
  BY DEF IInv
<1>2. PICK k \in DOMAIN arrays, v \in ints :
        /\ Access(arrays[k], v)
        /\ LET l == Loaded(arrays[k], v)
           IN IF ~Done THEN UNCHANGED <<ints, longs>>
              ELSE IF arrays[k].type = "long" THEN longs' = longs \cup {l} /\ UNCHANGED ints
              ELSE ints' = ints \cup {l} /\ UNCHANGED longs
  BY DEF ArrayLoad
<1> DEFINE a == arrays[k]
<1>3. a \in ArrayRecord /\ ArrayRight(a) /\ IntNumber(v)
  BY <1>1 DEF ArraysRight, NumbersRight
<1>4. ArraysRight'
  BY <1>1 DEF ArraysRight, ArrayLoad
<1>5. (LastRight /\ ReportsWhatJavaRefuses /\ AcceptedIsDone)'
  BY <1>2, <1>3, AccessStep
<1>6. NumbersRight'
  <2>1. CASE ~Done
    BY <1>1, <1>2, <2>1 DEF NumbersRight
  <2>2. CASE Done
    <3>1. v.j \in 0 .. a.length - 1 /\ Cell(a, v.m) \in DOMAIN a.cells
      BY <1>2, <2>2 DEF Access, Done
    <3> HIDE DEF a
    <3>2. Number(Loaded(a, v)) /\ (a.type # "long" => IntNumber(Loaded(a, v)))
      BY <1>3, <3>1, LoadedRight
    <3>3. IF a.type = "long" THEN longs' = longs \cup {Loaded(a, v)} /\ ints' = ints
          ELSE ints' = ints \cup {Loaded(a, v)} /\ longs' = longs
      BY <1>2, <2>2 DEF a
    <3> QED
      BY <1>1, <3>2, <3>3 DEF NumbersRight
  <2> QED
    BY <2>1, <2>2
<1> QED
  BY <1>4, <1>5, <1>6 DEF IInv

LEMMA ArrayMade ==
  ASSUME NEW a, a.type \in Types, a.header \in Register, a.bytes \in Nat, a.t \in Trust, ArrayRight(a),
         a = [type |-> a.type, header |-> a.header, bytes |-> a.bytes, cells |-> a.cells, t |-> a.t,
              length |-> a.length, values |-> a.values, trust |-> a.trust]
  PROVE  a \in ArrayRecord
<1> DEFINE n == a.bytes \div SizeOf(a.type)
           s == SizeOf(a.type)
<1>1. n \in Nat /\ a.length \in Nat
  <2>1. a.length \in 0 .. IntMax /\ IntMax \in Nat
    BY IntMaxIs DEF ArrayRight
  <2> QED
    BY <2>1, SMT DEF ArrayRight
<1>2. a.cells \in [0 .. n - 1 -> Int]
  <2>1. a.cells \in [0 .. n - 1 -> 0 .. Modulus(s) - 1] /\ Modulus(s) \in Nat
    BY SizeIs, ModulusIs DEF ArrayRight
  <2>2. \A x \in 0 .. Modulus(s) - 1 : x \in Int
    BY <2>1, SMT
  <2> QED
    BY <2>1, <2>2
<1>3. a.values \in [0 .. a.length - 1 -> Int] /\ a.trust \in [0 .. a.length - 1 -> Trust]
  BY DEF ArrayRight
<1> HIDE DEF n
<1>4. /\ a.cells \in UNION {[0 .. i - 1 -> Int] : i \in Nat}
      /\ a.values \in UNION {[0 .. i - 1 -> Int] : i \in Nat}
      /\ a.trust \in UNION {[0 .. i - 1 -> Trust] : i \in Nat}
  BY <1>1, <1>2, <1>3
<1> QED
  BY <1>1, <1>4 DEF ArrayRecord

LEMMA StoredRight ==
  ASSUME NEW a \in ArrayRecord, ArrayRight(a), NEW v, IntNumber(v), NEW w, Number(w),
         v.j \in 0 .. a.length - 1, Cell(a, v.m) \in DOMAIN a.cells
  PROVE  Stored(a, v, w) \in ArrayRecord /\ ArrayRight(Stored(a, v, w))
<1> DEFINE c == Cell(a, v.m)
           s == SizeOf(a.type)
           n == a.bytes \div s
           x == Unsigned(w.m, s)
           e == Element(a.type, w.j)
           trusted == IF v.t = 8 /\ a.t = 8 THEN Least(w.t, JavaSize(a.type)) ELSE 0
           b == Stored(a, v, w)
<1>1. b = [type |-> a.type, header |-> a.header, bytes |-> a.bytes,
           cells |-> [a.cells EXCEPT ![c] = x], t |-> a.t, length |-> a.length,
           values |-> [a.values EXCEPT ![v.j] = e],
           trust |-> [i \in DOMAIN a.trust |->
                        IF i = v.j THEN trusted ELSE IF i = c THEN 0 ELSE a.trust[i]]]
  <2> DEFINE trust == [i \in DOMAIN a.trust |->
                         IF i = v.j THEN trusted ELSE IF i = c THEN 0 ELSE a.trust[i]]
  <2>1. b = [a EXCEPT !.cells[c] = x, !.values[v.j] = e, !.trust = trust]
    BY DEF Stored
  <2>2. a = [type |-> a.type, header |-> a.header, bytes |-> a.bytes, cells |-> a.cells, t |-> a.t,
             length |-> a.length, values |-> a.values, trust |-> a.trust]
    BY DEF ArrayRecord
  <2> HIDE DEF b, c, x, e, trust
  <2> DEFINE r1 == [a EXCEPT !.cells = [a.cells EXCEPT ![c] = x]]
             r2 == [r1 EXCEPT !.values = [r1.values EXCEPT ![v.j] = e]]
  <2>3. b = [r2 EXCEPT !.trust = trust]
    BY <2>1, Zenon
  <2>4. r1 = [type |-> a.type, header |-> a.header, bytes |-> a.bytes,
              cells |-> [a.cells EXCEPT ![c] = x], t |-> a.t,
              length |-> a.length, values |-> a.values, trust |-> a.trust]
    BY <2>2
  <2> HIDE DEF r1
  <2>5. r2 = [type |-> a.type, header |-> a.header, bytes |-> a.bytes,
              cells |-> [a.cells EXCEPT ![c] = x], t |-> a.t,
              length |-> a.length, values |-> [a.values EXCEPT ![v.j] = e], trust |-> a.trust]
    BY <2>4
  <2> HIDE DEF r2
  <2>6. b = [type |-> a.type, header |-> a.header, bytes |-> a.bytes,
             cells |-> [a.cells EXCEPT ![c] = x], t |-> a.t,
             length |-> a.length, values |-> [a.values EXCEPT ![v.j] = e], trust |-> trust]
    BY <2>3, <2>5
  <2> QED
    BY <2>6 DEF trust
<1>2. s \in 0 .. 8 /\ s = JavaSize(a.type) /\ s \in Trust /\ Modulus(s) \in Nat \ {0} /\ a.type \in Types
  BY CellsAre, SizeIs, ModulusIs
<1>3. w.m \in Int /\ w.j \in Int /\ w.t \in Trust /\ w.t \in 0 .. 8 /\ Fits(w.j, 8)
  BY NumberIs
<1>4. x \in 0 .. Modulus(s) - 1 /\ x \in Int /\ Alike(x, w.m, s)
  BY <1>2, <1>3, UnsignedIs
<1>5. IsElement(a.type, e) /\ Alike(e, w.j, s) /\ e \in Int
  BY <1>2, <1>3, ElementIs, ElementsFit
<1>6. trusted \in Trust /\ trusted <= s /\ trusted \in 0 .. 8 /\ Alike(x, e, trusted)
  <2>1. CASE ~(v.t = 8 /\ a.t = 8)
    <3>1. trusted = 0
      BY <2>1
    <3> HIDE DEF trusted, x, e
    <3>2. Alike(x, e, 0)
      BY <1>4, <1>5, NoneAlike
    <3> QED
      BY <1>2, <3>1, <3>2, SMT DEF Trust
  <2>2. CASE v.t = 8 /\ a.t = 8
    <3>1. trusted = Least(w.t, s)
      BY <1>2, <2>2
    <3>2. trusted \in Trust /\ trusted <= w.t /\ trusted <= s
      BY <1>2, <1>3, <3>1, LeastIs
    <3> HIDE DEF trusted, x, e
    <3>3. trusted \in 0 .. 8
      BY <3>2 DEF Trust
    <3>4. Alike(x, w.m, trusted) /\ Alike(e, w.j, trusted)
      BY <1>2, <1>3, <1>4, <1>5, <3>2, <3>3, FewerAlike
    <3>5. Alike(w.m, w.j, trusted)
      BY <3>2, <3>3, NumberIs
    <3>6. Alike(x, w.j, trusted) /\ Alike(w.j, e, trusted)
      BY <1>3, <1>4, <1>5, <3>3, <3>4, <3>5, AlikeTogether
    <3>7. Alike(x, e, trusted)
      BY <1>3, <1>4, <1>5, <3>3, <3>6, AlikeTogether
    <3> QED
      BY <3>2, <3>3, <3>7
  <2> QED
    BY <2>1, <2>2
<1>7. ~(v.t = 8 /\ a.t = 8) \/ c = v.j
  BY CellIs
<1>8. 0 \in Trust /\ 0 <= s
  BY <1>2, SMT DEF Trust
<1>9. /\ n \in Nat /\ a.cells \in [0 .. n - 1 -> 0 .. Modulus(s) - 1]
      /\ a.values \in [0 .. a.length - 1 -> Int] /\ a.trust \in [0 .. a.length - 1 -> Trust]
      /\ \A i \in 0 .. a.length - 1 : IsElement(a.type, a.values[i]) /\ a.trust[i] <= s
      /\ \A i \in (0 .. n - 1) \cap (0 .. a.length - 1) : Alike(a.cells[i], a.values[i], a.trust[i])
  BY DEF ArrayRight
<1> DEFINE d == DOMAIN a.trust
<1>10. c \in 0 .. n - 1 /\ d = 0 .. a.length - 1 /\ v.j \in 0 .. a.length - 1
  BY <1>9, CellsAre
<1> HIDE DEF c, s, n, x, e, trusted, b, d
<1> DEFINE trust == [i \in d |-> IF i = v.j THEN trusted ELSE IF i = c THEN 0 ELSE a.trust[i]]
           cells == [a.cells EXCEPT ![c] = x]
           values == [a.values EXCEPT ![v.j] = e]
<1>11. /\ trust \in [0 .. a.length - 1 -> Trust]
       /\ \A i \in 0 .. a.length - 1 : trust[i] <= s
  BY <1>6, <1>8, <1>9, <1>10
<1>12. cells \in [0 .. n - 1 -> 0 .. Modulus(s) - 1]
  BY <1>4, <1>9, <1>10
<1>13. /\ values \in [0 .. a.length - 1 -> Int]
       /\ \A i \in 0 .. a.length - 1 : IsElement(a.type, values[i])
  BY <1>5, <1>9, <1>10
<1>14. ASSUME NEW i \in (0 .. n - 1) \cap (0 .. a.length - 1)
       PROVE  Alike(cells[i], values[i], trust[i])
  <2>1. cells[i] \in Int /\ values[i] \in Int
    <3>1. cells[i] \in 0 .. Modulus(s) - 1
      BY <1>12
    <3>2. values[i] \in Int
      BY <1>13
    <3> HIDE DEF cells
    <3> QED
      BY <1>2, <3>1, <3>2, SMT
  <2>2. CASE i = v.j
    <3>1. trust[i] = trusted /\ values[i] = e
      BY <1>9, <1>10, <2>2
    <3>2. CASE c = v.j
      <4>1. cells[i] = x
        BY <1>9, <1>10, <2>2, <3>2
      <4> HIDE DEF cells, values, trust
      <4> QED
        BY <1>6, <3>1, <4>1
    <3>3. CASE c # v.j
      <4>1. trusted = 0
        BY <1>7, <3>3 DEF trusted
      <4> HIDE DEF cells, values, trust
      <4> QED
        BY <2>1, <3>1, <4>1, NoneAlike
    <3> QED
      BY <3>2, <3>3
  <2>3. CASE i # v.j /\ i = c
    <3>1. trust[i] = 0
      BY <1>10, <2>3
    <3> HIDE DEF cells, values, trust
    <3> QED
      BY <2>1, <3>1, NoneAlike
  <2>4. CASE i # v.j /\ i # c
    <3>1. trust[i] = a.trust[i] /\ values[i] = a.values[i] /\ cells[i] = a.cells[i]
      BY <1>9, <1>10, <2>4
    <3> HIDE DEF cells, values, trust
    <3> QED
      BY <1>9, <3>1
  <2> QED
    BY <2>2, <2>3, <2>4
<1> HIDE DEF trust, cells, values
<1>15. b = [type |-> a.type, header |-> a.header, bytes |-> a.bytes, cells |-> cells, t |-> a.t,
            length |-> a.length, values |-> values, trust |-> trust]
  BY <1>1 DEF trust, cells, values, d
<1>16. /\ b.type = a.type /\ b.header = a.header /\ b.bytes = a.bytes /\ b.t = a.t
       /\ b.length = a.length /\ b.cells = cells /\ b.values = values /\ b.trust = trust
  BY <1>15
<1>17. ArrayRight(b)
  <2>1. /\ a.length \in 0 .. IntMax /\ Alike(a.header, a.length, a.t)
        /\ a.t = 8 => n = a.length
    BY DEF ArrayRight, n, s
  <2>2. SizeOf(a.type) = s /\ a.bytes \div SizeOf(a.type) = n
    BY DEF n, s
  <2> QED
    BY <1>9, <1>11, <1>12, <1>13, <1>14, <1>16, <2>1, <2>2 DEF ArrayRight
<1>18. b \in ArrayRecord
  BY <1>15, <1>16, <1>17, CellsAre, ArrayMade
<1> QED
  BY <1>17, <1>18 DEF b

LEMMA ArrayStoreStep ==
  ASSUME IInv, ArrayStore
  PROVE  IInv'
<1>1. NumbersRight /\ ArraysRight /\ LastRight
  BY DEF IInv
<1>2. PICK k \in DOMAIN arrays, v \in ints :
        /\ Access(arrays[k], v)
        /\ \E w \in IF arrays[k].type = "long" THEN longs ELSE ints :
             arrays' = IF Done THEN [arrays EXCEPT ![k] = Stored(arrays[k], v, w)] ELSE arrays
  BY DEF ArrayStore
<1>3. PICK w \in IF arrays[k].type = "long" THEN longs ELSE ints :
        arrays' = IF Done THEN [arrays EXCEPT ![k] = Stored(arrays[k], v, w)] ELSE arrays
  BY <1>2
<1> DEFINE a == arrays[k]
<1>4. a \in ArrayRecord /\ ArrayRight(a) /\ IntNumber(v) /\ Number(w)
  BY <1>1 DEF ArraysRight, NumbersRight, IntNumber
<1>5. NumbersRight'
  BY <1>1 DEF NumbersRight, ArrayStore
<1>6. (LastRight /\ ReportsWhatJavaRefuses /\ AcceptedIsDone)'
  BY <1>2, <1>4, AccessStep
<1>7. ArraysRight'
  <2>1. CASE ~Done
    BY <1>1, <1>3, <2>1 DEF ArraysRight
  <2>2. CASE Done
    <3>1. v.j \in 0 .. a.length - 1 /\ Cell(a, v.m) \in DOMAIN a.cells
      BY <1>2, <2>2 DEF Access, Done
    <3> DEFINE b == Stored(a, v, w)
    <3>2. arrays' = [arrays EXCEPT ![k] = b]
      BY <1>3, <2>2
    <3> HIDE DEF a
    <3>3. b \in ArrayRecord /\ ArrayRight(b)
      BY <1>4, <3>1, StoredRight
    <3> HIDE DEF b
    <3>4. arrays' \in Seq(ArrayRecord) /\ DOMAIN arrays' = DOMAIN arrays
      BY <1>1, <3>2, <3>3 DEF ArraysRight
    <3>5. \A i \in DOMAIN arrays : arrays'[i] = IF i = k THEN b ELSE arrays[i]
      BY <1>1, <3>2 DEF ArraysRight
    <3> QED
      BY <1>1, <3>3, <3>4, <3>5 DEF ArraysRight
  <2> QED
    BY <2>1, <2>2
<1> QED
  BY <1>5, <1>6, <1>7 DEF IInv

(* A new array of the bytes that its length says. *)
LEMMA NewArrayRight ==
  ASSUME NEW type \in Types, NEW v, IntNumber(v), v.j >= 0, NEW length, NEW bytes,
         length = Unsigned(v.m, 8), bytes = Unsigned(length * SizeOf(type), 8),
         NEW b,
         b = [type |-> type, header |-> Signed(length, 8), bytes |-> bytes,
              cells |-> [i \in 0 .. (bytes \div SizeOf(type)) - 1 |-> 0],
              t |-> v.t, length |-> v.j,
              values |-> [i \in 0 .. v.j - 1 |-> 0], trust |-> [i \in 0 .. v.j - 1 |-> JavaSize(type)]]
  PROVE  /\ b \in ArrayRecord /\ ArrayRight(b)
         /\ bytes \in Nat
         /\ v.t = 8 => bytes = v.j * SizeOf(type)
<1> DEFINE s == SizeOf(type)
           n == bytes \div s
           h == Signed(length, 8)
           j == v.j
<1>1. /\ v.m \in Int /\ j \in Int /\ v.t \in Trust /\ v.t \in 0 .. 8 /\ Fits(j, 4)
      /\ Alike(v.m, j, v.t) /\ (v.t = 8 => v.m = j)
  BY NumberIs DEF IntNumber, Number
<1>2. s \in {1, 2, 4, 8} /\ s \in 0 .. 8 /\ s = JavaSize(type) /\ s \in Trust
  BY SizeIs
<1>3. length \in Int /\ Alike(length, v.m, 8) /\ (v.m \in 0 .. Modulus(8) - 1 => length = v.m)
  <2> DEFINE m == v.m
  <2>1. m \in Int /\ 8 \in 0 .. 8 /\ length = Unsigned(m, 8)
    BY <1>1
  <2> HIDE DEF m
  <2>2. Unsigned(m, 8) \in Int /\ Alike(Unsigned(m, 8), m, 8)
        /\ (m \in 0 .. Modulus(8) - 1 => Unsigned(m, 8) = m)
    BY <2>1, UnsignedIs
  <2> QED
    BY <2>1, <2>2 DEF m
<1>4. j \in 0 .. IntMax /\ Fits(j, 8) /\ j \in 0 .. Modulus(8) - 1 /\ j \in Nat
  <2>1. j \in 0 .. IntMax
    BY <1>1, IntMaxIs
  <2>2. Fits(j, 8)
    BY <1>1, FitsMore
  <2>3. j \in 0 .. Modulus(8) - 1
    BY <2>2, FitsUnsigned
  <2>4. j \in Nat
    BY <1>1, SMT
  <2> QED
    BY <2>1, <2>2, <2>3, <2>4
<1>5. Fits(h, 8) /\ h \in Int /\ Alike(h, length, 8) /\ h \in Register
  BY <1>3, SignedIs, RegisterIs DEF Fits
<1>6. Alike(h, j, v.t)
  <2> HIDE DEF h, j
  <2>1. Alike(h, v.m, 8)
    BY <1>1, <1>3, <1>5, AlikeTogether
  <2>2. v.t <= 8
    BY <1>1, SMT
  <2>3. Alike(h, v.m, v.t)
    BY <1>1, <1>5, <2>1, <2>2, FewerAlike
  <2> QED
    BY <1>1, <1>5, <2>3, AlikeTogether
<1>7. bytes \in 0 .. Modulus(8) - 1 /\ bytes \in Nat /\ n \in Nat
  <2>1. length * s \in Int
    BY <1>2, <1>3, SMT
  <2> DEFINE all == length * s
  <2> HIDE DEF all
  <2>2. bytes \in 0 .. Modulus(8) - 1 /\ Modulus(8) \in Nat
    <3>1. 8 \in 0 .. 8 /\ all \in Int /\ bytes = Unsigned(all, 8)
      BY <2>1 DEF all
    <3>2. Unsigned(all, 8) \in 0 .. Modulus(8) - 1
      BY <3>1, UnsignedIs
    <3> QED
      BY <3>1, <3>2, ModulusIs
  <2>3. bytes \in Nat
    BY <2>2, SMT
  <2> QED
    BY <1>2, <2>2, <2>3, SMT
<1>8. v.t = 8 => bytes = j * s /\ n = j
  <2> SUFFICES ASSUME v.t = 8 PROVE bytes = j * s /\ n = j
    OBVIOUS
  <2>1. length = j
    BY <1>1, <1>3, <1>4
  <2>2. j * s \in 0 .. Modulus(8) - 1 /\ j * s \in Int /\ (j * s) \div s = j
    <3> DEFINE M == Modulus(4)
    <3>1. M \in Nat /\ M >= 16 /\ Modulus(8) = M * M /\ 2 * j < M
      BY <1>1, ModuliAre DEF Fits
    <3> HIDE DEF M, j, s
    <3>2. M * M >= 16 * M /\ M * M \in Nat
      BY <3>1, SMT
    <3>3. j * s <= 8 * j /\ j * s >= 0 /\ j * s \in Int /\ (j * s) \div s = j
      BY <1>2, <1>4, SMT
    <3> QED
      BY <1>4, <3>1, <3>2, <3>3, SMT
  <2>3. bytes = j * s
    <3> DEFINE all == j * s
    <3>1. 8 \in 0 .. 8 /\ bytes = Unsigned(all, 8)
      BY <2>1
    <3>2. all \in 0 .. Modulus(8) - 1 /\ all \in Int
      BY <2>2
    <3> HIDE DEF all
    <3>3. Unsigned(all, 8) = all
      BY <3>1, <3>2, UnsignedIs
    <3> QED
      BY <3>1, <3>3 DEF all
  <2> QED
    BY <2>2, <2>3
<1> DEFINE cells  == [i \in 0 .. n - 1 |-> 0]
           values == [i \in 0 .. j - 1 |-> 0]
           trust  == [i \in 0 .. j - 1 |-> s]
<1>9. b = [type |-> type, header |-> h, bytes |-> bytes, cells |-> cells, t |-> v.t, length |-> j,
           values |-> values, trust |-> trust]
  BY <1>2
<1>10. /\ b.type = type /\ b.header = h /\ b.bytes = bytes /\ b.cells = cells /\ b.t = v.t
       /\ b.length = j /\ b.values = values /\ b.trust = trust
  BY <1>9
<1>11. /\ cells \in [0 .. n - 1 -> 0 .. Modulus(s) - 1]
       /\ values \in [0 .. j - 1 -> Int] /\ trust \in [0 .. j - 1 -> Trust]
       /\ \A i \in 0 .. j - 1 : IsElement(type, values[i]) /\ trust[i] <= s
  <2>1. 0 \in 0 .. Modulus(s) - 1 /\ IsElement(type, 0)
    BY ZeroIsElement
  <2>2. s <= s
    BY <1>2, SMT
  <2> HIDE DEF s, n, j
  <2> QED
    BY <1>2, <2>1, <2>2
<1>12. \A i \in (0 .. n - 1) \cap (0 .. j - 1) : Alike(cells[i], values[i], trust[i])
  <2>1. Alike(0, 0, s)
    BY <1>2, AlikeTogether
  <2> HIDE DEF s, n, j
  <2> QED
    BY <2>1
<1>13. SizeOf(b.type) = s /\ b.bytes \div SizeOf(b.type) = n
  BY <1>10
<1> HIDE DEF s, n, h, j, cells, values, trust
<1>14. ArrayRight(b)
  BY <1>4, <1>6, <1>7, <1>8, <1>10, <1>11, <1>12, <1>13 DEF ArrayRight
<1>15. b \in ArrayRecord
  BY <1>1, <1>5, <1>7, <1>9, <1>10, <1>14, ArrayMade
<1> QED
  BY <1>7, <1>8, <1>14, <1>15 DEF s, j

LEMMA NewArrayStep ==
  ASSUME IInv, NewArray
  PROVE  IInv'
<1>1. NumbersRight /\ ArraysRight /\ LastRight
  BY DEF IInv
<1>2. PICK type \in Types, v \in ints :
        LET length == Unsigned(v.m, 8)
            bytes  == Unsigned(length * SizeOf(type), 8)
            block  == BlockSize(bytes)
            threw  == v.j < 0
        IN /\ last' = [threw |-> threw, reported |-> Signed(v.m, 4) < 0, exact |-> v.t = 8,
                       low |-> v.t >= 4, large |-> 8 + (v.j * JavaSize(type)) > IntMax]
           /\ machine' = CASE block < 0 -> "crashed"
                           [] block >= 0 /\ block < 8 + bytes -> "astray"
                           [] OTHER -> "running"
           /\ IF threw \/ machine' # "running"
              THEN UNCHANGED arrays
              ELSE arrays' = Append(arrays,
                     [type |-> type, header |-> Signed(length, 8), bytes |-> bytes,
                      cells |-> [i \in 0 .. (bytes \div SizeOf(type)) - 1 |-> 0],
                      t |-> v.t, length |-> v.j,
                      values |-> [i \in 0 .. v.j - 1 |-> 0],
                      trust |-> [i \in 0 .. v.j - 1 |-> JavaSize(type)]])
  BY DEF NewArray
<1> DEFINE length == Unsigned(v.m, 8)
           bytes  == Unsigned(length * SizeOf(type), 8)
           block  == BlockSize(bytes)
           b == [type |-> type, header |-> Signed(length, 8), bytes |-> bytes,
                 cells |-> [i \in 0 .. (bytes \div SizeOf(type)) - 1 |-> 0],
                 t |-> v.t, length |-> v.j,
                 values |-> [i \in 0 .. v.j - 1 |-> 0], trust |-> [i \in 0 .. v.j - 1 |-> JavaSize(type)]]
<1>3. /\ last' = [threw |-> v.j < 0, reported |-> Signed(v.m, 4) < 0, exact |-> v.t = 8,
                  low |-> v.t >= 4, large |-> 8 + (v.j * JavaSize(type)) > IntMax]
      /\ machine' = CASE block < 0 -> "crashed"
                      [] block >= 0 /\ block < 8 + bytes -> "astray"
                      [] OTHER -> "running"
      /\ IF v.j < 0 \/ machine' # "running" THEN arrays' = arrays ELSE arrays' = Append(arrays, b)
  BY <1>2
<1>4. IntNumber(v)
  BY <1>1 DEF NumbersRight
<1>5. v.m \in Int /\ v.j \in Int /\ v.t \in Trust
  BY <1>4, NumberIs DEF IntNumber
<1>6. ~(v.j < 0) => b \in ArrayRecord /\ ArrayRight(b) /\ bytes \in Nat
                    /\ (v.t = 8 => bytes = v.j * SizeOf(type))
  <2> SUFFICES ASSUME ~(v.j < 0)
               PROVE  b \in ArrayRecord /\ ArrayRight(b) /\ bytes \in Nat
                      /\ (v.t = 8 => bytes = v.j * SizeOf(type))
    OBVIOUS
  <2>1. v.j >= 0
    BY <1>5, SMT
  <2> QED
    <3> HIDE DEF length, bytes, b
    <3>1. length = Unsigned(v.m, 8) /\ bytes = Unsigned(length * SizeOf(type), 8)
      BY DEF length, bytes
    <3>2. b = [type |-> type, header |-> Signed(length, 8), bytes |-> bytes,
               cells |-> [i \in 0 .. (bytes \div SizeOf(type)) - 1 |-> 0],
               t |-> v.t, length |-> v.j, values |-> [i \in 0 .. v.j - 1 |-> 0],
               trust |-> [i \in 0 .. v.j - 1 |-> JavaSize(type)]]
      BY DEF b
    <3> QED
      BY <1>2, <1>4, <2>1, <3>1, <3>2, NewArrayRight
<1> HIDE DEF length, bytes, block, b
<1>7. NumbersRight'
  BY <1>1 DEF NumbersRight, NewArray
<1>8. ArraysRight'
  <2>1. CASE arrays' = arrays
    BY <1>1, <2>1 DEF ArraysRight
  <2>2. CASE ~(v.j < 0) /\ arrays' = Append(arrays, b)
    <3>1. b \in ArrayRecord /\ ArrayRight(b) /\ arrays \in Seq(ArrayRecord)
      BY <1>1, <1>6, <2>2 DEF ArraysRight
    <3>2. arrays' \in Seq(ArrayRecord)
      BY <2>2, <3>1
    <3>3. \A k \in DOMAIN arrays' : arrays'[k] = b \/ (k \in DOMAIN arrays /\ arrays'[k] = arrays[k])
      BY <2>2, <3>1
    <3> QED
      BY <1>1, <3>1, <3>2, <3>3 DEF ArraysRight
  <2> QED
    BY <1>3, <2>1, <2>2
<1>9. LastRight'
  <2>1. machine' \in {"running", "crashed", "astray"}
    BY <1>3
  <2>2. /\ (v.j < 0) \in BOOLEAN /\ (Signed(v.m, 4) < 0) \in BOOLEAN /\ (v.t = 8) \in BOOLEAN
        /\ (v.t >= 4) \in BOOLEAN /\ (8 + (v.j * JavaSize(type)) > IntMax) \in BOOLEAN
    OBVIOUS
  <2>3. last' \in [threw : BOOLEAN, reported : BOOLEAN, exact : BOOLEAN, low : BOOLEAN, large : BOOLEAN]
    BY <1>3, <2>2
  <2> QED
    BY <2>1, <2>3 DEF LastRight
<1>10. v.t >= 4 => Signed(v.m, 4) = v.j
  BY <1>4, HalfIsEnough
<1>11. ReportsWhatJavaRefuses'
  <2> SUFFICES ASSUME v.t >= 4, v.j < 0 PROVE Signed(v.m, 4) < 0
    BY <1>3 DEF ReportsWhatJavaRefuses
  <2> QED
    BY <1>10
<1>12. AcceptedIsDone'
  <2> SUFFICES ASSUME v.t = 8, ~(v.j < 0), ~(8 + (v.j * JavaSize(type)) > IntMax)
               PROVE  ~(Signed(v.m, 4) < 0) /\ machine' = "running"
    BY <1>3 DEF AcceptedIsDone
  <2>1. ~(Signed(v.m, 4) < 0)
    BY <1>10
  <2>2. bytes \in Nat /\ bytes = v.j * JavaSize(type)
    BY <1>6, SizeIs
  <2>3. 8 + bytes \in 0 .. IntMax /\ 8 + bytes \in Int
    BY <2>2, IntMaxIs, SMT
  <2>4. block = 8 + bytes
    <3>1. Fits(8 + bytes, 4) /\ 4 \in 0 .. 8
      BY <2>3, IntMaxIs
    <3> QED
      BY <3>1, SignedOnce DEF block, BlockSize
  <2>5. ~(block < 0) /\ ~(block < 8 + bytes)
    BY <2>2, <2>4, SMT
  <2> QED
    BY <1>3, <2>1, <2>5
<1> QED
  BY <1>7, <1>8, <1>9, <1>11, <1>12 DEF IInv

-----------------------------------------------------------------------------
LEMMA NextIInv ==
  ASSUME IInv, [Next]_vars
  PROVE  IInv'
<1>1. CASE IntOp \/ Ineg \/ LongOp \/ Ldiv \/ Lcmp
  BY <1>1, ArithmeticStep
<1>2. CASE NewArray
  BY <1>2, NewArrayStep
<1>3. CASE ArrayLoad
  BY <1>3, ArrayLoadStep
<1>4. CASE ArrayStore
  BY <1>4, ArrayStoreStep
<1>5. CASE ArrayLength
  BY <1>5, ArrayLengthStep
<1>6. CASE UNCHANGED vars
  BY <1>6 DEF IInv, NumbersRight, ArraysRight, LastRight, ReportsWhatJavaRefuses, AcceptedIsDone, vars
<1> QED
  BY <1>1, <1>2, <1>3, <1>4, <1>5, <1>6 DEF Next

LEMMA Invariant ==
  Spec => []IInv
BY InitIInv, NextIInv, PTL DEF Spec

(* Registers hold what fits them, ints are ints of Java, and arrays have   *)
(* the cells that their bytes make.                                        *)
THEOREM Typed ==
  Spec => []TypeOK
BY Invariant, IInvTyped, PTL

(* As many low bytes of a number, of a length and of an element as are     *)
(* said to be are those of Java, however the number was computed and       *)
(* whatever was stored, with any number of values, arrays and operations.  *)
THEOREM TrustedBytes ==
  Spec => []TrustedBytesRight
BY Invariant, IInvTrusted, PTL

(* runtime_newarray and the checks of an index report every call that Java *)
(* refuses, though they look at registers of which only the low half need  *)
(* be right.                                                               *)
THEOREM RefusalsReported ==
  Spec => []ReportsWhatJavaRefuses
<1>1. IInv => ReportsWhatJavaRefuses
  BY DEF IInv
<1> QED
  BY <1>1, Invariant, PTL

(* What Java accepts is done without touching the memory of others, but    *)
(* for arrays whose size is no int.                                        *)
THEOREM AcceptedDone ==
  Spec => []AcceptedIsDone
<1>1. IInv => AcceptedIsDone
  BY DEF IInv
<1> QED
  BY <1>1, Invariant, PTL

=============================================================================
