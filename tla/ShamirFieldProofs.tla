------------------------- MODULE ShamirFieldProofs --------------------------
(***************************************************************************)
(* What the arithmetic of ttss_nits_shamir.cpp computes, for every prime of*)
(* the form 2^ChunkBits + 1, any number of chunks and any size of byte they*)
(* fill: inv_mod inverts, the interpolation at zero of T points finds the  *)
(* constant of a polynomial with T coefficients, T - 1 points tell nothing *)
(* of it, and packed elements come back.  In between are the theory of     *)
(* division, finite folds, polynomials and binary numbers that this takes. *)
(* Induction is over sets of numbers, from the least number that is not in *)
(* the set.                                                                *)
(***************************************************************************)
EXTENDS ShamirField, FiniteSetTheorems, WellFoundedInduction, FunctionTheorems, TLAPS

-----------------------------------------------------------------------------
(* Induction.  The library's theorems take the property as an operator;    *)
(* here it is the set of what has it.                                      *)

\* A set of numbers with 0 and with the successor of each is all of them.
LEMMA NatInduct ==
    ASSUME NEW S \in SUBSET Nat, 0 \in S, \A n \in S : n + 1 \in S
    PROVE  S = Nat
<1> SUFFICES ASSUME Nat \ S # {} PROVE FALSE
  OBVIOUS
<1> DEFINE R == OpToRel(<, Nat)
           missing == Nat \ S
<1>1. IsWellFoundedOn(R, Nat)
  BY NatLessThanWellFounded
<1>2. \A x, y \in Nat : x < y => <<x, y>> \in R
  BY DEF OpToRel
<1>3. PICK x \in missing : \A y \in missing : ~(<<y, x>> \in R)
  <2>1. missing \subseteq Nat /\ missing # {}
    OBVIOUS
  <2> HIDE DEF missing, R
  <2> QED
    BY <1>1, <2>1, WFMin
<1> HIDE DEF R
<1>4. x \in Nat /\ x - 1 \in missing
  OBVIOUS
<1>5. <<x - 1, x>> \in R
  BY <1>2, <1>4
<1> QED
  BY <1>3, <1>4, <1>5

\* A set of numbers that is not empty has a least one.
LEMMA LeastOne ==
    ASSUME NEW S \in SUBSET Nat, S # {}
    PROVE  \E m \in S : \A k \in S : m <= k
<1> SUFFICES ASSUME \A m \in S : \E k \in S : ~(m <= k) PROVE FALSE
  OBVIOUS
<1> DEFINE Q == {n \in Nat : \A k \in S : ~(k <= n)}
<1>1. 0 \in Q
  <2> SUFFICES ASSUME NEW k \in S, k <= 0 PROVE FALSE
    OBVIOUS
  <2>1. PICK j \in S : ~(k <= j)
    OBVIOUS
  <2> QED
    BY <2>1
<1>2. ASSUME NEW n \in Q PROVE n + 1 \in Q
  <2> SUFFICES ASSUME NEW k \in S, k <= n + 1 PROVE FALSE
    OBVIOUS
  <2>1. ~(k <= n)
    OBVIOUS
  <2>2. k = n + 1
    BY <2>1
  <2>3. PICK j \in S : ~(k <= j)
    OBVIOUS
  <2> QED
    BY <2>2, <2>3
<1>3. Q = Nat
  <2> Q \in SUBSET Nat
    OBVIOUS
  <2> HIDE DEF Q
  <2> QED
    BY <1>1, <1>2, NatInduct
<1>4. PICK k \in S : TRUE
  OBVIOUS
<1>5. k \in Q
  BY <1>3
<1> QED
  BY <1>5

\* A property of the empty set that is kept when an element is added.
LEMMA FiniteInduct ==
    ASSUME NEW S, IsFiniteSet(S), NEW Q, {} \in Q,
           \A A \in SUBSET S : \A x \in S \ A : A \in Q => A \cup {x} \in Q
    PROVE  \A A \in SUBSET S : A \in Q
<1> DEFINE Of(n) == \A A \in SUBSET S : Cardinality(A) = n => A \in Q
           M == {n \in Nat : Of(n)}
<1>1. \A A \in SUBSET S : IsFiniteSet(A) /\ Cardinality(A) \in Nat
  BY FS_Subset, FS_CardinalityType
<1>2. 0 \in M
  BY <1>1, FS_EmptySet
<1>3. ASSUME NEW n \in M PROVE n + 1 \in M
  <2> SUFFICES ASSUME NEW A \in SUBSET S, Cardinality(A) = n + 1 PROVE A \in Q
    OBVIOUS
  <2>1. A # {}
    <3>1. n \in Nat
      OBVIOUS
    <3>2. Cardinality(A) # 0
      BY <3>1
    <3> QED
      BY <3>2, FS_EmptySet
  <2>2. PICK x \in A : TRUE
    BY <2>1
  <2>3. Cardinality(A \ {x}) = n
    BY <1>1, FS_RemoveElement
  <2>4. A \ {x} \in Q
    BY <2>3
  <2>5. (A \ {x}) \cup {x} = A /\ x \in S \ (A \ {x})
    OBVIOUS
  <2> QED
    BY <2>4, <2>5
<1>4. M = Nat
  <2> M \in SUBSET Nat
    OBVIOUS
  <2> HIDE DEF M
  <2> QED
    BY <1>2, <1>3, NatInduct
<1>5. \A n \in Nat : Of(n)
  BY <1>4
<1> QED
  BY <1>1, <1>5

-----------------------------------------------------------------------------
(* Recursive functions *)

\* What x of S may look at.
Below(S, rank, x) == {y \in S : rank[y] < rank[x]}

\* step[x] computes a value in V from values below x, at all x of S.
Steps(S, rank, bound, V, step) ==
    /\ rank \in [S -> Nat] /\ bound \in Nat
    /\ \A x \in S : rank[x] < bound
    /\ \A x \in S : \A h \in [Below(S, rank, x) -> V] : step[x][h] \in V

\* h is defined on S by these steps.
Recurs(S, rank, V, step, h) ==
    /\ h \in [S -> V]
    /\ \A x \in S : h[x] = step[x][[y \in Below(S, rank, x) |-> h[y]]]

\* A step that asks for smaller ranks only has a function that follows it.
LEMMA RecursionExists ==
    ASSUME NEW S, NEW rank, NEW bound, NEW V, NEW step, Steps(S, rank, bound, V, step)
    PROVE  \E h : Recurs(S, rank, V, step, h)
<1> /\ rank \in [S -> Nat] /\ bound \in Nat
    /\ \A x \in S : rank[x] < bound
    /\ \A x \in S : \A h \in [Below(S, rank, x) -> V] : step[x][h] \in V
  BY DEF Steps
<1> DEFINE Upto(n) == {x \in S : rank[x] < n}
           Sat(n, h) == \A x \in Upto(n) : h[x] = step[x][[y \in Below(S, rank, x) |-> h[y]]]
           M == {n \in Nat : \E h \in [Upto(n) -> V] : Sat(n, h)}
<1>1. 0 \in M
  <2>1. Upto(0) = {}
    OBVIOUS
  <2> DEFINE h == [x \in Upto(0) |-> x]
  <2>2. h \in [Upto(0) -> V] /\ Sat(0, h)
    BY <2>1
  <2> QED
    BY <2>2
<1>2. ASSUME NEW n \in M PROVE n + 1 \in M
  <2>1. PICK h \in [Upto(n) -> V] : Sat(n, h)
    OBVIOUS
  <2> DEFINE B(x) == Below(S, rank, x)
             k == [x \in Upto(n + 1) |->
                      IF rank[x] < n THEN h[x] ELSE step[x][[y \in B(x) |-> h[y]]]]
  <2>2. \A x \in Upto(n + 1) : B(x) \subseteq Upto(n)
    BY DEF Below
  <2>3. \A x \in Upto(n + 1) : [y \in B(x) |-> h[y]] \in [B(x) -> V]
    BY <2>2
  <2>4. k \in [Upto(n + 1) -> V]
    <3> SUFFICES ASSUME NEW x \in Upto(n + 1) PROVE k[x] \in V
      OBVIOUS
    <3>1. x \in S /\ step[x][[y \in B(x) |-> h[y]]] \in V
      BY <2>3
    <3>2. rank[x] < n => h[x] \in V
      OBVIOUS
    <3> QED
      BY <3>1, <3>2
  <2>5. \A x \in Upto(n + 1) : \A y \in B(x) : k[y] = h[y]
    BY <2>2
  <2>6. \A x \in Upto(n + 1) : [y \in B(x) |-> k[y]] = [y \in B(x) |-> h[y]]
    <3> HIDE DEF k
    <3> QED
      BY <2>5
  <2>7. Sat(n + 1, k)
    <3> SUFFICES ASSUME NEW x \in Upto(n + 1) PROVE k[x] = step[x][[y \in B(x) |-> k[y]]]
      OBVIOUS
    <3>1. k[x] = step[x][[y \in B(x) |-> h[y]]]
      <4>1. rank[x] < n => h[x] = step[x][[y \in B(x) |-> h[y]]]
        BY <2>1
      <4> QED
        BY <4>1
    <3> QED
      BY <2>6, <3>1
  <2>8. n + 1 \in Nat
    OBVIOUS
  <2>9. \E f \in [Upto(n + 1) -> V] : Sat(n + 1, f)
    <3> HIDE DEF k, Upto, Sat
    <3> QED
      BY <2>4, <2>7
  <2> QED
    BY <2>8, <2>9
<1>3. M = Nat
  <2> M \in SUBSET Nat
    OBVIOUS
  <2> HIDE DEF M
  <2> QED
    BY <1>1, <1>2, NatInduct
<1>4. PICK h \in [Upto(bound) -> V] : Sat(bound, h)
  BY <1>3
<1>5. Upto(bound) = S
  OBVIOUS
<1> QED
  BY <1>4, <1>5 DEF Recurs
-----------------------------------------------------------------------------
(* Division *)

\* Quotient and remainder, for negative dividends as well.
LEMMA DivDef ==
    ASSUME NEW a \in Int, NEW m \in Nat \ {0}
    PROVE  /\ a \div m \in Int /\ a % m \in 0..(m - 1)
           /\ a = (a \div m) * m + (a % m)
  OBVIOUS

\* There is one quotient and one remainder.
LEMMA ModUnique ==
    ASSUME NEW m \in Nat \ {0}, NEW q \in Int, NEW r \in 0..(m - 1)
    PROVE  (q * m + r) % m = r /\ (q * m + r) \div m = q
<1> DEFINE a == q * m + r
           k == a \div m
           s == a % m
<1>1. a \in Int /\ q * m \in Int
  OBVIOUS
<1>2. k \in Int /\ s \in 0..(m - 1) /\ a = k * m + s
  BY <1>1, DivDef
<1> HIDE DEF a, k, s
<1>3. (q - k) * m = s - r
  BY <1>2 DEF a
<1>4. ~(q - k >= 1)
  <2> SUFFICES ASSUME q - k >= 1 PROVE FALSE
    OBVIOUS
  <2>1. (q - k) * m >= m
    BY <1>2
  <2> QED
    BY <1>2, <1>3, <2>1
<1>5. ~(k - q >= 1)
  <2> SUFFICES ASSUME k - q >= 1 PROVE FALSE
    OBVIOUS
  <2>1. (k - q) * m >= m
    BY <1>2
  <2>2. (k - q) * m = r - s
    BY <1>2, <1>3
  <2> QED
    BY <1>2, <2>1, <2>2
<1>6. q = k
  BY <1>2, <1>4, <1>5
<1> QED
  BY <1>2, <1>3, <1>6 DEF a, k, s

\* Multiples of the modulus make no difference.
LEMMA ModShift ==
    ASSUME NEW m \in Nat \ {0}, NEW a \in Int, NEW k \in Int
    PROVE  (a + k * m) % m = a % m
<1>1. a \div m \in Int /\ a % m \in 0..(m - 1) /\ a = (a \div m) * m + (a % m)
  BY DivDef
<1>2. a + k * m = ((a \div m) + k) * m + (a % m)
  BY <1>1
<1>3. (a \div m) + k \in Int
  BY <1>1
<1> QED
  BY <1>1, <1>2, <1>3, ModUnique

\* A remainder is its own remainder.
LEMMA ModSmall ==
    ASSUME NEW m \in Nat \ {0}, NEW a \in 0..(m - 1)
    PROVE  a % m = a
<1>1. (0 * m + a) % m = a
  BY ModUnique
<1> QED
  BY <1>1

\* A term may be reduced before the sum is.
LEMMA ModAdd ==
    ASSUME NEW m \in Nat \ {0}, NEW a \in Int, NEW b \in Int
    PROVE  /\ ((a % m) + b) % m = (a + b) % m
           /\ (a + (b % m)) % m = (a + b) % m
<1> DEFINE i == a \div m
           j == b \div m
           r == a % m
           s == b % m
<1>1. i \in Int /\ r \in Int /\ a = i * m + r
  BY DivDef
<1>2. j \in Int /\ s \in Int /\ b = j * m + s
  BY DivDef
<1> HIDE DEF i, j, r, s
<1>3. a + b = (r + b) + i * m /\ a + b = (a + s) + j * m
  BY <1>1, <1>2
<1>4. ((r + b) + i * m) % m = (r + b) % m
  <2> r + b \in Int
    BY <1>1
  <2> QED
    BY <1>1, ModShift
<1>5. ((a + s) + j * m) % m = (a + s) % m
  <2> a + s \in Int
    BY <1>2
  <2> QED
    BY <1>2, ModShift
<1> QED
  BY <1>3, <1>4, <1>5 DEF r, s

\* A factor may be reduced before the product is.
LEMMA ModMul ==
    ASSUME NEW m \in Nat \ {0}, NEW a \in Int, NEW b \in Int
    PROVE  /\ ((a % m) * b) % m = (a * b) % m
           /\ (a * (b % m)) % m = (a * b) % m
<1> DEFINE i == a \div m
           j == b \div m
           r == a % m
           s == b % m
<1>1. i \in Int /\ r \in Int /\ a = i * m + r
  BY DivDef
<1>2. j \in Int /\ s \in Int /\ b = j * m + s
  BY DivDef
<1> HIDE DEF i, j, r, s
<1>3. a * b = r * b + (i * b) * m /\ a * b = a * s + (a * j) * m
  BY <1>1, <1>2
<1>4. (r * b + (i * b) * m) % m = (r * b) % m
  <2> r * b \in Int /\ i * b \in Int
    BY <1>1
  <2> QED
    BY ModShift
<1>5. (a * s + (a * j) * m) % m = (a * s) % m
  <2> a * s \in Int /\ a * j \in Int
    BY <1>2
  <2> QED
    BY ModShift
<1> QED
  BY <1>3, <1>4, <1>5 DEF r, s

-----------------------------------------------------------------------------
(* Powers of two *)

\* 2^n, one step at a time.
LEMMA TwoPower ==
    ASSUME NEW n \in Nat
    PROVE  2^n \in Nat /\ 2^(n+1) = 2 * 2^n
<1> DEFINE A == 1..n
           B == 1..(n+1)
           U == {X \in SUBSET B : n + 1 \notin X}
           V == {X \in SUBSET B : n + 1 \in X}
<1>1. IsFiniteSet(A) /\ Cardinality(A) = n /\ IsFiniteSet(B) /\ Cardinality(B) = n + 1
  BY FS_Interval
<1>2. /\ IsFiniteSet(SUBSET A) /\ Cardinality(SUBSET A) = 2^n
      /\ IsFiniteSet(SUBSET B) /\ Cardinality(SUBSET B) = 2^(n+1)
  <2> HIDE DEF A, B
  <2> QED
    BY <1>1, FS_SUBSET
<1>3. U = SUBSET A
  OBVIOUS
<1>4. IsFiniteSet(U) /\ IsFiniteSet(V) /\ Cardinality(U) \in Nat /\ Cardinality(V) \in Nat
  <2>1. U \in SUBSET SUBSET B /\ V \in SUBSET SUBSET B
    OBVIOUS
  <2> HIDE DEF U, V, B
  <2> QED
    BY <1>2, <2>1, FS_Subset, FS_CardinalityType
<1>5. Cardinality(V) = Cardinality(U)
  <2> DEFINE f == [X \in U |-> X \cup {n+1}]
  <2>1. f \in [U -> V]
    OBVIOUS
  <2>2. \A X, Y \in U : f[X] = f[Y] => X = Y
    <3> SUFFICES ASSUME NEW X \in U, NEW Y \in U, X \cup {n+1} = Y \cup {n+1}
                 PROVE  X = Y
      OBVIOUS
    <3>1. n + 1 \notin X /\ n + 1 \notin Y
      OBVIOUS
    <3>2. \A x : x \in X <=> x \in Y
      BY <3>1
    <3> QED
      BY <3>2
  <2>3. ASSUME NEW Y \in V PROVE \E X \in U : f[X] = Y
    <3>1. Y \ {n+1} \in U /\ f[Y \ {n+1}] = Y
      OBVIOUS
    <3> QED
      BY <3>1
  <2> HIDE DEF f, U, V
  <2>4. f \in Bijection(U, V)
    BY <2>1, <2>2, <2>3 DEF Bijection, Injection, Surjection, IsInjective
  <2>5. ExistsBijection(U, V)
    BY <2>4, Zenon DEF ExistsBijection
  <2> QED
    BY <1>4, <2>5, FS_Bijection
<1>6. U \cup V = SUBSET B /\ U \cap V = {}
  OBVIOUS
<1> HIDE DEF U, V, A, B
<1>7. Cardinality(U \cup V) = Cardinality(U) + Cardinality(V) - Cardinality({})
  BY <1>4, <1>6, FS_Union
<1>8. Cardinality({}) = 0
  BY FS_EmptySet
<1>9. Cardinality(SUBSET A) = Cardinality(U) /\ Cardinality(SUBSET B) = 2 * Cardinality(U)
  <2>1. Cardinality(SUBSET A) = Cardinality(U)
    BY <1>3, Zenon
  <2>2. Cardinality(SUBSET B) = Cardinality(U \cup V)
    BY <1>6, Zenon
  <2>3. Cardinality(U \cup V) = 2 * Cardinality(U)
    BY <1>4, <1>5, <1>7, <1>8
  <2> QED
    BY <2>1, <2>2, <2>3, Zenon
<1>10. 2^n = Cardinality(U) /\ 2^(n + 1) = 2 * Cardinality(U)
  BY <1>2, <1>9, Zenon
<1> QED
  BY <1>4, <1>10, Zenon

-----------------------------------------------------------------------------
(* The field *)

\* The modulus is at least 3.
LEMMA Modulus == P \in Nat /\ P >= 3 /\ P \in Nat \ {0} /\ 0 \in Field /\ 1 \in Field
<1>1. PICK n \in Nat : n + 1 = ChunkBits
  <2>1. ChunkBits - 1 \in Nat /\ (ChunkBits - 1) + 1 = ChunkBits
    BY FieldAssumption
  <2> QED
    BY <2>1, Zenon
<1> DEFINE q == 2^n
<1>2. q \in Nat /\ 2^(n + 1) = 2 * q
  BY <1>1, TwoPower, Zenon
<1>3. q >= 1
  <2> DEFINE M == {k \in Nat : 2^k >= 1}
  <2>1. 0 \in M
    OBVIOUS
  <2>2. ASSUME NEW k \in M PROVE k + 1 \in M
    <3>1. k \in Nat /\ 2^k >= 1
      OBVIOUS
    <3>2. 2^k \in Nat /\ 2^(k + 1) = 2 * 2^k
      BY <3>1, TwoPower
    <3>3. 2 * 2^k >= 1
      BY <3>1, <3>2
    <3>4. 2^(k + 1) >= 1
      BY <3>2, <3>3, Zenon
    <3> QED
      BY <3>1, <3>4
  <2>3. M = Nat
    <3> M \in SUBSET Nat
      OBVIOUS
    <3> HIDE DEF M
    <3> QED
      BY <2>1, <2>2, NatInduct
  <2> QED
    BY <1>1, <2>3
<1>5. P = 2 * q + 1
  BY <1>1, <1>2, Zenon DEF P
<1> HIDE DEF q
<1>6. P \in Nat /\ P >= 3
  BY <1>2, <1>3, <1>5
<1> QED
  BY <1>6 DEF Field

\* The elements of the field are numbers, and are reduced.
LEMMA FieldInt == Field \subseteq Nat /\ \A a \in Field : a % P = a /\ a \in 0..(P - 1)
<1>1. \A a \in Field : a % P = a
  BY Modulus, ModSmall DEF Field
<1> QED
  BY <1>1, Modulus DEF Field

\* Sums and products may be reduced modulo P at any point.
LEMMA Reduce ==
    \A a, b \in Int :
        /\ ((a % P) + b) % P = (a + b) % P /\ (a + (b % P)) % P = (a + b) % P
        /\ ((a % P) * b) % P = (a * b) % P /\ (a * (b % P)) % P = (a * b) % P
        /\ (a + b * P) % P = a % P
        /\ a % P \in Int
<1> SUFFICES ASSUME NEW a \in Int, NEW b \in Int
             PROVE  /\ ((a % P) + b) % P = (a + b) % P /\ (a + (b % P)) % P = (a + b) % P
                    /\ ((a % P) * b) % P = (a * b) % P /\ (a * (b % P)) % P = (a * b) % P
                    /\ (a + b * P) % P = a % P
                    /\ a % P \in Int
  OBVIOUS
<1> DEFINE p == P
<1>1. p \in Nat \ {0}
  BY Modulus
<1> HIDE DEF p
<1>2. /\ ((a % p) + b) % p = (a + b) % p /\ (a + (b % p)) % p = (a + b) % p
  BY <1>1, ModAdd, Zenon
<1>3. ((a % p) * b) % p = (a * b) % p /\ (a * (b % p)) % p = (a * b) % p
  BY <1>1, ModMul, Zenon
<1>4. (a + b * p) % p = a % p
  BY <1>1, ModShift, Zenon
<1>5. a % p \in Int
  BY <1>1, DivDef
<1> QED
  BY <1>2, <1>3, <1>4, <1>5, Zenon DEF p

\* Sums, products and differences are in the field.
LEMMA FieldTypes ==
    ASSUME NEW a \in Nat, NEW b \in Nat
    PROVE  /\ AddMod(a, b) \in Field /\ MulMod(a, b) \in Field
           /\ b \in Field => SubMod(a, b) \in Field
<1>1. \A k \in Int : k % P \in Field
  BY Modulus, DivDef DEF Field
<1>2. a + b \in Int /\ a * b \in Int /\ a + P - b \in Int
  BY Modulus
<1> QED
  BY <1>1, <1>2, Zenon DEF AddMod, MulMod, SubMod

\* Addition in the field commutes, associates and has 0.
LEMMA AddRing ==
    ASSUME NEW a \in Field, NEW b \in Field, NEW c \in Field
    PROVE  /\ AddMod(a, b) \in Field
           /\ AddMod(a, b) = AddMod(b, a)
           /\ AddMod(AddMod(a, b), c) = AddMod(a, AddMod(b, c))
           /\ AddMod(a, 0) = a /\ AddMod(0, a) = a
<1>1. a \in Int /\ b \in Int /\ c \in Int /\ a % P = a /\ a + b \in Int /\ b + c \in Int
  BY FieldInt
<1>2. (((a + b) % P) + c) % P = ((a + b) + c) % P
  BY <1>1, Reduce, Zenon
<1>3. (a + ((b + c) % P)) % P = (a + (b + c)) % P
  BY <1>1, Reduce, Zenon
<1>4. (a + b) + c = a + (b + c) /\ a + b = b + a /\ a + 0 = a /\ 0 + a = a
  BY <1>1
<1>5. AddMod(AddMod(a, b), c) = AddMod(a, AddMod(b, c))
  BY <1>2, <1>3, <1>4, Zenon DEF AddMod
<1>6. AddMod(a, b) = AddMod(b, a) /\ AddMod(a, 0) = a /\ AddMod(0, a) = a
  BY <1>1, <1>4, Zenon DEF AddMod
<1> QED
  BY <1>1, <1>5, <1>6, FieldInt, FieldTypes

\* So does multiplication, with 1.
LEMMA MulRing ==
    ASSUME NEW a \in Field, NEW b \in Field, NEW c \in Field
    PROVE  /\ MulMod(a, b) \in Field
           /\ MulMod(a, b) = MulMod(b, a)
           /\ MulMod(MulMod(a, b), c) = MulMod(a, MulMod(b, c))
           /\ MulMod(a, 1) = a /\ MulMod(1, a) = a
           /\ MulMod(a, 0) = 0 /\ MulMod(0, a) = 0
<1>1. a \in Int /\ b \in Int /\ c \in Int /\ a % P = a /\ 0 % P = 0 /\ a * b \in Int /\ b * c \in Int
  BY FieldInt, Modulus
<1>2. (((a * b) % P) * c) % P = ((a * b) * c) % P
  BY <1>1, Reduce, Zenon
<1>3. (a * ((b * c) % P)) % P = (a * (b * c)) % P
  BY <1>1, Reduce, Zenon
<1>4. (a * b) * c = a * (b * c) /\ a * b = b * a /\ a * 1 = a /\ 1 * a = a /\ a * 0 = 0 /\ 0 * a = 0
  BY <1>1
<1>5. MulMod(MulMod(a, b), c) = MulMod(a, MulMod(b, c))
  BY <1>2, <1>3, <1>4, Zenon DEF MulMod
<1>6. /\ MulMod(a, b) = MulMod(b, a) /\ MulMod(a, 1) = a /\ MulMod(1, a) = a
      /\ MulMod(a, 0) = 0 /\ MulMod(0, a) = 0
  BY <1>1, <1>4, Zenon DEF MulMod
<1> QED
  BY <1>1, <1>5, <1>6, FieldInt, FieldTypes

\* Multiplication distributes over addition.
LEMMA Distributes ==
    ASSUME NEW a \in Field, NEW b \in Field, NEW c \in Field
    PROVE  /\ MulMod(a, AddMod(b, c)) = AddMod(MulMod(a, b), MulMod(a, c))
           /\ MulMod(AddMod(b, c), a) = AddMod(MulMod(b, a), MulMod(c, a))
<1>1. a \in Int /\ b \in Int /\ c \in Int /\ a * b \in Int /\ a * c \in Int /\ b + c \in Int
  BY FieldInt
<1>2. (a * ((b + c) % P)) % P = (a * (b + c)) % P
  BY <1>1, Reduce, Zenon
<1>3. (((a * b) % P) + ((a * c) % P)) % P = ((a * b) + (a * c)) % P
  <2>1. (a * b) % P \in Int
    BY <1>1, Reduce, Zenon
  <2>2. (((a * b) % P) + ((a * c) % P)) % P = (((a * b) % P) + (a * c)) % P
    BY <1>1, <2>1, Reduce, Zenon
  <2>3. (((a * b) % P) + (a * c)) % P = ((a * b) + (a * c)) % P
    BY <1>1, Reduce, Zenon
  <2> QED
    BY <2>2, <2>3, Zenon
<1>4. a * (b + c) = (a * b) + (a * c)
  BY <1>1
<1>5. MulMod(a, AddMod(b, c)) = AddMod(MulMod(a, b), MulMod(a, c))
  BY <1>2, <1>3, <1>4, Zenon DEF AddMod, MulMod
<1>6. AddMod(b, c) \in Field
  BY AddRing
<1> QED
  BY <1>5, <1>6, MulRing, Zenon

\* SubMod is the inverse of AddMod.
LEMMA SubRing ==
    ASSUME NEW a \in Field, NEW b \in Field
    PROVE  /\ SubMod(a, b) \in Field
           /\ AddMod(SubMod(a, b), b) = a
           /\ SubMod(AddMod(a, b), b) = a
           /\ (SubMod(a, b) = 0) <=> (a = b)
<1> DEFINE c == P - b
<1>1. /\ a \in Int /\ b \in Int /\ a % P = a /\ b % P = b /\ c \in Int
      /\ 0 \in Int /\ 1 \in Int /\ P \in Nat \ {0} /\ c + b = P /\ a + P = a + 1 * P /\ 0 + 1 * P = b + c
  BY FieldInt, Modulus
<1>2. a + c \in Int /\ (a + c) + b = a + 1 * P /\ a + b \in Int /\ (a + b) + c = a + 1 * P
  BY <1>1
<1>3. SubMod(a, b) = (a + c) % P /\ \A k : SubMod(k, b) = (k + c) % P
  BY DEF SubMod
<1>4. (a + 1 * P) % P = a /\ (0 + 1 * P) % P = 0
  <2>1. (a + 1 * P) % P = a % P /\ (0 + 1 * P) % P = 0 % P
    BY <1>1, Reduce, Zenon
  <2>2. 0 % P = 0
    BY FieldInt, Modulus
  <2> QED
    BY <1>1, <2>1, <2>2, Zenon
<1> HIDE DEF c
<1>5. SubMod(a, b) \in Field
  BY <1>1, <1>2, <1>3, DivDef DEF Field
<1>6. AddMod(SubMod(a, b), b) = a
  <2>1. (((a + c) % P) + b) % P = ((a + c) + b) % P
    <3> a + c \in Int /\ b \in Int
      BY <1>1, <1>2
    <3> QED
      BY Reduce, Zenon
  <2> QED
    BY <1>2, <1>3, <1>4, <2>1, Zenon DEF AddMod
<1>7. SubMod(AddMod(a, b), b) = a
  <2>1. (((a + b) % P) + c) % P = ((a + b) + c) % P
    <3> a + b \in Int /\ c \in Int
      BY <1>1, <1>2
    <3> QED
      BY Reduce, Zenon
  <2> QED
    BY <1>2, <1>3, <1>4, <2>1, Zenon DEF AddMod
<1>8. AddMod(0, b) = b
  BY Modulus, AddRing
<1>9. SubMod(a, b) = 0 => a = b
  BY <1>6, <1>8
<1>10. a = b => SubMod(a, b) = 0
  BY <1>1, <1>3, <1>4, Zenon
<1> QED
  BY <1>5, <1>6, <1>7, <1>9, <1>10

-----------------------------------------------------------------------------
(* Folds over finite sets, of an operation that is given as a function     *)

Commutes(V, g) ==
    /\ g \in [V \X V -> V]
    /\ \A a, b \in V : g[<<a, b>>] = g[<<b, a>>]
    /\ \A a, b, c \in V : g[<<g[<<a, b>>], c>>] = g[<<a, g[<<b, c>>]>>]

One(A) == CHOOSE x \in A : TRUE

\* h folds every subset of S, in the order of the choices.
FoldsAll(V, g, b, f, S, h) ==
    /\ h \in [SUBSET S -> V]
    /\ h[{}] = b
    /\ \A A \in SUBSET S : A # {} => h[A] = g[<<f[One(A)], h[A \ {One(A)}]>>]

\* One chooses from what is there.
LEMMA OneOf == ASSUME NEW A, A # {} PROVE One(A) \in A
  BY Zenon DEF One

\* Every finite set has a fold.
LEMMA FoldExists ==
    ASSUME NEW V, NEW g \in [V \X V -> V], NEW b \in V, NEW S, IsFiniteSet(S),
           NEW f, \A x \in S : f[x] \in V
    PROVE  \E h : FoldsAll(V, g, b, f, S, h)
<1> DEFINE rank == [A \in SUBSET S |-> Cardinality(A)]
           B(A) == Below(SUBSET S, rank, A)
           value(A, h) == IF A = {} THEN b ELSE g[<<f[One(A)], h[A \ {One(A)}]>>]
           step == [A \in SUBSET S |-> [h \in [B(A) -> V] |-> value(A, h)]]
<1>1. \A A \in SUBSET S : IsFiniteSet(A) /\ Cardinality(A) \in Nat /\ Cardinality(A) <= Cardinality(S)
  BY FS_Subset, FS_CardinalityType
<1>2. rank \in [SUBSET S -> Nat] /\ \A A \in SUBSET S : rank[A] < Cardinality(S) + 1
  <2>1. Cardinality(S) \in Nat
    BY <1>1
  <2> QED
    BY <1>1, <2>1
<1>3. ASSUME NEW A \in SUBSET S, A # {}
      PROVE  A \ {One(A)} \in B(A) /\ f[One(A)] \in V
  <2>1. One(A) \in A
    BY <1>3, OneOf
  <2>2. Cardinality(A \ {One(A)}) = Cardinality(A) - 1 /\ Cardinality(A) \in Nat
    BY <1>1, <2>1, FS_RemoveElement
  <2>3. Cardinality(A \ {One(A)}) < Cardinality(A)
    BY <2>2
  <2> QED
    BY <2>1, <2>3 DEF Below
<1>4. ASSUME NEW A \in SUBSET S, NEW h \in [B(A) -> V] PROVE value(A, h) \in V
  <2>1. CASE A = {}
    BY <2>1
  <2>2. CASE A # {}
    <3>1. h[A \ {One(A)}] \in V /\ f[One(A)] \in V
      <4> HIDE DEF rank
      <4> QED
        BY <1>3, <2>2
    <3> QED
      BY <2>2, <3>1
  <2> QED
    BY <2>1, <2>2
<1>5. \A A \in SUBSET S : \A h \in [B(A) -> V] : step[A][h] = value(A, h)
  BY Zenon
<1>6. \A A \in SUBSET S : \A h \in [B(A) -> V] : step[A][h] \in V
  BY <1>4, <1>5, Zenon
<1> HIDE DEF step
<1>7. PICK h \in [SUBSET S -> V] : \A A \in SUBSET S : h[A] = step[A][[X \in B(A) |-> h[X]]]
  <2>1. Cardinality(S) + 1 \in Nat
    BY <1>1
  <2>2. \A A \in SUBSET S : \A k \in [Below(SUBSET S, rank, A) -> V] : step[A][k] \in V
    BY <1>6
  <2> HIDE DEF rank
  <2>3. Steps(SUBSET S, rank, Cardinality(S) + 1, V, step)
    BY <1>2, <2>1, <2>2, Zenon DEF Steps
  <2>4. PICK k : Recurs(SUBSET S, rank, V, step, k)
    BY <2>3, RecursionExists
  <2> QED
    BY <2>4, Zenon DEF Recurs
<1>8. \A A \in SUBSET S : h[A] = value(A, [X \in B(A) |-> h[X]])
  <2> SUFFICES ASSUME NEW A \in SUBSET S PROVE h[A] = value(A, [X \in B(A) |-> h[X]])
    OBVIOUS
  <2>1. B(A) \subseteq SUBSET S
    BY DEF Below
  <2>2. [X \in B(A) |-> h[X]] \in [B(A) -> V]
    BY <2>1
  <2> HIDE DEF value
  <2> QED
    BY <1>5, <1>7, <2>2, Zenon
<1>9. \A A \in SUBSET S : A # {} => h[A] = g[<<f[One(A)], h[A \ {One(A)}]>>]
  <2> SUFFICES ASSUME NEW A \in SUBSET S, A # {} PROVE h[A] = g[<<f[One(A)], h[A \ {One(A)}]>>]
    OBVIOUS
  <2>1. [X \in B(A) |-> h[X]][A \ {One(A)}] = h[A \ {One(A)}]
    BY <1>3, Zenon
  <2> QED
    BY <1>8, <2>1, Zenon
<1>10. h[{}] = b
  BY <1>8
<1> QED
  BY <1>9, <1>10, Zenon DEF FoldsAll

\* What can be folded in any order.
Foldable(V, g, b, f, S) ==
    Commutes(V, g) /\ b \in V /\ IsFiniteSet(S) /\ \A x \in S : f[x] \in V

\* The order of the choices does not matter.
LEMMA FoldTakes ==
    ASSUME NEW V, NEW g, NEW b, NEW f, NEW S, Foldable(V, g, b, f, S),
           NEW h, FoldsAll(V, g, b, f, S, h)
    PROVE  \A A \in SUBSET S : \A x \in A : h[A] = g[<<f[x], h[A \ {x}]>>]
<1> Commutes(V, g) /\ b \in V /\ IsFiniteSet(S) /\ \A x \in S : f[x] \in V
  BY DEF Foldable
<1> DEFINE Q == {A \in SUBSET S : \A x \in A : h[A] = g[<<f[x], h[A \ {x}]>>]}
           Of(n) == \A A \in SUBSET S : Cardinality(A) = n => A \in Q
           M == {n \in Nat : Of(n)}
<1>1. \A A \in SUBSET S : IsFiniteSet(A) /\ Cardinality(A) \in Nat
  BY FS_Subset, FS_CardinalityType
<1>2. 0 \in M
  BY <1>1, FS_EmptySet
<1>3. ASSUME NEW n \in M PROVE n + 1 \in M
  <2>0. n \in Nat /\ n + 1 \in Nat /\ Of(n)
    OBVIOUS
  <2> SUFFICES ASSUME NEW A \in SUBSET S, Cardinality(A) = n + 1, NEW x \in A
               PROVE  h[A] = g[<<f[x], h[A \ {x}]>>]
    BY <2>0
  <2> DEFINE y == One(A)
  <2>1. y \in A /\ h[A] = g[<<f[y], h[A \ {y}]>>]
    BY OneOf DEF FoldsAll
  <2> HIDE DEF y
  <2>2. CASE y = x
    BY <2>1, <2>2
  <2>3. CASE y # x
    <3> DEFINE C == (A \ {y}) \ {x}
    <3>1. Cardinality(A \ {y}) = n /\ Cardinality(A \ {x}) = n
      <4>1. IsFiniteSet(A) /\ Cardinality(A) = n + 1 /\ n \in Nat
        BY <1>1, <2>0
      <4> HIDE DEF Q
      <4>2. Cardinality(A \ {y}) = Cardinality(A) - 1 /\ Cardinality(A \ {x}) = Cardinality(A) - 1
        BY <2>1, <4>1, FS_RemoveElement
      <4> QED
        BY <4>1, <4>2
    <3>2. A \ {y} \in Q /\ A \ {x} \in Q
      <4>1. A \ {y} \in SUBSET S /\ A \ {x} \in SUBSET S
        OBVIOUS
      <4> HIDE DEF Q
      <4> QED
        BY <2>0, <3>1, <4>1
    <3>3. x \in A \ {y} /\ y \in A \ {x} /\ C = (A \ {x}) \ {y}
      BY <2>1, <2>3
    <3>4. h[A \ {y}] = g[<<f[x], h[C]>>] /\ h[A \ {x}] = g[<<f[y], h[C]>>]
      <4>1. \A X \in Q : \A z \in X : h[X] = g[<<f[z], h[X \ {z}]>>]
        OBVIOUS
      <4> HIDE DEF Q, C
      <4>2. h[A \ {y}] = g[<<f[x], h[(A \ {y}) \ {x}]>>]
        BY <3>2, <3>3, <4>1
      <4>3. h[A \ {x}] = g[<<f[y], h[(A \ {x}) \ {y}]>>]
        BY <3>2, <3>3, <4>1
      <4> QED
        BY <3>3, <4>2, <4>3 DEF C
    <3>5. f[x] \in V /\ f[y] \in V /\ h[C] \in V
      <4> C \in SUBSET S
        OBVIOUS
      <4> HIDE DEF C
      <4> QED
        BY <2>1 DEF FoldsAll
    <3> HIDE DEF C
    <3>6. g[<<f[y], g[<<f[x], h[C]>>]>>] = g[<<g[<<f[y], f[x]>>], h[C]>>]
      BY <3>5 DEF Commutes
    <3>7. g[<<f[x], g[<<f[y], h[C]>>]>>] = g[<<g[<<f[x], f[y]>>], h[C]>>]
      BY <3>5 DEF Commutes
    <3>8. g[<<f[y], f[x]>>] = g[<<f[x], f[y]>>]
      BY <3>5 DEF Commutes
    <3> QED
      BY <2>1, <3>4, <3>6, <3>7, <3>8, Zenon
  <2> QED
    BY <2>2, <2>3
<1>4. M = Nat
  <2> M \in SUBSET Nat
    OBVIOUS
  <2> HIDE DEF M
  <2> QED
    BY <1>2, <1>3, NatInduct
<1>5. \A n \in Nat : Of(n)
  BY <1>4
<1> QED
  BY <1>1, <1>5

\* v is the fold of S.
FoldIs(V, g, b, f, S, v) == \E h : FoldsAll(V, g, b, f, S, h) /\ v = h[S]

\* Taking one element out.
LEMMA FoldRemoves ==
    ASSUME NEW V, NEW g, NEW b, NEW f, NEW S, Foldable(V, g, b, f, S),
           NEW x \in S, NEW v, NEW w,
           FoldIs(V, g, b, f, S, v), FoldIs(V, g, b, f, S \ {x}, w)
    PROVE  v = g[<<f[x], w>>]
<1>1. PICK h : FoldsAll(V, g, b, f, S, h) /\ v = h[S]
  BY DEF FoldIs
<1>2. PICK k : FoldsAll(V, g, b, f, S \ {x}, k) /\ w = k[S \ {x}]
  BY DEF FoldIs
<1>3. \A A \in SUBSET S : \A y \in A : h[A] = g[<<f[y], h[A \ {y}]>>]
  BY <1>1, FoldTakes
<1>4. Foldable(V, g, b, f, S \ {x}) /\ IsFiniteSet(S \ {x})
  <2>1. IsFiniteSet(S \ {x})
    BY FS_RemoveElement DEF Foldable
  <2> QED
    BY <2>1 DEF Foldable
<1>5. \A A \in SUBSET (S \ {x}) : \A y \in A : k[A] = g[<<f[y], k[A \ {y}]>>]
  BY <1>2, <1>4, FoldTakes
<1> DEFINE C == S \ {x}
           Q == {A \in SUBSET C : h[A] = k[A]}
<1>6. {} \in Q
  BY <1>1, <1>2 DEF FoldsAll
<1>7. \A A \in SUBSET C : \A y \in C \ A : A \in Q => A \cup {y} \in Q
  <2> SUFFICES ASSUME NEW A \in SUBSET C, NEW y \in C \ A, h[A] = k[A]
               PROVE  h[A \cup {y}] = k[A \cup {y}]
    OBVIOUS
  <2>1. (A \cup {y}) \ {y} = A /\ A \cup {y} \in SUBSET C /\ A \cup {y} \in SUBSET S /\ y \in A \cup {y}
    OBVIOUS
  <2>2. h[A \cup {y}] = g[<<f[y], h[A]>>]
    BY <1>3, <2>1, Zenon
  <2>3. k[A \cup {y}] = g[<<f[y], k[A]>>]
    BY <1>5, <2>1, Zenon
  <2> QED
    BY <2>2, <2>3
<1>8. \A A \in SUBSET C : A \in Q
  <2>1. IsFiniteSet(C)
    BY <1>4
  <2> HIDE DEF Q, C
  <2> QED
    BY <2>1, <1>6, <1>7, FiniteInduct, Zenon
<1>9. h[C] = k[C]
  BY <1>8
<1>10. h[S] = g[<<f[x], h[C]>>]
  BY <1>3
<1> QED
  BY <1>1, <1>2, <1>9, <1>10

\* The empty set, and the type.
LEMMA FoldBase ==
    ASSUME NEW V, NEW g, NEW b, NEW f, NEW v, FoldIs(V, g, b, f, {}, v)
    PROVE  v = b
  BY DEF FoldIs, FoldsAll

\* A fold gives a value of its type.
LEMMA FoldType ==
    ASSUME NEW V, NEW g, NEW b, NEW f, NEW S, NEW v, FoldIs(V, g, b, f, S, v)
    PROVE  v \in V
  BY DEF FoldIs, FoldsAll

-----------------------------------------------------------------------------
(* Sums and products in the field, and sums of numbers *)

FieldSum(f, S) == FoldFunctionOnSet(AddMod, 0, f, S)
FieldProduct(f, S) == FoldFunctionOnSet(MulMod, 1, f, S)

NatSum(f, S) == FoldFunctionOnSet(+, 0, f, S)

AddOp == [p \in Field \X Field |-> AddMod(p[1], p[2])]
MulOp == [p \in Field \X Field |-> MulMod(p[1], p[2])]
PlusOp == [p \in Nat \X Nat |-> p[1] + p[2]]

\* Sum and product of the field, and the sum of numbers, may be folded.
LEMMA OpsCommute ==
    /\ Commutes(Field, AddOp) /\ Commutes(Field, MulOp) /\ Commutes(Nat, PlusOp)
    /\ \A a, b \in Field : AddOp[<<a, b>>] = AddMod(a, b) /\ MulOp[<<a, b>>] = MulMod(a, b)
    /\ \A a, b \in Nat : PlusOp[<<a, b>>] = a + b
<1>1. \A a, b \in Field : AddOp[<<a, b>>] = AddMod(a, b) /\ MulOp[<<a, b>>] = MulMod(a, b)
  BY DEF AddOp, MulOp
<1>2. \A a, b \in Nat : PlusOp[<<a, b>>] = a + b
  BY DEF PlusOp
<1>3. Commutes(Field, AddOp)
  <2>1. AddOp \in [Field \X Field -> Field]
    BY AddRing DEF AddOp
  <2> QED
    BY <1>1, <2>1, AddRing DEF Commutes
<1>4. Commutes(Field, MulOp)
  <2>1. MulOp \in [Field \X Field -> Field]
    BY MulRing DEF MulOp
  <2> QED
    BY <1>1, <2>1, MulRing DEF Commutes
<1>5. Commutes(Nat, PlusOp)
  <2>1. PlusOp \in [Nat \X Nat -> Nat]
    BY DEF PlusOp
  <2> QED
    BY <1>2, <2>1 DEF Commutes
<1> QED
  BY <1>1, <1>2, <1>3, <1>4, <1>5

\* A function defined by choice, as the modules of folds do, is a fold.
LEMMA ChosenFold ==
    ASSUME NEW V, NEW g, NEW b, NEW f, NEW S, Foldable(V, g, b, f, S),
           NEW iter, DOMAIN iter = SUBSET S, iter[{}] = b,
           \A A \in SUBSET S : A # {} /\ iter[A \ {One(A)}] \in V =>
               iter[A] = g[<<f[One(A)], iter[A \ {One(A)}]>>],
           iter = [A \in SUBSET S |-> iter[A]]
    PROVE  FoldIs(V, g, b, f, S, iter[S])
<1> g \in [V \X V -> V] /\ b \in V /\ IsFiniteSet(S) /\ \A x \in S : f[x] \in V
  BY DEF Foldable, Commutes
<1>1. \A A \in SUBSET S : IsFiniteSet(A) /\ Cardinality(A) \in Nat
  BY FS_Subset, FS_CardinalityType
<1> DEFINE M == {n \in Nat : \A A \in SUBSET S : Cardinality(A) = n => iter[A] \in V}
<1>2. 0 \in M
  BY <1>1, FS_EmptySet
<1>3. ASSUME NEW n \in M PROVE n + 1 \in M
  <2>1. n \in Nat /\ n + 1 \in Nat /\ \A A \in SUBSET S : Cardinality(A) = n => iter[A] \in V
    <3>1. n \in Nat /\ \A A \in SUBSET S : Cardinality(A) = n => iter[A] \in V
      BY Zenon
    <3>2. n + 1 \in Nat
      BY <3>1
    <3> QED
      BY <3>1, <3>2, Zenon
  <2> SUFFICES ASSUME NEW A \in SUBSET S, Cardinality(A) = n + 1 PROVE iter[A] \in V
    BY <2>1
  <2>2. A # {}
    <3>1. Cardinality(A) # 0
      BY <2>1
    <3> QED
      BY <3>1, FS_EmptySet
  <2>3. One(A) \in A
    BY <2>2, OneOf
  <2>4. Cardinality(A \ {One(A)}) = n
    BY <1>1, <2>1, <2>3, FS_RemoveElement
  <2>5. iter[A \ {One(A)}] \in V
    BY <2>1, <2>4
  <2>6. f[One(A)] \in V
    BY <2>3
  <2>7. iter[A] = g[<<f[One(A)], iter[A \ {One(A)}]>>]
    BY <2>2, <2>5
  <2> QED
    BY <2>5, <2>6, <2>7
<1>4. M = Nat
  <2> M \in SUBSET Nat
    OBVIOUS
  <2> HIDE DEF M
  <2> QED
    BY <1>2, <1>3, NatInduct
<1>5. \A A \in SUBSET S : iter[A] \in V
  BY <1>1, <1>4
<1>6. iter \in [SUBSET S -> V]
  BY <1>5
<1>7. FoldsAll(V, g, b, f, S, iter)
  <2>1. \A A \in SUBSET S : A \ {One(A)} \in SUBSET S
    OBVIOUS
  <2> QED
    BY <1>5, <1>6, <2>1 DEF FoldsAll
<1> QED
  BY <1>7 DEF FoldIs

\* FieldSum is the fold of AddMod.
LEMMA FieldSumIs ==
    ASSUME NEW S, IsFiniteSet(S), NEW f, \A x \in S : f[x] \in Field
    PROVE  /\ Foldable(Field, AddOp, 0, f, S)
           /\ FoldIs(Field, AddOp, 0, f, S, FieldSum(f, S))
<1>1. Foldable(Field, AddOp, 0, f, S)
  BY OpsCommute, Modulus DEF Foldable
<1>2. PICK h : FoldsAll(Field, AddOp, 0, f, S, h)
  BY <1>1, FoldExists DEF Foldable, Commutes
<1> DEFINE Eq(k) == k = [A \in SUBSET S |->
                            IF A = {} THEN 0
                            ELSE AddMod(f[One(A)], k[A \ {One(A)}])]
           iter == CHOOSE k : Eq(k)
<1>3. Eq(h)
  <2> SUFFICES ASSUME NEW A \in SUBSET S
               PROVE  h[A] = IF A = {} THEN 0 ELSE AddMod(f[One(A)], h[A \ {One(A)}])
    BY <1>2 DEF FoldsAll
  <2>1. CASE A = {}
    BY <1>2, <2>1 DEF FoldsAll
  <2>2. CASE A # {}
    <3>1. h[A] = AddOp[<<f[One(A)], h[A \ {One(A)}]>>]
      BY <1>2, <2>2 DEF FoldsAll
    <3>2. One(A) \in A /\ A \ {One(A)} \in SUBSET S
      BY <2>2, OneOf
    <3>3. f[One(A)] \in Field /\ h[A \ {One(A)}] \in Field
      BY <1>2, <3>2 DEF FoldsAll
    <3> QED
      BY <2>2, <3>1, <3>3, OpsCommute
  <2> QED
    BY <2>1, <2>2
<1>4. Eq(iter)
  <2> HIDE DEF Eq
  <2> QED
    BY <1>3, Zenon
<1>5. FieldSum(f, S) = iter[S]
  BY Zenon DEF FieldSum, FoldFunctionOnSet, MapThenFoldSet, One
<1> HIDE DEF iter
<1>6. /\ DOMAIN iter = SUBSET S /\ iter[{}] = 0 /\ iter = [A \in SUBSET S |-> iter[A]]
      /\ \A A \in SUBSET S : A # {} => iter[A] = AddMod(f[One(A)], iter[A \ {One(A)}])
  BY <1>4
<1>7. ASSUME NEW A \in SUBSET S, A # {}, iter[A \ {One(A)}] \in Field
      PROVE  iter[A] = AddOp[<<f[One(A)], iter[A \ {One(A)}]>>]
  <2>1. f[One(A)] \in Field
    BY <1>7, OneOf
  <2> QED
    BY <1>6, <1>7, <2>1, OpsCommute
<1>8. FoldIs(Field, AddOp, 0, f, S, iter[S])
  <2> HIDE DEF Eq
  <2> QED
    BY <1>1, <1>6, <1>7, ChosenFold
<1> QED
  BY <1>1, <1>5, <1>8

\* FieldProduct is the fold of MulMod.
LEMMA FieldProductIs ==
    ASSUME NEW S, IsFiniteSet(S), NEW f, \A x \in S : f[x] \in Field
    PROVE  /\ Foldable(Field, MulOp, 1, f, S)
           /\ FoldIs(Field, MulOp, 1, f, S, FieldProduct(f, S))
<1>1. Foldable(Field, MulOp, 1, f, S)
  BY OpsCommute, Modulus DEF Foldable
<1>2. PICK h : FoldsAll(Field, MulOp, 1, f, S, h)
  BY <1>1, FoldExists DEF Foldable, Commutes
<1> DEFINE Eq(k) == k = [A \in SUBSET S |->
                            IF A = {} THEN 1
                            ELSE MulMod(f[One(A)], k[A \ {One(A)}])]
           iter == CHOOSE k : Eq(k)
<1>3. Eq(h)
  <2> SUFFICES ASSUME NEW A \in SUBSET S
               PROVE  h[A] = IF A = {} THEN 1 ELSE MulMod(f[One(A)], h[A \ {One(A)}])
    BY <1>2 DEF FoldsAll
  <2>1. CASE A = {}
    BY <1>2, <2>1 DEF FoldsAll
  <2>2. CASE A # {}
    <3>1. h[A] = MulOp[<<f[One(A)], h[A \ {One(A)}]>>]
      BY <1>2, <2>2 DEF FoldsAll
    <3>2. One(A) \in A /\ A \ {One(A)} \in SUBSET S
      BY <2>2, OneOf
    <3>3. f[One(A)] \in Field /\ h[A \ {One(A)}] \in Field
      BY <1>2, <3>2 DEF FoldsAll
    <3> QED
      BY <2>2, <3>1, <3>3, OpsCommute
  <2> QED
    BY <2>1, <2>2
<1>4. Eq(iter)
  <2> HIDE DEF Eq
  <2> QED
    BY <1>3, Zenon
<1>5. FieldProduct(f, S) = iter[S]
  BY Zenon DEF FieldProduct, FoldFunctionOnSet, MapThenFoldSet, One
<1> HIDE DEF iter
<1>6. /\ DOMAIN iter = SUBSET S /\ iter[{}] = 1 /\ iter = [A \in SUBSET S |-> iter[A]]
      /\ \A A \in SUBSET S : A # {} => iter[A] = MulMod(f[One(A)], iter[A \ {One(A)}])
  BY <1>4
<1>7. ASSUME NEW A \in SUBSET S, A # {}, iter[A \ {One(A)}] \in Field
      PROVE  iter[A] = MulOp[<<f[One(A)], iter[A \ {One(A)}]>>]
  <2>1. f[One(A)] \in Field
    BY <1>7, OneOf
  <2> QED
    BY <1>6, <1>7, <2>1, OpsCommute
<1>8. FoldIs(Field, MulOp, 1, f, S, iter[S])
  <2> HIDE DEF Eq
  <2> QED
    BY <1>1, <1>6, <1>7, ChosenFold
<1> QED
  BY <1>1, <1>5, <1>8

\* NatSum is the fold of +.
LEMMA NatSumIs ==
    ASSUME NEW S, IsFiniteSet(S), NEW f, \A x \in S : f[x] \in Nat
    PROVE  /\ Foldable(Nat, PlusOp, 0, f, S)
           /\ FoldIs(Nat, PlusOp, 0, f, S, NatSum(f, S))
<1>1. Foldable(Nat, PlusOp, 0, f, S)
  BY OpsCommute, Modulus DEF Foldable
<1>2. PICK h : FoldsAll(Nat, PlusOp, 0, f, S, h)
  BY <1>1, FoldExists DEF Foldable, Commutes
<1> DEFINE Eq(k) == k = [A \in SUBSET S |->
                            IF A = {} THEN 0
                            ELSE f[One(A)] + k[A \ {One(A)}]]
           iter == CHOOSE k : Eq(k)
<1>3. Eq(h)
  <2> SUFFICES ASSUME NEW A \in SUBSET S
               PROVE  h[A] = IF A = {} THEN 0 ELSE f[One(A)] + h[A \ {One(A)}]
    BY <1>2 DEF FoldsAll
  <2>1. CASE A = {}
    BY <1>2, <2>1 DEF FoldsAll
  <2>2. CASE A # {}
    <3>1. h[A] = PlusOp[<<f[One(A)], h[A \ {One(A)}]>>]
      BY <1>2, <2>2 DEF FoldsAll
    <3>2. One(A) \in A /\ A \ {One(A)} \in SUBSET S
      BY <2>2, OneOf
    <3>3. f[One(A)] \in Nat /\ h[A \ {One(A)}] \in Nat
      BY <1>2, <3>2 DEF FoldsAll
    <3> QED
      BY <2>2, <3>1, <3>3, OpsCommute
  <2> QED
    BY <2>1, <2>2
<1>4. Eq(iter)
  <2> HIDE DEF Eq
  <2> QED
    BY <1>3, Zenon
<1>5. NatSum(f, S) = iter[S]
  BY Zenon DEF NatSum, FoldFunctionOnSet, MapThenFoldSet, One
<1> HIDE DEF iter
<1>6. /\ DOMAIN iter = SUBSET S /\ iter[{}] = 0 /\ iter = [A \in SUBSET S |-> iter[A]]
      /\ \A A \in SUBSET S : A # {} => iter[A] = f[One(A)] + iter[A \ {One(A)}]
  BY <1>4
<1>7. ASSUME NEW A \in SUBSET S, A # {}, iter[A \ {One(A)}] \in Nat
      PROVE  iter[A] = PlusOp[<<f[One(A)], iter[A \ {One(A)}]>>]
  <2>1. f[One(A)] \in Nat
    BY <1>7, OneOf
  <2> QED
    BY <1>6, <1>7, <2>1, OpsCommute
<1>8. FoldIs(Nat, PlusOp, 0, f, S, iter[S])
  <2> HIDE DEF Eq
  <2> QED
    BY <1>1, <1>6, <1>7, ChosenFold
<1> QED
  BY <1>1, <1>5, <1>8

-----------------------------------------------------------------------------
(* What sums and products do *)

\* A sum in the field: of nothing, and with a term taken out.
LEMMA FieldSumRules ==
    /\ \A f : FieldSum(f, {}) = 0
    /\ \A S, f : IsFiniteSet(S) /\ (\A x \in S : f[x] \in Field) =>
           /\ FieldSum(f, S) \in Field
           /\ \A x \in S : FieldSum(f, S) = AddMod(f[x], FieldSum(f, S \ {x}))
<1>1. ASSUME NEW S, NEW f, IsFiniteSet(S), \A x \in S : f[x] \in Field
      PROVE  /\ FieldSum(f, S) \in Field
             /\ \A x \in S : FieldSum(f, S) = AddMod(f[x], FieldSum(f, S \ {x}))
  <2>1. Foldable(Field, AddOp, 0, f, S) /\ FoldIs(Field, AddOp, 0, f, S, FieldSum(f, S))
    BY <1>1, FieldSumIs
  <2>2. FieldSum(f, S) \in Field
    BY <2>1, FoldType
  <2>3. ASSUME NEW x \in S PROVE FieldSum(f, S) = AddMod(f[x], FieldSum(f, S \ {x}))
    <3>1. IsFiniteSet(S \ {x}) /\ \A y \in S \ {x} : f[y] \in Field
      BY <1>1, FS_RemoveElement
    <3>2. FoldIs(Field, AddOp, 0, f, S \ {x}, FieldSum(f, S \ {x}))
      BY <3>1, FieldSumIs
    <3>3. FieldSum(f, S \ {x}) \in Field
      BY <3>2, FoldType
    <3>4. FieldSum(f, S) = AddOp[<<f[x], FieldSum(f, S \ {x})>>]
      BY <2>1, <3>2, FoldRemoves
    <3>5. f[x] \in Field
      BY <1>1
    <3> QED
      BY <3>3, <3>4, <3>5, OpsCommute
  <2> QED
    BY <2>2, <2>3
<1>2. ASSUME NEW f PROVE FieldSum(f, {}) = 0
  <2>1. IsFiniteSet({})
    BY FS_EmptySet
  <2>2. FoldIs(Field, AddOp, 0, f, {}, FieldSum(f, {}))
    BY <2>1, FieldSumIs
  <2> QED
    BY <2>2, FoldBase
<1> QED
  BY <1>1, <1>2

\* Adding one element.
LEMMA FieldSumAdds ==
    ASSUME NEW S, IsFiniteSet(S), NEW f, NEW x, x \notin S,
           \A y \in S \cup {x} : f[y] \in Field
    PROVE  FieldSum(f, S \cup {x}) = AddMod(f[x], FieldSum(f, S)) /\ FieldSum(f, S) \in Field
<1>1. IsFiniteSet(S \cup {x}) /\ (S \cup {x}) \ {x} = S /\ x \in S \cup {x}
  BY FS_AddElement
<1>2. FieldSum(f, S \cup {x}) = AddMod(f[x], FieldSum(f, (S \cup {x}) \ {x}))
  BY <1>1, FieldSumRules
<1>3. FieldSum(f, S) \in Field
  BY FieldSumRules
<1> QED
  BY <1>1, <1>2, <1>3

\* Equal terms have equal sums.
LEMMA FieldSumSame ==
    ASSUME NEW S, IsFiniteSet(S), NEW f, NEW k,
           \A x \in S : f[x] \in Field /\ f[x] = k[x]
    PROVE  FieldSum(f, S) = FieldSum(k, S)
<1> DEFINE Q == {A \in SUBSET S : FieldSum(f, A) = FieldSum(k, A)}
<1>1. {} \in Q
  <2>1. FieldSum(f, {}) = 0 /\ FieldSum(k, {}) = 0
    BY FieldSumRules, Zenon
  <2> QED
    BY <2>1
<1>2. \A A \in SUBSET S : \A x \in S \ A : A \in Q => A \cup {x} \in Q
  <2> SUFFICES ASSUME NEW A \in SUBSET S, NEW x \in S \ A, FieldSum(f, A) = FieldSum(k, A)
               PROVE  FieldSum(f, A \cup {x}) = FieldSum(k, A \cup {x})
    OBVIOUS
  <2>1. IsFiniteSet(A) /\ x \notin A /\ A \cup {x} \in SUBSET S
    BY FS_Subset
  <2>2. \A y \in A \cup {x} : f[y] \in Field /\ k[y] \in Field
    OBVIOUS
  <2>3. FieldSum(f, A \cup {x}) = AddMod(f[x], FieldSum(f, A))
    BY <2>1, <2>2, FieldSumAdds
  <2>4. FieldSum(k, A \cup {x}) = AddMod(k[x], FieldSum(k, A))
    BY <2>1, <2>2, FieldSumAdds
  <2> QED
    BY <2>3, <2>4, Zenon
<1>3. S \in Q
  <2> HIDE DEF Q
  <2> QED
    BY <1>1, <1>2, FiniteInduct
<1> QED
  BY <1>3

\* A product in the field: of nothing, and with a factor taken out.
LEMMA FieldProductRules ==
    /\ \A f : FieldProduct(f, {}) = 1
    /\ \A S, f : IsFiniteSet(S) /\ (\A x \in S : f[x] \in Field) =>
           /\ FieldProduct(f, S) \in Field
           /\ \A x \in S : FieldProduct(f, S) = MulMod(f[x], FieldProduct(f, S \ {x}))
<1>1. ASSUME NEW S, NEW f, IsFiniteSet(S), \A x \in S : f[x] \in Field
      PROVE  /\ FieldProduct(f, S) \in Field
             /\ \A x \in S : FieldProduct(f, S) = MulMod(f[x], FieldProduct(f, S \ {x}))
  <2>1. Foldable(Field, MulOp, 1, f, S) /\ FoldIs(Field, MulOp, 1, f, S, FieldProduct(f, S))
    BY <1>1, FieldProductIs
  <2>2. FieldProduct(f, S) \in Field
    BY <2>1, FoldType
  <2>3. ASSUME NEW x \in S PROVE FieldProduct(f, S) = MulMod(f[x], FieldProduct(f, S \ {x}))
    <3>1. IsFiniteSet(S \ {x}) /\ \A y \in S \ {x} : f[y] \in Field
      BY <1>1, FS_RemoveElement
    <3>2. FoldIs(Field, MulOp, 1, f, S \ {x}, FieldProduct(f, S \ {x}))
      BY <3>1, FieldProductIs
    <3>3. FieldProduct(f, S \ {x}) \in Field
      BY <3>2, FoldType
    <3>4. FieldProduct(f, S) = MulOp[<<f[x], FieldProduct(f, S \ {x})>>]
      BY <2>1, <3>2, FoldRemoves
    <3>5. f[x] \in Field
      BY <1>1
    <3> QED
      BY <3>3, <3>4, <3>5, OpsCommute
  <2> QED
    BY <2>2, <2>3
<1>2. ASSUME NEW f PROVE FieldProduct(f, {}) = 1
  <2>1. IsFiniteSet({})
    BY FS_EmptySet
  <2>2. FoldIs(Field, MulOp, 1, f, {}, FieldProduct(f, {}))
    BY <2>1, FieldProductIs
  <2> QED
    BY <2>2, FoldBase
<1> QED
  BY <1>1, <1>2

\* Adding one element.
LEMMA FieldProductAdds ==
    ASSUME NEW S, IsFiniteSet(S), NEW f, NEW x, x \notin S,
           \A y \in S \cup {x} : f[y] \in Field
    PROVE  FieldProduct(f, S \cup {x}) = MulMod(f[x], FieldProduct(f, S)) /\ FieldProduct(f, S) \in Field
<1>1. IsFiniteSet(S \cup {x}) /\ (S \cup {x}) \ {x} = S /\ x \in S \cup {x}
  BY FS_AddElement
<1>2. FieldProduct(f, S \cup {x}) = MulMod(f[x], FieldProduct(f, (S \cup {x}) \ {x}))
  BY <1>1, FieldProductRules
<1>3. FieldProduct(f, S) \in Field
  BY FieldProductRules
<1> QED
  BY <1>1, <1>2, <1>3

\* Equal factors have equal products.
LEMMA FieldProductSame ==
    ASSUME NEW S, IsFiniteSet(S), NEW f, NEW k,
           \A x \in S : f[x] \in Field /\ f[x] = k[x]
    PROVE  FieldProduct(f, S) = FieldProduct(k, S)
<1> DEFINE Q == {A \in SUBSET S : FieldProduct(f, A) = FieldProduct(k, A)}
<1>1. {} \in Q
  <2>1. FieldProduct(f, {}) = 1 /\ FieldProduct(k, {}) = 1
    BY FieldProductRules, Zenon
  <2> QED
    BY <2>1
<1>2. \A A \in SUBSET S : \A x \in S \ A : A \in Q => A \cup {x} \in Q
  <2> SUFFICES ASSUME NEW A \in SUBSET S, NEW x \in S \ A, FieldProduct(f, A) = FieldProduct(k, A)
               PROVE  FieldProduct(f, A \cup {x}) = FieldProduct(k, A \cup {x})
    OBVIOUS
  <2>1. IsFiniteSet(A) /\ x \notin A /\ A \cup {x} \in SUBSET S
    BY FS_Subset
  <2>2. \A y \in A \cup {x} : f[y] \in Field /\ k[y] \in Field
    OBVIOUS
  <2>3. FieldProduct(f, A \cup {x}) = MulMod(f[x], FieldProduct(f, A))
    BY <2>1, <2>2, FieldProductAdds
  <2>4. FieldProduct(k, A \cup {x}) = MulMod(k[x], FieldProduct(k, A))
    BY <2>1, <2>2, FieldProductAdds
  <2> QED
    BY <2>3, <2>4, Zenon
<1>3. S \in Q
  <2> HIDE DEF Q
  <2> QED
    BY <1>1, <1>2, FiniteInduct
<1> QED
  BY <1>3

\* A sum of numbers: of nothing, and with a term taken out.
LEMMA NatSumRules ==
    /\ \A f : NatSum(f, {}) = 0
    /\ \A S, f : IsFiniteSet(S) /\ (\A x \in S : f[x] \in Nat) =>
           /\ NatSum(f, S) \in Nat
           /\ \A x \in S : NatSum(f, S) = f[x] + NatSum(f, S \ {x})
<1>1. ASSUME NEW S, NEW f, IsFiniteSet(S), \A x \in S : f[x] \in Nat
      PROVE  /\ NatSum(f, S) \in Nat
             /\ \A x \in S : NatSum(f, S) = f[x] + NatSum(f, S \ {x})
  <2>1. Foldable(Nat, PlusOp, 0, f, S) /\ FoldIs(Nat, PlusOp, 0, f, S, NatSum(f, S))
    BY <1>1, NatSumIs
  <2>2. NatSum(f, S) \in Nat
    BY <2>1, FoldType
  <2>3. ASSUME NEW x \in S PROVE NatSum(f, S) = f[x] + NatSum(f, S \ {x})
    <3>1. IsFiniteSet(S \ {x}) /\ \A y \in S \ {x} : f[y] \in Nat
      BY <1>1, FS_RemoveElement
    <3>2. FoldIs(Nat, PlusOp, 0, f, S \ {x}, NatSum(f, S \ {x}))
      BY <3>1, NatSumIs
    <3>3. NatSum(f, S \ {x}) \in Nat
      BY <3>2, FoldType
    <3>4. NatSum(f, S) = PlusOp[<<f[x], NatSum(f, S \ {x})>>]
      BY <2>1, <3>2, FoldRemoves
    <3>5. f[x] \in Nat
      BY <1>1
    <3> QED
      BY <3>3, <3>4, <3>5, OpsCommute
  <2> QED
    BY <2>2, <2>3
<1>2. ASSUME NEW f PROVE NatSum(f, {}) = 0
  <2>1. IsFiniteSet({})
    BY FS_EmptySet
  <2>2. FoldIs(Nat, PlusOp, 0, f, {}, NatSum(f, {}))
    BY <2>1, NatSumIs
  <2> QED
    BY <2>2, FoldBase
<1> QED
  BY <1>1, <1>2

\* Adding one element.
LEMMA NatSumAdds ==
    ASSUME NEW S, IsFiniteSet(S), NEW f, NEW x, x \notin S,
           \A y \in S \cup {x} : f[y] \in Nat
    PROVE  NatSum(f, S \cup {x}) = f[x] + NatSum(f, S) /\ NatSum(f, S) \in Nat
<1>1. IsFiniteSet(S \cup {x}) /\ (S \cup {x}) \ {x} = S /\ x \in S \cup {x}
  BY FS_AddElement
<1>2. NatSum(f, S \cup {x}) = f[x] + NatSum(f, (S \cup {x}) \ {x})
  BY <1>1, NatSumRules
<1>3. NatSum(f, S) \in Nat
  BY NatSumRules
<1> QED
  BY <1>1, <1>2, <1>3

\* Equal terms have equal sums.
LEMMA NatSumSame ==
    ASSUME NEW S, IsFiniteSet(S), NEW f, NEW k,
           \A x \in S : f[x] \in Nat /\ f[x] = k[x]
    PROVE  NatSum(f, S) = NatSum(k, S)
<1> DEFINE Q == {A \in SUBSET S : NatSum(f, A) = NatSum(k, A)}
<1>1. {} \in Q
  <2>1. NatSum(f, {}) = 0 /\ NatSum(k, {}) = 0
    BY NatSumRules, Zenon
  <2> QED
    BY <2>1
<1>2. \A A \in SUBSET S : \A x \in S \ A : A \in Q => A \cup {x} \in Q
  <2> SUFFICES ASSUME NEW A \in SUBSET S, NEW x \in S \ A, NatSum(f, A) = NatSum(k, A)
               PROVE  NatSum(f, A \cup {x}) = NatSum(k, A \cup {x})
    OBVIOUS
  <2>1. IsFiniteSet(A) /\ x \notin A /\ A \cup {x} \in SUBSET S
    BY FS_Subset
  <2>2. \A y \in A \cup {x} : f[y] \in Nat /\ k[y] \in Nat
    OBVIOUS
  <2>3. NatSum(f, A \cup {x}) = f[x] + NatSum(f, A)
    BY <2>1, <2>2, NatSumAdds
  <2>4. NatSum(k, A \cup {x}) = k[x] + NatSum(k, A)
    BY <2>1, <2>2, NatSumAdds
  <2> QED
    BY <2>3, <2>4, Zenon
<1>3. S \in Q
  <2> HIDE DEF Q
  <2> QED
    BY <1>1, <1>2, FiniteInduct
<1> QED
  BY <1>3

-----------------------------------------------------------------------------
(* Polynomials *)

\* The running sum and power of poly_eval, for coefficients c at x.
PolyStart == [acc |-> 0, pow |-> 1]
PolyStep(c, x, k, before) ==
    [acc |-> AddMod(before.acc, MulMod(c[k], before.pow)), pow |-> MulMod(before.pow, x)]

PolyRuns(c, n, x, s) ==
    /\ s \in [0..n -> [acc : Field, pow : Field]]
    /\ s[0] = PolyStart
    /\ \A k \in 1..n : s[k] = PolyStep(c, x, k, s[k - 1])

\* poly_eval runs through the coefficients once.
LEMMA PolyEvalRuns ==
    ASSUME NEW n \in Nat, NEW c \in [1..n -> Field], NEW x \in Field
    PROVE  \E s : PolyRuns(c, n, x, s) /\ PolyEval(c, x) = s[n].acc
<1> DEFINE V == [acc : Field, pow : Field]
           D == 0..n
           rank == [k \in D |-> k]
           B(k) == Below(D, rank, k)
           value(k, h) == IF k = 0 THEN PolyStart ELSE PolyStep(c, x, k, h[k - 1])
           step == [k \in D |-> [h \in [B(k) -> V] |-> value(k, h)]]
           Eq(h) == h = [k \in D |-> value(k, h)]
           sum == CHOOSE h : Eq(h)
<1>1. Len(c) = n
  OBVIOUS
<1>2. ASSUME NEW b \in V, NEW k \in 1..n PROVE PolyStep(c, x, k, b) \in V
  <2>1. b.acc \in Field /\ b.pow \in Field /\ c[k] \in Field
    OBVIOUS
  <2>2. MulMod(c[k], b.pow) \in Field /\ MulMod(b.pow, x) \in Field
    BY <2>1, MulRing
  <2>3. AddMod(b.acc, MulMod(c[k], b.pow)) \in Field
    BY <2>1, <2>2, AddRing
  <2> QED
    BY <2>2, <2>3 DEF PolyStep
<1>3. PolyStart \in V
  BY Modulus DEF PolyStart
<1>4. \A k \in D : k # 0 => k \in 1..n /\ k - 1 \in D /\ k - 1 \in B(k)
  BY DEF Below
<1>5. \A k \in D : \A h \in [B(k) -> V] : value(k, h) \in V
  <2> SUFFICES ASSUME NEW k \in D, NEW h \in [B(k) -> V] PROVE value(k, h) \in V
    OBVIOUS
  <2>1. CASE k = 0
    BY <1>3, <2>1
  <2>2. CASE k # 0
    <3>1. k \in 1..n /\ h[k - 1] \in V
      <4> HIDE DEF rank, V, D
      <4> QED
        BY <1>4, <2>2
    <3>2. PolyStep(c, x, k, h[k - 1]) \in V
      BY <1>2, <3>1
    <3> QED
      BY <2>2, <3>2
  <2> QED
    BY <2>1, <2>2
<1>6. Steps(D, rank, n + 1, V, step)
  <2>1. \A k \in D : \A h \in [B(k) -> V] : step[k][h] = value(k, h)
    BY Zenon
  <2>2. \A k \in D : \A h \in [B(k) -> V] : step[k][h] \in V
    BY <1>5, <2>1, Zenon
  <2>3. rank \in [D -> Nat] /\ n + 1 \in Nat /\ \A k \in D : rank[k] < n + 1
    OBVIOUS
  <2> HIDE DEF step, rank, D, V
  <2> QED
    BY <2>2, <2>3, Zenon DEF Steps
<1>7. PICK h : Recurs(D, rank, V, step, h)
  <2> HIDE DEF step, rank, D, V
  <2> QED
    BY <1>6, RecursionExists
<1>8. h \in [D -> V] /\ \A k \in D : h[k] = value(k, h)
  <2>1. h \in [D -> V] /\ \A k \in D : h[k] = step[k][[j \in B(k) |-> h[j]]]
    BY <1>7, Zenon DEF Recurs
  <2> SUFFICES ASSUME NEW k \in D PROVE h[k] = value(k, h)
    BY <2>1
  <2>2. B(k) \subseteq D
    BY DEF Below
  <2>3. [j \in B(k) |-> h[j]] \in [B(k) -> V]
    BY <2>1, <2>2
  <2>4. h[k] = value(k, [j \in B(k) |-> h[j]])
    BY <2>1, <2>3, Zenon
  <2>5. k # 0 => [j \in B(k) |-> h[j]][k - 1] = h[k - 1]
    BY <1>4, Zenon
  <2> QED
    BY <2>4, <2>5, Zenon
<1>9. Eq(h)
  BY <1>8
<1>10. Eq(sum)
  <2> HIDE DEF Eq
  <2> QED
    BY <1>9, Zenon
<1>11. PolyEval(c, x) = sum[n].acc
  BY <1>1, Zenon DEF PolyEval, PolyStart, PolyStep
<1> HIDE DEF sum
<1>12. /\ DOMAIN sum = 0..n
       /\ sum[0] = PolyStart
       /\ \A k \in 1..n : sum[k] = PolyStep(c, x, k, sum[k - 1])
       /\ sum = [k \in D |-> sum[k]]
  BY <1>10
<1>13. \A k \in 0..n : sum[k] \in V
  <2> DEFINE M == {k \in Nat : k <= n => sum[k] \in V}
  <2>1. 0 \in M
    BY <1>3, <1>12
  <2>2. ASSUME NEW k \in M PROVE k + 1 \in M
    <3> SUFFICES ASSUME k + 1 <= n PROVE sum[k + 1] \in V
      OBVIOUS
    <3>1. sum[k] \in V /\ k + 1 \in 1..n /\ (k + 1) - 1 = k
      OBVIOUS
    <3>2. sum[k + 1] = PolyStep(c, x, k + 1, sum[k])
      BY <1>12, <3>1
    <3> QED
      BY <1>2, <3>1, <3>2
  <2>3. M = Nat
    <3> M \in SUBSET Nat
      OBVIOUS
    <3> HIDE DEF M
    <3> QED
      BY <2>1, <2>2, NatInduct
  <2> QED
    BY <2>3
<1> QED
  BY <1>11, <1>12, <1>13 DEF PolyRuns

\* The coefficients after the first.
Rest(c, n) == [i \in 1..n |-> c[i + 1]]

\* Horner's rule.
LEMMA PolyHorner ==
    ASSUME NEW n \in Nat, NEW c \in [1..(n + 1) -> Field], NEW x \in Field
    PROVE  /\ PolyEval(c, x) = AddMod(c[1], MulMod(x, PolyEval(Rest(c, n), x)))
           /\ PolyEval(Rest(c, n), x) \in Field
<1> DEFINE q == Rest(c, n)
<1>1. q \in [1..n -> Field] /\ \A k \in 1..n : q[k] = c[k + 1]
  BY DEF Rest
<1>2. PICK s : PolyRuns(c, n + 1, x, s) /\ PolyEval(c, x) = s[n + 1].acc
  BY PolyEvalRuns
<1>3. PICK r : PolyRuns(q, n, x, r) /\ PolyEval(q, x) = r[n].acc
  BY <1>1, PolyEvalRuns
<1> HIDE DEF q
<1> DEFINE a == c[1]
           Good(k) == /\ s[k + 1].acc = AddMod(a, MulMod(x, r[k].acc))
                      /\ s[k + 1].pow = MulMod(x, r[k].pow)
           M == {k \in Nat : k <= n => Good(k)}
<1>4. a \in Field /\ 0 \in Field /\ 1 \in Field
  BY Modulus
<1>5. \A k \in 0..n : /\ r[k].acc \in Field /\ r[k].pow \in Field
                      /\ s[k + 1].acc \in Field /\ s[k + 1].pow \in Field
  BY <1>2, <1>3 DEF PolyRuns
<1>6. Good(0)
  <2>1. s[1] = PolyStep(c, x, 1, PolyStart) /\ r[0] = PolyStart
    BY <1>2, <1>3 DEF PolyRuns
  <2>2. s[1].acc = AddMod(0, MulMod(a, 1)) /\ s[1].pow = MulMod(1, x) /\ r[0].acc = 0 /\ r[0].pow = 1
    BY <2>1 DEF PolyStep, PolyStart
  <2>3. /\ MulMod(a, 1) = a /\ AddMod(0, a) = a /\ MulMod(x, 0) = 0 /\ AddMod(a, 0) = a
        /\ MulMod(1, x) = MulMod(x, 1)
    BY <1>4, AddRing, MulRing
  <2> QED
    BY <2>2, <2>3
<1>7. ASSUME NEW k \in Nat, k + 1 <= n, Good(k) PROVE Good(k + 1)
  <2> DEFINE u == r[k].acc
             w == r[k].pow
             d == q[k + 1]
  <2>1. k \in 0..n /\ k + 1 \in 1..n /\ (k + 1) + 1 \in 1..(n + 1) /\ ((k + 1) + 1) - 1 = k + 1 /\ (k + 1) - 1 = k
    BY <1>7
  <2>2. r[k + 1] = PolyStep(q, x, k + 1, r[k])
    BY <1>3, <2>1 DEF PolyRuns
  <2>3. s[(k + 1) + 1] = PolyStep(c, x, (k + 1) + 1, s[k + 1])
    BY <1>2, <2>1 DEF PolyRuns
  <2>4. c[(k + 1) + 1] = d
    BY <1>1, <2>1
  <2>5. r[k + 1].acc = AddMod(u, MulMod(d, w)) /\ r[k + 1].pow = MulMod(w, x)
    BY <2>2 DEF PolyStep
  <2>6. /\ s[(k + 1) + 1].acc = AddMod(AddMod(a, MulMod(x, u)), MulMod(d, MulMod(x, w)))
        /\ s[(k + 1) + 1].pow = MulMod(MulMod(x, w), x)
    BY <1>7, <2>3, <2>4 DEF PolyStep
  <2>7. u \in Field /\ w \in Field /\ d \in Field
    BY <1>1, <1>5, <2>1
  <2> HIDE DEF u, w, d, a
  <2>8. MulMod(MulMod(x, w), x) = MulMod(x, MulMod(w, x))
    BY <2>7, MulRing
  <2>9. MulMod(d, MulMod(x, w)) = MulMod(x, MulMod(d, w))
    <3>1. MulMod(d, MulMod(x, w)) = MulMod(MulMod(d, x), w) /\ MulMod(d, x) = MulMod(x, d)
      BY <2>7, MulRing
    <3>2. MulMod(MulMod(x, d), w) = MulMod(x, MulMod(d, w))
      BY <2>7, MulRing
    <3> QED
      BY <3>1, <3>2, Zenon
  <2>10. MulMod(d, w) \in Field /\ MulMod(x, u) \in Field /\ MulMod(x, MulMod(d, w)) \in Field
    BY <2>7, MulRing
  <2>11. AddMod(AddMod(a, MulMod(x, u)), MulMod(x, MulMod(d, w)))
           = AddMod(a, AddMod(MulMod(x, u), MulMod(x, MulMod(d, w))))
    BY <1>4, <2>10, AddRing
  <2>12. MulMod(x, AddMod(u, MulMod(d, w))) = AddMod(MulMod(x, u), MulMod(x, MulMod(d, w)))
    BY <2>7, <2>10, Distributes
  <2> QED
    BY <2>5, <2>6, <2>8, <2>9, <2>11, <2>12, Zenon
<1>8. M = Nat
  <2>1. M \in SUBSET Nat /\ 0 \in M
    BY <1>6
  <2>2. ASSUME NEW k \in M PROVE k + 1 \in M
    <3>1. k \in Nat /\ k + 1 \in Nat
      OBVIOUS
    <3>2. k + 1 <= n => k <= n
      BY <3>1
    <3>3. k <= n => Good(k)
      BY Zenon
    <3> HIDE DEF Good
    <3>4. k + 1 <= n => Good(k + 1)
      BY <1>7, <3>1, <3>2, <3>3
    <3> QED
      BY <3>1, <3>4
  <2> HIDE DEF M
  <2> QED
    BY <2>1, <2>2, NatInduct
<1>9. Good(n)
  <2>1. n \in M /\ n <= n
    BY <1>8
  <2> QED
    BY <2>1, Zenon
<1>10. r[n].acc \in Field
  BY <1>5
<1> QED
  BY <1>2, <1>3, <1>9, <1>10 DEF q

\* Without coefficients the value is 0.
LEMMA PolyNone ==
    ASSUME NEW c \in [1..0 -> Field], NEW x \in Field
    PROVE  PolyEval(c, x) = 0
<1>1. PICK s : PolyRuns(c, 0, x, s) /\ PolyEval(c, x) = s[0].acc
  BY PolyEvalRuns
<1> QED
  BY <1>1 DEF PolyRuns, PolyStart

-----------------------------------------------------------------------------
(* Inverses *)

\* The product of two numbers below the prime is no multiple of it.
LEMMA NoZeroDivisors ==
    ASSUME NEW a \in Field, NEW b \in Field, MulMod(a, b) = 0
    PROVE  a = 0 \/ b = 0
<1> SUFFICES ASSUME a # 0, b # 0 PROVE FALSE
  OBVIOUS
<1> DEFINE p == P
<1>0. /\ p \in Nat \ {0} /\ a \in Nat /\ b \in Nat /\ a < p /\ b % p = b
      /\ (a * b) % p = 0 /\ \A d \in 2..(p - 1) : p % d # 0
  BY FieldInt, Modulus, FieldAssumption DEF Field, MulMod
<1> HIDE DEF p
<1> DEFINE K == {k \in Nat \ {0} : (k * b) % p = 0}
<1>1. PICK m \in K : \A k \in K : m <= k
  <2>1. a \in K
    BY <1>0
  <2>2. K \in SUBSET Nat
    OBVIOUS
  <2> HIDE DEF K
  <2> QED
    BY <2>1, <2>2, LeastOne
<1>2. m \in Nat \ {0} /\ (m * b) % p = 0 /\ m < p
  <2>1. a \in K
    BY <1>0
  <2>2. m <= a /\ m \in Nat \ {0} /\ (m * b) % p = 0
    BY <1>1, <2>1
  <2> QED
    BY <1>0, <2>2
<1> DEFINE q == p \div m
           r == p % m
           c == (m * b) \div p
<1>3. q \in Int /\ r \in 0..(m - 1) /\ p = q * m + r
  BY <1>0, <1>2, DivDef
<1>4. c \in Int /\ m * b = c * p
  <2>1. m * b \in Int
    BY <1>0, <1>2
  <2>2. c \in Int /\ m * b = c * p + ((m * b) % p)
    BY <1>0, <2>1, DivDef
  <2> HIDE DEF c
  <2> QED
    BY <1>0, <1>2, <2>2
<1> HIDE DEF q, r, c
<1>5. (r * b) % p = 0
  <2>1. p * b = (q * m) * b + r * b
    BY <1>0, <1>2, <1>3
  <2>2. (q * m) * b = q * (m * b)
    BY <1>0, <1>2, <1>3
  <2>3. q * (m * b) = (q * c) * p
    BY <1>0, <1>3, <1>4
  <2> DEFINE e == b - q * c
  <2>4. r * b = 0 + e * p
    BY <1>0, <1>3, <1>4, <2>1, <2>2, <2>3
  <2>5. e \in Int /\ 0 \in Int
    BY <1>0, <1>3, <1>4
  <2> HIDE DEF e
  <2>6. (0 + e * p) % p = 0 % p
    BY <1>0, <2>5, ModShift, Zenon
  <2>7. 0 % p = 0
    BY <1>0, ModSmall
  <2> QED
    BY <2>4, <2>6, <2>7
<1>6. r = 0
  <2> SUFFICES ASSUME r # 0 PROVE FALSE
    OBVIOUS
  <2>1. r \in K
    BY <1>2, <1>3, <1>5
  <2> QED
    BY <1>1, <1>2, <1>3, <2>1
<1>7. m = 1
  <2>1. ~(m \in 2..(p - 1))
    BY <1>0, <1>6, Zenon DEF r
  <2> QED
    BY <1>0, <1>2, <2>1
<1>8. b % p = 0
  BY <1>0, <1>2, <1>7
<1> QED
  BY <1>0, <1>8

\* The negative of an element, and the difference by it.
LEMMA Negative ==
    ASSUME NEW a \in Field, NEW b \in Field
    PROVE  SubMod(0, b) \in Field /\ AddMod(SubMod(0, b), b) = 0 /\ SubMod(a, b) = AddMod(a, SubMod(0, b))
<1> DEFINE n == SubMod(0, b)
<1>1. n \in Field /\ AddMod(n, b) = 0 /\ 0 \in Field
  BY SubRing, Modulus
<1> HIDE DEF n
<1>2. AddMod(a, n) \in Field /\ AddMod(AddMod(a, n), b) = a
  <2>1. AddMod(AddMod(a, n), b) = AddMod(a, AddMod(n, b)) /\ AddMod(a, 0) = a
    BY <1>1, AddRing
  <2> QED
    BY <1>1, <2>1, AddRing
<1>3. SubMod(AddMod(AddMod(a, n), b), b) = AddMod(a, n)
  BY <1>2, SubRing
<1>4. SubMod(a, b) = AddMod(a, n)
  BY <1>2, <1>3
<1> QED
  BY <1>1, <1>4 DEF n

\* A common term cancels.
LEMMA AddCancels ==
    ASSUME NEW a \in Field, NEW b \in Field, NEW c \in Field, AddMod(a, c) = AddMod(b, c)
    PROVE  a = b
<1>1. SubMod(AddMod(a, c), c) = a /\ SubMod(AddMod(b, c), c) = b
  BY SubRing
<1> QED
  BY <1>1

\* Multiplication distributes over differences.
LEMMA MulSub ==
    ASSUME NEW a \in Field, NEW b \in Field, NEW c \in Field
    PROVE  MulMod(a, SubMod(b, c)) = SubMod(MulMod(a, b), MulMod(a, c))
<1> DEFINE d == SubMod(b, c)
<1>1. d \in Field /\ AddMod(d, c) = b
  BY SubRing
<1> HIDE DEF d
<1>2. MulMod(a, b) = AddMod(MulMod(a, d), MulMod(a, c))
  BY <1>1, Distributes
<1>3. MulMod(a, d) \in Field /\ MulMod(a, c) \in Field
  BY <1>1, MulRing
<1>4. SubMod(AddMod(MulMod(a, d), MulMod(a, c)), MulMod(a, c)) = MulMod(a, d)
  BY <1>3, SubRing
<1> QED
  BY <1>2, <1>4 DEF d

\* A common factor other than 0 cancels.
LEMMA MulCancels ==
    ASSUME NEW a \in Field, NEW b \in Field, NEW c \in Field, a # 0, MulMod(a, b) = MulMod(a, c)
    PROVE  b = c
<1>1. MulMod(a, SubMod(b, c)) = SubMod(MulMod(a, b), MulMod(a, c))
  BY MulSub
<1>2. MulMod(a, b) \in Field /\ MulMod(a, c) \in Field /\ SubMod(b, c) \in Field
  BY MulRing, SubRing
<1>3. SubMod(MulMod(a, b), MulMod(a, c)) = 0
  BY <1>2, SubRing
<1>4. SubMod(b, c) = 0
  BY <1>1, <1>2, <1>3, NoZeroDivisors
<1> QED
  BY <1>4, SubRing

\* Factors and terms in any order.
LEMMA MulFour ==
    ASSUME NEW a \in Field, NEW b \in Field, NEW c \in Field, NEW d \in Field
    PROVE  MulMod(MulMod(a, b), MulMod(c, d)) = MulMod(MulMod(a, c), MulMod(b, d))
<1>1. MulMod(c, d) \in Field /\ MulMod(b, c) \in Field /\ MulMod(c, b) \in Field /\ MulMod(b, d) \in Field
  BY MulRing
<1>2. MulMod(MulMod(a, b), MulMod(c, d)) = MulMod(a, MulMod(b, MulMod(c, d)))
  BY <1>1, MulRing
<1>3. MulMod(b, MulMod(c, d)) = MulMod(MulMod(b, c), d)
  BY MulRing
<1>4. MulMod(b, c) = MulMod(c, b)
  BY MulRing
<1>5. MulMod(MulMod(c, b), d) = MulMod(c, MulMod(b, d))
  BY MulRing
<1>6. MulMod(a, MulMod(c, MulMod(b, d))) = MulMod(MulMod(a, c), MulMod(b, d))
  BY <1>1, MulRing
<1> QED
  BY <1>2, <1>3, <1>4, <1>5, <1>6

\* Four terms in two orders.
LEMMA AddFour ==
    ASSUME NEW a \in Field, NEW b \in Field, NEW c \in Field, NEW d \in Field
    PROVE  AddMod(AddMod(a, b), AddMod(c, d)) = AddMod(AddMod(a, c), AddMod(b, d))
<1>1. AddMod(c, d) \in Field /\ AddMod(b, c) \in Field /\ AddMod(c, b) \in Field /\ AddMod(b, d) \in Field
  BY AddRing
<1>2. AddMod(AddMod(a, b), AddMod(c, d)) = AddMod(a, AddMod(b, AddMod(c, d)))
  BY <1>1, AddRing
<1>3. AddMod(b, AddMod(c, d)) = AddMod(AddMod(b, c), d)
  BY AddRing
<1>4. AddMod(b, c) = AddMod(c, b)
  BY AddRing
<1>5. AddMod(AddMod(c, b), d) = AddMod(c, AddMod(b, d))
  BY AddRing
<1>6. AddMod(a, AddMod(c, AddMod(b, d))) = AddMod(AddMod(a, c), AddMod(b, d))
  BY <1>1, AddRing
<1> QED
  BY <1>2, <1>3, <1>4, <1>5, <1>6

-----------------------------------------------------------------------------
(* Products, powers and the inverse *)

\* A product of elements other than 0 is not 0.
LEMMA ProductNotZero ==
    ASSUME NEW S, IsFiniteSet(S), NEW f, \A x \in S : f[x] \in Field /\ f[x] # 0
    PROVE  FieldProduct(f, S) \in Field /\ FieldProduct(f, S) # 0
<1> DEFINE Q == {A \in SUBSET S : FieldProduct(f, A) # 0}
<1>1. {} \in Q
  <2>1. FieldProduct(f, {}) = 1
    BY FieldProductRules, Zenon
  <2> QED
    BY <2>1
<1>2. \A A \in SUBSET S : \A x \in S \ A : A \in Q => A \cup {x} \in Q
  <2> SUFFICES ASSUME NEW A \in SUBSET S, NEW x \in S \ A, FieldProduct(f, A) # 0
               PROVE  FieldProduct(f, A \cup {x}) # 0
    OBVIOUS
  <2>1. IsFiniteSet(A) /\ x \notin A
    BY FS_Subset
  <2>2. \A y \in A \cup {x} : f[y] \in Field
    OBVIOUS
  <2>3. FieldProduct(f, A \cup {x}) = MulMod(f[x], FieldProduct(f, A)) /\ FieldProduct(f, A) \in Field
    BY <2>1, <2>2, FieldProductAdds
  <2>4. f[x] \in Field /\ f[x] # 0
    OBVIOUS
  <2> QED
    BY <2>3, <2>4, NoZeroDivisors
<1>3. S \in Q
  <2> HIDE DEF Q
  <2> QED
    BY <1>1, <1>2, FiniteInduct
<1>4. FieldProduct(f, S) \in Field
  BY FieldProductRules
<1> QED
  BY <1>3, <1>4

\* The product of products.
LEMMA ProductTimes ==
    ASSUME NEW S, IsFiniteSet(S), NEW f, NEW k, NEW h,
           \A x \in S : f[x] \in Field /\ k[x] \in Field /\ h[x] = MulMod(f[x], k[x])
    PROVE  FieldProduct(h, S) = MulMod(FieldProduct(f, S), FieldProduct(k, S))
<1> DEFINE Q == {A \in SUBSET S : FieldProduct(h, A) = MulMod(FieldProduct(f, A), FieldProduct(k, A))}
<1>1. {} \in Q
  <2>1. FieldProduct(f, {}) = 1 /\ FieldProduct(k, {}) = 1 /\ FieldProduct(h, {}) = 1
    BY FieldProductRules, Zenon
  <2>2. MulMod(1, 1) = 1
    BY Modulus, MulRing
  <2> QED
    BY <2>1, <2>2
<1>2. \A A \in SUBSET S : \A x \in S \ A : A \in Q => A \cup {x} \in Q
  <2> SUFFICES ASSUME NEW A \in SUBSET S, NEW x \in S \ A,
                      FieldProduct(h, A) = MulMod(FieldProduct(f, A), FieldProduct(k, A))
               PROVE  FieldProduct(h, A \cup {x})
                          = MulMod(FieldProduct(f, A \cup {x}), FieldProduct(k, A \cup {x}))
    OBVIOUS
  <2>1. IsFiniteSet(A) /\ x \notin A /\ f[x] \in Field /\ k[x] \in Field /\ h[x] = MulMod(f[x], k[x])
    BY FS_Subset
  <2>2. \A y \in A \cup {x} : f[y] \in Field /\ k[y] \in Field /\ h[y] \in Field
    BY MulRing
  <2>3. /\ FieldProduct(f, A \cup {x}) = MulMod(f[x], FieldProduct(f, A))
        /\ FieldProduct(f, A) \in Field
    BY <2>1, <2>2, FieldProductAdds
  <2>4. /\ FieldProduct(k, A \cup {x}) = MulMod(k[x], FieldProduct(k, A))
        /\ FieldProduct(k, A) \in Field
    BY <2>1, <2>2, FieldProductAdds
  <2>5. FieldProduct(h, A \cup {x}) = MulMod(h[x], FieldProduct(h, A))
    BY <2>1, <2>2, FieldProductAdds
  <2> QED
    BY <2>1, <2>3, <2>4, <2>5, MulFour
<1>3. S \in Q
  <2> HIDE DEF Q
  <2> QED
    BY <1>1, <1>2, FiniteInduct
<1> QED
  BY <1>3

\* A product may be taken over other names of its factors.
Renames(pi, S, k, f) ==
    /\ \A x \in S : k[x] = f[pi[x]] /\ f[pi[x]] \in Field
    /\ \A x, y \in S : pi[x] = pi[y] => x = y

Names(pi, S) == {pi[x] : x \in S}

\* A product does not depend on how its factors are named.
LEMMA ProductRenamed ==
    ASSUME NEW S, IsFiniteSet(S), NEW f, NEW k, NEW pi, Renames(pi, S, k, f)
    PROVE  /\ FieldProduct(k, S) = FieldProduct(f, Names(pi, S))
           /\ IsFiniteSet(Names(pi, S)) /\ Cardinality(Names(pi, S)) = Cardinality(S)
<1> USE DEF Names
<1> /\ \A x \in S : k[x] = f[pi[x]] /\ f[pi[x]] \in Field
    /\ \A x, y \in S : pi[x] = pi[y] => x = y
  BY DEF Renames
<1> DEFINE Img(A) == {pi[x] : x \in A}
           Q == {A \in SUBSET S : /\ FieldProduct(k, A) = FieldProduct(f, Img(A))
                                  /\ IsFiniteSet(Img(A)) /\ Cardinality(Img(A)) = Cardinality(A)}
<1>1. {} \in Q
  <2>1. FieldProduct(f, {}) = 1 /\ FieldProduct(k, {}) = 1
    BY FieldProductRules, Zenon
  <2>2. Img({}) = {} /\ IsFiniteSet({})
    BY FS_EmptySet
  <2> QED
    BY <2>1, <2>2
<1>2. \A A \in SUBSET S : \A x \in S \ A : A \in Q => A \cup {x} \in Q
  <2> SUFFICES ASSUME NEW A \in SUBSET S, NEW x \in S \ A, A \in Q
               PROVE  A \cup {x} \in Q
    OBVIOUS
  <2>0. /\ FieldProduct(k, A) = FieldProduct(f, Img(A))
        /\ IsFiniteSet(Img(A)) /\ Cardinality(Img(A)) = Cardinality(A)
    OBVIOUS
  <2>1. IsFiniteSet(A) /\ x \notin A /\ Cardinality(A) \in Nat
    BY FS_Subset, FS_CardinalityType
  <2>2. Img(A \cup {x}) = Img(A) \cup {pi[x]} /\ pi[x] \notin Img(A)
    OBVIOUS
  <2>3. \A y \in A \cup {x} : k[y] \in Field
    OBVIOUS
  <2>4. \A y \in Img(A) \cup {pi[x]} : f[y] \in Field
    OBVIOUS
  <2>5. FieldProduct(k, A \cup {x}) = MulMod(k[x], FieldProduct(k, A))
    BY <2>1, <2>3, FieldProductAdds
  <2> HIDE DEF Img
  <2>6. FieldProduct(f, Img(A) \cup {pi[x]}) = MulMod(f[pi[x]], FieldProduct(f, Img(A)))
    BY <2>0, <2>2, <2>4, FieldProductAdds
  <2>7. IsFiniteSet(Img(A) \cup {pi[x]}) /\ Cardinality(Img(A) \cup {pi[x]}) = Cardinality(A) + 1
    BY <2>0, <2>2, FS_AddElement
  <2>8. Cardinality(A \cup {x}) = Cardinality(A) + 1
    BY <2>1, FS_AddElement
  <2> QED
    BY <2>0, <2>2, <2>5, <2>6, <2>7, <2>8
<1>3. S \in Q
  <2> HIDE DEF Q
  <2> QED
    BY <1>1, <1>2, FiniteInduct
<1> QED
  BY <1>3

\* x times itself, n times.
Power(x, n) == FieldProduct([i \in 1..n |-> x], 1..n)

\* Powers, one step at a time.
LEMMA PowerRules ==
    ASSUME NEW x \in Field, NEW n \in Nat
    PROVE  /\ Power(x, n) \in Field
           /\ Power(x, 0) = 1
           /\ Power(x, n + 1) = MulMod(x, Power(x, n))
<1> DEFINE f == [i \in 1..n |-> x]
           k == [i \in 1..(n + 1) |-> x]
<1>1. IsFiniteSet(1..n) /\ n + 1 \in Nat /\ 0 \in Nat /\ n \in Nat
  BY FS_Interval
<1>2. Power(x, n) \in Field
  BY <1>1, FieldProductRules DEF Power
<1>3. 1..0 = {}
  OBVIOUS
<1>4. Power(x, 0) = 1
  BY <1>3, FieldProductRules, Zenon DEF Power
<1>5. 1..(n + 1) = (1..n) \cup {n + 1} /\ n + 1 \notin 1..n
  OBVIOUS
<1>6. \A i \in 1..(n + 1) : k[i] = x
  OBVIOUS
<1>7. \A i \in 1..n : k[i] = x /\ f[i] = k[i]
  OBVIOUS
<1>8. k[n + 1] = x
  BY <1>5, <1>6
<1> HIDE DEF f, k
<1>9. FieldProduct(k, (1..n) \cup {n + 1}) = MulMod(k[n + 1], FieldProduct(k, 1..n))
  <2>1. \A i \in (1..n) \cup {n + 1} : k[i] \in Field
    BY <1>5, <1>6
  <2> QED
    BY <1>1, <1>5, <2>1, FieldProductAdds, Zenon
<1>10. FieldProduct(f, 1..n) = FieldProduct(k, 1..n)
  BY <1>1, <1>7, FieldProductSame
<1>11. FieldProduct(k, 1..(n + 1)) = MulMod(x, FieldProduct(f, 1..n))
  BY <1>5, <1>8, <1>9, <1>10, Zenon
<1>12. Power(x, n + 1) = MulMod(x, Power(x, n))
  BY <1>11, Zenon DEF f, k, Power
<1> QED
  BY <1>2, <1>4, <1>12

\* Fermat's little theorem.
LEMMA Fermat ==
    ASSUME NEW x \in Field, x # 0
    PROVE  Power(x, P - 1) = 1
<1> DEFINE U == 1..(P - 1)
           id == [i \in U |-> i]
           c == [i \in U |-> x]
           pi == [i \in U |-> MulMod(x, i)]
<1>1. IsFiniteSet(U) /\ U \subseteq Field /\ Field = U \cup {0} /\ 0 \notin U
  <2>1. IsFiniteSet(U)
    BY Modulus, FS_Interval
  <2>2. U \subseteq Field /\ Field = U \cup {0} /\ 0 \notin U
    BY Modulus DEF Field
  <2> QED
    BY <2>1, <2>2
<1>2. \A i \in U : id[i] = i /\ c[i] = x /\ pi[i] = MulMod(x, i)
  OBVIOUS
<1>a. Power(x, P - 1) = FieldProduct(c, U)
  BY Zenon DEF Power
<1> HIDE DEF U, id, c, pi
<1>3. \A i \in U : pi[i] \in U
  <2> SUFFICES ASSUME NEW i \in U PROVE MulMod(x, i) \in U
    BY <1>2
  <2>1. i \in Field /\ i # 0 /\ MulMod(x, i) \in Field
    BY <1>1, MulRing
  <2>2. MulMod(x, i) # 0
    BY <2>1, NoZeroDivisors
  <2> QED
    BY <1>1, <2>1, <2>2
<1>4. \A i, j \in U : pi[i] = pi[j] => i = j
  <2> SUFFICES ASSUME NEW i \in U, NEW j \in U, MulMod(x, i) = MulMod(x, j) PROVE i = j
    BY <1>2
  <2>1. i \in Field /\ j \in Field
    BY <1>1
  <2> QED
    BY <2>1, MulCancels
<1> DEFINE I == Names(pi, U)
<1>5. FieldProduct(pi, U) = FieldProduct(id, I) /\ IsFiniteSet(I) /\ Cardinality(I) = Cardinality(U)
  <2>1. \A i \in U : pi[i] = id[pi[i]] /\ id[pi[i]] \in Field
    BY <1>1, <1>2, <1>3
  <2>2. Renames(pi, U, pi, id)
    BY <1>4, <2>1 DEF Renames
  <2> QED
    BY <1>1, <2>2, ProductRenamed
<1>6. I = U
  <2>1. I \subseteq U
    BY <1>3 DEF Names
  <2> HIDE DEF I
  <2> QED
    BY <1>1, <1>5, <2>1, FS_Subset
<1> HIDE DEF I
<1>7. FieldProduct(pi, U) = MulMod(FieldProduct(c, U), FieldProduct(id, U))
  <2>1. \A i \in U : c[i] \in Field /\ id[i] \in Field /\ pi[i] = MulMod(c[i], id[i])
    BY <1>1, <1>2
  <2> QED
    BY <1>1, <2>1, ProductTimes
<1>8. FieldProduct(id, U) \in Field /\ FieldProduct(id, U) # 0
  <2>1. \A i \in U : id[i] \in Field /\ id[i] # 0
    BY <1>1, <1>2
  <2> QED
    BY <1>1, <2>1, ProductNotZero
<1>9. FieldProduct(c, U) \in Field
  <2>1. \A i \in U : c[i] \in Field
    BY <1>2
  <2> QED
    BY <1>1, <2>1, FieldProductRules
<1> DEFINE a == FieldProduct(id, U)
           b == FieldProduct(c, U)
<1>10. a \in Field /\ b \in Field /\ a # 0 /\ a = MulMod(b, a) /\ 1 \in Field
  BY <1>5, <1>6, <1>7, <1>8, <1>9, Modulus
<1> HIDE DEF a, b
<1>11. MulMod(a, b) = MulMod(a, 1)
  BY <1>10, MulRing
<1>12. b = 1
  BY <1>10, <1>11, MulCancels
<1> QED
  BY <1>a, <1>12 DEF b

\* Squaring halves the exponent.
LEMMA PowerHalves ==
    ASSUME NEW x \in Field, NEW n \in Nat
    PROVE  /\ Power(x, 2 * n) = Power(MulMod(x, x), n)
           /\ Power(x, 2 * n + 1) = MulMod(x, Power(MulMod(x, x), n))
<1> DEFINE y == MulMod(x, x)
           M == {k \in Nat : Power(x, 2 * k) = Power(y, k)}
<1>1. y \in Field
  BY MulRing
<1>2. 0 \in M
  <2>1. Power(x, 0) = 1 /\ Power(y, 0) = 1
    BY <1>1, PowerRules
  <2>2. 2 * 0 = 0
    OBVIOUS
  <2> HIDE DEF y
  <2> QED
    BY <2>1, <2>2, Zenon
<1>3. ASSUME NEW k \in M PROVE k + 1 \in M
  <2>1. k \in Nat /\ Power(x, 2 * k) = Power(y, k)
    BY Zenon
  <2> DEFINE e == 2 * k
             d == e + 1
  <2>2. e \in Nat /\ d \in Nat /\ k + 1 \in Nat /\ 2 * (k + 1) = d + 1
    BY <2>1
  <2> HIDE DEF e, d, y
  <2>3. Power(x, d) = MulMod(x, Power(x, e)) /\ Power(x, e) \in Field
    BY <2>2, PowerRules, Zenon DEF d
  <2>4. Power(x, d + 1) = MulMod(x, Power(x, d))
    BY <2>2, PowerRules, Zenon
  <2>5. Power(y, k + 1) = MulMod(y, Power(y, k))
    BY <1>1, <2>1, PowerRules, Zenon
  <2>6. MulMod(x, MulMod(x, Power(x, e))) = MulMod(y, Power(x, e))
    BY <2>3, MulRing DEF y
  <2>7. Power(x, e) = Power(y, k)
    BY <2>1 DEF e
  <2>8. Power(x, 2 * (k + 1)) = Power(y, k + 1)
    BY <2>2, <2>3, <2>4, <2>5, <2>6, <2>7, Zenon
  <2> QED
    BY <2>2, <2>8, Zenon
<1>4. M = Nat
  <2> M \in SUBSET Nat
    OBVIOUS
  <2> HIDE DEF M
  <2> QED
    BY <1>2, <1>3, NatInduct
<1>5. Power(x, 2 * n) = Power(y, n)
  BY <1>4, Zenon
<1>6. Power(x, 2 * n + 1) = MulMod(x, Power(x, 2 * n))
  <2> DEFINE e == 2 * n
  <2>1. e \in Nat
    OBVIOUS
  <2> HIDE DEF e
  <2>2. Power(x, e + 1) = MulMod(x, Power(x, e))
    BY <2>1, PowerRules, Zenon
  <2> QED
    BY <2>2, Zenon DEF e
<1> QED
  BY <1>5, <1>6, Zenon

\* Square and multiply computes the power.
LEMMA PowModIs ==
    ASSUME NEW x \in Field, NEW n \in Nat
    PROVE  PowMod(x, n) = Power(x, n)
<1> DEFINE D == 0..n
           V == [Field -> Field]
           rank == [e \in D |-> e]
           B(e) == Below(D, rank, e)
           at(e, b, h) == IF e = 0 THEN 1
                          ELSE MulMod(IF e % 2 = 1 THEN b ELSE 1, h[e \div 2][MulMod(b, b)])
           value(e, h) == [b \in Field |-> at(e, b, h)]
           step == [e \in D |-> [h \in [B(e) -> V] |-> value(e, h)]]
           Eq(h) == h = [e \in D |-> value(e, h)]
           pow == CHOOSE h : Eq(h)
<1>2. \A e \in D : e # 0 => e \div 2 \in D /\ e \div 2 \in B(e)
  BY DEF Below
<1>3. \A e \in D : \A h \in [B(e) -> V] : value(e, h) \in V
  <2> SUFFICES ASSUME NEW e \in D, NEW h \in [B(e) -> V], NEW b \in Field PROVE at(e, b, h) \in Field
    BY Zenon
  <2>1. CASE e = 0
    BY <2>1, Modulus
  <2>2. CASE e # 0
    <3>1. h[e \div 2] \in V /\ MulMod(b, b) \in Field
      BY <1>2, <2>2, MulRing
    <3>2. h[e \div 2][MulMod(b, b)] \in Field
      BY <3>1
    <3>3. (IF e % 2 = 1 THEN b ELSE 1) \in Field
      BY Modulus
    <3> QED
      BY <2>2, <3>2, <3>3, MulRing
  <2> QED
    BY <2>1, <2>2
<1>4. Steps(D, rank, n + 1, V, step)
  <2>1. rank \in [D -> Nat] /\ n + 1 \in Nat /\ \A z \in D : rank[z] < n + 1
    OBVIOUS
  <2>2. \A e \in D : \A h \in [B(e) -> V] : step[e][h] = value(e, h)
    BY Zenon
  <2> HIDE DEF value, step, rank, D, V
  <2>3. \A e \in D : \A h \in [B(e) -> V] : step[e][h] \in V
    BY <1>3, <2>2, Zenon
  <2> QED
    BY <2>1, <2>3, Zenon DEF Steps
<1>5. PICK h : Recurs(D, rank, V, step, h)
  <2> HIDE DEF step, rank, D, V
  <2> QED
    BY <1>4, RecursionExists
<1>6. h \in [D -> V] /\ \A e \in D : h[e] = value(e, h)
  <2>1. h \in [D -> V] /\ \A e \in D : h[e] = step[e][[y \in B(e) |-> h[y]]]
    BY <1>5, Zenon DEF Recurs
  <2> SUFFICES ASSUME NEW e \in D PROVE h[e] = value(e, h)
    BY <2>1
  <2> DEFINE r == [y \in B(e) |-> h[y]]
  <2>2. B(e) \subseteq D
    BY DEF Below
  <2>3. r \in [B(e) -> V]
    BY <2>1, <2>2
  <2>4. h[e] = value(e, r)
    BY <2>1, <2>3, Zenon
  <2>5. e # 0 => r[e \div 2] = h[e \div 2]
    BY <1>2, Zenon
  <2> HIDE DEF r
  <2>6. \A b \in Field : at(e, b, r) = at(e, b, h)
    <3>1. CASE e = 0
      BY <3>1, Zenon
    <3>2. CASE e # 0
      BY <2>5, <3>2
    <3> QED
      BY <3>1, <3>2, Zenon
  <2> HIDE DEF at
  <2>7. value(e, r) = value(e, h)
    BY <2>6, Zenon
  <2> QED
    BY <2>4, <2>7, Zenon
<1>7. Eq(h)
  BY <1>6
<1>8. Eq(pow)
  <2> HIDE DEF Eq
  <2> QED
    BY <1>7, Zenon
<1>9. PowMod(x, n) = pow[n][x]
  BY Zenon DEF PowMod
<1> HIDE DEF pow
<1>10. \A e \in 0..n, b \in Field :
          pow[e][b] = IF e = 0 THEN 1
                      ELSE MulMod(IF e % 2 = 1 THEN b ELSE 1, pow[e \div 2][MulMod(b, b)])
  BY <1>8
<1> DEFINE M == {k \in Nat : \A e \in 0..n : e <= k => \A b \in Field : pow[e][b] = Power(b, e)}
<1> HIDE DEF Eq
<1>11. 0 \in M
  <2>0. 0 \in 0..n /\ 0 \in Nat
    OBVIOUS
  <2>1. \A b \in Field : pow[0][b] = 1 /\ Power(b, 0) = 1
    BY <1>10, <2>0, PowerRules, Zenon
  <2> QED
    BY <2>1
<1>12. ASSUME NEW k \in M PROVE k + 1 \in M
  <2>1. k \in Nat /\ \A e \in 0..n : e <= k => \A b \in Field : pow[e][b] = Power(b, e)
    BY Zenon
  <2> SUFFICES ASSUME NEW e \in 0..n, e = k + 1, NEW b \in Field PROVE pow[e][b] = Power(b, e)
    BY <2>1
  <2> DEFINE d == e \div 2
             y == MulMod(b, b)
  <2>2. d \in 0..n /\ d \in Nat /\ d <= k /\ e # 0 /\ y \in Field /\ e % 2 \in {0, 1} /\ e = 2 * d + (e % 2)
    BY <2>1, MulRing
  <2>3. pow[e][b] = MulMod(IF e % 2 = 1 THEN b ELSE 1, pow[d][y])
    BY <1>10, <2>2, Zenon
  <2>4. pow[d][y] = Power(y, d)
    BY <2>1, <2>2
  <2> HIDE DEF d
  <2>5. Power(b, 2 * d) = Power(y, d) /\ Power(b, 2 * d + 1) = MulMod(b, Power(y, d)) /\ Power(y, d) \in Field
    BY <2>2, PowerHalves, PowerRules
  <2> HIDE DEF y
  <2>6. CASE e % 2 = 1
    <3>1. e = 2 * d + 1
      BY <2>2, <2>6
    <3> QED
      BY <2>3, <2>4, <2>5, <2>6, <3>1, Zenon
  <2>7. CASE e % 2 # 1
    <3>1. e = 2 * d
      BY <2>2, <2>7
    <3>2. MulMod(1, Power(y, d)) = Power(y, d)
      BY <2>5, MulRing
    <3> QED
      BY <2>3, <2>4, <2>5, <2>7, <3>1, <3>2, Zenon
  <2> QED
    BY <2>6, <2>7
<1>13. M = Nat
  <2> M \in SUBSET Nat
    OBVIOUS
  <2> HIDE DEF M
  <2> QED
    BY <1>11, <1>12, NatInduct
<1>14. n \in M /\ n \in 0..n /\ n <= n
  BY <1>13
<1>15. pow[n][x] = Power(x, n)
  BY <1>14, Zenon
<1> QED
  BY <1>9, <1>15, Zenon

\* inv_mod gives the inverse, because P is a prime.
THEOREM InvModInverts ==
    ASSUME NEW x \in Field, x # 0
    PROVE  InvMod(x) \in Field /\ MulMod(x, InvMod(x)) = 1
<1> DEFINE n == P - 2
<1>1. n \in Nat /\ n + 1 = P - 1
  BY Modulus
<1> HIDE DEF n
<1>2. Power(x, n + 1) = MulMod(x, Power(x, n)) /\ Power(x, n) \in Field
  BY <1>1, PowerRules, Zenon
<1>3. InvMod(x) = Power(x, n)
  BY <1>1, PowModIs, Zenon DEF InvMod, n
<1>4. Power(x, P - 1) = 1
  BY Fermat, Zenon
<1>5. Power(x, n + 1) = 1
  BY <1>1, <1>4, Zenon
<1> QED
  BY <1>2, <1>3, <1>5, Zenon

-----------------------------------------------------------------------------
(* Sums of sums and of multiples *)

\* The sum of sums is the sum of the two sums.
LEMMA SumOfSums ==
    ASSUME NEW S, IsFiniteSet(S), NEW f, NEW k, NEW h,
           \A x \in S : f[x] \in Field /\ k[x] \in Field /\ h[x] = AddMod(f[x], k[x])
    PROVE  FieldSum(h, S) = AddMod(FieldSum(f, S), FieldSum(k, S))
<1> DEFINE Q == {A \in SUBSET S : FieldSum(h, A) = AddMod(FieldSum(f, A), FieldSum(k, A))}
<1>1. {} \in Q
  <2>1. FieldSum(f, {}) = 0 /\ FieldSum(k, {}) = 0 /\ FieldSum(h, {}) = 0
    BY FieldSumRules, Zenon
  <2>2. AddMod(0, 0) = 0
    BY Modulus, AddRing
  <2> QED
    BY <2>1, <2>2
<1>2. \A A \in SUBSET S : \A x \in S \ A : A \in Q => A \cup {x} \in Q
  <2> SUFFICES ASSUME NEW A \in SUBSET S, NEW x \in S \ A,
                      FieldSum(h, A) = AddMod(FieldSum(f, A), FieldSum(k, A))
               PROVE  FieldSum(h, A \cup {x})
                          = AddMod(FieldSum(f, A \cup {x}), FieldSum(k, A \cup {x}))
    OBVIOUS
  <2>1. IsFiniteSet(A) /\ x \notin A /\ f[x] \in Field /\ k[x] \in Field /\ h[x] = AddMod(f[x], k[x])
    BY FS_Subset
  <2>2. \A y \in A \cup {x} : f[y] \in Field /\ k[y] \in Field /\ h[y] \in Field
    BY AddRing
  <2>3. FieldSum(f, A \cup {x}) = AddMod(f[x], FieldSum(f, A)) /\ FieldSum(f, A) \in Field
    BY <2>1, <2>2, FieldSumAdds
  <2>4. FieldSum(k, A \cup {x}) = AddMod(k[x], FieldSum(k, A)) /\ FieldSum(k, A) \in Field
    BY <2>1, <2>2, FieldSumAdds
  <2>5. FieldSum(h, A \cup {x}) = AddMod(h[x], FieldSum(h, A))
    BY <2>1, <2>2, FieldSumAdds
  <2> QED
    BY <2>1, <2>3, <2>4, <2>5, AddFour
<1>3. S \in Q
  <2> HIDE DEF Q
  <2> QED
    BY <1>1, <1>2, FiniteInduct
<1> QED
  BY <1>3

\* A common factor can be taken out of a sum.
LEMMA SumOfMultiples ==
    ASSUME NEW S, IsFiniteSet(S), NEW f, NEW h, NEW c \in Field,
           \A x \in S : f[x] \in Field /\ h[x] = MulMod(c, f[x])
    PROVE  FieldSum(h, S) = MulMod(c, FieldSum(f, S))
<1> DEFINE Q == {A \in SUBSET S : FieldSum(h, A) = MulMod(c, FieldSum(f, A))}
<1>1. {} \in Q
  <2>1. FieldSum(f, {}) = 0 /\ FieldSum(h, {}) = 0
    BY FieldSumRules, Zenon
  <2>2. MulMod(c, 0) = 0
    BY Modulus, MulRing
  <2> QED
    BY <2>1, <2>2
<1>2. \A A \in SUBSET S : \A x \in S \ A : A \in Q => A \cup {x} \in Q
  <2> SUFFICES ASSUME NEW A \in SUBSET S, NEW x \in S \ A,
                      FieldSum(h, A) = MulMod(c, FieldSum(f, A))
               PROVE  FieldSum(h, A \cup {x}) = MulMod(c, FieldSum(f, A \cup {x}))
    OBVIOUS
  <2>1. IsFiniteSet(A) /\ x \notin A /\ f[x] \in Field /\ h[x] = MulMod(c, f[x])
    BY FS_Subset
  <2>2. \A y \in A \cup {x} : f[y] \in Field /\ h[y] \in Field
    BY MulRing
  <2>3. FieldSum(f, A \cup {x}) = AddMod(f[x], FieldSum(f, A)) /\ FieldSum(f, A) \in Field
    BY <2>1, <2>2, FieldSumAdds
  <2>4. FieldSum(h, A \cup {x}) = AddMod(h[x], FieldSum(h, A))
    BY <2>1, <2>2, FieldSumAdds
  <2>5. MulMod(c, AddMod(f[x], FieldSum(f, A))) = AddMod(MulMod(c, f[x]), MulMod(c, FieldSum(f, A)))
    BY <2>1, <2>3, Distributes
  <2> QED
    BY <2>1, <2>3, <2>4, <2>5
<1>3. S \in Q
  <2> HIDE DEF Q
  <2> QED
    BY <1>1, <1>2, FiniteInduct
<1> QED
  BY <1>3

\* Zeros add up to zero.
LEMMA SumOfZeros ==
    ASSUME NEW S, IsFiniteSet(S), NEW f, \A x \in S : f[x] = 0
    PROVE  FieldSum(f, S) = 0
<1>1. \A x \in S : f[x] \in Field /\ f[x] = MulMod(0, f[x])
  BY Modulus, MulRing
<1>2. FieldSum(f, S) = MulMod(0, FieldSum(f, S)) /\ FieldSum(f, S) \in Field
  BY <1>1, Modulus, SumOfMultiples, FieldSumRules
<1> QED
  BY <1>2, MulRing

-----------------------------------------------------------------------------
(* Interpolation at zero *)

\* Distinct points X[i], for i in S.
Points(S, X) ==
    /\ IsFiniteSet(S) /\ X \in [S -> Field]
    /\ \A i, j \in S : X[i] = X[j] => i = j

FromZero(S, X) == [j \in S |-> SubMod(0, X[j])]
From(S, X, i) == [j \in S |-> SubMod(X[i], X[j])]

\* The weight of i among the points of A.
WeightOf(S, X, A, i) ==
    MulMod(FieldProduct(FromZero(S, X), A \ {i}), InvMod(FieldProduct(From(S, X, i), A \ {i})))

Term(S, X, A, y) == [i \in S |-> MulMod(y[i], WeightOf(S, X, A, i))]

\* The value at zero that the values y of the points of A give.
Value(S, X, A, y) == FieldSum(Term(S, X, A, y), A)

\* A weight is the quotient of the two products.
LEMMA WeightDivides ==
    ASSUME NEW S, NEW X, Points(S, X), NEW A \in SUBSET S, NEW i \in S
    PROVE  LET n == FieldProduct(FromZero(S, X), A \ {i})
               d == FieldProduct(From(S, X, i), A \ {i})
               w == WeightOf(S, X, A, i)
           IN n \in Field /\ d \in Field /\ d # 0 /\ w \in Field /\ MulMod(w, d) = n
<1> DEFINE B == A \ {i}
           n == FieldProduct(FromZero(S, X), B)
           d == FieldProduct(From(S, X, i), B)
           w == WeightOf(S, X, A, i)
<1>1. IsFiniteSet(B) /\ 0 \in Field
  BY FS_Subset, Modulus DEF Points
<1>2. n \in Field
  <2>1. \A j \in B : FromZero(S, X)[j] \in Field
    BY <1>1, SubRing DEF FromZero, Points
  <2> QED
    BY <1>1, <2>1, FieldProductRules
<1>3. d \in Field /\ d # 0
  <2>1. \A j \in B : From(S, X, i)[j] \in Field /\ From(S, X, i)[j] # 0
    BY <1>1, SubRing DEF From, Points
  <2> QED
    BY <1>1, <2>1, ProductNotZero
<1>4. w = MulMod(n, InvMod(d))
  BY DEF WeightOf
<1> HIDE DEF n, d, w
<1>5. InvMod(d) \in Field /\ MulMod(d, InvMod(d)) = 1
  BY <1>3, InvModInverts
<1>6. w \in Field
  BY <1>2, <1>4, <1>5, MulRing
<1>7. MulMod(w, d) = n
  <2>1. MulMod(MulMod(n, InvMod(d)), d) = MulMod(n, MulMod(InvMod(d), d))
    BY <1>2, <1>3, <1>5, MulRing
  <2>2. MulMod(InvMod(d), d) = 1
    BY <1>3, <1>5, MulRing
  <2>3. MulMod(n, 1) = n
    BY <1>2, MulRing
  <2> QED
    BY <1>4, <2>1, <2>2, <2>3
<1> QED
  BY <1>2, <1>3, <1>6, <1>7 DEF n, d, w

\* What a point a contributes to the weight of another one.
LEMMA WeightWithout ==
    ASSUME NEW S, NEW X, Points(S, X), NEW A \in SUBSET S, NEW i \in A, NEW a \in A, i # a
    PROVE  AddMod(MulMod(X[i], WeightOf(S, X, A, i)), MulMod(X[a], WeightOf(S, X, A \ {a}, i)))
               = MulMod(X[a], WeightOf(S, X, A, i))
<1> DEFINE B == A \ {i}
           C == (A \ {a}) \ {i}
           w == WeightOf(S, X, A, i)
           v == WeightOf(S, X, A \ {a}, i)
           n == FieldProduct(FromZero(S, X), C)
           d == FieldProduct(From(S, X, i), C)
           N == FieldProduct(FromZero(S, X), B)
           D == FieldProduct(From(S, X, i), B)
           s == SubMod(0, X[a])
           o == SubMod(X[i], X[a])
<1>1. IsFiniteSet(B) /\ a \in B /\ C = B \ {a} /\ a \in S /\ i \in S /\ A \ {a} \in SUBSET S
  BY FS_Subset DEF Points
<1>2. X[a] \in Field /\ X[i] \in Field /\ 0 \in Field
  BY <1>1, Modulus DEF Points
<1>3. s \in Field /\ o \in Field /\ FromZero(S, X)[a] = s /\ From(S, X, i)[a] = o
  BY <1>1, <1>2, SubRing DEF FromZero, From
<1>4. n \in Field /\ d \in Field /\ d # 0 /\ v \in Field /\ MulMod(v, d) = n
  BY <1>1, WeightDivides
<1>5. w \in Field /\ MulMod(w, D) = N
  BY <1>1, WeightDivides
<1>6. N = MulMod(s, n)
  <2>1. \A j \in B : FromZero(S, X)[j] \in Field
    BY <1>2, SubRing DEF FromZero, Points
  <2>2. N = MulMod(FromZero(S, X)[a], FieldProduct(FromZero(S, X), B \ {a}))
    BY <1>1, <2>1, FieldProductRules
  <2> QED
    BY <1>1, <1>3, <2>2, Zenon
<1>7. D = MulMod(o, d)
  <2>1. \A j \in B : From(S, X, i)[j] \in Field
    BY <1>2, SubRing DEF From, Points
  <2>2. D = MulMod(From(S, X, i)[a], FieldProduct(From(S, X, i), B \ {a}))
    BY <1>1, <2>1, FieldProductRules
  <2> QED
    BY <1>1, <1>3, <2>2, Zenon
<1> DEFINE x == X[i]
           u == X[a]
<1>8. x \in Field /\ u \in Field /\ s = SubMod(0, u) /\ o = SubMod(x, u)
  BY <1>2
<1> HIDE DEF w, v, n, d, N, D, s, o, x, u
<1>9. MulMod(d, MulMod(w, o)) = MulMod(d, MulMod(s, v))
  <2>1. MulMod(d, MulMod(w, o)) = MulMod(w, MulMod(o, d))
    <3>1. MulMod(w, o) \in Field
      BY <1>3, <1>5, MulRing
    <3> QED
      BY <1>3, <1>4, <1>5, <3>1, MulRing
  <2>2. MulMod(d, MulMod(s, v)) = MulMod(s, MulMod(v, d))
    <3>1. MulMod(s, v) \in Field
      BY <1>3, <1>4, MulRing
    <3> QED
      BY <1>3, <1>4, <3>1, MulRing
  <2> QED
    BY <1>4, <1>5, <1>6, <1>7, <2>1, <2>2
<1>10. MulMod(w, o) = MulMod(s, v)
  <2>1. MulMod(w, o) \in Field /\ MulMod(s, v) \in Field
    BY <1>3, <1>4, <1>5, MulRing
  <2> QED
    BY <1>4, <1>9, <2>1, MulCancels
<1> DEFINE xw == MulMod(x, w)
           uw == MulMod(u, w)
           uv == MulMod(u, v)
<1>11. xw \in Field /\ uw \in Field /\ uv \in Field /\ 0 \in Field
  BY <1>4, <1>5, <1>8, MulRing, Modulus
<1>12. MulMod(w, o) = SubMod(xw, uw)
  <2>1. MulMod(w, SubMod(x, u)) = SubMod(MulMod(w, x), MulMod(w, u))
    BY <1>5, <1>8, MulSub
  <2>2. MulMod(w, x) = xw /\ MulMod(w, u) = uw
    BY <1>5, <1>8, MulRing
  <2> QED
    BY <1>8, <2>1, <2>2
<1>13. MulMod(s, v) = SubMod(0, uv)
  <2>1. MulMod(v, SubMod(0, u)) = SubMod(MulMod(v, 0), MulMod(v, u))
    BY <1>4, <1>8, <1>11, MulSub
  <2>2. MulMod(v, 0) = 0 /\ MulMod(v, u) = uv /\ MulMod(v, s) = MulMod(s, v)
    BY <1>3, <1>4, <1>8, MulRing
  <2> QED
    BY <1>8, <2>1, <2>2
<1> HIDE DEF xw, uw, uv
<1>14. SubMod(xw, uw) = SubMod(0, uv)
  BY <1>10, <1>12, <1>13
<1>15. AddMod(xw, uv) = uw
  <2> DEFINE z == SubMod(0, uv)
  <2>1. z \in Field /\ AddMod(z, uv) = 0
    BY <1>11, Negative
  <2>2. AddMod(z, uw) = xw
    BY <1>11, <1>14, SubRing
  <2> HIDE DEF z
  <2>3. AddMod(AddMod(z, uw), uv) = AddMod(AddMod(z, uv), uw)
    <3>1. AddMod(AddMod(z, uw), uv) = AddMod(z, AddMod(uw, uv))
      BY <1>11, <2>1, AddRing
    <3>2. AddMod(uw, uv) = AddMod(uv, uw)
      BY <1>11, AddRing
    <3>3. AddMod(AddMod(z, uv), uw) = AddMod(z, AddMod(uv, uw))
      BY <1>11, <2>1, AddRing
    <3> QED
      BY <3>1, <3>2, <3>3
  <2>4. AddMod(0, uw) = uw
    BY <1>11, AddRing
  <2> QED
    BY <2>1, <2>2, <2>3, <2>4
<1> QED
  BY <1>15 DEF xw, uw, uv, x, u, w, v

\* The interpolated value, its terms and the weights are in the field.
LEMMA ValueType ==
    ASSUME NEW S, NEW X, Points(S, X), NEW A \in SUBSET S, NEW y, \A i \in A : y[i] \in Field
    PROVE  /\ Value(S, X, A, y) \in Field /\ IsFiniteSet(A)
           /\ \A i \in A : /\ Term(S, X, A, y)[i] = MulMod(y[i], WeightOf(S, X, A, i))
                           /\ Term(S, X, A, y)[i] \in Field /\ WeightOf(S, X, A, i) \in Field
<1>1. IsFiniteSet(A)
  BY FS_Subset DEF Points
<1>2. ASSUME NEW i \in A
      PROVE  /\ Term(S, X, A, y)[i] = MulMod(y[i], WeightOf(S, X, A, i))
             /\ Term(S, X, A, y)[i] \in Field /\ WeightOf(S, X, A, i) \in Field
  <2>1. Term(S, X, A, y)[i] = MulMod(y[i], WeightOf(S, X, A, i))
    BY Zenon DEF Term
  <2>2. WeightOf(S, X, A, i) \in Field /\ y[i] \in Field
    BY WeightDivides
  <2> QED
    BY <2>1, <2>2, MulRing
<1>3. Value(S, X, A, y) \in Field
  BY <1>1, <1>2, FieldSumRules DEF Value
<1> QED
  BY <1>1, <1>2, <1>3

\* Equal values at the points interpolate to the same.
LEMMA ValueSame ==
    ASSUME NEW S, NEW X, Points(S, X), NEW A \in SUBSET S, NEW y, NEW z,
           \A i \in A : y[i] \in Field /\ y[i] = z[i]
    PROVE  Value(S, X, A, y) = Value(S, X, A, z)
<1>1. IsFiniteSet(A)
  BY FS_Subset DEF Points
<1>2. \A i \in A : Term(S, X, A, y)[i] \in Field /\ Term(S, X, A, y)[i] = Term(S, X, A, z)[i]
  <2>1. \A i \in A : /\ Term(S, X, A, y)[i] = MulMod(y[i], WeightOf(S, X, A, i))
                     /\ Term(S, X, A, y)[i] \in Field
    BY ValueType
  <2>2. \A i \in A : Term(S, X, A, z)[i] = MulMod(z[i], WeightOf(S, X, A, i))
    BY ValueType
  <2> QED
    BY <2>1, <2>2
<1> QED
  BY <1>1, <1>2, FieldSumSame DEF Value

\* Interpolation is additive.
LEMMA ValueOfSums ==
    ASSUME NEW S, NEW X, Points(S, X), NEW A \in SUBSET S, NEW y, NEW z, NEW h,
           \A i \in A : y[i] \in Field /\ z[i] \in Field /\ h[i] = AddMod(y[i], z[i])
    PROVE  Value(S, X, A, h) = AddMod(Value(S, X, A, y), Value(S, X, A, z))
<1>1. IsFiniteSet(A)
  BY FS_Subset DEF Points
<1>2. ASSUME NEW i \in A
      PROVE  /\ Term(S, X, A, y)[i] \in Field /\ Term(S, X, A, z)[i] \in Field
             /\ Term(S, X, A, h)[i] = AddMod(Term(S, X, A, y)[i], Term(S, X, A, z)[i])
  <2> DEFINE w == WeightOf(S, X, A, i)
  <2>1. \A j \in A : h[j] \in Field
    BY AddRing
  <2>2. Term(S, X, A, y)[i] = MulMod(y[i], w) /\ Term(S, X, A, y)[i] \in Field /\ w \in Field
    BY ValueType
  <2>3. Term(S, X, A, z)[i] = MulMod(z[i], w) /\ Term(S, X, A, z)[i] \in Field
    BY ValueType
  <2>4. Term(S, X, A, h)[i] = MulMod(h[i], w)
    BY <2>1, ValueType
  <2>5. h[i] = AddMod(y[i], z[i]) /\ y[i] \in Field /\ z[i] \in Field
    OBVIOUS
  <2> HIDE DEF w
  <2>6. MulMod(AddMod(y[i], z[i]), w) = AddMod(MulMod(y[i], w), MulMod(z[i], w))
    BY <2>2, <2>5, Distributes
  <2> QED
    BY <2>2, <2>3, <2>4, <2>5, <2>6
<1> QED
  BY <1>1, <1>2, SumOfSums DEF Value

\* And it goes along with multiplication.
LEMMA ValueOfMultiples ==
    ASSUME NEW S, NEW X, Points(S, X), NEW A \in SUBSET S, NEW c \in Field, NEW y, NEW h,
           \A i \in A : y[i] \in Field /\ h[i] = MulMod(c, y[i])
    PROVE  Value(S, X, A, h) = MulMod(c, Value(S, X, A, y))
<1>1. IsFiniteSet(A)
  BY FS_Subset DEF Points
<1>2. ASSUME NEW i \in A
      PROVE  /\ Term(S, X, A, y)[i] \in Field
             /\ Term(S, X, A, h)[i] = MulMod(c, Term(S, X, A, y)[i])
  <2> DEFINE w == WeightOf(S, X, A, i)
  <2>1. \A j \in A : h[j] \in Field
    BY MulRing
  <2>2. Term(S, X, A, y)[i] = MulMod(y[i], w) /\ Term(S, X, A, y)[i] \in Field /\ w \in Field
    BY ValueType
  <2>3. Term(S, X, A, h)[i] = MulMod(h[i], w)
    BY <2>1, ValueType
  <2>4. h[i] = MulMod(c, y[i]) /\ y[i] \in Field
    OBVIOUS
  <2> HIDE DEF w
  <2>5. MulMod(MulMod(c, y[i]), w) = MulMod(c, MulMod(y[i], w))
    <3> DEFINE t == y[i]
    <3>1. t \in Field /\ w \in Field
      BY <2>2, <2>4
    <3> HIDE DEF t
    <3>2. MulMod(MulMod(c, t), w) = MulMod(c, MulMod(t, w))
      BY <3>1, MulRing
    <3> QED
      BY <3>2 DEF t
  <2> QED
    BY <2>2, <2>3, <2>4, <2>5
<1> QED
  BY <1>1, <1>2, SumOfMultiples DEF Value

\* A product with the points themselves, by a point a that is taken out.
LEMMA ValueWithout ==
    ASSUME NEW S, NEW X, Points(S, X), NEW A \in SUBSET S, NEW a \in A, NEW y, NEW h,
           \A i \in A : y[i] \in Field /\ h[i] = MulMod(X[i], y[i])
    PROVE  AddMod(Value(S, X, A, h), MulMod(X[a], Value(S, X, A \ {a}, y)))
               = MulMod(X[a], Value(S, X, A, y))
<1> DEFINE B == A \ {a}
           u == X[a]
           f == Term(S, X, A, h)
           g == Term(S, X, A, y)
           k == Term(S, X, B, y)
           uk == [i \in B |-> MulMod(u, k[i])]
           ug == [i \in B |-> MulMod(u, g[i])]
<1>1. B \in SUBSET S /\ IsFiniteSet(A) /\ IsFiniteSet(B) /\ u \in Field
  BY FS_Subset DEF Points
<1>2. \A i \in A : X[i] \in Field /\ h[i] \in Field
  <2>1. \A i \in A : X[i] \in Field
    BY DEF Points
  <2> QED
    BY <2>1, MulRing
<1>3. \A i \in A : /\ f[i] = MulMod(h[i], WeightOf(S, X, A, i)) /\ f[i] \in Field
                   /\ WeightOf(S, X, A, i) \in Field
  BY <1>2, ValueType
<1>4. \A i \in A : g[i] = MulMod(y[i], WeightOf(S, X, A, i)) /\ g[i] \in Field
  BY ValueType
<1>5. \A i \in B : /\ k[i] = MulMod(y[i], WeightOf(S, X, B, i)) /\ k[i] \in Field
                   /\ WeightOf(S, X, B, i) \in Field
  BY <1>1, ValueType
<1>6. \A i \in B : uk[i] = MulMod(u, k[i]) /\ ug[i] = MulMod(u, g[i])
  OBVIOUS
<1>v. /\ Value(S, X, A, h) = FieldSum(f, A) /\ Value(S, X, A, y) = FieldSum(g, A)
      /\ Value(S, X, B, y) = FieldSum(k, B)
  BY Zenon DEF Value
<1> HIDE DEF u, f, g, k, uk, ug
<1>7. ASSUME NEW i \in B
      PROVE  f[i] \in Field /\ uk[i] \in Field /\ ug[i] \in Field /\ ug[i] = AddMod(f[i], uk[i])
  <2> DEFINE w == WeightOf(S, X, A, i)
             v == WeightOf(S, X, B, i)
             x == X[i]
             t == y[i]
  <2>0. i \in A /\ i # a
    OBVIOUS
  <2>1. AddMod(MulMod(x, w), MulMod(u, v)) = MulMod(u, w)
    BY <2>0, WeightWithout DEF u
  <2>2. /\ x \in Field /\ t \in Field /\ w \in Field /\ v \in Field /\ f[i] \in Field
        /\ k[i] \in Field /\ g[i] \in Field
        /\ f[i] = MulMod(MulMod(x, t), w) /\ g[i] = MulMod(t, w) /\ k[i] = MulMod(t, v)
    BY <1>2, <1>3, <1>4, <1>5, <2>0
  <2> HIDE DEF w, v, x, t, B
  <2>3. f[i] = MulMod(t, MulMod(x, w))
    BY <2>2, MulRing
  <2>4. MulMod(u, g[i]) = MulMod(t, MulMod(u, w))
    <3>1. MulMod(u, MulMod(t, w)) = MulMod(MulMod(u, t), w)
      BY <1>1, <2>2, MulRing
    <3>2. MulMod(u, t) = MulMod(t, u)
      BY <1>1, <2>2, MulRing
    <3>3. MulMod(t, MulMod(u, w)) = MulMod(MulMod(t, u), w)
      BY <1>1, <2>2, MulRing
    <3> QED
      BY <2>2, <3>1, <3>2, <3>3
  <2>5. MulMod(u, k[i]) = MulMod(t, MulMod(u, v))
    <3>1. MulMod(u, MulMod(t, v)) = MulMod(MulMod(u, t), v)
      BY <1>1, <2>2, MulRing
    <3>2. MulMod(u, t) = MulMod(t, u)
      BY <1>1, <2>2, MulRing
    <3>3. MulMod(t, MulMod(u, v)) = MulMod(MulMod(t, u), v)
      BY <1>1, <2>2, MulRing
    <3> QED
      BY <2>2, <3>1, <3>2, <3>3
  <2>6. MulMod(x, w) \in Field /\ MulMod(u, v) \in Field
    BY <1>1, <2>2, MulRing
  <2>7. MulMod(t, AddMod(MulMod(x, w), MulMod(u, v)))
            = AddMod(MulMod(t, MulMod(x, w)), MulMod(t, MulMod(u, v)))
    BY <2>2, <2>6, Distributes
  <2>8. MulMod(u, g[i]) \in Field /\ MulMod(u, k[i]) \in Field
    BY <1>1, <2>2, MulRing
  <2>9. MulMod(u, g[i]) = AddMod(f[i], MulMod(u, k[i]))
    BY <2>1, <2>3, <2>4, <2>5, <2>7, Zenon
  <2> QED
    BY <1>6, <2>2, <2>8, <2>9
<1> DEFINE F == FieldSum(f, B)
           G == FieldSum(g, B)
           K == FieldSum(k, B)
<1>8. F \in Field /\ G \in Field /\ K \in Field
  <2>1. \A i \in B : f[i] \in Field /\ g[i] \in Field /\ k[i] \in Field
    BY <1>4, <1>5, <1>7
  <2> HIDE DEF B
  <2> QED
    BY <1>1, <2>1, FieldSumRules
<1>9. FieldSum(ug, B) = AddMod(F, FieldSum(uk, B))
  <2> HIDE DEF B
  <2> QED
    BY <1>1, <1>7, SumOfSums
<1>10. FieldSum(uk, B) = MulMod(u, K)
  <2> HIDE DEF B
  <2> QED
    BY <1>1, <1>5, <1>6, SumOfMultiples
<1>11. FieldSum(ug, B) = MulMod(u, G)
  <2>1. \A i \in B : g[i] \in Field
    BY <1>4
  <2> HIDE DEF B
  <2> QED
    BY <1>1, <1>6, <2>1, SumOfMultiples
<1>12. Value(S, X, A, h) = AddMod(f[a], F) /\ Value(S, X, A, y) = AddMod(g[a], G)
  <2>1. FieldSum(f, A) = AddMod(f[a], F)
    BY <1>1, <1>3, FieldSumRules
  <2>2. FieldSum(g, A) = AddMod(g[a], G)
    BY <1>1, <1>4, FieldSumRules
  <2> QED
    BY <1>v, <2>1, <2>2
<1>13. f[a] = MulMod(u, g[a]) /\ g[a] \in Field /\ f[a] \in Field
  <2> DEFINE w == WeightOf(S, X, A, a)
             t == y[a]
  <2>1. f[a] = MulMod(MulMod(u, t), w) /\ g[a] = MulMod(t, w) /\ t \in Field /\ w \in Field /\ g[a] \in Field /\ f[a] \in Field
    BY <1>3, <1>4 DEF u
  <2> HIDE DEF w, t
  <2> QED
    BY <1>1, <2>1, MulRing
<1> HIDE DEF F, G, K
<1>14. AddMod(AddMod(f[a], F), MulMod(u, K)) = AddMod(f[a], AddMod(F, MulMod(u, K)))
  <2>1. MulMod(u, K) \in Field
    BY <1>1, <1>8, MulRing
  <2> QED
    BY <1>8, <1>13, <2>1, AddRing
<1>15. MulMod(u, AddMod(g[a], G)) = AddMod(MulMod(u, g[a]), MulMod(u, G))
  BY <1>1, <1>8, <1>13, Distributes
<1> QED
  BY <1>v, <1>9, <1>10, <1>11, <1>12, <1>13, <1>14, <1>15, Zenon DEF u, K

\* The weights of any points add up to one.
LEMMA ValueOfOne ==
    ASSUME NEW S, NEW X, Points(S, X)
    PROVE  \A A \in SUBSET S : A # {} => Value(S, X, A, [i \in S |-> 1]) = 1
<1> DEFINE one == [i \in S |-> 1]
           Q == {A \in SUBSET S : A # {} => Value(S, X, A, one) = 1}
<1>0. \A i \in S : one[i] = 1
  OBVIOUS
<1>1. {} \in Q /\ IsFiniteSet(S)
  BY DEF Points
<1>2. ASSUME NEW A \in SUBSET S, A # {}, \A a \in A : A \ {a} \in Q
      PROVE  A \in Q
  <2>1. PICK a \in A : TRUE
    BY <1>2
  <2> HIDE DEF one
  <2>2. \A i \in A : one[i] \in Field /\ X[i] \in Field /\ X[i] = MulMod(X[i], one[i])
    <3>1. \A i \in A : one[i] = 1 /\ X[i] \in Field
      BY <1>0 DEF Points
    <3> QED
      BY <3>1, Modulus, MulRing
  <2> DEFINE C == Value(S, X, A, one)
             H == Value(S, X, A, X)
  <2>3. C \in Field /\ H \in Field
    BY <2>2, ValueType
  <2>4. \A b \in A : AddMod(H, MulMod(X[b], Value(S, X, A \ {b}, one))) = MulMod(X[b], C)
    BY <2>2, ValueWithout, Zenon
  <2>5. CASE A = {a}
    <3>1. A \ {a} = {}
      BY <2>5
    <3>2. FieldProduct(FromZero(S, X), {}) = 1 /\ FieldProduct(From(S, X, a), {}) = 1
      BY FieldProductRules, Zenon
    <3> DEFINE w == WeightOf(S, X, A, a)
    <3>3. w \in Field /\ MulMod(w, FieldProduct(From(S, X, a), A \ {a})) = FieldProduct(FromZero(S, X), A \ {a})
      BY WeightDivides
    <3>4. MulMod(w, 1) = 1 /\ w \in Field
      BY <3>1, <3>2, <3>3, Zenon
    <3>5. w = 1
      <4> HIDE DEF w
      <4> QED
        BY <3>4, MulRing
    <3>6. Term(S, X, A, one)[a] = 1 /\ \A i \in A : Term(S, X, A, one)[i] \in Field
      <4>1. /\ Term(S, X, A, one)[a] = MulMod(one[a], w)
            /\ \A i \in A : Term(S, X, A, one)[i] \in Field
        BY <2>2, ValueType
      <4>2. one[a] = 1 /\ MulMod(1, 1) = 1
        BY <1>0, Modulus, MulRing
      <4> QED
        BY <3>5, <4>1, <4>2, Zenon
    <3>7. FieldSum(Term(S, X, A, one), A) = AddMod(Term(S, X, A, one)[a], FieldSum(Term(S, X, A, one), A \ {a}))
      <4>1. IsFiniteSet(A)
        BY <1>1, FS_Subset
      <4> QED
        BY <3>6, <4>1, FieldSumRules
    <3>8. FieldSum(Term(S, X, A, one), A \ {a}) = 0
      BY <3>1, FieldSumRules, Zenon
    <3>9. AddMod(1, 0) = 1
      BY Modulus, AddRing
    <3>10. C = 1
      BY <3>6, <3>7, <3>8, <3>9, Zenon DEF Value
    <3> QED
      BY <3>10
  <2>6. CASE A # {a}
    <3>1. PICK b \in A : b # a
      BY <2>1, <2>6
    <3>2. Value(S, X, A \ {a}, one) = 1 /\ Value(S, X, A \ {b}, one) = 1
      <4>1. A \ {a} # {} /\ A \ {b} # {}
        BY <3>1
      <4>2. A \ {a} \in Q /\ A \ {b} \in Q
        BY <1>2
      <4> QED
        BY <4>1, <4>2
    <3> DEFINE x == X[a]
               z == X[b]
    <3>3. x \in Field /\ z \in Field /\ x # z
      BY <3>1 DEF Points
    <3>4. AddMod(H, MulMod(x, 1)) = MulMod(x, C) /\ AddMod(H, MulMod(z, 1)) = MulMod(z, C)
      BY <2>4, <3>2, Zenon
    <3> HIDE DEF x, z, C, H
    <3>5. AddMod(H, x) = MulMod(x, C) /\ AddMod(H, z) = MulMod(z, C)
      BY <3>3, <3>4, MulRing
    <3> DEFINE d == SubMod(x, z)
    <3>6. d \in Field /\ d # 0 /\ AddMod(d, z) = x
      BY <3>3, SubRing
    <3> HIDE DEF d
    <3>7. MulMod(x, C) = AddMod(MulMod(d, C), MulMod(z, C))
      BY <2>3, <3>3, <3>6, Distributes
    <3>8. AddMod(H, x) = AddMod(d, AddMod(H, z))
      <4>1. AddMod(H, AddMod(d, z)) = AddMod(AddMod(H, d), z)
        BY <2>3, <3>3, <3>6, AddRing
      <4>2. AddMod(H, d) = AddMod(d, H)
        BY <2>3, <3>6, AddRing
      <4>3. AddMod(AddMod(d, H), z) = AddMod(d, AddMod(H, z))
        BY <2>3, <3>3, <3>6, AddRing
      <4> QED
        BY <3>6, <4>1, <4>2, <4>3
    <3>9. AddMod(MulMod(d, C), MulMod(z, C)) = AddMod(d, MulMod(z, C))
      BY <3>5, <3>7, <3>8
    <3>10. MulMod(d, C) = d
      <4>1. MulMod(d, C) \in Field /\ MulMod(z, C) \in Field
        BY <2>3, <3>3, <3>6, MulRing
      <4> QED
        BY <3>6, <3>9, <4>1, AddCancels
    <3>11. MulMod(d, 1) = d /\ 1 \in Field
      BY <3>6, MulRing, Modulus
    <3>12. C = 1
      BY <2>3, <3>6, <3>10, <3>11, MulCancels
    <3> QED
      BY <3>12 DEF C
  <2> QED
    BY <2>5, <2>6
<1>3. \A A \in SUBSET S : A \in Q
  <2> DEFINE M == {n \in Nat : \A A \in SUBSET S : Cardinality(A) = n => A \in Q}
  <2> HIDE DEF Q
  <2>1. \A A \in SUBSET S : IsFiniteSet(A) /\ Cardinality(A) \in Nat
    BY <1>1, FS_Subset, FS_CardinalityType
  <2>2. 0 \in M
    BY <1>1, <2>1, FS_EmptySet
  <2>3. ASSUME NEW n \in M PROVE n + 1 \in M
    <3>1. n \in Nat /\ \A A \in SUBSET S : Cardinality(A) = n => A \in Q
      BY Zenon
    <3>2. n + 1 \in Nat /\ n + 1 # 0
      BY <3>1
    <3>3. ASSUME NEW A \in SUBSET S, Cardinality(A) = n + 1 PROVE A \in Q
      <4>1. A # {}
        BY <3>2, <3>3, FS_EmptySet
      <4>2. \A a \in A : Cardinality(A \ {a}) = n
        BY <2>1, <3>1, <3>3, FS_RemoveElement
      <4>3. \A a \in A : A \ {a} \in Q
        BY <3>1, <4>2
      <4> QED
        BY <1>2, <4>1, <4>3, Zenon
    <3> QED
      BY <3>2, <3>3
  <2>4. M = Nat
    <3> M \in SUBSET Nat
      OBVIOUS
    <3> HIDE DEF M
    <3> QED
      BY <2>2, <2>3, NatInduct
  <2> QED
    BY <2>1, <2>4
<1> QED
  BY <1>3

\* The coefficient that a polynomial has at zero.
Constant(c, n) == IF n = 0 THEN 0 ELSE c[1]

\* The values of the polynomial c at the points.
At(S, X, c) == [i \in S |-> PolyEval(c, X[i])]

\* The constant of a polynomial is in the field.
LEMMA ConstantType ==
    ASSUME NEW n \in Nat, NEW c \in [1..n -> Field]
    PROVE  Constant(c, n) \in Field
  BY Modulus DEF Constant

\* The values of a polynomial at given points are in the field.
LEMMA AtType ==
    ASSUME NEW S, NEW X \in [S -> Field], NEW n \in Nat, NEW c \in [1..n -> Field]
    PROVE  \A i \in S : At(S, X, c)[i] \in Field /\ At(S, X, c)[i] = PolyEval(c, X[i])
<1> SUFFICES ASSUME NEW i \in S
             PROVE  At(S, X, c)[i] \in Field /\ At(S, X, c)[i] = PolyEval(c, X[i])
  OBVIOUS
<1>1. At(S, X, c)[i] = PolyEval(c, X[i])
  BY Zenon DEF At
<1>2. X[i] \in Field
  OBVIOUS
<1>3. CASE n = 0
  <2>1. c \in [1..0 -> Field]
    BY <1>3
  <2> QED
    BY <1>1, <1>2, <2>1, PolyNone, Modulus
<1>4. CASE n # 0
  <2>1. PICK m \in Nat : m + 1 = n
    <3>1. n - 1 \in Nat /\ (n - 1) + 1 = n
      BY <1>4
    <3> QED
      BY <3>1, Zenon
  <2>2. c \in [1..(m + 1) -> Field]
    BY <2>1, Zenon
  <2> DEFINE q == PolyEval(Rest(c, m), X[i])
  <2>3. PolyEval(c, X[i]) = AddMod(c[1], MulMod(X[i], q)) /\ q \in Field
    BY <1>2, <2>2, PolyHorner
  <2>4. c[1] \in Field
    BY <2>1, <2>2
  <2>5. MulMod(X[i], q) \in Field
    BY <1>2, <2>3, MulRing
  <2> QED
    BY <1>1, <2>3, <2>4, <2>5, AddRing
<1> QED
  BY <1>3, <1>4

\* As many points as coefficients give the value at zero.
LEMMA Interpolates ==
    ASSUME NEW S, NEW X, Points(S, X)
    PROVE  \A n \in Nat : \A A \in SUBSET S : \A c \in [1..n -> Field] :
               n <= Cardinality(A) => Value(S, X, A, At(S, X, c)) = Constant(c, n)
<1> DEFINE Ok(n, A, c) == n <= Cardinality(A) => Value(S, X, A, At(S, X, c)) = Constant(c, n)
           M == {n \in Nat : \A A \in SUBSET S : \A c \in [1..n -> Field] : Ok(n, A, c)}
<1>0. IsFiniteSet(S) /\ X \in [S -> Field]
  BY DEF Points
<1>1. 0 \in M
  <2> SUFFICES ASSUME NEW A \in SUBSET S, NEW c \in [1..0 -> Field]
               PROVE  Value(S, X, A, At(S, X, c)) = Constant(c, 0)
    BY Zenon
  <2>1. IsFiniteSet(A)
    BY <1>0, FS_Subset
  <2>2. ASSUME NEW i \in A PROVE Term(S, X, A, At(S, X, c))[i] = 0
    <3>1. X[i] \in Field /\ At(S, X, c)[i] = PolyEval(c, X[i])
      BY <1>0 DEF At
    <3>2. At(S, X, c)[i] = 0
      BY <3>1, PolyNone
    <3>3. Term(S, X, A, At(S, X, c))[i] = MulMod(0, WeightOf(S, X, A, i))
      BY <3>2, Zenon DEF Term
    <3>4. WeightOf(S, X, A, i) \in Field
      BY WeightDivides
    <3> QED
      BY <3>3, <3>4, MulRing
  <2>3. Value(S, X, A, At(S, X, c)) = 0
    BY <2>1, <2>2, SumOfZeros DEF Value
  <2> QED
    BY <2>3 DEF Constant
<1>2. ASSUME NEW n \in M PROVE n + 1 \in M
  <2>1. n \in Nat /\ \A A \in SUBSET S : \A c \in [1..n -> Field] : Ok(n, A, c)
    BY Zenon
  <2>2. n + 1 \in Nat /\ n + 1 # 0
    BY <2>1
  <2>3. ASSUME NEW A \in SUBSET S, NEW c \in [1..(n + 1) -> Field], n + 1 <= Cardinality(A)
        PROVE  Value(S, X, A, At(S, X, c)) = Constant(c, n + 1)
    <3>1. IsFiniteSet(A) /\ Cardinality(A) \in Nat
      BY <1>0, FS_Subset, FS_CardinalityType
    <3>2. A # {}
      BY <2>1, <2>3, <3>1, FS_EmptySet
    <3>3. PICK a \in A : TRUE
      BY <3>2
    <3>4. n <= Cardinality(A) /\ n <= Cardinality(A \ {a})
      <4>1. Cardinality(A \ {a}) = Cardinality(A) - 1
        BY <3>1, FS_RemoveElement
      <4> QED
        BY <2>1, <2>3, <3>1, <4>1
    <3> DEFINE r == Rest(c, n)
               q == At(S, X, r)
               one == [i \in S |-> 1]
               first == [i \in S |-> MulMod(c[1], one[i])]
               xq == [i \in S |-> MulMod(X[i], q[i])]
               v == Constant(r, n)
    <3>5. r \in [1..n -> Field] /\ c[1] \in Field
      BY <2>1 DEF Rest
    <3>6. Value(S, X, A, q) = v /\ Value(S, X, A \ {a}, q) = v
      <4>1. A \ {a} \in SUBSET S
        OBVIOUS
      <4> QED
        BY <2>1, <3>4, <3>5, <4>1, Zenon
    <3>7. \A i \in S : q[i] \in Field /\ q[i] = PolyEval(r, X[i])
      <4> HIDE DEF r
      <4> QED
        BY <1>0, <2>1, <3>5, AtType
    <3>8. \A i \in S : /\ one[i] = 1 /\ first[i] = MulMod(c[1], one[i])
                       /\ xq[i] = MulMod(X[i], q[i])
      OBVIOUS
    <3>a. Value(S, X, A, one) = 1
      BY <3>2, ValueOfOne
    <3>b. \A i \in S : At(S, X, c)[i] = PolyEval(c, X[i])
      BY Zenon DEF At
    <3>9. v \in Field
      BY <2>1, <3>5, ConstantType
    <3> HIDE DEF r, q, one, first, xq, v
    <3>10. \A i \in A : /\ one[i] \in Field /\ first[i] \in Field /\ xq[i] \in Field /\ X[i] \in Field
                        /\ At(S, X, c)[i] = AddMod(first[i], xq[i])
      <4> SUFFICES ASSUME NEW i \in A
                   PROVE  /\ one[i] \in Field /\ first[i] \in Field /\ xq[i] \in Field /\ X[i] \in Field
                          /\ At(S, X, c)[i] = AddMod(first[i], xq[i])
        OBVIOUS
      <4>1. i \in S /\ X[i] \in Field /\ one[i] = 1 /\ q[i] \in Field
        BY <1>0, <3>7, <3>8
      <4>2. first[i] = c[1]
        BY <3>5, <3>8, <4>1, Modulus, MulRing
      <4>3. xq[i] = MulMod(X[i], q[i]) /\ xq[i] \in Field
        <5>1. xq[i] = MulMod(X[i], q[i])
          BY <3>8, <4>1
        <5>2. MulMod(X[i], q[i]) \in Field
          BY <4>1, MulRing
        <5> QED
          BY <5>1, <5>2
      <4>4. PolyEval(c, X[i]) = AddMod(c[1], MulMod(X[i], PolyEval(r, X[i])))
        BY <2>1, <4>1, PolyHorner DEF r
      <4>5. At(S, X, c)[i] = AddMod(first[i], xq[i])
        BY <3>7, <3>b, <4>1, <4>2, <4>3, <4>4
      <4> QED
        BY <3>5, <4>1, <4>2, <4>3, <4>5, Modulus
    <3>11. Value(S, X, A, At(S, X, c)) = AddMod(Value(S, X, A, first), Value(S, X, A, xq))
      BY <3>10, ValueOfSums
    <3>12. Value(S, X, A, first) = c[1]
      <4>1. \A i \in A : one[i] \in Field /\ first[i] = MulMod(c[1], one[i])
        BY <3>8, <3>10
      <4>2. Value(S, X, A, first) = MulMod(c[1], Value(S, X, A, one))
        BY <3>5, <4>1, ValueOfMultiples
      <4> QED
        BY <3>5, <3>a, <4>2, MulRing
    <3>13. Value(S, X, A, xq) = 0
      <4>1. \A i \in A : q[i] \in Field /\ xq[i] = MulMod(X[i], q[i])
        BY <3>7, <3>8
      <4> DEFINE h == Value(S, X, A, xq)
                 u == MulMod(X[a], v)
      <4>2. AddMod(h, MulMod(X[a], Value(S, X, A \ {a}, q))) = MulMod(X[a], Value(S, X, A, q))
        BY <4>1, ValueWithout
      <4>3. AddMod(h, u) = u
        BY <3>6, <4>2
      <4>4. h \in Field /\ u \in Field /\ 0 \in Field
        BY <3>9, <3>10, ValueType, MulRing, Modulus
      <4> HIDE DEF h, u
      <4>5. AddMod(0, u) = u
        BY <4>4, AddRing
      <4>6. h = 0
        BY <4>3, <4>4, <4>5, AddCancels
      <4> QED
        BY <4>6 DEF h
    <3>14. Value(S, X, A, At(S, X, c)) = c[1]
      BY <3>5, <3>11, <3>12, <3>13, AddRing
    <3> QED
      BY <2>2, <3>14 DEF Constant
  <2> QED
    BY <2>2, <2>3, Zenon
<1>3. M = Nat
  <2> M \in SUBSET Nat
    OBVIOUS
  <2> HIDE DEF M
  <2> QED
    BY <1>1, <1>2, NatInduct
<1> QED
  BY <1>3, Zenon

\* Points of the polynomial of the k coefficients c, at n different X.
Samples(points, n, X, k, c) ==
    /\ n \in Nat \ {0} /\ k \in 1..n /\ X \in [1..n -> Field] /\ c \in [1..k -> Field]
    /\ \A i, j \in 1..n : X[i] = X[j] => i = j
    /\ points = [i \in 1..n |-> <<X[i], PolyEval(c, X[i])>>]

\* Interpolation through at least as many points as coefficients gives the
\* first coefficient.
THEOREM LagrangeFindsConstant ==
    ASSUME NEW points, NEW n, NEW X, NEW k, NEW c, Samples(points, n, X, k, c)
    PROVE  LagrangeAtZero(points) = c[1]
<1>0. /\ n \in Nat \ {0} /\ k \in 1..n /\ X \in [1..n -> Field] /\ c \in [1..k -> Field]
      /\ \A i, j \in 1..n : X[i] = X[j] => i = j
      /\ points = [i \in 1..n |-> <<X[i], PolyEval(c, X[i])>>]
  BY DEF Samples
<1> DEFINE S == 1..n
           y == At(S, X, c)
<1>1. Points(S, X) /\ IsFiniteSet(S)
  <2>1. IsFiniteSet(S)
    BY <1>0, FS_Interval
  <2> QED
    BY <1>0, <2>1 DEF Points
<1>2. n <= Cardinality(S) /\ k <= Cardinality(S) /\ k \in Nat
  <2>1. Cardinality(S) = n
    BY <1>0, FS_Interval
  <2> QED
    BY <1>0, <2>1
<1>3. Value(S, X, S, y) = c[1]
  <2>1. Value(S, X, S, y) = Constant(c, k)
    <3> HIDE DEF S
    <3> QED
      BY <1>0, <1>1, <1>2, Interpolates
  <2> QED
    BY <1>0, <2>1 DEF Constant
<1>4. Len(points) = n /\ 1..Len(points) = S
  BY <1>0
<1>5. \A i \in S : points[i][1] = X[i] /\ points[i][2] = y[i]
  BY <1>0 DEF At
<1> DEFINE Num == [j \in 1..Len(points) |-> SubMod(0, points[j][1])]
           Den(i) == [j \in 1..Len(points) |-> SubMod(points[i][1], points[j][1])]
           Weight(i) == MulMod(FieldProduct(Num, (1..Len(points)) \ {i}),
                               InvMod(FieldProduct(Den(i), (1..Len(points)) \ {i})))
           term == [i \in 1..Len(points) |-> MulMod(points[i][2], Weight(i))]
<1>6. LagrangeAtZero(points) = FieldSum(term, DOMAIN term)
  BY Zenon DEF LagrangeAtZero, FieldSum, FieldProduct, FoldFunction
<1> HIDE DEF S, y
<1>7. Num = FromZero(S, X)
  BY <1>4, <1>5 DEF FromZero
<1>8. ASSUME NEW i \in S PROVE Weight(i) = WeightOf(S, X, S, i)
  <2>1. Den(i) = From(S, X, i)
    BY <1>4, <1>5 DEF From
  <2> HIDE DEF Num, Den
  <2> QED
    BY <1>4, <1>7, <2>1, Zenon DEF WeightOf
<1>9. DOMAIN term = S /\ \A i \in S : term[i] = MulMod(points[i][2], Weight(i))
  <2> HIDE DEF Weight
  <2> QED
    BY <1>4, Zenon
<1> HIDE DEF term, Weight
<1>10. \A i \in S : term[i] = Term(S, X, S, y)[i] /\ Term(S, X, S, y)[i] \in Field
  <2>1. \A i \in S : y[i] \in Field
    <3>1. X \in [S -> Field] /\ k \in Nat
      BY <1>0, <1>1 DEF Points
    <3> QED
      BY <1>0, <3>1, AtType DEF y
  <2>2. \A i \in S : /\ Term(S, X, S, y)[i] = MulMod(y[i], WeightOf(S, X, S, i))
                     /\ Term(S, X, S, y)[i] \in Field
    <3>1. S \in SUBSET S
      OBVIOUS
    <3> QED
      BY <1>1, <2>1, <3>1, ValueType, Zenon
  <2>3. ASSUME NEW i \in S PROVE term[i] = Term(S, X, S, y)[i]
    <3>1. term[i] = MulMod(points[i][2], Weight(i)) /\ points[i][2] = y[i]
      BY <1>5, <1>9
    <3>2. Weight(i) = WeightOf(S, X, S, i)
      BY <1>8, <2>3
    <3>3. Term(S, X, S, y)[i] = MulMod(y[i], WeightOf(S, X, S, i))
      BY <2>2
    <3> QED
      BY <3>1, <3>2, <3>3, Zenon
  <2> QED
    BY <2>2, <2>3
<1>11. FieldSum(term, S) = FieldSum(Term(S, X, S, y), S)
  BY <1>1, <1>10, FieldSumSame
<1> QED
  BY <1>3, <1>6, <1>9, <1>11, Zenon DEF Value

-----------------------------------------------------------------------------
(* Numbers and their bits *)

\* Twice the terms, twice the sum.
LEMMA DoubledSum ==
    ASSUME NEW S, IsFiniteSet(S), NEW f, NEW k, \A x \in S : f[x] \in Nat /\ k[x] = 2 * f[x]
    PROVE  NatSum(k, S) = 2 * NatSum(f, S) /\ NatSum(f, S) \in Nat
<1> DEFINE Q == {A \in SUBSET S : NatSum(k, A) = 2 * NatSum(f, A)}
<1>1. {} \in Q
  <2>1. NatSum(f, {}) = 0 /\ NatSum(k, {}) = 0
    BY NatSumRules, Zenon
  <2>2. NatSum(k, {}) = 2 * NatSum(f, {})
    BY <2>1
  <2> QED
    BY <2>2
<1>2. \A A \in SUBSET S : \A x \in S \ A : A \in Q => A \cup {x} \in Q
  <2> SUFFICES ASSUME NEW A \in SUBSET S, NEW x \in S \ A, NatSum(k, A) = 2 * NatSum(f, A)
               PROVE  NatSum(k, A \cup {x}) = 2 * NatSum(f, A \cup {x})
    OBVIOUS
  <2>1. IsFiniteSet(A) /\ x \notin A /\ f[x] \in Nat /\ k[x] = 2 * f[x]
    BY FS_Subset
  <2>2. \A y \in A \cup {x} : f[y] \in Nat /\ k[y] \in Nat
    OBVIOUS
  <2>3. NatSum(f, A \cup {x}) = f[x] + NatSum(f, A) /\ NatSum(f, A) \in Nat
    BY <2>1, <2>2, NatSumAdds
  <2>4. NatSum(k, A \cup {x}) = k[x] + NatSum(k, A)
    BY <2>1, <2>2, NatSumAdds
  <2> QED
    BY <2>1, <2>3, <2>4
<1>3. S \in Q
  <2> HIDE DEF Q
  <2> QED
    BY <1>1, <1>2, FiniteInduct
<1>4. NatSum(f, S) \in Nat
  BY NatSumRules
<1> QED
  BY <1>3, <1>4

\* What the bits of a number count for.
Places(width, bit) == [pos \in 0..(width - 1) |-> bit[pos] * 2^(width - 1 - pos)]

\* Number is a sum of places.
LEMMA NumberIs ==
    ASSUME NEW width, NEW bit
    PROVE  Number(width, bit) = NatSum(Places(width, bit), 0..(width - 1))
<1> DEFINE f == Places(width, bit)
<1>1. DOMAIN f = 0..(width - 1)
  BY Zenon DEF Places
<1>2. Number(width, bit) = NatSum(f, DOMAIN f)
  BY Zenon DEF Number, SumFunction, SumFunctionOnSet, NatSum, Places
<1> QED
  BY <1>1, <1>2, Zenon

\* A place counts twice as much with one more bit behind it.
LEMMA PlaceOf ==
    ASSUME NEW n \in Nat, NEW bit, \A pos \in 0..(n - 1) : bit[pos] \in {0, 1}
    PROVE  \A pos \in 0..(n - 1) : /\ Places(n, bit)[pos] = bit[pos] * 2^(n - 1 - pos)
                                   /\ Places(n, bit)[pos] \in Nat /\ 2^(n - 1 - pos) \in Nat
                                   /\ Places(n + 1, bit)[pos] = 2 * Places(n, bit)[pos]
<1> SUFFICES ASSUME NEW pos \in 0..(n - 1)
             PROVE  /\ Places(n, bit)[pos] = bit[pos] * 2^(n - 1 - pos)
                    /\ Places(n, bit)[pos] \in Nat /\ 2^(n - 1 - pos) \in Nat
                    /\ Places(n + 1, bit)[pos] = 2 * Places(n, bit)[pos]
  OBVIOUS
<1> DEFINE e == n - 1 - pos
           q == 2^e
<1>1. e \in Nat /\ e + 1 = (n + 1) - 1 - pos /\ pos \in 0..((n + 1) - 1)
  OBVIOUS
<1>2. Places(n, bit)[pos] = bit[pos] * q
  BY Zenon DEF Places
<1>3. Places(n + 1, bit)[pos] = bit[pos] * 2^((n + 1) - 1 - pos)
  BY <1>1, Zenon DEF Places
<1> HIDE DEF e
<1>4. q \in Nat /\ 2^(e + 1) = 2 * q
  BY <1>1, TwoPower, Zenon
<1>5. Places(n + 1, bit)[pos] = bit[pos] * (2 * q)
  BY <1>1, <1>3, <1>4, Zenon
<1> HIDE DEF q
<1>6. bit[pos] = 0 \/ bit[pos] = 1
  OBVIOUS
<1>7. bit[pos] * q \in Nat /\ bit[pos] * (2 * q) = 2 * (bit[pos] * q)
  BY <1>4, <1>6
<1>8. Places(n, bit)[pos] \in Nat /\ Places(n + 1, bit)[pos] = 2 * Places(n, bit)[pos]
  BY <1>2, <1>5, <1>7, Zenon
<1> QED
  BY <1>2, <1>4, <1>8, Zenon DEF q, e

\* The last bit of a number, and the number without it.
LEMMA NumberStep ==
    ASSUME NEW n \in Nat, NEW bit, \A pos \in 0..n : bit[pos] \in {0, 1}
    PROVE  /\ Number(n, bit) \in Nat
           /\ Number(n + 1, bit) = 2 * Number(n, bit) + bit[n]
<1> DEFINE S == 0..(n - 1)
           f == Places(n, bit)
           k == Places(n + 1, bit)
<1>1. IsFiniteSet(S) /\ n \notin S /\ S \cup {n} = 0..((n + 1) - 1)
  <2>1. IsFiniteSet(S)
    BY FS_Interval
  <2>2. n \notin S /\ S \cup {n} = 0..((n + 1) - 1)
    OBVIOUS
  <2> QED
    BY <2>1, <2>2
<1>2. \A pos \in S : f[pos] \in Nat /\ k[pos] = 2 * f[pos]
  BY PlaceOf
<1>3. k[n] = bit[n] /\ k[n] \in Nat
  <2>1. k[n] = bit[n] * 2^((n + 1) - 1 - n)
    <3>1. n \in 0..((n + 1) - 1)
      OBVIOUS
    <3> QED
      BY <3>1, Zenon DEF Places
  <2>2. (n + 1) - 1 - n = 0 /\ 2^0 = 1
    OBVIOUS
  <2>3. bit[n] * 1 = bit[n] /\ bit[n] \in Nat
    OBVIOUS
  <2> QED
    BY <2>1, <2>2, <2>3, Zenon
<1>4. Number(n, bit) = NatSum(f, S) /\ Number(n + 1, bit) = NatSum(k, S \cup {n})
  BY <1>1, NumberIs, Zenon
<1> HIDE DEF S, f, k
<1>5. NatSum(k, S \cup {n}) = k[n] + NatSum(k, S)
  <2>1. \A pos \in S \cup {n} : k[pos] \in Nat
    BY <1>2, <1>3
  <2> QED
    BY <1>1, <2>1, NatSumAdds
<1>6. NatSum(k, S) = 2 * NatSum(f, S) /\ NatSum(f, S) \in Nat
  BY <1>1, <1>2, DoubledSum
<1> QED
  BY <1>3, <1>4, <1>5, <1>6

\* No bits make 0.
LEMMA NumberNone == ASSUME NEW bit PROVE Number(0, bit) = 0
<1>1. 0..(0 - 1) = {}
  OBVIOUS
<1> QED
  BY <1>1, NumberIs, NatSumRules, Zenon

\* Equal bits make equal numbers.
LEMMA NumberSame ==
    ASSUME NEW n \in Nat, NEW a, NEW b, \A pos \in 0..(n - 1) : a[pos] = b[pos]
    PROVE  Number(n, a) = Number(n, b)
<1>1. Places(n, a) = Places(n, b)
  BY Zenon DEF Places
<1> QED
  BY <1>1, NumberIs, Zenon

\* A power of two is not 0.
LEMMA TwoPowerPositive == ASSUME NEW n \in Nat PROVE 2^n \in Nat /\ 2^n # 0
<1> DEFINE M == {k \in Nat : 2^k # 0}
<1>1. 0 \in M
  OBVIOUS
<1>2. ASSUME NEW k \in M PROVE k + 1 \in M
  <2>1. k \in Nat /\ 2^k # 0
    BY Zenon
  <2> DEFINE q == 2^k
  <2>2. q \in Nat /\ 2^(k + 1) = 2 * q /\ q # 0
    BY <2>1, TwoPower, Zenon
  <2> HIDE DEF q
  <2>3. 2 * q # 0 /\ k + 1 \in Nat
    BY <2>1, <2>2
  <2>4. 2^(k + 1) # 0
    BY <2>2, <2>3, Zenon
  <2> QED
    BY <2>3, <2>4, Zenon
<1>3. M = Nat
  <2> M \in SUBSET Nat
    OBVIOUS
  <2> HIDE DEF M
  <2> QED
    BY <1>1, <1>2, NatInduct
<1>4. 2^n # 0
  BY <1>3, Zenon
<1> QED
  BY <1>4, TwoPower, Zenon

\* Halving drops the last bit.
LEMMA HalvedTwice ==
    ASSUME NEW v \in Nat, NEW m \in Nat \ {0}
    PROVE  (v \div 2) \div m = v \div (2 * m)
<1> DEFINE h == v \div 2
           q == h \div m
           r == h % m
           s == v % 2
<1>1. h \in Nat /\ s \in 0..1 /\ v = 2 * h + s
  OBVIOUS
<1> HIDE DEF h, s
<1>2. q \in Int /\ r \in 0..(m - 1) /\ h = q * m + r
  BY <1>1, DivDef
<1> HIDE DEF q, r
<1>3. v = q * (2 * m) + (2 * r + s)
  BY <1>1, <1>2
<1>4. 2 * r + s \in 0..(2 * m - 1) /\ 2 * m \in Nat \ {0}
  BY <1>1, <1>2
<1> DEFINE t == 2 * r + s
           w == 2 * m
<1>5. v = q * w + t /\ t \in 0..(w - 1) /\ w \in Nat \ {0}
  BY <1>3, <1>4
<1> HIDE DEF t, w
<1>6. (q * w + t) \div w = q
  BY <1>2, <1>5, ModUnique
<1>7. v \div w = q
  BY <1>5, <1>6
<1> QED
  BY <1>7, Zenon DEF w, q, h

\* The last bit of v, and the others, which are those of v \div 2.
LEMMA BitHalves ==
    ASSUME NEW v \in Nat, NEW n \in Nat
    PROVE  /\ BitOf(v, n + 1, n) = v % 2
           /\ \A pos \in 0..(n - 1) : BitOf(v, n + 1, pos) = BitOf(v \div 2, n, pos)
           /\ \A pos \in 0..n : BitOf(v, n + 1, pos) \in {0, 1}
<1>1. BitOf(v, n + 1, n) = v % 2
  <2>1. (n + 1) - 1 - n = 0 /\ 2^0 = 1 /\ v \div 1 = v
    OBVIOUS
  <2> QED
    BY <2>1, Zenon DEF BitOf
<1>2. ASSUME NEW pos \in 0..(n - 1)
      PROVE  BitOf(v, n + 1, pos) = BitOf(v \div 2, n, pos) /\ BitOf(v, n + 1, pos) \in {0, 1}
  <2> DEFINE e == n - 1 - pos
             m == 2^e
  <2>1. e \in Nat /\ (n + 1) - 1 - pos = e + 1
    OBVIOUS
  <2>2. BitOf(v \div 2, n, pos) = ((v \div 2) \div m) % 2
    BY Zenon DEF BitOf
  <2>3. BitOf(v, n + 1, pos) = (v \div 2^((n + 1) - 1 - pos)) % 2
    BY Zenon DEF BitOf
  <2> HIDE DEF e
  <2>4. m \in Nat /\ 2^(e + 1) = 2 * m
    BY <2>1, TwoPower, Zenon
  <2>5. m # 0
    BY <2>1, TwoPowerPositive, Zenon DEF m
  <2>6. BitOf(v, n + 1, pos) = (v \div (2 * m)) % 2
    BY <2>1, <2>3, <2>4, Zenon
  <2> HIDE DEF m
  <2>7. (v \div 2) \div m = v \div (2 * m)
    BY <2>4, <2>5, HalvedTwice
  <2>8. BitOf(v, n + 1, pos) = BitOf(v \div 2, n, pos)
    BY <2>2, <2>6, <2>7, Zenon
  <2>9. (v \div (2 * m)) % 2 \in {0, 1}
    <3> DEFINE w == 2 * m
    <3>1. w \in Nat \ {0}
      BY <2>4, <2>5
    <3> HIDE DEF w
    <3>2. v \div w \in Int
      BY <3>1
    <3> QED
      BY <3>2 DEF w
  <2> QED
    BY <2>6, <2>8, <2>9, Zenon
<1>3. v % 2 \in {0, 1}
  OBVIOUS
<1>4. \A pos \in 0..n : pos = n \/ pos \in 0..(n - 1)
  OBVIOUS
<1> QED
  BY <1>1, <1>2, <1>3, <1>4, Zenon

\* Reading back a bit.
LEMMA BitOfNumber ==
    ASSUME NEW n \in Nat, NEW bit, \A pos \in 0..(n - 1) : bit[pos] \in {0, 1}
    PROVE  \A pos \in 0..(n - 1) : BitOf(Number(n, bit), n, pos) = bit[pos]
<1> DEFINE Ok(k) == k <= n => \A pos \in 0..(k - 1) : BitOf(Number(k, bit), k, pos) = bit[pos]
           M == {k \in Nat : Ok(k)}
<1>1. 0 \in M
  <2>1. 0..(0 - 1) = {}
    OBVIOUS
  <2> QED
    BY <2>1, Zenon
<1>2. ASSUME NEW k \in M PROVE k + 1 \in M
  <2>1. k \in Nat /\ Ok(k) /\ k + 1 \in Nat
    <3>1. k \in Nat /\ Ok(k)
      BY Zenon
    <3> QED
      BY <3>1
  <2>2. ASSUME k + 1 <= n, NEW pos \in 0..k PROVE BitOf(Number(k + 1, bit), k + 1, pos) = bit[pos]
    <3> DEFINE v == Number(k + 1, bit)
               u == Number(k, bit)
    <3>1. \A p \in 0..k : bit[p] \in {0, 1}
      BY <2>1, <2>2
    <3>2. u \in Nat /\ v = 2 * u + bit[k] /\ bit[k] \in {0, 1}
      BY <2>1, <3>1, NumberStep
    <3> HIDE DEF v, u
    <3>3. v \in Nat /\ v \div 2 = u /\ v % 2 = bit[k]
      BY <3>2
    <3>4. CASE pos = k
      BY <2>1, <3>3, <3>4, BitHalves, Zenon DEF v
    <3>5. CASE pos # k
      <4>1. pos \in 0..(k - 1) /\ k <= n
        BY <2>1, <2>2, <3>5
      <4>2. BitOf(v, k + 1, pos) = BitOf(v \div 2, k, pos)
        BY <2>1, <3>3, <4>1, BitHalves, Zenon
      <4>3. BitOf(u, k, pos) = bit[pos]
        BY <2>1, <4>1, Zenon DEF u
      <4> QED
        BY <3>3, <4>2, <4>3, Zenon DEF v
    <3> QED
      BY <3>4, <3>5
  <2>3. 0..((k + 1) - 1) = 0..k
    BY <2>1
  <2> QED
    BY <2>1, <2>2, <2>3, Zenon
<1>3. M = Nat
  <2> M \in SUBSET Nat
    OBVIOUS
  <2> HIDE DEF M
  <2> QED
    BY <1>1, <1>2, NatInduct
<1>4. Ok(n) /\ n <= n
  BY <1>3
<1> QED
  BY <1>4, Zenon

\* A number is made of its bits.
LEMMA NumberOfBits ==
    ASSUME NEW n \in Nat, NEW v \in 0..(2^n - 1), NEW bit,
           \A pos \in 0..(n - 1) : bit[pos] = BitOf(v, n, pos)
    PROVE  Number(n, bit) = v
<1> DEFINE Bits(k, u) == [pos \in 0..(k - 1) |-> BitOf(u, k, pos)]
           M == {k \in Nat : \A u \in Nat : u < 2^k => Number(k, Bits(k, u)) = u}
<1>1. 0 \in M
  <2>1. \A u \in Nat : u < 2^0 => Number(0, Bits(0, u)) = u
    <3> SUFFICES ASSUME NEW u \in Nat, u < 2^0 PROVE Number(0, Bits(0, u)) = u
      OBVIOUS
    <3>1. u = 0
      OBVIOUS
    <3> HIDE DEF Bits
    <3> QED
      BY <3>1, NumberNone, Zenon
  <2> QED
    BY <2>1
<1>2. ASSUME NEW k \in M PROVE k + 1 \in M
  <2>1. k \in Nat /\ \A u \in Nat : u < 2^k => Number(k, Bits(k, u)) = u
    BY Zenon
  <2>2. k + 1 \in Nat
    BY <2>1
  <2>3. ASSUME NEW u \in Nat, u < 2^(k + 1) PROVE Number(k + 1, Bits(k + 1, u)) = u
    <3> DEFINE b == Bits(k + 1, u)
               h == u \div 2
               a == Bits(k, h)
               q == 2^k
    <3>1. q \in Nat /\ 2^(k + 1) = 2 * q
      BY <2>1, TwoPower, Zenon
    <3> HIDE DEF q
    <3>2. u < 2 * q
      BY <2>3, <3>1
    <3>3. h \in Nat /\ h < q /\ u = 2 * h + (u % 2)
      BY <3>1, <3>2
    <3>4. (k + 1) - 1 = k
      BY <2>1
    <3>5. \A pos \in 0..k : b[pos] = BitOf(u, k + 1, pos)
      BY <3>4, Zenon
    <3>6. \A pos \in 0..(k - 1) : a[pos] = BitOf(h, k, pos)
      BY Zenon
    <3>7. \A pos \in 0..k : b[pos] \in {0, 1}
      BY <2>1, <3>5, BitHalves, Zenon
    <3>8. \A pos \in 0..(k - 1) : b[pos] = a[pos]
      <4>1. \A pos \in 0..(k - 1) : pos \in 0..k
        BY <2>1
      <4>2. \A pos \in 0..(k - 1) : BitOf(u, k + 1, pos) = BitOf(h, k, pos)
        BY <2>1, BitHalves, Zenon
      <4> QED
        BY <3>5, <3>6, <4>1, <4>2, Zenon
    <3>9. b[k] = u % 2
      <4>1. k \in 0..k
        BY <2>1
      <4>2. BitOf(u, k + 1, k) = u % 2
        BY <2>1, BitHalves, Zenon
      <4> QED
        BY <3>5, <4>1, <4>2, Zenon
    <3>10. Number(k, a) = h
      <4>1. h < 2^k
        BY <3>3 DEF q
      <4> HIDE DEF Bits, h
      <4> QED
        BY <2>1, <3>3, <4>1, Zenon
    <3> HIDE DEF b, a, h
    <3>11. Number(k + 1, b) = 2 * Number(k, b) + b[k]
      BY <2>1, <3>7, NumberStep, Zenon
    <3>12. Number(k, b) = Number(k, a)
      BY <2>1, <3>8, NumberSame, Zenon
    <3>13. Number(k + 1, b) = 2 * h + (u % 2)
      BY <3>9, <3>10, <3>11, <3>12, Zenon
    <3> QED
      BY <3>3, <3>13, Zenon DEF b
  <2> QED
    BY <2>2, <2>3, Zenon
<1>3. M = Nat
  <2> M \in SUBSET Nat
    OBVIOUS
  <2> HIDE DEF M
  <2> QED
    BY <1>1, <1>2, NatInduct
<1>4. v \in Nat /\ v < 2^n
  BY TwoPowerPositive
<1>5. Number(n, Bits(n, v)) = v
  BY <1>3, <1>4, Zenon
<1>6. \A pos \in 0..(n - 1) : bit[pos] = Bits(n, v)[pos]
  BY Zenon
<1> HIDE DEF Bits
<1> QED
  BY <1>5, <1>6, NumberSame, Zenon

\* A bit is 0 or 1.
LEMMA BitType ==
    ASSUME NEW n \in Nat, NEW v \in Nat
    PROVE  \A pos \in 0..(n - 1) : BitOf(v, n, pos) \in {0, 1}
<1> SUFFICES ASSUME NEW pos \in 0..(n - 1) PROVE BitOf(v, n, pos) \in {0, 1}
  OBVIOUS
<1>1. PICK m \in Nat : m + 1 = n /\ pos \in 0..m
  <2>1. n - 1 \in Nat /\ (n - 1) + 1 = n /\ pos \in 0..(n - 1)
    OBVIOUS
  <2> QED
    BY <2>1, Zenon
<1>2. BitOf(v, m + 1, pos) \in {0, 1}
  BY <1>1, BitHalves, Zenon
<1> QED
  BY <1>1, <1>2, Zenon

\* The packed elements fill the bytes, and each fits its width.
LEMMA WidthFits ==
    /\ Width \in Nat \ {0} /\ Bytes \in Nat /\ Bytes * ByteBits = ChunkCount * Width
    /\ ByteBits \in Nat \ {0} /\ ChunkCount \in Nat \ {0}
    /\ Field \subseteq 0..(2^Width - 1)
<1> DEFINE t == ChunkCount * Width
           b == ByteBits
<1>1. b \in Nat \ {0} /\ ChunkCount \in Nat \ {0} /\ ChunkBits \in Nat \ {0}
  BY FieldAssumption
<1>2. Width = ChunkBits + 1 /\ Width \in Nat \ {0} /\ t \in Nat /\ t % b = 0
  BY <1>1, FieldAssumption DEF Width
<1>3. Bytes = t \div b
  BY Zenon DEF Bytes
<1> HIDE DEF t, b
<1>4. Bytes \in Nat /\ t = Bytes * b
  <2>1. t \div b \in Nat /\ t = (t \div b) * b + (t % b)
    BY <1>1, <1>2
  <2> DEFINE d == t \div b
  <2>2. d \in Nat /\ t = d * b + 0
    BY <1>2, <2>1
  <2> HIDE DEF d
  <2>3. t = d * b
    BY <1>1, <2>2
  <2> QED
    BY <1>3, <2>2, <2>3 DEF d
<1>5. Field \subseteq 0..(2^Width - 1)
  <2> DEFINE q == 2^ChunkBits
  <2>1. 2^Width = 2 * q /\ q \in Nat /\ q # 0
    BY <1>1, <1>2, TwoPower, TwoPowerPositive, Zenon
  <2>2. Field = 0..((q + 1) - 1)
    BY Zenon DEF Field, P
  <2> HIDE DEF q
  <2>3. 0..((q + 1) - 1) \subseteq 0..(2 * q - 1)
    BY <2>1
  <2> QED
    BY <2>1, <2>2, <2>3, Zenon
<1> QED
  BY <1>1, <1>2, <1>4, <1>5 DEF t, b

\* Where the bit `at' is, among units of m bits each, n of them.
LEMMA Located ==
    ASSUME NEW m \in Nat \ {0}, NEW n \in Nat, NEW at \in 0..(n * m - 1)
    PROVE  /\ at \div m + 1 \in 1..n /\ at % m \in 0..(m - 1)
           /\ (at \div m) * m + (at % m) = at
<1> DEFINE q == at \div m
           r == at % m
<1>0. n * m \in Nat
  OBVIOUS
<1>1. q \in Nat /\ r \in 0..(m - 1) /\ at = q * m + r /\ at < n * m
  BY <1>0
<1> HIDE DEF q, r
<1>2. ~(q >= n)
  <2> SUFFICES ASSUME q >= n PROVE FALSE
    OBVIOUS
  <2>1. PICK d \in Nat : q = n + d
    <3>1. q - n \in Nat /\ q = n + (q - n)
      BY <1>1
    <3> QED
      BY <3>1
  <2>2. q * m = n * m + d * m /\ d * m \in Nat
    BY <2>1
  <2> QED
    BY <1>0, <1>1, <2>2
<1>3. q + 1 \in 1..n
  BY <1>1, <1>2
<1> QED
  BY <1>1, <1>3 DEF q, r

\* The bit `pos' of unit i, among units of m bits each, n of them.
LEMMA Placed ==
    ASSUME NEW m \in Nat \ {0}, NEW n \in Nat, NEW i \in 1..n, NEW pos \in 0..(m - 1)
    PROVE  /\ (i - 1) * m + pos \in 0..(n * m - 1)
           /\ ((i - 1) * m + pos) \div m + 1 = i /\ ((i - 1) * m + pos) % m = pos
<1> DEFINE q == i - 1
<1>1. q \in Nat /\ q + 1 = i
  OBVIOUS
<1>2. (q * m + pos) % m = pos /\ (q * m + pos) \div m = q
  <2> HIDE DEF q
  <2>1. q \in Int
    BY <1>1
  <2> QED
    BY <2>1, ModUnique, Zenon
<1>3. q * m + pos \in 0..(n * m - 1)
  <2>1. PICK d \in Nat : n = q + 1 + d
    <3>1. n - i \in Nat /\ n = q + 1 + (n - i)
      BY <1>1
    <3> QED
      BY <3>1
  <2> HIDE DEF q
  <2>2. n * m = q * m + m + d * m /\ d * m \in Nat /\ q * m \in Nat
    BY <1>1, <2>1
  <2> QED
    BY <2>2
<1>4. ((i - 1) * m + pos) \div m + 1 = i
  <2>1. ((i - 1) * m + pos) \div m = q
    BY <1>2, Zenon
  <2> QED
    BY <1>1, <2>1, Zenon
<1> QED
  BY <1>2, <1>3, <1>4, Zenon

\* Elements of the field come back from the bytes they were packed into,
\* although they are not cut where the bytes are.
THEOREM PackedComesBack ==
    ASSUME NEW values \in [1..ChunkCount -> Field]
    PROVE  UnpackChunks(PackChunks(values)) = values /\ Len(PackChunks(values)) = Bytes
<1> DEFINE w == Width
           b == ByteBits
           bytes == PackChunks(values)
           Bit(at) == BitOf(values[at \div w + 1], w, at % w)
           bits(k) == [pos \in 0..(b - 1) |-> Bit((k - 1) * b + pos)]
           total == 0..(ChunkCount * w - 1)
<1>1. /\ w \in Nat \ {0} /\ b \in Nat \ {0} /\ Bytes \in Nat /\ ChunkCount \in Nat
      /\ Bytes * b = ChunkCount * w /\ Field \subseteq 0..(2^w - 1)
  BY WidthFits
<1>2. bytes = [k \in 1..Bytes |-> Number(b, bits(k))]
  BY Zenon DEF PackChunks
<1>3. UnpackChunks(bytes) =
          [i \in 1..ChunkCount |->
              Number(w, [pos \in 0..(w - 1) |->
                  BitOf(bytes[((i - 1) * w + pos) \div b + 1], b, ((i - 1) * w + pos) % b)])]
  BY Zenon DEF UnpackChunks
<1> HIDE DEF w, b, bytes
<1>4. \A at \in total : Bit(at) \in {0, 1}
  <2> SUFFICES ASSUME NEW at \in total PROVE Bit(at) \in {0, 1}
    OBVIOUS
  <2> DEFINE k == at \div w + 1
             r == at % w
  <2>1. k \in 1..ChunkCount /\ r \in 0..(w - 1)
    BY <1>1, Located
  <2> HIDE DEF k, r
  <2>2. values[k] \in Nat
    BY <2>1, FieldInt
  <2>3. BitOf(values[k], w, r) \in {0, 1}
    BY <1>1, <2>1, <2>2, BitType
  <2> QED
    BY <2>3, Zenon DEF k, r
<1>5. \A at \in total : BitOf(bytes[at \div b + 1], b, at % b) = Bit(at)
  <2> SUFFICES ASSUME NEW at \in total PROVE BitOf(bytes[at \div b + 1], b, at % b) = Bit(at)
    OBVIOUS
  <2> DEFINE q == at \div b
             k == q + 1
             r == at % b
  <2>0. at \in 0..(Bytes * b - 1)
    BY <1>1, Zenon
  <2>1. k \in 1..Bytes /\ r \in 0..(b - 1) /\ q * b + r = at
    BY <1>1, <2>0, Located, Zenon
  <2>2. bytes[k] = Number(b, bits(k))
    BY <1>2, <2>1, Zenon
  <2>3. \A pos \in 0..(b - 1) : bits(k)[pos] = Bit((k - 1) * b + pos) /\ (k - 1) * b + pos \in total
    <3>1. \A pos \in 0..(b - 1) : (k - 1) * b + pos \in 0..(Bytes * b - 1)
      <4> HIDE DEF k
      <4> QED
        BY <1>1, <2>1, Placed, Zenon
    <3> HIDE DEF Bit
    <3> QED
      BY <1>1, <3>1, Zenon
  <2>4. \A pos \in 0..(b - 1) : bits(k)[pos] \in {0, 1}
    <3> HIDE DEF Bit, total, bits, k
    <3> QED
      BY <1>4, <2>3, Zenon
  <2>5. BitOf(bytes[k], b, r) = bits(k)[r]
    <3> DEFINE f == bits(k)
    <3> HIDE DEF bits, k, r
    <3>1. b \in Nat /\ r \in 0..(b - 1) /\ bytes[k] = Number(b, f) /\ \A pos \in 0..(b - 1) : f[pos] \in {0, 1}
      BY <1>1, <2>1, <2>2, <2>4
    <3> HIDE DEF f
    <3>2. BitOf(Number(b, f), b, r) = f[r]
      BY <3>1, BitOfNumber
    <3> QED
      BY <3>1, <3>2, Zenon DEF f
  <2>6. (k - 1) * b + r = at
    <3>1. k - 1 = q
      <4>1. q \in Int
        BY <1>1, DivDef
      <4> HIDE DEF q
      <4> QED
        BY <4>1
    <3> QED
      BY <2>1, <3>1, Zenon
  <2>7. bits(k)[r] = Bit(at)
    <3> HIDE DEF Bit, bits, k, r
    <3> QED
      BY <2>1, <2>3, <2>6, Zenon
  <2> QED
    BY <2>5, <2>7, Zenon
<1>6. ASSUME NEW i \in 1..ChunkCount PROVE UnpackChunks(bytes)[i] = values[i]
  <2> DEFINE Here(pos) == (i - 1) * w + pos
             got == [pos \in 0..(w - 1) |-> BitOf(bytes[Here(pos) \div b + 1], b, Here(pos) % b)]
  <2>1. UnpackChunks(bytes)[i] = Number(w, got)
    BY <1>3, Zenon
  <2>2. \A pos \in 0..(w - 1) : Here(pos) \in total /\ Here(pos) \div w + 1 = i /\ Here(pos) % w = pos
    <3> SUFFICES ASSUME NEW pos \in 0..(w - 1)
                 PROVE  Here(pos) \in total /\ Here(pos) \div w + 1 = i /\ Here(pos) % w = pos
      BY Zenon
    <3> DEFINE m == w
               n == ChunkCount
    <3>1. m \in Nat \ {0} /\ n \in Nat /\ i \in 1..n /\ pos \in 0..(m - 1)
      BY <1>1
    <3> HIDE DEF m, n
    <3>2. /\ (i - 1) * m + pos \in 0..(n * m - 1)
          /\ ((i - 1) * m + pos) \div m + 1 = i /\ ((i - 1) * m + pos) % m = pos
      BY <3>1, Placed
    <3> QED
      BY <3>2, Zenon DEF m, n
  <2> HIDE DEF Here, total
  <2>3. \A pos \in 0..(w - 1) : got[pos] = Bit(Here(pos))
    <3> HIDE DEF Bit
    <3> QED
      BY <1>5, <2>2, Zenon
  <2>4. \A pos \in 0..(w - 1) : got[pos] = BitOf(values[i], w, pos)
    <3>1. \A pos \in 0..(w - 1) : Bit(Here(pos)) = BitOf(values[i], w, pos)
      BY <2>2, Zenon
    <3> HIDE DEF Bit, got
    <3> QED
      BY <2>3, <3>1, Zenon
  <2> HIDE DEF got
  <2>5. values[i] \in 0..(2^w - 1) /\ w \in Nat
    BY <1>1
  <2> QED
    BY <2>1, <2>4, <2>5, NumberOfBits, Zenon
<1>7. DOMAIN UnpackChunks(bytes) = 1..ChunkCount
  BY <1>3, Zenon
<1>8. UnpackChunks(bytes) = values
  <2>1. UnpackChunks(bytes) = [i \in 1..ChunkCount |-> UnpackChunks(bytes)[i]]
    BY <1>3, Zenon
  <2>2. values = [i \in 1..ChunkCount |-> values[i]]
    OBVIOUS
  <2> QED
    BY <1>6, <2>1, <2>2, Zenon
<1>9. Len(bytes) = Bytes
  <2> DEFINE f == [k \in 1..Bytes |-> Number(b, bits(k))]
  <2>1. bytes = f
    BY <1>2, Zenon
  <2>2. Len(f) = Bytes
    <3> HIDE DEF bits
    <3> QED
      BY <1>1
  <2> QED
    BY <2>1, <2>2, Zenon
<1> QED
  BY <1>8, <1>9, Zenon DEF bytes

-----------------------------------------------------------------------------
(* Sums of polynomials, and their zeros *)

Coefficients(n) == [1..n -> Field]

\* a + w * b, of n coefficients each.
Plus(a, w, b, n) == [i \in 1..n |-> AddMod(a[i], MulMod(w, b[i]))]

\* Another coefficient, which is zero; and the polynomial times x.
Longer(a, n) == [i \in 1..(n + 1) |-> IF i <= n THEN a[i] ELSE 0]
Shifted(a, n) == [i \in 1..(n + 1) |-> IF i = 1 THEN 0 ELSE a[i - 1]]

\* The value of a polynomial is in the field.
LEMMA PolyType ==
    ASSUME NEW n \in Nat, NEW a \in Coefficients(n), NEW x \in Field
    PROVE  PolyEval(a, x) \in Field
<1> DEFINE X == [i \in {1} |-> x]
<1>1. X \in [{1} -> Field] /\ X[1] = x /\ a \in [1..n -> Field]
  BY DEF Coefficients
<1> HIDE DEF X
<1>2. At({1}, X, a)[1] \in Field /\ At({1}, X, a)[1] = PolyEval(a, X[1])
  BY <1>1, AtType
<1> QED
  BY <1>1, <1>2

\* The sum of two polynomials, one of them multiplied, is a polynomial.
LEMMA PlusType ==
    ASSUME NEW n \in Nat, NEW w \in Field, NEW a \in Coefficients(n), NEW b \in Coefficients(n)
    PROVE  /\ Plus(a, w, b, n) \in Coefficients(n)
           /\ \A i \in 1..n : Plus(a, w, b, n)[i] = AddMod(a[i], MulMod(w, b[i]))
<1>1. \A i \in 1..n : AddMod(a[i], MulMod(w, b[i])) \in Field
  <2> SUFFICES ASSUME NEW i \in 1..n PROVE AddMod(a[i], MulMod(w, b[i])) \in Field
    OBVIOUS
  <2>1. a[i] \in Field /\ b[i] \in Field
    BY DEF Coefficients
  <2>2. MulMod(w, b[i]) \in Field
    BY <2>1, MulRing
  <2> QED
    BY <2>1, <2>2, AddRing
<1> QED
  BY <1>1 DEF Plus, Coefficients

\* Two sums, one of them multiplied.
LEMMA SumTimesX ==
    ASSUME NEW a \in Field, NEW b \in Field, NEW w \in Field, NEW x \in Field,
           NEW u \in Field, NEW v \in Field
    PROVE  AddMod(AddMod(a, MulMod(w, b)), MulMod(x, AddMod(u, MulMod(w, v))))
           = AddMod(AddMod(a, MulMod(x, u)), MulMod(w, AddMod(b, MulMod(x, v))))
<1>1. /\ MulMod(w, b) \in Field /\ MulMod(w, v) \in Field /\ MulMod(x, u) \in Field
      /\ MulMod(x, v) \in Field /\ MulMod(x, MulMod(w, v)) \in Field
      /\ MulMod(w, MulMod(x, v)) \in Field
  BY MulRing
<1>2. MulMod(x, AddMod(u, MulMod(w, v))) = AddMod(MulMod(x, u), MulMod(x, MulMod(w, v)))
  BY <1>1, Distributes
<1>3. MulMod(w, AddMod(b, MulMod(x, v))) = AddMod(MulMod(w, b), MulMod(w, MulMod(x, v)))
  BY <1>1, Distributes
<1>4. MulMod(x, MulMod(w, v)) = MulMod(w, MulMod(x, v))
  <2>1. MulMod(x, MulMod(w, v)) = MulMod(MulMod(x, w), v) /\ MulMod(x, w) = MulMod(w, x)
    BY MulRing
  <2>2. MulMod(MulMod(w, x), v) = MulMod(w, MulMod(x, v))
    BY MulRing
  <2> QED
    BY <2>1, <2>2, Zenon
<1>5. AddMod(AddMod(a, MulMod(w, b)), AddMod(MulMod(x, u), MulMod(w, MulMod(x, v))))
      = AddMod(AddMod(a, MulMod(x, u)), AddMod(MulMod(w, b), MulMod(w, MulMod(x, v))))
  BY <1>1, AddFour
<1> QED
  BY <1>2, <1>3, <1>4, <1>5, Zenon

\* The value of the sum is the sum of the values.
LEMMA PolyOfSum ==
    ASSUME NEW w \in Field, NEW x \in Field
    PROVE  \A n \in Nat : \A a, b \in Coefficients(n) :
               PolyEval(Plus(a, w, b, n), x) = AddMod(PolyEval(a, x), MulMod(w, PolyEval(b, x)))
<1> DEFINE Ok(n, a, b) ==
               PolyEval(Plus(a, w, b, n), x) = AddMod(PolyEval(a, x), MulMod(w, PolyEval(b, x)))
           M == {n \in Nat : \A a, b \in Coefficients(n) : Ok(n, a, b)}
<1>1. 0 \in M
  <2> SUFFICES ASSUME NEW a \in Coefficients(0), NEW b \in Coefficients(0) PROVE Ok(0, a, b)
    BY Zenon
  <2>1. \A c \in Coefficients(0) : PolyEval(c, x) = 0
    BY PolyNone DEF Coefficients
  <2>2. Plus(a, w, b, 0) \in Coefficients(0)
    BY PlusType
  <2>3. AddMod(0, MulMod(w, 0)) = 0
    BY Modulus, MulRing, AddRing
  <2> QED
    BY <2>1, <2>2, <2>3
<1>2. ASSUME NEW n \in M PROVE n + 1 \in M
  <2>1. n \in Nat /\ \A a, b \in Coefficients(n) : Ok(n, a, b)
    BY Zenon
  <2>2. n + 1 \in Nat
    BY <2>1
  <2>3. ASSUME NEW a \in Coefficients(n + 1), NEW b \in Coefficients(n + 1) PROVE Ok(n + 1, a, b)
    <3> DEFINE c == Plus(a, w, b, n + 1)
               ra == Rest(a, n)
               rb == Rest(b, n)
    <3>1. /\ c \in Coefficients(n + 1)
          /\ \A i \in 1..(n + 1) : c[i] = AddMod(a[i], MulMod(w, b[i]))
      BY <2>2, <2>3, PlusType
    <3>2. ra \in Coefficients(n) /\ rb \in Coefficients(n)
      BY <2>1 DEF Rest, Coefficients
    <3>3. Rest(c, n) = Plus(ra, w, rb, n)
      <4> HIDE DEF c
      <4> QED
        BY <2>1, <3>1 DEF Rest, Plus
    <3>4. /\ a[1] \in Field /\ b[1] \in Field /\ c[1] = AddMod(a[1], MulMod(w, b[1]))
          /\ a \in [1..(n + 1) -> Field] /\ b \in [1..(n + 1) -> Field] /\ c \in [1..(n + 1) -> Field]
      BY <2>1, <3>1 DEF Coefficients
    <3> HIDE DEF c, ra, rb
    <3>5. /\ PolyEval(c, x) = AddMod(c[1], MulMod(x, PolyEval(Rest(c, n), x)))
          /\ PolyEval(a, x) = AddMod(a[1], MulMod(x, PolyEval(ra, x)))
          /\ PolyEval(b, x) = AddMod(b[1], MulMod(x, PolyEval(rb, x)))
          /\ PolyEval(ra, x) \in Field /\ PolyEval(rb, x) \in Field
      BY <2>1, <3>4, PolyHorner DEF ra, rb
    <3>6. PolyEval(Plus(ra, w, rb, n), x)
            = AddMod(PolyEval(ra, x), MulMod(w, PolyEval(rb, x)))
      BY <2>1, <3>2, Zenon
    <3>7. PolyEval(c, x) = AddMod(AddMod(a[1], MulMod(w, b[1])),
                                  MulMod(x, AddMod(PolyEval(ra, x), MulMod(w, PolyEval(rb, x)))))
      BY <3>3, <3>4, <3>5, <3>6, Zenon
    <3>8. PolyEval(c, x) = AddMod(PolyEval(a, x), MulMod(w, PolyEval(b, x)))
      <4> DEFINE a1 == a[1]
                 b1 == b[1]
                 u == PolyEval(ra, x)
                 v == PolyEval(rb, x)
      <4>1. a1 \in Field /\ b1 \in Field /\ u \in Field /\ v \in Field
        BY <3>4, <3>5
      <4> HIDE DEF a1, b1, u, v
      <4>2. AddMod(AddMod(a1, MulMod(w, b1)), MulMod(x, AddMod(u, MulMod(w, v))))
            = AddMod(AddMod(a1, MulMod(x, u)), MulMod(w, AddMod(b1, MulMod(x, v))))
        BY <4>1, SumTimesX
      <4> QED
        BY <3>5, <3>7, <4>2, Zenon DEF a1, b1, u, v
    <3> QED
      BY <3>8, Zenon DEF c
  <2> QED
    BY <2>2, <2>3, Zenon
<1>3. M = Nat
  <2> M \in SUBSET Nat
    OBVIOUS
  <2> HIDE DEF M
  <2> QED
    BY <1>1, <1>2, NatInduct
<1> QED
  BY <1>3, Zenon

\* A leading coefficient 0 changes no value.
LEMMA PolyOfLonger ==
    ASSUME NEW x \in Field
    PROVE  \A n \in Nat : \A a \in Coefficients(n) :
               /\ Longer(a, n) \in Coefficients(n + 1)
               /\ PolyEval(Longer(a, n), x) = PolyEval(a, x)
<1> DEFINE Ok(n, a) == PolyEval(Longer(a, n), x) = PolyEval(a, x)
           M == {n \in Nat : \A a \in Coefficients(n) : Ok(n, a)}
<1>0. \A n \in Nat : \A a \in Coefficients(n) : Longer(a, n) \in Coefficients(n + 1)
  BY Modulus DEF Coefficients, Longer
<1>1. 0 \in M
  <2> SUFFICES ASSUME NEW a \in Coefficients(0) PROVE Ok(0, a)
    BY Zenon
  <2> DEFINE c == Longer(a, 0)
  <2>1. c \in [1..(0 + 1) -> Field] /\ c[1] = 0 /\ Rest(c, 0) \in [1..0 -> Field]
    BY Modulus DEF Longer, Rest, Coefficients
  <2> HIDE DEF c
  <2>2. PolyEval(c, x) = AddMod(0, MulMod(x, PolyEval(Rest(c, 0), x)))
    <3>1. PolyEval(c, x) = AddMod(c[1], MulMod(x, PolyEval(Rest(c, 0), x)))
      BY <2>1, PolyHorner, Zenon
    <3> QED
      BY <2>1, <3>1
  <2>3. PolyEval(Rest(c, 0), x) = 0 /\ PolyEval(a, x) = 0
    BY <2>1, PolyNone DEF Coefficients
  <2>4. AddMod(0, MulMod(x, 0)) = 0
    BY Modulus, MulRing, AddRing
  <2> QED
    BY <2>2, <2>3, <2>4 DEF c
<1>2. ASSUME NEW n \in M PROVE n + 1 \in M
  <2>1. n \in Nat /\ \A a \in Coefficients(n) : Ok(n, a)
    BY Zenon
  <2>2. n + 1 \in Nat
    BY <2>1
  <2>3. ASSUME NEW a \in Coefficients(n + 1) PROVE Ok(n + 1, a)
    <3> DEFINE c == Longer(a, n + 1)
               r == Rest(a, n)
    <3>1. c \in Coefficients((n + 1) + 1) /\ r \in Coefficients(n)
      BY <1>0, <2>1, <2>2 DEF Rest, Coefficients
    <3>2. Rest(c, n + 1) = Longer(r, n) /\ c[1] = a[1]
      BY <2>1 DEF Rest, Longer, Coefficients
    <3>3. a \in [1..(n + 1) -> Field] /\ c \in [1..((n + 1) + 1) -> Field]
      BY <3>1 DEF Coefficients
    <3> HIDE DEF c, r
    <3>4. PolyEval(c, x) = AddMod(c[1], MulMod(x, PolyEval(Rest(c, n + 1), x)))
      BY <2>2, <3>3, PolyHorner
    <3>5. PolyEval(a, x) = AddMod(a[1], MulMod(x, PolyEval(r, x)))
      BY <2>1, <3>3, PolyHorner DEF r
    <3>6. PolyEval(Longer(r, n), x) = PolyEval(r, x)
      BY <2>1, <3>1, Zenon
    <3> QED
      BY <3>2, <3>4, <3>5, <3>6, Zenon DEF c
  <2> QED
    BY <2>2, <2>3, Zenon
<1>3. M = Nat
  <2> M \in SUBSET Nat
    OBVIOUS
  <2> HIDE DEF M
  <2> QED
    BY <1>1, <1>2, NatInduct
<1>4. \A n \in Nat : \A a \in Coefficients(n) : Ok(n, a)
  BY <1>3, Zenon
<1> QED
  BY <1>0, <1>4, Zenon

\* All coefficients moved up by one: the values are multiplied by x.
LEMMA PolyOfShifted ==
    ASSUME NEW x \in Field, NEW n \in Nat, NEW a \in Coefficients(n)
    PROVE  /\ Shifted(a, n) \in Coefficients(n + 1)
           /\ PolyEval(Shifted(a, n), x) = MulMod(x, PolyEval(a, x))
<1> DEFINE c == Shifted(a, n)
<1>1. c \in [1..(n + 1) -> Field] /\ c[1] = 0 /\ Rest(c, n) = a
  BY Modulus DEF Shifted, Rest, Coefficients
<1> HIDE DEF c
<1>2. PolyEval(c, x) = AddMod(c[1], MulMod(x, PolyEval(Rest(c, n), x)))
  BY <1>1, PolyHorner
<1>3. PolyEval(a, x) \in Field
  BY PolyType
<1>4. MulMod(x, PolyEval(a, x)) \in Field
  BY <1>3, MulRing
<1>5. AddMod(0, MulMod(x, PolyEval(a, x))) = MulMod(x, PolyEval(a, x))
  BY <1>4, AddRing
<1>6. PolyEval(c, x) = MulMod(x, PolyEval(a, x))
  BY <1>1, <1>2, <1>5, Zenon
<1> QED
  BY <1>1, <1>6 DEF c, Coefficients

\* A polynomial with any value at zero that vanishes at as many other points
\* as it has further coefficients: the product of the 1 - x / X[i].
LEMMA Vanishing ==
    ASSUME NEW S, IsFiniteSet(S), NEW X \in [S -> Field], \A i \in S : X[i] # 0,
           NEW v \in Field
    PROVE  \A A \in SUBSET S : \E p \in Coefficients(Cardinality(A) + 1) :
               p[1] = v /\ \A i \in A : PolyEval(p, X[i]) = 0
<1> DEFINE Ok(A) == \E p \in Coefficients(Cardinality(A) + 1) :
                        p[1] = v /\ \A i \in A : PolyEval(p, X[i]) = 0
           Q == {A \in SUBSET S : Ok(A)}
<1>1. {} \in Q
  <2>1. Cardinality({}) + 1 = 1
    BY FS_EmptySet
  <2> DEFINE p == [i \in 1..1 |-> v]
  <2>2. p \in Coefficients(1) /\ p[1] = v
    BY DEF Coefficients
  <2> HIDE DEF p
  <2>3. p \in Coefficients(Cardinality({}) + 1) /\ \A i \in {} : PolyEval(p, X[i]) = 0
    BY <2>1, <2>2
  <2> QED
    BY <2>2, <2>3
<1>2. ASSUME NEW A \in SUBSET S, NEW g \in S \ A, Ok(A) PROVE Ok(A \cup {g})
  <2> DEFINE n == Cardinality(A) + 1
  <2>1. n \in Nat /\ Cardinality(A \cup {g}) + 1 = n + 1
    <3>1. IsFiniteSet(A)
      BY FS_Subset
    <3>2. Cardinality(A) \in Nat
      BY <3>1, FS_CardinalityType
    <3>3. Cardinality(A \cup {g}) = Cardinality(A) + 1
      BY <3>1, FS_AddElement
    <3> QED
      BY <3>2, <3>3
  <2> HIDE DEF n
  <2>2. PICK p \in Coefficients(n) : p[1] = v /\ \A i \in A : PolyEval(p, X[i]) = 0
    BY <1>2, Zenon DEF n
  <2>3. n # 0
    <3>1. IsFiniteSet(A)
      BY FS_Subset
    <3>2. Cardinality(A) \in Nat
      BY <3>1, FS_CardinalityType
    <3> QED
      BY <3>2 DEF n
  <2> DEFINE w == SubMod(0, InvMod(X[g]))
             long == Longer(p, n)
             shift == Shifted(p, n)
             q == Plus(long, w, shift, n + 1)
  <2>4. InvMod(X[g]) \in Field /\ MulMod(X[g], InvMod(X[g])) = 1
    BY InvModInverts
  <2>5. w \in Field /\ AddMod(w, InvMod(X[g])) = 0
    BY <2>4, Modulus, Negative
  <2>6. MulMod(X[g], w) \in Field /\ AddMod(MulMod(X[g], w), 1) = 0
    <3> HIDE DEF w
    <3>1. MulMod(X[g], AddMod(w, InvMod(X[g])))
            = AddMod(MulMod(X[g], w), MulMod(X[g], InvMod(X[g])))
      BY <2>4, <2>5, Distributes
    <3>2. MulMod(X[g], 0) = 0 /\ MulMod(X[g], w) \in Field
      BY <2>5, Modulus, MulRing
    <3> QED
      BY <2>4, <2>5, <3>1, <3>2
  <2>7. long \in Coefficients(n + 1) /\ shift \in Coefficients(n + 1) /\ n + 1 \in Nat
    <3>0. 0 \in Field
      BY Modulus
    <3>1. long \in Coefficients(n + 1)
      BY <2>1, <2>2, <3>0, PolyOfLonger
    <3>2. shift \in Coefficients(n + 1)
      BY <2>1, <2>2, <3>0, PolyOfShifted
    <3> QED
      BY <2>1, <3>1, <3>2
  <2>8. q \in Coefficients(n + 1) /\ q[1] = AddMod(long[1], MulMod(w, shift[1]))
    <3>1. 1 \in 1..(n + 1)
      BY <2>1
    <3> HIDE DEF w, long, shift
    <3> QED
      BY <2>5, <2>7, <3>1, PlusType
  <2>9. long[1] = v /\ shift[1] = 0
    BY <2>1, <2>2, <2>3 DEF Longer, Shifted
  <2>10. q[1] = v
    <3> HIDE DEF q, w, long, shift
    <3>1. MulMod(w, 0) = 0 /\ AddMod(v, 0) = v
      BY <2>5, Modulus, MulRing, AddRing
    <3> QED
      BY <2>8, <2>9, <3>1
  <2>11. ASSUME NEW i \in S
         PROVE  PolyEval(q, X[i])
                  = AddMod(PolyEval(p, X[i]), MulMod(w, MulMod(X[i], PolyEval(p, X[i]))))
    <3>1. X[i] \in Field
      OBVIOUS
    <3>2. PolyEval(long, X[i]) = PolyEval(p, X[i])
      BY <2>1, <2>2, <3>1, PolyOfLonger
    <3>3. PolyEval(shift, X[i]) = MulMod(X[i], PolyEval(p, X[i]))
      BY <2>1, <2>2, <3>1, PolyOfShifted
    <3> HIDE DEF w, long, shift
    <3>4. PolyEval(q, X[i]) = AddMod(PolyEval(long, X[i]), MulMod(w, PolyEval(shift, X[i])))
      BY <2>5, <2>7, <3>1, PolyOfSum
    <3> QED
      BY <3>2, <3>3, <3>4, Zenon
  <2> HIDE DEF q, w
  <2>12. ASSUME NEW i \in A PROVE PolyEval(q, X[i]) = 0
    <3>1. PolyEval(p, X[i]) = 0 /\ X[i] \in Field /\ i \in S
      BY <2>2
    <3>2. MulMod(X[i], 0) = 0 /\ MulMod(w, 0) = 0 /\ AddMod(0, 0) = 0
      BY <2>5, <3>1, Modulus, MulRing, AddRing
    <3> QED
      BY <2>11, <3>1, <3>2
  <2>13. PolyEval(q, X[g]) = 0
    <3> DEFINE y == PolyEval(p, X[g])
               x == X[g]
    <3>1. y \in Field /\ x \in Field /\ 1 \in Field
      BY <2>1, <2>2, Modulus, PolyType
    <3>2. PolyEval(q, X[g]) = AddMod(y, MulMod(w, MulMod(x, y)))
      BY <2>11
    <3> HIDE DEF y, x
    <3>3. MulMod(w, MulMod(x, y)) = MulMod(MulMod(x, w), y)
      <4>1. MulMod(w, MulMod(x, y)) = MulMod(MulMod(w, x), y) /\ MulMod(w, x) = MulMod(x, w)
        BY <2>5, <3>1, MulRing
      <4> QED
        BY <4>1, Zenon
    <3>4. MulMod(AddMod(MulMod(x, w), 1), y) = AddMod(MulMod(MulMod(x, w), y), MulMod(1, y))
      <4>1. MulMod(x, w) \in Field
        BY <2>6 DEF x
      <4> QED
        BY <3>1, <4>1, Distributes
    <3>5. MulMod(0, y) = 0 /\ MulMod(1, y) = y
      BY <3>1, MulRing
    <3>6. AddMod(MulMod(MulMod(x, w), y), y) = 0
      BY <2>6, <3>4, <3>5 DEF x
    <3>7. AddMod(y, MulMod(MulMod(x, w), y)) = AddMod(MulMod(MulMod(x, w), y), y)
      <4>1. MulMod(x, w) \in Field
        BY <2>6 DEF x
      <4>2. MulMod(MulMod(x, w), y) \in Field
        BY <3>1, <4>1, MulRing
      <4> QED
        BY <3>1, <4>2, AddRing
    <3> QED
      BY <3>2, <3>3, <3>6, <3>7
  <2>14. \A i \in A \cup {g} : PolyEval(q, X[i]) = 0
    BY <2>12, <2>13
  <2> QED
    BY <2>1, <2>8, <2>10, <2>14, Zenon
<1>3. \A A \in SUBSET S : A \in Q
  <2>1. \A A \in SUBSET S : \A x \in S \ A : A \in Q => A \cup {x} \in Q
    <3> SUFFICES ASSUME NEW A \in SUBSET S, NEW x \in S \ A, A \in Q PROVE A \cup {x} \in Q
      OBVIOUS
    <3>1. Ok(A)
      BY Zenon
    <3> HIDE DEF Ok
    <3>2. Ok(A \cup {x})
      BY <1>2, <3>1
    <3> QED
      BY <3>2
  <2> HIDE DEF Q
  <2> QED
    BY <1>1, <2>1, FiniteInduct
<1> QED
  BY <1>3, Zenon

-----------------------------------------------------------------------------
(* How many polynomials give some values *)

\* Equal pairs have equal parts.
LEMMA SamePairs ==
    ASSUME NEW x, NEW y, NEW u, NEW w, <<x, y>> = <<u, w>>
    PROVE  x = u /\ y = w
  OBVIOUS

\* There are finitely many polynomials of n coefficients.
LEMMA FinitelyMany == \A n \in Nat : IsFiniteSet(Coefficients(n))
<1> DEFINE M == {n \in Nat : IsFiniteSet(Coefficients(n))}
<1>1. 0 \in M
  <2>1. Coefficients(0) \subseteq {<<>>}
    BY DEF Coefficients
  <2>2. IsFiniteSet({<<>>})
    BY FS_Singleton
  <2>3. IsFiniteSet(Coefficients(0))
    BY <2>1, <2>2, FS_Subset
  <2> QED
    BY <2>3
<1>2. ASSUME NEW n \in M PROVE n + 1 \in M
  <2>1. n \in Nat /\ IsFiniteSet(Coefficients(n))
    OBVIOUS
  <2>2. IsFiniteSet(Field)
    BY Modulus, FS_Interval DEF Field
  <2> DEFINE C == Coefficients(n)
             D == Coefficients(n + 1)
             f == [a \in D |-> <<[i \in 1..n |-> a[i]], a[n + 1]>>]
  <2>3. f \in [D -> C \X Field]
    BY <2>1 DEF Coefficients
  <2>4. ASSUME NEW a \in D, NEW b \in D, f[a] = f[b] PROVE a = b
    <3> DEFINE a1 == [i \in 1..n |-> a[i]]
               b1 == [i \in 1..n |-> b[i]]
    <3>1. f[a] = <<a1, a[n + 1]>> /\ f[b] = <<b1, b[n + 1]>>
      OBVIOUS
    <3>2. a1 = b1 /\ a[n + 1] = b[n + 1]
      <4> HIDE DEF a1, b1, f
      <4>1. <<a1, a[n + 1]>> = <<b1, b[n + 1]>>
        BY <2>4, <3>1, Zenon
      <4> QED
        BY <4>1, SamePairs, Zenon
    <3>3. \A i \in 1..n : a[i] = b[i]
      <4>1. \A i \in 1..n : a1[i] = a[i] /\ b1[i] = b[i]
        OBVIOUS
      <4> HIDE DEF a1, b1
      <4> QED
        BY <3>2, <4>1
    <3>4. \A i \in 1..(n + 1) : a[i] = b[i]
      BY <2>1, <3>2, <3>3
    <3>5. a \in [1..(n + 1) -> Field] /\ b \in [1..(n + 1) -> Field]
      BY DEF Coefficients
    <3> QED
      BY <3>4, <3>5
  <2> HIDE DEF f, C, D
  <2>5. f \in Injection(D, C \X Field)
    BY <2>3, <2>4 DEF Injection, IsInjective
  <2>6. IsFiniteSet(C \X Field)
    BY <2>1, <2>2, FS_Product DEF C
  <2>7. IsFiniteSet(D)
    BY <2>5, <2>6, FS_Injection
  <2>8. n + 1 \in Nat
    BY <2>1
  <2> QED
    BY <2>7, <2>8 DEF D
<1>3. M = Nat
  <2> M \in SUBSET Nat
    OBVIOUS
  <2> HIDE DEF M
  <2> QED
    BY <1>1, <1>2, NatInduct
<1> QED
  BY <1>3

\* Polynomials with equal coefficients are equal.
LEMMA SameCoefficients ==
    ASSUME NEW n, NEW a \in Coefficients(n), NEW b \in Coefficients(n), \A i \in 1..n : a[i] = b[i]
    PROVE  a = b
<1>1. a = [i \in 1..n |-> a[i]] /\ b = [i \in 1..n |-> b[i]]
  BY DEF Coefficients
<1> QED
  BY <1>1, Zenon

\* A constant put in front of other coefficients.
LEMMA InFront ==
    ASSUME NEW n \in Nat, NEW v \in Field, NEW a \in Coefficients(n)
    PROVE  /\ <<v>> \o a \in Coefficients(n + 1)
           /\ (<<v>> \o a)[1] = v
           /\ \A i \in 1..n : (<<v>> \o a)[i + 1] = a[i]
<1>1. a \in Seq(Field) /\ Len(a) = n /\ <<v>> \in Seq(Field) /\ Len(<<v>>) = 1 /\ <<v>>[1] = v
  BY DEF Coefficients
<1> DEFINE q == <<v>> \o a
<1>2. q \in Seq(Field) /\ Len(q) = n + 1 /\ q[1] = v /\ \A i \in 1..n : q[i + 1] = a[i]
  BY <1>1
<1> HIDE DEF q
<1>3. q \in Coefficients(n + 1)
  BY <1>2 DEF Coefficients
<1> QED
  BY <1>2, <1>3 DEF q

\* The polynomials of the constant v that have the values y at the points X.
WaysOf(S, X, m, y, v) ==
    {a \in Coefficients(m) : \A g \in S : PolyEval(<<v>> \o a, X[g]) = y[g]}

\* m points that are not zero, for polynomials with m coefficients beside the
\* constant.
Outside(S, X, m) ==
    /\ IsFiniteSet(S) /\ m \in Nat /\ Cardinality(S) = m
    /\ X \in [S -> Field] /\ \A i \in S : X[i] # 0

\* A constant u has no fewer polynomials through the points than v has.
LEMMA NoFewerWays ==
    ASSUME NEW S, NEW X, NEW m, Outside(S, X, m), NEW y, NEW u \in Field, NEW v \in Field
    PROVE  /\ IsFiniteSet(WaysOf(S, X, m, y, u))
           /\ Cardinality(WaysOf(S, X, m, y, v)) <= Cardinality(WaysOf(S, X, m, y, u))
<1> DEFINE V == WaysOf(S, X, m, y, v)
           U == WaysOf(S, X, m, y, u)
           d == SubMod(u, v)
<1>0. /\ IsFiniteSet(S) /\ m \in Nat /\ m + 1 \in Nat /\ Cardinality(S) = m
      /\ X \in [S -> Field] /\ \A i \in S : X[i] # 0
  BY DEF Outside
<1>1. d \in Field /\ AddMod(d, v) = u /\ AddMod(v, d) = u
  <2>1. d \in Field /\ AddMod(d, v) = u
    BY SubRing
  <2> HIDE DEF d
  <2> QED
    BY <2>1, AddRing
<1> HIDE DEF d
<1>2. PICK p \in Coefficients(m + 1) : p[1] = d /\ \A i \in S : PolyEval(p, X[i]) = 0
  <2>1. S \in SUBSET S
    OBVIOUS
  <2>2. \E p \in Coefficients(Cardinality(S) + 1) :
            p[1] = d /\ \A i \in S : PolyEval(p, X[i]) = 0
    BY <1>0, <1>1, <2>1, Vanishing
  <2> QED
    BY <1>0, <2>2, Zenon
<1> DEFINE r == Rest(p, m)
           f == [a \in V |-> Plus(a, 1, r, m)]
<1>3. r \in Coefficients(m) /\ (\A i \in 1..m : r[i] = p[i + 1]) /\ 1 \in Field
  BY <1>0, Modulus DEF Rest, Coefficients
<1> HIDE DEF r
<1>4. ASSUME NEW a \in V
      PROVE  /\ f[a] = Plus(a, 1, r, m) /\ f[a] \in Coefficients(m) /\ a \in Coefficients(m)
             /\ \A i \in 1..m : f[a][i] = AddMod(a[i], r[i]) /\ a[i] \in Field /\ r[i] \in Field
  <2>1. f[a] = Plus(a, 1, r, m) /\ a \in Coefficients(m)
    BY DEF WaysOf
  <2>2. /\ Plus(a, 1, r, m) \in Coefficients(m)
        /\ \A i \in 1..m : Plus(a, 1, r, m)[i] = AddMod(a[i], MulMod(1, r[i]))
    BY <1>0, <1>3, <2>1, PlusType
  <2>3. \A i \in 1..m : a[i] \in Field /\ r[i] \in Field
    BY <1>3, <2>1 DEF Coefficients
  <2>4. \A i \in 1..m : MulMod(1, r[i]) = r[i]
    BY <1>3, <2>3, MulRing
  <2> HIDE DEF f
  <2> QED
    BY <2>1, <2>2, <2>3, <2>4
<1>5. ASSUME NEW a \in V PROVE f[a] \in U
  <2> DEFINE qa == <<v>> \o a
             qb == <<u>> \o f[a]
  <2>1. /\ qa \in Coefficients(m + 1) /\ qa[1] = v /\ \A i \in 1..m : qa[i + 1] = a[i]
    <3>1. a \in Coefficients(m)
      BY <1>4
    <3> HIDE DEF V
    <3> QED
      BY <1>0, <3>1, InFront, Zenon
  <2>2. /\ qb \in Coefficients(m + 1) /\ qb[1] = u /\ \A i \in 1..m : qb[i + 1] = f[a][i]
    <3> DEFINE b == f[a]
    <3> HIDE DEF f
    <3>1. b \in Coefficients(m)
      BY <1>4
    <3> HIDE DEF b, V
    <3>2. /\ <<u>> \o b \in Coefficients(m + 1) /\ (<<u>> \o b)[1] = u
          /\ \A i \in 1..m : (<<u>> \o b)[i + 1] = b[i]
      BY <1>0, <3>1, InFront, Zenon
    <3> QED
      BY <3>2, Zenon DEF b
  <2> DEFINE qs == Plus(qa, 1, p, m + 1)
  <2>a. \A g \in S : PolyEval(qa, X[g]) = y[g]
    BY DEF WaysOf
  <2> HIDE DEF f, qa, qb
  <2>3. /\ qs \in Coefficients(m + 1)
        /\ \A i \in 1..(m + 1) : qs[i] = AddMod(qa[i], MulMod(1, p[i]))
    BY <1>0, <1>2, <1>3, <2>1, PlusType
  <2> HIDE DEF qs
  <2>4. \A i \in 1..(m + 1) : qs[i] = AddMod(qa[i], p[i])
    <3>1. \A i \in 1..(m + 1) : p[i] \in Field
      BY <1>2 DEF Coefficients
    <3>2. \A i \in 1..(m + 1) : MulMod(1, p[i]) = p[i]
      BY <1>3, <3>1, MulRing
    <3> QED
      BY <2>3, <3>2
  <2>5. \A i \in 1..(m + 1) : qs[i] = qb[i]
    <3> SUFFICES ASSUME NEW i \in 1..(m + 1) PROVE qs[i] = qb[i]
      OBVIOUS
    <3>1. CASE i = 1
      BY <1>1, <1>2, <2>1, <2>2, <2>4, <3>1
    <3>2. CASE i # 1
      <4>1. PICK k \in 1..m : k + 1 = i
        <5>1. i - 1 \in 1..m /\ (i - 1) + 1 = i
          BY <1>0, <3>2
        <5> QED
          BY <5>1
      <4>2. qs[i] = AddMod(qa[k + 1], p[k + 1]) /\ qb[i] = f[a][k]
        BY <2>2, <2>4, <4>1
      <4>3. qa[k + 1] = a[k] /\ p[k + 1] = r[k] /\ f[a][k] = AddMod(a[k], r[k])
        BY <1>3, <1>4, <2>1, <4>1
      <4> QED
        BY <4>2, <4>3
    <3> QED
      BY <3>1, <3>2
  <2>6. qs = qb
    BY <2>2, <2>3, <2>5, SameCoefficients, Zenon
  <2>7. ASSUME NEW g \in S PROVE PolyEval(qb, X[g]) = y[g]
    <3>1. X[g] \in Field /\ PolyEval(p, X[g]) = 0
      BY <1>0, <1>2
    <3>2. PolyEval(qs, X[g]) = AddMod(PolyEval(qa, X[g]), MulMod(1, PolyEval(p, X[g])))
      BY <1>0, <1>2, <1>3, <2>1, <3>1, PolyOfSum DEF qs
    <3>3. PolyEval(qa, X[g]) = y[g] /\ PolyEval(qa, X[g]) \in Field
      <4>1. PolyEval(qa, X[g]) \in Field
        BY <1>0, <2>1, <3>1, PolyType
      <4> QED
        BY <2>a, <4>1
    <3>4. MulMod(1, 0) = 0 /\ AddMod(y[g], 0) = y[g]
      BY <1>3, <3>3, MulRing, AddRing
    <3> QED
      BY <2>6, <3>1, <3>2, <3>3, <3>4
  <2> QED
    BY <1>4, <2>7 DEF WaysOf, qb
<1>6. ASSUME NEW a \in V, NEW b \in V, f[a] = f[b] PROVE a = b
  <2> HIDE DEF f
  <2>1. ASSUME NEW i \in 1..m PROVE a[i] = b[i]
    <3>1. a[i] \in Field /\ b[i] \in Field /\ r[i] \in Field /\ AddMod(a[i], r[i]) = AddMod(b[i], r[i])
      BY <1>4, <1>6
    <3> QED
      BY <3>1, AddCancels
  <2>2. a \in Coefficients(m) /\ b \in Coefficients(m)
    BY <1>4
  <2> QED
    BY <2>1, <2>2, SameCoefficients, Zenon
<1>7. DOMAIN f = V /\ f = [a \in V |-> f[a]]
  OBVIOUS
<1>8. IsFiniteSet(U)
  <2>1. U \in SUBSET Coefficients(m) /\ IsFiniteSet(Coefficients(m))
    BY <1>0, FinitelyMany DEF WaysOf
  <2> HIDE DEF U
  <2> QED
    BY <2>1, FS_Subset
<1> HIDE DEF f, U, V
<1>9. f \in Injection(V, U)
  BY <1>5, <1>6, <1>7 DEF Injection, IsInjective
<1> QED
  BY <1>8, <1>9, FS_Injection DEF U, V

\* Every constant has as many of them as any other.
THEOREM SharesHideConstant ==
    ASSUME NEW S, NEW X, NEW m, Outside(S, X, m), NEW y, NEW u \in Field, NEW v \in Field
    PROVE  Cardinality(WaysOf(S, X, m, y, v)) = Cardinality(WaysOf(S, X, m, y, u))
<1> DEFINE a == Cardinality(WaysOf(S, X, m, y, v))
           b == Cardinality(WaysOf(S, X, m, y, u))
<1>1. /\ IsFiniteSet(WaysOf(S, X, m, y, u)) /\ IsFiniteSet(WaysOf(S, X, m, y, v))
      /\ a <= b /\ b <= a
  BY NoFewerWays
<1>2. a \in Nat /\ b \in Nat
  BY <1>1, FS_CardinalityType
<1> HIDE DEF a, b
<1>3. a = b
  BY <1>1, <1>2
<1> QED
  BY <1>3 DEF a, b
=============================================================================
