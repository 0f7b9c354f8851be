-------------------------- MODULE ModularArithmetic --------------------------
(***************************************************************************)
(* Addition modulo n, for the counters that wrap around: the indices of    *)
(* the ring buffer and the size_t of the table.                            *)
(***************************************************************************)
EXTENDS Integers, TLAPS

\* x is q times n and a rest.
LEMMA DivRep ==
  ASSUME NEW n \in Nat \ {0}, NEW x \in Int
  PROVE  \E q \in Int, r \in 0 .. n - 1 : x = n * q + r /\ r = x % n
OBVIOUS

\* Quotient and rest are unique.
LEMMA DivUnique ==
  ASSUME NEW n \in Nat \ {0}, NEW q \in Int, NEW r \in 0 .. n - 1
  PROVE  (n * q + r) % n = r
<1>1. n * q + r \in Int
  OBVIOUS
<1>2. PICK d \in Int, e \in 0 .. n - 1 :
        n * q + r = n * d + e /\ e = (n * q + r) % n
  BY <1>1, DivRep
<1>3. n * (q - d) = e - r
  BY <1>2
<1>4. q - d = 0
  <2>1. CASE q - d >= 1
    <3>1. n * (q - d) >= n
      BY <2>1
    <3>. QED  BY <3>1, <1>3
  <2>2. CASE q - d <= -1
    <3>1. n * (q - d) <= -n
      BY <2>2
    <3>. QED  BY <3>1, <1>3
  <2>. QED  BY <2>1, <2>2
<1>. QED  BY <1>2, <1>3, <1>4

\* Reducing before adding does not change the result.
LEMMA ModAdd ==
  ASSUME NEW n \in Nat \ {0}, NEW x \in Int, NEW y \in Int
  PROVE  ((x % n) + y) % n = (x + y) % n
<1>1. PICK q \in Int, r \in 0 .. n - 1 : x = n * q + r /\ r = x % n
  BY DivRep
<1>2. r + y \in Int
  OBVIOUS
<1>3. PICK d \in Int, e \in 0 .. n - 1 : r + y = n * d + e /\ e = (r + y) % n
  BY <1>2, DivRep
<1>4. x + y = n * (q + d) + e
  BY <1>1, <1>3
<1>5. (n * (q + d) + e) % n = e
  BY DivUnique
<1>. QED  BY <1>1, <1>3, <1>4, <1>5

LEMMA ModSucc ==
  ASSUME NEW n \in Nat \ {0}, NEW x \in Int
  PROVE  ((x % n) + 1) % n = (x + 1) % n
<1>1. 1 \in Int
  OBVIOUS
<1>2. \A y \in Int : ((x % n) + y) % n = (x + y) % n
  BY ModAdd
<1>. QED  BY <1>1, <1>2

\* Less than n apart means different.
LEMMA ModDistinct ==
  ASSUME NEW n \in Nat \ {0}, NEW x \in Int, NEW y \in Int, 0 < y - x, y - x < n
  PROVE  x % n # y % n
<1>. SUFFICES ASSUME x % n = y % n PROVE FALSE
  OBVIOUS
<1>1. PICK q \in Int, r \in 0 .. n - 1 : x = n * q + r /\ r = x % n
  BY DivRep
<1>2. PICK d \in Int, e \in 0 .. n - 1 : y = n * d + e /\ e = y % n
  BY DivRep
<1>3. n * (d - q) = y - x
  BY <1>1, <1>2
<1>4. CASE d - q >= 1
  <2>1. n * (d - q) >= n
    BY <1>4
  <2>. QED  BY <1>3, <2>1
<1>5. CASE d - q <= 0
  <2>1. n * (d - q) <= 0
    BY <1>5
  <2>. QED  BY <1>3, <2>1
<1>. QED  BY <1>4, <1>5

==============================================================================
