-------------------------- MODULE ParseEntryProofs --------------------------
(***************************************************************************)
(* Theorems about ParseEntry, for addresses of any width, any policy and    *)
(* any place of the IPv4 addresses in the IPv6 space that an odd number      *)
(* marks: types, what a prefix stored covers, one key for each prefix, and   *)
(* why a line is rejected.                                                  *)
(*                                                                          *)
(* A prefix denotes an interval of addresses (Covers), whose first address  *)
(* and size masking and unmapping keep.  What is stored is a Key: masked,    *)
(* within the policy and not IPv4-mapped; and an interval has one key.      *)
(***************************************************************************)
EXTENDS ParseEntry, FiniteSetTheorems, FunctionTheorems, TLAPS

-----------------------------------------------------------------------------
(* Powers of two.  2 ^ n counts the subsets of a set of n elements, by which *)
(* its laws need no induction.                                              *)

LEMMA PowerCounts ==
  ASSUME NEW T, NEW n, IsFiniteSet(T), Cardinality(T) = n
  PROVE  IsFiniteSet(SUBSET T) /\ Cardinality(SUBSET T) = 2 ^ n
BY FS_SUBSET

LEMMA PowerType ==
  ASSUME NEW n \in Nat
  PROVE  2 ^ n \in Nat /\ 2 ^ n >= 1 /\ (n > 0 => 2 ^ n >= 2)
<1> DEFINE S == SUBSET (1 .. n)
<1>1. IsFiniteSet(S) /\ Cardinality(S) = 2 ^ n
  <2>1. IsFiniteSet(1 .. n) /\ Cardinality(1 .. n) = n
    BY FS_Interval
  <2> QED
    BY <2>1, PowerCounts
<1>2. 2 ^ n \in Nat
  BY <1>1, FS_CardinalityType
<1>3. {} \in S /\ (n > 0 => {1} \in S)
  OBVIOUS
<1> HIDE DEF S
<1>4. 2 ^ n # 0
  BY <1>1, <1>3, FS_EmptySet
<1>5. n > 0 => 2 ^ n # 1
  <2>1. ASSUME NEW x, S = {x}, n > 0 PROVE FALSE
    BY <1>3, <2>1
  <2> QED
    BY <1>1, <2>1, FS_Singleton
<1> QED
  BY <1>2, <1>4, <1>5

LEMMA PowerOne == 2 ^ 1 = 2
<1>1. IsFiniteSet({1}) /\ Cardinality({1}) = 1
  BY FS_Singleton
<1>2. Cardinality(SUBSET {1}) = 2 ^ 1
  BY <1>1, PowerCounts
<1>3. SUBSET {1} = {{}} \cup {{1}}
  OBVIOUS
<1>4. IsFiniteSet({{}}) /\ Cardinality({{}}) = 1
  BY FS_Singleton
<1>5. Cardinality({{}} \cup {{1}}) = Cardinality({{}}) + 1
  <2>1. {1} \notin {{}}
    OBVIOUS
  <2> QED
    BY <1>4, <2>1, FS_AddElement
<1> QED
  BY <1>2, <1>3, <1>4, <1>5

(* A subset of a + b elements is one of the first a with one of the last b. *)
LEMMA PowerSum ==
  ASSUME NEW a \in Nat, NEW b \in Nat
  PROVE  2 ^ (a + b) = 2 ^ a * 2 ^ b
<1> DEFINE A == 1 .. a
           B == (a + 1) .. (a + b)
           C == 1 .. (a + b)
           f == [x \in SUBSET C |-> <<x \cap A, x \cap B>>]
<1>1. /\ IsFiniteSet(SUBSET A) /\ Cardinality(SUBSET A) = 2 ^ a
      /\ IsFiniteSet(SUBSET B) /\ Cardinality(SUBSET B) = 2 ^ b
      /\ IsFiniteSet(SUBSET C) /\ Cardinality(SUBSET C) = 2 ^ (a + b)
  <2>1. IsFiniteSet(A) /\ Cardinality(A) = a
    BY FS_Interval
  <2>2. IsFiniteSet(B) /\ Cardinality(B) = b
    <3>1. a + 1 \in Int /\ a + b \in Int /\ (a + 1 > a + b <=> b = 0) /\ (a + b) - (a + 1) + 1 = b
      OBVIOUS
    <3> QED
      BY <3>1, FS_Interval
  <2>3. IsFiniteSet(C) /\ Cardinality(C) = a + b
    <3>1. a + b \in Int /\ (1 > a + b <=> a + b = 0) /\ (a + b) - 1 + 1 = a + b
      OBVIOUS
    <3> QED
      BY <3>1, FS_Interval
  <2> HIDE DEF A, B, C
  <2> QED
    BY <2>1, <2>2, <2>3, PowerCounts
<1>2. C = A \cup B /\ A \cap B = {}
  OBVIOUS
<1> HIDE DEF A, B, C
<1>3. f \in [SUBSET C -> (SUBSET A) \X (SUBSET B)]
  OBVIOUS
<1>4. ASSUME NEW x \in SUBSET C, NEW y \in SUBSET C, f[x] = f[y] PROVE x = y
  <2>1. x \cap A = y \cap A /\ x \cap B = y \cap B
    BY <1>4
  <2> QED
    BY <1>2, <2>1
<1>5. ASSUME NEW t \in (SUBSET A) \X (SUBSET B) PROVE \E x \in SUBSET C : f[x] = t
  <2>1. PICK u \in SUBSET A, v \in SUBSET B : t = <<u, v>>
    OBVIOUS
  <2>2. u \cup v \in SUBSET C /\ (u \cup v) \cap A = u /\ (u \cup v) \cap B = v
    BY <1>2
  <2>3. f[u \cup v] = t
    BY <2>1, <2>2
  <2> QED
    BY <2>2, <2>3
<1> HIDE DEF f
<1>6. f \in Bijection(SUBSET C, (SUBSET A) \X (SUBSET B))
  BY <1>3, <1>4, <1>5, Fun_IsBij
<1>7. ExistsBijection(SUBSET C, (SUBSET A) \X (SUBSET B))
  BY <1>6 DEF ExistsBijection
<1>8. Cardinality((SUBSET A) \X (SUBSET B)) = 2 ^ (a + b)
  BY <1>1, <1>7, FS_Bijection
<1>9. Cardinality((SUBSET A) \X (SUBSET B)) = Cardinality(SUBSET A) * Cardinality(SUBSET B)
  BY <1>1, FS_Product
<1> QED
  BY <1>1, <1>8, <1>9

(* A power divides the greater ones, and is less than they are. *)
LEMMA PowerOrder ==
  ASSUME NEW a \in Nat, NEW b \in Nat, a <= b
  PROVE  /\ 2 ^ b = 2 ^ (b - a) * 2 ^ a
         /\ 2 ^ a <= 2 ^ b
         /\ a < b => 2 ^ a < 2 ^ b
<1>1. 2 ^ b = 2 ^ (b - a) * 2 ^ a
  <2>1. b - a \in Nat /\ (b - a) + a = b
    OBVIOUS
  <2> QED
    BY <2>1, PowerSum
<1> DEFINE x == 2 ^ (b - a)
           y == 2 ^ a
<1>2. x \in Nat /\ y \in Nat /\ x >= 1 /\ y >= 1 /\ (a < b => x >= 2)
  <2>1. b - a \in Nat /\ (a < b => b - a > 0)
    OBVIOUS
  <2> QED
    BY <2>1, PowerType
<1> HIDE DEF x, y
<1>3. y <= x * y /\ (x >= 2 => y < x * y)
  BY <1>2
<1> QED
  BY <1>1, <1>2, <1>3 DEF x, y

-----------------------------------------------------------------------------
(* Division *)

LEMMA Division ==
  ASSUME NEW a \in Nat, NEW h \in Nat, h >= 1
  PROVE  /\ a \div h \in Nat
         /\ a % h \in 0 .. (h - 1)
         /\ a = (a \div h) * h + (a % h)
         /\ (a \div h) * h \in 0 .. a
OBVIOUS

LEMMA Quotient ==
  ASSUME NEW k \in Nat, NEW h \in Nat, NEW r \in 0 .. (h - 1)
  PROVE  (k * h + r) \div h = k /\ (k * h + r) % h = r
OBVIOUS

LEMMA Product ==
  ASSUME NEW x \in Nat, NEW y \in Nat, NEW z \in Nat
  PROVE  x * y \in Nat /\ x * (y * z) = (x * y) * z /\ (x + y) * z = x * z + y * z
OBVIOUS

(* Rounding down to a multiple of h keeps the quotient by any multiple of h. *)
LEMMA RoundedQuotient ==
  ASSUME NEW a \in Nat, NEW h \in Nat, NEW q \in Nat, h >= 1, q >= 1
  PROVE  ((a \div h) * h) \div (q * h) = a \div (q * h)
<1> DEFINE k == a \div h
           r == a % h
           u == k \div q
           v == k % q
<1>1. k \in Nat /\ r \in 0 .. (h - 1) /\ a = k * h + r
  BY Division
<1> HIDE DEF k, r
<1>2. u \in Nat /\ v \in 0 .. (q - 1) /\ k = u * q + v
  BY <1>1, Division
<1> HIDE DEF u, v
<1>3. k * h = u * (q * h) + v * h
  <2>1. k * h = (u * q) * h + v * h
    BY <1>2, Product
  <2>2. (u * q) * h = u * (q * h)
    BY <1>2, Product
  <2> QED
    BY <2>1, <2>2
<1>4. v * h \in Nat /\ v * h + h <= q * h /\ q * h \in Nat
  <2>1. v \in Nat /\ v + 1 <= q
    BY <1>2
  <2>2. (v + 1) * h <= q * h
    BY <2>1
  <2> QED
    BY <2>1, <2>2
<1> DEFINE n == q * h
           w == v * h
<1>5. n \in Nat /\ w \in Nat /\ w + h <= n
  BY <1>4
<1>6. k * h = u * n + w /\ a = u * n + (w + r)
  BY <1>1, <1>2, <1>3
<1> HIDE DEF n, w
<1>7. w \in 0 .. (n - 1) /\ w + r \in 0 .. (n - 1)
  BY <1>1, <1>5
<1>8. (u * n + w) \div n = u
  BY <1>2, <1>5, <1>7, Quotient
<1>9. (u * n + (w + r)) \div n = u
  BY <1>2, <1>5, <1>7, Quotient
<1> QED
  BY <1>6, <1>8, <1>9 DEF k, n

(* An offset that is a multiple of h does not touch what is rounded. *)
LEMMA RoundedSum ==
  ASSUME NEW t \in Nat, NEW q \in Nat, NEW h \in Nat, NEW m \in Nat, h >= 1
  PROVE  ((t * (q * h) + m) \div h) * h = t * (q * h) + (m \div h) * h
<1> DEFINE k == m \div h
           r == m % h
           x == t * q
<1>1. k \in Nat /\ r \in 0 .. (h - 1) /\ m = k * h + r
  BY Division
<1> HIDE DEF k, r
<1>2. t * (q * h) = x * h /\ x \in Nat
  BY Product
<1> HIDE DEF x
<1>3. (x + k) * h = x * h + k * h /\ x + k \in Nat /\ x * h \in Nat /\ k * h \in Nat
  BY <1>1, <1>2
<1>4. t * (q * h) + m = (x + k) * h + r
  BY <1>1, <1>2, <1>3
<1>5. ((x + k) * h + r) \div h = x + k
  BY <1>1, <1>3, Quotient
<1> QED
  BY <1>2, <1>3, <1>4, <1>5 DEF k

(* An interval has one beginning and one length. *)
LEMMA IntervalEqual ==
  ASSUME NEW x \in Nat, NEW y \in Nat, NEW g \in Nat, NEW h \in Nat, g >= 1, h >= 1,
         x .. (x + g - 1) = y .. (y + h - 1)
  PROVE  x = y /\ g = h
<1>1. x \in y .. (y + h - 1) /\ y \in x .. (x + g - 1)
  <2>1. x \in x .. (x + g - 1) /\ y \in y .. (y + h - 1)
    OBVIOUS
  <2> QED
    BY <2>1
<1>2. (x + g - 1) \in y .. (y + h - 1) /\ (y + h - 1) \in x .. (x + g - 1)
  <2>1. (x + g - 1) \in x .. (x + g - 1) /\ (y + h - 1) \in y .. (y + h - 1)
    OBVIOUS
  <2> QED
    BY <2>1
<1> QED
  BY <1>1, <1>2

-----------------------------------------------------------------------------
(* Prefixes *)

Family == {"v4", "v6"}

(* The number of addresses of a prefix, its address without the host bits,   *)
(* and the first address it covers.                                         *)
Host(p) == 2 ^ (Width[p.family] - p.bits)
Rounded(p) == (p.addr \div Host(p)) * Host(p)
First(p) == Address(p.family, Rounded(p))

LEMMA Widths ==
  /\ Width["v4"] = W4 /\ Width["v6"] = W6
  /\ MinPrefix["v4"] = MinPrefixV4 /\ MinPrefix["v6"] = MinPrefixV6
  /\ \A f \in Family : Width[f] \in Nat /\ MinPrefix[f] \in 0 .. Width[f]
BY WidthAssumption DEF Width, MinPrefix, Family

(* An address of a family, with a length. *)
Sound(p) ==
  /\ p.family \in Family /\ p.addr \in 0 .. (2 ^ Width[p.family] - 1)
  /\ p.bits \in 0 .. Width[p.family]

LEMMA HostType ==
  ASSUME NEW p, Sound(p)
  PROVE  /\ Host(p) \in Nat /\ Host(p) >= 1 /\ p.addr \in Nat
         /\ Rounded(p) \in 0 .. p.addr /\ Rounded(p) \in Nat /\ First(p) \in Nat
<1>1. Width[p.family] - p.bits \in Nat /\ Width[p.family] \in Nat
  BY Widths DEF Sound
<1>2. Host(p) \in Nat /\ Host(p) >= 1 /\ 2 ^ Width[p.family] \in Nat
  BY <1>1, PowerType DEF Host
<1>3. p.addr \in Nat
  BY <1>2 DEF Sound
<1>4. Rounded(p) \in 0 .. p.addr /\ Rounded(p) \in Nat
  <2>1. (p.addr \div Host(p)) * Host(p) \in 0 .. p.addr
    BY <1>2, <1>3, Division
  <2> QED
    BY <1>3, <2>1 DEF Rounded
<1>5. MappedTop \in Nat /\ 2 ^ W4 \in Nat
  <2>1. MappedBits \in Nat
    BY WidthAssumption DEF MappedBits
  <2>2. 2 ^ MappedBits \in Nat
    BY <2>1, PowerType
  <2> QED
    BY <2>2, WidthAssumption, PowerType
<1>6. First(p) \in Nat
  <2>1. MappedTop * 2 ^ W4 \in Nat
    BY <1>5, Product
  <2> QED
    BY <1>4, <2>1 DEF First, Address
<1> QED
  BY <1>2, <1>3, <1>4, <1>6

(* What a prefix covers is an interval. *)
LEMMA Covers ==
  ASSUME NEW p, Sound(p)
  PROVE  Denoted(p) = First(p) .. (First(p) + Host(p) - 1)
<1> DEFINE h == Host(p)
           x == Rounded(p)
           y == First(p)
<1>1. h \in Nat /\ h >= 1 /\ x \in Nat /\ y \in Nat
  BY HostType
<1>2. Denoted(p) = {Address(p.family, x + i) : i \in 0 .. (h - 1)}
  BY DEF Denoted, Host, Rounded
<1>3. \A i \in 0 .. (h - 1) : Address(p.family, x + i) = y + i
  <2>1. CASE p.family = "v4"
    <3>1. MappedTop * 2 ^ W4 \in Int
      <4>1. y = MappedTop * 2 ^ W4 + x
        BY <2>1 DEF First, Address
      <4>2. MappedBits \in Nat /\ W4 \in Nat
        BY WidthAssumption DEF MappedBits
      <4>3. 2 ^ MappedBits \in Nat /\ 2 ^ W4 \in Nat
        BY <4>2, PowerType
      <4>4. MappedTop \in Nat
        BY <4>3, WidthAssumption
      <4> QED
        BY <4>3, <4>4, Product
    <3> HIDE DEF x
    <3> QED
      BY <1>1, <2>1, <3>1 DEF First, Address, x
  <2>2. CASE p.family # "v4"
    <3>1. y = x
      BY <2>2 DEF First, Address
    <3> HIDE DEF x, y
    <3> QED
      BY <2>2, <3>1 DEF Address
  <2> QED
    BY <2>1, <2>2
<1> HIDE DEF h, x, y
<1>4. Denoted(p) = {y + i : i \in 0 .. (h - 1)}
  BY <1>2, <1>3
<1>5. {y + i : i \in 0 .. (h - 1)} = y .. (y + h - 1)
  <2>1. ASSUME NEW n \in y .. (y + h - 1) PROVE \E i \in 0 .. (h - 1) : n = y + i
    <3>1. n - y \in 0 .. (h - 1) /\ n = y + (n - y)
      BY <1>1, <2>1
    <3> QED
      BY <3>1
  <2>2. ASSUME NEW i \in 0 .. (h - 1) PROVE y + i \in y .. (y + h - 1)
    BY <1>1, <2>2
  <2> QED
    BY <2>1, <2>2
<1> QED
  BY <1>4, <1>5 DEF h, y

(* Masking does not change what a prefix covers, and masks. *)
LEMMA MaskedCovers ==
  ASSUME NEW f \in Family, NEW a, NEW b, Sound(Prefix(f, a, b))
  PROVE  LET p == Prefix(f, a, b)
             m == Masked(p)
         IN  /\ m = Prefix(f, Rounded(p), b) /\ Sound(m) /\ Rounded(m) = m.addr
             /\ Denoted(m) = Denoted(p)
<1> DEFINE p == Prefix(f, a, b)
           m == Masked(p)
           h == Host(p)
<1>1. p.family = f /\ p.addr = a /\ p.bits = b
  BY DEF Prefix
<1>2. b \in 0 .. Width[f] /\ Width[f] \in Nat
  BY <1>1, Widths DEF Sound
<1>3. m = Prefix(f, Rounded(p), b)
  <2>1. ~(p.bits < 0)
    BY <1>1, <1>2
  <2> QED
    BY <2>1 DEF Masked, Rounded, Host, Prefix
<1>4. m.family = f /\ m.addr = Rounded(p) /\ m.bits = b
  BY <1>3 DEF Prefix
<1>5. Host(m) = h
  BY <1>1, <1>4 DEF Host
<1>6. h \in Nat /\ h >= 1 /\ a \in Nat /\ Rounded(p) \in 0 .. a /\ Rounded(p) \in Nat
  BY <1>1, HostType
<1>7. Rounded(m) = Rounded(p)
  <2>1. Rounded(m) = (((a \div h) * h) \div h) * h
    BY <1>1, <1>4, <1>5 DEF Rounded
  <2> HIDE DEF h
  <2>2. a \div h \in Nat
    BY <1>6, Division
  <2>3. ((a \div h) * h + 0) \div h = a \div h
    BY <1>6, <2>2, Quotient
  <2>4. (a \div h) * h \in Nat
    BY <1>6, <2>2, Product
  <2>5. ((a \div h) * h) \div h = a \div h
    BY <2>3, <2>4
  <2> QED
    BY <1>1, <2>1, <2>5 DEF Rounded, h
<1>8. Sound(m)
  <2>1. 2 ^ Width[f] \in Nat
    BY <1>2, PowerType
  <2>2. a \in 0 .. (2 ^ Width[f] - 1)
    BY <1>1 DEF Sound
  <2>3. Rounded(p) \in 0 .. (2 ^ Width[f] - 1)
    BY <1>6, <2>1, <2>2
  <2> HIDE DEF m
  <2> QED
    BY <1>2, <1>4, <2>3 DEF Sound
<1>9. First(m) = First(p)
  BY <1>1, <1>4, <1>7 DEF First
<1>10. Denoted(m) = Denoted(p)
  <2>1. /\ Denoted(m) = First(m) .. (First(m) + Host(m) - 1)
        /\ Denoted(p) = First(p) .. (First(p) + Host(p) - 1)
    <3> HIDE DEF m, p
    <3> QED
      BY <1>8, Covers DEF p
  <2> QED
    BY <1>5, <1>9, <2>1
<1>11. Rounded(m) = m.addr
  BY <1>4, <1>7
<1> HIDE DEF m, p
<1> QED
  BY <1>3, <1>8, <1>10, <1>11 DEF m, p

LEMMA MappedType ==
  /\ MappedTop \in Nat /\ MappedBits \in Nat /\ MappedBits + W4 = W6
  /\ W4 \in Nat /\ W6 \in Nat /\ 2 ^ W4 \in Nat /\ 2 ^ W4 >= 1
<1>1. MappedBits \in Nat /\ MappedBits + W4 = W6 /\ W4 \in Nat /\ W6 \in Nat
  BY WidthAssumption DEF MappedBits
<1>2. 2 ^ MappedBits \in Nat /\ 2 ^ W4 \in Nat /\ 2 ^ W4 >= 1
  BY <1>1, PowerType
<1>3. MappedTop \in Nat
  BY <1>2, WidthAssumption
<1> QED
  BY <1>1, <1>2, <1>3

(* Unmapping does not change what a prefix covers, as long as it leaves it a *)
(* length.                                                                  *)
LEMMA UnmapCovers ==
  ASSUME NEW a, NEW b, Sound(Prefix("v6", a, b)), Is4In6(Prefix("v6", a, b)), b >= MappedBits
  PROVE  LET p == Prefix("v6", a, b)
             u == Unmap(p)
         IN  /\ u = Prefix("v4", a % 2 ^ W4, b - MappedBits) /\ Sound(u)
             /\ Denoted(u) = Denoted(p)
<1> DEFINE p == Prefix("v6", a, b)
           u == Unmap(p)
           c == b - MappedBits
           m == a % 2 ^ W4
           h == 2 ^ (W6 - b)
<1>1. p.family = "v6" /\ p.addr = a /\ p.bits = b
  BY DEF Prefix
<1>2. u = Prefix("v4", m, c)
  BY <1>1 DEF Unmap
<1>3. u.family = "v4" /\ u.addr = m /\ u.bits = c
  BY <1>2 DEF Prefix
<1>4. a \in Nat /\ b \in 0 .. W6
  <2>1. a \in Nat
    BY <1>1, HostType
  <2> QED
    BY <1>1, <2>1, Widths DEF Sound
<1>5. c \in 0 .. W4 /\ W4 - c = W6 - b /\ W6 - b \in Nat
  BY <1>4, MappedType
<1>6. a = MappedTop * 2 ^ W4 + m /\ m \in 0 .. (2 ^ W4 - 1) /\ m \in Nat
  <2>1. a \div 2 ^ W4 = MappedTop
    BY <1>1 DEF Is4In6
  <2>2. a % 2 ^ W4 \in 0 .. (2 ^ W4 - 1) /\ a = (a \div 2 ^ W4) * 2 ^ W4 + (a % 2 ^ W4)
    BY <1>4, MappedType, Division
  <2> QED
    BY <2>1, <2>2, MappedType
<1>7. Sound(u)
  BY <1>3, <1>5, <1>6, Widths DEF Sound, Family
<1>8. Host(u) = h /\ Host(p) = h
  <2>1. Host(u) = 2 ^ (W4 - c) /\ Host(p) = 2 ^ (W6 - b)
    BY <1>1, <1>3, Widths DEF Host
  <2> QED
    BY <1>5, <2>1
<1>9. First(p) = First(u)
  <2>1. h \in Nat /\ h >= 1
    BY <1>5, PowerType
  <2>2. PICK q \in Nat : 2 ^ W4 = q * h
    <3>1. W6 - b <= W4
      BY <1>4, <1>5, MappedType
    <3>2. 2 ^ W4 = 2 ^ (W4 - (W6 - b)) * h /\ 2 ^ (W4 - (W6 - b)) \in Nat
      <4>1. 2 ^ W4 = 2 ^ (W4 - (W6 - b)) * h
        BY <1>5, <3>1, MappedType, PowerOrder
      <4>2. W4 - (W6 - b) \in Nat
        BY <1>5, <3>1, MappedType
      <4> QED
        BY <4>1, <4>2, PowerType
    <3> QED
      BY <3>2
  <2>3. First(p) = (a \div h) * h
    BY <1>1, <1>8 DEF First, Address, Rounded
  <2>4. First(u) = MappedTop * 2 ^ W4 + (m \div h) * h
    BY <1>3, <1>8 DEF First, Address, Rounded
  <2> HIDE DEF h, m
  <2>5. ((MappedTop * (q * h) + m) \div h) * h = MappedTop * (q * h) + (m \div h) * h
    BY <1>6, <2>1, <2>2, MappedType, RoundedSum
  <2> QED
    BY <1>6, <2>2, <2>3, <2>4, <2>5
<1>10. /\ Denoted(u) = First(u) .. (First(u) + Host(u) - 1)
       /\ Denoted(p) = First(p) .. (First(p) + Host(p) - 1)
  <2> HIDE DEF u, p
  <2> QED
    BY <1>7, Covers DEF p
<1> QED
  BY <1>2, <1>7, <1>8, <1>9, <1>10

(* An address that is not IPv4-mapped does not become so by masking: what is *)
(* rounded to more than W4 bits has an even top.                            *)
LEMMA MaskedUnmapped ==
  ASSUME NEW p, Sound(p), p.family = "v6", Rounded(p) \div 2 ^ W4 = MappedTop
  PROVE  p.addr \div 2 ^ W4 = MappedTop
<1> DEFINE n == W6 - p.bits
           h == 2 ^ n
           w == 2 ^ W4
           a == p.addr
<1>1. a \in Nat /\ n \in Nat /\ h \in Nat /\ h >= 1 /\ w \in Nat /\ w >= 1
  <2>1. a \in Nat
    BY HostType
  <2>2. n \in Nat
    BY Widths, MappedType DEF Sound
  <2> QED
    BY <2>1, <2>2, PowerType, MappedType
<1>2. Rounded(p) = (a \div h) * h
  BY Widths DEF Rounded, Host
<1>3. CASE n <= W4
  <2>1. w = 2 ^ (W4 - n) * h
    BY <1>1, <1>3, MappedType, PowerOrder
  <2>2. 2 ^ (W4 - n) \in Nat /\ 2 ^ (W4 - n) >= 1
    <3>1. W4 - n \in Nat
      BY <1>1, <1>3, MappedType
    <3> QED
      BY <3>1, PowerType
  <2> DEFINE q == 2 ^ (W4 - n)
  <2>3. w = q * h /\ q \in Nat /\ q >= 1
    BY <2>1, <2>2
  <2> HIDE DEF q, h, n, a
  <2>4. ((a \div h) * h) \div (q * h) = a \div (q * h)
    BY <1>1, <2>3, RoundedQuotient
  <2> QED
    BY <1>2, <2>3, <2>4 DEF a
<1>4. CASE W4 < n
  <2> DEFINE q == 2 ^ (n - W4 - 1)
             k == a \div h
  <2>1. h = 2 ^ (n - W4) * w
    BY <1>1, <1>4, MappedType, PowerOrder
  <2>2. n - W4 - 1 \in Nat /\ n - W4 \in Nat /\ (n - W4) - 1 = n - W4 - 1 /\ 1 <= n - W4
    BY <1>1, <1>4, MappedType
  <2>3. q \in Nat
    BY <2>2, PowerType
  <2>4. 2 ^ (n - W4) = q * 2
    <3>1. 2 ^ (n - W4) = 2 ^ ((n - W4) - 1) * 2 ^ 1
      BY <2>2, PowerOrder
    <3> QED
      BY <2>2, <3>1, PowerOne
  <2>5. k \in Nat
    BY <1>1, Division
  <2> HIDE DEF q, k, h, n, w
  <2>6. k * h = (k * q * 2) * w /\ k * q \in Nat
    <3>1. h = (q * 2) * w
      BY <2>1, <2>4
    <3>2. k * ((q * 2) * w) = (k * (q * 2)) * w
      BY <1>1, <2>3, <2>5, Product
    <3>3. k * (q * 2) = k * q * 2 /\ k * q \in Nat
      BY <2>3, <2>5, Product
    <3> QED
      BY <3>1, <3>2, <3>3
  <2>7. (k * h) \div w = k * q * 2
    <3> DEFINE j == k * q
    <3>1. j \in Nat /\ j * 2 \in Nat
      BY <2>6
    <3>2. ((j * 2) * w + 0) \div w = j * 2
      <4> HIDE DEF j
      <4> QED
        BY <1>1, <3>1, Quotient
    <3>3. (j * 2) * w \in Nat
      <4> HIDE DEF j
      <4> QED
        BY <1>1, <3>1, Product
    <3> QED
      BY <2>6, <3>2, <3>3
  <2>8. MappedTop = k * q * 2
    BY <1>2, <2>7 DEF k, w
  <2>9. (k * q * 2) % 2 = 0
    BY <2>6
  <2> QED
    BY <2>8, <2>9, MappedAssumption
<1> QED
  BY <1>1, <1>3, <1>4, MappedType

-----------------------------------------------------------------------------
(* Keys: what ParseEntry returns *)

Key(p) ==
  /\ p = Prefix(p.family, p.addr, p.bits) /\ Sound(p)
  /\ p.bits \in MinPrefix[p.family] .. Width[p.family]
  /\ Rounded(p) = p.addr /\ ~Is4In6(p)

(* An interval of addresses has one key. *)
LEMMA OneKey ==
  ASSUME NEW p, NEW q, Key(p), Key(q), Denoted(p) = Denoted(q)
  PROVE  p = q
<1>1. Sound(p) /\ Sound(q) /\ Rounded(p) = p.addr /\ Rounded(q) = q.addr
  BY DEF Key
<1>2. First(p) = First(q) /\ Host(p) = Host(q)
  <2>1. /\ Host(p) \in Nat /\ Host(p) >= 1 /\ First(p) \in Nat
        /\ Host(q) \in Nat /\ Host(q) >= 1 /\ First(q) \in Nat
    BY <1>1, HostType
  <2>2. First(p) .. (First(p) + Host(p) - 1) = First(q) .. (First(q) + Host(q) - 1)
    BY <1>1, Covers
  <2> QED
    BY <2>1, <2>2, IntervalEqual
<1>3. ASSUME NEW x, NEW y, Key(x), Key(y), x.family = "v4", First(x) = First(y)
      PROVE  y.family = "v4"
  <2> SUFFICES ASSUME y.family # "v4" PROVE FALSE
    OBVIOUS
  <2>1. y.family = "v6" /\ Sound(x) /\ Rounded(x) = x.addr /\ Rounded(y) = y.addr
    BY <1>3 DEF Key, Sound, Family
  <2>2. x.addr \in 0 .. (2 ^ W4 - 1)
    BY <1>3, <2>1, Widths DEF Sound
  <2>3. y.addr = MappedTop * 2 ^ W4 + x.addr
    BY <1>3, <2>1 DEF First, Address
  <2>4. y.addr \div 2 ^ W4 = MappedTop
    BY <2>2, <2>3, MappedType, Quotient
  <2> QED
    BY <1>3, <2>1, <2>4 DEF Key, Is4In6
<1>4. p.family = q.family
  BY <1>1, <1>2, <1>3 DEF Sound, Family
<1>5. p.addr = q.addr
  <2>1. p.addr \in Nat /\ q.addr \in Nat
    BY <1>1, HostType
  <2>2. MappedTop * 2 ^ W4 \in Nat
    BY MappedType, Product
  <2> QED
    BY <1>1, <1>2, <1>4, <2>1, <2>2 DEF First, Address
<1>6. p.bits = q.bits
  <2> DEFINE m == Width[p.family] - p.bits
             n == Width[p.family] - q.bits
  <2>1. m \in Nat /\ n \in Nat /\ p.bits \in Nat /\ q.bits \in Nat /\ Width[p.family] \in Nat
    BY <1>1, <1>4, Widths DEF Sound
  <2>2. 2 ^ m = 2 ^ n
    BY <1>2, <1>4 DEF Host
  <2>3. m = n
    <3> HIDE DEF m, n
    <3>1. 2 ^ m \in Nat /\ 2 ^ n \in Nat
      BY <2>1, PowerType
    <3>2. m < n => 2 ^ m < 2 ^ n
      BY <2>1, PowerOrder
    <3>3. n < m => 2 ^ n < 2 ^ m
      BY <2>1, PowerOrder
    <3> QED
      BY <2>1, <2>2, <3>1, <3>2, <3>3
  <2> QED
    BY <2>1, <2>3
<1>7. p = Prefix(p.family, p.addr, p.bits) /\ q = Prefix(q.family, q.addr, q.bits)
  BY DEF Key
<1> QED
  BY <1>4, <1>5, <1>6, <1>7

(* A line is an address of a family with a length. *)
LEMMA ReadSound ==
  ASSUME NEW e \in Entries, IsLine(e)
  PROVE  \E f \in Family : \E a, b : /\ Read(e) = Prefix(f, a, b) /\ Sound(Read(e))
                                     /\ e.family = f
<1>1. PICK f \in Family : e \in Lines(f)
  BY DEF Entries, IsLine, Family
<1>2. e.family = f /\ e.addr \in 0 .. (2 ^ Width[f] - 1) /\ e.bits \in {Bare} \cup 0 .. Width[f]
  BY <1>1 DEF Lines
<1> DEFINE b == IF e.bits = Bare THEN Width[e.family] ELSE e.bits
<1>3. b \in 0 .. Width[f]
  BY <1>2, Widths
<1>4. Read(e) = Prefix(f, e.addr, b)
  BY <1>2 DEF Read
<1>5. Sound(Prefix(f, e.addr, b))
  <2> HIDE DEF b
  <2> QED
    BY <1>2, <1>3 DEF Sound, Prefix
<1> QED
  BY <1>2, <1>4, <1>5

(* What is read of a line, unmapped and masked, covers what the line means,   *)
(* unless unmapping leaves it no length; it is a key if it is within the      *)
(* policy.                                                                   *)
LEMMA NormalisedKey ==
  ASSUME NEW e \in Entries, IsLine(e), Is4In6(Read(e)) => Read(e).bits >= MappedBits
  PROVE  LET n == Normalised(e)
         IN  /\ n.family = IF Is4In6(Read(e)) THEN "v4" ELSE Read(e).family
             /\ n.bits = IF Is4In6(Read(e)) THEN Read(e).bits - MappedBits ELSE Read(e).bits
             /\ Sound(n) /\ Denoted(n) = Meaning(e)
             /\ InRange(n) => Key(n)
<1>1. PICK f \in Family : \E a, b : /\ Read(e) = Prefix(f, a, b) /\ Sound(Read(e))
                                    /\ e.family = f
  BY ReadSound
<1>2. PICK a, b : Read(e) = Prefix(f, a, b) /\ Sound(Read(e))
  BY <1>1
<1>3. Read(e).family = f /\ Read(e).addr = a /\ Read(e).bits = b
  BY <1>2 DEF Prefix
<1> DEFINE u == Unmap(Read(e))
           n == Normalised(e)
           g == IF Is4In6(Read(e)) THEN "v4" ELSE f
           d == IF Is4In6(Read(e)) THEN b - MappedBits ELSE b
<1>4. \E x : u = Prefix(g, x, d) /\ Sound(u) /\ Denoted(u) = Denoted(Read(e))
  <2>1. CASE Is4In6(Read(e))
    <3>1. f = "v6" /\ b >= MappedBits
      BY <1>3, <2>1 DEF Is4In6
    <3>2. /\ u = Prefix("v4", a % 2 ^ W4, b - MappedBits) /\ Sound(u)
          /\ Denoted(u) = Denoted(Read(e))
      BY <1>2, <2>1, <3>1, UnmapCovers
    <3> QED
      BY <2>1, <3>2
  <2>2. CASE ~Is4In6(Read(e))
    <3>1. u = Read(e)
      BY <2>2 DEF Unmap
    <3> QED
      BY <1>2, <2>2, <3>1
  <2> QED
    BY <2>1, <2>2
<1>5. PICK x : u = Prefix(g, x, d) /\ Sound(u) /\ Denoted(u) = Denoted(Read(e))
  BY <1>4
<1>6. g \in Family
  BY DEF Family
<1> HIDE DEF g, d, u
<1>7. n = Prefix(g, Rounded(u), d) /\ Sound(n) /\ Rounded(n) = n.addr /\ Denoted(n) = Denoted(u)
  BY <1>5, <1>6, MaskedCovers DEF Normalised, u
<1> HIDE DEF n
<1>8. n.family = g /\ n.addr = Rounded(u) /\ n.bits = d
  BY <1>7 DEF Prefix
<1>9. ~Is4In6(n)
  <2> SUFFICES ASSUME Is4In6(n) PROVE FALSE
    OBVIOUS
  <2>1. g = "v6" /\ Rounded(u) \div 2 ^ W4 = MappedTop
    BY <1>8 DEF Is4In6
  <2>2. ~Is4In6(Read(e)) /\ f = "v6"
    BY <2>1 DEF g
  <2>3. u = Read(e)
    BY <2>2 DEF u, Unmap
  <2>4. u.family = "v6"
    BY <1>3, <2>2, <2>3
  <2>5. u.addr \div 2 ^ W4 = MappedTop
    BY <1>5, <2>1, <2>4, MaskedUnmapped
  <2> QED
    BY <2>2, <2>3, <2>4, <2>5 DEF Is4In6
<1>10. InRange(n) => n.bits \in MinPrefix[n.family] .. Width[n.family]
  <2>1. n.family \in Family
    BY <1>6, <1>8
  <2> QED
    BY <2>1, Widths DEF InRange, Family
<1>11. InRange(n) => Key(n)
  BY <1>7, <1>8, <1>9, <1>10 DEF Key
<1> QED
  BY <1>3, <1>5, <1>7, <1>8, <1>11 DEF g, d, n, Meaning

(* A line that is accepted. *)
LEMMA AcceptedKey ==
  ASSUME NEW e \in Entries, Accepted(e)
  PROVE  /\ IsLine(e) /\ Parse(e).prefix = Normalised(e)
         /\ Key(Normalised(e)) /\ Denoted(Normalised(e)) = Meaning(e)
<1>1. /\ e # Blank /\ e # Junk /\ InRange(Normalised(e)) /\ Parse(e).prefix = Normalised(e)
  BY DEF Accepted, Parse
<1>2. IsLine(e)
  BY <1>1 DEF IsLine
<1>3. Is4In6(Read(e)) => Read(e).bits >= MappedBits
  <2> SUFFICES ASSUME Is4In6(Read(e)), ~(Read(e).bits >= MappedBits) PROVE FALSE
    OBVIOUS
  <2>1. PICK f, a, b : f \in Family /\ Read(e) = Prefix(f, a, b) /\ Sound(Read(e))
    BY <1>2, ReadSound
  <2>2. Read(e).bits \in Nat
    BY <2>1, Widths DEF Sound
  <2>3. Read(e).bits - MappedBits < 0
    BY <2>2, MappedType
  <2>4. Normalised(e) = NoPrefix
    BY <2>3 DEF Normalised, Masked, Unmap, Prefix
  <2>5. ~InRange(NoPrefix)
    BY WidthAssumption DEF InRange, NoPrefix, Prefix
  <2> QED
    BY <1>1, <2>4, <2>5
<1> QED
  BY <1>1, <1>2, <1>3, NormalisedKey

(* A key spells itself. *)
LEMMA KeyParses ==
  ASSUME NEW p, Key(p)
  PROVE  p \in Entries /\ Accepted(p) /\ Parse(p).prefix = p
<1>1. p.family \in Family /\ p.bits \in 0 .. Width[p.family]
  BY DEF Key, Sound
<1>2. p.bits \in Nat
  BY <1>1, Widths
<1>3. p \in Lines(p.family)
  BY DEF Key, Sound, Prefix, Lines
<1>4. p \in Entries /\ p # Blank /\ p # Junk
  BY <1>1, <1>3 DEF Entries, Family, Blank, Junk
<1>5. Read(p) = p
  BY <1>2 DEF Read, Bare, Key, Prefix
<1>6. Unmap(p) = p
  BY DEF Unmap, Key
<1>7. Masked(p) = p
  <2>1. ~(p.bits < 0)
    BY <1>2
  <2>2. Masked(p) = [p EXCEPT !.addr = Rounded(p)]
    BY <2>1 DEF Masked, Rounded, Host
  <2> QED
    BY <2>2 DEF Key, Prefix
<1>8. InRange(p)
  BY <1>1, Widths DEF InRange, Key, Family
<1> QED
  BY <1>4, <1>5, <1>6, <1>7, <1>8 DEF Parse, Normalised, Accepted

-----------------------------------------------------------------------------
(* The theorems *)

(* A line is yet to be parsed, or parsed. *)
IInv ==
  /\ entry \in Entries
  /\ \/ outcome = "new" /\ prefix = NoPrefix
     \/ outcome = Parse(entry).outcome /\ prefix = Parse(entry).prefix

LEMMA Inductive == Spec => []IInv
<1>1. Init => IInv
  BY DEF Init, IInv
<1>2. IInv /\ [Next]_vars => IInv'
  BY DEF IInv, Next, ParseLine, vars
<1> QED
  BY <1>1, <1>2, PTL DEF Spec

LEMMA ParsedOutcome ==
  ASSUME IInv
  PROVE  /\ outcome \in {"new", "prefix", "skip", "error"}
         /\ outcome = "prefix" => Accepted(entry) /\ prefix = Parse(entry).prefix
         /\ outcome # "prefix" => prefix = NoPrefix
         /\ outcome = "error" => entry = Junk \/ ~InRange(Normalised(entry))
<1>1. /\ Parse(entry).outcome \in {"prefix", "skip", "error"}
      /\ Parse(entry).outcome # "prefix" => Parse(entry).prefix = NoPrefix
      /\ Parse(entry).outcome = "error" => entry = Junk \/ ~InRange(Normalised(entry))
  BY DEF Parse
<1> QED
  BY <1>1 DEF IInv, Accepted

(* The types of what ParseEntry returns: a prefix of the two families, with  *)
(* an address and a length of its family, when and only when the line was    *)
(* accepted (misc.go:20-68).                                                 *)
THEOREM TypeCorrect == Spec => []TypeOK
<1>1. IInv => TypeOK
  <2> SUFFICES ASSUME IInv PROVE TypeOK
    OBVIOUS
  <2>1. entry \in Entries
    BY DEF IInv
  <2>2. CASE outcome = "prefix"
    <3>1. Key(prefix)
      BY <2>1, <2>2, ParsedOutcome, AcceptedKey
    <3>2. prefix \in Lines(prefix.family) /\ prefix.family \in {"v4", "v6"}
      BY <3>1 DEF Key, Sound, Prefix, Lines, Family
    <3>3. prefix # NoPrefix
      BY <3>2 DEF NoPrefix, Prefix
    <3> QED
      BY <2>1, <2>2, <3>2, <3>3 DEF TypeOK
  <2>3. CASE outcome # "prefix"
    BY <2>1, <2>3, ParsedOutcome DEF TypeOK
  <2> QED
    BY <2>2, <2>3
<1> QED
  BY <1>1, Inductive, PTL

(* What is stored covers the addresses the line means, and no prefix broader *)
(* than the policy is stored in any spelling (misc.go:45-64).                *)
THEOREM StoresWhatIsMeant == Spec => []StoredIsMeant
<1>1. IInv => StoredIsMeant
  <2> SUFFICES ASSUME IInv, outcome = "prefix"
               PROVE  /\ Denoted(prefix) = Meaning(entry)
                      /\ Cardinality(Meaning(entry))
                           <= 2 ^ (Width[prefix.family] - MinPrefix[prefix.family])
    BY DEF StoredIsMeant
  <2>1. Key(prefix) /\ Denoted(prefix) = Meaning(entry)
    BY ParsedOutcome, AcceptedKey DEF IInv
  <2>2. /\ Denoted(prefix) = First(prefix) .. (First(prefix) + Host(prefix) - 1)
        /\ Host(prefix) \in Nat /\ Host(prefix) >= 1 /\ First(prefix) \in Nat
    BY <2>1, Covers, HostType DEF Key
  <2>3. Cardinality(Meaning(entry)) = Host(prefix)
    <3> DEFINE x == First(prefix)
               h == Host(prefix)
    <3>1. x \in Int /\ h \in Nat /\ x + h - 1 \in Int /\ ~(x > x + h - 1) /\ (x + h - 1) - x + 1 = h
      BY <2>2
    <3>2. Cardinality(Denoted(prefix)) = Cardinality(x .. (x + h - 1))
      BY <2>2
    <3> HIDE DEF x, h
    <3>3. Cardinality(x .. (x + h - 1)) = h
      BY <3>1, FS_Interval
    <3> QED
      BY <2>1, <3>2, <3>3 DEF h
  <2>4. Host(prefix) <= 2 ^ (Width[prefix.family] - MinPrefix[prefix.family])
    <3> DEFINE m == Width[prefix.family] - prefix.bits
               n == Width[prefix.family] - MinPrefix[prefix.family]
    <3>1. m \in Nat /\ n \in Nat /\ m <= n
      BY <2>1, Widths DEF Key, Sound
    <3> HIDE DEF m, n
    <3>2. 2 ^ m <= 2 ^ n
      BY <3>1, PowerOrder
    <3> QED
      BY <3>2 DEF m, n, Host
  <2> QED
    BY <2>1, <2>3, <2>4
<1> QED
  BY <1>1, Inductive, PTL

(* Two lines that cover the same addresses are stored under the same key,    *)
(* and the line that a list prints for a key parses back to it               *)
(* (misc.go:45-64, api.go:108-116).                                          *)
THEOREM KeysAreUnique == Spec => []OneKeyPerPrefix
<1>1. IInv => OneKeyPerPrefix
  <2> SUFFICES ASSUME IInv, outcome = "prefix"
               PROVE  /\ Parse(prefix).prefix = prefix
                      /\ \A e \in Entries : IsLine(e) /\ Accepted(e) /\ Meaning(e) = Meaning(entry)
                                              => Parse(e).prefix = prefix
    BY DEF OneKeyPerPrefix
  <2>1. Key(prefix) /\ Denoted(prefix) = Meaning(entry)
    BY ParsedOutcome, AcceptedKey DEF IInv
  <2>2. Parse(prefix).prefix = prefix
    BY <2>1, KeyParses
  <2>3. ASSUME NEW e \in Entries, Accepted(e), Meaning(e) = Meaning(entry)
        PROVE  Parse(e).prefix = prefix
    <3>1. /\ Parse(e).prefix = Normalised(e) /\ Key(Normalised(e))
          /\ Denoted(Normalised(e)) = Meaning(e)
      BY <2>3, AcceptedKey
    <3> QED
      BY <2>1, <2>3, <3>1, OneKey
  <2> QED
    BY <2>2, <2>3
<1> QED
  BY <1>1, Inductive, PTL

(* A line is rejected only for being broader than its policy (misc.go:46-64). *)
THEOREM RejectsByPolicy == Spec => []PolicyAccepts
<1>1. IInv => PolicyAccepts
  <2> SUFFICES ASSUME IInv, outcome = "error", IsLine(entry)
               PROVE  IF Is4In6(Read(entry))
                      THEN Read(entry).bits < MappedBits + MinPrefixV4
                      ELSE Read(entry).bits < MinPrefix[entry.family]
    BY DEF PolicyAccepts
  <2>1. entry \in Entries /\ ~InRange(Normalised(entry))
    BY ParsedOutcome DEF IInv, IsLine
  <2>2. PICK f, a, b : f \in Family /\ Read(entry) = Prefix(f, a, b) /\ Sound(Read(entry)) /\ entry.family = f
    BY <2>1, ReadSound
  <2>3. Read(entry).family = f /\ Read(entry).bits \in 0 .. Width[f] /\ Read(entry).bits \in Nat
    BY <2>2, Widths DEF Prefix, Sound
  <2>4. CASE Is4In6(Read(entry))
    <3> SUFFICES ASSUME ~(Read(entry).bits < MappedBits + MinPrefixV4) PROVE FALSE
      BY <2>4
    <3>1. f = "v6"
      BY <2>3, <2>4 DEF Is4In6
    <3>2. Read(entry).bits >= MappedBits /\ Read(entry).bits - MappedBits \in MinPrefixV4 .. W4
      BY <2>3, <3>1, Widths, MappedType, WidthAssumption
    <3>3. /\ Normalised(entry).family = "v4"
          /\ Normalised(entry).bits = Read(entry).bits - MappedBits
      BY <2>1, <2>4, <3>2, NormalisedKey
    <3> QED
      BY <2>1, <3>2, <3>3 DEF InRange
  <2>5. CASE ~Is4In6(Read(entry))
    <3> SUFFICES ASSUME ~(Read(entry).bits < MinPrefix[entry.family]) PROVE FALSE
      BY <2>5
    <3>1. Read(entry).bits \in MinPrefix[f] .. Width[f]
      BY <2>2, <2>3, Widths
    <3>2. Normalised(entry).family = f /\ Normalised(entry).bits = Read(entry).bits
      BY <2>1, <2>3, <2>5, NormalisedKey
    <3> QED
      BY <2>1, <2>2, <3>1, <3>2, Widths DEF InRange, Family
  <2> QED
    BY <2>4, <2>5
<1> QED
  BY <1>1, Inductive, PTL

=============================================================================
