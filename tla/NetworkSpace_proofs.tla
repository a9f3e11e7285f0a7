-------------------------- MODULE NetworkSpace_proofs --------------------------
(***************************************************************************)
(* For addresses of every width: the networks generateIPList() calculates  *)
(* never overlap, whatever is configured; and where the configuration is   *)
(* layered, no assertion of the loop fails and the routes are right.       *)
(***************************************************************************)
EXTENDS NetworkSpace, TLAPS

FS == INSTANCE FiniteSetTheorems
WF == INSTANCE WellFoundedInduction

(***************************************************************************)
(* Numbers.  The sizes of networks are powers of two; the provers know     *)
(* nothing of these but that 2 ^ k is the number of subsets of a set of k  *)
(* elements.                                                               *)
(***************************************************************************)
\* A nonempty set has a minimal element of a well-founded relation.
LEMMA Minimal ==
    ASSUME NEW S, S # {}, NEW T, S \subseteq T, NEW below, WF!IsWellFoundedOn(below, T)
    PROVE  \E m \in S : \A n \in S : ~ (<<n, m>> \in below)
BY WF!WFMin

LEMMA LeastByOrder ==
    ASSUME NEW S, S # {}, S \subseteq Nat, NEW below, WF!IsWellFoundedOn(below, Nat),
           \A m, n \in Nat : m < n => <<m, n>> \in below
    PROVE  \E m \in S : \A n \in S : m <= n
<1>1. PICK m \in S : \A n \in S : ~ (<<n, m>> \in below)
    BY Minimal
<1>2. \A n \in S : ~ (n < m)
    BY <1>1
<1> QED BY <1>2

\* A nonempty set of numbers has a least element.
LEMMA Smallest ==
    ASSUME NEW S, S # {}, S \subseteq Nat
    PROVE  \E m \in S : \A n \in S : m <= n
<1>1. \E below : /\ WF!IsWellFoundedOn(below, Nat)
                 /\ \A m, n \in Nat : m < n => <<m, n>> \in below
    BY WF!NatLessThanWellFounded DEF WF!OpToRel
<1> QED BY <1>1, LeastByOrder

\* 2 ^ (k + 1) is twice 2 ^ k: each subset is counted with and without the
\* new element.
LEMMA PowerStep == \A k \in Nat : 2 ^ (k + 1) = 2 * 2 ^ k
<1> SUFFICES ASSUME NEW k \in Nat PROVE 2 ^ (k + 1) = 2 * 2 ^ k
    OBVIOUS
<1>0. PICK n : n = k + 1
    OBVIOUS
<1> DEFINE S == SUBSET (1 .. k)
           T == {x \cup {n} : x \in S}
           f == [x \in S |-> x \cup {n}]
<1>1. /\ FS!IsFiniteSet(1 .. k) /\ FS!Cardinality(1 .. k) = k
      /\ FS!IsFiniteSet(1 .. n) /\ FS!Cardinality(1 .. n) = n
    BY <1>0, FS!FS_Interval
<1>2. /\ FS!IsFiniteSet(S) /\ FS!Cardinality(S) = 2 ^ k
      /\ FS!IsFiniteSet(SUBSET (1 .. n)) /\ FS!Cardinality(SUBSET (1 .. n)) = 2 ^ n
    BY <1>1, FS!FS_SUBSET
<1>3. 1 .. n = 1 .. k \cup {n} /\ n \notin 1 .. k
    BY <1>0
<1>4. SUBSET (1 .. n) = S \cup T
    <2>1. ASSUME NEW x \in SUBSET (1 .. n) PROVE x \in S \cup T
        <3>1. CASE n \in x
            <4>1. x \ {n} \in S /\ x = (x \ {n}) \cup {n}
                BY <1>3, <3>1
            <4> QED BY <4>1
        <3>2. CASE n \notin x
            BY <1>3, <3>2
        <3> QED BY <3>1, <3>2
    <2>2. ASSUME NEW x \in S \cup T PROVE x \in SUBSET (1 .. n)
        BY <1>3
    <2> QED BY <2>1, <2>2
<1>5. S \cap T = {}
    BY <1>3
<1>6. f \in FS!Bijection(S, T)
    <2>1. f \in [S -> T]
        OBVIOUS
    <2>2. \A x, y \in S : f[x] = f[y] => x = y
        <3> SUFFICES ASSUME NEW x \in S, NEW y \in S, x \cup {n} = y \cup {n} PROVE x = y
            OBVIOUS
        <3>1. n \notin x /\ n \notin y
            BY <1>3
        <3> QED BY <3>1
    <2>3. \A t \in T : \E x \in S : f[x] = t
        OBVIOUS
    <2> QED BY <2>1, <2>2, <2>3 DEF FS!Bijection, FS!Injection, FS!Surjection, FS!IsInjective
<1> HIDE DEF S, T, f
<1>7. FS!IsFiniteSet(T) /\ FS!Cardinality(T) = FS!Cardinality(S)
    BY <1>2, <1>6, FS!FS_Bijection DEF FS!ExistsBijection
<1>8. FS!Cardinality(S \cup T)
         = FS!Cardinality(S) + FS!Cardinality(T) - FS!Cardinality(S \cap T)
    BY <1>2, <1>7, FS!FS_Union
<1>9. FS!Cardinality(S \cap T) = 0
    BY <1>5, FS!FS_EmptySet
<1>10. FS!Cardinality(S) \in Nat
    BY <1>2, FS!FS_CardinalityType
<1>11. 2 ^ n = FS!Cardinality(S) + FS!Cardinality(S) /\ 2 ^ k = FS!Cardinality(S)
    BY <1>2, <1>4, <1>7, <1>8, <1>9, <1>10
<1>12. 2 ^ (k + 1) = 2 ^ n
    BY <1>0
<1> QED BY <1>10, <1>11, <1>12

LEMMA Powers == \A k \in Nat : 2 ^ k \in Nat \ {0}
<1> SUFFICES ASSUME NEW k \in Nat PROVE 2 ^ k \in Nat \ {0}
    OBVIOUS
<1> DEFINE S == SUBSET (1 .. k)
<1>1. FS!IsFiniteSet(1 .. k) /\ FS!Cardinality(1 .. k) = k
    BY FS!FS_Interval
<1>2. FS!IsFiniteSet(S) /\ FS!Cardinality(S) = 2 ^ k
    BY <1>1, FS!FS_SUBSET
<1>3. {} \in S
    OBVIOUS
<1> HIDE DEF S
<1>4. FS!Cardinality(S) \in Nat /\ FS!Cardinality(S) # 0
    BY <1>2, <1>3, FS!FS_CardinalityType, FS!FS_EmptySet
<1> QED BY <1>2, <1>4

LEMMA SizePositive == ASSUME NEW m \in Nat PROVE Size(m) \in Nat \ {0}
<1>1. CASE m >= Width
    BY <1>1, WidthAssumption DEF Size
<1>2. CASE m < Width
    <2>1. Width - m \in Nat
        BY <1>2, WidthAssumption
    <2> QED BY <1>2, <2>1, Powers, WidthAssumption DEF Size
<1> QED BY <1>1, <1>2, WidthAssumption

LEMMA PowerZero == 2 ^ 0 = 1
<1>1. FS!IsFiniteSet({}) /\ FS!Cardinality({}) = 0
    BY FS!FS_EmptySet
<1>2. FS!Cardinality(SUBSET {}) = 2 ^ 0
    BY <1>1, FS!FS_SUBSET
<1>3. SUBSET {} = {{}}
    OBVIOUS
<1>4. FS!Cardinality({{}}) = 1
    BY FS!FS_Singleton
<1> QED BY <1>2, <1>3, <1>4

\* Each bit of the mask halves the network.
LEMMA SizeStep ==
    ASSUME NEW m \in 0 .. Width - 1
    PROVE Size(m) = 2 * Size(m + 1)
<1>1. Width \in Nat /\ m \in Nat /\ m < Width
    BY WidthAssumption
<1>2. PICK k \in Nat : k = Width - (m + 1) /\ Width - m = k + 1
    BY <1>1
<1>3. Size(m) = 2 ^ (k + 1)
    BY <1>1, <1>2 DEF Size
<1>4. Size(m + 1) = 2 ^ k
    <2>1. CASE m + 1 < Width
        BY <1>1, <1>2, <2>1 DEF Size
    <2>2. CASE m + 1 = Width
        <3>1. k = 0
            BY <1>1, <1>2, <2>2
        <3> QED BY <1>1, <2>2, <3>1, PowerZero DEF Size
    <2> QED BY <1>1, <2>1, <2>2
<1> QED BY <1>2, <1>3, <1>4, PowerStep

\* The size of a network is a multiple of that of a smaller one.
Divides(b, a) == \E q \in Nat \ {0} : Size(a) = Size(b) * q /\ (a < b => q >= 2)

LEMMA SizeFactor ==
    ASSUME NEW a \in 0 .. Width, NEW b \in 0 .. Width, a <= b
    PROVE Divides(b, a)
<1> DEFINE S == {k \in 0 .. Width : k <= b /\ ~Divides(b, b - k)}
<1>0. Width \in Nat /\ a \in Nat /\ b \in Nat
    BY WidthAssumption
<1>1. S \subseteq Nat
    BY <1>0
<1>2. ASSUME S # {} PROVE FALSE
    <2>1. PICK k \in S : \A j \in S : k <= j
        BY <1>1, <1>2, Smallest
    <2>2. k \in Nat /\ k <= b /\ ~Divides(b, b - k)
        BY <1>0, <2>1
    <2>3. k # 0
        <3>1. Size(b) \in Nat
            BY <1>0, SizePositive
        <3>2. Size(b) = Size(b) * 1
            BY <3>1
        <3>3. Divides(b, b)
            BY <1>0, <3>2 DEF Divides
        <3>4. b - 0 = b
            BY <1>0
        <3> QED BY <2>2, <3>3, <3>4
    <2>4. k - 1 \in Nat /\ k - 1 <= b /\ k - 1 \in 0 .. Width /\ ~(k <= k - 1)
        BY <1>0, <2>2, <2>3
    <2>5. Divides(b, b - (k - 1))
        BY <2>1, <2>4
    <2> DEFINE c == b - k
    <2>6. c \in 0 .. Width - 1 /\ c + 1 = b - (k - 1) /\ c \in Nat /\ c + 1 \in Nat
        BY <1>0, <2>2, <2>3
    <2>7. Size(c) = 2 * Size(c + 1)
        BY <2>6, SizeStep
    <2>8. PICK q \in Nat \ {0} : Size(c + 1) = Size(b) * q
        BY <2>5, <2>6 DEF Divides
    <2>9. Size(c) = Size(b) * (2 * q)
        <3>1. Size(b) \in Nat
            BY <1>0, SizePositive
        <3>2. \A s, r \in Nat : 2 * (s * r) = s * (2 * r)
            OBVIOUS
        <3> QED BY <2>7, <2>8, <3>1, <3>2
    <2>10. 2 * q \in Nat \ {0} /\ 2 * q >= 2
        OBVIOUS
    <2> QED BY <2>2, <2>9, <2>10 DEF Divides
<1>3. b - a \in 0 .. Width /\ b - a <= b /\ b - (b - a) = a
    BY <1>0
<1> QED BY <1>2, <1>3

--------------------------------------------------------------------------------
(***************************************************************************)
(* Blocks: networks whose first address is a multiple of their size.       *)
(***************************************************************************)
\* Facts of arithmetic for a size s.
LEMMA Remainder ==
    ASSUME NEW s \in Nat \ {0}, NEW j \in Nat, NEW r \in 0 .. s - 1
    PROVE (s * j + r) % s = r
OBVIOUS

LEMMA Multiple ==
    ASSUME NEW s \in Nat \ {0}, NEW a \in Nat, a % s = 0
    PROVE \E j \in Nat : a = s * j
<1>1. (a \div s) \in Nat /\ a = s * (a \div s) + (a % s)
    OBVIOUS
<1> QED BY <1>1

LEMMA Products ==
    ASSUME NEW s \in Nat \ {0}, NEW i \in Nat, NEW j \in Nat
    PROVE  /\ s * i \in Nat
           /\ s * i < s * j => i < j
           /\ i <= j => s * i <= s * j
           /\ s * (j + 1) = s * j + s
OBVIOUS

\* Where a block begins and ends.
LEMMA BlockType ==
    ASSUME NEW n \in ConfigNets
    PROVE  /\ n \in [first : Nat, mask : 0 .. Width, included : BOOLEAN]
           /\ Size(n.mask) \in Nat \ {0}
           /\ n.first \in Addresses /\ n.first % Size(n.mask) = 0
           /\ \E j \in Nat : n.first = Size(n.mask) * j
           /\ LastAddress(n) \in Nat /\ n.first <= LastAddress(n)
           /\ LastAddress(n) + 1 = n.first + Size(n.mask)
<1>1. n \in [first : Nat, mask : 0 .. Width, included : BOOLEAN] /\ n.first % Size(n.mask) = 0
    BY WidthAssumption, Powers DEF ConfigNets, Addresses
<1>2. Size(n.mask) \in Nat \ {0}
    BY <1>1, WidthAssumption, SizePositive
<1>3. \E j \in Nat : n.first = Size(n.mask) * j
    BY <1>1, <1>2, Multiple
<1>4. /\ LastAddress(n) \in Nat /\ n.first <= LastAddress(n)
      /\ LastAddress(n) + 1 = n.first + Size(n.mask)
    BY <1>1, <1>2 DEF LastAddress
<1>5. n.first \in Addresses
    BY DEF ConfigNets
<1> QED BY <1>1, <1>2, <1>3, <1>4, <1>5

LEMMA Between ==
    ASSUME NEW s \in Nat \ {0}, NEW i \in Nat, NEW k \in Nat, NEW l \in Nat,
           s * k < s * (i + 1), s * i < s * l
    PROVE s * k <= s * i /\ s * (i + 1) <= s * l
<1>1. k < i + 1 /\ i < l
    BY Products
<1>2. k <= i /\ i + 1 <= l
    BY <1>1
<1> QED BY <1>2, Products

\* Of two blocks that meet, the one with the longer mask lies in the other.
LEMMA Nested ==
    ASSUME NEW x \in ConfigNets, NEW y \in ConfigNets, y.mask <= x.mask,
           x.first <= LastAddress(y), y.first <= LastAddress(x)
    PROVE Contains(y, x)
<1>1. PICK i \in Nat : x.first = Size(x.mask) * i
    BY BlockType
<1>2. PICK j \in Nat : y.first = Size(y.mask) * j
    BY BlockType
<1>3. x.mask \in 0 .. Width /\ y.mask \in 0 .. Width
    BY BlockType
<1>4. PICK q \in Nat \ {0} : Size(y.mask) = Size(x.mask) * q
    BY <1>3, SizeFactor DEF Divides
<1>5. PICK s \in Nat \ {0} : s = Size(x.mask)
    BY BlockType
<1>6. PICK k \in Nat : k = q * j
    OBVIOUS
<1>7. PICK l \in Nat : l = q * (j + 1)
    OBVIOUS
<1>8. y.first = s * k
    <2>1. \A a, b, c \in Nat : (a * b) * c = a * (b * c)
        OBVIOUS
    <2> QED BY <1>2, <1>4, <1>5, <1>6, <2>1
<1>9. LastAddress(y) + 1 = s * l
    <2>1. \A a, b, c \in Nat : (a * b) * c + a * b = a * (b * (c + 1))
        OBVIOUS
    <2>2. LastAddress(y) + 1 = y.first + Size(y.mask)
        BY BlockType
    <2> QED BY <1>2, <1>4, <1>5, <1>7, <2>1, <2>2
<1>10. x.first = s * i /\ LastAddress(x) + 1 = s * (i + 1)
    <2>1. LastAddress(x) + 1 = x.first + Size(x.mask)
        BY BlockType
    <2> QED BY <1>1, <1>5, <2>1, Products
<1>11. /\ LastAddress(x) \in Nat /\ LastAddress(y) \in Nat
       /\ x.first \in Nat /\ y.first \in Nat
    BY BlockType
<1>12. s * k < s * (i + 1) /\ s * i < s * l
    BY <1>8, <1>9, <1>10, <1>11
<1>13. s * k <= s * i /\ s * (i + 1) <= s * l
    BY <1>12, Between
<1>14. y.first <= x.first /\ LastAddress(x) + 1 <= LastAddress(y) + 1
    BY <1>8, <1>9, <1>10, <1>13
<1> QED BY <1>11, <1>14 DEF Contains

\* A block has no longer mask than the blocks in it.
LEMMA Longer ==
    ASSUME NEW x \in ConfigNets, NEW y \in ConfigNets, Contains(y, x)
    PROVE y.mask <= x.mask /\ (x.mask = y.mask => SameNet(y, x))
<1>1. /\ x.mask \in 0 .. Width /\ y.mask \in 0 .. Width /\ Width \in Nat
      /\ Size(x.mask) \in Nat \ {0} /\ Size(y.mask) \in Nat \ {0}
      /\ x.first \in Nat /\ y.first \in Nat
      /\ LastAddress(x) + 1 = x.first + Size(x.mask)
      /\ LastAddress(y) + 1 = y.first + Size(y.mask)
      /\ LastAddress(x) \in Nat /\ LastAddress(y) \in Nat
    BY BlockType, WidthAssumption
<1>2. y.first <= x.first /\ LastAddress(x) <= LastAddress(y)
    BY <1>1 DEF Contains
<1>3. Size(x.mask) <= Size(y.mask)
    BY <1>1, <1>2
<1>4. y.mask <= x.mask
    <2>1. SUFFICES ASSUME x.mask < y.mask PROVE FALSE
        BY <1>1
    <2>2. PICK q \in Nat \ {0} : Size(x.mask) = Size(y.mask) * q /\ q >= 2
        BY <1>1, <2>1, SizeFactor DEF Divides
    <2>3. \A s \in Nat \ {0}, r \in Nat : r >= 2 => s * r >= s + s
        OBVIOUS
    <2>4. Size(x.mask) >= Size(y.mask) + Size(y.mask)
        BY <1>1, <2>2, <2>3
    <2> QED BY <1>1, <1>3, <2>4
<1>5. x.mask = y.mask => x.first = y.first
    BY <1>1, <1>2
<1> QED BY <1>4, <1>5 DEF SameNet

\* A block lies within the addresses, which are the block of mask 0.
LEMMA LastInside ==
    ASSUME NEW n \in ConfigNets
    PROVE n.first + Size(n.mask) <= 2 ^ Width
<1> DEFINE all == [first |-> 0, mask |-> 0, included |-> TRUE]
<1>1. Width \in Nat \ {0} /\ 2 ^ Width \in Nat \ {0} /\ Size(0) = 2 ^ Width
    BY WidthAssumption, Powers DEF Size
<1>2. all \in ConfigNets
    <2>1. 0 \in Addresses /\ 0 % 2 ^ Width = 0
        BY <1>1 DEF Addresses
    <2>2. all \in [first : Addresses, mask : 0 .. Width, included : BOOLEAN]
        BY <1>1, <2>1
    <2> QED BY <1>1, <2>1, <2>2 DEF ConfigNets
<1>3. all.first = 0 /\ all.mask = 0
    OBVIOUS
<1> HIDE DEF all
<1>4. LastAddress(all) = 2 ^ Width - 1
    BY <1>1, <1>3 DEF LastAddress
<1>5. /\ n.first \in 0 .. 2 ^ Width - 1 /\ n.mask \in 0 .. Width
      /\ LastAddress(n) \in Nat /\ LastAddress(n) + 1 = n.first + Size(n.mask)
      /\ Size(n.mask) \in Nat
    BY BlockType DEF Addresses
<1>6. Contains(all, n)
    BY <1>1, <1>2, <1>3, <1>4, <1>5, Nested
<1> QED BY <1>1, <1>4, <1>5, <1>6 DEF Contains

\* The halves of a block are blocks and cover it.
LEMMA Halves ==
    ASSUME NEW n \in ConfigNets, n.mask < Width
    PROVE  /\ FirstHalf(n) \in ConfigNets /\ SecondHalf(n) \in ConfigNets
           /\ FirstHalf(n).mask = n.mask + 1 /\ SecondHalf(n).mask = n.mask + 1
           /\ FirstHalf(n).included = n.included /\ SecondHalf(n).included = n.included
           /\ FirstHalf(n).first = n.first
           /\ SecondHalf(n).first = LastAddress(FirstHalf(n)) + 1
           /\ n.first < SecondHalf(n).first
           /\ LastAddress(SecondHalf(n)) = LastAddress(n)
           /\ SecondHalf(n).first % Size(n.mask) = Size(n.mask + 1)
<1> DEFINE m == n.mask
<1>1. /\ n \in [first : Nat, mask : 0 .. Width, included : BOOLEAN]
      /\ m \in 0 .. Width - 1 /\ m + 1 \in 0 .. Width /\ Width \in Nat
    BY BlockType, WidthAssumption
<1>2. PICK s \in Nat \ {0} : s = Size(m + 1) /\ Size(m) = 2 * s
    BY <1>1, SizeStep, SizePositive
<1>3. PICK j \in Nat : n.first = Size(m) * j
    BY BlockType
<1>4. /\ FirstHalf(n) \in [first : Nat, mask : 0 .. Width, included : BOOLEAN]
      /\ FirstHalf(n).first = n.first /\ FirstHalf(n).mask = m + 1
      /\ FirstHalf(n).included = n.included
    BY <1>1 DEF FirstHalf
<1>5. LastAddress(FirstHalf(n)) + 1 = n.first + s
    BY <1>1, <1>2, <1>4 DEF LastAddress
<1>6. n.first + s \in Nat
    BY <1>1
<1>7. SecondHalf(n) = [n EXCEPT !.mask = @ + 1, !.first = LastAddress(FirstHalf(n)) + 1]
    BY DEF SecondHalf
<1>8. [n EXCEPT !.mask = @ + 1] \in [first : Nat, mask : 0 .. Width, included : BOOLEAN]
    BY <1>1
<1>9. /\ SecondHalf(n) \in [first : Nat, mask : 0 .. Width, included : BOOLEAN]
      /\ SecondHalf(n).first = n.first + s /\ SecondHalf(n).mask = m + 1
      /\ SecondHalf(n).included = n.included
    BY <1>1, <1>5, <1>6, <1>7, <1>8
<1>10. n.first % s = 0 /\ (n.first + s) % s = 0
    <2>1. PICK i \in Nat : i = 2 * j
        OBVIOUS
    <2>2. \A a, b \in Nat : (2 * a) * b = a * (2 * b)
        OBVIOUS
    <2>3. n.first = s * i
        BY <1>2, <1>3, <2>1, <2>2
    <2>4. \A k \in Nat : (s * k) % s = 0
        BY Remainder
    <2>5. n.first + s = s * (i + 1)
        BY <2>3, Products
    <2> QED BY <2>3, <2>4, <2>5
<1>11. (n.first + s) % Size(m) = s
    <2>1. PICK t \in Nat \ {0} : t = Size(m) /\ t = 2 * s
        BY <1>2
    <2>2. s \in 0 .. t - 1
        BY <2>1
    <2> QED BY <1>3, <2>1, <2>2, Remainder
<1>12. n.first + s \in Addresses
    <2>1. n.first + Size(m) <= 2 ^ Width
        BY LastInside
    <2> QED BY <1>1, <1>2, <2>1, Powers DEF Addresses
<1>13. FirstHalf(n) \in ConfigNets /\ SecondHalf(n) \in ConfigNets
    <2>1. n.first \in Addresses
        BY BlockType
    <2> QED BY <1>1, <1>2, <1>4, <1>9, <1>10, <1>12, <2>1 DEF ConfigNets
<1>14. LastAddress(SecondHalf(n)) = LastAddress(n)
    BY <1>1, <1>2, <1>9 DEF LastAddress
<1> QED BY <1>1, <1>2, <1>4, <1>5, <1>9, <1>11, <1>13, <1>14

\* A block inside another lies in one of its halves.
LEMMA InHalf ==
    ASSUME NEW n \in ConfigNets, NEW x \in ConfigNets, Within(n, x)
    PROVE  /\ n.mask < x.mask /\ n.mask < Width
           /\ Contains(FirstHalf(n), x) \/ Contains(SecondHalf(n), x)
<1>1. n.mask < x.mask /\ n.mask < Width /\ n.mask + 1 <= x.mask
    <2>1. /\ n.mask \in 0 .. Width /\ x.mask \in 0 .. Width /\ Width \in Nat
        BY BlockType, WidthAssumption
    <2>2. n.mask <= x.mask /\ n.mask # x.mask
        BY Longer DEF Within
    <2> QED BY <2>1, <2>2
<1> DEFINE f == FirstHalf(n)
           s == SecondHalf(n)
<1>2. /\ f \in ConfigNets /\ s \in ConfigNets /\ f.mask <= x.mask /\ s.mask <= x.mask
      /\ f.first = n.first /\ s.first = LastAddress(f) + 1 /\ LastAddress(s) = LastAddress(n)
    BY <1>1, Halves
<1> HIDE DEF f, s
<1>3. /\ x.first \in Nat /\ LastAddress(x) \in Nat /\ x.first <= LastAddress(x)
      /\ LastAddress(f) \in Nat /\ LastAddress(s) \in Nat /\ f.first \in Nat /\ s.first \in Nat
    BY <1>2, BlockType
<1>4. n.first <= x.first /\ LastAddress(x) <= LastAddress(n)
    BY <1>2, <1>3 DEF Within, Contains
<1>5. CASE x.first <= LastAddress(f)
    BY <1>1, <1>2, <1>3, <1>4, <1>5, Nested DEF f, s
<1>6. CASE x.first >= s.first
    BY <1>1, <1>2, <1>3, <1>4, <1>6, Nested DEF f, s
<1> QED BY <1>1, <1>2, <1>3, <1>5, <1>6

\* The halves of a block are the blocks that have it as Parent.
LEMMA ParentOfHalf ==
    ASSUME NEW n \in ConfigNets, n.mask < Width, NEW x, x \in ConfigNets,
           SameNet(x, SecondHalf(n))
    PROVE \A z : Contains(Parent(x), z) <=> Contains(n, z)
<1>1. /\ n \in [first : Nat, mask : 0 .. Width, included : BOOLEAN]
      /\ x \in [first : Nat, mask : 0 .. Width, included : BOOLEAN]
      /\ Width \in Nat /\ Size(n.mask) \in Nat \ {0}
    BY BlockType, WidthAssumption
<1>2. x.mask = n.mask + 1 /\ x.first = SecondHalf(n).first /\ x.mask - 1 = n.mask
    BY <1>1, Halves DEF SameNet
<1>3. x.first % Size(n.mask) = Size(n.mask + 1)
    BY <1>2, Halves
<1>4. x.first - Size(n.mask + 1) = n.first
    <2>1. /\ SecondHalf(n).first = LastAddress(FirstHalf(n)) + 1
          /\ FirstHalf(n).first = n.first /\ FirstHalf(n).mask = n.mask + 1
          /\ FirstHalf(n) \in ConfigNets
        BY Halves
    <2>2. Size(n.mask + 1) \in Nat /\ LastAddress(FirstHalf(n)) + 1 = n.first + Size(n.mask + 1)
        BY <2>1, BlockType
    <2> QED BY <1>1, <1>2, <2>1, <2>2
<1>5. Parent(x).mask = n.mask /\ Parent(x).first = n.first
    BY <1>1, <1>2, <1>3, <1>4 DEF Parent
<1> QED BY <1>5 DEF Contains, LastAddress

\* What a block is, as far as the following needs to know.
LEMMA BlockFacts ==
    ASSUME NEW n \in ConfigNets
    PROVE  /\ n.first \in Nat /\ n.mask \in Nat /\ n.mask <= Width
           /\ n.included \in BOOLEAN
           /\ n = [first |-> n.first, mask |-> n.mask, included |-> n.included]
           /\ LastAddress(n) \in Nat /\ n.first <= LastAddress(n)
<1>1. n \in [first : Nat, mask : 0 .. Width, included : BOOLEAN]
    BY BlockType
<1> QED BY <1>1, BlockType, WidthAssumption

\* Containing is an order of blocks, up to their type.
LEMMA ContainsOrder ==
    /\ \A n \in ConfigNets : Contains(n, n)
    /\ \A n, o \in ConfigNets : SameNet(n, o) => Contains(n, o) /\ SameNet(o, n)
    /\ \A n, o \in ConfigNets : Contains(n, o) /\ Contains(o, n) => SameNet(n, o)
    /\ \A n, o, p \in ConfigNets : Contains(n, o) /\ Contains(o, p) => Contains(n, p)
<1>1. \A n \in ConfigNets : Contains(n, n)
    BY BlockFacts DEF Contains
<1>2. \A n, o \in ConfigNets : SameNet(n, o) => Contains(n, o) /\ SameNet(o, n)
    <2> SUFFICES ASSUME NEW n \in ConfigNets, NEW o \in ConfigNets, SameNet(n, o)
                 PROVE Contains(n, o) /\ SameNet(o, n)
        OBVIOUS
    <2>1. n.first = o.first /\ LastAddress(n) = LastAddress(o) /\ SameNet(o, n)
        BY DEF SameNet, LastAddress
    <2> QED BY <2>1, BlockFacts DEF Contains
<1>3. \A n, o \in ConfigNets : Contains(n, o) /\ Contains(o, n) => SameNet(n, o)
    <2> SUFFICES ASSUME NEW n \in ConfigNets, NEW o \in ConfigNets,
                        Contains(n, o), Contains(o, n)
                 PROVE SameNet(n, o)
        OBVIOUS
    <2>1. n.mask <= o.mask /\ o.mask <= n.mask /\ (o.mask = n.mask => SameNet(n, o))
        BY Longer
    <2> QED BY <2>1, BlockFacts
<1>4. \A n, o, p \in ConfigNets : Contains(n, o) /\ Contains(o, p) => Contains(n, p)
    <2> SUFFICES ASSUME NEW n \in ConfigNets, NEW o \in ConfigNets, NEW p \in ConfigNets,
                        Contains(n, o), Contains(o, p)
                 PROVE Contains(n, p)
        OBVIOUS
    <2>1. /\ n.first \in Nat /\ o.first \in Nat /\ p.first \in Nat
          /\ LastAddress(n) \in Nat /\ LastAddress(o) \in Nat /\ LastAddress(p) \in Nat
        BY BlockFacts
    <2> QED BY <2>1 DEF Contains
<1> QED BY <1>1, <1>2, <1>3, <1>4

\* Within is the strict order, and goes with longer masks.
LEMMA WithinOrder ==
    ASSUME NEW n \in ConfigNets, NEW o \in ConfigNets, NEW p \in ConfigNets
    PROVE  /\ Contains(n, o) /\ Within(o, p) => Within(n, p)
           /\ Within(n, o) /\ Contains(o, p) => Within(n, p)
           /\ Within(n, o) => ~Contains(o, n) /\ n.mask < o.mask
<1>1. Within(n, o) => ~Contains(o, n)
    BY ContainsOrder DEF Within
<1>2. Within(n, o) => n.mask < o.mask
    BY InHalf
<1>3. Contains(n, o) /\ Within(o, p) => Within(n, p)
    BY ContainsOrder DEF Within
<1>4. Within(n, o) /\ Contains(o, p) => Within(n, p)
    BY ContainsOrder DEF Within
<1> QED BY <1>1, <1>2, <1>3, <1>4

\* Blocks that meet are nested.
LEMMA MeetNested ==
    ASSUME NEW n \in ConfigNets, NEW o \in ConfigNets,
           n.first <= LastAddress(o), o.first <= LastAddress(n)
    PROVE  Contains(n, o) \/ Within(o, n)
<1>1. n.mask <= o.mask \/ o.mask <= n.mask
    BY BlockFacts
<1>2. Contains(n, o) \/ Contains(o, n)
    BY <1>1, Nested
<1> QED BY <1>2, ContainsOrder DEF Within

\* So are blocks that cover the same address.
LEMMA CoverNested ==
    ASSUME NEW n \in ConfigNets, NEW o \in ConfigNets, NEW a \in Int,
           Covers(n, a), Covers(o, a)
    PROVE  Contains(n, o) \/ Within(o, n)
<1>1. /\ n.first \in Nat /\ o.first \in Nat
      /\ LastAddress(n) \in Nat /\ LastAddress(o) \in Nat
    BY BlockFacts
<1>2. n.first <= LastAddress(o) /\ o.first <= LastAddress(n)
    BY <1>1 DEF Covers
<1> QED BY <1>2, MeetNested

\* What contains a half contains the whole or is that half.
LEMMA AroundHalf ==
    ASSUME NEW n \in ConfigNets, n.mask < Width, NEW h \in {FirstHalf(n), SecondHalf(n)}
    PROVE  /\ h \in ConfigNets /\ h.included = n.included /\ Within(n, h)
           /\ n.first <= h.first
           /\ \A x \in ConfigNets :
                 Contains(x, h) => Contains(x, n) \/ (SameNet(x, h) /\ Within(n, x))
<1>1. /\ h \in ConfigNets /\ h.included = n.included /\ h.mask = n.mask + 1
      /\ n.first <= h.first /\ LastAddress(h) <= LastAddress(n)
    <2>1. CASE h = SecondHalf(n)
        BY <2>1, Halves, BlockFacts
    <2>2. CASE h = FirstHalf(n)
        <3> DEFINE s == SecondHalf(n)
        <3>1. /\ h \in ConfigNets /\ h.included = n.included /\ h.mask = n.mask + 1
              /\ h.first = n.first /\ s \in ConfigNets
              /\ s.first = LastAddress(h) + 1 /\ LastAddress(s) = LastAddress(n)
            BY <2>2, Halves
        <3> HIDE DEF s
        <3> QED BY <3>1, BlockFacts
    <2> QED BY <2>1, <2>2
<1>2. Within(n, h)
    BY <1>1, BlockFacts DEF Within, Contains, SameNet
<1>3. ASSUME NEW x \in ConfigNets, Contains(x, h), ~Contains(x, n)
      PROVE SameNet(x, h) /\ Within(n, x)
    <2>1. n.first <= LastAddress(x) /\ x.first <= LastAddress(n)
        <3>1. /\ n.first \in Nat /\ x.first \in Nat /\ h.first \in Nat
              /\ LastAddress(n) \in Nat /\ LastAddress(x) \in Nat /\ LastAddress(h) \in Nat
              /\ h.first <= LastAddress(h)
            BY <1>1, BlockFacts
        <3> QED BY <1>1, <1>3, <3>1 DEF Contains
    <2>2. Within(n, x)
        BY <1>3, <2>1, MeetNested
    <2>3. n.mask < x.mask /\ x.mask <= h.mask /\ (h.mask = x.mask => SameNet(x, h))
        BY <1>1, <1>3, <2>2, InHalf, Longer
    <2> QED BY <1>1, <2>2, <2>3, BlockFacts
<1> QED BY <1>1, <1>2, <1>3

--------------------------------------------------------------------------------
(***************************************************************************)
(* Networks and their queue, whatever is configured.                       *)
(***************************************************************************)
\* A network as the algorithm meets it: its masks may get longer than an
\* address, and its first address may lie behind the last one.
Net == [first : Nat, mask : Nat, included : BOOLEAN]

\* A network has a last address, and it is not before the first.
LEMMA LastType ==
    ASSUME NEW n \in Net
    PROVE LastAddress(n) \in Nat /\ n.first <= LastAddress(n)
BY SizePositive DEF LastAddress, Net

\* The halves of a network are networks that begin with it and behind it.
LEMMA HalvesType ==
    ASSUME NEW n \in Net
    PROVE  /\ FirstHalf(n) \in Net /\ FirstHalf(n).first = n.first
           /\ SecondHalf(n) \in Net /\ n.first < SecondHalf(n).first
<1>1. FirstHalf(n) \in Net /\ FirstHalf(n).first = n.first
    BY DEF FirstHalf, Net
<1>2. LastAddress(FirstHalf(n)) \in Nat /\ n.first <= LastAddress(FirstHalf(n))
    BY <1>1, LastType
<1> DEFINE last == LastAddress(FirstHalf(n))
<1> HIDE DEF last
<1>3. SecondHalf(n) = [n EXCEPT !.mask = @ + 1, !.first = last + 1]
    BY DEF SecondHalf, last
<1>4. SecondHalf(n) \in Net /\ SecondHalf(n).first = last + 1
    <2>1. last + 1 \in Nat /\ n.mask + 1 \in Nat
        BY <1>2 DEF last, Net
    <2>2. [n EXCEPT !.mask = @ + 1] \in Net
        BY <2>1 DEF Net
    <2> QED BY <1>3, <2>1, <2>2 DEF Net
<1> QED BY <1>1, <1>2, <1>4 DEF Net, last

(***************************************************************************)
(* The queue.                                                              *)
(***************************************************************************)
LEMMA QueueOf ==
    /\ BagToSet(EmptyBag) = {}
    /\ \A S : BagToSet(SetToBag(S)) = S
    /\ \A q, n : BagToSet(Poll(q, n)) \subseteq BagToSet(q)
    /\ \A q, n : BagToSet(q) \ {n} \subseteq BagToSet(Poll(q, n))
    /\ \A q, n : BagToSet(Add(q, n)) = BagToSet(q) \cup {n}
    /\ \A q, n : BagToSet(AddUnlessPresent(q, n)) \subseteq BagToSet(q) \cup {n}
<1>1. \A S : BagToSet(SetToBag(S)) = S
    BY DEF BagToSet, SetToBag
<1>2. BagToSet(EmptyBag) = {}
    BY DEF BagToSet, EmptyBag, SetToBag
<1>3. \A q, n : BagToSet(Poll(q, n)) \subseteq BagToSet(q)
    BY DEF BagToSet, Poll, BagRemove
<1>4. \A q, n : BagToSet(Add(q, n)) = BagToSet(q) \cup {n}
    BY DEF BagToSet, Add, BagAdd
<1>5. \A q, n : BagToSet(q) \ {n} \subseteq BagToSet(Poll(q, n))
    BY DEF BagToSet, Poll, BagRemove
<1>6. \A q, n : BagToSet(AddUnlessPresent(q, n)) \subseteq BagToSet(q) \cup {n}
    BY <1>4 DEF AddUnlessPresent
<1> QED BY <1>1, <1>2, <1>3, <1>4, <1>5, <1>6

\* AddUnlessPresent adds what has no equal, and then it has one.
LEMMA AddedUnlessPresent ==
    ASSUME NEW q, NEW n, NEW q2, q2 = AddUnlessPresent(q, n)
    PROVE  /\ BagToSet(q) \subseteq BagToSet(q2)
           /\ \A o \in BagToSet(q2) :
                 o \in BagToSet(q) \/ (o = n /\ ~\E p \in BagToSet(q) : SameNet(n, p))
           /\ \E o \in BagToSet(q2) : SameNet(n, o)
<1>1. CASE \E o \in BagToSet(q) : SameNet(n, o)
    <2>1. q2 = q
        BY <1>1 DEF AddUnlessPresent
    <2> QED BY <1>1, <2>1
<1>2. CASE ~\E o \in BagToSet(q) : SameNet(n, o)
    <2>1. q2 = Add(q, n)
        BY <1>2 DEF AddUnlessPresent
    <2>2. BagToSet(q2) = BagToSet(q) \cup {n}
        BY <2>1, QueueOf
    <2>3. SameNet(n, n)
        BY DEF SameNet
    <2> QED BY <1>2, <2>2, <2>3
<1> QED BY <1>1, <1>2

\* What poll() returns begins no later than what stays.
LEMMA HeadFirst ==
    ASSUME NEW queue, BagToSet(queue) \subseteq Net, NEW n \in Heads(queue)
    PROVE n \in BagToSet(queue) /\ \A o \in BagToSet(queue) : n.first <= o.first
BY DEF Heads, Before, Net

--------------------------------------------------------------------------------
(***************************************************************************)
(* The inductive invariant: what is placed lies before what is still to be *)
(* placed, whose first is currentNet.                                      *)
(***************************************************************************)
NetsOK ==
    /\ mIpAddresses \subseteq Net
    /\ BagToSet(networks) \subseteq Net
    /\ currentNet \in Net
    /\ ipsDone \subseteq Net
    /\ phase = "config" => ipsDone = {}

CurrentFirst ==
    phase = "merge" /\ currentNet # NoNet =>
       /\ \A d \in ipsDone : LastAddress(d) < currentNet.first
       /\ \A q \in BagToSet(networks) : currentNet.first <= q.first

PlacedApart ==
    \A n, o \in ipsDone :
       n # o => LastAddress(n) < o.first \/ LastAddress(o) < n.first

PlacedInv == NetsOK /\ CurrentFirst /\ PlacedApart

LEMMA PlaceOne ==
    ASSUME NetsOK, PlacedApart, \A d \in ipsDone : LastAddress(d) < currentNet.first,
           ipsDone' = TreeAdd(ipsDone, currentNet)
    PROVE  /\ PlacedApart' /\ ipsDone' \subseteq Net
           /\ \A d \in ipsDone' : d \in ipsDone \/ d = currentNet
BY DEF NetsOK, PlacedApart, TreeAdd

LEMMA MergeKeeps ==
    ASSUME PlacedInv, Merge
    PROVE PlacedInv'
<1>1. PICK next \in Heads(networks) : Step(next)
    BY DEF Merge
<1>2. /\ phase = "merge" /\ currentNet # NoNet /\ phase' = phase
      /\ mIpAddresses' = mIpAddresses
    BY DEF Merge
<1>3. next \in Net /\ \A o \in BagToSet(networks) : o \in Net /\ next.first <= o.first
    BY <1>1, HeadFirst DEF PlacedInv, NetsOK
<1>4. /\ currentNet.first <= next.first /\ next \in BagToSet(networks)
      /\ \A d \in ipsDone : LastAddress(d) < currentNet.first
      /\ currentNet \in Net /\ ipsDone \subseteq Net
    BY <1>1, <1>2, HeadFirst DEF PlacedInv, NetsOK, CurrentFirst
<1>5. ASSUME currentNet' \in Net, currentNet'.first = currentNet.first, ipsDone' = ipsDone,
             \A q \in BagToSet(networks') : q \in Net /\ currentNet.first <= q.first
      PROVE PlacedInv'
    BY <1>2, <1>4, <1>5 DEF PlacedInv, NetsOK, CurrentFirst, PlacedApart
<1>6. CASE PlaceCurrent(next)
    <2>1. /\ LastAddress(currentNet) < next.first /\ currentNet' = next
          /\ ipsDone' = TreeAdd(ipsDone, currentNet) /\ networks' = Poll(networks, next)
        BY <1>6 DEF PlaceCurrent, Apart
    <2>2. /\ PlacedApart' /\ ipsDone' \subseteq Net
          /\ \A d \in ipsDone' : d \in ipsDone \/ d = currentNet
        BY <1>4, <2>1, PlaceOne DEF PlacedInv
    <2>3. BagToSet(networks') \subseteq BagToSet(networks)
        BY <2>1, QueueOf
    <2>4. \A d \in ipsDone' : LastAddress(d) < next.first
        <3>1. \A d \in ipsDone : LastAddress(d) \in Nat /\ LastAddress(d) < currentNet.first
            BY <1>4, LastType
        <3>2. currentNet.first \in Nat /\ next.first \in Nat
            BY <1>3, <1>4 DEF Net
        <3> QED BY <1>4, <2>1, <2>2, <3>1, <3>2
    <2> QED BY <1>2, <1>3, <2>1, <2>2, <2>3, <2>4 DEF PlacedInv, NetsOK, CurrentFirst
<1>7. CASE ForgetCurrent(next)
    <2>1. /\ currentNet' = next /\ next.first = currentNet.first /\ ipsDone' = ipsDone
          /\ networks' = Poll(networks, next)
        BY <1>7 DEF ForgetCurrent, Inside
    <2> QED BY <1>3, <1>5, <2>1, QueueOf
<1>8. CASE SplitNext(next)
    <2>1. /\ currentNet' = currentNet /\ next.first = currentNet.first /\ ipsDone' = ipsDone
        BY <1>8 DEF SplitNext, Inside
    <2>2. BagToSet(networks') \subseteq BagToSet(networks) \cup {FirstHalf(next), SecondHalf(next)}
        <3> DEFINE polled == Poll(networks, next)
                   queue == AddUnlessPresent(polled, SecondHalf(next))
        <3>1. networks' \in {queue, AddUnlessPresent(queue, FirstHalf(next))}
            BY <1>8 DEF SplitNext
        <3>2. /\ BagToSet(polled) \subseteq BagToSet(networks)
              /\ BagToSet(queue) \subseteq BagToSet(polled) \cup {SecondHalf(next)}
              /\ BagToSet(AddUnlessPresent(queue, FirstHalf(next)))
                    \subseteq BagToSet(queue) \cup {FirstHalf(next)}
            BY QueueOf
        <3> HIDE DEF polled, queue
        <3> QED BY <3>1, <3>2
    <2>3. /\ FirstHalf(next) \in Net /\ FirstHalf(next).first = next.first
          /\ SecondHalf(next) \in Net /\ next.first <= SecondHalf(next).first
        BY <1>3, HalvesType DEF Net
    <2> QED BY <1>3, <1>4, <1>5, <2>1, <2>2, <2>3
<1>9. CASE ForgetNext(next)
    <2>1. /\ currentNet' = currentNet /\ ipsDone' = ipsDone
          /\ BagToSet(networks') \subseteq BagToSet(networks)
        BY <1>9, QueueOf DEF ForgetNext
    <2> QED BY <1>2, <1>3, <1>4, <1>5, <2>1 DEF PlacedInv, CurrentFirst
<1>10. CASE SplitCurrent(next)
    <2>1. /\ currentNet' = FirstHalf(currentNet) /\ ipsDone' = ipsDone
          /\ BagToSet(networks') \subseteq BagToSet(networks) \cup {SecondHalf(currentNet)}
        BY <1>10, QueueOf DEF SplitCurrent
    <2>2. /\ FirstHalf(currentNet) \in Net /\ FirstHalf(currentNet).first = currentNet.first
          /\ SecondHalf(currentNet) \in Net /\ currentNet.first <= SecondHalf(currentNet).first
        BY <1>4, HalvesType DEF Net
    <2> QED BY <1>2, <1>3, <1>4, <1>5, <2>1, <2>2 DEF PlacedInv, CurrentFirst
<1> QED BY <1>1, <1>6, <1>7, <1>8, <1>9, <1>10 DEF Step

LEMMA PlacedInvHolds == Spec => []PlacedInv
<1>0. NoNet \in Net
    BY WidthAssumption DEF NoNet, Net
<1>1. Init => PlacedInv
    BY <1>0, QueueOf DEF Init, PlacedInv, NetsOK, CurrentFirst, PlacedApart
<1>2. PlacedInv /\ [Next]_vars => PlacedInv'
    <2> SUFFICES ASSUME PlacedInv, [Next]_vars PROVE PlacedInv'
        OBVIOUS
    <2>1. ASSUME NEW n \in ConfigNets, AddIP(n) PROVE PlacedInv'
        <3>1. n \in Net
            BY WidthAssumption, Powers DEF ConfigNets, Net, Addresses
        <3>2. mIpAddresses' \subseteq Net
            BY <2>1, <3>1 DEF AddIP, TreeAdd, PlacedInv, NetsOK
        <3> QED BY <2>1, <3>2 DEF AddIP, PlacedInv, NetsOK, CurrentFirst, PlacedApart
    <2>2. CASE Clear
        BY <1>0, <2>2, QueueOf DEF Clear, PlacedInv, NetsOK, CurrentFirst, PlacedApart
    <2>3. CASE Generate
        <3> USE DEF Generate, PlacedInv, NetsOK, CurrentFirst, PlacedApart
        <3>1. ipsDone = {} /\ ipsDone' = {} /\ phase' = "merge" /\ mIpAddresses' = mIpAddresses
            BY <2>3
        <3>2. CASE mIpAddresses = {}
            BY <1>0, <2>3, <3>1, <3>2, QueueOf
        <3>3. CASE mIpAddresses # {}
            <4>1. PICK n \in Heads(SetToBag(mIpAddresses)) :
                     currentNet' = n /\ networks' = Poll(SetToBag(mIpAddresses), n)
                BY <2>3, <3>3
            <4>2. /\ n \in mIpAddresses /\ BagToSet(networks') \subseteq mIpAddresses
                  /\ \A o \in mIpAddresses : n.first <= o.first
                BY <4>1, QueueOf, HeadFirst
            <4> QED BY <3>1, <4>1, <4>2
        <3> QED BY <3>2, <3>3
    <2>4. CASE Merge
        BY <2>4, MergeKeeps
    <2>5. CASE PlaceLast
        <3>1. /\ phase = "merge" /\ currentNet # NoNet /\ currentNet' = NoNet
              /\ ipsDone' = TreeAdd(ipsDone, currentNet)
              /\ UNCHANGED <<mIpAddresses, networks, phase>>
            BY <2>5 DEF PlaceLast
        <3>2. PlacedApart' /\ ipsDone' \subseteq Net
            BY <3>1, PlaceOne DEF PlacedInv, CurrentFirst
        <3> QED BY <1>0, <3>1, <3>2 DEF PlacedInv, NetsOK, CurrentFirst
    <2>6. CASE Finish
        BY <2>6 DEF Finish, PlacedInv, NetsOK, CurrentFirst, PlacedApart
    <2>7. CASE UNCHANGED vars
        BY <2>7 DEF vars, PlacedInv, NetsOK, CurrentFirst, PlacedApart
    <2> QED BY <2>1, <2>2, <2>3, <2>4, <2>5, <2>6, <2>7 DEF Next
<1> QED BY <1>1, <1>2, PTL DEF Spec

\* Whatever was configured, no address lies in two networks of the result, so
\* Android never gets to choose between two routes of different type
\* (generateIPList).
THEOREM NeverOverlap == Spec => []Disjoint
<1>1. PlacedInv => Disjoint
    <2> SUFFICES ASSUME PlacedInv, NEW n \in ipsDone, NEW o \in ipsDone, ~SameNet(n, o),
                        NEW a \in Addresses, Covers(n, a), Covers(o, a)
                 PROVE FALSE
        BY DEF Disjoint
    <2>1. a \in Int /\ n \in Net /\ o \in Net
        BY WidthAssumption, Powers DEF Addresses, PlacedInv, NetsOK
    <2>2. LastAddress(n) < o.first \/ LastAddress(o) < n.first
        BY DEF SameNet, PlacedInv, PlacedApart
    <2>3. LastAddress(n) \in Nat /\ LastAddress(o) \in Nat
        BY <2>1, LastType
    <2> QED BY <2>1, <2>2, <2>3 DEF Covers, Net
<1> QED BY <1>1, PlacedInvHolds, PTL

--------------------------------------------------------------------------------
(***************************************************************************)
(* Layered configurations. A configured network inside one of the other    *)
(* type is cut out of it; in a layered configuration no further network    *)
(* lies in it.                                                             *)
(***************************************************************************)
\* What addIP() lets in: blocks, one for each first address and mask.
ConfigOK(nets) ==
    /\ nets \subseteq ConfigNets
    /\ \A n, o \in nets : SameNet(n, o) => n = o

\* One network inside one of the other type.
Opposed(outer, inner) == Within(outer, inner) /\ outer.included # inner.included

\* A configured network inside a configured one of the other type.
Cut(nets, x) == x \in nets /\ \E o \in nets : Opposed(o, x)

\* No other configured network lies in one that is cut.
LEMMA CutIsPlain ==
    ASSUME NEW nets, ConfigOK(nets), Layered(nets), NEW x, Cut(nets, x),
           NEW y \in nets, Contains(x, y)
    PROVE  y = x
<1>1. PICK o \in nets : Within(o, x) /\ o.included # x.included
    BY DEF Cut, Opposed
<1>2. x \in nets /\ ~Within(x, y)
    BY <1>1 DEF Cut, Layered
<1> QED BY <1>2 DEF Within, ConfigOK

\* A configured network in one of the other type is cut by it.
LEMMA ContainOpposed ==
    ASSUME NEW nets, ConfigOK(nets), NEW o \in nets, NEW x \in nets,
           Contains(o, x), o.included # x.included
    PROVE  Opposed(o, x) /\ Cut(nets, x)
BY DEF ConfigOK, Opposed, Cut, Within

\* The most specific configured network around all of n has the type of n.
Origin(nets, n) ==
    \E r \in nets :
       /\ r.included = n.included /\ Contains(r, n)
       /\ \A x \in nets : Contains(x, n) /\ x.included # n.included => Contains(x, r)

\* The networks still to be placed: they are blocks, the current one first, and
\* equal ones have one type; each has the type it is to be placed with; and each
\* network that is cut is still there, whole, unless it is behind.
Sound(nets, current, queued) ==
    LET live == {current} \cup queued IN
    /\ live \subseteq ConfigNets
    /\ \A q \in queued : ~Before(q, current)
    /\ \A n, o \in live : SameNet(n, o) => n.included = o.included
    /\ \A n \in live : Origin(nets, n)
    /\ \A x : Cut(nets, x) => x \in live \/ LastAddress(x) < current.first
    /\ \A x : \A n \in live : Cut(nets, x) /\ Contains(x, n) => SameNet(x, n)

\* What a merge of two networks of one type forgets is not cut.
LEMMA CutKept ==
    ASSUME NEW nets, ConfigOK(nets), Layered(nets), NEW x, Cut(nets, x),
           NEW m \in ConfigNets, Origin(nets, m), m.included = x.included, Contains(m, x)
    PROVE  SameNet(m, x)
<1>1. PICK r \in nets : /\ r.included = m.included /\ Contains(r, m)
                        /\ \A y \in nets : Contains(y, m) /\ y.included # m.included
                                              => Contains(y, r)
    BY DEF Origin
<1>2. PICK o \in nets : Within(o, x) /\ o.included # x.included
    BY DEF Cut, Opposed
<1>3. x \in nets /\ x \in ConfigNets /\ o \in ConfigNets /\ r \in ConfigNets
    BY DEF Cut, ConfigOK
<1>4. Contains(o, m) \/ Within(m, o)
    <2>1. o.first <= LastAddress(m) /\ m.first <= LastAddress(o)
        <3>1. /\ o.first \in Nat /\ m.first \in Nat /\ x.first \in Nat
              /\ LastAddress(o) \in Nat /\ LastAddress(m) \in Nat /\ LastAddress(x) \in Nat
              /\ x.first <= LastAddress(x)
            BY <1>3, BlockFacts
        <3> QED BY <1>2, <3>1 DEF Within, Contains
    <2> QED BY <1>3, <2>1, MeetNested
<1>5. CASE Contains(o, m)
    <2>1. Cut(nets, r)
        BY <1>1, <1>2, <1>5, ContainOpposed
    <2>2. Contains(r, x)
        BY <1>1, <1>3, ContainsOrder
    <2>3. x = r
        BY <1>3, <2>1, <2>2, CutIsPlain
    <2> QED BY <1>1, <1>3, <2>3, ContainsOrder
<1>6. CASE Within(m, o)
    <2>1. Contains(r, o)
        BY <1>1, <1>3, <1>6, ContainsOrder DEF Within
    <2>2. Cut(nets, o)
        BY <1>1, <1>2, <2>1, ContainOpposed
    <2>3. x = o
        BY <1>2, <1>3, <2>2, CutIsPlain DEF Within
    <2> QED BY <1>2, <2>3
<1> QED BY <1>4, <1>5, <1>6

\* A network still to be placed inside one of the other type is a cut one.
LEMMA LiveCut ==
    ASSUME NEW nets, ConfigOK(nets), NEW current, NEW queued,
           Sound(nets, current, queued),
           NEW m \in {current} \cup queued, NEW q \in {current} \cup queued,
           Contains(m, q), m.included # q.included
    PROVE  /\ Cut(nets, q)
           /\ \E o \in nets : Contains(o, m) /\ Opposed(o, q)
<1>1. m \in ConfigNets /\ q \in ConfigNets /\ Origin(nets, m) /\ Origin(nets, q)
    BY DEF Sound
<1>2. PICK r \in nets : /\ r.included = q.included /\ Contains(r, q)
                        /\ \A y \in nets : Contains(y, q) /\ y.included # q.included
                                              => Contains(y, r)
    BY <1>1 DEF Origin
<1>3. PICK o \in nets : o.included = m.included /\ Contains(o, m)
    BY <1>1 DEF Origin
<1>4. r \in ConfigNets /\ o \in ConfigNets
    BY DEF ConfigOK
<1>5. Contains(o, q)
    BY <1>1, <1>3, <1>4, ContainsOrder
<1>6. Contains(o, r) /\ o.included # r.included
    BY <1>2, <1>3, <1>5
<1>7. Cut(nets, r) /\ Opposed(o, r)
    BY <1>6, ContainOpposed
<1>8. SameNet(r, q)
    BY <1>2, <1>7 DEF Sound
<1>9. r = q
    BY <1>1, <1>2, <1>4, <1>8, BlockFacts DEF SameNet
<1> QED BY <1>3, <1>7, <1>9

\* Splitting a network around one of the other type keeps Sound, where its new
\* halves have no equal of the other type.
LEMMA SplitKeeps ==
    ASSUME NEW nets, ConfigOK(nets), NEW current, NEW queued,
           Sound(nets, current, queued),
           NEW n \in {current} \cup queued, n.mask < Width,
           NEW o \in {current} \cup queued, Within(n, o), o.included # n.included,
           NEW current2, NEW queued2,
           \A m \in {current2} \cup queued2 :
              \/ m \in {current} \cup queued
              \/ /\ m \in {FirstHalf(n), SecondHalf(n)}
                 /\ \A x \in {current} \cup queued : SameNet(x, m) => x.included = n.included,
           \A m \in {current} \cup queued : m # n => m \in {current2} \cup queued2,
           current2.first = current.first,
           \A q \in queued2 : ~Before(q, current2)
    PROVE  Sound(nets, current2, queued2)
<1> DEFINE live == {current} \cup queued
           live2 == {current2} \cup queued2
           New(h) == /\ h \in {FirstHalf(n), SecondHalf(n)}
                     /\ \A x \in live : SameNet(x, h) => x.included = n.included
<1>1. /\ live \subseteq ConfigNets /\ n \in live /\ o \in live
      /\ \A m \in live : Origin(nets, m)
      /\ \A x : Cut(nets, x) => x \in live \/ LastAddress(x) < current.first
      /\ \A x : \A m \in live : Cut(nets, x) /\ Contains(x, m) => SameNet(x, m)
      /\ \A x, y \in live : SameNet(x, y) => x.included = y.included
    BY DEF Sound
<1>2. \A m \in live2 : m \in live \/ New(m)
    OBVIOUS
<1>3. \A m \in live : m # n => m \in live2
    OBVIOUS
<1>4. current.first <= n.first
    <2>1. ~Before(n, current) /\ n.first \in Nat /\ current.first \in Nat
        BY <1>1, BlockFacts DEF Sound, Before
    <2> QED BY <2>1 DEF Before
<1> HIDE DEF live, live2, New
<1>5. n \in ConfigNets /\ o \in ConfigNets
    BY <1>1
<1>6. \A h : New(h) =>
         /\ h \in ConfigNets /\ h.included = n.included /\ Within(n, h)
         /\ \A x \in ConfigNets :
               Contains(x, h) => Contains(x, n) \/ (SameNet(x, h) /\ Within(n, x))
    BY <1>5, AroundHalf DEF New
\* The network that is split is not cut, and no cut network is as large.
<1>7. \A x : Cut(nets, x) => ~Contains(x, n)
    <2> SUFFICES ASSUME NEW x, Cut(nets, x), Contains(x, n) PROVE FALSE
        OBVIOUS
    <2>1. x \in ConfigNets
        BY DEF Cut, ConfigOK
    <2>2. Within(x, o)
        BY <1>5, <2>1, WithinOrder
    <2>3. SameNet(x, o)
        BY <1>1, <2>2 DEF Within
    <2> QED BY <2>2, <2>3 DEF Within
\* A configured network that lies in it has an end behind its beginning.
<1>8. \A x \in ConfigNets : Within(n, x) => ~(LastAddress(x) < current.first)
    <2> SUFFICES ASSUME NEW x \in ConfigNets, Within(n, x), LastAddress(x) < current.first
                 PROVE FALSE
        OBVIOUS
    <2>1. /\ x.first \in Nat /\ LastAddress(x) \in Nat /\ x.first <= LastAddress(x)
          /\ n.first \in Nat
        BY <1>5, BlockFacts
    <2>2. current.first \in Nat
        BY <1>1, BlockFacts DEF live
    <2> QED BY <1>4, <2>1, <2>2 DEF Within, Contains
<1>9. live2 \subseteq ConfigNets
    BY <1>1, <1>2, <1>6
<1>10. \A x, y \in live2 : SameNet(x, y) => x.included = y.included
    <2> SUFFICES ASSUME NEW x \in live2, NEW y \in live2, SameNet(x, y)
                 PROVE x.included = y.included
        OBVIOUS
    <2>1. SameNet(y, x)
        BY DEF SameNet
    <2>2. CASE x \in live /\ y \in live
        BY <1>1, <2>2
    <2>3. CASE x \in live /\ New(y)
        BY <1>6, <2>3 DEF New
    <2>4. CASE New(x) /\ y \in live
        BY <1>6, <2>1, <2>4 DEF New
    <2>5. CASE New(x) /\ New(y)
        BY <1>6, <2>5
    <2> QED BY <1>2, <2>2, <2>3, <2>4, <2>5
<1>11. \A m \in live2 : Origin(nets, m)
    <2> SUFFICES ASSUME NEW h, New(h) PROVE Origin(nets, h)
        BY <1>1, <1>2
    <2>1. PICK r \in nets :
             /\ r.included = n.included /\ Contains(r, n)
             /\ \A x \in nets : Contains(x, n) /\ x.included # n.included => Contains(x, r)
        BY <1>1 DEF Origin
    <2>2. r \in ConfigNets /\ r.included = h.included /\ Contains(r, h)
        BY <1>5, <1>6, <2>1, ContainsOrder DEF ConfigOK, Within
    <2>3. ASSUME NEW x \in nets, Contains(x, h), x.included # h.included
          PROVE Contains(x, r)
        <3>1. x \in ConfigNets /\ x.included # n.included
            BY <1>6, <2>3 DEF ConfigOK
        <3>2. CASE Contains(x, n)
            BY <2>1, <3>1, <3>2
        <3>3. CASE SameNet(x, h) /\ Within(n, x)
            <4>1. Within(r, x)
                BY <1>5, <2>1, <2>2, <3>1, <3>3, WithinOrder
            <4>2. Cut(nets, x)
                BY <2>1, <3>1, <4>1 DEF Cut, Opposed
            <4>3. x \in live
                BY <1>1, <1>8, <3>1, <3>3, <4>2
            <4> QED BY <3>1, <3>3, <4>3 DEF New
        <3> QED BY <1>6, <2>3, <3>1, <3>2, <3>3
    <2> QED BY <2>1, <2>2, <2>3 DEF Origin
<1>12. \A x : Cut(nets, x) => x \in live2 \/ LastAddress(x) < current2.first
    <2>1. \A x : Cut(nets, x) => x # n
        BY <1>5, <1>7, ContainsOrder
    <2> QED BY <1>1, <1>3, <2>1
<1>13. \A x : \A m \in live2 : Cut(nets, x) /\ Contains(x, m) => SameNet(x, m)
    <2> SUFFICES ASSUME NEW h, New(h), NEW x, Cut(nets, x), Contains(x, h)
                 PROVE SameNet(x, h)
        BY <1>1, <1>2
    <2>1. x \in ConfigNets
        BY DEF Cut, ConfigOK
    <2> QED BY <1>6, <1>7, <2>1
<1> QED BY <1>9, <1>10, <1>11, <1>12, <1>13 DEF Sound, live2

\* Beside a next network of the other type, the second half of the current one
\* is as long as the next one or not there yet.
LEMMA NoSecondTwin ==
    ASSUME NEW nets, ConfigOK(nets), Layered(nets), NEW current, NEW queued,
           Sound(nets, current, queued),
           NEW next \in queued, \A q \in queued : ~Before(q, next),
           Within(current, next), next.included # current.included,
           current.first < next.first,
           NEW x \in {current} \cup queued, SameNet(x, SecondHalf(current)),
           x.included # current.included
    PROVE  SecondHalf(current).mask = next.mask
<1> DEFINE h == SecondHalf(current)
<1>1. /\ current \in ConfigNets /\ next \in ConfigNets /\ x \in ConfigNets
      /\ current.included \in BOOLEAN /\ next.included \in BOOLEAN /\ x.included \in BOOLEAN
    BY BlockFacts DEF Sound
<1>2. current.mask < Width
    BY <1>1, InHalf
<1>3. h \in ConfigNets /\ h.mask = current.mask + 1 /\ Within(current, h)
    BY <1>1, <1>2, AroundHalf, Halves
<1> HIDE DEF h
<1>4. Within(current, x) /\ x.mask = h.mask /\ x # current /\ x \in queued
    <2>1. x.mask = h.mask
        BY DEF SameNet, h
    <2>2. Contains(h, x)
        BY <1>1, <1>3, ContainsOrder DEF h
    <2>3. Within(current, x)
        BY <1>1, <1>3, <2>2, WithinOrder
    <2>4. x # current
        BY <2>3 DEF Within, SameNet
    <2> QED BY <2>1, <2>3, <2>4
<1>5. /\ Cut(nets, next) /\ Cut(nets, x)
      /\ \E o \in nets : Contains(o, current) /\ Opposed(o, x)
    BY <1>4, LiveCut DEF Within
<1>6. next.first <= x.first /\ (next.first = x.first => x.mask <= next.mask)
    <2>1. ~Before(x, next)
        BY <1>4
    <2> QED BY <1>1, <2>1, BlockFacts DEF Before
<1>7. CASE next.first = x.first
    <2>1. Contains(x, next)
        <3>1. next.first <= LastAddress(x) /\ x.first <= LastAddress(next) /\ x.mask <= next.mask
            BY <1>1, <1>6, <1>7, BlockFacts
        <3> QED BY <1>1, <3>1, Nested
    <2>2. next = x
        BY <1>5, <2>1, CutIsPlain DEF Cut
    <2> QED BY <1>4, <2>2 DEF h
<1>8. CASE next.first < x.first
    <2>1. PICK o \in nets : Contains(o, current) /\ Within(o, x) /\ o.included # x.included
        BY <1>5 DEF Opposed
    <2>2. o \in ConfigNets /\ x \in nets /\ next \in nets
        BY <1>5 DEF ConfigOK, Cut
    <2>3. Within(o, next)
        BY <1>1, <2>1, <2>2, WithinOrder
    <2>4. next.included = x.included
        BY <1>1
    <2>5. o.first < next.first
        BY <1>1, <2>1, <2>2, BlockFacts DEF Contains
    <2>6. Contains(Parent(x), next)
        BY <1>1, <1>2, ParentOfHalf DEF Within
    <2>7. ~ /\ Within(o, next) /\ next.included = x.included
            /\ o.first < next.first /\ next.first < x.first
            /\ Contains(Parent(x), next)
        BY <2>1, <2>2 DEF Layered
    <2> QED BY <1>8, <2>3, <2>4, <2>5, <2>6, <2>7
<1> QED BY <1>1, <1>6, <1>7, <1>8, BlockFacts

--------------------------------------------------------------------------------
(***************************************************************************)
(* One pass through the loop keeps Sound and loses no address.             *)
(***************************************************************************)
\* Going on with the next network and dropping the current one, unless it is
\* cut and nothing else stands for it.
LEMMA GoOnKeeps ==
    ASSUME NEW nets, ConfigOK(nets), NEW current, NEW queued,
           Sound(nets, current, queued),
           NEW next \in queued, \A q \in queued : ~Before(q, next),
           NEW queued2, queued2 \subseteq queued, queued \ {next} \subseteq queued2,
           Cut(nets, current) => current = next \/ LastAddress(current) < next.first
    PROVE  Sound(nets, next, queued2)
<1>1. /\ \A x : Cut(nets, x) => x \in {current} \cup queued \/ LastAddress(x) < current.first
      /\ {current} \cup queued \subseteq ConfigNets /\ ~Before(next, current)
    BY DEF Sound
<1>2. current.first \in Nat /\ next.first \in Nat /\ current.first <= next.first
    BY <1>1, BlockFacts DEF Before
<1>3. ASSUME NEW x, Cut(nets, x) PROVE x \in {next} \cup queued2 \/ LastAddress(x) < next.first
    <2>1. CASE x = current
        BY <1>3, <2>1
    <2>2. CASE x # current /\ x \in queued
        BY <2>2
    <2>3. CASE x \notin {current} \cup queued
        <3>1. LastAddress(x) < current.first
            BY <1>1, <1>3, <2>3
        <3>2. LastAddress(x) \in Int
            <4>1. x.first \in Nat /\ x.mask \in Nat /\ LastAddress(x) \in Nat
                BY <1>3, BlockFacts DEF Cut, ConfigOK
            <4> QED BY <4>1
        <3> QED BY <1>2, <3>1, <3>2
    <2> QED BY <2>1, <2>2, <2>3
<1> QED BY <1>1, <1>3 DEF Sound

\* Dropping the next network, unless it is cut.
LEMMA DropKeeps ==
    ASSUME NEW nets, ConfigOK(nets), NEW current, NEW queued,
           Sound(nets, current, queued),
           NEW next \in queued, ~Cut(nets, next),
           NEW queued2, queued2 \subseteq queued, queued \ {next} \subseteq queued2
    PROVE  Sound(nets, current, queued2)
<1>1. \A x : Cut(nets, x) => x # next
    OBVIOUS
<1> QED BY <1>1 DEF Sound

\* What the head of the queue can be beside the current network.
LEMMA NextFacts ==
    ASSUME NEW nets, Sound(nets, currentNet, BagToSet(networks)), NEW next \in Heads(networks)
    PROVE  /\ next \in BagToSet(networks) /\ next \in ConfigNets /\ currentNet \in ConfigNets
           /\ \A q \in BagToSet(networks) : ~Before(q, next) /\ next.first <= q.first
           /\ currentNet.first <= next.first
           /\ Inside(currentNet, next) => Contains(next, currentNet)
           /\ ~Apart(currentNet, next) /\ ~Inside(currentNet, next) =>
                 currentNet.first < next.first /\ Within(currentNet, next)
<1>1. /\ next \in BagToSet(networks) /\ \A q \in BagToSet(networks) : ~Before(q, next)
    BY DEF Heads
<1>2. /\ currentNet \in ConfigNets /\ BagToSet(networks) \subseteq ConfigNets
      /\ \A q \in BagToSet(networks) : ~Before(q, currentNet)
    BY DEF Sound
<1>3. /\ next \in ConfigNets
      /\ next.first \in Nat /\ next.mask \in Nat /\ LastAddress(next) \in Nat
      /\ currentNet.first \in Nat /\ currentNet.mask \in Nat /\ LastAddress(currentNet) \in Nat
      /\ next.first <= LastAddress(next) /\ currentNet.first <= LastAddress(currentNet)
      /\ \A q \in BagToSet(networks) : q.first \in Nat
    BY <1>1, <1>2, BlockFacts
<1>4. \A q \in BagToSet(networks) : next.first <= q.first
    BY <1>1, <1>3 DEF Before
<1>5. /\ currentNet.first <= next.first
      /\ currentNet.first = next.first => next.mask <= currentNet.mask
    BY <1>1, <1>2, <1>3 DEF Before
<1>6. Inside(currentNet, next) => Contains(next, currentNet)
    <2> SUFFICES ASSUME Inside(currentNet, next) PROVE Contains(next, currentNet)
        OBVIOUS
    <2>1. /\ next.mask <= currentNet.mask
          /\ currentNet.first <= LastAddress(next) /\ next.first <= LastAddress(currentNet)
        BY <1>3 DEF Inside
    <2> QED BY <1>2, <1>3, <2>1, Nested
<1>7. ASSUME ~Apart(currentNet, next), ~Inside(currentNet, next)
      PROVE  currentNet.first < next.first /\ Within(currentNet, next)
    <2>1. currentNet.first < next.first
        BY <1>3, <1>5, <1>7 DEF Inside
    <2>2. next.first <= LastAddress(currentNet) /\ currentNet.first <= LastAddress(next)
        BY <1>3, <1>7, <2>1 DEF Apart
    <2>3. Contains(currentNet, next) \/ Within(next, currentNet)
        BY <1>2, <1>3, <2>2, MeetNested
    <2>4. ~Contains(next, currentNet)
        BY <1>3, <2>1 DEF Contains
    <2> QED BY <2>1, <2>3, <2>4, <1>2, <1>3, ContainsOrder DEF Within
<1> QED BY <1>1, <1>2, <1>3, <1>4, <1>5, <1>6, <1>7

\* Every address of the old networks is an address of the new ones.
Kept(old, new) == \A n \in old : \A a \in Int : Covers(n, a) => \E o \in new : Covers(o, a)

\* Larger and equal networks cover the address, and one of the halves does.
LEMMA CoverHolds ==
    /\ \A n, o \in ConfigNets : \A a \in Int : Contains(n, o) /\ Covers(o, a) => Covers(n, a)
    /\ \A n, o \in ConfigNets : \A a \in Int : SameNet(n, o) /\ Covers(n, a) => Covers(o, a)
    /\ \A n \in ConfigNets : \A a \in Int :
          n.mask < Width /\ Covers(n, a) => Covers(FirstHalf(n), a) \/ Covers(SecondHalf(n), a)
<1>1. ASSUME NEW n \in ConfigNets, NEW o \in ConfigNets, NEW a \in Int,
             Contains(n, o), Covers(o, a)
      PROVE Covers(n, a)
    <2>1. /\ n.first \in Nat /\ LastAddress(n) \in Nat
          /\ o.first \in Nat /\ LastAddress(o) \in Nat
        BY BlockFacts
    <2> QED BY <1>1, <2>1 DEF Contains, Covers
<1>2. \A n, o \in ConfigNets : \A a \in Int : SameNet(n, o) /\ Covers(n, a) => Covers(o, a)
    BY DEF SameNet, Covers, LastAddress
<1>3. ASSUME NEW n \in ConfigNets, NEW a \in Int, n.mask < Width, Covers(n, a)
      PROVE Covers(FirstHalf(n), a) \/ Covers(SecondHalf(n), a)
    <2> DEFINE f == FirstHalf(n)
               s == SecondHalf(n)
    <2>1. /\ f \in ConfigNets /\ f.first = n.first
          /\ s.first = LastAddress(f) + 1 /\ LastAddress(s) = LastAddress(n)
        BY <1>3, Halves
    <2> HIDE DEF f, s
    <2>2. LastAddress(f) \in Nat
        BY <2>1, BlockFacts
    <2>3. Covers(f, a) \/ Covers(s, a)
        BY <1>3, <2>1, <2>2 DEF Covers
    <2> QED BY <2>3 DEF f, s
<1> QED BY <1>1, <1>2, <1>3

\* A network may be given up for its halves.
LEMMA SplitCovers ==
    ASSUME NEW n \in ConfigNets, n.mask < Width, NEW new, NEW o \in new, NEW p \in new,
           o \in ConfigNets, p \in ConfigNets,
           SameNet(FirstHalf(n), o), SameNet(SecondHalf(n), p)
    PROVE  \A a \in Int : Covers(n, a) => \E m \in new : Covers(m, a)
<1>1. FirstHalf(n) \in ConfigNets /\ SecondHalf(n) \in ConfigNets
    BY Halves
<1> QED BY <1>1, CoverHolds

\* The networks still to be placed while one is current.
Live == {currentNet} \cup BagToSet(networks)

\* TreeSet.add() adds at most the element, and then it has an equal.
LEMMA TreeAddAdds ==
    ASSUME NEW set, NEW n
    PROVE  /\ set \subseteq TreeAdd(set, n) /\ TreeAdd(set, n) \subseteq set \cup {n}
           /\ \E o \in TreeAdd(set, n) : SameNet(n, o)
<1>1. SameNet(n, n)
    BY DEF SameNet
<1> QED BY <1>1 DEF TreeAdd

\* The cases of the loop.
LEMMA PlaceCurrentKeeps ==
    ASSUME NEW nets, ConfigOK(nets), Sound(nets, currentNet, BagToSet(networks)),
           NEW next \in Heads(networks), PlaceCurrent(next), ipsDone \subseteq ConfigNets
    PROVE  Sound(nets, currentNet', BagToSet(networks')) /\ Kept(Live, Live' \cup ipsDone')
<1>1. /\ LastAddress(currentNet) < next.first /\ currentNet' = next
      /\ networks' = Poll(networks, next) /\ ipsDone' = TreeAdd(ipsDone, currentNet)
    BY DEF PlaceCurrent, Apart
<1>2. /\ BagToSet(networks') \subseteq BagToSet(networks)
      /\ BagToSet(networks) \ {next} \subseteq BagToSet(networks')
    BY <1>1, QueueOf
<1>3. Sound(nets, currentNet', BagToSet(networks'))
    BY <1>1, <1>2, GoOnKeeps, NextFacts
<1>4. PICK o \in ipsDone' : SameNet(currentNet, o) /\ o \in ConfigNets
    BY <1>1, TreeAddAdds, NextFacts
<1>5. \A n \in Live : n = currentNet \/ n \in Live'
    BY <1>1, <1>2 DEF Live
<1>6. currentNet \in ConfigNets
    BY NextFacts
<1>7. Kept(Live, Live' \cup ipsDone')
    BY <1>4, <1>5, <1>6, CoverHolds DEF Kept
<1> QED BY <1>3, <1>7

LEMMA ForgetCurrentKeeps ==
    ASSUME NEW nets, ConfigOK(nets), Layered(nets),
           Sound(nets, currentNet, BagToSet(networks)),
           NEW next \in Heads(networks), ForgetCurrent(next)
    PROVE  Sound(nets, currentNet', BagToSet(networks')) /\ Kept(Live, Live' \cup ipsDone')
<1>1. /\ Inside(currentNet, next) /\ currentNet' = next
      /\ networks' = Poll(networks, next) /\ currentNet.included = next.included
    BY DEF ForgetCurrent
<1>2. /\ BagToSet(networks') \subseteq BagToSet(networks)
      /\ BagToSet(networks) \ {next} \subseteq BagToSet(networks')
    BY <1>1, QueueOf
<1>3. /\ next \in BagToSet(networks) /\ next \in ConfigNets /\ currentNet \in ConfigNets
      /\ Contains(next, currentNet)
    BY <1>1, NextFacts
<1>4. Cut(nets, currentNet) => currentNet = next
    <2> SUFFICES ASSUME Cut(nets, currentNet) PROVE currentNet = next
        OBVIOUS
    <2>1. Origin(nets, next)
        BY <1>3 DEF Sound
    <2>2. SameNet(next, currentNet)
        BY <1>1, <1>3, <2>1, CutKept
    <2> QED BY <1>1, <1>3, <2>2, BlockFacts DEF SameNet
<1>5. Sound(nets, currentNet', BagToSet(networks'))
    BY <1>1, <1>2, <1>4, GoOnKeeps, NextFacts
<1>6. \A n \in Live : n = currentNet \/ n \in Live'
    BY <1>1, <1>2 DEF Live
<1>7. next \in Live'
    BY <1>1 DEF Live
<1>8. Kept(Live, Live' \cup ipsDone')
    BY <1>3, <1>6, <1>7, CoverHolds DEF Kept
<1> QED BY <1>5, <1>8

LEMMA ForgetNextKeeps ==
    ASSUME NEW nets, ConfigOK(nets), Layered(nets),
           Sound(nets, currentNet, BagToSet(networks)),
           NEW next \in Heads(networks), ForgetNext(next)
    PROVE  Sound(nets, currentNet', BagToSet(networks')) /\ Kept(Live, Live' \cup ipsDone')
<1>1. /\ ~Inside(currentNet, next) /\ ~Apart(currentNet, next) /\ currentNet' = currentNet
      /\ networks' = Poll(networks, next) /\ currentNet.included = next.included
    BY DEF ForgetNext
<1>2. /\ BagToSet(networks') \subseteq BagToSet(networks)
      /\ BagToSet(networks) \ {next} \subseteq BagToSet(networks')
    BY <1>1, QueueOf
<1>3. /\ next \in BagToSet(networks) /\ next \in ConfigNets /\ currentNet \in ConfigNets
      /\ Within(currentNet, next)
    BY <1>1, NextFacts
<1>4. ~Cut(nets, next)
    <2>1. Origin(nets, currentNet)
        BY DEF Sound
    <2>2. Cut(nets, next) => SameNet(currentNet, next)
        BY <1>1, <1>3, <2>1, CutKept DEF Within
    <2> QED BY <1>3, <2>2 DEF Within
<1>5. Sound(nets, currentNet, BagToSet(networks'))
    BY <1>2, <1>3, <1>4, DropKeeps
<1>6. \A n \in Live : n = next \/ n \in Live'
    BY <1>1, <1>2 DEF Live
<1>7. currentNet \in Live'
    BY <1>1 DEF Live
<1>8. Kept(Live, Live' \cup ipsDone')
    BY <1>3, <1>6, <1>7, CoverHolds DEF Kept, Within
<1> QED BY <1>1, <1>5, <1>8

LEMMA SplitNextKeeps ==
    ASSUME NEW nets, ConfigOK(nets), Layered(nets),
           Sound(nets, currentNet, BagToSet(networks)),
           NEW next \in Heads(networks), SplitNext(next)
    PROVE  Sound(nets, currentNet', BagToSet(networks')) /\ Kept(Live, Live' \cup ipsDone')
<1> DEFINE f == FirstHalf(next)
           s == SecondHalf(next)
<1>1. /\ Inside(currentNet, next) /\ currentNet' = currentNet
      /\ currentNet.included # next.included
    BY DEF SplitNext
<1>2. PICK polled, queue :
         /\ polled = Poll(networks, next) /\ queue = AddUnlessPresent(polled, s)
         /\ networks' = IF LastAddress(f) = LastAddress(currentNet)
                        THEN queue ELSE AddUnlessPresent(queue, f)
    BY DEF SplitNext
<1>3. /\ next \in BagToSet(networks) /\ next \in ConfigNets /\ currentNet \in ConfigNets
      /\ Contains(next, currentNet)
      /\ \A q \in BagToSet(networks) : ~Before(q, next) /\ next.first <= q.first
    BY <1>1, NextFacts
<1>4. Within(next, currentNet) /\ next.mask < Width
    <2>1. ~SameNet(next, currentNet)
        BY <1>1, <1>3 DEF Sound
    <2> QED BY <1>3, <2>1, InHalf DEF Within
<1>5. /\ f \in ConfigNets /\ s \in ConfigNets
      /\ f.first = next.first /\ next.first < s.first
      /\ f.mask = next.mask + 1 /\ s.mask = next.mask + 1
      /\ f.first = currentNet.first
    BY <1>1, <1>3, <1>4, Halves DEF Inside
<1>6. Live \subseteq ConfigNets
    BY DEF Sound, Live
<1> HIDE DEF f, s
<1>7. /\ BagToSet(polled) \subseteq BagToSet(networks)
      /\ BagToSet(networks) \ {next} \subseteq BagToSet(polled)
    BY <1>2, QueueOf
<1>8. /\ BagToSet(polled) \subseteq BagToSet(queue)
      /\ \A o \in BagToSet(queue) :
            o \in BagToSet(polled) \/ (o = s /\ ~\E p \in BagToSet(polled) : SameNet(s, p))
      /\ \E o \in BagToSet(queue) : SameNet(s, o)
    BY <1>2, AddedUnlessPresent
<1>9. /\ BagToSet(queue) \subseteq BagToSet(networks')
      /\ \A o \in BagToSet(networks') :
            \/ o \in BagToSet(queue)
            \/ /\ o = f /\ ~\E p \in BagToSet(queue) : SameNet(f, p)
               /\ LastAddress(f) # LastAddress(currentNet)
      /\ LastAddress(f) # LastAddress(currentNet) =>
            \E o \in BagToSet(networks') : SameNet(f, o)
    <2>1. CASE LastAddress(f) = LastAddress(currentNet)
        BY <1>2, <2>1
    <2>2. CASE LastAddress(f) # LastAddress(currentNet)
        <3>1. networks' = AddUnlessPresent(queue, f)
            BY <1>2, <2>2
        <3> QED BY <2>2, <3>1, AddedUnlessPresent
    <2> QED BY <2>1, <2>2
\* What is new has no twin.
<1>10. \A x \in Live : SameNet(x, s) => x \in BagToSet(polled)
    <2> SUFFICES ASSUME NEW x \in Live, SameNet(x, s) PROVE x \in BagToSet(polled)
        OBVIOUS
    <2>1. x # next /\ x # currentNet
        BY <1>3, <1>5, BlockFacts DEF SameNet
    <2> QED BY <1>7, <2>1 DEF Live
<1>11. \A x \in Live : SameNet(x, f) =>
          x \in BagToSet(polled) \/ LastAddress(f) = LastAddress(currentNet)
    <2> SUFFICES ASSUME NEW x \in Live, SameNet(x, f),
                        LastAddress(f) # LastAddress(currentNet)
                 PROVE x \in BagToSet(polled)
        OBVIOUS
    <2>1. x # next
        BY <1>3, <1>5, BlockFacts DEF SameNet
    <2>2. x # currentNet
        BY DEF SameNet, LastAddress
    <2> QED BY <1>7, <2>1, <2>2 DEF Live
<1>12. \A m \in {currentNet} \cup BagToSet(networks') :
          \/ m \in {currentNet} \cup BagToSet(networks)
          \/ /\ m \in {FirstHalf(next), SecondHalf(next)}
             /\ \A x \in {currentNet} \cup BagToSet(networks) :
                   SameNet(x, m) => x.included = next.included
    <2> SUFFICES ASSUME NEW m \in BagToSet(networks'), m \notin BagToSet(networks)
                 PROVE  /\ m \in {f, s}
                        /\ \A x \in Live : SameNet(x, m) => x.included = next.included
        BY DEF Live, f, s
    <2>1. \A x, y : SameNet(x, y) => SameNet(y, x)
        BY DEF SameNet
    <2>2. CASE m = s /\ ~\E p \in BagToSet(polled) : SameNet(s, p)
        BY <1>10, <2>1, <2>2
    <2>3. CASE /\ m = f /\ ~\E p \in BagToSet(queue) : SameNet(f, p)
               /\ LastAddress(f) # LastAddress(currentNet)
        BY <1>8, <1>11, <2>1, <2>3
    <2> QED BY <1>7, <1>8, <1>9, <2>2, <2>3
<1>13. \A m \in {currentNet} \cup BagToSet(networks) :
          m # next => m \in {currentNet} \cup BagToSet(networks')
    BY <1>7, <1>8, <1>9
<1>14. \A q \in BagToSet(networks') : ~Before(q, currentNet)
    <2> SUFFICES ASSUME NEW q \in {f, s} PROVE ~Before(q, currentNet)
        BY <1>7, <1>8, <1>9 DEF Sound
    <2>1. /\ next.first \in Nat /\ s.first \in Nat /\ currentNet.first = next.first
          /\ next.mask \in Nat /\ currentNet.mask \in Nat
        BY <1>3, <1>5, BlockFacts
    <2>2. next.mask < currentNet.mask
        BY <1>3, <1>4, InHalf
    <2> QED BY <1>5, <2>1, <2>2 DEF Before
<1>15. Sound(nets, currentNet, BagToSet(networks'))
    BY <1>1, <1>3, <1>4, <1>12, <1>13, <1>14, SplitKeeps
<1>16. Kept(Live, Live' \cup ipsDone')
    <2>1. PICK p \in Live' : SameNet(s, p)
        BY <1>8, <1>9 DEF Live
    <2>2. PICK o \in Live' : SameNet(f, o)
        <3>1. CASE LastAddress(f) # LastAddress(currentNet)
            BY <1>9, <3>1 DEF Live
        <3>2. CASE LastAddress(f) = LastAddress(currentNet)
            <4>1. Contains(f, currentNet) /\ Contains(currentNet, f)
                BY <1>3, <1>5, <3>2, BlockFacts DEF Contains
            <4>2. SameNet(f, currentNet)
                BY <1>3, <1>5, <4>1, ContainsOrder
            <4> QED BY <1>1, <4>2 DEF Live
        <3> QED BY <3>1, <3>2
    <2>3. Live' \subseteq ConfigNets
        BY <1>1, <1>15 DEF Sound, Live
    <2>4. \A a \in Int : Covers(next, a) => \E m \in Live' : Covers(m, a)
        BY <1>3, <1>4, <2>1, <2>2, <2>3, SplitCovers DEF f, s
    <2>5. \A n \in Live : n = next \/ n \in Live'
        BY <1>1, <1>13 DEF Live
    <2> QED BY <2>4, <2>5 DEF Kept
<1> QED BY <1>1, <1>15, <1>16

\* The assertion at lines 272-273.
LEMMA TwinIsNext ==
    ASSUME NEW nets, Sound(nets, currentNet, BagToSet(networks)),
           NEW next \in Heads(networks), ~Apart(currentNet, next), ~Inside(currentNet, next),
           SecondHalf(currentNet).mask = next.mask
    PROVE  SameNet(SecondHalf(currentNet), next)
<1> DEFINE f == FirstHalf(currentNet)
           s == SecondHalf(currentNet)
<1>1. /\ next \in ConfigNets /\ currentNet \in ConfigNets
      /\ currentNet.first < next.first /\ Within(currentNet, next)
    BY NextFacts
<1>2. currentNet.mask < Width /\ (Contains(f, next) \/ Contains(s, next))
    BY <1>1, InHalf
<1>3. /\ f \in ConfigNets /\ s \in ConfigNets /\ f.mask = s.mask /\ f.first = currentNet.first
    BY <1>1, <1>2, Halves
<1>4. s.mask = next.mask
    OBVIOUS
<1> HIDE DEF f, s
<1>5. ~Contains(f, next)
    <2> SUFFICES ASSUME Contains(f, next) PROVE FALSE
        OBVIOUS
    <2>1. SameNet(f, next)
        BY <1>1, <1>3, <1>4, Longer
    <2> QED BY <1>1, <1>3, <2>1, BlockFacts DEF SameNet
<1>6. SameNet(s, next)
    BY <1>1, <1>2, <1>3, <1>4, <1>5, Longer
<1> QED BY <1>6 DEF s

LEMMA SplitCurrentKeeps ==
    ASSUME NEW nets, ConfigOK(nets), Layered(nets),
           Sound(nets, currentNet, BagToSet(networks)),
           NEW next \in Heads(networks), SplitCurrent(next)
    PROVE  Sound(nets, currentNet', BagToSet(networks')) /\ Kept(Live, Live' \cup ipsDone')
<1> DEFINE f == FirstHalf(currentNet)
           s == SecondHalf(currentNet)
<1>1. /\ ~Inside(currentNet, next) /\ ~Apart(currentNet, next) /\ currentNet' = f
      /\ currentNet.included # next.included
      /\ networks' = IF s.mask = next.mask THEN networks ELSE Add(networks, s)
    BY DEF SplitCurrent
<1>2. /\ next \in BagToSet(networks) /\ next \in ConfigNets /\ currentNet \in ConfigNets
      /\ currentNet.first < next.first /\ Within(currentNet, next)
      /\ \A q \in BagToSet(networks) : ~Before(q, next) /\ next.first <= q.first
    BY <1>1, NextFacts
<1>3. currentNet.mask < Width
    BY <1>2, InHalf
<1>4. /\ f \in ConfigNets /\ s \in ConfigNets /\ f.first = currentNet.first
      /\ f.mask = currentNet.mask + 1 /\ currentNet.first < s.first
    BY <1>2, <1>3, Halves
<1>5. s.mask = next.mask => SameNet(s, next)
    BY <1>1, TwinIsNext
<1>6. \A x \in Live : SameNet(x, s) /\ x.included # currentNet.included => s.mask = next.mask
    BY <1>1, <1>2, NoSecondTwin DEF Live
<1>7. \A x \in Live : SameNet(x, f) => x.included = currentNet.included
    <2> SUFFICES ASSUME NEW x \in Live, SameNet(x, f) PROVE x.included = currentNet.included
        OBVIOUS
    <2>1. CASE x = currentNet
        BY <2>1
    <2>2. CASE x \in BagToSet(networks)
        <3>1. next.first <= x.first /\ x.first = currentNet.first
            BY <1>2, <1>4, <2>2 DEF SameNet
        <3> QED BY <1>2, <3>1, BlockFacts
    <2> QED BY <2>1, <2>2 DEF Live
<1>8. Live = {currentNet} \cup BagToSet(networks) /\ Live \subseteq ConfigNets
    BY DEF Sound, Live
<1> HIDE DEF f, s
<1>9. /\ BagToSet(networks) \subseteq BagToSet(networks')
      /\ \A o \in BagToSet(networks') :
            o \in BagToSet(networks) \/ (o = s /\ s.mask # next.mask)
      /\ \E p \in BagToSet(networks') : SameNet(s, p)
    <2>1. CASE s.mask = next.mask
        BY <1>1, <1>2, <1>5, <2>1
    <2>2. CASE s.mask # next.mask
        <3>1. networks' = Add(networks, s)
            BY <1>1, <2>2
        <3>2. BagToSet(networks') = BagToSet(networks) \cup {s}
            BY <3>1, QueueOf
        <3>3. SameNet(s, s)
            BY DEF SameNet
        <3> QED BY <2>2, <3>2, <3>3
    <2> QED BY <2>1, <2>2
<1>10. \A m \in {f} \cup BagToSet(networks') :
          \/ m \in {currentNet} \cup BagToSet(networks)
          \/ /\ m \in {FirstHalf(currentNet), SecondHalf(currentNet)}
             /\ \A x \in {currentNet} \cup BagToSet(networks) :
                   SameNet(x, m) => x.included = currentNet.included
    <2> SUFFICES ASSUME NEW m, m = f \/ (m = s /\ s.mask # next.mask)
                 PROVE  /\ m \in {f, s}
                        /\ \A x \in Live : SameNet(x, m) => x.included = currentNet.included
        BY <1>8, <1>9 DEF f, s
    <2> QED BY <1>6, <1>7
<1>11. \A m \in {currentNet} \cup BagToSet(networks) :
          m # currentNet => m \in {f} \cup BagToSet(networks')
    BY <1>9
<1>12. \A q \in BagToSet(networks') : ~Before(q, f)
    <2> SUFFICES ASSUME NEW q \in BagToSet(networks') PROVE ~Before(q, f)
        OBVIOUS
    <2>1. q \in ConfigNets /\ currentNet.first < q.first
        <3>1. CASE q = s
            BY <1>4, <3>1
        <3>2. CASE q \in BagToSet(networks)
            BY <1>2, <1>8, <3>2, BlockFacts
        <3> QED BY <1>9, <3>1, <3>2
    <2> QED BY <1>2, <1>4, <2>1, BlockFacts DEF Before
<1>13. Sound(nets, f, BagToSet(networks'))
    <2>1. next \in {currentNet} \cup BagToSet(networks)
        BY <1>2
    <2> QED BY <1>1, <1>2, <1>3, <1>4, <1>10, <1>11, <1>12, <2>1, SplitKeeps
<1>14. Kept(Live, Live' \cup ipsDone')
    <2>1. PICK p \in Live' : SameNet(s, p)
        BY <1>9 DEF Live
    <2>2. f \in Live' /\ SameNet(f, f)
        BY <1>1 DEF Live, SameNet
    <2>3. Live' \subseteq ConfigNets
        BY <1>1, <1>13 DEF Sound, Live
    <2>4. \A a \in Int : Covers(currentNet, a) => \E m \in Live' : Covers(m, a)
        BY <1>2, <1>3, <2>1, <2>2, <2>3, SplitCovers DEF f, s
    <2>5. \A n \in Live : n = currentNet \/ n \in Live'
        BY <1>1, <1>11 DEF Live
    <2> QED BY <2>4, <2>5 DEF Kept
<1> QED BY <1>1, <1>13, <1>14

\* What is placed has the type of the most specific network configured for
\* each of its addresses.
Right(nets, d) ==
    /\ d \in ConfigNets
    /\ \E r \in nets : r.included = d.included /\ Contains(r, d)
    /\ \A x \in nets : \A a \in Int :
          Covers(d, a) /\ Covers(x, a) /\ x.included # d.included =>
             \E r \in nets : r.included = d.included /\ Covers(r, a) /\ r.mask > x.mask

LEMMA PlacedIsRight ==
    ASSUME NEW nets, ConfigOK(nets), NEW current, NEW queued, Sound(nets, current, queued),
           \A q \in queued : LastAddress(current) < q.first
    PROVE  Right(nets, current)
<1>1. current \in ConfigNets /\ queued \subseteq ConfigNets /\ Origin(nets, current)
    BY DEF Sound
<1>2. PICK r \in nets :
         /\ r.included = current.included /\ Contains(r, current)
         /\ \A x \in nets : Contains(x, current) /\ x.included # current.included
                               => Contains(x, r)
    BY <1>1 DEF Origin
<1>3. r \in ConfigNets
    BY DEF ConfigOK
<1>4. ASSUME NEW x \in nets, NEW a \in Int,
             Covers(current, a), Covers(x, a), x.included # current.included
      PROVE Covers(r, a) /\ r.mask > x.mask
    <2>1. x \in ConfigNets
        BY DEF ConfigOK
    <2>2. CASE Contains(x, current)
        <3>1. Contains(x, r)
            BY <1>2, <1>4, <2>2
        <3>2. Within(x, r)
            BY <1>2, <1>4, <3>1, ContainOpposed DEF Opposed
        <3>3. x.mask < r.mask /\ Covers(r, a)
            BY <1>1, <1>2, <1>3, <1>4, <2>1, <3>2, InHalf, CoverHolds
        <3> QED BY <1>3, <2>1, <3>3, BlockFacts
    <2>3. CASE Within(current, x)
        <3>1. Within(r, x)
            BY <1>1, <1>2, <1>3, <2>1, <2>3, WithinOrder
        <3>2. Cut(nets, x)
            BY <1>2, <1>4, <3>1 DEF Cut, Opposed
        <3>3. x \in {current} \cup queued \/ LastAddress(x) < current.first
            BY <3>2 DEF Sound
        <3>4. /\ current.first <= x.first /\ LastAddress(x) <= LastAddress(current)
              /\ x.first <= LastAddress(x)
              /\ x.first \in Nat /\ LastAddress(x) \in Nat
              /\ current.first \in Nat /\ LastAddress(current) \in Nat
            BY <1>1, <2>1, <2>3, BlockFacts DEF Within, Contains
        <3>5. ~(LastAddress(x) < current.first) /\ ~(LastAddress(current) < x.first)
            BY <3>4
        <3> QED BY <1>4, <3>3, <3>5
    <2> QED BY <1>1, <1>4, <2>1, <2>2, <2>3, CoverNested
<1> QED BY <1>1, <1>2, <1>4 DEF Right

--------------------------------------------------------------------------------
(***************************************************************************)
(* The inductive invariant of layered configurations: while networks are   *)
(* merged, Sound; what is placed has the type of the most specific network *)
(* configured for each of its addresses; and no configured address is      *)
(* lost.                                                                   *)
(***************************************************************************)
\* The networks still to be placed.
LiveNow == IF currentNet = NoNet THEN {} ELSE Live

MergeSound ==
    phase = "merge" /\ currentNet # NoNet =>
       Sound(mIpAddresses, currentNet, BagToSet(networks))

PlacedRight == \A d \in ipsDone : Right(mIpAddresses, d)

AllCovered == phase # "config" => Kept(mIpAddresses, LiveNow \cup ipsDone)

LayeredInv == Layered(mIpAddresses) => MergeSound /\ PlacedRight /\ AllCovered

PhaseOK ==
    /\ phase = "config" => ipsDone = {}
    /\ phase = "done" => currentNet = NoNet

RoutesInv == ConfigOK(mIpAddresses) /\ PhaseOK /\ LayeredInv

LEMMA NoNetIsNone == NoNet \notin ConfigNets
<1>1. NoNet.mask = Width + 2
    BY DEF NoNet
<1> QED BY <1>1, BlockFacts, WidthAssumption

LEMMA StepKeeps ==
    ASSUME NEW nets, ConfigOK(nets), Layered(nets),
           Sound(nets, currentNet, BagToSet(networks)), ipsDone \subseteq ConfigNets,
           NEW next \in Heads(networks), Step(next)
    PROVE  Sound(nets, currentNet', BagToSet(networks')) /\ Kept(Live, Live' \cup ipsDone')
<1>1. CASE PlaceCurrent(next)
    BY <1>1, PlaceCurrentKeeps
<1>2. CASE ForgetCurrent(next)
    BY <1>2, ForgetCurrentKeeps
<1>3. CASE SplitNext(next)
    BY <1>3, SplitNextKeeps
<1>4. CASE ForgetNext(next)
    BY <1>4, ForgetNextKeeps
<1>5. CASE SplitCurrent(next)
    BY <1>5, SplitCurrentKeeps
<1> QED BY <1>1, <1>2, <1>3, <1>4, <1>5 DEF Step

\* A pass through the loop places the current network or nothing.
LEMMA StepPlaces ==
    ASSUME NEW next, Step(next)
    PROVE  /\ ipsDone \subseteq ipsDone'
           /\ \A d \in ipsDone' :
                 d \in ipsDone \/ (d = currentNet /\ LastAddress(currentNet) < next.first)
<1>1. CASE PlaceCurrent(next)
    <2>1. ipsDone' = TreeAdd(ipsDone, currentNet) /\ LastAddress(currentNet) < next.first
        BY <1>1 DEF PlaceCurrent, Apart
    <2> QED BY <2>1, TreeAddAdds
<1>2. CASE ipsDone' = ipsDone
    BY <1>2
<1> QED BY <1>1, <1>2 DEF Step, ForgetCurrent, SplitNext, ForgetNext, SplitCurrent

LEMMA MergeKeepsRoutes ==
    ASSUME RoutesInv, Merge
    PROVE  RoutesInv'
<1>1. PICK next \in Heads(networks) : Step(next)
    BY DEF Merge
<1>2. /\ phase = "merge" /\ currentNet # NoNet /\ phase' = "merge"
      /\ mIpAddresses' = mIpAddresses
    BY DEF Merge
<1>3. ConfigOK(mIpAddresses') /\ PhaseOK'
    BY <1>2 DEF RoutesInv, PhaseOK
<1>4. ASSUME Layered(mIpAddresses) PROVE (MergeSound /\ PlacedRight /\ AllCovered)'
    <2>1. /\ Sound(mIpAddresses, currentNet, BagToSet(networks))
          /\ PlacedRight /\ AllCovered /\ ConfigOK(mIpAddresses)
        BY <1>2, <1>4 DEF RoutesInv, LayeredInv, MergeSound
    <2>2. ipsDone \subseteq ConfigNets
        BY <2>1 DEF PlacedRight, Right
    <2>3. /\ Sound(mIpAddresses, currentNet', BagToSet(networks'))
          /\ Kept(Live, Live' \cup ipsDone')
        BY <1>1, <1>4, <2>1, <2>2, StepKeeps
    <2>4. MergeSound'
        BY <1>2, <2>3 DEF MergeSound
    <2>5. PlacedRight'
        <3> SUFFICES ASSUME NEW d \in ipsDone' PROVE Right(mIpAddresses, d)
            BY <1>2 DEF PlacedRight
        <3>1. CASE d \in ipsDone
            BY <2>1, <3>1 DEF PlacedRight
        <3>2. CASE d = currentNet /\ LastAddress(currentNet) < next.first
            <4>1. \A q \in BagToSet(networks) :
                     /\ next.first <= q.first /\ q.first \in Nat /\ next.first \in Nat
                     /\ LastAddress(currentNet) \in Nat
                BY <1>1, <2>1, NextFacts, BlockFacts DEF Sound
            <4>2. \A q \in BagToSet(networks) : LastAddress(currentNet) < q.first
                BY <3>2, <4>1
            <4> QED BY <2>1, <3>2, <4>2, PlacedIsRight
        <3> QED BY <1>1, <3>1, <3>2, StepPlaces
    <2>6. AllCovered'
        <3>1. currentNet' \in ConfigNets
            BY <2>3 DEF Sound
        <3>2. LiveNow' = Live' /\ LiveNow = Live
            BY <1>2, <3>1, NoNetIsNone DEF LiveNow
        <3>3. ipsDone \subseteq ipsDone'
            BY <1>1, StepPlaces
        <3>4. Kept(mIpAddresses, Live \cup ipsDone)
            BY <1>2, <2>1, <3>2 DEF AllCovered
        <3>5. Kept(mIpAddresses, Live' \cup ipsDone')
            BY <2>3, <3>3, <3>4 DEF Kept
        <3> QED BY <1>2, <3>2, <3>5 DEF AllCovered
    <2> QED BY <2>4, <2>5, <2>6
<1> QED BY <1>2, <1>3, <1>4 DEF RoutesInv, LayeredInv

LEMMA GenerateKeepsRoutes ==
    ASSUME RoutesInv, Generate
    PROVE  RoutesInv'
<1>1. /\ phase = "config" /\ phase' = "merge" /\ mIpAddresses' = mIpAddresses
      /\ ipsDone = {} /\ ipsDone' = {} /\ ConfigOK(mIpAddresses)
    BY DEF Generate, RoutesInv, PhaseOK
<1>2. ConfigOK(mIpAddresses') /\ PhaseOK' /\ PlacedRight'
    BY <1>1 DEF PhaseOK, PlacedRight
<1>3. CASE mIpAddresses = {}
    <2>1. currentNet' = NoNet
        BY <1>3 DEF Generate
    <2> QED BY <1>1, <1>2, <1>3, <2>1 DEF RoutesInv, LayeredInv, MergeSound, AllCovered, Kept
<1>4. CASE mIpAddresses # {}
    <2>1. PICK n \in Heads(SetToBag(mIpAddresses)) :
             currentNet' = n /\ networks' = Poll(SetToBag(mIpAddresses), n)
        BY <1>4 DEF Generate
    <2>2. n \in mIpAddresses /\ \A o \in mIpAddresses : ~Before(o, n)
        BY QueueOf DEF Heads
    <2>3. /\ BagToSet(networks') \subseteq mIpAddresses
          /\ mIpAddresses \ {n} \subseteq BagToSet(networks')
        BY <2>1, QueueOf
    <2>4. {n} \cup BagToSet(networks') = mIpAddresses
        BY <2>2, <2>3
    <2>5. ASSUME Layered(mIpAddresses) PROVE Sound(mIpAddresses, n, BagToSet(networks'))
        <3>1. \A x \in mIpAddresses : Origin(mIpAddresses, x)
            BY <1>1, ContainsOrder DEF ConfigOK, Origin
        <3>2. \A x : \A m \in mIpAddresses : Cut(mIpAddresses, x) /\ Contains(x, m)
                        => SameNet(x, m)
            BY <1>1, <2>5, CutIsPlain DEF SameNet
        <3>3. \A x : Cut(mIpAddresses, x) => x \in mIpAddresses
            BY DEF Cut
        <3>4. \A x, y \in mIpAddresses : SameNet(x, y) => x.included = y.included
            BY <1>1 DEF ConfigOK
        <3>5. mIpAddresses \subseteq ConfigNets
            BY <1>1 DEF ConfigOK
        <3> QED BY <2>2, <2>3, <2>4, <3>1, <3>2, <3>3, <3>4, <3>5 DEF Sound
    <2>6. Layered(mIpAddresses') => MergeSound'
        BY <1>1, <2>1, <2>5 DEF MergeSound
    <2>7. AllCovered'
        <3>1. n # NoNet
            BY <1>1, <2>2, NoNetIsNone DEF ConfigOK
        <3>2. LiveNow' = mIpAddresses
            BY <2>1, <2>4, <3>1 DEF LiveNow, Live
        <3> QED BY <1>1, <3>2 DEF AllCovered, Kept
    <2> QED BY <1>2, <2>6, <2>7 DEF RoutesInv, LayeredInv
<1> QED BY <1>3, <1>4

LEMMA PlaceLastKeepsRoutes ==
    ASSUME RoutesInv, PlaceLast
    PROVE  RoutesInv'
<1>1. /\ phase = "merge" /\ currentNet # NoNet /\ currentNet' = NoNet
      /\ BagToSet(networks) = {}
      /\ ipsDone' = TreeAdd(ipsDone, currentNet)
      /\ mIpAddresses' = mIpAddresses /\ phase' = "merge"
    BY QueueOf DEF PlaceLast
<1>2. ConfigOK(mIpAddresses') /\ PhaseOK'
    BY <1>1 DEF RoutesInv, PhaseOK
<1>3. ASSUME Layered(mIpAddresses) PROVE (MergeSound /\ PlacedRight /\ AllCovered)'
    <2>1. /\ Sound(mIpAddresses, currentNet, {})
          /\ PlacedRight /\ AllCovered /\ ConfigOK(mIpAddresses)
        BY <1>1, <1>3 DEF RoutesInv, LayeredInv, MergeSound
    <2>2. Right(mIpAddresses, currentNet)
        BY <2>1, PlacedIsRight
    <2>3. ipsDone \subseteq ipsDone' /\ ipsDone' \subseteq ipsDone \cup {currentNet}
        BY <1>1, TreeAddAdds
    <2>4. PICK o \in ipsDone' : SameNet(currentNet, o)
        BY <1>1, TreeAddAdds
    <2>5. PlacedRight'
        BY <1>1, <2>1, <2>2, <2>3 DEF PlacedRight
    <2>6. o \in ConfigNets /\ currentNet \in ConfigNets
        BY <1>1, <2>2, <2>5 DEF PlacedRight, Right
    <2>7. Kept(mIpAddresses, {currentNet} \cup ipsDone)
        BY <1>1, <2>1 DEF AllCovered, LiveNow, Live
    <2>8. Kept(mIpAddresses, ipsDone')
        BY <2>3, <2>4, <2>6, <2>7, CoverHolds DEF Kept
    <2>9. LiveNow' = {}
        BY <1>1 DEF LiveNow
    <2>10. AllCovered'
        BY <1>1, <2>8, <2>9 DEF AllCovered
    <2>11. MergeSound'
        BY <1>1 DEF MergeSound
    <2> QED BY <2>5, <2>10, <2>11
<1> QED BY <1>1, <1>2, <1>3 DEF RoutesInv, LayeredInv

LEMMA RoutesInvHolds == Spec => []RoutesInv
<1>1. Init => RoutesInv
    BY DEF Init, RoutesInv, ConfigOK, PhaseOK, LayeredInv, MergeSound, PlacedRight, AllCovered
<1>2. RoutesInv /\ [Next]_vars => RoutesInv'
    <2> SUFFICES ASSUME RoutesInv, [Next]_vars PROVE RoutesInv'
        OBVIOUS
    <2>1. ASSUME NEW n \in ConfigNets, AddIP(n) PROVE RoutesInv'
        <3>1. /\ phase = "config" /\ phase' = "config" /\ ipsDone = {} /\ ipsDone' = {}
              /\ mIpAddresses' = TreeAdd(mIpAddresses, n)
            BY <2>1 DEF AddIP, RoutesInv, PhaseOK
        <3>2. ConfigOK(mIpAddresses')
            BY <3>1 DEF TreeAdd, RoutesInv, ConfigOK, SameNet
        <3> QED BY <3>1, <3>2 DEF RoutesInv, PhaseOK, LayeredInv, MergeSound, PlacedRight,
                                   AllCovered
    <2>2. CASE Clear
        <3>1. /\ phase' = "config" /\ ipsDone' = {} /\ mIpAddresses' = {}
            BY <2>2 DEF Clear
        <3> QED BY <3>1 DEF RoutesInv, ConfigOK, PhaseOK, LayeredInv, MergeSound, PlacedRight,
                            AllCovered
    <2>3. CASE Generate
        BY <2>3, GenerateKeepsRoutes
    <2>4. CASE Merge
        BY <2>4, MergeKeepsRoutes
    <2>5. CASE PlaceLast
        BY <2>5, PlaceLastKeepsRoutes
    <2>6. CASE Finish
        <3>1. /\ phase = "merge" /\ phase' = "done" /\ currentNet = NoNet /\ currentNet' = NoNet
              /\ UNCHANGED <<mIpAddresses, networks, ipsDone>>
            BY <2>6 DEF Finish
        <3>2. LiveNow' = {} /\ LiveNow = {}
            BY <3>1 DEF LiveNow
        <3> QED BY <3>1, <3>2 DEF RoutesInv, PhaseOK, LayeredInv, MergeSound, PlacedRight,
                                   AllCovered
    <2>7. CASE UNCHANGED vars
        BY <2>7 DEF vars, RoutesInv, PhaseOK, LayeredInv, MergeSound, PlacedRight, AllCovered,
                    LiveNow, Live
    <2> QED BY <2>1, <2>2, <2>3, <2>4, <2>5, <2>6, <2>7 DEF Next
<1> QED BY <1>1, <1>2, PTL DEF Spec

\* Where the configuration is layered, the assertions of a debug build hold on
\* every pass through the loop (generateIPList lines 255-257 and 272-273).
THEOREM AssertionsHold == Spec => []LayeredAssertsHold
<1>1. RoutesInv => LayeredAssertsHold
    <2> SUFFICES ASSUME RoutesInv, Layered(mIpAddresses), phase = "merge", currentNet # NoNet,
                        NEW next \in Heads(networks),
                        ~Apart(currentNet, next), ~Inside(currentNet, next)
                 PROVE  /\ currentNet.mask < next.mask
                        /\ next.first > currentNet.first
                        /\ LastAddress(currentNet) >= LastAddress(next)
                        /\ SecondHalf(currentNet).mask = next.mask =>
                              SameNet(SecondHalf(currentNet), next)
        BY DEF LayeredAssertsHold, AssertsHold
    <2>1. Sound(mIpAddresses, currentNet, BagToSet(networks))
        BY DEF RoutesInv, LayeredInv, MergeSound
    <2>2. /\ next \in ConfigNets /\ currentNet \in ConfigNets
          /\ currentNet.first < next.first /\ Within(currentNet, next)
        BY <2>1, NextFacts
    <2>3. currentNet.mask < next.mask
        BY <2>2, InHalf
    <2>4. next.first > currentNet.first /\ LastAddress(currentNet) >= LastAddress(next)
        BY <2>2, BlockFacts DEF Within, Contains
    <2>5. SecondHalf(currentNet).mask = next.mask => SameNet(SecondHalf(currentNet), next)
        BY <2>1, TwinIsNext
    <2> QED BY <2>3, <2>4, <2>5
<1> QED BY <1>1, RoutesInvHolds, PTL

\* Of the networks that cover an address, one is most specific.
LEMMA MostSpecific ==
    ASSUME NEW nets, nets \subseteq ConfigNets, NEW a, \E n \in nets : Covers(n, a)
    PROVE  \E n \in nets : /\ Covers(n, a)
                           /\ \A o \in nets : Covers(o, a) => o.mask <= n.mask
<1> DEFINE S == {Width - n.mask : n \in {o \in nets : Covers(o, a)}}
<1>1. \A n \in nets : n.mask \in Nat /\ n.mask <= Width
    BY BlockFacts
<1>2. S # {} /\ S \subseteq Nat
    BY <1>1, WidthAssumption
<1>3. PICK m \in S : \A k \in S : m <= k
    BY <1>2, Smallest
<1>4. PICK n \in nets : Covers(n, a) /\ m = Width - n.mask
    BY <1>3
<1>5. ASSUME NEW o \in nets, Covers(o, a) PROVE o.mask <= n.mask
    <2>1. Width - n.mask <= Width - o.mask
        BY <1>3, <1>4, <1>5
    <2> QED BY <1>1, <2>1, WidthAssumption
<1> QED BY <1>4, <1>5

\* Addresses whose most specific network is included are captured.
LEMMA NothingLeaks ==
    ASSUME RoutesInv, Layered(mIpAddresses), phase = "done", NEW a \in Addresses,
           NEW legacy \in BOOLEAN, Routed(mIpAddresses, a)
    PROVE  Routed(PositiveIPs(legacy), a)
<1>1. a \in Int
    BY WidthAssumption, Powers DEF Addresses
<1>2. PICK n \in mIpAddresses : /\ n.included /\ Covers(n, a)
                                /\ \A o \in mIpAddresses : Covers(o, a) => o.mask <= n.mask
    BY DEF Routed
<1>3. Kept(mIpAddresses, ipsDone) /\ PlacedRight /\ mIpAddresses \subseteq ConfigNets
    BY DEF RoutesInv, LayeredInv, AllCovered, PhaseOK, LiveNow, ConfigOK
<1>4. PICK d \in ipsDone : Covers(d, a)
    BY <1>1, <1>2, <1>3 DEF Kept
<1>5. d.included
    <2>1. SUFFICES ASSUME ~d.included PROVE FALSE
        OBVIOUS
    <2>2. n.included # d.included
        BY <1>2, <2>1
    <2>3. PICK r \in mIpAddresses : Covers(r, a) /\ r.mask > n.mask
        BY <1>1, <1>2, <1>3, <1>4, <2>2 DEF PlacedRight, Right
    <2>4. r.mask <= n.mask /\ r.mask \in Nat /\ n.mask \in Nat
        BY <1>2, <1>3, <2>3, BlockFacts
    <2> QED BY <2>3, <2>4
<1> DEFINE P == PositiveIPs(legacy)
<1>6. d \in P
    BY <1>5 DEF PositiveIPs
<1>7. P \subseteq ConfigNets /\ \A p \in P : p.included
    BY <1>3 DEF PositiveIPs, PlacedRight, Right
<1> HIDE DEF P
<1>8. \E p \in P : Covers(p, a) /\ \A o \in P : Covers(o, a) => o.mask <= p.mask
    BY <1>4, <1>6, <1>7, MostSpecific
<1> QED BY <1>7, <1>8 DEF Routed, P

\* Addresses that are captured have an included most specific network.
LEMMA NothingIsCaptured ==
    ASSUME RoutesInv, Layered(mIpAddresses), phase = "done", NEW a \in Addresses,
           NEW legacy \in BOOLEAN, Routed(PositiveIPs(legacy), a)
    PROVE  Routed(mIpAddresses, a)
<1>1. a \in Int
    BY WidthAssumption, Powers DEF Addresses
<1>2. /\ Kept(mIpAddresses, ipsDone) /\ PlacedRight /\ mIpAddresses \subseteq ConfigNets
      /\ ConfigOK(mIpAddresses)
    BY DEF RoutesInv, LayeredInv, AllCovered, PhaseOK, LiveNow, ConfigOK
<1>3. ipsDone \subseteq ConfigNets
    BY <1>2 DEF PlacedRight, Right
<1>4. PICK n \in PositiveIPs(legacy) : n.included /\ Covers(n, a)
    BY DEF Routed
<1>5. \/ n \in ipsDone
      \/ /\ n \in mIpAddresses
         /\ ~\E d \in ipsDone : ~d.included /\ Contains(n, d)
    BY <1>4 DEF PositiveIPs
<1>6. \E m \in mIpAddresses : Covers(m, a)
    <2>1. CASE n \in ipsDone
        <3>1. PICK r \in mIpAddresses : Contains(r, n)
            BY <1>2, <2>1 DEF PlacedRight, Right
        <3> QED BY <1>1, <1>2, <1>3, <1>4, <2>1, <3>1, CoverHolds
    <2> QED BY <1>4, <1>5, <2>1
<1>7. PICK m \in mIpAddresses : /\ Covers(m, a)
                                /\ \A o \in mIpAddresses : Covers(o, a) => o.mask <= m.mask
    BY <1>2, <1>6, MostSpecific
\* No network of the result has another type than the most specific one.
<1>8. \A d \in ipsDone : Covers(d, a) => d.included = m.included
    <2> SUFFICES ASSUME NEW d \in ipsDone, Covers(d, a), d.included # m.included PROVE FALSE
        OBVIOUS
    <2>1. PICK r \in mIpAddresses : Covers(r, a) /\ r.mask > m.mask
        BY <1>1, <1>2, <1>7 DEF PlacedRight, Right
    <2>2. r.mask <= m.mask /\ r.mask \in Nat /\ m.mask \in Nat
        BY <1>2, <1>7, <2>1, BlockFacts
    <2> QED BY <2>1, <2>2
<1>9. m.included
    <2>1. SUFFICES ASSUME ~m.included PROVE FALSE
        OBVIOUS
    <2>2. /\ n \in mIpAddresses /\ n \in ConfigNets /\ m \in ConfigNets
          /\ ~\E d \in ipsDone : ~d.included /\ Contains(n, d)
        BY <1>2, <1>4, <1>5, <1>8, <2>1
    <2>3. PICK d \in ipsDone : Covers(d, a)
        BY <1>1, <1>2, <1>7 DEF Kept
    <2>4. d \in ConfigNets /\ ~d.included
        BY <1>3, <1>8, <2>1, <2>3
    <2>5. Within(d, n)
        BY <1>1, <1>4, <2>2, <2>3, <2>4, CoverNested
    <2>6. PICK r \in mIpAddresses : r.included = d.included /\ Contains(r, d)
        BY <1>2, <2>3 DEF PlacedRight, Right
    <2>7. Within(r, n) /\ r.included # n.included
        BY <1>2, <1>4, <2>2, <2>4, <2>5, <2>6, WithinOrder
    <2>8. Cut(mIpAddresses, n)
        BY <2>2, <2>6, <2>7 DEF Cut, Opposed
    <2>9. Contains(n, m)
        <3>1. n.mask <= m.mask /\ n.mask \in Nat /\ m.mask \in Nat
            BY <1>4, <1>7, <2>2, BlockFacts
        <3>2. Contains(n, m) \/ Within(m, n)
            BY <1>1, <1>4, <1>7, <2>2, CoverNested
        <3>3. Within(m, n) => m.mask < n.mask
            BY <2>2, InHalf
        <3> QED BY <3>1, <3>2, <3>3
    <2>10. n = m
        BY <1>2, <2>8, <2>9, CutIsPlain
    <2> QED BY <1>4, <2>1, <2>10
<1> QED BY <1>7, <1>9 DEF Routed

\* Where the configuration is layered, the routes given to Android capture an
\* address exactly when the most specific network configured for it is an
\* included one (generateIPList, getPositiveIPList).
THEOREM RoutesAreRight == Spec => []RoutesRight
<1>1. RoutesInv => RoutesRight
    <2> SUFFICES ASSUME RoutesInv, phase = "done", Layered(mIpAddresses),
                        NEW a \in Addresses, NEW legacy \in BOOLEAN
                 PROVE  Routed(PositiveIPs(legacy), a) = Routed(mIpAddresses, a)
        BY DEF RoutesRight
    <2>1. Routed(PositiveIPs(legacy), a) <=> Routed(mIpAddresses, a)
        BY NothingLeaks, NothingIsCaptured
    <2>2. /\ Routed(PositiveIPs(legacy), a) \in BOOLEAN
          /\ Routed(mIpAddresses, a) \in BOOLEAN
        BY DEF Routed
    <2> QED BY <2>1, <2>2
<1> QED BY <1>1, RoutesInvHolds, PTL
================================================================================
