--------------------------- MODULE SerialTheorems ---------------------------
(***************************************************************************)
(* serial_less_32 and serial_greater_32 decide the order of two unwrapped   *)
(* PSNs that are less than half of the sequence space apart.                *)
(***************************************************************************)
EXTENDS SerialNumbers, TLAPS

LEMMA DivisionAlgorithm ==
    ASSUME NEW m \in Nat, m > 0, NEW a \in Int
    PROVE  /\ a \div m \in Int
           /\ a % m \in 0 .. m - 1
           /\ a = m * (a \div m) + (a % m)
  OBVIOUS

LEMMA DifferenceOfResidues ==
    ASSUME NEW m \in Nat, m > 0, NEW a \in Int, NEW b \in Int
    PROVE  \E k \in Int : a - b = m * k + ((a % m) - (b % m))
<1>1. a = m * (a \div m) + (a % m) /\ b = m * (b \div m) + (b % m)
  BY DivisionAlgorithm
<1>2. PICK k \in Int : k = (a \div m) - (b \div m)
  BY DivisionAlgorithm
<1>3. a - b = m * k + ((a % m) - (b % m))
  BY <1>1, <1>2, DivisionAlgorithm
<1> QED BY <1>3

\* Two numbers less than m apart have the same residue only if they are equal.
LEMMA SameResidue ==
    ASSUME NEW m \in Nat, m > 0, NEW a \in Int, NEW b \in Int,
           a - b < m, b - a < m, a % m = b % m
    PROVE  a = b
<1>1. PICK k \in Int : a - b = m * k + ((a % m) - (b % m))
  BY DifferenceOfResidues
<1>2. a - b = m * k
  BY <1>1, DivisionAlgorithm
<1>3. k < 1 /\ k > -1
  BY <1>2
<1> QED BY <1>2, <1>3

\* The slot of a PSN is reused after exactly m PSNs.
LEMMA ResidueShift ==
    ASSUME NEW m \in Nat, m > 0, NEW a \in Int, NEW b \in Int, b = a - m
    PROVE  b % m = a % m
<1>1. PICK k \in Int : a - b = m * k + ((a % m) - (b % m))
  BY DifferenceOfResidues
<1>2. a % m \in 0 .. m - 1 /\ b % m \in 0 .. m - 1
  BY DivisionAlgorithm
<1>3. m * (1 - k) = (a % m) - (b % m)
  BY <1>1, <1>2
<1>4. 1 - k < 1 /\ 1 - k > -1
  BY <1>2, <1>3
<1> QED BY <1>2, <1>3, <1>4

\* Equality of PSNs as the code sees them is equality, within the lifetime of a
\* packet.
THEOREM SamePsnIsEqual ==
    ASSUME NEW x \in Int, NEW y \in Int, x - y < Half, y - x < Half
    PROVE  SamePsn(x, y) <=> x = y
<1>1. PsnMod \in Nat /\ PsnMod > 0 /\ Half < PsnMod
  BY HalfAssumption DEF PsnMod
<1>2. x - y < PsnMod /\ y - x < PsnMod
  BY <1>1, HalfAssumption
<1> QED BY <1>1, <1>2, SameResidue DEF SamePsn, Psn

\* serial_less_32 orders PSNs correctly across the wrap-around.
THEOREM SerialLessIsLess ==
    ASSUME NEW x \in Int, NEW y \in Int, x - y < Half, y - x < Half
    PROVE  SerialLess(x, y) <=> x < y
<1> DEFINE M == PsnMod
           s1 == x % M
           s2 == y % M
<1>1. M \in Nat /\ M > 0 /\ M = 2 * Half
  BY HalfAssumption DEF PsnMod
<1>2. s1 \in 0 .. M - 1 /\ s2 \in 0 .. M - 1
  BY <1>1, DivisionAlgorithm
<1>3. PICK k \in Int : y - x = M * k + (s2 - s1)
  BY <1>1, DifferenceOfResidues
<1>4. SerialLess(x, y) <=> \/ s1 < s2 /\ s2 - s1 < Half
                           \/ s1 > s2 /\ s1 - s2 > Half
  BY DEF SerialLess, Psn
<1> HIDE DEF M, s1, s2
<1>5. k \in {-1, 0, 1}
  BY <1>1, <1>2, <1>3, HalfAssumption
<1>6. y - x = (s2 - s1) + (IF k = 0 THEN 0 ELSE IF k = 1 THEN M ELSE -M)
  BY <1>1, <1>2, <1>3, <1>5
<1> QED BY <1>1, <1>2, <1>4, <1>5, <1>6, HalfAssumption

=============================================================================
