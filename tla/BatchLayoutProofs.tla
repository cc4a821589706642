------------------------- MODULE BatchLayoutProofs --------------------------
(***************************************************************************)
(* How splitBatches cuts n transactions, for every n from two on and every *)
(* Batch size: BatchedProofs needs that the last group has two members,    *)
(* ContentProofs that no group is larger than a Batch.                     *)
(***************************************************************************)
EXTENDS BatchLayout, TLAPS

LEMMA TimesMono ==
    ASSUME NEW a \in Nat, NEW b \in Nat, NEW c \in Nat, b <= c
    PROVE  a * b \in Nat /\ a * c \in Nat /\ a * b <= a * c
<1>1. c - b \in Nat /\ c = b + (c - b)
    OBVIOUS
<1>2. a * (c - b) \in Nat
    BY <1>1
<1>3. a * c = a * b + a * (c - b)
    BY <1>1
<1> QED
    BY <1>2, <1>3

LEMMA DivMod ==
    ASSUME NEW n \in Nat, NEW d \in Nat, d >= 1
    PROVE  /\ n \div d \in Nat /\ n % d \in Nat /\ n % d < d
           /\ n = d * (n \div d) + (n % d)
OBVIOUS

\* There is a group, and so many that none of at least two items each is
\* short of more than one.
LEMMA GroupsAre ==
    ASSUME NEW n \in Nat, n >= 2
    PROVE  /\ Groups(n) \in Nat /\ Groups(n) >= 1
           /\ n >= 2 * Groups(n) - 1
<1> DEFINE M == MaxInner
           G == Groups(n)
           r == (n + M - 1) % M
<1>1. M \in Nat /\ M >= 2
    BY InnerAssumption
<1>2. G = (n + M - 1) \div M /\ n + M - 1 \in Nat
    BY <1>1 DEF Groups
<1>3. G \in Nat /\ r \in Nat /\ r < M /\ n + M - 1 = M * G + r
    BY <1>1, <1>2, DivMod
<1> HIDE DEF G, r, M
<1>4. G # 0
    BY <1>1, <1>3
<1>5. (G - 1) \in Nat /\ M * G = M * (G - 1) + M
    BY <1>1, <1>3, <1>4
<1>6. (G - 1) * 2 <= (G - 1) * M
    BY <1>1, <1>5, TimesMono
<1>7. (G - 1) * M = M * (G - 1) /\ M * (G - 1) \in Nat
    BY <1>1, <1>5
<1>8. n = M * (G - 1) + r + 1
    BY <1>1, <1>3, <1>5, <1>7
<1> QED
    BY <1>3, <1>4, <1>6, <1>7, <1>8 DEF G

\* The groups are consecutive, they cover all items, and the last has two.
LEMMA LayoutIs ==
    ASSUME NEW n \in Nat, n >= 2
    PROVE  /\ Groups(n) \in Nat /\ Groups(n) >= 1
           /\ First(n, 1) = 0 /\ SplitSize(n, 1) >= 1
           /\ \A g \in 1..Groups(n) :
                 /\ First(n, g) \in Nat /\ SplitSize(n, g) \in Nat
                 /\ First(n, g + 1) = First(n, g) + SplitSize(n, g)
                 /\ g # Groups(n) => First(n, g + 1) <= n - 2
           /\ First(n, Groups(n)) + SplitSize(n, Groups(n)) = n
<1> DEFINE G == Groups(n)
           b == n \div G
           e == n % G
<1>1. G \in Nat /\ G >= 1 /\ n >= 2 * G - 1
    BY GroupsAre
<1>2. b \in Nat /\ e \in Nat /\ e < G /\ n = G * b + e
    BY <1>1, DivMod
<1>3. \A g : SplitSize(n, g) = IF g > G - e THEN b + 1 ELSE b
    BY DEF SplitSize
<1>4. \A g : First(n, g) = b * (g - 1) + (IF g - 1 > G - e THEN g - 1 - (G - e) ELSE 0)
    BY DEF First
<1> HIDE DEF G, b, e
<1>5. b # 0
    BY <1>1, <1>2
<1>6. b = 1 => e >= 1
    BY <1>1, <1>2
<1>7. First(n, 1) = 0
    BY <1>1, <1>2, <1>4
<1>8. \A g \in 1..G : /\ b * (g - 1) \in Nat /\ b * g \in Nat /\ b * g = b * (g - 1) + b
    BY <1>1, <1>2
<1>9. ASSUME NEW g \in 1..G
      PROVE  /\ First(n, g) \in Nat /\ SplitSize(n, g) \in Nat
             /\ First(n, g + 1) = First(n, g) + SplitSize(n, g)
    <2>1. First(n, g + 1) = b * g + (IF g > G - e THEN g - (G - e) ELSE 0)
        <3>1. (g + 1) - 1 = g
            BY <1>1
        <3> QED
            BY <1>4, <3>1
    <2>2. b * (g - 1) \in Nat /\ b * g = b * (g - 1) + b
        BY <1>8
    <2>3. First(n, g) = b * (g - 1) + (IF g - 1 > G - e THEN g - 1 - (G - e) ELSE 0)
        BY <1>4
    <2>4. SplitSize(n, g) = IF g > G - e THEN b + 1 ELSE b
        BY <1>3
    <2> DEFINE x == b * (g - 1)
               y == b * g
    <2> HIDE DEF x, y
    <2>5. x \in Nat /\ y = x + b
        BY <2>2 DEF x, y
    <2>6. /\ First(n, g) = x + (IF g - 1 > G - e THEN g - 1 - (G - e) ELSE 0)
          /\ First(n, g + 1) = y + (IF g > G - e THEN g - (G - e) ELSE 0)
        BY <2>1, <2>3 DEF x, y
    <2> QED
        BY <1>1, <1>2, <2>4, <2>5, <2>6
<1>10. First(n, G + 1) = n
    <2>1. First(n, G + 1) = b * G + (IF G > G - e THEN e ELSE 0)
        <3>1. (G + 1) - 1 = G /\ G - (G - e) = e
            BY <1>1, <1>2
        <3> QED
            BY <1>4, <3>1
    <2>2. b * G = G * b
        BY <1>1, <1>2
    <2> QED
        BY <1>1, <1>2, <2>1, <2>2
<1>11. G \in 1..G
    BY <1>1
<1>12. First(n, G) + SplitSize(n, G) = n
    BY <1>9, <1>10, <1>11
<1>13. SplitSize(n, G) >= 2
    BY <1>1, <1>2, <1>3, <1>5, <1>6
<1>14. First(n, G) <= n - 2
    BY <1>9, <1>11, <1>12, <1>13
<1>15. ASSUME NEW g \in 1..G, g # G
       PROVE  First(n, g + 1) <= n - 2
    <2>1. g \in Nat /\ G - 1 \in Nat /\ g <= G - 1
        BY <1>1, <1>15
    <2>2. b * g <= b * (G - 1) /\ b * g \in Nat /\ b * (G - 1) \in Nat
        BY <1>2, <2>1, TimesMono
    <2>3. First(n, g + 1) = b * g + (IF g > G - e THEN g - (G - e) ELSE 0)
        <3>1. (g + 1) - 1 = g
            BY <2>1
        <3> QED
            BY <1>4, <3>1
    <2>4. First(n, G) = b * (G - 1) + (IF G - 1 > G - e THEN G - 1 - (G - e) ELSE 0)
        BY <1>4
    <2>5. First(n, g + 1) <= First(n, G)
        BY <1>1, <1>2, <2>1, <2>2, <2>3, <2>4
    <2> QED
        BY <1>9, <1>11, <1>14, <1>15, <2>1, <2>2, <2>3, <2>5
<1>16. SplitSize(n, 1) >= 1
    BY <1>1, <1>2, <1>3, <1>5
<1> QED
    BY <1>1, <1>7, <1>9, <1>12, <1>15, <1>16 DEF G

\* Every group is one a Batch can carry, no later group is smaller than the
\* first, and only the first of several may be a single transaction.
LEMMA LayoutFits ==
    ASSUME NEW n \in Nat, n >= 2
    PROVE  /\ \A g \in 1..Groups(n) :
                 /\ SplitSize(n, g) \in 1..MaxInner
                 /\ SplitSize(n, g) = 1 => g = 1 /\ Groups(n) > 1
           /\ SplitSize(n, 1) <= SplitSize(n, Groups(n))
<1> DEFINE M == MaxInner
           G == Groups(n)
           b == n \div G
           e == n % G
           r == (n + M - 1) % M
<1>1. G \in Nat /\ G >= 1 /\ n >= 2 * G - 1
    BY GroupsAre
<1>2. b \in Nat /\ e \in Nat /\ e < G /\ n = G * b + e
    BY <1>1, DivMod
<1>3. \A g : SplitSize(n, g) = IF g > G - e THEN b + 1 ELSE b
    BY DEF SplitSize
<1>4. M \in Nat /\ M >= 2
    BY InnerAssumption
<1>5. r \in Nat /\ r < M /\ n + M - 1 = M * G + r
    <2>1. n + M - 1 \in Nat /\ G = (n + M - 1) \div M
        BY <1>4 DEF Groups
    <2> QED
        BY <1>4, <2>1, DivMod
<1> HIDE DEF M, G, b, e, r
<1>6. b # 0
    BY <1>1, <1>2
<1>7. n <= G * M
    <2>1. M * G = G * M /\ M * G \in Nat
        BY <1>1, <1>4
    <2> QED
        BY <1>4, <1>5, <2>1
<1>8. b <= M /\ (e > 0 => b + 1 <= M)
    <2>1. ASSUME b >= M + 1
          PROVE  FALSE
        <3>1. G * (M + 1) <= G * b /\ G * b \in Nat
            BY <1>1, <1>2, <1>4, <2>1, TimesMono
        <3>2. G * (M + 1) = G * M + G /\ G * M \in Nat
            BY <1>1, <1>4
        <3> QED
            BY <1>1, <1>2, <1>7, <3>1, <3>2
    <2>2. b = M => e = 0
        <3>1. G * M \in Nat
            BY <1>1, <1>4
        <3> QED
            BY <1>2, <1>7, <3>1
    <2> QED
        BY <1>2, <1>4, <2>1, <2>2
<1>9. b = 1 => G > 1 /\ G - e <= 1
    BY <1>1, <1>2
<1>10. ASSUME NEW g \in 1..G
       PROVE  SplitSize(n, g) \in 1..M /\ (SplitSize(n, g) = 1 => g = 1 /\ G > 1)
    <2>1. SplitSize(n, g) = IF g > G - e THEN b + 1 ELSE b
        BY <1>3
    <2>2. CASE g > G - e
        <3>1. e > 0
            BY <1>1, <1>2, <2>2
        <3> QED
            BY <1>2, <1>4, <1>6, <1>8, <2>1, <2>2, <3>1
    <2>3. CASE ~(g > G - e)
        BY <1>1, <1>2, <1>4, <1>6, <1>8, <1>9, <2>1, <2>3
    <2> QED
        BY <2>2, <2>3
<1>11. SplitSize(n, 1) <= SplitSize(n, G)
    BY <1>1, <1>2, <1>3
<1> QED
    BY <1>10, <1>11 DEF M, G
=============================================================================
