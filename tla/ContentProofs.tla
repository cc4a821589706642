--------------------------- MODULE ContentProofs ---------------------------
(***************************************************************************)
(* Proofs about what a backup holds.  Plans: the sizes of Encoding for     *)
(* every length, and for every plan that Build accepts the manifest of     *)
(* BatchFees, the Batches it goes out in and what they cost.               *)
(* Attestations: the verdicts of Attest for every set of hosts, keys and   *)
(* validators and histories of any length.  Redaction: the two documents   *)
(* of Redact for texts of any length and shape.  All three rest on the     *)
(* same induction over the naturals, InductNat, and the last two on what   *)
(* FlattenSeq makes of a sequence of sequences.                            *)
(***************************************************************************)
EXTENDS BatchFees, BatchLayoutProofs, Attest, Redact, TLAPS,
        FiniteSetTheorems, SequenceTheorems, WellFoundedInduction

-----------------------------------------------------------------------------
(* Sizes: blocks, length prefixes, memos, manifest parts.                  *)

\* Pack fills up the last block: the pad is shorter than a block and the
\* result is whole blocks.
LEMMA PadLenFills ==
    ASSUME NEW n \in Nat
    PROVE  /\ PadLen(n) \in 0..(BlockLen - 1)
           /\ (n + PadLen(n) + 2) % BlockLen = 0
<1>1. (n + 2) % 960 \in 0..959
  BY SMT
<1>2. n + 2 = 960 * ((n + 2) \div 960) + ((n + 2) % 960)
  BY SMT
<1>3. CASE (n + 2) % 960 = 0
  BY SMT, <1>1, <1>3 DEF PadLen, BlockLen
<1>4. CASE (n + 2) % 960 # 0
  <2>1. PadLen(n) = 960 - ((n + 2) % 960)
    BY SMT, <1>1, <1>4 DEF PadLen, BlockLen
  <2>2. n + PadLen(n) + 2 = 960 * ((n + 2) \div 960 + 1)
    BY SMT, <1>1, <1>2, <2>1
  <2>3. \A q \in Nat : (960 * q) % 960 = 0
    BY SMT
  <2>4. (n + 2) \div 960 + 1 \in Nat
    BY SMT
  <2> QED
    BY SMT, <1>1, <1>4, <2>1, <2>2, <2>3, <2>4 DEF BlockLen
<1> QED
  BY SMT, <1>3, <1>4

\* Unpack takes off what Pack added, and Split sees whole blocks.
LEMMA PackBack ==
    ASSUME NEW n \in Nat
    PROVE  /\ Unpack(Pack(n)) = n
           /\ SplitBlocks(Pack(n).len) * BlockLen = Pack(n).len
           /\ Pack(n).len - n <= BlockLen + 1
<1> DEFINE p == PadLen(n)
<1>1. p \in 0..959 /\ (n + p + 2) % 960 = 0
  BY SMT, PadLenFills DEF BlockLen
<1>2. Pack(n).len = n + p + 2 /\ Pack(n).pad = p + 2
  BY SMT, <1>1 DEF Pack
<1> HIDE DEF p
<1>3. Unpack(Pack(n)) = n
  BY SMT, <1>1, <1>2 DEF Unpack, BlockLen
<1>4. SplitBlocks(Pack(n).len) = (n + p + 2) \div 960
  BY SMT, <1>1, <1>2 DEF SplitBlocks, BlockLen
<1>5. ((n + p + 2) \div 960) * 960 = n + p + 2
  BY SMT, <1>1
<1> QED
  BY SMT, <1>1, <1>2, <1>3, <1>4, <1>5 DEF BlockLen

\* The reader of a length prefix reads the length that was written.
LEMMA PrefixBack ==
    ASSUME NEW n \in Nat, n <= 918744
    PROVE  LET b == appendVL(n)
           IN vl(b) = n /\ b[1] <= 254 /\ BlobLen(n) = 1 + PrefixLen(b) + n
<1>1. CASE n <= 192
  BY SMT, <1>1 DEF appendVL, vl, PrefixLen, BlobLen
<1>2. CASE n > 192 /\ n <= 12480
  <2> DEFINE h == (n - 193) \div 256
             l == (n - 193) % 256
  <2>1. h \in 0..47 /\ l \in 0..255 /\ n - 193 = 256 * h + l
    BY SMT, <1>2
  <2>2. (193 + h) % 256 = 193 + h
    BY SMT, <2>1
  <2>3. appendVL(n) = <<193 + h, l>>
    BY SMT, <1>2, <2>2 DEF appendVL
  <2> HIDE DEF h, l
  <2> QED
    BY SMT, <1>2, <2>1, <2>3 DEF vl, PrefixLen, BlobLen
<1>3. CASE n > 12480
  <2> DEFINE m == n - 12481
             h == m \div 65536
             j == (m \div 256) % 256
             l == m % 256
  <2>1. m \in Int /\ 0 <= m /\ m <= 906263
    BY SMT, <1>3
  <2>2. h \in Int /\ 0 <= h /\ h <= 13
    BY SMT, <2>1
  <2>3. m = 65536 * h + 256 * j + l /\ j \in 0..255 /\ l \in 0..255
    <3>1. m = 256 * (m \div 256) + l /\ l \in 0..255
      BY SMT, <2>1
    <3>2. (m \div 256) = 256 * ((m \div 256) \div 256) + j /\ j \in 0..255
      BY SMT, <2>1
    <3>3. (m \div 256) \div 256 = m \div 65536
      BY SMT, <2>1
    <3> QED
      BY SMT, <3>1, <3>2, <3>3
  <2>4. (241 + h) % 256 = 241 + h
    BY SMT, <2>2
  <2>5. appendVL(n) = <<241 + h, j, l>>
    BY SMT, <1>3, <2>4 DEF appendVL
  <2>6. n = 12481 + m
    BY SMT, <1>3
  <2> HIDE DEF h, j, l, m
  <2> QED
    BY SMT, <1>3, <2>1, <2>2, <2>3, <2>5, <2>6 DEF vl, PrefixLen, BlobLen
<1> QED
  BY SMT, <1>1, <1>2, <1>3

\* The parts of a manifest: none is empty, none is longer than a part, and
\* the last one ends where the manifest does.
LEMMA PartsCover ==
    ASSUME NEW n \in Nat, n > 0
    PROVE  /\ Parts(n) \in Nat /\ Parts(n) > 0
           /\ (Parts(n) - 1) * ManifestPartLen + PartLen(n, Parts(n) - 1) = n
           /\ \A i \in 0..(Parts(n) - 1) : PartLen(n, i) \in 1..ManifestPartLen
<1> DEFINE q == (n + 943) \div 944
<1>1. Parts(n) = q
  BY SMT DEF Parts, ManifestPartLen, BlockLen
<1>2. q \in Nat /\ q > 0 /\ 944 * (q - 1) < n /\ n <= 944 * q
  BY SMT
<1> HIDE DEF q
<1>3. ASSUME NEW i \in 0..(q - 1) PROVE PartLen(n, i) \in 1..944
  <2>1. i \in Nat /\ i <= q - 1 /\ 944 * i <= 944 * (q - 1)
    BY SMT, <1>2
  <2> QED
    BY SMT, <1>2, <2>1 DEF PartLen, ManifestPartLen, BlockLen
<1>4. (q - 1) * 944 + PartLen(n, q - 1) = n
  BY SMT, <1>2 DEF PartLen, ManifestPartLen, BlockLen
<1> QED
  BY SMT, <1>1, <1>2, <1>3, <1>4 DEF ManifestPartLen, BlockLen

\* A part and a chunk fit a memo.
LEMMA PiecesFit ==
    /\ SerializedMemos(ChunkData(BlockLen)) <= MaxMemosSerialized
    /\ \A n \in 1..ManifestPartLen : SerializedMemos(ManifestData(n)) <= MaxMemosSerialized
BY SMT DEF SerializedMemos, BlobLen, ChunkData, ManifestData, MaxMemosSerialized, TypeLen,
       headerLen, ManifestNonceLen, TagLen, ManifestPartLen, BlockLen

\* What is packed, cut, prefixed and put into memos is legal and reads back,
\* for every length (container.Pack, codec.appendVL, backup.ManifestMemos).
THEOREM SizesRight == SizesSpec => []SizesAgree
<1> DEFINE Natural == len \in Nat
<1>1. SizesInit => Natural
  BY DEF SizesInit
<1>2. Natural /\ [Longer]_len => Natural'
  BY DEF Longer
<1>3. Natural => PackInverts
  BY PackBack DEF PackInverts
<1>4. Natural => PrefixInverts
  BY PrefixBack DEF PrefixInverts
<1>5. Natural => MemosFit
  <2> SUFFICES ASSUME len \in Nat, len > 0
               PROVE  /\ (Parts(len) - 1) * ManifestPartLen + PartLen(len, Parts(len) - 1) = len
                      /\ \A i \in 0..(Parts(len) - 1) :
                           /\ PartLen(len, i) > 0
                           /\ SerializedMemos(ManifestData(PartLen(len, i))) <= MaxMemosSerialized
    BY PiecesFit DEF MemosFit
  <2>1. \A i \in 0..(Parts(len) - 1) : PartLen(len, i) \in 1..ManifestPartLen
    BY PartsCover
  <2>2. \A i \in 0..(Parts(len) - 1) : PartLen(len, i) > 0
    <3>1. ManifestPartLen \in Nat /\ \A x \in 1..ManifestPartLen : x > 0
      BY SMT DEF ManifestPartLen, BlockLen
    <3> QED
      BY <2>1, <3>1
  <2>3. \A i \in 0..(Parts(len) - 1) :
           SerializedMemos(ManifestData(PartLen(len, i))) <= MaxMemosSerialized
    BY <2>1, PiecesFit
  <2> QED
    BY PartsCover, <2>2, <2>3
<1>6. Natural => SizesAgree
  BY <1>3, <1>4, <1>5 DEF SizesAgree
<1> QED
  BY <1>1, <1>2, <1>6, PTL DEF SizesSpec

-----------------------------------------------------------------------------
(* A manifest that Build accepts fits, whatever ledgers its chunks land    *)
(* in.  The strengthening bounds what the ledger numbers add by what the   *)
(* projection allowed for.                                                 *)

\* What is known of every state of a run: the plan was accepted, and the
\* ledger numbers have added no more than nine digits per chunk.
FitsInv ==
    /\ c \in 0..MaxChunks
    /\ plain \in Nat
    /\ grown \in Nat /\ grown <= 9 * c
    /\ projectedManifestParts(plain, c) <= MaxParts

\* A longer manifest has no fewer parts, and one more at most as long as it
\* is longer by less than a part.
LEMMA PartsGrow ==
    ASSUME NEW n \in Nat, NEW m \in Nat, n <= m
    PROVE  /\ Parts(n) \in Nat /\ Parts(m) \in Nat
           /\ Parts(n) <= Parts(m)
           /\ m - n < ManifestPartLen => Parts(m) <= Parts(n) + 1
BY SMT DEF Parts, ManifestPartLen, BlockLen

\* Digits beyond the first, for c chunks that land in one ledger.
LEMMA DigitsGrow ==
    ASSUME NEW n \in Nat, NEW d \in 1..MaxDigits
    PROVE  n * (d - 1) \in Nat /\ n * (d - 1) <= 9 * n
<1>1. d \in {1, 2, 3, 4, 5, 6, 7, 8, 9, 10}
  BY SMT DEF MaxDigits
<1> QED
  BY <1>1, SMT

LEMMA FitsInit == FeesInit => FitsInv
<1> SUFFICES ASSUME FeesInit PROVE FitsInv
  OBVIOUS
<1>1. PICK j \in 1..MaxParts, r \in Slacks : plain = ManifestPartLen * j - r
  BY DEF FeesInit
<1>2. r \in 0..943 /\ j \in Nat /\ j >= 1
  BY <1>1, FeesAssumption, SMT DEF ManifestPartLen, BlockLen
<1>3. plain = 944 * j - r
  BY <1>1, SMT DEF ManifestPartLen, BlockLen
<1>4. plain \in Nat
  BY <1>2, <1>3, SMT
<1>5. c \in 0..MaxChunks /\ grown = 0
  BY DEF FeesInit
<1>6. grown \in Nat /\ grown <= 9 * c
  BY <1>5, FeesAssumption, SMT
<1> QED
  BY <1>4, <1>5, <1>6 DEF FeesInit, FitsInv

LEMMA FitsStep == FitsInv /\ [FeesNext]_feesVars => FitsInv'
<1> SUFFICES ASSUME FitsInv, [FeesNext]_feesVars PROVE FitsInv'
  OBVIOUS
<1>1. CASE SendWhole
  BY <1>1 DEF SendWhole, FitsInv
<1>2. CASE SendChunks
  <2>1. PICK digits \in 1..MaxDigits : grown' = c * (digits - 1)
    BY <1>2 DEF SendChunks
  <2>2. c \in Nat
    BY FeesAssumption, SMT DEF FitsInv
  <2>3. grown' \in Nat /\ grown' <= 9 * c
    BY <2>1, <2>2, DigitsGrow
  <2> QED
    BY <1>2, <2>3 DEF SendChunks, FitsInv
<1>3. CASE SendGroup
  BY <1>3 DEF SendGroup, FitsInv
<1>4. CASE UNCHANGED feesVars
  BY <1>4 DEF feesVars, FitsInv
<1> QED
  BY <1>1, <1>2, <1>3, <1>4 DEF FeesNext

\* No run pays for chunks whose manifest then turns out too long to be sent
\* or to be found, and the forecast is one part too many at most
\* (backup.Build, ManifestMemos, planReport).
THEOREM ManifestAlwaysFits == FeesSpec => []ManifestFits
<1>1. FitsInv => ManifestFits
  <2> SUFFICES ASSUME FitsInv PROVE ManifestFits
    OBVIOUS
  <2> DEFINE n == plain + grown
             m == plain + 9 * c
  <2>1. c \in Nat /\ c <= MaxChunks /\ plain \in Nat /\ grown \in Nat /\ grown <= 9 * c
    BY FeesAssumption, SMT DEF FitsInv
  <2>2. n \in Nat /\ m \in Nat /\ n <= m /\ m - n < ManifestPartLen
    BY <2>1, FeesAssumption, SMT DEF ManifestPartLen, BlockLen
  <2>3. k = Parts(n)
    BY DEF k
  <2>4. projectedManifestParts(plain, c) = Parts(m)
    BY <2>1, SMT DEF projectedManifestParts, MaxDigits
  <2> HIDE DEF n, m
  <2>5. Parts(n) \in Nat /\ Parts(m) \in Nat /\ Parts(n) <= Parts(m) /\ Parts(m) <= Parts(n) + 1
    BY <2>2, PartsGrow
  <2>6. Parts(m) <= MaxParts /\ MaxParts \in Nat
    BY <2>4, FeesAssumption DEF FitsInv
  <2> QED
    BY <2>3, <2>4, <2>5, <2>6, SMT DEF ManifestFits
<1> QED
  BY <1>1, FitsInit, FitsStep, PTL DEF FeesSpec

-----------------------------------------------------------------------------
(* The groups of the tail are what a Batch can carry.                      *)

\* The manifest has a part, and `next' counts what the groups before g sent.
LayoutInv ==
    /\ plain >= 1
    /\ stage \in {"start", "tail", "end"}
    /\ stage = "start" => next = 0
    /\ stage = "tail" => g \in 1..Groups(k + 1) /\ next = First(k + 1, g)
    /\ stage = "end" => next = k + 1

\* A manifest that is not empty makes two items at least, anchor included.
LEMMA ItemsAre ==
    ASSUME NEW n \in Nat, NEW d \in Nat, n >= 1
    PROVE  Parts(n + d) + 1 \in Nat /\ Parts(n + d) + 1 >= 2
<1>1. n + d \in Nat /\ n + d > 0
  OBVIOUS
<1>2. Parts(n + d) \in Nat /\ Parts(n + d) > 0
  BY <1>1, PartsCover
<1> QED
  BY <1>2

LEMMA LayoutStep == FitsInv /\ FitsInv' /\ LayoutInv /\ [FeesNext]_feesVars => LayoutInv'
<1> SUFFICES ASSUME FitsInv, FitsInv', LayoutInv, [FeesNext]_feesVars
             PROVE  LayoutInv'
  OBVIOUS
<1>1. CASE SendWhole
  <2>1. k' = k
    BY <1>1 DEF SendWhole, k
  <2> QED
    BY <1>1, <2>1 DEF SendWhole, LayoutInv
<1>2. CASE SendChunks
  <2>1. /\ stage = "start" /\ stage' = "tail" /\ g' = 1 /\ next' = 0 /\ plain' = plain
    BY <1>2 DEF SendChunks, LayoutInv
  <2>2. plain' >= 1
    BY <2>1 DEF LayoutInv
  <2>3. PICK n \in Nat : n = (k + 1)' /\ n >= 2
    BY <2>2, ItemsAre DEF k, FitsInv
  <2>4. 1 \in 1..Groups(n) /\ First(n, 1) = 0
    BY <2>3, LayoutIs
  <2> QED
    BY <2>1, <2>2, <2>3, <2>4 DEF LayoutInv
<1>3. CASE SendGroup
  <2>1. k' = k /\ plain' = plain
    BY <1>3 DEF SendGroup, k
  <2>2. PICK n \in Nat : n = k + 1 /\ n >= 2
    BY ItemsAre DEF LayoutInv, FitsInv, k
  <2>3. /\ stage = "tail" /\ g \in 1..Groups(n) /\ next = First(n, g)
        /\ next' = next + SplitSize(n, g) /\ g' = g + 1
        /\ stage' = IF g = Groups(n) THEN "end" ELSE "tail"
    BY <1>3, <2>2 DEF SendGroup, LayoutInv
  <2>4. /\ Groups(n) \in Nat
        /\ First(n, g + 1) = First(n, g) + SplitSize(n, g)
        /\ First(n, Groups(n)) + SplitSize(n, Groups(n)) = n
    BY <2>2, <2>3, LayoutIs
  <2>5. CASE g = Groups(n)
    BY <2>1, <2>2, <2>3, <2>4, <2>5 DEF LayoutInv
  <2>6. CASE g # Groups(n)
    <3>1. g + 1 \in 1..Groups(n)
      BY <2>3, <2>4, <2>6
    <3> QED
      BY <2>1, <2>2, <2>3, <2>4, <2>6, <3>1 DEF LayoutInv
  <2> QED
    BY <2>5, <2>6
<1>4. CASE UNCHANGED feesVars
  BY <1>4 DEF feesVars, LayoutInv, k
<1> QED
  BY <1>1, <1>2, <1>3, <1>4 DEF FeesNext

LEMMA LayoutInit == FeesInit => LayoutInv
<1> SUFFICES ASSUME FeesInit PROVE LayoutInv
  OBVIOUS
<1>1. PICK j \in 1..MaxParts, r \in Slacks : plain = ManifestPartLen * j - r
  BY DEF FeesInit
<1>2. r \in 0..943 /\ j \in Nat /\ j >= 1
  BY <1>1, FeesAssumption, SMT DEF ManifestPartLen, BlockLen
<1>3. plain = 944 * j - r
  BY <1>1, SMT DEF ManifestPartLen, BlockLen
<1>4. plain >= 1
  BY <1>2, <1>3, SMT
<1> QED
  BY <1>4 DEF FeesInit, LayoutInv

\* Every part and the anchor are sent exactly once, in groups a Batch can
\* carry, and the anchor never travels alone (batch.go, splitBatches and the
\* group loop of submitBatched), for every number of parts, also when the
\* chunks' ledger numbers have made the manifest longer since the plan.
THEOREM LayoutAlwaysLegal == FeesSpec => []LayoutLegal
<1>1. FitsInv /\ LayoutInv => LayoutLegal
  <2> SUFFICES ASSUME FitsInv, LayoutInv PROVE LayoutLegal
    OBVIOUS
  <2>1. PICK n \in Nat : n = k + 1 /\ n >= 2
    BY ItemsAre DEF LayoutInv, FitsInv, k
  <2>2. CASE stage = "tail"
    <3>1. g \in 1..Groups(n) /\ next = First(n, g)
      BY <2>1, <2>2 DEF LayoutInv
    <3>2. /\ SplitSize(n, g) \in 1..MaxInner
          /\ SplitSize(n, g) = 1 => g = 1 /\ Groups(n) > 1
          /\ SplitSize(n, 1) <= SplitSize(n, Groups(n))
      BY <2>1, <3>1, LayoutFits
    <3> QED
      BY <2>1, <2>2, <3>1, <3>2 DEF LayoutLegal
  <2>3. CASE stage # "tail"
    BY <2>3 DEF LayoutLegal, LayoutInv
  <2> QED
    BY <2>2, <2>3
<1> QED
  BY <1>1, FitsInit, FitsStep, LayoutInit, LayoutStep, PTL DEF FeesSpec

-----------------------------------------------------------------------------
(* What a run pays.  BaseFees adds up the groups in a loop; that the loop's *)
(* sum exists and what it is, is an induction over the groups.             *)

\* Induction, for a set of naturals.
LEMMA InductNat ==
    ASSUME NEW T, 0 \in T, \A n \in Nat : n \in T => n + 1 \in T
    PROVE  \A n \in Nat : n \in T
<1>1. IsWellFoundedOn(OpToRel(<, Nat), Nat)
  BY NatLessThanWellFounded
<1> DEFINE R == OpToRel(<, Nat)
           U == Nat \ T
<1>2. \A x, y \in Nat : <<y, x>> \in R <=> y < x
  BY DEF OpToRel
<1>3. IsWellFoundedOn(R, Nat)
  BY <1>1
<1> HIDE DEF R
<1>4. SUFFICES ASSUME U # {} PROVE FALSE
  BY <1>4
<1>5. PICK x \in U : \A y \in U : ~(<<y, x>> \in R)
  BY <1>3, <1>4, WFMin
<1>6. x \in Nat /\ x \notin T /\ x # 0
  OBVIOUS
<1>7. x - 1 \in Nat /\ x - 1 < x /\ (x - 1) + 1 = x
  BY <1>6
<1>8. x - 1 \in U
  BY <1>6, <1>7
<1> QED
  BY <1>2, <1>5, <1>6, <1>7, <1>8

\* A loop that adds up a[1], a[2], ... has a sum after every turn.
LEMMA SumExists ==
    ASSUME NEW a, NEW N \in Nat
    PROVE  \E f : f = [h \in 0..N |-> IF h = 0 THEN 0 ELSE f[h - 1] + a[h]]
<1> DEFINE Turn(f, h) == IF h = 0 THEN 0 ELSE f[h - 1] + a[h]
           T == {n \in Nat : \E f : f = [h \in 0..n |-> Turn(f, h)]}
<1>1. 0 \in T
  <2> DEFINE f == [h \in 0..0 |-> 0]
  <2>1. f = [h \in 0..0 |-> Turn(f, h)]
    OBVIOUS
  <2> QED
    BY <2>1
<1>2. ASSUME NEW n \in Nat, n \in T PROVE n + 1 \in T
  <2>1. PICK f : f = [h \in 0..n |-> Turn(f, h)]
    BY <1>2
  <2> DEFINE u == [h \in 0..(n + 1) |-> IF h = n + 1 THEN f[n] + a[h] ELSE f[h]]
  <2>2. ASSUME NEW h \in 0..(n + 1) PROVE u[h] = Turn(u, h)
    <3>1. CASE h = 0
      BY <2>1, <3>1
    <3>2. CASE h # 0
      <4>1. h - 1 \in 0..n /\ h - 1 # n + 1
        BY <3>2
      <4>2. u[h - 1] = f[h - 1]
        BY <4>1
      <4>3. CASE h = n + 1
        BY <3>2, <4>2, <4>3
      <4>4. CASE h # n + 1
        <5>1. h \in 0..n /\ u[h] = f[h]
          BY <4>4
        <5> QED
          BY <2>1, <3>2, <4>2, <5>1
      <4> QED
        BY <4>3, <4>4
    <3> QED
      BY <3>1, <3>2
  <2>3. u = [h \in 0..(n + 1) |-> Turn(u, h)]
    <3>1. u = [h \in 0..(n + 1) |-> u[h]]
      OBVIOUS
    <3> HIDE DEF u
    <3> QED
      BY <2>2, <3>1
  <2> HIDE DEF u
  <2>4. n + 1 \in Nat /\ \E w : w = [h \in 0..(n + 1) |-> Turn(w, h)]
    BY <2>3
  <2> HIDE DEF Turn
  <2> QED
    BY <2>4
<1> HIDE DEF T
<1>3. N \in T
  BY <1>1, <1>2, InductNat
<1> QED
  BY <1>3 DEF T

\* The recursion that defines GroupFees is met.
LEMMA GroupFeesIs ==
    ASSUME NEW n \in Nat, Groups(n) \in Nat
    PROVE  /\ GroupFees(n)[0] = 0
           /\ \A h \in 1..Groups(n) :
                 GroupFees(n)[h] = GroupFees(n)[h - 1] + Charge(SplitSize(n, h))
<1> DEFINE G == Groups(n)
           a == [h \in 1..G |-> Charge(SplitSize(n, h))]
           Turns(f) == [h \in 0..G |-> IF h = 0 THEN 0 ELSE f[h - 1] + Charge(SplitSize(n, h))]
<1>1. PICK f : f = [h \in 0..G |-> IF h = 0 THEN 0 ELSE f[h - 1] + a[h]]
  BY SumExists
<1>2. f = Turns(f)
  <2>1. ASSUME NEW h \in 0..G
        PROVE  (IF h = 0 THEN 0 ELSE f[h - 1] + a[h])
                 = IF h = 0 THEN 0 ELSE f[h - 1] + Charge(SplitSize(n, h))
    <3>1. h # 0 => h \in 1..G
      OBVIOUS
    <3>2. h # 0 => a[h] = Charge(SplitSize(n, h))
      BY <3>1
    <3> QED
      BY <3>2
  <2> HIDE DEF a
  <2> QED
    BY <1>1, <2>1, Zenon
<1>3. GroupFees(n) = CHOOSE u : u = Turns(u)
  BY DEF GroupFees
<1> DEFINE F == GroupFees(n)
<1> HIDE DEF F
<1>4. F = Turns(F)
  BY <1>2, <1>3 DEF F
<1>5. ASSUME NEW h \in 0..G PROVE F[h] = IF h = 0 THEN 0 ELSE F[h - 1] + Charge(SplitSize(n, h))
  BY <1>4
<1>6. 0 \in 0..G /\ \A h \in 1..G : h \in 0..G /\ h # 0
  OBVIOUS
<1> QED
  BY <1>5, <1>6 DEF F

\* Two base fees on top of every Batch; only the first group can be a single
\* transaction, which has none.
Lone(n) == IF SplitSize(n, 1) = 1 THEN 2 ELSE 0
LoopFees(n) == GroupFees(n)[Groups(n)]

LEMMA LoopFeesAre ==
    ASSUME NEW n \in Nat, n >= 2
    PROVE  LoopFees(n) = n + 2 * Groups(n) - Lone(n)
<1> DEFINE G == Groups(n)
           F == GroupFees(n)
           T == {m \in Nat : m + 1 <= G =>
                   F[m + 1] = First(n, m + 1) + SplitSize(n, m + 1) + 2 * (m + 1) - Lone(n)}
<1>1. /\ G \in Nat /\ G >= 1
      /\ First(n, 1) = 0
      /\ \A h \in 1..G : /\ First(n, h) \in Nat
                         /\ First(n, h + 1) = First(n, h) + SplitSize(n, h)
      /\ First(n, G) + SplitSize(n, G) = n
  BY LayoutIs
<1>2. \A h \in 1..G : SplitSize(n, h) \in Nat /\ (SplitSize(n, h) = 1 => h = 1)
  BY LayoutFits, InnerAssumption
<1>3. F[0] = 0 /\ \A h \in 1..G : F[h] = F[h - 1] + Charge(SplitSize(n, h))
  BY <1>1, GroupFeesIs
<1>4. Lone(n) \in Nat /\ (SplitSize(n, 1) = 1 => Lone(n) = 2) /\ (SplitSize(n, 1) # 1 => Lone(n) = 0)
  BY DEF Lone
<1> HIDE DEF G, F
<1>5. 0 \in T
  <2>1. 1 \in 1..G
    BY <1>1
  <2>2. F[1] = Charge(SplitSize(n, 1)) /\ SplitSize(n, 1) \in Nat
    <3>1. 1 - 1 = 0
      OBVIOUS
    <3>2. F[1] = F[1 - 1] + Charge(SplitSize(n, 1)) /\ SplitSize(n, 1) \in Nat
      BY <1>2, <1>3, <2>1
    <3>3. Charge(SplitSize(n, 1)) \in Nat
      BY <3>2 DEF Charge
    <3> QED
      BY <1>3, <3>1, <3>2, <3>3
  <2> QED
    BY <1>1, <1>4, <2>2 DEF Charge
<1>6. ASSUME NEW m \in Nat, m \in T PROVE m + 1 \in T
  <2> SUFFICES ASSUME m + 2 <= G
               PROVE  F[m + 2] = First(n, m + 2) + SplitSize(n, m + 2) + 2 * (m + 2) - Lone(n)
    OBVIOUS
  <2>1. m + 1 \in 1..G /\ m + 2 \in 1..G /\ (m + 2) - 1 = m + 1 /\ m + 2 # 1 /\ (m + 1) + 1 = m + 2
    BY <1>1
  <2>2. F[m + 2] = F[m + 1] + Charge(SplitSize(n, m + 2))
    BY <1>3, <2>1
  <2>3. SplitSize(n, m + 2) \in Nat /\ SplitSize(n, m + 2) # 1
    BY <1>2, <2>1
  <2>4. Charge(SplitSize(n, m + 2)) = SplitSize(n, m + 2) + 2
    BY <2>3 DEF Charge
  <2>5. F[m + 1] = First(n, m + 2) + 2 * (m + 1) - Lone(n)
    BY <1>1, <1>6, <2>1
  <2>6. First(n, m + 2) \in Nat
    BY <1>1, <2>1
  <2> QED
    BY <1>4, <2>2, <2>3, <2>4, <2>5, <2>6
<1> HIDE DEF T
<1>7. G - 1 \in Nat /\ (G - 1) + 1 = G
  BY <1>1
<1>8. G - 1 \in T
  BY <1>5, <1>6, <1>7, InductNat
<1>9. F[G] = First(n, G) + SplitSize(n, G) + 2 * G - Lone(n)
  BY <1>7, <1>8 DEF T
<1> QED
  BY <1>1, <1>9 DEF LoopFees, F, G

\* One more item is never cheaper.
LEMMA LoopFeesGrow ==
    ASSUME NEW n \in Nat, n >= 2
    PROVE  /\ LoopFees(n) \in Nat /\ LoopFees(n + 1) \in Nat
           /\ LoopFees(n) <= LoopFees(n + 1)
           /\ n + 1 > MaxInner => LoopFees(n + 1) >= n + 3
           /\ LoopFees(n) >= n + 2
<1>1. /\ Groups(n) \in Nat /\ Groups(n) >= 1 /\ n >= 2 * Groups(n) - 1
      /\ Groups(n + 1) \in Nat /\ Groups(n + 1) >= 1 /\ n + 1 >= 2 * Groups(n + 1) - 1
  <2>1. n + 1 \in Nat /\ n + 1 >= 2
    OBVIOUS
  <2> QED
    BY <2>1, GroupsAre
<1>2. Groups(n) <= Groups(n + 1)
  <2>1. MaxInner \in Nat /\ MaxInner >= 2
    BY InnerAssumption
  <2> DEFINE x == n + MaxInner - 1
             q == x \div MaxInner
             p == (x + 1) \div MaxInner
             r == x % MaxInner
             s == (x + 1) % MaxInner
  <2>2. Groups(n) = q /\ Groups(n + 1) = p /\ x \in Nat
    BY <2>1 DEF Groups
  <2>3. q \in Nat /\ r \in Nat /\ r < MaxInner /\ x = MaxInner * q + r
    BY <2>1, <2>2, DivMod
  <2>4. p \in Nat /\ s \in Nat /\ s < MaxInner /\ x + 1 = MaxInner * p + s
    BY <2>1, <2>2, DivMod
  <2> HIDE DEF x, q, p, r, s
  <2>5. SUFFICES ASSUME p + 1 <= q PROVE FALSE
    BY <2>2, <2>3, <2>4
  <2>6. MaxInner * (p + 1) <= MaxInner * q
    BY <2>1, <2>3, <2>4, <2>5, TimesMono
  <2>7. MaxInner * (p + 1) = MaxInner * p + MaxInner /\ MaxInner * p \in Nat /\ MaxInner * q \in Nat
    BY <2>1, <2>3, <2>4
  <2> QED
    BY <2>1, <2>2, <2>3, <2>4, <2>6, <2>7
<1>3. /\ LoopFees(n) = n + 2 * Groups(n) - Lone(n)
      /\ LoopFees(n + 1) = n + 1 + 2 * Groups(n + 1) - Lone(n + 1)
  BY LoopFeesAre
<1>4. /\ Lone(n) \in {0, 2} /\ Lone(n + 1) \in {0, 2}
      /\ Lone(n) = 2 => Groups(n) > 1
      /\ Lone(n + 1) = 2 => Groups(n + 1) > 1 /\ n + 1 < 2 * Groups(n + 1)
  <2>1. 1 \in 1..Groups(n) /\ 1 \in 1..Groups(n + 1)
    BY <1>1
  <2>2. Lone(n) = 2 => Groups(n) > 1
    BY <2>1, LayoutFits DEF Lone
  <2>3. Lone(n + 1) = 2 => Groups(n + 1) > 1
    <3>1. n + 1 \in Nat /\ n + 1 >= 2
      OBVIOUS
    <3> QED
      BY <2>1, <3>1, LayoutFits DEF Lone
  <2>4. ASSUME Lone(n + 1) = 2 PROVE n + 1 < 2 * Groups(n + 1)
    <3> DEFINE m == n + 1
               G == Groups(m)
               b == m \div G
               r == m % G
    <3>1. m \in Nat /\ m >= 2 /\ G \in Nat /\ G >= 1
      BY <1>1
    <3>2. b \in Nat /\ r \in Nat /\ r < G /\ m = G * b + r
      BY <3>1, DivMod
    <3>3. SplitSize(m, 1) = 1
      BY <2>4 DEF Lone
    <3>4. SplitSize(m, 1) = IF 1 > G - r THEN b + 1 ELSE b
      BY <3>1 DEF SplitSize
    <3> HIDE DEF G, b, r, m
    <3>5. b = 1
      BY <3>1, <3>2, <3>3, <3>4
    <3>6. m = G + r
      BY <3>1, <3>2, <3>5
    <3> QED
      BY <3>1, <3>2, <3>6 DEF G, m
  <2> QED
    BY <2>2, <2>3, <2>4 DEF Lone
<1>5. n + 1 > MaxInner => Groups(n + 1) >= 2
  <2>1. MaxInner \in Nat /\ MaxInner >= 2
    BY InnerAssumption
  <2> DEFINE x == n + MaxInner
             p == x \div MaxInner
             s == x % MaxInner
  <2>2. Groups(n + 1) = p /\ x \in Nat
    BY <2>1 DEF Groups
  <2>3. p \in Nat /\ s \in Nat /\ s < MaxInner /\ x = MaxInner * p + s
    BY <2>1, <2>2, DivMod
  <2>4. n + 1 > MaxInner => x >= 2 * MaxInner
    BY <2>1
  <2> HIDE DEF x, p, s
  <2>5. p = 0 \/ p = 1 \/ p >= 2
    BY <2>3
  <2>6. p = 0 => MaxInner * p = 0
    BY <2>1
  <2>7. p = 1 => MaxInner * p = MaxInner
    BY <2>1
  <2> QED
    BY <2>1, <2>2, <2>3, <2>4, <2>5, <2>6, <2>7
<1> QED
  BY <1>1, <1>2, <1>3, <1>4, <1>5

\* What the groups cost is a natural number after every turn.
LEMMA GroupFeesNat ==
    ASSUME NEW n \in Nat, n >= 2, NEW m \in Nat, m <= Groups(n)
    PROVE  GroupFees(n)[m] \in Nat
<1> DEFINE F == GroupFees(n)
           T == {h \in Nat : h <= Groups(n) => F[h] \in Nat}
<1>1. Groups(n) \in Nat
  BY LayoutIs
<1>2. F[0] = 0 /\ \A h \in 1..Groups(n) : F[h] = F[h - 1] + Charge(SplitSize(n, h))
  BY <1>1, GroupFeesIs
<1>3. \A h \in 1..Groups(n) : SplitSize(n, h) \in Nat
  BY LayoutFits, InnerAssumption
<1> HIDE DEF F
<1>4. 0 \in T
  BY <1>2
<1>5. ASSUME NEW h \in Nat, h \in T PROVE h + 1 \in T
  <2> SUFFICES ASSUME h + 1 <= Groups(n) PROVE F[h + 1] \in Nat
    OBVIOUS
  <2>1. h + 1 \in 1..Groups(n) /\ (h + 1) - 1 = h /\ F[h] \in Nat
    BY <1>1, <1>5
  <2>2. Charge(SplitSize(n, h + 1)) \in Nat
    BY <1>3, <2>1 DEF Charge
  <2>3. F[h + 1] = F[h] + Charge(SplitSize(n, h + 1))
    BY <1>2, <2>1
  <2> QED
    BY <2>1, <2>2, <2>3
<1> HIDE DEF T
<1>6. m \in T
  BY <1>4, <1>5, InductNat
<1> QED
  BY <1>6 DEF T, F

\* What has been paid: the chunks, and the groups sent so far.
ChunkFees(n) == IF n = 0 THEN 0 ELSE Charge(n)

FeesInv ==
    /\ stage = "tail" => ~OneBatch(c, k) /\ paid = ChunkFees(c) + GroupFees(k + 1)[g - 1]
    /\ stage = "end" => paid = BaseFees(c, k, TRUE)

\* Once the chunks have landed the manifest has no fewer parts than before.
LEMMA PartsAfter ==
    ASSUME FitsInv, FitsInv', stage = "start", grown = 0, SendChunks
    PROVE  k \in Nat /\ k' \in Nat /\ k <= k'
<1>1. plain' = plain /\ plain \in Nat /\ grown' \in Nat
  BY DEF SendChunks, FitsInv
<1>2. \A p, d \in Nat : p + 0 \in Nat /\ p + d \in Nat /\ p + 0 <= p + d
  OBVIOUS
<1>3. plain + 0 \in Nat /\ plain + grown' \in Nat /\ plain + 0 <= plain + grown'
  BY <1>1, <1>2, Zenon
<1>4. /\ Parts(plain + 0) \in Nat /\ Parts(plain + grown') \in Nat
      /\ Parts(plain + 0) <= Parts(plain + grown')
  BY <1>3, PartsGrow
<1> QED
  BY <1>1, <1>4, Zenon DEF k

LEMMA FeesStep ==
    FitsInv /\ FitsInv' /\ LayoutInv /\ (stage = "start" => grown = 0) /\ FeesInv /\ [FeesNext]_feesVars
      => FeesInv'
<1> SUFFICES ASSUME FitsInv, FitsInv', LayoutInv, stage = "start" => grown = 0, FeesInv,
                    [FeesNext]_feesVars
             PROVE  FeesInv'
  OBVIOUS
<1>c. c \in Nat
  BY FeesAssumption DEF FitsInv
<1>k. k \in Nat /\ k >= 1
  <2>1. plain \in Nat /\ grown \in Nat /\ plain >= 1
    BY DEF FitsInv, LayoutInv
  <2>2. plain + grown \in Nat /\ plain + grown > 0
    BY <2>1
  <2>3. Parts(plain + grown) \in Nat /\ Parts(plain + grown) > 0
    BY <2>2, PartsCover
  <2> QED
    BY <2>3 DEF k
<1>1. CASE SendWhole
  <2>1. k' = k /\ c' = c /\ stage' = "end" /\ paid' = Charge(c + k + 1) /\ OneBatch(c, k)
    BY <1>1 DEF SendWhole, k
  <2>2. Charge(c + k + 1) = c + k + 3
    BY <1>c, <1>k DEF Charge
  <2>3. BaseFees(c, k, TRUE) = c + k + 3
    BY <2>1 DEF BaseFees
  <2> QED
    BY <2>1, <2>2, <2>3 DEF FeesInv
<1>2. CASE SendChunks
  <2>1. /\ stage = "start" /\ c' = c /\ stage' = "tail" /\ g' = 1 /\ ~OneBatch(c, k)
        /\ paid' = ChunkFees(c)
    BY <1>2 DEF SendChunks, ChunkFees
  <2>2. k' \in Nat /\ k <= k'
    BY <1>2, <2>1, PartsAfter
  <2>a. \A n, m, p \in Nat :
           m <= p => (OneBatch(n, p) => OneBatch(n, m)) /\ (m >= 1 => p + 1 \in Nat /\ p + 1 >= 2)
    BY InnerAssumption DEF OneBatch
  <2>3. ~OneBatch(c', k')
    BY <1>c, <1>k, <2>1, <2>2, <2>a, Zenon
  <2>4. PICK n \in Nat : n = (k + 1)' /\ n >= 2
    BY <1>k, <2>2, <2>a, Zenon
  <2>5. GroupFees(n)[0] = 0
    BY <2>4, LayoutIs, GroupFeesIs
  <2>6. ChunkFees(c) \in Nat
    BY <1>c DEF ChunkFees, Charge
  <2>7. (g - 1)' = 0
    BY <2>1
  <2> QED
    BY <2>1, <2>3, <2>4, <2>5, <2>6, <2>7 DEF FeesInv
<1>3. CASE SendGroup
  <2>1. k' = k /\ c' = c
    BY <1>3 DEF SendGroup, k
  <2>2. PICK n \in Nat : n = k + 1 /\ n >= 2
    BY <1>k
  <2>3. /\ stage = "tail" /\ g \in 1..Groups(n) /\ g' = g + 1
        /\ paid' = paid + Charge(SplitSize(n, g))
        /\ stage' = IF g = Groups(n) THEN "end" ELSE "tail"
        /\ ~OneBatch(c, k) /\ paid = ChunkFees(c) + GroupFees(n)[g - 1]
    BY <1>3, <2>2 DEF SendGroup, LayoutInv, FeesInv
  <2>4. Groups(n) \in Nat /\ Groups(n) >= 1
    BY <2>2, LayoutIs
  <2>5. GroupFees(n)[g] = GroupFees(n)[g - 1] + Charge(SplitSize(n, g))
    BY <2>2, <2>3, <2>4, GroupFeesIs
  <2>6. paid' = ChunkFees(c) + GroupFees(n)[g]
    <3>1. SplitSize(n, g) \in Nat
      BY <2>2, <2>3, LayoutFits, InnerAssumption
    <3>2. Charge(SplitSize(n, g)) \in Nat /\ ChunkFees(c) \in Nat
      BY <1>c, <3>1 DEF Charge, ChunkFees
    <3>3. GroupFees(n)[g - 1] \in Nat
      <4>1. g - 1 \in Nat /\ g - 1 <= Groups(n)
        BY <2>3, <2>4
      <4> QED
        BY <2>2, <4>1, GroupFeesNat
    <3> QED
      BY <2>3, <2>5, <3>2, <3>3
  <2>7. CASE g = Groups(n)
    <3>1. BaseFees(c, k, TRUE) = ChunkFees(c) + GroupFees(n)[Groups(n)]
      BY <2>2, <2>3 DEF BaseFees, ChunkFees
    <3> QED
      BY <2>1, <2>3, <2>6, <2>7, <3>1 DEF FeesInv
  <2>8. CASE g # Groups(n)
    <3>1. (g - 1)' = g
      BY <2>3, <2>4
    <3> QED
      BY <2>1, <2>2, <2>3, <2>6, <2>8, <3>1 DEF FeesInv
  <2> QED
    BY <2>7, <2>8
<1>4. CASE UNCHANGED feesVars
  BY <1>4 DEF feesVars, FeesInv, k
<1> QED
  BY <1>1, <1>2, <1>3, <1>4 DEF FeesNext

\* The price of one more manifest part is never lower.
LEMMA BaseFeesGrow ==
    ASSUME NEW n \in Nat, NEW m \in Nat, m >= 1
    PROVE  BaseFees(n, m, TRUE) \in Nat /\ BaseFees(n, m, TRUE) <= BaseFees(n, m + 1, TRUE)
<1>1. /\ LoopFees(m + 1) \in Nat /\ LoopFees(m + 2) \in Nat
      /\ LoopFees(m + 1) <= LoopFees(m + 2)
      /\ m + 2 > MaxInner => LoopFees(m + 2) >= m + 4
      /\ LoopFees(m + 2) >= m + 4
  <2>1. m + 1 \in Nat /\ m + 1 >= 2 /\ m + 2 \in Nat /\ m + 2 >= 2 /\ (m + 1) + 1 = m + 2
    OBVIOUS
  <2> QED
    BY <2>1, LoopFeesGrow
<1>2. ChunkFees(n) \in Nat /\ (n >= 2 => ChunkFees(n) = n + 2) /\ (n = 1 => ChunkFees(n) = 1)
  BY DEF ChunkFees, Charge
<1>3. MaxInner \in Nat
  BY InnerAssumption
<1>4. /\ OneBatch(n, m) => BaseFees(n, m, TRUE) = n + m + 3
      /\ ~OneBatch(n, m) => BaseFees(n, m, TRUE) = ChunkFees(n) + LoopFees(m + 1)
  BY DEF BaseFees, LoopFees, ChunkFees
<1>5. /\ OneBatch(n, m + 1) => BaseFees(n, m + 1, TRUE) = n + (m + 1) + 3
      /\ ~OneBatch(n, m + 1) => BaseFees(n, m + 1, TRUE) = ChunkFees(n) + LoopFees(m + 2)
  <2>1. (m + 1) + 1 = m + 2
    OBVIOUS
  <2> QED
    BY <2>1 DEF BaseFees, LoopFees, ChunkFees
<1>6. OneBatch(n, m + 1) => OneBatch(n, m)
  BY <1>3 DEF OneBatch
<1> DEFINE P == BaseFees(n, m, TRUE)
           Q == BaseFees(n, m + 1, TRUE)
<1> HIDE DEF P, Q
<1>7. ASSUME OneBatch(n, m + 1) PROVE P \in Nat /\ P <= Q
  <2>1. P = n + m + 3 /\ Q = n + (m + 1) + 3
    BY <1>4, <1>5, <1>6, <1>7, Zenon DEF P, Q
  <2> QED
    BY <2>1
<1>8. ASSUME OneBatch(n, m) /\ ~OneBatch(n, m + 1) PROVE P \in Nat /\ P <= Q
  <2>1. P = n + m + 3 /\ Q = ChunkFees(n) + LoopFees(m + 2)
    BY <1>4, <1>5, <1>8, Zenon DEF P, Q
  <2>2. ChunkFees(n) + LoopFees(m + 2) >= n + m + 3
    <3>1. n = 0 \/ n = 1 \/ n >= 2
      OBVIOUS
    <3> QED
      BY <1>1, <1>2, <3>1
  <2> QED
    BY <2>1, <2>2
<1>9. ASSUME ~OneBatch(n, m) PROVE P \in Nat /\ P <= Q
  <2>1. /\ P = ChunkFees(n) + LoopFees(m + 1)
        /\ Q = ChunkFees(n) + LoopFees(m + 2)
    BY <1>4, <1>5, <1>6, <1>9, Zenon DEF P, Q
  <2> QED
    BY <1>1, <1>2, <2>1
<1>a. P \in Nat /\ P <= Q
  BY <1>7, <1>8, <1>9, Zenon
<1> QED
  BY <1>a, Zenon DEF P, Q

\* A batched run sends Batches that rippled accepts and pays what the report
\* foretold: the price of what it sends, and at most the price of the
\* projected manifest, which the report calls "up to" (batch.go, BaseFees and
\* splitBatches; planReport).  For every number of chunks, every length of
\* manifest and every Batch size.
THEOREM RunsAsPlanned == FeesSpec => []RunAsPlanned
<1> DEFINE Early == stage = "start" => grown = 0
<1>1. FeesInit => FeesInv /\ Early
  BY DEF FeesInit, FeesInv
<1>2. Early /\ [FeesNext]_feesVars => Early'
  BY DEF FeesNext, SendWhole, SendChunks, SendGroup, feesVars
<1>3. FitsInv /\ LayoutInv /\ FeesInv /\ ManifestFits => FeesAgree
  <2> SUFFICES ASSUME FitsInv, LayoutInv, FeesInv, ManifestFits, stage = "end"
               PROVE  FeesAgree
    BY DEF FeesAgree
  <2>1. paid = BaseFees(c, k, TRUE)
    BY DEF FeesInv
  <2>2. k \in Nat /\ k >= 1
    <3>1. plain + grown \in Nat /\ plain + grown > 0
      BY DEF FitsInv, LayoutInv
    <3>2. Parts(plain + grown) \in Nat /\ Parts(plain + grown) > 0
      BY <3>1, PartsCover
    <3> QED
      BY <3>2 DEF k
  <2>3. c \in Nat
    BY FeesAssumption DEF FitsInv
  <2>4. BaseFees(c, k, TRUE) \in Nat /\ BaseFees(c, k, TRUE) <= BaseFees(c, k + 1, TRUE)
    BY <2>2, <2>3, BaseFeesGrow
  <2>5. projectedManifestParts(plain, c) \in {k, k + 1}
    BY DEF ManifestFits
  <2> DEFINE P(n) == BaseFees(c, n, TRUE)
  <2>6. P(k) \in Nat /\ P(k) <= P(k + 1)
    BY <2>4
  <2> HIDE DEF P
  <2>7. P(k) <= P(projectedManifestParts(plain, c))
    BY <2>5, <2>6
  <2> QED
    BY <2>1, <2>7, Zenon DEF FeesAgree, P
<1>4. FeesSpec => []FeesAgree
  BY <1>1, <1>2, <1>3, FitsInit, FitsStep, LayoutInit, LayoutStep, FeesStep, ManifestAlwaysFits, PTL
  DEF FeesSpec
<1> QED
  BY <1>4, LayoutAlwaysLegal, PTL DEF RunAsPlanned

-----------------------------------------------------------------------------
(* Attestations.  First the order of the memos: Evaluate numbers the memos *)
(* it counts one after the other, a recursion of FlattenSeq.               *)

\* FlattenSeq puts one sequence after the other: its recursion has a solution.
LEMMA ConcatExists ==
    ASSUME NEW q, NEW N \in Nat
    PROVE  \E f : f = [i \in 1..N |-> IF i = 1 THEN q[i] ELSE f[i - 1] \o q[i]]
<1> DEFINE Turn(f, i) == IF i = 1 THEN q[i] ELSE f[i - 1] \o q[i]
           T == {n \in Nat : \E f : f = [i \in 1..n |-> Turn(f, i)]}
<1>1. 0 \in T
  <2> DEFINE f == [i \in 1..0 |-> 0]
  <2>1. \A i \in 1..0 : FALSE
    OBVIOUS
  <2>2. f = [i \in 1..0 |-> Turn(f, i)]
    BY <2>1
  <2> HIDE DEF Turn, f
  <2> QED
    BY <2>2
<1>2. ASSUME NEW n \in Nat, n \in T PROVE n + 1 \in T
  <2>1. PICK f : f = [i \in 1..n |-> Turn(f, i)]
    BY <1>2
  <2> DEFINE u == [i \in 1..(n + 1) |-> IF i = n + 1 THEN Turn(f, i) ELSE f[i]]
  <2>2. ASSUME NEW i \in 1..(n + 1) PROVE u[i] = Turn(u, i)
    <3>1. i # 1 => u[i - 1] = f[i - 1]
      OBVIOUS
    <3>2. Turn(u, i) = Turn(f, i)
      BY <3>1
    <3>3. CASE i = n + 1
      BY <3>2, <3>3
    <3>4. CASE i # n + 1
      <4>1. i \in 1..n /\ u[i] = f[i]
        BY <3>4
      <4> HIDE DEF u, Turn
      <4>2. f[i] = Turn(f, i)
        BY <2>1, <4>1
      <4> QED
        BY <3>2, <4>1, <4>2
    <3> QED
      BY <3>3, <3>4
  <2>3. u = [i \in 1..(n + 1) |-> Turn(u, i)]
    <3>1. u = [i \in 1..(n + 1) |-> u[i]]
      OBVIOUS
    <3> HIDE DEF u, Turn
    <3> QED
      BY <2>2, <3>1
  <2> HIDE DEF u, Turn
  <2>4. n + 1 \in Nat
    OBVIOUS
  <2> QED
    BY <2>3, <2>4
<1> HIDE DEF T
<1>3. N \in T
  BY <1>1, <1>2, InductNat
<1> QED
  BY <1>3 DEF T

LEMMA FlattenIs ==
    ASSUME NEW q, Len(q) \in Nat, Len(q) # 0
    PROVE  \E f : /\ FlattenSeq(q) = f[Len(q)]
                  /\ \A i \in 1..Len(q) : f[i] = IF i = 1 THEN q[i] ELSE f[i - 1] \o q[i]
<1> DEFINE N == Len(q)
           Turn(f, i) == IF i = 1 THEN q[i] ELSE f[i - 1] \o q[i]
           F == CHOOSE f : f = [i \in 1..N |-> Turn(f, i)]
<1>1. FlattenSeq(q) = F[N]
  BY DEF FlattenSeq
<1>2. \E f : f = [i \in 1..N |-> Turn(f, i)]
  BY ConcatExists
<1>3. F = [i \in 1..N |-> Turn(F, i)]
  <2> HIDE DEF Turn, N
  <2> QED
    BY <1>2
<1> HIDE DEF F
<1>4. \A i \in 1..N : F[i] = Turn(F, i)
  <2> HIDE DEF Turn, N
  <2> QED
    BY <1>3
<1> QED
  BY <1>1, <1>4

LEMMA FlattenEmpty == FlattenSeq(<<>>) = <<>>
  BY DEF FlattenSeq

LEMMA FlattenAppend ==
    ASSUME NEW S, NEW q \in Seq(Seq(S)), NEW x \in Seq(S), FlattenSeq(q) \in Seq(S)
    PROVE  FlattenSeq(Append(q, x)) = FlattenSeq(q) \o x
<1> DEFINE N == Len(q)
           p == Append(q, x)
<1>1. N \in Nat /\ Len(p) = N + 1 /\ p[N + 1] = x /\ \A i \in 1..N : p[i] = q[i]
  OBVIOUS
<1> HIDE DEF p
<1>2. PICK e : /\ FlattenSeq(p) = e[N + 1]
               /\ \A i \in 1..(N + 1) : e[i] = IF i = 1 THEN p[i] ELSE e[i - 1] \o p[i]
  <2>1. Len(p) \in Nat /\ Len(p) # 0 /\ Len(p) = N + 1
    BY <1>1
  <2>2. PICK e : /\ FlattenSeq(p) = e[Len(p)]
                 /\ \A i \in 1..Len(p) : e[i] = IF i = 1 THEN p[i] ELSE e[i - 1] \o p[i]
    BY <2>1, FlattenIs, Zenon
  <2> HIDE DEF N
  <2> QED
    BY <2>1, <2>2
<1>3. CASE N = 0
  <2>1. q = <<>> /\ FlattenSeq(q) = <<>>
    BY <1>3, FlattenEmpty
  <2>2. FlattenSeq(p) = x
    BY <1>1, <1>2, <1>3
  <2> QED
    BY <2>1, <2>2 DEF p
<1>4. CASE N # 0
  <2>1. PICK f : /\ FlattenSeq(q) = f[N]
                 /\ \A i \in 1..N : f[i] = IF i = 1 THEN q[i] ELSE f[i - 1] \o q[i]
    BY <1>1, <1>4, FlattenIs
  <2> DEFINE T == {n \in Nat : n + 1 <= N => e[n + 1] = f[n + 1]}
  <2>2. 0 \in T
    BY <1>1, <1>2, <2>1
  <2>3. ASSUME NEW n \in Nat, n \in T PROVE n + 1 \in T
    <3> SUFFICES ASSUME n + 2 <= N PROVE e[n + 2] = f[n + 2]
      OBVIOUS
    <3>1. n + 2 \in 1..N /\ n + 2 \in 1..(N + 1) /\ n + 2 # 1 /\ (n + 2) - 1 = n + 1 /\ n + 1 <= N
      BY <1>1
    <3>2. e[n + 2] = e[n + 1] \o p[n + 2] /\ f[n + 2] = f[n + 1] \o q[n + 2]
      BY <1>2, <2>1, <3>1
    <3>3. e[n + 1] = f[n + 1] /\ p[n + 2] = q[n + 2]
      BY <1>1, <2>3, <3>1
    <3> QED
      BY <3>2, <3>3
  <2> HIDE DEF T
  <2>4. N - 1 \in Nat /\ (N - 1) + 1 = N
    BY <1>1, <1>4
  <2>5. N - 1 \in T
    BY <2>2, <2>3, <2>4, InductNat
  <2>6. e[N] = f[N]
    BY <2>4, <2>5 DEF T
  <2>7. N + 1 \in 1..(N + 1) /\ N + 1 # 1 /\ (N + 1) - 1 = N
    BY <1>1, <1>4
  <2>8. e[N + 1] = e[N] \o p[N + 1]
    BY <1>2, <2>7
  <2> QED
    BY <1>1, <1>2, <2>1, <2>6, <2>8 DEF p
<1> QED
  BY <1>3, <1>4

-----------------------------------------------------------------------------
(* The order of the memos.  Evaluate numbers the memos it counts one after *)
(* the other; the properties place them by transaction and position.       *)

\* Transactions with memos of X, and the numbered memos.
Accounts    == {Account, "stranger"}
Results     == {"tesSUCCESS", "tec"}
TxOver(X)   == [account : Accounts, result : Results, memos : Seq(X), lgr : Nat, unseen : BOOLEAN]
ItemOver(X) == [m : X, lgr : Nat]

\* What one transaction adds.
Block(t) ==
    IF Counted(t, Account) THEN [j \in DOMAIN t.memos |-> [m |-> t.memos[j], lgr |-> t.lgr]] ELSE <<>>

\* The places of the counted memos of h, and what is there.
Spots(h) == {s \in (1..Len(h)) \X Nat :
               Counted(h[s[1]], Account) /\ s[2] \in 1..Len(h[s[1]].memos)}
At(h, s) == h[s[1]].memos[s[2]]

\* `at' tells the place of each numbered memo; numbers and places have the
\* same order.
Listing(h, at) ==
    LET ms == Ordered(h, Account) IN
    /\ at \in [1..Len(ms) -> Spots(h)]
    /\ \A p \in 1..Len(ms) : ms[p].m = At(h, at[p]) /\ ms[p].lgr = h[at[p][1]].lgr
    /\ \A p, q \in 1..Len(ms) : p < q => Before(at[p], at[q])
    /\ \A s \in Spots(h) : \E p \in 1..Len(ms) : at[p] = s

LEMMA BlockIs ==
    ASSUME NEW X, NEW t \in TxOver(X)
    PROVE  /\ Block(t) \in Seq(ItemOver(X))
           /\ Len(Block(t)) = IF Counted(t, Account) THEN Len(t.memos) ELSE 0
           /\ \A j \in 1..Len(Block(t)) : Block(t)[j] = [m |-> t.memos[j], lgr |-> t.lgr]
<1>1. t.memos \in Seq(X) /\ t.lgr \in Nat
  BY DEF TxOver
<1>2. CASE Counted(t, Account)
  <2> DEFINE n == Len(t.memos)
  <2>1. n \in Nat /\ DOMAIN t.memos = 1..n /\ \A j \in 1..n : t.memos[j] \in X
    BY <1>1
  <2>2. Block(t) = [j \in 1..n |-> [m |-> t.memos[j], lgr |-> t.lgr]]
    BY <1>2, <2>1 DEF Block
  <2>3. \A j \in 1..n : [m |-> t.memos[j], lgr |-> t.lgr] \in ItemOver(X)
    BY <1>1, <2>1 DEF ItemOver
  <2> HIDE DEF n
  <2>4. Block(t) \in Seq(ItemOver(X)) /\ Len(Block(t)) = n
    BY <2>1, <2>2, <2>3
  <2> QED
    BY <1>2, <2>1, <2>2, <2>4 DEF n
<1>3. CASE ~Counted(t, Account)
  BY <1>3 DEF Block
<1> QED
  BY <1>2, <1>3

LEMMA OrderedEmpty == Ordered(<<>>, Account) = <<>>
<1> DEFINE e == [i \in DOMAIN <<>> |->
                   IF Counted(<<>>[i], Account)
                     THEN [j \in DOMAIN <<>>[i].memos |-> [m |-> <<>>[i].memos[j], lgr |-> <<>>[i].lgr]]
                     ELSE <<>>]
<1>1. e = <<>>
  OBVIOUS
<1> HIDE DEF e
<1>2. FlattenSeq(e) = <<>>
  BY <1>1, FlattenEmpty
<1> QED
  BY <1>2 DEF Ordered, e

LEMMA OrderedAppend ==
    ASSUME NEW X, NEW h \in Seq(TxOver(X)), NEW t \in TxOver(X),
           Ordered(h, Account) \in Seq(ItemOver(X))
    PROVE  Ordered(Append(h, t), Account) = Ordered(h, Account) \o Block(t)
<1> DEFINE B(x) == [i \in DOMAIN x |-> Block(x[i])]
           a == Append(h, t)
           S == ItemOver(X)
<1>1. \A x : Ordered(x, Account) = FlattenSeq(B(x))
  BY DEF Ordered, Block
<1>2. \A i \in DOMAIN h : h[i] \in TxOver(X)
  OBVIOUS
<1>3. B(h) \in Seq(Seq(S)) /\ Block(t) \in Seq(S)
  <2>1. \A i \in 1..Len(h) : Block(h[i]) \in Seq(S)
    BY <1>2, BlockIs
  <2>2. DOMAIN h = 1..Len(h) /\ Len(h) \in Nat
    OBVIOUS
  <2> HIDE DEF S
  <2>3. B(h) = [i \in 1..Len(h) |-> Block(h[i])]
    BY <2>2
  <2>4. B(h) \in Seq(Seq(S))
    BY <2>1, <2>2, <2>3
  <2> QED
    BY <2>4, BlockIs DEF S
<1>4. B(a) = Append(B(h), Block(t))
  <2> DEFINE N == Len(h)
  <2>1. /\ N \in Nat /\ DOMAIN h = 1..N /\ DOMAIN a = 1..(N + 1)
        /\ a[N + 1] = t /\ \A i \in 1..N : a[i] = h[i]
    OBVIOUS
  <2> HIDE DEF a, N
  <2>2. B(a) = [i \in 1..(N + 1) |-> Block(a[i])] /\ B(h) = [i \in 1..N |-> Block(h[i])]
    BY <2>1
  <2> DEFINE u == B(h)
             w == B(a)
             b == Block(t)
  <2>3. /\ DOMAIN w = 1..(N + 1) /\ w = [i \in 1..(N + 1) |-> w[i]]
        /\ w[N + 1] = b /\ \A i \in 1..N : w[i] = u[i]
    BY <2>1, <2>2
  <2>4. u \in Seq(Seq(S)) /\ Len(u) = N /\ b \in Seq(S)
    BY <1>3, <2>1, <2>2
  <2> HIDE DEF u, w, b, S
  <2>5. /\ Append(u, b) \in Seq(Seq(S)) /\ Len(Append(u, b)) = N + 1
        /\ Append(u, b)[N + 1] = b /\ \A i \in 1..N : Append(u, b)[i] = u[i]
    BY <2>4, AppendProperties
  <2>6. ASSUME NEW i \in 1..(N + 1) PROVE w[i] = Append(u, b)[i] /\ w[i] \in Seq(S)
    <3>1. i = N + 1 \/ i \in 1..N
      BY <2>1
    <3>2. CASE i = N + 1
      BY <2>3, <2>4, <2>5, <3>2
    <3>3. CASE i \in 1..N
      <4>1. u[i] \in Seq(S)
        BY <2>4, <3>3
      <4> QED
        BY <2>3, <2>5, <3>3, <4>1
    <3> QED
      BY <3>1, <3>2, <3>3
  <2>7. w \in Seq(Seq(S)) /\ Len(w) = N + 1
    BY <2>1, <2>3, <2>6
  <2>8. w = Append(u, b)
    BY <2>5, <2>6, <2>7, SeqEqual
  <2> QED
    BY <2>8 DEF u, w, b
<1> HIDE DEF B
<1>5. FlattenSeq(B(h)) \in Seq(S)
  BY <1>1
<1>6. FlattenSeq(Append(B(h), Block(t))) = FlattenSeq(B(h)) \o Block(t)
  <2> HIDE DEF S
  <2> QED
    BY <1>3, <1>5, FlattenAppend
<1> QED
  BY <1>1, <1>4, <1>6

LEMMA BeforeIs ==
    ASSUME NEW p \in Nat \X Nat, NEW q \in Nat \X Nat
    PROVE  /\ ~Before(p, p)
           /\ Before(p, q) \/ p = q \/ Before(q, p)
           /\ ~(Before(p, q) /\ Before(q, p))
           /\ \A r \in Nat \X Nat : Before(p, q) /\ Before(q, r) => Before(p, r)
<1>1. p = <<p[1], p[2]>> /\ q = <<q[1], q[2]>> /\ p[1] \in Nat /\ p[2] \in Nat /\ q[1] \in Nat /\ q[2] \in Nat
  OBVIOUS
<1>2. p[1] = q[1] /\ p[2] = q[2] => p = q
  BY <1>1
<1>3. Before(p, q) \/ p = q \/ Before(q, p)
  BY <1>1, <1>2 DEF Before
<1>4. ~Before(p, p) /\ ~(Before(p, q) /\ Before(q, p))
  BY <1>1 DEF Before
<1>5. ASSUME NEW r \in Nat \X Nat, Before(p, q), Before(q, r) PROVE Before(p, r)
  <2>1. r[1] \in Nat /\ r[2] \in Nat
    OBVIOUS
  <2> QED
    BY <1>1, <1>5, <2>1 DEF Before
<1> QED
  BY <1>3, <1>4, <1>5

\* The places of a longer history.
LEMMA SpotsAppend ==
    ASSUME NEW X, NEW h \in Seq(TxOver(X)), NEW t \in TxOver(X)
    PROVE  /\ \A s \in Spots(h) : /\ s \in Spots(Append(h, t)) /\ s[1] \in 1..Len(h)
                                  /\ At(Append(h, t), s) = At(h, s)
           /\ \A j \in 1..Len(Block(t)) :
                 /\ <<Len(h) + 1, j>> \in Spots(Append(h, t))
                 /\ At(Append(h, t), <<Len(h) + 1, j>>) = t.memos[j]
           /\ \A s \in Spots(Append(h, t)) :
                 s \in Spots(h) \/ \E j \in 1..Len(Block(t)) : s = <<Len(h) + 1, j>>
<1> DEFINE a == Append(h, t)
           N == Len(h)
<1>1. N \in Nat /\ Len(a) = N + 1 /\ a[N + 1] = t /\ \A i \in 1..N : a[i] = h[i]
  BY AppendProperties
<1>2. /\ Len(Block(t)) = IF Counted(t, Account) THEN Len(t.memos) ELSE 0
      /\ t.memos \in Seq(X)
  BY BlockIs DEF TxOver
<1> HIDE DEF a, N
<1>3. ASSUME NEW s \in Spots(h) PROVE s \in Spots(a) /\ s[1] \in 1..N /\ At(a, s) = At(h, s)
  <2>1. s \in (1..N) \X Nat /\ Counted(h[s[1]], Account) /\ s[2] \in 1..Len(h[s[1]].memos)
    BY DEF Spots, N
  <2>2. a[s[1]] = h[s[1]] /\ s[1] \in 1..N /\ s \in (1..(N + 1)) \X Nat
    BY <1>1, <2>1
  <2> QED
    BY <1>1, <2>1, <2>2 DEF Spots, At
<1>4. ASSUME NEW j \in 1..Len(Block(t))
      PROVE  <<N + 1, j>> \in Spots(a) /\ At(a, <<N + 1, j>>) = t.memos[j]
  <2>1. Counted(t, Account) /\ j \in 1..Len(t.memos) /\ j \in Nat
    BY <1>2
  <2>2. <<N + 1, j>> \in (1..(N + 1)) \X Nat
    BY <1>1, <2>1
  <2> QED
    BY <1>1, <2>1, <2>2 DEF Spots, At
<1>5. ASSUME NEW s \in Spots(a)
      PROVE  s \in Spots(h) \/ \E j \in 1..Len(Block(t)) : s = <<N + 1, j>>
  <2>1. s \in (1..(N + 1)) \X Nat /\ Counted(a[s[1]], Account) /\ s[2] \in 1..Len(a[s[1]].memos)
    BY <1>1 DEF Spots
  <2>2. s[1] \in 1..N \/ s[1] = N + 1
    BY <1>1, <2>1
  <2>3. CASE s[1] \in 1..N
    <3>1. s \in (1..N) \X Nat
      BY <2>1, <2>3
    <3> QED
      BY <1>1, <2>1, <2>3, <3>1 DEF Spots, N
  <2>4. CASE s[1] = N + 1
    <3>1. s[2] \in 1..Len(Block(t))
      BY <1>1, <1>2, <2>1, <2>4
    <3>2. s = <<N + 1, s[2]>>
      BY <2>1, <2>4
    <3> QED
      BY <3>1, <3>2
  <2> QED
    BY <2>2, <2>3, <2>4
<1> QED
  BY <1>3, <1>4, <1>5 DEF a, N

LEMMA ListingAppend ==
    ASSUME NEW X, NEW h \in Seq(TxOver(X)), NEW t \in TxOver(X),
           Ordered(h, Account) \in Seq(ItemOver(X)), NEW at, Listing(h, at)
    PROVE  /\ Ordered(Append(h, t), Account) \in Seq(ItemOver(X))
           /\ \E u : Listing(Append(h, t), u) /\ \A p \in 1..Len(Ordered(h, Account)) : u[p] = at[p]
<1> DEFINE a == Append(h, t)
           ms == Ordered(h, Account)
           b == Block(t)
           M == Len(ms)
           N == Len(h)
           u == [p \in 1..(M + Len(b)) |-> IF p <= M THEN at[p] ELSE <<N + 1, p - M>>]
<1>1. Ordered(a, Account) = ms \o b
  BY OrderedAppend
<1>2. /\ b \in Seq(ItemOver(X)) /\ Len(b) \in Nat
      /\ \A j \in 1..Len(b) : b[j] = [m |-> t.memos[j], lgr |-> t.lgr]
  BY BlockIs
<1>3. /\ ms \o b \in Seq(ItemOver(X)) /\ Len(ms \o b) = M + Len(b) /\ M \in Nat /\ N \in Nat
      /\ \A p \in 1..(M + Len(b)) : (ms \o b)[p] = IF p <= M THEN ms[p] ELSE b[p - M]
  BY <1>2, ConcatProperties
<1>4. /\ at \in [1..M -> Spots(h)]
      /\ \A p \in 1..M : ms[p].m = At(h, at[p]) /\ ms[p].lgr = h[at[p][1]].lgr
      /\ \A p, q \in 1..M : p < q => Before(at[p], at[q])
      /\ \A s \in Spots(h) : \E p \in 1..M : at[p] = s
  BY DEF Listing
<1>5. /\ \A s \in Spots(h) : s \in Spots(a) /\ s[1] \in 1..N /\ At(a, s) = At(h, s)
      /\ \A j \in 1..Len(b) : <<N + 1, j>> \in Spots(a) /\ At(a, <<N + 1, j>>) = t.memos[j]
      /\ \A s \in Spots(a) : s \in Spots(h) \/ \E j \in 1..Len(b) : s = <<N + 1, j>>
  BY SpotsAppend
<1>6. a[N + 1] = t /\ \A i \in 1..N : a[i] = h[i]
  BY AppendProperties
<1> DEFINE L == Len(b)
           P == 1..(M + L)
<1> HIDE DEF a, ms, b, M, N
<1>7. ASSUME NEW p \in P
      PROVE  /\ p <= M => p \in 1..M /\ u[p] = at[p] /\ (ms \o b)[p] = ms[p]
             /\ ~(p <= M) => p - M \in 1..L /\ u[p] = <<N + 1, p - M>> /\ (ms \o b)[p] = b[p - M]
  BY <1>2, <1>3
<1>8. u \in [P -> Spots(a)]
  <2>1. ASSUME NEW p \in P PROVE u[p] \in Spots(a)
    BY <1>4, <1>5, <1>7
  <2>2. u = [p \in P |-> u[p]]
    OBVIOUS
  <2> HIDE DEF u, P
  <2> QED
    BY <2>1, <2>2
<1> HIDE DEF u
<1>9. ASSUME NEW p \in P PROVE (ms \o b)[p].m = At(a, u[p]) /\ (ms \o b)[p].lgr = a[u[p][1]].lgr
  <2>1. CASE p <= M
    <3>1. p \in 1..M /\ u[p] = at[p] /\ (ms \o b)[p] = ms[p]
      BY <1>7, <2>1
    <3>2. at[p] \in Spots(h)
      BY <1>4, <3>1
    <3>3. at[p][1] \in 1..N /\ At(a, at[p]) = At(h, at[p])
      BY <1>5, <3>2, Zenon
    <3>4. a[at[p][1]] = h[at[p][1]]
      BY <1>6, <3>3, Zenon
    <3>5. ms[p].m = At(h, at[p]) /\ ms[p].lgr = h[at[p][1]].lgr
      BY <1>4, <3>1, Zenon
    <3> QED
      BY <3>1, <3>3, <3>4, <3>5, Zenon
  <2>2. CASE ~(p <= M)
    <3>1. (ms \o b)[p] = [m |-> t.memos[p - M], lgr |-> t.lgr] /\ p - M \in 1..L
      BY <1>2, <1>7, <2>2
    <3>2. u[p] = <<N + 1, p - M>> /\ u[p][1] = N + 1
      BY <1>7, <2>2
    <3> QED
      BY <1>5, <1>6, <3>1, <3>2
  <2> QED
    BY <2>1, <2>2
<1>10. ASSUME NEW p \in P, NEW q \in P, p < q PROVE Before(u[p], u[q])
  <2>0. p \in Nat /\ q \in Nat
    BY <1>2, <1>3
  <2>1. CASE q <= M
    <3>1. p <= M
      BY <1>3, <1>10, <2>0, <2>1
    <3> QED
      BY <1>4, <1>7, <1>10, <2>1, <3>1
  <2>2. CASE ~(q <= M)
    <3>1. CASE p <= M
      <4>1. u[q][1] = N + 1
        <5>1. u[q] = <<N + 1, q - M>>
          BY <1>7, <2>2
        <5> QED
          BY <5>1
      <4>2. p \in 1..M /\ u[p] = at[p]
        BY <1>7, <3>1
      <4>3. at[p] \in Spots(h)
        BY <1>4, <4>2
      <4>4. u[p][1] \in 1..N
        BY <1>5, <4>2, <4>3, Zenon
      <4> QED
        BY <1>3, <4>1, <4>4 DEF Before
    <3>2. CASE ~(p <= M)
      <4>1. u[p] = <<N + 1, p - M>> /\ u[q] = <<N + 1, q - M>>
        BY <1>7, <2>2, <3>2
      <4>2. p - M < q - M
        BY <1>3, <1>10, <2>0
      <4> QED
        BY <4>1, <4>2 DEF Before
    <3> QED
      BY <3>1, <3>2
  <2> QED
    BY <2>1, <2>2
<1>11. ASSUME NEW s \in Spots(a) PROVE \E p \in P : u[p] = s
  <2>1. CASE s \in Spots(h)
    <3>1. PICK p \in 1..M : at[p] = s
      BY <1>4, <2>1
    <3>2. p \in P /\ p <= M
      BY <1>2, <1>3
    <3> QED
      BY <1>7, <3>1, <3>2
  <2>2. CASE \E j \in 1..L : s = <<N + 1, j>>
    <3>1. PICK j \in 1..L : s = <<N + 1, j>>
      BY <2>2
    <3>2. M + j \in P /\ ~(M + j <= M) /\ (M + j) - M = j
      BY <1>2, <1>3
    <3>3. u[M + j] = s
      BY <1>7, <3>1, <3>2
    <3> QED
      BY <3>2, <3>3
  <2> QED
    BY <1>5, <2>1, <2>2
<1>12. Listing(a, u)
  <2> HIDE DEF P
  <2>1. 1..Len(Ordered(a, Account)) = P /\ Ordered(a, Account) = ms \o b
    BY <1>1, <1>3 DEF P, L, a, ms, b, M
  <2> QED
    BY <1>8, <1>9, <1>10, <1>11, <2>1 DEF Listing
<1>13. \A p \in 1..M : u[p] = at[p]
  <2>1. \A p \in 1..M : p \in P /\ p <= M
    BY <1>2, <1>3
  <2> QED
    BY <1>7, <2>1
<1> QED
  BY <1>1, <1>3, <1>12, <1>13 DEF a, ms, b, M

\* Every history has a listing.
LEMMA ListingExists ==
    ASSUME NEW X, NEW h \in Seq(TxOver(X))
    PROVE  Ordered(h, Account) \in Seq(ItemOver(X)) /\ \E at : Listing(h, at)
<1> DEFINE Good(x) == Ordered(x, Account) \in Seq(ItemOver(X)) /\ \E at : Listing(x, at)
           T == {n \in Nat : \A x \in Seq(TxOver(X)) : Len(x) = n => Good(x)}
<1>1. 0 \in T
  <2> SUFFICES ASSUME NEW x \in Seq(TxOver(X)), Len(x) = 0 PROVE Good(x)
    OBVIOUS
  <2>1. x = <<>>
    OBVIOUS
  <2>2. Ordered(x, Account) = <<>>
    BY <2>1, OrderedEmpty
  <2>3. Spots(x) = {}
    BY <2>1 DEF Spots
  <2>4. Listing(x, <<>>)
    BY <2>2, <2>3 DEF Listing
  <2> QED
    BY <2>2, <2>4
<1>2. ASSUME NEW n \in Nat, n \in T PROVE n + 1 \in T
  <2> SUFFICES ASSUME NEW x \in Seq(TxOver(X)), Len(x) = n + 1 PROVE Good(x)
    OBVIOUS
  <2>1. PICK y \in Seq(TxOver(X)), t \in TxOver(X) : x = Append(y, t)
    <3>1. x # <<>>
      OBVIOUS
    <3> QED
      BY <3>1, SequenceEmptyOrAppend
  <2>2. Len(y) = n
    BY <2>1, AppendProperties
  <2>3. Good(y)
    BY <1>2, <2>2
  <2>4. PICK at : Listing(y, at)
    BY <2>3
  <2> QED
    BY <2>1, <2>3, <2>4, ListingAppend
<1> HIDE DEF T
<1>3. Len(h) \in T /\ Len(h) \in Nat
  BY <1>1, <1>2, InductNat
<1> QED
  BY <1>3 DEF T

-----------------------------------------------------------------------------
(* The newest attestation.                                                 *)

LEMMA LastOne ==
    ASSUME NEW M \in Nat, NEW S \in SUBSET (1..M), S # {}
    PROVE  \E p \in S : \A q \in S : q <= p
<1> DEFINE T == {n \in Nat : \A U \in SUBSET (1..n) : U # {} => \E p \in U : \A q \in U : q <= p}
<1>1. 0 \in T
  <2>1. \A U \in SUBSET (1..0) : U = {}
    OBVIOUS
  <2> QED
    BY <2>1
<1>2. ASSUME NEW n \in Nat, n \in T PROVE n + 1 \in T
  <2> SUFFICES ASSUME NEW U \in SUBSET (1..(n + 1)), U # {}
               PROVE  \E p \in U : \A q \in U : q <= p
    OBVIOUS
  <2>1. CASE n + 1 \in U
    <3>1. \A q \in U : q <= n + 1
      OBVIOUS
    <3> QED
      BY <2>1, <3>1
  <2>2. CASE n + 1 \notin U
    <3>1. U \in SUBSET (1..n)
      BY <2>2
    <3> QED
      BY <1>2, <3>1
  <2> QED
    BY <2>1, <2>2
<1> HIDE DEF T
<1>3. M \in T
  BY <1>1, <1>2, InductNat
<1> QED
  BY <1>3 DEF T

\* No ledger in h comes before that of an earlier transaction.
Rising(h) == \A i, j \in 1..Len(h) : i <= j => h[i].lgr <= h[j].lgr

\* The attestations and the verified delegations of h, by place.
AttSpots(h) == {s \in Spots(h) : At(h, s).type = "attestation"}
DelSpots(h) == {s \in Spots(h) : At(h, s).type = "delegation" /\ VerifyDelegation(At(h, s), Account)}
LastAtt(h, s) == s \in AttSpots(h) /\ \A q \in AttSpots(h) : q = s \/ Before(q, s)

\* Newest picks the last attestation, although it compares ledgers first.
LEMMA NewestIs ==
    ASSUME NEW ms, Len(ms) \in Nat, DOMAIN ms = 1..Len(ms),
           \A p \in 1..Len(ms) : ms[p].lgr \in Nat,
           \A p, q \in 1..Len(ms) : p <= q => ms[p].lgr <= ms[q].lgr
    PROVE  /\ (\A p \in 1..Len(ms) : ms[p].m.type # "attestation") => Newest(ms) = 0
           /\ \A p \in 1..Len(ms) :
                 /\ ms[p].m.type = "attestation"
                 /\ \A q \in 1..Len(ms) : ms[q].m.type = "attestation" => q <= p
                 => Newest(ms) = p
<1> DEFINE M == Len(ms)
           atts == {p \in 1..M : ms[p].m.type = "attestation"}
           Best(p) == \A q \in atts : ms[q].lgr < ms[p].lgr \/ (ms[q].lgr = ms[p].lgr /\ q <= p)
<1>1. Newest(ms) = IF atts = {} THEN 0 ELSE CHOOSE p \in atts : Best(p)
  BY DEF Newest
<1>2. ASSUME NEW p \in atts, \A q \in atts : q <= p PROVE Newest(ms) = p
  <2>1. Best(p)
    <3> SUFFICES ASSUME NEW q \in atts
                 PROVE  ms[q].lgr < ms[p].lgr \/ (ms[q].lgr = ms[p].lgr /\ q <= p)
      OBVIOUS
    <3>1. q <= p /\ ms[q].lgr <= ms[p].lgr /\ ms[q].lgr \in Nat /\ ms[p].lgr \in Nat
      BY <1>2
    <3> QED
      BY <3>1
  <2>2. ASSUME NEW r \in atts, Best(r) PROVE r = p
    <3>1. r <= p /\ ms[r].lgr <= ms[p].lgr /\ ms[r].lgr \in Nat /\ ms[p].lgr \in Nat
      BY <1>2
    <3>2. ms[p].lgr < ms[r].lgr \/ (ms[p].lgr = ms[r].lgr /\ p <= r)
      BY <2>2
    <3> QED
      BY <3>1, <3>2
  <2>3. atts # {}
    BY <1>2
  <2> HIDE DEF atts, Best
  <2> QED
    BY <1>1, <2>1, <2>2, <2>3
<1>3. (\A p \in 1..M : ms[p].m.type # "attestation") => Newest(ms) = 0
  BY <1>1
<1> HIDE DEF Best
<1> QED
  BY <1>2, <1>3

-----------------------------------------------------------------------------
(* What Evaluate finds, told by places.                                    *)

\* The delegations of the validator key of s that stand before s; those of
\* its own dseq; whether a higher one stands there; whether the last of its
\* own dseq names the key that signed s.
Mine(h, s)    == {d \in DelSpots(h) : At(h, d).vpk = At(h, s).vpk /\ Before(d, s)}
Same(h, s)    == {d \in Mine(h, s) : At(h, d).dseq = At(h, s).dseq}
Retired(h, s) == \E d \in Mine(h, s) : At(h, d).dseq > At(h, s).dseq
Signs(h, s)   == \E d \in Same(h, s) : /\ \A e \in Same(h, s) : e = d \/ Before(e, d)
                                       /\ SignedUnder(At(h, d).pub, At(h, s))

\* The numbering keeps the order both ways.
LEMMA ListingOrder ==
    ASSUME NEW X, NEW h \in Seq(TxOver(X)), NEW at, Listing(h, at)
    PROVE  \A p, q \in 1..Len(Ordered(h, Account)) :
              /\ q < p <=> Before(at[q], at[p])
              /\ q = p <=> at[q] = at[p]
              /\ at[p] \in Nat \X Nat
<1> DEFINE M == Len(Ordered(h, Account))
<1>0. M \in Nat
  BY ListingExists
<1>1. /\ at \in [1..M -> Spots(h)]
      /\ \A p, q \in 1..M : p < q => Before(at[p], at[q])
  BY DEF Listing
<1> SUFFICES ASSUME NEW p \in 1..M, NEW q \in 1..M
             PROVE  /\ q < p <=> Before(at[q], at[p])
                    /\ q = p <=> at[q] = at[p]
                    /\ at[p] \in Nat \X Nat
  OBVIOUS
<1> HIDE DEF M
<1>2. at[p] \in Nat \X Nat /\ at[q] \in Nat \X Nat
  <2>1. \A s \in Spots(h) : s \in Nat \X Nat
    BY DEF Spots
  <2> QED
    BY <1>1, <2>1
<1>3. /\ ~Before(at[p], at[p])
      /\ ~(Before(at[p], at[q]) /\ Before(at[q], at[p]))
  BY <1>2, BeforeIs
<1>4. q < p \/ q = p \/ p < q
  BY <1>0
<1>5. CASE q < p
  <2>1. q # p
    BY <1>0, <1>5
  <2> QED
    BY <1>1, <1>2, <1>3, <1>5, <2>1, Zenon
<1>6. CASE q = p
  <2>1. ~(q < p)
    BY <1>0, <1>6
  <2> QED
    BY <1>2, <1>3, <1>6, <2>1, Zenon
<1>7. CASE p < q
  <2>1. ~(q < p) /\ q # p
    BY <1>0, <1>7
  <2> QED
    BY <1>1, <1>2, <1>3, <1>7, <2>1, Zenon
<1> QED
  BY <1>4, <1>5, <1>6, <1>7

\* The numbers of a rising history rise.
LEMMA ItemsRise ==
    ASSUME NEW X, NEW h \in Seq(TxOver(X)), Rising(h)
    PROVE  LET ms == Ordered(h, Account) IN
           /\ Len(ms) \in Nat /\ DOMAIN ms = 1..Len(ms)
           /\ \A p \in 1..Len(ms) : ms[p].lgr \in Nat
           /\ \A p, q \in 1..Len(ms) : p <= q => ms[p].lgr <= ms[q].lgr
<1> DEFINE ms == Ordered(h, Account)
           M == Len(ms)
<1>1. ms \in Seq(ItemOver(X))
  BY ListingExists
<1>2. PICK at : Listing(h, at)
  BY ListingExists
<1>3. /\ at \in [1..M -> Spots(h)]
      /\ \A p \in 1..M : ms[p].lgr = h[at[p][1]].lgr
      /\ \A p, q \in 1..M : p < q => Before(at[p], at[q])
  BY <1>2 DEF Listing
<1> HIDE DEF ms
<1>4. M \in Nat /\ DOMAIN ms = 1..M /\ \A p \in 1..M : ms[p].lgr \in Nat
  <2>1. M \in Nat /\ DOMAIN ms = 1..M /\ \A p \in 1..M : ms[p] \in ItemOver(X)
    BY <1>1
  <2>2. \A y \in ItemOver(X) : y.lgr \in Nat
    BY DEF ItemOver
  <2> QED
    BY <2>1, <2>2
<1> HIDE DEF M
<1>5. ASSUME NEW p \in 1..M, NEW q \in 1..M, p <= q PROVE ms[p].lgr <= ms[q].lgr
  <2>1. CASE p = q
    BY <1>4, <2>1
  <2>2. CASE p # q
    <3>1. p < q
      BY <1>4, <1>5, <2>2
    <3>2. Before(at[p], at[q])
      BY <1>3, <3>1
    <3>3. at[p][1] \in 1..Len(h) /\ at[q][1] \in 1..Len(h) /\ Len(h) \in Nat
      <4>1. \A s \in Spots(h) : s[1] \in 1..Len(h)
        BY DEF Spots
      <4> QED
        BY <1>3, <4>1
    <3>4. at[p][1] <= at[q][1]
      BY <3>2, <3>3 DEF Before
    <3>5. h[at[p][1]].lgr <= h[at[q][1]].lgr
      BY <3>3, <3>4 DEF Rising
    <3> QED
      BY <1>3, <3>5
  <2> QED
    BY <2>1, <2>2
<1> QED
  BY <1>4, <1>5 DEF ms, M

\* The newest attestation by number is the last one by place.
LEMMA NewestAt ==
    ASSUME NEW X, NEW h \in Seq(TxOver(X)), Rising(h), NEW at, Listing(h, at)
    PROVE  /\ AttSpots(h) = {} => Newest(Ordered(h, Account)) = 0
           /\ \A s : LastAtt(h, s) => \E p \in 1..Len(Ordered(h, Account)) :
                                         at[p] = s /\ Newest(Ordered(h, Account)) = p
           /\ AttSpots(h) # {} => \E s : LastAtt(h, s)
<1> DEFINE ms == Ordered(h, Account)
           M == Len(ms)
<1>1. /\ at \in [1..M -> Spots(h)]
      /\ \A p \in 1..M : ms[p].m = At(h, at[p])
      /\ \A s \in Spots(h) : \E p \in 1..M : at[p] = s
  BY DEF Listing
<1>2. \A p, q \in 1..M : (q < p <=> Before(at[q], at[p])) /\ (q = p <=> at[q] = at[p])
  BY ListingOrder
<1>3. /\ M \in Nat /\ DOMAIN ms = 1..M
      /\ \A p \in 1..M : ms[p].lgr \in Nat
      /\ \A p, q \in 1..M : p <= q => ms[p].lgr <= ms[q].lgr
  BY ItemsRise
<1>4. /\ (\A p \in 1..M : ms[p].m.type # "attestation") => Newest(ms) = 0
      /\ \A p \in 1..M :
            /\ ms[p].m.type = "attestation"
            /\ \A q \in 1..M : ms[q].m.type = "attestation" => q <= p
            => Newest(ms) = p
  BY <1>3, NewestIs
<1> HIDE DEF ms, M
<1>5. \A p \in 1..M : ms[p].m.type = "attestation" <=> at[p] \in AttSpots(h)
  BY <1>1 DEF AttSpots
<1>6. AttSpots(h) = {} => Newest(ms) = 0
  BY <1>4, <1>5
<1>7. ASSUME NEW s, LastAtt(h, s) PROVE \E p \in 1..M : at[p] = s /\ Newest(ms) = p
  <2>1. s \in AttSpots(h) /\ s \in Spots(h) /\ \A q \in AttSpots(h) : q = s \/ Before(q, s)
    BY <1>7 DEF LastAtt, AttSpots
  <2>2. PICK p \in 1..M : at[p] = s
    BY <1>1, <2>1
  <2>3. ASSUME NEW q \in 1..M, ms[q].m.type = "attestation" PROVE q <= p
    <3>1. at[q] = at[p] \/ Before(at[q], at[p])
      BY <1>5, <2>1, <2>2, <2>3
    <3>2. q = p \/ q < p
      BY <1>2, <3>1, Zenon
    <3> QED
      BY <1>3, <3>2
  <2> QED
    BY <1>4, <1>5, <2>1, <2>2, <2>3
<1>8. ASSUME AttSpots(h) # {} PROVE \E s : LastAtt(h, s)
  <2> DEFINE S == {p \in 1..M : at[p] \in AttSpots(h)}
  <2>1. S # {}
    BY <1>1, <1>8 DEF AttSpots
  <2>2. PICK p \in S : \A q \in S : q <= p
    <3>1. S \in SUBSET (1..M)
      OBVIOUS
    <3> HIDE DEF S
    <3> QED
      BY <1>3, <2>1, <3>1, LastOne
  <2>3. ASSUME NEW q \in AttSpots(h) PROVE q = at[p] \/ Before(q, at[p])
    <3>1. PICK r \in 1..M : at[r] = q
      BY <1>1 DEF AttSpots
    <3>2. r \in S /\ r <= p /\ p \in 1..M
      BY <2>2, <3>1
    <3>3. r = p \/ r < p
      BY <1>3, <3>2
    <3> QED
      BY <1>2, <3>1, <3>2, <3>3
  <2> QED
    BY <2>2, <2>3 DEF LastAtt
<1> QED
  BY <1>6, <1>7, <1>8 DEF ms, M

LEMMA EvaluateIs ==
    ASSUME NEW X, NEW h \in Seq(TxOver(X)), Rising(h)
    PROVE  /\ AttSpots(h) = {} => Evaluate(h, Account) = None
           /\ AttSpots(h) # {} => \E s : LastAtt(h, s)
           /\ \A s : LastAtt(h, s) =>
                 LET r == At(h, s) IN
                 /\ r.version = 1 => Evaluate(h, Account) =
                       IF Verify(r, Account) THEN Valid(r) ELSE Invalid(r, "bad signature")
                 /\ r.version = 2 => Evaluate(h, Account) =
                       IF Retired(h, s) THEN Invalid(r, "replaced")
                       ELSE IF Same(h, s) = {} THEN Invalid(r, "no delegation")
                       ELSE IF Signs(h, s) THEN Valid(r) ELSE Invalid(r, "bad signature")
<1> DEFINE ms == Ordered(h, Account)
           M == Len(ms)
           dels == Delegations(ms, Account)
<1>0. PICK at : Listing(h, at)
  BY ListingExists
<1>1. /\ at \in [1..M -> Spots(h)]
      /\ \A p \in 1..M : ms[p].m = At(h, at[p])
      /\ \A s \in Spots(h) : \E p \in 1..M : at[p] = s
  BY <1>0 DEF Listing
<1>2. \A p, q \in 1..M : (q < p <=> Before(at[q], at[p])) /\ (q = p <=> at[q] = at[p])
  BY <1>0, ListingOrder
<1>3. M \in Nat /\ DOMAIN ms = 1..M
  BY ItemsRise
<1>4. /\ AttSpots(h) = {} => Newest(ms) = 0
      /\ \A s : LastAtt(h, s) => \E p \in 1..M : at[p] = s /\ Newest(ms) = p
      /\ AttSpots(h) # {} => \E s : LastAtt(h, s)
  BY <1>0, NewestAt, Zenon
<1>5. AttSpots(h) = {} => Evaluate(h, Account) = None
  BY <1>4 DEF Evaluate
<1>6. ASSUME NEW s, LastAtt(h, s), NEW p \in 1..M, at[p] = s, Newest(ms) = p
      PROVE  LET r == At(h, s) IN
             /\ r.version = 1 => Evaluate(h, Account) =
                   IF Verify(r, Account) THEN Valid(r) ELSE Invalid(r, "bad signature")
             /\ r.version = 2 => Evaluate(h, Account) = Judge(ms, dels, p)
  <2>1. ms[p].m = At(h, s) /\ p > 0 /\ p # 0
    BY <1>1, <1>3, <1>6
  <2> HIDE DEF ms, M, dels
  <2> DEFINE E == CASE p = 0 -> None
                    [] p > 0 /\ ms[p].m.version = 1 ->
                         IF Verify(ms[p].m, Account) THEN Valid(ms[p].m)
                                                     ELSE Invalid(ms[p].m, "bad signature")
                    [] p > 0 /\ ms[p].m.version = 2 -> Judge(ms, dels, p)
  <2>2. Evaluate(h, Account) = E
    BY <1>6 DEF Evaluate, ms, M, dels
  <2>3. ms[p].m.version = 1 => E = IF Verify(ms[p].m, Account) THEN Valid(ms[p].m)
                                                     ELSE Invalid(ms[p].m, "bad signature")
    BY <2>1
  <2>4. ms[p].m.version = 2 => E = Judge(ms, dels, p)
    BY <2>1
  <2> HIDE DEF E
  <2> QED
    BY <2>1, <2>2, <2>3, <2>4, Zenon
<1>7. \A p \in 1..M : p \in dels <=> at[p] \in DelSpots(h)
  <2>1. \A p \in 1..M : p \in dels <=> ms[p].m.type = "delegation" /\ VerifyDelegation(ms[p].m, Account)
    BY <1>3 DEF Delegations
  <2> HIDE DEF ms, M, dels
  <2> QED
    BY <1>1, <2>1 DEF DelSpots
<1>8. dels \subseteq 1..M
  BY <1>3 DEF Delegations
<1> HIDE DEF ms, M, dels
<1>9. ASSUME NEW s, LastAtt(h, s), NEW p \in 1..M, at[p] = s
      PROVE  LET r == At(h, s) IN
             Judge(ms, dels, p) =
                IF Retired(h, s) THEN Invalid(r, "replaced")
                ELSE IF Same(h, s) = {} THEN Invalid(r, "no delegation")
                ELSE IF Signs(h, s) THEN Valid(r) ELSE Invalid(r, "bad signature")
  <2> DEFINE r == ms[p].m
             mine == {q \in dels : ms[q].m.vpk = r.vpk /\ q <= p}
             same == {q \in mine : ms[q].m.dseq = r.dseq}
             high == \E q \in mine : ms[q].m.dseq > r.dseq /\ q < p
             good == \E q \in same : (\A e \in same : e <= q) /\ SignedUnder(ms[q].m.pub, r)
  <2>1. Judge(ms, dels, p) = IF high THEN Invalid(r, "replaced")
                             ELSE IF same = {} THEN Invalid(r, "no delegation")
                             ELSE IF good THEN Valid(r) ELSE Invalid(r, "bad signature")
    BY Zenon DEF Judge
  <2>2. r = At(h, s)
    BY <1>1, <1>9
  <2>3. p \notin dels
    <3>1. At(h, s).type = "attestation"
      BY <1>9 DEF LastAtt, AttSpots
    <3> QED
      BY <1>7, <1>9, <3>1 DEF DelSpots
  <2>4. ASSUME NEW q \in 1..M PROVE q \in mine <=> at[q] \in Mine(h, s)
    <3>1. q \in dels /\ q <= p <=> q \in dels /\ q < p
      BY <1>3, <2>3
    <3>2. q < p <=> Before(at[q], s)
      BY <1>2, <1>9
    <3>3. ms[q].m = At(h, at[q])
      BY <1>1
    <3>4. q \in mine <=> q \in dels /\ q < p /\ ms[q].m.vpk = r.vpk
      BY <3>1, Zenon
    <3> HIDE DEF mine, r
    <3> QED
      BY <1>7, <2>2, <3>2, <3>3, <3>4, Zenon DEF Mine
  <2>5. \A q \in mine : q \in 1..M /\ q < p
    BY <1>3, <1>8, <2>3
  <2>6. same \subseteq mine /\ \A q \in 1..M : q \in same <=> at[q] \in Same(h, s)
    <3>1. \A q \in 1..M : q \in same <=> q \in mine /\ ms[q].m.dseq = r.dseq
      OBVIOUS
    <3>2. same \subseteq mine
      OBVIOUS
    <3> HIDE DEF mine, same, r
    <3> QED
      BY <1>1, <2>2, <2>4, <3>1, <3>2, Zenon DEF Same
  <2>7. \A d \in Mine(h, s) : \E q \in 1..M : at[q] = d
    BY <1>1 DEF Mine, DelSpots
  <2>8. Same(h, s) \subseteq Mine(h, s)
    BY DEF Same
  <2> HIDE DEF mine, same, r
  <2>9. high <=> Retired(h, s)
    <3>1. ASSUME high PROVE Retired(h, s)
      <4>1. PICK q \in mine : ms[q].m.dseq > r.dseq
        BY <3>1
      <4>2. q \in 1..M /\ at[q] \in Mine(h, s) /\ ms[q].m = At(h, at[q])
        BY <1>1, <2>4, <2>5
      <4> QED
        BY <2>2, <4>1, <4>2, Zenon DEF Retired
    <3>2. ASSUME Retired(h, s) PROVE high
      <4>1. PICK d \in Mine(h, s) : At(h, d).dseq > At(h, s).dseq
        BY <3>2 DEF Retired
      <4>2. PICK q \in 1..M : at[q] = d
        BY <2>7
      <4>3. q \in mine /\ ms[q].m = At(h, at[q]) /\ q < p
        BY <1>1, <2>4, <2>5, <4>2
      <4> QED
        BY <2>2, <4>1, <4>2, <4>3, Zenon
    <3> QED
      BY <3>1, <3>2
  <2>10. same = {} <=> Same(h, s) = {}
    BY <2>5, <2>6, <2>7, <2>8
  <2>11. good <=> Signs(h, s)
    <3>0. \A e, q \in same : e <= q <=> at[e] = at[q] \/ Before(at[e], at[q])
      <4>1. \A e, q \in 1..M : e <= q <=> e = q \/ e < q
        BY <1>3
      <4> QED
        BY <1>2, <2>5, <2>6, <4>1, Zenon
    <3>1. ASSUME good PROVE Signs(h, s)
      <4>1. PICK q \in same : (\A e \in same : e <= q) /\ SignedUnder(ms[q].m.pub, r)
        BY <3>1
      <4>2. q \in 1..M /\ at[q] \in Same(h, s) /\ ms[q].m = At(h, at[q])
        BY <1>1, <2>5, <2>6
      <4>3. ASSUME NEW d \in Same(h, s) PROVE d = at[q] \/ Before(d, at[q])
        <5>1. PICK e \in 1..M : at[e] = d
          BY <2>7, <2>8
        <5> QED
          BY <2>6, <3>0, <4>1, <5>1, Zenon
      <4> QED
        BY <2>2, <4>1, <4>2, <4>3, Zenon DEF Signs
    <3>2. ASSUME Signs(h, s) PROVE good
      <4>1. PICK d \in Same(h, s) : /\ \A e \in Same(h, s) : e = d \/ Before(e, d)
                                    /\ SignedUnder(At(h, d).pub, At(h, s))
        BY <3>2 DEF Signs
      <4>2. PICK q \in 1..M : at[q] = d
        BY <2>7, <2>8
      <4>3. q \in same /\ ms[q].m = At(h, at[q])
        BY <1>1, <2>6, <4>2
      <4>4. \A e \in same : e <= q
        BY <2>5, <2>6, <3>0, <4>1, <4>2, <4>3, Zenon
      <4> QED
        BY <2>2, <4>1, <4>2, <4>3, <4>4, Zenon
    <3> QED
      BY <3>1, <3>2
  <2> HIDE DEF high, good
  <2> QED
    BY <2>1, <2>2, <2>9, <2>10, <2>11, Zenon
<1>10. ASSUME NEW s, LastAtt(h, s)
      PROVE  LET r == At(h, s) IN
             /\ r.version = 1 => Evaluate(h, Account) =
                   IF Verify(r, Account) THEN Valid(r) ELSE Invalid(r, "bad signature")
             /\ r.version = 2 => Evaluate(h, Account) =
                   IF Retired(h, s) THEN Invalid(r, "replaced")
                   ELSE IF Same(h, s) = {} THEN Invalid(r, "no delegation")
                   ELSE IF Signs(h, s) THEN Valid(r) ELSE Invalid(r, "bad signature")
  <2>1. PICK p \in 1..M : at[p] = s /\ Newest(ms) = p
    BY <1>4, <1>10, Zenon
  <2>2. LET r == At(h, s) IN
        /\ r.version = 1 => Evaluate(h, Account) =
              IF Verify(r, Account) THEN Valid(r) ELSE Invalid(r, "bad signature")
        /\ r.version = 2 => Evaluate(h, Account) = Judge(ms, dels, p)
    BY <1>6, <1>10, <2>1, Zenon
  <2>3. LET r == At(h, s) IN
        Judge(ms, dels, p) =
           IF Retired(h, s) THEN Invalid(r, "replaced")
           ELSE IF Same(h, s) = {} THEN Invalid(r, "no delegation")
           ELSE IF Signs(h, s) THEN Valid(r) ELSE Invalid(r, "bad signature")
    BY <1>9, <1>10, <2>1, Zenon
  <2> QED
    BY <2>2, <2>3, Zenon
<1> QED
  BY <1>4, <1>5, <1>10, Zenon

-----------------------------------------------------------------------------
(* Two histories that show the same memos in the same order.               *)

\* `to' places the memos of v in h.
Embeds(v, h, to) ==
    /\ to \in [Spots(v) -> Spots(h)]
    /\ \A s \in Spots(v) : At(h, to[s]) = At(v, s)
    /\ \A s, e \in Spots(v) : Before(s, e) <=> Before(to[s], to[e])

\* v shows every delegation of h that could change the verdict on s: each one
\* of its dseq or a higher one, or else a later one of its dseq.
Covers(v, h, to, s) ==
    \A d \in Mine(h, to[s]) : At(h, d).dseq >= At(v, s).dseq =>
        \/ \E e \in Spots(v) : to[e] = d
        \/ At(h, d).dseq = At(v, s).dseq /\ \E e \in Same(v, s) : Before(d, to[e])

LEMMA EmbedJudge ==
    ASSUME NEW v, NEW h, NEW to, Embeds(v, h, to), NEW s \in AttSpots(v), Covers(v, h, to, s),
           At(v, s).dseq \in Nat, \A d \in DelSpots(v) : At(v, d).dseq \in Nat,
           \A d \in DelSpots(h) : At(h, d).dseq \in Nat
    PROVE  /\ Retired(v, s) <=> Retired(h, to[s])
           /\ Same(v, s) = {} <=> Same(h, to[s]) = {}
           /\ Signs(v, s) <=> Signs(h, to[s])
<1> DEFINE w == to[s]
           r == At(v, s)
<1>1. /\ to \in [Spots(v) -> Spots(h)]
      /\ \A e \in Spots(v) : At(h, to[e]) = At(v, e)
      /\ \A d, e \in Spots(v) : Before(d, e) <=> Before(to[d], to[e])
  BY DEF Embeds
<1>2. s \in Spots(v) /\ w \in Spots(h) /\ At(h, w) = r
  BY <1>1 DEF AttSpots
<1>3. \A e \in Mine(v, s) : e \in Spots(v) /\ e \in DelSpots(v)
  BY DEF Mine, DelSpots
<1>4. \A e \in Mine(h, w) : e \in Spots(h) /\ e \in DelSpots(h)
  BY DEF Mine, DelSpots
<1>5. ASSUME NEW e \in Spots(v) PROVE e \in Mine(v, s) <=> to[e] \in Mine(h, w)
  <2>1. to[e] \in Spots(h) /\ At(h, to[e]) = At(v, e)
    BY <1>1
  <2>2. e \in DelSpots(v) <=> to[e] \in DelSpots(h)
    BY <2>1 DEF DelSpots
  <2> QED
    BY <1>1, <1>2, <2>1, <2>2, Zenon DEF Mine
<1>6. Same(v, s) \subseteq Mine(v, s) /\ Same(h, w) \subseteq Mine(h, w)
  BY DEF Same
<1>7. \A e \in Spots(v) : e \in Same(v, s) <=> to[e] \in Same(h, w)
  BY <1>1, <1>2, <1>5, Zenon DEF Same
<1>8. \A d \in Mine(h, w) : At(h, d).dseq >= r.dseq =>
        \/ \E e \in Spots(v) : to[e] = d
        \/ At(h, d).dseq = r.dseq /\ \E e \in Same(v, s) : Before(d, to[e])
  BY DEF Covers
<1>9. ASSUME NEW d \in Same(h, w)
      PROVE  (\E e \in Same(v, s) : to[e] = d) \/ \E e \in Same(v, s) : Before(d, to[e])
  <2>1. d \in Mine(h, w) /\ At(h, d).dseq = r.dseq
    BY <1>2 DEF Same
  <2>2. At(h, d).dseq >= r.dseq
    BY <2>1
  <2> QED
    BY <1>7, <1>8, <2>1, <2>2, Zenon
<1> HIDE DEF w, r
<1>10. Retired(v, s) <=> Retired(h, w)
  <2>1. ASSUME Retired(v, s) PROVE Retired(h, w)
    <3>1. PICK e \in Mine(v, s) : At(v, e).dseq > At(v, s).dseq
      BY <2>1 DEF Retired
    <3>2. e \in Spots(v) /\ to[e] \in Mine(h, w) /\ At(h, to[e]) = At(v, e)
      BY <1>1, <1>3, <1>5
    <3> QED
      BY <1>2, <3>1, <3>2, Zenon DEF Retired, r
  <2>2. ASSUME Retired(h, w) PROVE Retired(v, s)
    <3>1. PICK d \in Mine(h, w) : At(h, d).dseq > At(h, w).dseq
      BY <2>2 DEF Retired
    <3>2. At(h, d).dseq \in Nat /\ r.dseq \in Nat /\ At(h, w).dseq = r.dseq
      BY <1>2, <1>4 DEF r
    <3>3. At(h, d).dseq >= r.dseq /\ At(h, d).dseq # r.dseq
      BY <3>1, <3>2
    <3>4. PICK e \in Spots(v) : to[e] = d
      BY <1>8, <3>3, Zenon
    <3>5. e \in Mine(v, s) /\ At(v, e) = At(h, d)
      BY <1>1, <1>5, <3>4
    <3> QED
      BY <1>2, <3>1, <3>5, Zenon DEF Retired, r
  <2> QED
    BY <2>1, <2>2
<1>11. Same(v, s) = {} <=> Same(h, w) = {}
  BY <1>3, <1>6, <1>7, <1>9
<1>12. Signs(v, s) <=> Signs(h, w)
  <2>1. ASSUME Signs(v, s) PROVE Signs(h, w)
    <3>1. PICK d \in Same(v, s) : /\ \A e \in Same(v, s) : e = d \/ Before(e, d)
                                  /\ SignedUnder(At(v, d).pub, At(v, s))
      BY <2>1 DEF Signs
    <3>2. d \in Spots(v) /\ to[d] \in Same(h, w) /\ At(h, to[d]) = At(v, d)
      BY <1>1, <1>3, <1>6, <1>7
    <3>3. ASSUME NEW e \in Same(h, w) PROVE e = to[d] \/ Before(e, to[d])
      <4>0. \A x \in Spots(h) : x \in Nat \X Nat
        BY DEF Spots
      <4>1. CASE \E x \in Same(v, s) : to[x] = e
        <5>1. PICK x \in Same(v, s) : to[x] = e
          BY <4>1
        <5>2. x \in Spots(v) /\ (x = d \/ Before(x, d))
          BY <1>3, <1>6, <3>1
        <5> QED
          BY <1>1, <3>2, <5>1, <5>2, Zenon
      <4>2. CASE \E x \in Same(v, s) : Before(e, to[x])
        <5>1. PICK x \in Same(v, s) : Before(e, to[x])
          BY <4>2
        <5>2. to[x] = to[d] \/ Before(to[x], to[d])
          BY <1>1, <1>3, <1>6, <3>1, <3>2, Zenon
        <5>3. e \in Nat \X Nat /\ to[x] \in Nat \X Nat /\ to[d] \in Nat \X Nat
          BY <1>1, <1>3, <1>4, <1>6, <3>2, <4>0
        <5> QED
          BY <5>1, <5>2, <5>3, BeforeIs
      <4> QED
        BY <1>9, <4>1, <4>2
    <3> QED
      BY <1>2, <3>1, <3>2, <3>3, Zenon DEF Signs, r
  <2>2. ASSUME Signs(h, w) PROVE Signs(v, s)
    <3>1. PICK d \in Same(h, w) : /\ \A e \in Same(h, w) : e = d \/ Before(e, d)
                                  /\ SignedUnder(At(h, d).pub, At(h, w))
      BY <2>2 DEF Signs
    <3>0. \A x \in Spots(h) : x \in Nat \X Nat
      BY DEF Spots
    <3>2. ASSUME NEW e \in Same(v, s) PROVE ~Before(d, to[e])
      <4>1. to[e] \in Same(h, w)
        BY <1>3, <1>6, <1>7
      <4>2. to[e] = d \/ Before(to[e], d)
        BY <3>1, <4>1
      <4>3. d \in Nat \X Nat /\ to[e] \in Nat \X Nat
        BY <1>4, <1>6, <3>0, <4>1
      <4>4. ~Before(d, d) /\ ~(Before(d, to[e]) /\ Before(to[e], d))
        BY <4>3, BeforeIs
      <4> QED
        BY <4>2, <4>4, Zenon
    <3>3. PICK e \in Same(v, s) : to[e] = d
      BY <1>9, <3>2
    <3>4. At(v, e) = At(h, d) /\ e \in Spots(v)
      BY <1>1, <1>3, <1>6, <3>3
    <3>5. ASSUME NEW x \in Same(v, s) PROVE x = e \/ Before(x, e)
      <4>1. to[x] \in Same(h, w) /\ x \in Spots(v)
        BY <1>3, <1>6, <1>7
      <4>2. to[x] = to[e] \/ Before(to[x], to[e])
        BY <3>1, <3>3, <4>1
      <4>3. \A y \in Spots(v) : y \in Nat \X Nat
        BY DEF Spots
      <4>4. Before(x, e) \/ x = e \/ Before(e, x)
        BY <3>4, <4>1, <4>3, BeforeIs
      <4>5. ~Before(to[e], to[x])
        <5>1. to[x] \in Nat \X Nat /\ to[e] \in Nat \X Nat
          BY <1>4, <1>6, <3>0, <3>3, <4>1
        <5>2. ~Before(to[x], to[x]) /\ ~(Before(to[x], to[e]) /\ Before(to[e], to[x]))
          BY <5>1, BeforeIs
        <5> QED
          BY <4>2, <5>2, Zenon
      <4> QED
        BY <1>1, <3>4, <4>1, <4>4, <4>5, Zenon
    <3> QED
      BY <1>2, <3>1, <3>4, <3>5, Zenon DEF Signs, r
  <2> QED
    BY <2>1, <2>2
<1> QED
  BY <1>10, <1>11, <1>12 DEF w

-----------------------------------------------------------------------------
(* The memos that reach the history.                                       *)

DelegMemos == {DelegationMemo(q, Sign(by, DelegationString(q.vpk, Account, q.pub, q.dseq))) :
                 q \in Key, by \in Validators \cup AttestKeys}
DelegatedMemos == {DelegatedMemo(q, Account, id) : q \in Key, id \in Hosts \X Nat}
MasterMemos == {Memo(y, id, Sign(y, SignString(y, Account, id))) : y \in Validators, id \in Hosts \X Nat}
MemoSet == DelegMemos \cup DelegatedMemos \cup MasterMemos

LEMMA MemoFacts ==
    ASSUME NEW m \in MemoSet
    PROVE  /\ m.type \in {"delegation", "attestation"}
           /\ m.dseq \in Nat
           /\ m \in DelegMemos => m.type = "delegation"
           /\ m.type = "attestation" =>
                 /\ m.version \in {1, 2}
                 /\ m.version = 1 => Verify(m, Account)
                 /\ m.version = 1 => m.sig = Sign(m.vpk, SignString(m.vpk, Account, m.id))
                 /\ m.version = 2 => \A pub : SignedUnder(pub, m) <=> m.sig.by = pub
<1> USE AttestAssumption
<1>1. CASE m \in DelegMemos
  <2>1. PICK q \in Key, by \in Validators \cup AttestKeys :
          m = DelegationMemo(q, Sign(by, DelegationString(q.vpk, Account, q.pub, q.dseq)))
    BY <1>1 DEF DelegMemos
  <2>2. q.dseq \in Nat
    BY DEF Key
  <2>3. m.type = "delegation" /\ m.dseq = q.dseq
    BY <2>1 DEF DelegationMemo
  <2> QED
    BY <2>2, <2>3
<1>2. CASE m \in DelegatedMemos
  <2>1. PICK q \in Key, id \in Hosts \X Nat : m = DelegatedMemo(q, Account, id)
    BY <1>2 DEF DelegatedMemos
  <2>2. q.dseq \in Nat
    BY DEF Key
  <2>3. /\ m.type = "attestation" /\ m.version = 2 /\ m.vpk = q.vpk /\ m.dseq = q.dseq /\ m.id = id
        /\ m.sig = Sign(q.pub, DelegatedSignString(q.vpk, Account, q.dseq, id))
    BY <2>1 DEF DelegatedMemo
  <2>4. \A pub : SignedUnder(pub, m) <=> m.sig.by = pub
    BY <2>3 DEF SignedUnder, VerifyEd25519, Sign
  <2>5. m \notin DelegMemos
    <3>1. \A x \in DelegMemos : x.type = "delegation"
      BY DEF DelegMemos, DelegationMemo
    <3> QED
      BY <2>3, <3>1
  <2> QED
    BY <2>2, <2>3, <2>4, <2>5
<1>3. CASE m \in MasterMemos
  <2>1. PICK y \in Validators, id \in Hosts \X Nat :
          m = Memo(y, id, Sign(y, SignString(y, Account, id)))
    BY <1>3 DEF MasterMemos
  <2>2. /\ m.type = "attestation" /\ m.version = 1 /\ m.vpk = y /\ m.dseq = 0 /\ m.id = id
        /\ m.sig = Sign(y, SignString(y, Account, id))
    BY <2>1 DEF Memo
  <2>3. Verify(m, Account) /\ m.sig = Sign(m.vpk, SignString(m.vpk, Account, m.id))
    BY <2>2 DEF Verify, VerifyEd25519
  <2>5. m \notin DelegMemos
    <3>1. \A x \in DelegMemos : x.type = "delegation"
      BY DEF DelegMemos, DelegationMemo
    <3> QED
      BY <2>2, <3>1
  <2> QED
    BY <2>2, <2>3, <2>5
<1> QED
  BY <1>1, <1>2, <1>3 DEF MemoSet

\* What stands at a place of a history of such memos.
LEMMA SpotMemo ==
    ASSUME NEW h \in Seq(TxOver(MemoSet)), NEW s \in Spots(h)
    PROVE  At(h, s) \in MemoSet /\ s \in Nat \X Nat
<1>1. s \in (1..Len(h)) \X Nat /\ s[2] \in 1..Len(h[s[1]].memos)
  BY DEF Spots
<1>2. h[s[1]] \in TxOver(MemoSet) /\ s \in Nat \X Nat
  BY <1>1
<1>3. h[s[1]].memos \in Seq(MemoSet)
  BY <1>2 DEF TxOver
<1> QED
  BY <1>1, <1>2, <1>3 DEF At

\* Where v stands in h with its last attestation last and every delegation
\* that matters shown, the verdicts agree.
LEMMA EmbedVerdict ==
    ASSUME NEW v \in Seq(TxOver(MemoSet)), NEW h \in Seq(TxOver(MemoSet)), Rising(v), Rising(h),
           NEW to, Embeds(v, h, to), NEW s, LastAtt(v, s), LastAtt(h, to[s]),
           At(v, s).version = 2 => Covers(v, h, to, s)
    PROVE  Evaluate(v, Account) = Evaluate(h, Account)
<1>1. s \in AttSpots(v) /\ s \in Spots(v) /\ At(v, s) \in MemoSet /\ At(v, s).type = "attestation"
  BY SpotMemo DEF LastAtt, AttSpots
<1>2. At(h, to[s]) = At(v, s)
  BY <1>1 DEF Embeds
<1> DEFINE r == At(v, s)
<1>3. r.version \in {1, 2} /\ r.dseq \in Nat
  BY <1>1, MemoFacts
<1>4. /\ r.version = 1 => Evaluate(v, Account) =
            IF Verify(r, Account) THEN Valid(r) ELSE Invalid(r, "bad signature")
      /\ r.version = 2 => Evaluate(v, Account) =
            IF Retired(v, s) THEN Invalid(r, "replaced")
            ELSE IF Same(v, s) = {} THEN Invalid(r, "no delegation")
            ELSE IF Signs(v, s) THEN Valid(r) ELSE Invalid(r, "bad signature")
  BY EvaluateIs, Zenon
<1>5. /\ r.version = 1 => Evaluate(h, Account) =
            IF Verify(r, Account) THEN Valid(r) ELSE Invalid(r, "bad signature")
      /\ r.version = 2 => Evaluate(h, Account) =
            IF Retired(h, to[s]) THEN Invalid(r, "replaced")
            ELSE IF Same(h, to[s]) = {} THEN Invalid(r, "no delegation")
            ELSE IF Signs(h, to[s]) THEN Valid(r) ELSE Invalid(r, "bad signature")
  <2> DEFINE u == to[s]
             o == At(h, u)
  <2>1. /\ o.version = 1 => Evaluate(h, Account) =
              IF Verify(o, Account) THEN Valid(o) ELSE Invalid(o, "bad signature")
        /\ o.version = 2 => Evaluate(h, Account) =
              IF Retired(h, u) THEN Invalid(o, "replaced")
              ELSE IF Same(h, u) = {} THEN Invalid(o, "no delegation")
              ELSE IF Signs(h, u) THEN Valid(o) ELSE Invalid(o, "bad signature")
    BY EvaluateIs, Zenon
  <2>2. o = r
    BY <1>2
  <2> HIDE DEF o, r
  <2> QED
    BY <2>1, <2>2, Zenon
<1>6. r.version = 2 => /\ Retired(v, s) <=> Retired(h, to[s])
                       /\ Same(v, s) = {} <=> Same(h, to[s]) = {}
                       /\ Signs(v, s) <=> Signs(h, to[s])
  <2>1. \A d \in DelSpots(v) : At(v, d).dseq \in Nat
    BY SpotMemo, MemoFacts DEF DelSpots
  <2>2. \A d \in DelSpots(h) : At(h, d).dseq \in Nat
    BY SpotMemo, MemoFacts DEF DelSpots
  <2> QED
    BY <1>1, <1>3, <2>1, <2>2, EmbedJudge, Zenon
<1> HIDE DEF r
<1>7. CASE r.version = 1
  <2> DEFINE o == IF Verify(r, Account) THEN Valid(r) ELSE Invalid(r, "bad signature")
  <2>1. Evaluate(v, Account) = o
    BY <1>4, <1>7, Zenon
  <2>2. Evaluate(h, Account) = o
    BY <1>5, <1>7, Zenon
  <2> HIDE DEF o
  <2> QED
    BY <2>1, <2>2
<1>8. CASE r.version = 2
  <2> DEFINE o == IF Signs(v, s) THEN Valid(r) ELSE Invalid(r, "bad signature")
             y == IF Same(v, s) = {} THEN Invalid(r, "no delegation") ELSE o
             z == IF Retired(v, s) THEN Invalid(r, "replaced") ELSE y
  <2>1. Evaluate(v, Account) = z
    BY <1>4, <1>8, Zenon
  <2>2. Evaluate(h, Account) = IF Retired(h, to[s]) THEN Invalid(r, "replaced")
                               ELSE IF Same(h, to[s]) = {} THEN Invalid(r, "no delegation")
                               ELSE IF Signs(h, to[s]) THEN Valid(r) ELSE Invalid(r, "bad signature")
    BY <1>5, <1>8, Zenon
  <2>3. (IF Signs(h, to[s]) THEN Valid(r) ELSE Invalid(r, "bad signature")) = o
    BY <1>6, <1>8, Zenon
  <2> HIDE DEF o
  <2>4. (IF Same(h, to[s]) = {} THEN Invalid(r, "no delegation") ELSE o) = y
    BY <1>6, <1>8, Zenon
  <2> HIDE DEF y
  <2>5. (IF Retired(h, to[s]) THEN Invalid(r, "replaced") ELSE y) = z
    BY <1>6, <1>8, Zenon
  <2> HIDE DEF z
  <2> QED
    BY <2>1, <2>2, <2>3, <2>4, <2>5, Zenon
<1> QED
  BY <1>3, <1>7, <1>8

-----------------------------------------------------------------------------
(* The inductive invariant.                                                *)

\* A transaction carries an attestation, a delegation, or both in this order.
Shape(memos) == Len(memos) \in 1..2 /\ (Len(memos) = 2 => memos[1].type = "delegation")

Flight == [memos : Seq(MemoSet), read : Nat \X Nat]

\* A run in flight still carries what was judged, and the judged stretch of
\* the history is still there: the history only grows.
Judged(h, f) ==
    /\ Shape(f.memos) /\ Last(f.memos).type = "attestation"
    /\ f.read[1] >= 1 /\ f.read[2] <= Len(h)
    /\ Last(f.memos).version = 2 => Acceptable(SubSeq(h, f.read[1], f.read[2]), f.memos)

Written(h) == /\ h \in Seq(TxOver(MemoSet))
              /\ \A i \in 1..Len(h) : Shape(h[i].memos) /\ h[i].lgr = LedgerOf(i)

AttInv ==
    /\ Written(txs)
    /\ keyfile \in [Hosts -> Key \cup {NoKey, Torn}]
    /\ run \in [Hosts -> {<<>>} \cup {<<f>> : f \in Flight}]
    /\ \A x \in Hosts : run[x] # <<>> => run[x][1] \in Flight /\ Judged(txs, run[x][1])

LEMMA Stretch ==
    ASSUME NEW S, NEW h \in Seq(S), NEW f \in Nat, f >= 1, NEW n \in Nat, n <= Len(h)
    PROVE  /\ SubSeq(h, f, n) \in Seq(S)
           /\ Len(SubSeq(h, f, n)) = IF f <= n THEN n - f + 1 ELSE 0
           /\ \A i \in 1..Len(SubSeq(h, f, n)) : SubSeq(h, f, n)[i] = h[i + f - 1]
<1>1. \A i \in f..n : h[i] \in S
  OBVIOUS
<1>2. /\ SubSeq(h, f, n) \in Seq(S)
      /\ Len(SubSeq(h, f, n)) = IF f <= n THEN n - f + 1 ELSE 0
      /\ \A i \in 1..(n - f + 1) : SubSeq(h, f, n)[i] = h[f + i - 1]
  <2>1. f \in Int /\ n \in Int
    OBVIOUS
  <2> QED
    BY <1>1, <2>1, SubSeqProperties
<1> DEFINE v == SubSeq(h, f, n)
<1> HIDE DEF v
<1>3. \A i \in 1..Len(v) : i \in 1..(n - f + 1) /\ f + i - 1 = i + f - 1
  BY <1>2 DEF v
<1> QED
  BY <1>2, <1>3 DEF v

LEMMA StretchKept ==
    ASSUME NEW S, NEW h \in Seq(S), NEW t \in S, NEW f \in Nat, f >= 1, NEW n \in Nat, n <= Len(h)
    PROVE  SubSeq(Append(h, t), f, n) = SubSeq(h, f, n)
<1> DEFINE a == Append(h, t)
           v == SubSeq(h, f, n)
           w == SubSeq(a, f, n)
<1>1. a \in Seq(S) /\ Len(a) = Len(h) + 1 /\ Len(h) \in Nat /\ \A i \in 1..Len(h) : a[i] = h[i]
  BY AppendProperties
<1>2. n <= Len(a)
  BY <1>1
<1> HIDE DEF a
<1>3. /\ v \in Seq(S) /\ Len(v) = IF f <= n THEN n - f + 1 ELSE 0
      /\ \A i \in 1..Len(v) : v[i] = h[i + f - 1]
  BY Stretch
<1>4. /\ w \in Seq(S) /\ Len(w) = IF f <= n THEN n - f + 1 ELSE 0
      /\ \A i \in 1..Len(w) : w[i] = a[i + f - 1]
  BY <1>1, <1>2, Stretch
<1> HIDE DEF v, w
<1>5. Len(v) = Len(w)
  BY <1>3, <1>4
<1>6. ASSUME NEW i \in 1..Len(v) PROVE v[i] = w[i]
  <2>1. i + f - 1 \in 1..Len(h)
    BY <1>1, <1>3
  <2> QED
    BY <1>1, <1>3, <1>4, <1>5, <2>1
<1>7. v = w
  BY <1>3, <1>4, <1>5, <1>6, SeqEqual
<1> QED
  BY <1>7 DEF a, v, w

\* One more transaction: the history stays well written, and what was judged
\* stays judged.
LEMMA WrittenAppend ==
    ASSUME NEW h, Written(h), NEW t \in TxOver(MemoSet), Shape(t.memos), t.lgr = LedgerOf(Len(h) + 1)
    PROVE  /\ Written(Append(h, t))
           /\ \A f \in Flight : Judged(h, f) => Judged(Append(h, t), f)
<1> DEFINE a == Append(h, t)
<1>1. /\ h \in Seq(TxOver(MemoSet)) /\ \A i \in 1..Len(h) : Shape(h[i].memos) /\ h[i].lgr = LedgerOf(i)
  BY DEF Written
<1>2. /\ a \in Seq(TxOver(MemoSet)) /\ Len(a) = Len(h) + 1 /\ Len(h) \in Nat /\ a[Len(h) + 1] = t
      /\ \A i \in 1..Len(h) : a[i] = h[i]
  BY <1>1, AppendProperties
<1> HIDE DEF a
<1>3. ASSUME NEW i \in 1..Len(a) PROVE Shape(a[i].memos) /\ a[i].lgr = LedgerOf(i)
  <2>1. i = Len(h) + 1 \/ i \in 1..Len(h)
    BY <1>2
  <2> QED
    BY <1>1, <1>2, <2>1
<1>4. ASSUME NEW f \in Flight, Judged(h, f) PROVE Judged(a, f)
  <2>1. f.read[1] \in Nat /\ f.read[2] \in Nat
    BY DEF Flight
  <2>2. f.read[1] >= 1 /\ f.read[2] <= Len(h)
    BY <1>4 DEF Judged
  <2>3. SubSeq(a, f.read[1], f.read[2]) = SubSeq(h, f.read[1], f.read[2])
    BY <1>1, <2>1, <2>2, StretchKept DEF a
  <2>4. f.read[2] <= Len(a)
    BY <1>2, <2>1, <2>2
  <2> QED
    BY <1>4, <2>2, <2>3, <2>4 DEF Judged
<1> QED
  BY <1>2, <1>3, <1>4 DEF Written, a

LEMMA PlanSeqNat == ASSUME AttInv PROVE PlanSeq \in Nat
<1>1. DOMAIN txs = 1..Len(txs) /\ Len(txs) \in Nat
  BY DEF AttInv, Written
<1>2. IsFiniteSet(1..Len(txs))
  BY <1>1, FS_Interval
<1>3. IsFiniteSet({i \in DOMAIN txs : Counted(txs[i], Account)})
  BY <1>1, <1>2, FS_Subset
<1> QED
  BY <1>3, FS_CardinalityType DEF PlanSeq

LEMMA AttInit == Init => AttInv
<1> SUFFICES ASSUME Init PROVE AttInv
  OBVIOUS
<1>1. Written(txs)
  BY DEF Init, Written
<1>2. run \in [Hosts -> {<<>>} \cup {<<f>> : f \in Flight}] /\ \A x \in Hosts : run[x] = <<>>
  BY DEF Init
<1>3. keyfile \in [Hosts -> Key \cup {NoKey, Torn}]
  BY DEF Init
<1> QED
  BY <1>1, <1>2, <1>3 DEF AttInv

\* A transaction that a step may add.
Lands(x, t) ==
    LET f == run[x][1]
        r == Last(f.memos)
    IN /\ run[x] # <<>> /\ t.memos = f.memos
       /\ t.unseen = \E i \in Superseding(r.vpk, r.dseq) : i < f.read[1] \/ i > f.read[2]
NewTx(t) ==
    /\ t \in TxOver(MemoSet) /\ Shape(t.memos) /\ t.lgr = LedgerOf(Len(txs) + 1)
    /\ \/ ~Counted(t, Account)
       \/ \A j \in 1..Len(t.memos) : t.memos[j].type = "delegation"
       \/ \E x \in Hosts : Lands(x, t)

LEMMA PutAdds ==
    ASSUME AttInv, NEW account \in Accounts, NEW result \in Results, NEW memos \in Seq(MemoSet),
           NEW unseen \in BOOLEAN, Shape(memos), Put(account, result, memos, unseen)
    PROVE  LET t == [account |-> account, result |-> result, memos |-> memos,
                     lgr |-> LedgerOf(Len(txs) + 1), unseen |-> unseen]
           IN /\ txs' = Append(txs, t) /\ t \in TxOver(MemoSet)
              /\ Shape(t.memos) /\ t.lgr = LedgerOf(Len(txs) + 1)
<1>1. Len(txs) \in Nat
  BY DEF AttInv, Written
<1>2. LedgerOf(Len(txs) + 1) \in Nat
  BY <1>1 DEF LedgerOf
<1> DEFINE l == LedgerOf(Len(txs) + 1)
<1>3. txs' = Append(txs, [account |-> account, result |-> result, memos |-> memos, lgr |-> l, unseen |-> unseen])
  BY DEF Put
<1> HIDE DEF l
<1>4. l \in Nat
  BY <1>2 DEF l
<1>5. [account |-> account, result |-> result, memos |-> memos, lgr |-> l, unseen |-> unseen] \in TxOver(MemoSet)
  BY <1>4 DEF TxOver
<1> QED
  BY <1>3, <1>5 DEF l

LEMMA HistoryGrows ==
    ASSUME AttInv, [Next]_vars
    PROVE  txs' = txs \/ \E t : NewTx(t) /\ txs' = Append(txs, t)
<1>1. CASE UNCHANGED vars
  BY <1>1 DEF vars
<1>2. ASSUME NEW x \in Hosts, Land(x) PROVE \E t : NewTx(t) /\ txs' = Append(txs, t)
  <2> DEFINE f == run[x][1]
             r == Last(f.memos)
             unseen == \E i \in Superseding(r.vpk, r.dseq) : i < f.read[1] \/ i > f.read[2]
  <2>1. run[x] # <<>> /\ (Put(Account, "tesSUCCESS", f.memos, unseen) \/ Put(Account, "tec", f.memos, unseen))
    BY <1>2 DEF Land
  <2>2. f \in Flight /\ Judged(txs, f)
    BY <2>1 DEF AttInv
  <2>3. f.memos \in Seq(MemoSet) /\ Shape(f.memos)
    BY <2>2 DEF Flight, Judged
  <2>4. \A t : t.memos = f.memos /\ t.unseen = unseen => Lands(x, t)
    BY <2>1 DEF Lands
  <2> DEFINE un == unseen
  <2>5. un \in BOOLEAN
    OBVIOUS
  <2> HIDE DEF un, f
  <2>6. ASSUME NEW result \in Results, Put(Account, result, f.memos, un)
        PROVE  \E t : NewTx(t) /\ txs' = Append(txs, t)
    <3> DEFINE t == [account |-> Account, result |-> result, memos |-> f.memos,
                     lgr |-> LedgerOf(Len(txs) + 1), unseen |-> un]
    <3>1. Account \in Accounts
      BY DEF Accounts
    <3>2. /\ txs' = Append(txs, t) /\ t \in TxOver(MemoSet)
          /\ Shape(t.memos) /\ t.lgr = LedgerOf(Len(txs) + 1)
      BY <2>3, <2>5, <2>6, <3>1, PutAdds
    <3>3. t.memos = f.memos /\ t.unseen = un
      OBVIOUS
    <3> HIDE DEF t
    <3>4. Lands(x, t)
      BY <2>4, <3>3, Zenon DEF un
    <3> QED
      BY <3>2, <3>4 DEF NewTx
  <2>7. "tesSUCCESS" \in Results /\ "tec" \in Results
    BY DEF Results
  <2> QED
    BY <2>1, <2>6, <2>7, Zenon DEF un
<1>3. ASSUME Stray PROVE \E t : NewTx(t) /\ txs' = Append(txs, t)
  <2>1. PICK i \in DOMAIN txs : Put("stranger", "tesSUCCESS", txs[i].memos, FALSE)
    BY <1>3 DEF Stray
  <2>2. txs[i].memos \in Seq(MemoSet) /\ Shape(txs[i].memos)
    <3>1. txs \in Seq(TxOver(MemoSet)) /\ \A j \in 1..Len(txs) : Shape(txs[j].memos)
      BY DEF AttInv, Written
    <3>2. txs[i] \in TxOver(MemoSet) /\ i \in 1..Len(txs)
      BY <3>1
    <3> QED
      BY <3>1, <3>2 DEF TxOver
  <2> DEFINE t == [account |-> "stranger", result |-> "tesSUCCESS", memos |-> txs[i].memos,
                   lgr |-> LedgerOf(Len(txs) + 1), unseen |-> FALSE]
  <2>3. /\ txs' = Append(txs, t) /\ t \in TxOver(MemoSet)
        /\ Shape(t.memos) /\ t.lgr = LedgerOf(Len(txs) + 1)
    <3>1. "stranger" \in Accounts /\ "tesSUCCESS" \in Results /\ FALSE \in BOOLEAN
      BY DEF Accounts, Results
    <3> QED
      BY <2>1, <2>2, <3>1, PutAdds, Zenon
  <2>4. ~Counted(t, Account)
    BY DEF Counted, Account
  <2> HIDE DEF t
  <2> QED
    BY <2>3, <2>4 DEF NewTx
<1>4. ASSUME PostDelegation PROVE \E t : NewTx(t) /\ txs' = Append(txs, t)
  <2>1. PICK q \in Key \cap Range(keyfile), signer \in {"master", "other"} :
           LET by == IF signer = "master" THEN q.vpk ELSE q.pub IN
           Put(Account, "tesSUCCESS",
               <<DelegationMemo(q, Sign(by, DelegationString(q.vpk, Account, q.pub, q.dseq)))>>, FALSE)
    BY <1>4 DEF PostDelegation
  <2> DEFINE by == IF signer = "master" THEN q.vpk ELSE q.pub
             d == DelegationMemo(q, Sign(by, DelegationString(q.vpk, Account, q.pub, q.dseq)))
             t == [account |-> Account, result |-> "tesSUCCESS", memos |-> <<d>>,
                   lgr |-> LedgerOf(Len(txs) + 1), unseen |-> FALSE]
  <2>2. q \in Key /\ by \in Validators \cup AttestKeys
    BY DEF Key
  <2>3. d \in DelegMemos
    <3> HIDE DEF by
    <3> QED
      BY <2>2 DEF DelegMemos
  <2>4. Put(Account, "tesSUCCESS", <<d>>, FALSE)
    BY <2>1, Zenon
  <2>5. d \in MemoSet /\ d.type = "delegation"
    BY <2>3, MemoFacts DEF MemoSet
  <2> HIDE DEF d
  <2>6. <<d>> \in Seq(MemoSet) /\ Shape(<<d>>)
    BY <2>5 DEF Shape
  <2>7. /\ txs' = Append(txs, t) /\ t \in TxOver(MemoSet)
        /\ Shape(t.memos) /\ t.lgr = LedgerOf(Len(txs) + 1)
    <3>1. Account \in Accounts /\ "tesSUCCESS" \in Results /\ FALSE \in BOOLEAN
      BY DEF Accounts, Results
    <3> QED
      BY <2>4, <2>6, <3>1, PutAdds, Zenon
  <2>8. \A j \in 1..Len(t.memos) : t.memos[j].type = "delegation"
    BY <2>5
  <2> HIDE DEF t
  <2> QED
    BY <2>7, <2>8 DEF NewTx
<1>5. CASE \E x \in Hosts : \/ AttestKey(x) \/ MoveAway(x) \/ Drop(x)
                            \/ \E v \in Validators, n \in 1..PlanSeq : SubmitMaster(x, v, n)
                            \/ \E withSig \in BOOLEAN, from \in 1..(MaxDropped + 1) : SubmitDelegated(x, withSig, from)
  BY <1>5, Zenon DEF AttestKey, MoveAway, Drop, SubmitMaster, SubmitDelegated
<1> QED
  BY <1>1, <1>2, <1>3, <1>4, <1>5, Zenon DEF Next

LEMMA OneAndOne ==
    ASSUME NEW y, NEW z
    PROVE  <<y>> \o <<z>> = <<y, z>>
<1> DEFINE S == {y, z}
           o == <<y>> \o <<z>>
<1>1. <<y>> \in Seq(S) /\ <<z>> \in Seq(S) /\ <<y, z>> \in Seq(S)
  OBVIOUS
<1>2. o \in Seq(S) /\ Len(o) = 2 /\ o[1] = y /\ o[2] = z
  BY <1>1, ConcatProperties
<1> HIDE DEF o
<1>3. Len(o) = Len(<<y, z>>) /\ \A i \in 1..Len(o) : o[i] = <<y, z>>[i]
  BY <1>2
<1>4. o = <<y, z>>
  BY <1>1, <1>2, <1>3, SeqEqual
<1> QED
  BY <1>4 DEF o

\* A run that backup lets through carries memos that it has judged.
LEMMA SubmitMakes ==
    ASSUME AttInv, NEW x \in Hosts
    PROVE  /\ \A v \in Validators, n \in 1..PlanSeq : SubmitMaster(x, v, n) =>
                 \E f \in Flight : Judged(txs, f) /\ run' = [run EXCEPT ![x] = <<f>>]
           /\ \A withSig \in BOOLEAN, from \in 1..(MaxDropped + 1) : SubmitDelegated(x, withSig, from) =>
                 \E f \in Flight : Judged(txs, f) /\ run' = [run EXCEPT ![x] = <<f>>]
<1>0. Len(txs) \in Nat /\ PlanSeq \in Nat /\ PlanId(x) \in Hosts \X Nat
  <2>1. Len(txs) \in Nat
    BY DEF AttInv, Written
  <2> QED
    BY <2>1, PlanSeqNat DEF PlanId
<1>1. ASSUME NEW v \in Validators, NEW n \in 1..PlanSeq, SubmitMaster(x, v, n)
      PROVE  \E f \in Flight : Judged(txs, f) /\ run' = [run EXCEPT ![x] = <<f>>]
  <2> DEFINE m == Memo(v, PlanId(x), Sign(v, SignString(v, Account, <<x, n>>)))
             f == [memos |-> <<m>>, read |-> <<1, Len(txs)>>]
  <2>1. Verify(m, Account) /\ run' = [run EXCEPT ![x] = <<[memos |-> AnchorMemos(<<>>, <<m>>), read |-> <<1, Len(txs)>>]>>]
    BY <1>1 DEF SubmitMaster
  <2>2. m.vpk = v /\ m.id = PlanId(x) /\ m.type = "attestation" /\ m.version = 1
    BY DEF Memo
  <2>3. m = Memo(v, PlanId(x), m.sig)
    BY DEF Memo
  <2>4. m.sig = Sign(v, SignString(v, Account, PlanId(x)))
    BY <2>1, <2>2 DEF Verify, VerifyEd25519
  <2>5. m \in MemoSet
    BY <1>0, <2>3, <2>4 DEF MemoSet, MasterMemos
  <2> HIDE DEF m
  <2>6. AnchorMemos(<<>>, <<m>>) = <<m>>
    BY DEF AnchorMemos
  <2>7. f \in Flight
    BY <1>0, <2>5 DEF Flight
  <2>8. f.memos = <<m>> /\ f.read[1] = 1 /\ f.read[2] = Len(txs) /\ Last(f.memos) = m /\ Len(f.memos) = 1
    BY DEF Last
  <2>9. run' = [run EXCEPT ![x] = <<f>>]
    BY <2>1, <2>6
  <2> HIDE DEF f
  <2>10. Judged(txs, f)
    BY <1>0, <2>2, <2>8 DEF Judged, Shape
  <2> QED
    BY <2>7, <2>9, <2>10
<1>2. ASSUME NEW withSig \in BOOLEAN, NEW from \in 1..(MaxDropped + 1), SubmitDelegated(x, withSig, from)
      PROVE  \E f \in Flight : Judged(txs, f) /\ run' = [run EXCEPT ![x] = <<f>>]
  <2> DEFINE q == keyfile[x]
             sig == Sign(q.vpk, DelegationString(q.vpk, Account, q.pub, q.dseq))
             deleg == IF withSig THEN <<DelegationMemo(q, sig)>> ELSE <<>>
             r == DelegatedMemo(q, Account, PlanId(x))
             memos == AnchorMemos(deleg, <<r>>)
             f == [memos |-> memos, read |-> <<from, Len(txs)>>]
  <2>1. q \in Key /\ Acceptable(View(from), memos) /\ run' = [run EXCEPT ![x] = <<f>>]
    BY <1>2 DEF SubmitDelegated
  <2>2. r \in MemoSet /\ r.type = "attestation"
    <3>1. r \in MemoSet
      BY <1>0, <2>1 DEF MemoSet, DelegatedMemos
    <3> QED
      BY <3>1 DEF DelegatedMemo
  <2>3. DelegationMemo(q, sig) \in MemoSet /\ DelegationMemo(q, sig).type = "delegation"
    <3>1. q.vpk \in Validators \cup AttestKeys
      BY <2>1 DEF Key
    <3>2. DelegationMemo(q, sig) \in DelegMemos
      BY <2>1, <3>1 DEF DelegMemos
    <3>3. DelegationMemo(q, sig) \in MemoSet
      BY <3>2 DEF MemoSet
    <3> HIDE DEF sig
    <3> QED
      BY <3>2, <3>3, MemoFacts
  <2> DEFINE d == DelegationMemo(q, sig)
  <2>4. memos = <<d, r>> \/ memos = <<r>>
    <3> HIDE DEF d, r
    <3>1. CASE withSig
      <4>1. deleg = <<d>>
        BY <3>1 DEF d
      <4> HIDE DEF deleg
      <4>2. memos = <<d, r>>
        BY <4>1, OneAndOne DEF AnchorMemos
      <4> QED
        BY <4>2
    <3>2. CASE ~withSig
      <4>1. deleg = <<>>
        BY <3>2
      <4> HIDE DEF deleg
      <4> QED
        BY <4>1 DEF AnchorMemos
    <3> QED
      BY <3>1, <3>2
  <2> HIDE DEF d, r, memos, sig, deleg
  <2>5. memos \in Seq(MemoSet) /\ Shape(memos) /\ Last(memos) = r
    <3>1. d \in MemoSet /\ d.type = "delegation"
      BY <2>3 DEF d
    <3>2. CASE memos = <<d, r>>
      BY <2>2, <3>1, <3>2 DEF Shape, Last
    <3>3. CASE memos = <<r>>
      BY <2>2, <3>3 DEF Shape, Last
    <3> QED
      BY <2>4, <3>2, <3>3
  <2>6. from \in Nat /\ from >= 1
    BY AttestAssumption
  <2>7. f \in Flight
    BY <1>0, <2>5, <2>6 DEF Flight
  <2>8. f.memos = memos /\ f.read[1] = from /\ f.read[2] = Len(txs)
    OBVIOUS
  <2>9. Acceptable(SubSeq(txs, from, Len(txs)), memos)
    BY <2>1 DEF View
  <2> HIDE DEF f
  <2>10. Len(txs) <= Len(txs)
    BY <1>0
  <2>11. Judged(txs, f)
    BY <2>2, <2>5, <2>6, <2>8, <2>9, <2>10, Zenon DEF Judged
  <2> QED
    BY <2>1, <2>7, <2>11
<1> QED
  BY <1>1, <1>2, Zenon

LEMMA AttNext == AttInv /\ [Next]_vars => AttInv'
<1> SUFFICES ASSUME AttInv, [Next]_vars PROVE AttInv'
  OBVIOUS
<1>1. Written(txs') /\ \A f \in Flight : Judged(txs, f) => Judged(txs', f)
  <2>1. Written(txs)
    BY DEF AttInv
  <2>2. CASE txs' = txs
    BY <2>1, <2>2
  <2>3. ASSUME NEW t, NewTx(t), txs' = Append(txs, t)
        PROVE  Written(txs') /\ \A f \in Flight : Judged(txs, f) => Judged(txs', f)
    BY <2>1, <2>3, WrittenAppend DEF NewTx
  <2> QED
    BY <2>2, <2>3, HistoryGrows
<1>2. keyfile' \in [Hosts -> Key \cup {NoKey, Torn}]
  <2>1. keyfile \in [Hosts -> Key \cup {NoKey, Torn}]
    BY DEF AttInv
  <2>2. ASSUME NEW x \in Hosts, AttestKey(x) PROVE keyfile' \in [Hosts -> Key \cup {NoKey, Torn}]
    BY <2>1, <2>2 DEF AttestKey
  <2>3. ASSUME NEW x \in Hosts, MoveAway(x) PROVE keyfile' \in [Hosts -> Key \cup {NoKey, Torn}]
    BY <2>1, <2>3 DEF MoveAway
  <2>4. CASE keyfile' = keyfile
    BY <2>1, <2>4
  <2>5. \/ keyfile' = keyfile
        \/ \E x \in Hosts : AttestKey(x) \/ MoveAway(x)
    BY Zenon DEF Next, vars, Land, Drop, SubmitMaster, SubmitDelegated, Stray, PostDelegation
  <2> QED
    BY <2>2, <2>3, <2>4, <2>5
<1> DEFINE R == {<<>>} \cup {<<f>> : f \in Flight}
<1>3. run \in [Hosts -> R] /\ \A x \in Hosts : run[x] # <<>> => run[x][1] \in Flight /\ Judged(txs, run[x][1])
  BY DEF AttInv
<1>4. \/ run' = run
      \/ \E x \in Hosts : run' = [run EXCEPT ![x] = <<>>]
      \/ \E x \in Hosts, f \in Flight : Judged(txs, f) /\ run' = [run EXCEPT ![x] = <<f>>]
  <2>1. CASE UNCHANGED vars
    BY <2>1 DEF vars
  <2>2. CASE Stray \/ PostDelegation
    BY <2>2 DEF Stray, PostDelegation
  <2>3. ASSUME NEW x \in Hosts, AttestKey(x) \/ MoveAway(x) PROVE run' = run
    BY <2>3 DEF AttestKey, MoveAway
  <2>4. ASSUME NEW x \in Hosts, Land(x) \/ Drop(x) PROVE run' = [run EXCEPT ![x] = <<>>]
    BY <2>4 DEF Land, Drop
  <2>5. ASSUME NEW x \in Hosts,
               \/ \E v \in Validators, n \in 1..PlanSeq : SubmitMaster(x, v, n)
               \/ \E withSig \in BOOLEAN, from \in 1..(MaxDropped + 1) : SubmitDelegated(x, withSig, from)
        PROVE  \E f \in Flight : Judged(txs, f) /\ run' = [run EXCEPT ![x] = <<f>>]
    BY <2>5, SubmitMakes, Zenon
  <2> QED
    BY <2>1, <2>2, <2>3, <2>4, <2>5, Zenon DEF Next
<1>5. run' \in [Hosts -> R] /\ \A x \in Hosts : run'[x] # <<>> => run'[x][1] \in Flight /\ Judged(txs', run'[x][1])
  <2>1. <<>> \in R /\ \A f \in Flight : <<f>> \in R /\ <<f>> # <<>> /\ <<f>>[1] = f
    OBVIOUS
  <2> HIDE DEF R
  <2>2. CASE run' = run
    BY <1>1, <1>3, <2>2
  <2>3. CASE \E x \in Hosts : run' = [run EXCEPT ![x] = <<>>]
    BY <1>1, <1>3, <2>1, <2>3
  <2>4. CASE \E x \in Hosts, f \in Flight : Judged(txs, f) /\ run' = [run EXCEPT ![x] = <<f>>]
    <3>1. PICK y \in Hosts, f \in Flight : Judged(txs, f) /\ run' = [run EXCEPT ![y] = <<f>>]
      BY <2>4
    <3>2. run' \in [Hosts -> R] /\ run'[y] = <<f>> /\ \A x \in Hosts : x # y => run'[x] = run[x]
      BY <1>3, <2>1, <3>1
    <3>3. ASSUME NEW x \in Hosts, run'[x] # <<>> PROVE run'[x][1] \in Flight /\ Judged(txs', run'[x][1])
      <4>1. CASE x = y
        <5>1. run'[x][1] = f
          BY <2>1, <3>2, <4>1
        <5> QED
          BY <1>1, <3>1, <5>1, Zenon
      <4>2. CASE x # y
        <5>1. run'[x] = run[x]
          BY <3>2, <4>2
        <5>2. run[x][1] \in Flight /\ Judged(txs, run[x][1])
          BY <1>3, <3>3, <5>1
        <5> QED
          BY <1>1, <5>1, <5>2, Zenon
      <4> QED
        BY <4>1, <4>2
    <3> QED
      BY <3>2, <3>3
  <2> QED
    BY <1>4, <2>2, <2>3, <2>4
<1> QED
  BY <1>1, <1>2, <1>5 DEF AttInv

-----------------------------------------------------------------------------
(* Verdicts.                                                               *)

LEMMA WrittenRises == ASSUME NEW h, Written(h) PROVE Rising(h)
<1> SUFFICES ASSUME NEW i \in 1..Len(h), NEW j \in 1..Len(h), i <= j PROVE h[i].lgr <= h[j].lgr
  BY DEF Rising
<1>1. h[i].lgr = (i + 1) \div 2 /\ h[j].lgr = (j + 1) \div 2 /\ Len(h) \in Nat
  BY DEF Written, LedgerOf
<1>2. \A a, b \in Nat : a <= b => (a + 1) \div 2 <= (b + 1) \div 2
  OBVIOUS
<1> QED
  BY <1>1, <1>2

\* The places the properties speak of are all the places there are.
LEMMA PlacesAre ==
    ASSUME AttInv
    PROVE  /\ Places(txs) = Spots(txs)
           /\ Attested = AttSpots(txs)
           /\ \A y : Delegated(y) = {d \in DelSpots(txs) : At(txs, d).vpk = y}
           /\ \A s : MemoAt(s) = At(txs, s)
<1>1. Written(txs)
  BY DEF AttInv
<1>2. Places(txs) = Spots(txs)
  <2>1. ASSUME NEW i \in 1..Len(txs) PROVE Len(txs[i].memos) \in 1..2
    BY <1>1 DEF Written, Shape
  <2>2. ASSUME NEW s \in Places(txs) PROVE s \in Spots(txs)
    <3>1. s \in (1..Len(txs)) \X (1..2) /\ Counted(txs[s[1]], Account) /\ s[2] <= Len(txs[s[1]].memos)
      BY DEF Places
    <3>2. s[1] \in 1..Len(txs) /\ s[2] \in 1..2 /\ s \in (1..Len(txs)) \X Nat
      BY <3>1
    <3>3. s[2] \in 1..Len(txs[s[1]].memos)
      BY <2>1, <3>1, <3>2
    <3> QED
      BY <3>1, <3>2, <3>3 DEF Spots
  <2>3. ASSUME NEW s \in Spots(txs) PROVE s \in Places(txs)
    <3>1. s \in (1..Len(txs)) \X Nat /\ Counted(txs[s[1]], Account) /\ s[2] \in 1..Len(txs[s[1]].memos)
      BY DEF Spots
    <3>2. s[1] \in 1..Len(txs)
      BY <3>1
    <3>3. s[2] \in 1..2 /\ s[2] <= Len(txs[s[1]].memos)
      <4> DEFINE n == Len(txs[s[1]].memos)
      <4>1. n \in 1..2
        BY <2>1, <3>2
      <4>2. s[2] \in 1..n
        BY <3>1
      <4> HIDE DEF n
      <4>3. s[2] \in 1..2 /\ s[2] <= n
        BY <4>1, <4>2
      <4> QED
        BY <4>3 DEF n
    <3>4. s \in (1..Len(txs)) \X (1..2)
      BY <3>1, <3>2, <3>3
    <3> QED
      BY <3>1, <3>3, <3>4 DEF Places
  <2> QED
    BY <2>2, <2>3
<1>3. \A s : MemoAt(s) = At(txs, s)
  BY DEF MemoAt, At
<1> QED
  BY <1>2, <1>3, Zenon DEF Attested, Delegated, AttSpots, DelSpots

\* What a last attestation that reads as valid rests on.
LEMMA ValidMeans ==
    ASSUME NEW h \in Seq(TxOver(MemoSet)), Rising(h), NEW s, LastAtt(h, s)
    PROVE  LET r == At(h, s) IN
           /\ r.version \in {1, 2}
           /\ r.version = 1 => Evaluate(h, Account).status = "valid"
           /\ r.version = 2 => (Evaluate(h, Account).status = "valid" <=>
                                   ~Retired(h, s) /\ Signs(h, s))
           /\ r.version = 2 /\ ~Retired(h, s) /\ Same(h, s) = {} =>
                 Evaluate(h, Account).reason = "no delegation"
           /\ Evaluate(h, Account).status \in {"valid", "invalid"}
<1> DEFINE r == At(h, s)
           E == Evaluate(h, Account)
<1>1. r \in MemoSet /\ r.type = "attestation"
  BY SpotMemo DEF LastAtt, AttSpots
<1>2. r.version \in {1, 2} /\ (r.version = 1 => Verify(r, Account))
  BY <1>1, MemoFacts
<1>3. /\ r.version = 1 => E = IF Verify(r, Account) THEN Valid(r) ELSE Invalid(r, "bad signature")
      /\ r.version = 2 => E =
            IF Retired(h, s) THEN Invalid(r, "replaced")
            ELSE IF Same(h, s) = {} THEN Invalid(r, "no delegation")
            ELSE IF Signs(h, s) THEN Valid(r) ELSE Invalid(r, "bad signature")
  BY EvaluateIs, Zenon
<1>4. /\ Valid(r).status = "valid"
      /\ \A y : Invalid(r, y).status = "invalid" /\ Invalid(r, y).reason = y
  BY DEF Valid, Invalid
<1>5. Signs(h, s) => Same(h, s) # {}
  BY DEF Signs
<1> DEFINE A == Retired(h, s)
           B == Same(h, s) = {}
           C == Signs(h, s)
<1>6. r.version = 2 => E = IF A THEN Invalid(r, "replaced")
                           ELSE IF B THEN Invalid(r, "no delegation")
                           ELSE IF C THEN Valid(r) ELSE Invalid(r, "bad signature")
  BY <1>3, Zenon
<1>7. C => ~B
  BY <1>5
<1>8. r.version = 1 => E = Valid(r)
  BY <1>2, <1>3, Zenon
<1> HIDE DEF A, B, C, E, r
<1>9. CASE r.version = 1
  <2>1. E = Valid(r) /\ r.version # 2
    BY <1>8, <1>9
  <2> QED
    BY <1>2, <1>4, <1>9, <2>1, Zenon DEF E, r
<1>10. CASE r.version = 2
  <2>0. r.version # 1
    BY <1>10
  <2>1. CASE A
    <3>1. E = Invalid(r, "replaced")
      BY <1>6, <1>10, <2>1, Zenon
    <3>2. E.status = "invalid" /\ E.status # "valid"
      BY <1>4, <3>1
    <3> QED
      BY <1>2, <2>0, <2>1, <3>2, Zenon DEF E, r, A
  <2>2. CASE ~A /\ B
    <3>1. E = Invalid(r, "no delegation")
      BY <1>6, <1>10, <2>2, Zenon
    <3>2. E.status = "invalid" /\ E.status # "valid" /\ E.reason = "no delegation"
      BY <1>4, <3>1
    <3> QED
      BY <1>2, <1>7, <2>0, <2>2, <3>2, Zenon DEF E, r, A, B, C
  <2>3. CASE ~A /\ ~B /\ C
    <3>1. E = Valid(r)
      BY <1>6, <1>10, <2>3, Zenon
    <3>2. E.status = "valid"
      BY <1>4, <3>1
    <3> QED
      BY <1>2, <2>0, <2>3, <3>2, Zenon DEF E, r, A, B, C
  <2>4. CASE ~A /\ ~B /\ ~C
    <3>1. E = Invalid(r, "bad signature")
      BY <1>6, <1>10, <2>4, Zenon
    <3>2. E.status = "invalid" /\ E.status # "valid"
      BY <1>4, <3>1
    <3> QED
      BY <1>2, <2>0, <2>4, <3>2, Zenon DEF E, r, A, B, C
  <2> QED
    BY <2>1, <2>2, <2>3, <2>4
<1> QED
  BY <1>2, <1>9, <1>10 DEF r

\* AttestVerify says 0 of what Evaluate calls valid.
LEMMA VerifyZero == AttestVerify(txs, {}) = 0 <=>
                      Evaluate(txs, Account).status \notin {"none", "invalid"}
<1> DEFINE E == Evaluate(txs, Account)
           z == CASE E.status = "none" -> 3 [] E.status = "invalid" -> 4
                  [] OTHER -> IF {} # {} /\ E.att[1].vpk \notin {} THEN 4 ELSE 0
<1>1. AttestVerify(txs, {}) = z
  BY DEF AttestVerify
<1> HIDE DEF E
<1>2. E.status = "none" => z = 3
  OBVIOUS
<1>3. E.status = "invalid" => z = 4
  OBVIOUS
<1>4. E.status \notin {"none", "invalid"} => z = 0
  OBVIOUS
<1> HIDE DEF z
<1> QED
  BY <1>1, <1>2, <1>3, <1>4 DEF E

\* The verdict of a delegated attestation in the words of VouchedFor.
LEMMA BackedBy ==
    ASSUME NEW h \in Seq(TxOver(MemoSet)), NEW s, LastAtt(h, s), At(h, s).version = 2
    PROVE  LET r == At(h, s)
               ds == {d \in DelSpots(h) : At(h, d).vpk = r.vpk}
           IN ~Retired(h, s) /\ Signs(h, s) <=>
                \E d \in ds :
                   /\ Before(d, s) /\ At(h, d).dseq = r.dseq
                   /\ r.sig.by = At(h, d).pub
                   /\ \A e \in ds : Before(e, s) =>
                         At(h, e).dseq < r.dseq \/ (At(h, e).dseq = r.dseq /\ ~Before(d, e))
<1> DEFINE r == At(h, s)
           ds == {d \in DelSpots(h) : At(h, d).vpk = r.vpk}
<1>1. r \in MemoSet /\ r.type = "attestation"
  BY SpotMemo DEF LastAtt, AttSpots
<1>2. r.dseq \in Nat /\ \A pub : SignedUnder(pub, r) <=> r.sig.by = pub
  BY <1>1, MemoFacts
<1>3. \A d \in ds : At(h, d).dseq \in Nat /\ d \in Nat \X Nat
  BY SpotMemo, MemoFacts DEF DelSpots
<1>4. \A d : d \in Mine(h, s) <=> d \in ds /\ Before(d, s)
  BY DEF Mine
<1>5. \A d : d \in Same(h, s) <=> d \in ds /\ Before(d, s) /\ At(h, d).dseq = r.dseq
  BY <1>4 DEF Same
<1> HIDE DEF r, ds
<1>6. ASSUME ~Retired(h, s), Signs(h, s)
      PROVE  \E d \in ds :
                   /\ Before(d, s) /\ At(h, d).dseq = r.dseq
                   /\ r.sig.by = At(h, d).pub
                   /\ \A e \in ds : Before(e, s) =>
                         At(h, e).dseq < r.dseq \/ (At(h, e).dseq = r.dseq /\ ~Before(d, e))
  <2>1. PICK d \in Same(h, s) : (\A e \in Same(h, s) : e = d \/ Before(e, d)) /\ SignedUnder(At(h, d).pub, r)
    BY <1>6 DEF Signs, r
  <2>2. d \in ds /\ Before(d, s) /\ At(h, d).dseq = r.dseq /\ r.sig.by = At(h, d).pub
    BY <1>2, <1>5, <2>1
  <2>3. ASSUME NEW e \in ds, Before(e, s)
        PROVE  At(h, e).dseq < r.dseq \/ (At(h, e).dseq = r.dseq /\ ~Before(d, e))
    <3>1. ~(At(h, e).dseq > r.dseq)
      BY <1>4, <1>6, <2>3 DEF Retired, r
    <3>2. At(h, e).dseq < r.dseq \/ At(h, e).dseq = r.dseq
      BY <1>2, <1>3, <3>1
    <3>3. ASSUME At(h, e).dseq = r.dseq PROVE ~Before(d, e)
      <4>1. e = d \/ Before(e, d)
        BY <1>5, <2>1, <2>3, <3>3
      <4>2. d \in Nat \X Nat /\ e \in Nat \X Nat
        BY <1>3, <2>2
      <4>3. ~Before(d, d) /\ ~(Before(d, e) /\ Before(e, d))
        BY <4>2, BeforeIs
      <4> QED
        BY <4>1, <4>3, Zenon
    <3> QED
      BY <3>2, <3>3
  <2> QED
    BY <2>2, <2>3
<1>7. ASSUME NEW d \in ds, Before(d, s), At(h, d).dseq = r.dseq, r.sig.by = At(h, d).pub,
             \A e \in ds : Before(e, s) =>
                At(h, e).dseq < r.dseq \/ (At(h, e).dseq = r.dseq /\ ~Before(d, e))
      PROVE  ~Retired(h, s) /\ Signs(h, s)
  <2>1. d \in Same(h, s) /\ SignedUnder(At(h, d).pub, r)
    BY <1>2, <1>5, <1>7
  <2>2. ASSUME NEW e \in Mine(h, s) PROVE ~(At(h, e).dseq > r.dseq)
    <3>1. e \in ds /\ Before(e, s)
      BY <1>4
    <3>2. At(h, e).dseq < r.dseq \/ At(h, e).dseq = r.dseq
      BY <1>7, <3>1
    <3> QED
      BY <1>2, <1>3, <3>1, <3>2
  <2>3. ASSUME NEW e \in Same(h, s) PROVE e = d \/ Before(e, d)
    <3>1. e \in ds /\ Before(e, s) /\ At(h, e).dseq = r.dseq
      BY <1>5
    <3>2. ~(At(h, e).dseq < r.dseq)
      BY <1>2, <3>1
    <3>3. ~Before(d, e)
      BY <1>7, <3>1, <3>2
    <3>4. d \in Nat \X Nat /\ e \in Nat \X Nat
      BY <1>3, <3>1
    <3> QED
      BY <3>3, <3>4, BeforeIs
  <2> QED
    BY <2>1, <2>2, <2>3, Zenon DEF Retired, Signs, r
<1> QED
  BY <1>6, <1>7 DEF r, ds

LEMMA VouchedForHolds == AttInv => VouchedFor
<1> SUFFICES ASSUME AttInv PROVE VouchedFor
  OBVIOUS
<1>1. txs \in Seq(TxOver(MemoSet)) /\ Rising(txs)
  BY WrittenRises DEF AttInv, Written
<1> DEFINE Backed(p) ==
             LET r == MemoAt(p) IN
             /\ \A q \in Attested : q = p \/ Before(q, p)
             /\ \/ r.version = 1 /\ r.sig = Sign(r.vpk, SignString(r.vpk, Account, r.id))
                \/ \E d \in Delegated(r.vpk) :
                      /\ Before(d, p) /\ MemoAt(d).dseq = r.dseq
                      /\ r.sig.by = MemoAt(d).pub
                      /\ \A e \in Delegated(r.vpk) : Before(e, p) =>
                            MemoAt(e).dseq < r.dseq \/ (MemoAt(e).dseq = r.dseq /\ ~Before(d, e))
           good == Evaluate(txs, Account).status = "valid"
<1>2. VouchedFor <=> (AttestVerify(txs, {}) = 0 <=> \E p \in Attested : Backed(p))
  BY DEF VouchedFor
<1>3. CASE AttSpots(txs) = {}
  <2>1. Evaluate(txs, Account) = None
    BY <1>1, <1>3, EvaluateIs
  <2>2. Evaluate(txs, Account).status = "none"
    <3>1. None.status = "none"
      BY DEF None
    <3> QED
      BY <2>1, <3>1, Zenon
  <2>3. Attested = {}
    BY <1>3, PlacesAre
  <2> HIDE DEF Backed
  <2> QED
    BY <1>2, <2>2, <2>3, VerifyZero
<1>4. ASSUME NEW s, LastAtt(txs, s) PROVE VouchedFor
  <2> DEFINE r == At(txs, s)
             ds == {d \in DelSpots(txs) : At(txs, d).vpk = r.vpk}
  <2>1. s \in AttSpots(txs) /\ (\A q \in AttSpots(txs) : q = s \/ Before(q, s)) /\ r \in MemoSet /\ r.type = "attestation"
    BY <1>1, <1>4, SpotMemo DEF LastAtt, AttSpots
  <2>2. /\ r.version \in {1, 2}
        /\ r.version = 1 => good
        /\ r.version = 2 => (good <=> ~Retired(txs, s) /\ Signs(txs, s))
        /\ Evaluate(txs, Account).status \in {"valid", "invalid"}
    BY <1>1, <1>4, ValidMeans, Zenon
  <2>3. Attested = AttSpots(txs) /\ Delegated(r.vpk) = ds /\ \A p : MemoAt(p) = At(txs, p)
    BY PlacesAre, Zenon
  <2>4. ASSUME NEW p \in Attested, Backed(p) PROVE p = s
    <3>1. \A q \in AttSpots(txs) : q = p \/ Before(q, p)
      BY <2>3, <2>4
    <3>2. p \in AttSpots(txs)
      BY <2>3
    <3>3. p \in Nat \X Nat /\ s \in Nat \X Nat
      BY <1>1, <2>1, <3>2, SpotMemo DEF AttSpots
    <3>4. ~(Before(p, s) /\ Before(s, p))
      BY <3>3, BeforeIs
    <3> QED
      BY <2>1, <3>1, <3>2, <3>4, Zenon
  <2>5. r.version = 1 => r.sig = Sign(r.vpk, SignString(r.vpk, Account, r.id))
    BY <2>1, MemoFacts
  <2> DEFINE Rest == \E d \in ds :
                       /\ Before(d, s) /\ At(txs, d).dseq = r.dseq
                       /\ r.sig.by = At(txs, d).pub
                       /\ \A e \in ds : Before(e, s) =>
                             At(txs, e).dseq < r.dseq \/ (At(txs, e).dseq = r.dseq /\ ~Before(d, e))
  <2>6. Backed(s) <=> \/ r.version = 1 /\ r.sig = Sign(r.vpk, SignString(r.vpk, Account, r.id))
                      \/ Rest
    <3>1. MemoAt(s) = r
      BY <2>3
    <3> HIDE DEF r, ds
    <3> QED
      BY <2>1, <2>3, <3>1, Zenon
  <2>7. r.version = 2 => (~Retired(txs, s) /\ Signs(txs, s) <=> Rest)
    BY <1>1, <1>4, BackedBy, Zenon
  <2>8. AttestVerify(txs, {}) = 0 <=> good
    BY <2>2, VerifyZero
  <2> HIDE DEF Rest, Backed, good, r
  <2>9. good <=> Backed(s)
    <3>1. CASE r.version = 1
      BY <2>2, <2>5, <2>6, <3>1, Zenon
    <3>2. CASE r.version = 2
      <4>1. r.version # 1
        BY <3>2
      <4> QED
        BY <2>2, <2>6, <2>7, <3>2, <4>1, Zenon
    <3> QED
      BY <2>2, <3>1, <3>2
  <2>10. s \in Attested
    BY <2>1, <2>3
  <2> QED
    BY <1>2, <2>4, <2>8, <2>9, <2>10, Zenon
<1> QED
  BY <1>1, <1>3, <1>4, EvaluateIs, Zenon

-----------------------------------------------------------------------------
(* A part of the history, and a history that has grown.                    *)

\* Transaction i of v carries the memos of transaction ix[i] of h.
Carries(v, h, ix) ==
    /\ \A i \in 1..Len(v) :
          /\ ix[i] \in 1..Len(h) /\ v[i].memos = h[ix[i]].memos
          /\ Counted(v[i], Account) <=> Counted(h[ix[i]], Account)
    /\ \A i, j \in 1..Len(v) : i < j => ix[i] < ix[j]
Over(v, ix) == [s \in Spots(v) |-> <<ix[s[1]], s[2]>>]

LEMMA IndexEmbeds ==
    ASSUME NEW X, NEW v \in Seq(TxOver(X)), NEW h \in Seq(TxOver(X)), NEW ix, Carries(v, h, ix)
    PROVE  LET to == Over(v, ix) IN
           /\ Embeds(v, h, to)
           /\ \A d \in Spots(h) : (\E i \in 1..Len(v) : ix[i] = d[1]) => \E e \in Spots(v) : to[e] = d
<1> DEFINE to == [s \in Spots(v) |-> <<ix[s[1]], s[2]>>]
<1>0. Len(v) \in Nat /\ Len(h) \in Nat
  OBVIOUS
<1> USE DEF Carries
<1>1. ASSUME NEW s \in Spots(v)
      PROVE  /\ s[1] \in 1..Len(v) /\ s[2] \in Nat /\ to[s][1] = ix[s[1]] /\ to[s][2] = s[2]
             /\ to[s] \in Spots(h) /\ At(h, to[s]) = At(v, s)
  <2>1. s \in (1..Len(v)) \X Nat /\ Counted(v[s[1]], Account) /\ s[2] \in 1..Len(v[s[1]].memos)
    BY DEF Spots
  <2> DEFINE i == s[1]
             j == s[2]
  <2>2. i \in 1..Len(v) /\ j \in Nat
    BY <2>1
  <2>3. to[s] = <<ix[i], j>>
    OBVIOUS
  <2> HIDE DEF i, j, to
  <2>4. ix[i] \in 1..Len(h) /\ v[i].memos = h[ix[i]].memos /\ (Counted(v[i], Account) <=> Counted(h[ix[i]], Account))
    BY <2>2
  <2>5. to[s] \in (1..Len(h)) \X Nat /\ to[s][1] = ix[i] /\ to[s][2] = j
    BY <2>2, <2>3, <2>4
  <2>6. Counted(v[i], Account) /\ j \in 1..Len(v[i].memos)
    BY <2>1 DEF i, j
  <2>7. to[s] \in Spots(h)
    BY <2>4, <2>5, <2>6 DEF Spots
  <2>8. At(h, to[s]) = At(v, s)
    BY <2>4, <2>5 DEF At, i, j
  <2> QED
    BY <2>2, <2>5, <2>7, <2>8 DEF i, j
<1>2. to \in [Spots(v) -> Spots(h)]
  BY <1>1
<1>3. ASSUME NEW i \in 1..Len(v), NEW j \in 1..Len(v)
      PROVE  (i < j <=> ix[i] < ix[j]) /\ (i = j <=> ix[i] = ix[j])
  <2>1. ix[i] \in Nat /\ ix[j] \in Nat /\ i \in Nat /\ j \in Nat
    BY <1>0
  <2>2. (i < j => ix[i] < ix[j]) /\ (j < i => ix[j] < ix[i]) /\ (i = j => ix[i] = ix[j])
    OBVIOUS
  <2> QED
    BY <2>1, <2>2
<1>4. ASSUME NEW s \in Spots(v), NEW e \in Spots(v) PROVE Before(s, e) <=> Before(to[s], to[e])
  <2>1. /\ to[s][1] = ix[s[1]] /\ to[s][2] = s[2] /\ s[1] \in 1..Len(v)
        /\ to[e][1] = ix[e[1]] /\ to[e][2] = e[2] /\ e[1] \in 1..Len(v)
    BY <1>1
  <2>2. (s[1] < e[1] <=> to[s][1] < to[e][1]) /\ (s[1] = e[1] <=> to[s][1] = to[e][1])
    BY <1>3, <2>1
  <2> HIDE DEF to
  <2> QED
    BY <2>1, <2>2, Zenon DEF Before
<1>5. ASSUME NEW d \in Spots(h), NEW i \in 1..Len(v), ix[i] = d[1] PROVE \E e \in Spots(v) : to[e] = d
  <2>1. d \in (1..Len(h)) \X Nat /\ Counted(h[d[1]], Account) /\ d[2] \in 1..Len(h[d[1]].memos)
    BY DEF Spots
  <2> DEFINE e == <<i, d[2]>>
  <2>2. e[1] = i /\ e[2] = d[2] /\ e \in (1..Len(v)) \X Nat /\ d = <<d[1], d[2]>>
    BY <2>1
  <2> HIDE DEF e
  <2>3. Counted(v[i], Account) /\ v[i].memos = h[d[1]].memos
    BY <1>5, <2>1
  <2>4. e \in Spots(v)
    BY <2>1, <2>2, <2>3 DEF Spots
  <2>5. to[e] = d
    BY <1>5, <2>2, <2>4
  <2> QED
    BY <2>4, <2>5
<1> HIDE DEF to
<1>6. Embeds(v, h, to)
  BY <1>1, <1>2, <1>4 DEF Embeds
<1> QED
  BY <1>5, <1>6 DEF to, Over

\* v is h from its transaction f on.
From(v, h, f) ==
    /\ f \in Nat /\ f >= 1 /\ Len(v) + f = Len(h) + 1
    /\ \A i \in 1..Len(v) : v[i] = h[i + f - 1]

LEMMA FromEmbeds ==
    ASSUME NEW X, NEW v \in Seq(TxOver(X)), NEW h \in Seq(TxOver(X)), NEW f, From(v, h, f)
    PROVE  \E to : /\ Embeds(v, h, to)
                   /\ \A s \in Spots(h) : s[1] >= f => \E e \in Spots(v) : to[e] = s
                   /\ \A s \in Spots(v) : to[s][1] >= f
<1> DEFINE ix == [i \in 1..Len(v) |-> i + f - 1]
           to == Over(v, ix)
<1>1. f \in Nat /\ f >= 1 /\ Len(v) \in Nat /\ Len(h) \in Nat /\ Len(v) + f = Len(h) + 1
  BY DEF From
<1>2. \A i \in 1..Len(v) : v[i] = h[ix[i]] /\ ix[i] \in 1..Len(h) /\ ix[i] >= f
  BY <1>1 DEF From
<1>3. \A i, j \in 1..Len(v) : i < j => ix[i] < ix[j]
  BY <1>1
<1>4. ASSUME NEW s \in Spots(h), s[1] >= f PROVE \E i \in 1..Len(v) : ix[i] = s[1]
  <2>1. s[1] \in 1..Len(h)
    BY DEF Spots
  <2>2. s[1] - f + 1 \in 1..Len(v) /\ (s[1] - f + 1) + f - 1 = s[1]
    BY <1>1, <1>4, <2>1
  <2>3. ix[s[1] - f + 1] = s[1]
    BY <2>2
  <2> QED
    BY <2>2, <2>3
<1> HIDE DEF ix
<1>5. Carries(v, h, ix)
  BY <1>2, <1>3 DEF Carries
<1>6. /\ Embeds(v, h, to)
      /\ \A d \in Spots(h) : (\E i \in 1..Len(v) : ix[i] = d[1]) => \E e \in Spots(v) : to[e] = d
  BY <1>5, IndexEmbeds
<1>7. ASSUME NEW s \in Spots(v) PROVE to[s][1] >= f
  <2>1. s[1] \in 1..Len(v)
    BY DEF Spots
  <2>2. to[s][1] = ix[s[1]]
    BY DEF Over
  <2> QED
    BY <1>2, <2>1, <2>2
<1> HIDE DEF to
<1> QED
  BY <1>4, <1>6, <1>7

\* What one more transaction without an attestation, or after s, leaves.
LEMMA GrowsEmbeds ==
    ASSUME NEW X, NEW h \in Seq(TxOver(X)), NEW t \in TxOver(X)
    PROVE  LET to == [s \in Spots(h) |-> s] IN
           /\ Embeds(h, Append(h, t), to)
           /\ \A s \in Spots(h) : Covers(h, Append(h, t), to, s)
<1> DEFINE to == [s \in Spots(h) |-> s]
           a == Append(h, t)
<1>1. \A s \in Spots(h) : s \in Spots(a) /\ s[1] \in 1..Len(h) /\ At(a, s) = At(h, s) /\ to[s] = s
  BY SpotsAppend
<1>2. \A s \in Spots(a) : s \in Spots(h) \/ \E j \in 1..Len(Block(t)) : s = <<Len(h) + 1, j>>
  BY SpotsAppend
<1>3. to \in [Spots(h) -> Spots(a)]
  BY <1>1
<1> HIDE DEF to, a
<1>4. Embeds(h, a, to)
  BY <1>1, <1>3, Zenon DEF Embeds
<1>5. ASSUME NEW s \in Spots(h), NEW d \in Mine(a, to[s]) PROVE \E e \in Spots(h) : to[e] = d
  <2>1. d \in Spots(a) /\ Before(d, s)
    BY <1>1 DEF Mine, DelSpots
  <2>2. d \in Spots(h)
    <3>1. Len(h) \in Nat /\ s[1] \in 1..Len(h)
      BY <1>1
    <3>2. ASSUME NEW j, d = <<Len(h) + 1, j>> PROVE FALSE
      <4>1. d[1] = Len(h) + 1
        BY <3>2
      <4>2. ~(d[1] < s[1]) /\ d[1] # s[1]
        BY <3>1, <4>1
      <4> QED
        BY <2>1, <4>2 DEF Before
    <3> QED
      BY <1>2, <2>1, <3>2
  <2> QED
    BY <1>1, <2>2
<1>6. \A s \in Spots(h) : Covers(h, a, to, s)
  BY <1>5, Zenon DEF Covers
<1> QED
  BY <1>4, <1>6 DEF to, a

LEMMA EmbedRetired ==
    ASSUME NEW v, NEW h, NEW to, Embeds(v, h, to), NEW s \in Spots(v), Retired(v, s)
    PROVE  Retired(h, to[s])
<1>1. /\ to \in [Spots(v) -> Spots(h)]
      /\ \A e \in Spots(v) : At(h, to[e]) = At(v, e)
      /\ \A d, e \in Spots(v) : Before(d, e) <=> Before(to[d], to[e])
  BY DEF Embeds
<1>2. PICK e \in Mine(v, s) : At(v, e).dseq > At(v, s).dseq
  BY DEF Retired
<1>3. e \in Spots(v) /\ e \in DelSpots(v) /\ At(v, e).vpk = At(v, s).vpk /\ Before(e, s)
  BY DEF Mine, DelSpots
<1>4. to[e] \in DelSpots(h)
  BY <1>1, <1>3 DEF DelSpots
<1>5. to[e] \in Mine(h, to[s])
  BY <1>1, <1>3, <1>4, Zenon DEF Mine
<1> QED
  BY <1>1, <1>2, <1>3, <1>5, Zenon DEF Retired

LEMMA FromRises ==
    ASSUME NEW X, NEW v \in Seq(TxOver(X)), NEW h \in Seq(TxOver(X)), Rising(h), NEW f, From(v, h, f)
    PROVE  Rising(v)
<1> SUFFICES ASSUME NEW i \in 1..Len(v), NEW j \in 1..Len(v), i <= j PROVE v[i].lgr <= v[j].lgr
  BY DEF Rising
<1>1. f \in Nat /\ f >= 1 /\ Len(v) \in Nat /\ Len(h) \in Nat /\ Len(v) + f = Len(h) + 1
  BY DEF From
<1>2. v[i] = h[i + f - 1] /\ v[j] = h[j + f - 1]
  BY DEF From
<1>3. i + f - 1 \in 1..Len(h) /\ j + f - 1 \in 1..Len(h) /\ i + f - 1 <= j + f - 1
  BY <1>1
<1> QED
  BY <1>2, <1>3 DEF Rising

LEMMA PartExplained ==
    ASSUME NEW v \in Seq(TxOver(MemoSet)), NEW h \in Seq(TxOver(MemoSet)), Rising(h), NEW f, From(v, h, f),
           Evaluate(h, Account).status = "valid", Evaluate(v, Account).status = "invalid"
    PROVE  Evaluate(v, Account).reason = "no delegation"
<1>1. Rising(v)
  BY FromRises
<1>2. PICK to : /\ Embeds(v, h, to)
                /\ \A s \in Spots(h) : s[1] >= f => \E e \in Spots(v) : to[e] = s
                /\ \A s \in Spots(v) : to[s][1] >= f
  BY FromEmbeds
<1>3. AttSpots(v) # {}
  <2>1. SUFFICES ASSUME AttSpots(v) = {} PROVE FALSE
    OBVIOUS
  <2>2. Evaluate(v, Account) = None
    BY <1>1, <2>1, EvaluateIs
  <2>3. None.status = "none"
    BY DEF None
  <2> QED
    BY <2>2, <2>3
<1>4. PICK s : LastAtt(v, s)
  BY <1>1, <1>3, EvaluateIs
<1> DEFINE w == to[s]
           r == At(v, s)
<1>5. /\ to \in [Spots(v) -> Spots(h)]
      /\ \A e \in Spots(v) : At(h, to[e]) = At(v, e)
      /\ \A d, e \in Spots(v) : Before(d, e) <=> Before(to[d], to[e])
  BY <1>2 DEF Embeds
<1>6. s \in Spots(v) /\ s \in AttSpots(v) /\ r.type = "attestation" /\ w \in Spots(h) /\ At(h, w) = r
  BY <1>4, <1>5 DEF LastAtt, AttSpots
<1>7. f \in Nat /\ f >= 1
  BY DEF From
<1>8. \A d \in Spots(h) : d \in Nat \X Nat /\ d[1] \in Nat
  BY SpotMemo
<1>9. ASSUME NEW d \in Spots(h), NEW e \in Spots(v), ~(d[1] >= f) PROVE Before(d, to[e])
  <2>1. d[1] \in Nat /\ to[e][1] \in Nat /\ to[e][1] >= f
    BY <1>2, <1>5, <1>8
  <2>2. d[1] < to[e][1]
    BY <1>7, <1>9, <2>1
  <2> QED
    BY <2>2 DEF Before
<1>10. LastAtt(h, w)
  <2>1. w \in AttSpots(h)
    BY <1>6 DEF AttSpots
  <2>2. ASSUME NEW q \in AttSpots(h) PROVE q = w \/ Before(q, w)
    <3>1. q \in Spots(h) /\ At(h, q).type = "attestation"
      BY DEF AttSpots
    <3>2. CASE q[1] >= f
      <4>1. PICK e \in Spots(v) : to[e] = q
        BY <1>2, <3>1, <3>2
      <4>2. e \in AttSpots(v)
        BY <1>5, <3>1, <4>1 DEF AttSpots
      <4>3. e = s \/ Before(e, s)
        BY <1>4, <4>2 DEF LastAtt
      <4> QED
        BY <1>5, <1>6, <4>1, <4>3, Zenon
    <3>3. CASE ~(q[1] >= f)
      BY <1>6, <1>9, <3>1, <3>3
    <3> QED
      BY <3>2, <3>3
  <2> QED
    BY <2>1, <2>2 DEF LastAtt
<1>11. /\ r.version \in {1, 2}
       /\ r.version = 1 => Evaluate(v, Account).status = "valid"
       /\ r.version = 2 /\ ~Retired(v, s) /\ Same(v, s) = {} => Evaluate(v, Account).reason = "no delegation"
  BY <1>1, <1>4, ValidMeans, Zenon
<1>12. r.version = 2
  BY <1>11
<1>13. ~Retired(h, w)
  <2> DEFINE o == At(h, w)
  <2>1. o.version = 2 => (Evaluate(h, Account).status = "valid" <=> ~Retired(h, w) /\ Signs(h, w))
    BY <1>10, ValidMeans, Zenon
  <2> QED
    BY <1>6, <1>12, <2>1
<1>14. ~Retired(v, s)
  BY <1>2, <1>6, <1>13, EmbedRetired
<1>15. CASE Same(v, s) = {}
  BY <1>11, <1>12, <1>14, <1>15, Zenon
<1>16. CASE Same(v, s) # {}
  <2>1. PICK x \in Same(v, s) : TRUE
    BY <1>16
  <2>2. x \in Spots(v)
    BY DEF Same, Mine, DelSpots
  <2>3. r.dseq \in Nat
    BY <1>6, SpotMemo, MemoFacts
  <2>4. ASSUME NEW d \in Mine(h, w), At(h, d).dseq >= r.dseq
        PROVE  (\E e \in Spots(v) : to[e] = d) \/ (At(h, d).dseq = r.dseq /\ \E e \in Same(v, s) : Before(d, to[e]))
    <3>1. d \in Spots(h) /\ At(h, d).dseq \in Nat
      BY SpotMemo, MemoFacts DEF Mine, DelSpots
    <3>2. ~(At(h, d).dseq > r.dseq)
      BY <1>6, <1>13 DEF Retired
    <3>3. At(h, d).dseq = r.dseq
      BY <2>3, <2>4, <3>1, <3>2
    <3>4. CASE d[1] >= f
      BY <1>2, <3>1, <3>4
    <3>5. CASE ~(d[1] >= f)
      BY <1>9, <2>2, <3>1, <3>3, <3>5
    <3> QED
      BY <3>4, <3>5
  <2>5. Covers(v, h, to, s)
    BY <2>4, Zenon DEF Covers
  <2>6. Evaluate(v, Account) = Evaluate(h, Account)
    BY <1>1, <1>2, <1>4, <1>10, <2>5, EmbedVerdict
  <2> QED
    BY <2>6
<1> QED
  BY <1>15, <1>16

LEMMA PrunedHolds == AttInv => PrunedExplained
<1> SUFFICES ASSUME AttInv, Evaluate(txs, Account).status = "valid",
                    NEW view \in {View(from) : from \in 1..(Len(txs) + 1)} \cup {<<txs[i]>> : i \in DOMAIN txs},
                    view # <<>>, Last(view) = Last(txs), Evaluate(view, Account).status = "invalid"
             PROVE  Evaluate(view, Account).reason = "no delegation"
  BY Zenon DEF PrunedExplained
<1>1. txs \in Seq(TxOver(MemoSet)) /\ Rising(txs)
  BY WrittenRises DEF AttInv, Written
<1> DEFINE N == Len(txs)
<1>2. N \in Nat /\ DOMAIN txs = 1..N /\ \A i \in 1..N : txs[i] \in TxOver(MemoSet)
  BY <1>1
<1>3. ASSUME NEW from \in 1..(N + 1), view = View(from)
      PROVE  \E f : From(view, txs, f) /\ view \in Seq(TxOver(MemoSet))
  <2>1. from \in Nat /\ from >= 1 /\ N <= N
    BY <1>2
  <2>2. /\ view \in Seq(TxOver(MemoSet)) /\ Len(view) = IF from <= N THEN N - from + 1 ELSE 0
        /\ \A i \in 1..Len(view) : view[i] = txs[i + from - 1]
    BY <1>1, <1>2, <1>3, <2>1, Stretch DEF View
  <2>3. Len(view) # 0
    BY <2>2
  <2>4. Len(view) + from = Len(txs) + 1
    BY <1>2, <2>1, <2>2, <2>3
  <2> QED
    BY <2>1, <2>2, <2>4 DEF From
<1>4. ASSUME NEW i \in 1..N, view = <<txs[i]>>
      PROVE  \E f : From(view, txs, f) /\ view \in Seq(TxOver(MemoSet))
  <2>1. txs[i] \in TxOver(MemoSet)
    BY <1>2
  <2>2. txs[N] = txs[i]
    BY <1>4 DEF Last
  <2>3. view \in Seq(TxOver(MemoSet)) /\ Len(view) = 1 /\ view[1] = txs[N]
    BY <1>4, <2>1, <2>2
  <2>4. N >= 1 /\ Len(view) + N = Len(txs) + 1
    BY <1>2, <2>3
  <2>5. \A j \in 1..Len(view) : j = 1 /\ j + N - 1 = N
    BY <1>2, <2>3
  <2>6. From(view, txs, N)
    BY <1>2, <2>3, <2>4, <2>5 DEF From
  <2> QED
    BY <2>3, <2>6
<1>5. PICK f : From(view, txs, f) /\ view \in Seq(TxOver(MemoSet))
  BY <1>2, <1>3, <1>4
<1> QED
  BY <1>1, <1>5, PartExplained

\* What attest-verify tells is true, whatever the hosts, their keys and the
\* history: exit 0 exactly for the newest attestation of the account signed
\* by the master key or by the key that the last delegation of its dseq
\* names, and a reader of the end of the history only at most misses that
\* delegation (pubattest.Evaluate).
THEOREM VerdictsMean == Spec => []VerdictMeans
<1>1. AttInv => VerdictMeans
  BY VouchedForHolds, PrunedHolds DEF VerdictMeans
<1> QED
  BY <1>1, AttInit, AttNext, PTL DEF Spec

-----------------------------------------------------------------------------
(* A verdict is final.                                                     *)

LEMMA SettledAppend ==
    ASSUME NEW h, Written(h), NEW t \in TxOver(MemoSet), Written(Append(h, t)),
           Newest(Ordered(h, Account)) = Newest(Ordered(Append(h, t), Account))
    PROVE  Evaluate(h, Account) = Evaluate(Append(h, t), Account)
<1> DEFINE a == Append(h, t)
           M == Len(Ordered(h, Account))
           to == [s \in Spots(h) |-> s]
<1>1. h \in Seq(TxOver(MemoSet)) /\ a \in Seq(TxOver(MemoSet)) /\ Rising(h) /\ Rising(a)
  BY WrittenRises DEF Written
<1>2. PICK at : Listing(h, at)
  BY <1>1, ListingExists
<1>3. PICK u : Listing(a, u) /\ \A p \in 1..M : u[p] = at[p]
  <2>1. Ordered(h, Account) \in Seq(ItemOver(MemoSet))
    BY <1>1, ListingExists
  <2> QED
    BY <1>1, <1>2, <2>1, ListingAppend
<1>4. Embeds(h, a, to) /\ \A s \in Spots(h) : Covers(h, a, to, s) /\ to[s] = s
  BY <1>1, GrowsEmbeds
<1>5. \A s \in AttSpots(h) : s \in AttSpots(a)
  <2>1. \A s \in Spots(h) : s \in Spots(a) /\ At(a, s) = At(h, s)
    BY <1>1, SpotsAppend
  <2> QED
    BY <2>1 DEF AttSpots
<1>6. Newest(Ordered(h, Account)) = Newest(Ordered(a, Account))
  OBVIOUS
<1>7. /\ AttSpots(h) = {} => Newest(Ordered(h, Account)) = 0
      /\ \A s : LastAtt(h, s) => \E p \in 1..M : at[p] = s /\ Newest(Ordered(h, Account)) = p
      /\ AttSpots(h) # {} => \E s : LastAtt(h, s)
  BY <1>1, <1>2, NewestAt, Zenon
<1> HIDE DEF a, to
<1>8. /\ AttSpots(a) = {} => Newest(Ordered(a, Account)) = 0
      /\ \A s : LastAtt(a, s) => \E p \in 1..Len(Ordered(a, Account)) : u[p] = s /\ Newest(Ordered(a, Account)) = p
      /\ AttSpots(a) # {} => \E s : LastAtt(a, s)
  BY <1>1, <1>3, NewestAt, Zenon
<1>9. CASE AttSpots(h) = {}
  <2>1. AttSpots(a) = {}
    <3>1. SUFFICES ASSUME NEW s, LastAtt(a, s) PROVE FALSE
      BY <1>8
    <3>2. PICK p \in 1..Len(Ordered(a, Account)) : Newest(Ordered(a, Account)) = p
      BY <1>8, <3>1
    <3>3. p # 0
      OBVIOUS
    <3> QED
      BY <1>6, <1>7, <1>9, <3>2, <3>3
  <2>2. Evaluate(h, Account) = None
    BY <1>1, <1>9, EvaluateIs
  <2>3. Evaluate(a, Account) = None
    BY <1>1, <2>1, EvaluateIs
  <2> QED
    BY <2>2, <2>3 DEF a
<1>10. ASSUME NEW s, LastAtt(h, s) PROVE Evaluate(h, Account) = Evaluate(a, Account)
  <2>1. PICK p \in 1..M : at[p] = s /\ Newest(Ordered(h, Account)) = p
    BY <1>7, <1>10, Zenon
  <2>2. s \in AttSpots(h) /\ s \in Spots(h)
    BY <1>10 DEF LastAtt, AttSpots
  <2>3. AttSpots(a) # {}
    BY <1>5, <2>2
  <2>4. PICK z : LastAtt(a, z)
    BY <1>8, <2>3
  <2>5. PICK q \in 1..Len(Ordered(a, Account)) : u[q] = z /\ Newest(Ordered(a, Account)) = q
    BY <1>8, <2>4, Zenon
  <2>6. z = s
    BY <1>3, <1>6, <2>1, <2>5
  <2>7. LastAtt(a, to[s]) /\ Covers(h, a, to, s)
    BY <1>4, <2>2, <2>4, <2>6
  <2> QED
    BY <1>1, <1>4, <1>10, <2>7, EmbedVerdict
<1> QED
  BY <1>7, <1>9, <1>10 DEF a

\* No later transaction changes the verdict on an attestation: while it is
\* the newest one, whatever lands leaves what Evaluate says of it.
THEOREM VerdictsSettle == Spec => VerdictSettled
<1>1. ASSUME AttInv, AttInv', [Next]_vars
      PROVE  \/ txs' = txs
             \/ Newest(Ordered(txs, Account)) # Newest(Ordered(txs', Account))
             \/ Evaluate(txs, Account) = Evaluate(txs', Account)
  <2>1. Written(txs) /\ Written(txs')
    BY <1>1 DEF AttInv
  <2>2. ASSUME NEW t, NewTx(t), txs' = Append(txs, t),
               Newest(Ordered(txs, Account)) = Newest(Ordered(txs', Account))
        PROVE  Evaluate(txs, Account) = Evaluate(txs', Account)
    BY <2>1, <2>2, SettledAppend DEF NewTx
  <2> QED
    BY <1>1, <2>2, HistoryGrows
<1>2. ASSUME AttInv, AttInv', [Next]_vars
      PROVE  [\/ txs' = txs
              \/ Newest(Ordered(txs, Account)) # Newest(Ordered(txs', Account))
              \/ Evaluate(txs, Account) = Evaluate(txs', Account)]_vars
  BY <1>1, <1>2
<1> QED
  BY <1>2, AttInit, AttNext, PTL DEF Spec, VerdictSettled

-----------------------------------------------------------------------------
(* What backup let through reads as valid.                                 *)

\* An attestation in the last transaction is the last one.
LEMMA LastOfAppend ==
    ASSUME NEW h \in Seq(TxOver(MemoSet)), NEW t \in TxOver(MemoSet), Counted(t, Account),
           Len(t.memos) >= 1, Last(t.memos).type = "attestation"
    PROVE  LET s == <<Len(h) + 1, Len(t.memos)>> IN
           LastAtt(Append(h, t), s) /\ At(Append(h, t), s) = Last(t.memos)
<1> DEFINE a == Append(h, t)
           N == Len(h)
           K == Len(t.memos)
           s == <<N + 1, K>>
<1>1. t.memos \in Seq(MemoSet) /\ K \in Nat /\ N \in Nat
  BY DEF TxOver
<1>2. Len(Block(t)) = K
  BY BlockIs
<1>3. /\ \A e \in Spots(h) : e[1] \in 1..N
      /\ \A j \in 1..K : <<N + 1, j>> \in Spots(a) /\ At(a, <<N + 1, j>>) = t.memos[j]
      /\ \A e \in Spots(a) : e \in Spots(h) \/ \E j \in 1..K : e = <<N + 1, j>>
  BY <1>2, SpotsAppend
<1> HIDE DEF a, N
<1>4. K \in 1..K /\ Last(t.memos) = t.memos[K]
  BY <1>1 DEF Last
<1>5. s \in Spots(a) /\ At(a, s) = Last(t.memos)
  BY <1>3, <1>4
<1>6. ASSUME NEW q \in Spots(a) PROVE q = s \/ Before(q, s)
  <2>0. s[1] = N + 1 /\ s[2] = K
    OBVIOUS
  <2>1. CASE q \in Spots(h)
    <3>1. q[1] \in 1..N
      BY <1>3, <2>1
    <3>2. q[1] < N + 1
      BY <1>1, <3>1
    <3> QED
      BY <2>0, <3>2 DEF Before
  <2>2. ASSUME NEW j \in 1..K, q = <<N + 1, j>> PROVE q = s \/ Before(q, s)
    <3>1. j = K \/ j < K
      BY <1>1
    <3>2. q[1] = N + 1 /\ q[2] = j
      BY <2>2
    <3> QED
      BY <2>0, <2>2, <3>1, <3>2 DEF Before
  <2> QED
    BY <1>3, <2>1, <2>2
<1> HIDE DEF s, K
<1>7. LastAtt(a, s)
  BY <1>5, <1>6 DEF LastAtt, AttSpots
<1> QED
  BY <1>5, <1>7 DEF a, s, N, K

\* The history that was judged, with the anchor at its end.
LEMMA JudgedIs ==
    ASSUME NEW h, Written(h), NEW f \in Flight, Judged(h, f), Last(f.memos).version = 2
    PROVE  \E o \in TxOver(MemoSet) :
              LET v == SubSeq(h, f.read[1], f.read[2]) IN
              /\ v \in Seq(TxOver(MemoSet))
              /\ Counted(o, Account) /\ o.memos = f.memos
              /\ Rising(Append(v, o))
              /\ Evaluate(Append(v, o), Account).status = "valid"
<1> DEFINE v == SubSeq(h, f.read[1], f.read[2])
           L == Len(v)
           top == IF v = <<>> THEN 0 ELSE Last(v).lgr
           o == [account |-> Account, result |-> "tesSUCCESS", memos |-> f.memos,
                 lgr |-> top + 1, unseen |-> FALSE]
           a == Append(v, o)
<1>1. h \in Seq(TxOver(MemoSet)) /\ Rising(h)
  BY WrittenRises DEF Written
<1>2. f.read[1] \in Nat /\ f.read[2] \in Nat /\ f.memos \in Seq(MemoSet)
  BY DEF Flight
<1>3. f.read[1] >= 1 /\ f.read[2] <= Len(h) /\ Acceptable(v, f.memos)
  BY DEF Judged
<1>4. /\ v \in Seq(TxOver(MemoSet)) /\ L = IF f.read[1] <= f.read[2] THEN f.read[2] - f.read[1] + 1 ELSE 0
      /\ \A i \in 1..L : v[i] = h[i + f.read[1] - 1]
  BY SMTT(30), <1>1, <1>2, <1>3, Stretch
<1>5. Evaluate(a, Account).status = "valid"
  BY <1>3 DEF Acceptable
<1> HIDE DEF v
<1>6. L \in Nat /\ \A i \in 1..L : v[i].lgr \in Nat
  <2>1. L \in Nat /\ \A i \in 1..L : v[i] \in TxOver(MemoSet)
    BY <1>4
  <2>2. \A y \in TxOver(MemoSet) : y.lgr \in Nat
    BY DEF TxOver
  <2> QED
    BY <2>1, <2>2
<1>7. ASSUME NEW i \in 1..L, NEW j \in 1..L, i <= j PROVE v[i].lgr <= v[j].lgr
  <2>1. i + f.read[1] - 1 \in 1..Len(h) /\ j + f.read[1] - 1 \in 1..Len(h) /\ i + f.read[1] - 1 <= j + f.read[1] - 1
    <3> DEFINE from == f.read[1]
               last == f.read[2]
               N == Len(h)
    <3>1. from \in Nat /\ last \in Nat /\ from >= 1 /\ last <= N /\ N \in Nat
      BY <1>1, <1>2, <1>3
    <3>2. L = IF from <= last THEN last - from + 1 ELSE 0
      BY <1>4
    <3> HIDE DEF from, last, N, L
    <3>3. i + from - 1 \in 1..N /\ j + from - 1 \in 1..N /\ i + from - 1 <= j + from - 1
      BY <1>7, <3>1, <3>2
    <3> QED
      BY <3>3 DEF from, N
  <2>2. h[i + f.read[1] - 1].lgr <= h[j + f.read[1] - 1].lgr
    BY <1>1, <2>1 DEF Rising
  <2> QED
    BY <1>4, <2>2
<1>8. top \in Nat /\ \A i \in 1..L : v[i].lgr <= top
  <2>1. CASE v = <<>>
    BY <2>1
  <2>2. CASE v # <<>>
    <3>1. L >= 1
      BY <1>4, <1>6, <2>2
    <3>2. L \in 1..L /\ top = v[L].lgr
      BY <1>6, <2>2, <3>1 DEF Last
    <3>3. \A i \in 1..L : i <= L
      BY <1>6
    <3> HIDE DEF top, L
    <3> QED
      BY <1>6, <1>7, <3>2, <3>3
  <2> QED
    BY <2>1, <2>2
<1> HIDE DEF top
<1>9. o \in TxOver(MemoSet) /\ Counted(o, Account) /\ o.memos = f.memos /\ o.lgr = top + 1
  BY <1>2, <1>8 DEF TxOver, Accounts, Results, Counted
<1> HIDE DEF o
<1>10. Len(a) = L + 1 /\ a[L + 1] = o /\ \A i \in 1..L : a[i] = v[i]
  BY <1>4, <1>9, AppendProperties
<1> HIDE DEF a, L
<1>11. Rising(a)
  <2> SUFFICES ASSUME NEW i \in 1..Len(a), NEW j \in 1..Len(a), i <= j PROVE a[i].lgr <= a[j].lgr
    BY DEF Rising
  <2>1. (i \in 1..L /\ j \in 1..L) \/ (i \in 1..L /\ j = L + 1) \/ (i = L + 1 /\ j = L + 1)
    BY <1>6, <1>10
  <2>2. CASE i \in 1..L /\ j \in 1..L
    BY <1>7, <1>10, <2>2
  <2>3. CASE i \in 1..L /\ j = L + 1
    <3>1. a[i].lgr <= top /\ a[i].lgr \in Nat /\ a[j].lgr = top + 1
      BY <1>6, <1>8, <1>9, <1>10, <2>3
    <3> QED
      BY <1>8, <3>1
  <2>4. CASE i = L + 1 /\ j = L + 1
    BY <1>8, <1>9, <1>10, <2>4
  <2> QED
    BY <2>1, <2>2, <2>3, <2>4
<1> QED
  BY <1>4, <1>5, <1>9, <1>11 DEF a, v

\* Landing with no superseding delegation outside the judged stretch.
LEMMA LandValid ==
    ASSUME AttInv, NEW x \in Hosts, NEW t, NewTx(t), Lands(x, t), Counted(t, Account), ~t.unseen
    PROVE  Evaluate(Append(txs, t), Account).status = "valid"
<1> DEFINE f == run[x][1]
           r == Last(f.memos)
           a == Append(txs, t)
           N == Len(txs)
           K == Len(f.memos)
           w == <<N + 1, K>>
<1>1. run[x] # <<>> /\ t.memos = f.memos
  BY DEF Lands
<1>2. f \in Flight /\ Judged(txs, f)
  BY <1>1 DEF AttInv
<1>3. \A i \in Superseding(r.vpk, r.dseq) : ~(i < f.read[1]) /\ ~(i > f.read[2])
  BY DEF Lands
<1>4. t \in TxOver(MemoSet) /\ Written(txs) /\ Written(a)
  <2>1. t \in TxOver(MemoSet) /\ Shape(t.memos) /\ t.lgr = LedgerOf(Len(txs) + 1) /\ Written(txs)
    BY DEF NewTx, AttInv
  <2> QED
    BY <2>1, WrittenAppend
<1>5. txs \in Seq(TxOver(MemoSet)) /\ N \in Nat /\ a \in Seq(TxOver(MemoSet)) /\ Rising(a)
  <2>1. txs \in Seq(TxOver(MemoSet)) /\ a \in Seq(TxOver(MemoSet))
    BY <1>4 DEF Written
  <2>2. Rising(a)
    BY <1>4, WrittenRises
  <2> QED
    BY <2>1, <2>2
<1>6. r.type = "attestation" /\ K >= 1 /\ K \in Nat
  BY SMTT(30), <1>2 DEF Judged, Shape
<1>7. LastAtt(a, w) /\ At(a, w) = r
  <2>1. Len(t.memos) >= 1 /\ Last(t.memos).type = "attestation"
    BY <1>1, <1>6
  <2>2. /\ LastAtt(Append(txs, t), <<Len(txs) + 1, Len(t.memos)>>)
        /\ At(Append(txs, t), <<Len(txs) + 1, Len(t.memos)>>) = Last(t.memos)
    BY <1>4, <1>5, <2>1, LastOfAppend
  <2> QED
    BY <1>1, <2>2
<1> HIDE DEF f, a, w
<1>8. /\ r.version \in {1, 2}
      /\ r.version = 1 => Evaluate(a, Account).status = "valid"
  <2> DEFINE y == At(a, w)
  <2>1. y.version \in {1, 2} /\ (y.version = 1 => Evaluate(a, Account).status = "valid")
    BY <1>5, <1>7, ValidMeans, Zenon
  <2> QED
    BY <1>7, <2>1
<1>9. ASSUME r.version = 2 PROVE Evaluate(a, Account).status = "valid"
  <2> DEFINE v == SubSeq(txs, f.read[1], f.read[2])
             L == Len(v)
             from == f.read[1]
             last == f.read[2]
  <2>1. PICK o \in TxOver(MemoSet) :
          /\ v \in Seq(TxOver(MemoSet))
          /\ Counted(o, Account) /\ o.memos = f.memos
          /\ Rising(Append(v, o))
          /\ Evaluate(Append(v, o), Account).status = "valid"
    BY <1>2, <1>4, <1>9, JudgedIs
  <2>2. from \in Nat /\ last \in Nat /\ from >= 1 /\ last <= N
    BY <1>2 DEF Flight, Judged
  <2>3. /\ L = IF from <= last THEN last - from + 1 ELSE 0
        /\ \A i \in 1..L : v[i] = txs[i + from - 1]
    BY SMTT(30), <1>5, <2>2, Stretch
  <2> DEFINE z == Append(v, o)
             ix == [i \in 1..(L + 1) |-> IF i = L + 1 THEN N + 1 ELSE i + from - 1]
             to == Over(z, ix)
             s == <<L + 1, K>>
  <2> HIDE DEF v, from, last
  <2>4. L \in Nat
    BY <2>1
  <2>5. /\ z \in Seq(TxOver(MemoSet)) /\ Len(z) = L + 1 /\ z[L + 1] = o
        /\ \A i \in 1..L : z[i] = v[i]
    BY <2>1, AppendProperties
  <2>6. Len(a) = N + 1 /\ a[N + 1] = t /\ \A i \in 1..N : a[i] = txs[i]
    BY <1>4, <1>5, AppendProperties DEF a
  <2>7. LastAtt(z, s) /\ At(z, s) = r
    <3>1. Len(o.memos) >= 1 /\ Last(o.memos).type = "attestation" /\ o.memos = f.memos
      BY <1>6, <2>1
    <3>2. /\ LastAtt(Append(v, o), <<Len(v) + 1, Len(o.memos)>>)
          /\ At(Append(v, o), <<Len(v) + 1, Len(o.memos)>>) = Last(o.memos)
      BY <2>1, <3>1, LastOfAppend
    <3> QED
      BY <3>1, <3>2
  <2> HIDE DEF L, z
  <2>8. ASSUME NEW i \in 1..(L + 1)
        PROVE  /\ ix[i] \in 1..Len(a) /\ z[i].memos = a[ix[i]].memos
               /\ Counted(z[i], Account) <=> Counted(a[ix[i]], Account)
    <3>1. CASE i = L + 1
      <4>1. ix[i] = N + 1
        BY <3>1
      <4> QED
        BY <1>1, <1>5, <2>1, <2>5, <2>6, <3>1, <4>1
    <3>2. CASE i \in 1..L
      <4>1. ix[i] = i + from - 1
        BY <2>4, <3>2
      <4>2. i + from - 1 \in 1..N
        BY <1>5, <2>2, <2>3, <2>4, <3>2
      <4>3. a[ix[i]] = z[i] /\ ix[i] \in 1..N
        <5>1. z[i] = v[i] /\ v[i] = txs[i + from - 1]
          BY <2>3, <2>5, <3>2
        <5>2. a[i + from - 1] = txs[i + from - 1]
          BY <2>6, <4>2
        <5> HIDE DEF ix
        <5> QED
          BY <4>1, <4>2, <5>1, <5>2
      <4> QED
        BY <1>5, <2>6, <4>3
    <3> QED
      BY <2>4, <3>1, <3>2
  <2>9. ASSUME NEW i \in 1..(L + 1), NEW j \in 1..(L + 1), i < j PROVE ix[i] < ix[j]
    <3>1. ix[i] = i + from - 1 /\ i \in 1..L
      BY <2>4, <2>9
    <3>2. i + from - 1 < N + 1
      BY <1>5, <2>2, <2>3, <2>4, <3>1
    <3>3. CASE j = L + 1
      BY <3>1, <3>2, <3>3
    <3>4. CASE j # L + 1
      <4>1. ix[j] = j + from - 1
        BY <3>4
      <4> QED
        BY <2>2, <2>4, <2>9, <3>1, <4>1
    <3> QED
      BY <3>3, <3>4
  <2>10. ix[L + 1] = N + 1 /\ \A i \in 1..L : ix[i] = i + from - 1
    BY <2>4
  <2> HIDE DEF ix
  <2>11. /\ Embeds(z, a, to)
         /\ \A d \in Spots(a) : (\E i \in 1..Len(z) : ix[i] = d[1]) => \E e \in Spots(z) : to[e] = d
    <3>1. Carries(z, a, ix)
      BY <2>5, <2>8, <2>9 DEF Carries
    <3>2. z \in Seq(TxOver(MemoSet)) /\ a \in Seq(TxOver(MemoSet))
      BY <1>5, <2>5
    <3> QED
      BY <3>1, <3>2, IndexEmbeds
  <2>12. s \in Spots(z) /\ to[s] = w
    <3>1. s \in Spots(z)
      BY <2>7 DEF LastAtt, AttSpots
    <3>2. to[s] = <<ix[L + 1], K>>
      BY <3>1 DEF Over
    <3> QED
      BY <2>10, <3>1, <3>2 DEF w
  <2>13. Covers(z, a, to, s)
    <3> SUFFICES ASSUME NEW d \in Mine(a, w), At(a, d).dseq >= r.dseq
                 PROVE  \E i \in 1..(L + 1) : ix[i] = d[1]
      <4>1. \A d \in Mine(a, w) : d \in Spots(a)
        BY DEF Mine, DelSpots
      <4> QED
        BY <2>5, <2>7, <2>11, <2>12, <4>1, Zenon DEF Covers
    <3>1. d \in Spots(a) /\ At(a, d).type = "delegation" /\ VerifyDelegation(At(a, d), Account) /\ At(a, d).vpk = r.vpk
      BY <1>7 DEF Mine, DelSpots
    <3>2. d[1] \in 1..(N + 1) /\ Counted(a[d[1]], Account) /\ d[2] \in 1..Len(a[d[1]].memos)
      BY <2>6, <3>1 DEF Spots
    <3>3. CASE d[1] = N + 1
      <4>1. L + 1 \in 1..(L + 1)
        BY <2>4
      <4> QED
        BY <2>10, <3>3, <4>1
    <3>4. CASE d[1] # N + 1
      <4> DEFINE n == d[1]
                 j == d[2]
      <4>1. n \in 1..N /\ a[n] = txs[n]
        BY <1>5, <2>6, <3>2, <3>4
      <4>2. /\ Counted(txs[n], Account) /\ j \in DOMAIN txs[n].memos /\ At(a, d) = txs[n].memos[j]
        <5>1. txs[n] \in TxOver(MemoSet)
          BY <1>5, <4>1
        <5>2. DOMAIN txs[n].memos = 1..Len(txs[n].memos)
          BY <5>1 DEF TxOver
        <5> QED
          BY <3>2, <4>1, <5>2 DEF At
      <4>3. n \in DOMAIN txs
        BY <1>5, <4>1
      <4>4. n \in Superseding(r.vpk, r.dseq)
        <5> HIDE DEF n, j
        <5> QED
          BY <3>1, <4>2, <4>3, Zenon DEF Superseding
      <4>5. n >= from /\ n <= last
        <5>1. ~(n < from) /\ ~(n > last)
          BY <1>3, <4>4 DEF from, last
        <5> QED
          BY <1>5, <2>2, <4>1, <5>1
      <4>6. n - from + 1 \in 1..L /\ n - from + 1 \in 1..(L + 1) /\ (n - from + 1) + from - 1 = n
        BY <1>5, <2>2, <2>3, <2>4, <4>1, <4>5
      <4>7. ix[n - from + 1] = n
        BY <2>10, <4>6
      <4> QED
        BY <4>6, <4>7
    <3> QED
      BY <3>3, <3>4
  <2>14. Evaluate(z, Account) = Evaluate(a, Account)
    <3>1. LastAtt(a, to[s]) /\ Rising(z)
      BY <1>7, <2>1, <2>12 DEF z
    <3> HIDE DEF to, s
    <3> QED
      BY <1>5, <2>5, <2>7, <2>11, <2>13, <3>1, EmbedVerdict
  <2> QED
    BY <2>1, <2>14 DEF z
<1> QED
  BY <1>8, <1>9 DEF a

LEMMA AttestedAre == AttInv => Attested = AttSpots(txs)
  BY PlacesAre

LEMMA PublishedInit == Init => PublishedValid
<1> SUFFICES ASSUME Init PROVE PublishedValid
  OBVIOUS
<1>1. Attested = {}
  BY DEF Init, Attested, Places
<1> QED
  BY <1>1 DEF PublishedValid

LEMMA PublishedNext == AttInv /\ AttInv' /\ [Next]_vars /\ PublishedValid => PublishedValid'
<1> SUFFICES ASSUME AttInv, AttInv', [Next]_vars, PublishedValid PROVE PublishedValid'
  OBVIOUS
<1> DEFINE Reads(h, p) == Evaluate(SubSeq(h, 1, p[1]), Account).status = "valid" \/ h[p[1]].unseen
<1>1. PublishedValid <=> \A p \in AttSpots(txs) : Reads(txs, p)
  BY PlacesAre DEF PublishedValid
<1>2. PublishedValid' <=> \A p \in AttSpots(txs') : Reads(txs', p)
  <2>1. (AttInv => Attested = AttSpots(txs))'
    BY AttestedAre, PTL
  <2> QED
    BY <2>1 DEF PublishedValid
<1>3. CASE txs' = txs
  BY <1>1, <1>2, <1>3
<1>4. ASSUME NEW t, NewTx(t), txs' = Append(txs, t), NEW p \in AttSpots(txs') PROVE Reads(txs', p)
  <2> DEFINE N == Len(txs)
             a == Append(txs, t)
  <2>1. txs \in Seq(TxOver(MemoSet)) /\ t \in TxOver(MemoSet) /\ N \in Nat
    BY <1>4 DEF AttInv, Written, NewTx
  <2>2. p \in Spots(a) /\ At(a, p).type = "attestation"
    BY <1>4 DEF AttSpots
  <2>3. /\ \A s \in Spots(txs) : s[1] \in 1..N /\ At(a, s) = At(txs, s)
        /\ \A j \in 1..Len(Block(t)) : At(a, <<N + 1, j>>) = t.memos[j]
        /\ \A s \in Spots(a) : s \in Spots(txs) \/ \E j \in 1..Len(Block(t)) : s = <<N + 1, j>>
    BY <2>1, SpotsAppend
  <2>4. a \in Seq(TxOver(MemoSet)) /\ Len(a) = N + 1 /\ a[N + 1] = t /\ \A i \in 1..N : a[i] = txs[i]
    BY <2>1, AppendProperties
  <2> HIDE DEF a
  <2>5. CASE p \in Spots(txs)
    <3>1. p \in AttSpots(txs) /\ p[1] \in 1..N
      BY <2>2, <2>3, <2>5 DEF AttSpots
    <3>2. p[1] \in Nat /\ p[1] <= Len(txs) /\ 1 \in Nat /\ 1 >= 1
      BY <2>1, <3>1
    <3>3. SubSeq(a, 1, p[1]) = SubSeq(txs, 1, p[1])
      BY <2>1, <3>2, StretchKept DEF a
    <3>4. Reads(txs, p)
      BY <1>1, <3>1
    <3> QED
      BY <1>4, <2>4, <3>1, <3>3, <3>4 DEF a
  <2>6. ASSUME NEW j \in 1..Len(Block(t)), p = <<N + 1, j>> PROVE Reads(a, p)
    <3>1. p[1] = N + 1 /\ t.memos[j].type = "attestation"
      BY <2>2, <2>3, <2>6
    <3>2. Counted(t, Account) /\ j \in 1..Len(t.memos)
      BY <2>1, BlockIs
    <3>3. PICK x \in Hosts : Lands(x, t)
      BY <1>4, <3>1, <3>2 DEF NewTx
    <3>4. SubSeq(a, 1, p[1]) = a
      BY <2>4, <3>1, SubSeqFull
    <3>5. CASE t.unseen
      BY <2>4, <3>1, <3>5
    <3>6. CASE ~t.unseen
      <4>1. Evaluate(a, Account).status = "valid"
        BY <1>4, <3>2, <3>3, <3>6, LandValid DEF a
      <4> QED
        BY <3>4, <4>1
    <3> QED
      BY <3>5, <3>6
  <2> QED
    BY <1>4, <2>2, <2>3, <2>5, <2>6 DEF a
<1> HIDE DEF Reads
<1>5. ASSUME NEW t, NewTx(t), txs' = Append(txs, t) PROVE \A p \in AttSpots(txs') : Reads(txs', p)
  BY <1>4, <1>5
<1> QED
  BY <1>2, <1>3, <1>5, HistoryGrows

\* Whatever a server has dropped and whoever else publishes meanwhile, an
\* attestation that backup let through reads as valid when it has landed,
\* unless a delegation with its dseq or a higher one landed out of the sight
\* of the run (delegatedMemos, doSubmit).
THEOREM PublishedReadsValid == Spec => []PublishedValid
  BY AttInit, AttNext, PublishedInit, PublishedNext, PTL DEF Spec

-----------------------------------------------------------------------------
(* Redaction.  First splitLines and Render: the scan has a result after every*)
(* symbol, and lines that are rendered read back as the same lines.        *)

\* The scan of splitLines has a result after every symbol.
LEMMA ScanExists ==
    ASSUME NEW doc, NEW N \in Nat
    PROVE  \E f : f = [j \in 0..N |-> IF j = 0 THEN <<NoLine>> ELSE AddSymbol(f[j - 1], doc[j])]
<1> DEFINE Turn(f, j) == IF j = 0 THEN <<NoLine>> ELSE AddSymbol(f[j - 1], doc[j])
           T == {n \in Nat : \E f : f = [j \in 0..n |-> Turn(f, j)]}
<1>1. 0 \in T
  <2> DEFINE f == [j \in 0..0 |-> <<NoLine>>]
  <2>1. f = [j \in 0..0 |-> Turn(f, j)]
    OBVIOUS
  <2> HIDE DEF f, Turn
  <2> QED
    BY <2>1
<1>2. ASSUME NEW n \in Nat, n \in T PROVE n + 1 \in T
  <2>1. PICK f : f = [j \in 0..n |-> Turn(f, j)]
    BY <1>2
  <2> DEFINE u == [j \in 0..(n + 1) |-> IF j = n + 1 THEN Turn(f, j) ELSE f[j]]
  <2>2. ASSUME NEW j \in 0..(n + 1) PROVE u[j] = Turn(u, j)
    <3>1. j # 0 => u[j - 1] = f[j - 1]
      OBVIOUS
    <3>2. Turn(u, j) = Turn(f, j)
      BY <3>1
    <3>3. CASE j = n + 1
      BY <3>2, <3>3
    <3>4. CASE j # n + 1
      <4>1. j \in 0..n /\ u[j] = f[j]
        BY <3>4
      <4> HIDE DEF u, Turn
      <4>2. f[j] = Turn(f, j)
        BY <2>1, <4>1
      <4> QED
        BY <3>2, <4>1, <4>2
    <3> QED
      BY <3>3, <3>4
  <2>3. u = [j \in 0..(n + 1) |-> Turn(u, j)]
    <3>1. u = [j \in 0..(n + 1) |-> u[j]]
      OBVIOUS
    <3> HIDE DEF u, Turn
    <3> QED
      BY <2>2, <3>1
  <2> HIDE DEF u, Turn
  <2>4. n + 1 \in Nat
    OBVIOUS
  <2> QED
    BY <2>3, <2>4
<1> HIDE DEF T
<1>3. N \in T
  BY <1>1, <1>2, InductNat
<1> QED
  BY <1>3 DEF T

\* The scan starts with an empty line and takes the symbols in their order.
LEMMA ScanIs ==
    ASSUME NEW doc, Len(doc) \in Nat
    PROVE  \E f : /\ splitLines(doc) = f[Len(doc)] /\ f[0] = <<NoLine>>
                  /\ \A j \in 1..Len(doc) : f[j] = AddSymbol(f[j - 1], doc[j])
<1> DEFINE N == Len(doc)
           Turn(f, j) == IF j = 0 THEN <<NoLine>> ELSE AddSymbol(f[j - 1], doc[j])
           F == CHOOSE f : f = [j \in 0..N |-> Turn(f, j)]
<1>1. splitLines(doc) = F[N]
  BY DEF splitLines
<1>2. \E f : f = [j \in 0..N |-> Turn(f, j)]
  BY ScanExists
<1>3. F = [j \in 0..N |-> Turn(F, j)]
  <2> HIDE DEF Turn, N
  <2> QED
    BY <1>2
<1> HIDE DEF F
<1>4. \A j \in 0..N : F[j] = Turn(F, j)
  <2> HIDE DEF Turn, N
  <2> QED
    BY <1>3
<1>5. F[0] = <<NoLine>>
  BY <1>4
<1>6. \A j \in 1..N : F[j] = AddSymbol(F[j - 1], doc[j])
  BY <1>4
<1> QED
  BY <1>1, <1>5, <1>6

\* A document that is one symbol longer is scanned one turn further.
LEMMA ScanAppend ==
    ASSUME NEW S, NEW doc \in Seq(S), NEW x \in S
    PROVE  /\ splitLines(<<>>) = <<NoLine>>
           /\ splitLines(Append(doc, x)) = AddSymbol(splitLines(doc), x)
<1>1. splitLines(<<>>) = <<NoLine>>
  <2>1. Len(<<>>) = 0
    OBVIOUS
  <2> QED
    BY <2>1, ScanIs
<1> DEFINE N == Len(doc)
           p == Append(doc, x)
<1>2. N \in Nat /\ Len(p) = N + 1 /\ p[N + 1] = x /\ \A j \in 1..N : p[j] = doc[j]
  OBVIOUS
<1> HIDE DEF p
<1>3. PICK e : /\ splitLines(p) = e[N + 1] /\ e[0] = <<NoLine>>
               /\ \A j \in 1..(N + 1) : e[j] = AddSymbol(e[j - 1], p[j])
  <2>1. Len(p) \in Nat
    BY <1>2
  <2>2. PICK e : /\ splitLines(p) = e[Len(p)] /\ e[0] = <<NoLine>>
                 /\ \A j \in 1..Len(p) : e[j] = AddSymbol(e[j - 1], p[j])
    BY <2>1, ScanIs, Zenon
  <2> QED
    BY <1>2, <2>2
<1>4. PICK f : /\ splitLines(doc) = f[N] /\ f[0] = <<NoLine>>
               /\ \A j \in 1..N : f[j] = AddSymbol(f[j - 1], doc[j])
  BY <1>2, ScanIs, Zenon
<1> DEFINE T == {n \in Nat : n <= N => e[n] = f[n]}
<1>5. 0 \in T
  BY <1>3, <1>4
<1>6. ASSUME NEW n \in Nat, n \in T PROVE n + 1 \in T
  <2> SUFFICES ASSUME n + 1 <= N PROVE e[n + 1] = f[n + 1]
    OBVIOUS
  <2>1. n + 1 \in 1..N /\ n + 1 \in 1..(N + 1) /\ (n + 1) - 1 = n /\ n <= N
    BY <1>2
  <2>2. e[n + 1] = AddSymbol(e[n], p[n + 1]) /\ f[n + 1] = AddSymbol(f[n], doc[n + 1])
    BY <1>3, <1>4, <2>1
  <2> QED
    BY <1>2, <1>6, <2>1, <2>2
<1> HIDE DEF T
<1>7. N \in T
  BY <1>2, <1>5, <1>6, InductNat
<1>8. e[N] = f[N]
  BY <1>2, <1>7 DEF T
<1>9. e[N + 1] = AddSymbol(e[N], p[N + 1])
  BY <1>2, <1>3
<1> QED
  BY <1>1, <1>2, <1>3, <1>4, <1>8, <1>9 DEF p

\* What a text is made of, and what a line is made of.
Symbol == Headers \cup {LF, CR, Space, Hash, Plain, Hex, Lan, Bare, Secret, Admin, Listen,
                        Seed, Pem, Moved, CMark}
Ink    == Symbol \ Ends

\* A line without and with its end.
LineSet == [raw : Seq(Ink), end : {<<>>, <<LF>>, <<CR>>, <<CR, LF>>}]

\* All lines but the last have an end, and no "\n" can be read as part of the
\* "\r" before it.
Chain(ls) ==
    \A i \in 1..(Len(ls) - 1) :
        /\ ls[i].end # <<>>
        /\ ls[i].end = <<CR>> /\ ls[i + 1].raw = <<>> => ls[i + 1].end # <<LF>>

\* The symbols the scanners and the markers must not mix up.
LEMMA SymbolsDiffer ==
    /\ LF # CR /\ Space \notin Ends /\ Moved \notin Ends /\ CMark \notin Ends
    /\ Moved # Space /\ CMark # Space /\ Moved # CMark /\ Hash # Moved /\ Hash # CMark /\ Hash # Space
    /\ Hash \notin Headers /\ Moved \notin Headers /\ CMark \notin Headers /\ Space \notin Headers
    /\ Lan # Space /\ Lan # CMark /\ Hex # Space /\ Hex # CMark
    /\ Secret # Space /\ Secret # Admin /\ Secret # Plain /\ Admin # Plain
  BY DEF LF, CR, Space, Moved, CMark, Hash, Lan, Hex, Secret, Admin, Plain, Ends, Headers, HeaderOf, Sym

\* What a symbol and a line may be made of.
LEMMA LineParts ==
    /\ LF \in Ends /\ CR \in Ends /\ Ends = {LF, CR} /\ Ends \subseteq Symbol /\ Ink \subseteq Symbol
    /\ \A x \in Symbol : x \in Ends \/ x \in Ink
    /\ \A x \in Ink : x \notin Ends
    /\ Space \in Ink /\ Moved \in Ink /\ CMark \in Ink
    /\ NoLine \in LineSet
    /\ \A l \in LineSet : /\ l.raw \in Seq(Ink) /\ l.raw \in Seq(Symbol)
                          /\ l.end \in Seq(Ends) /\ l.end \in Seq(Symbol)
                          /\ l.end = <<>> \/ l.end = <<LF>> \/ l.end = <<CR>> \/ l.end = <<CR, LF>>
                          /\ l = [raw |-> l.raw, end |-> l.end]
    /\ \A r \in Seq(Ink) : /\ [raw |-> r, end |-> <<>>] \in LineSet /\ [raw |-> r, end |-> <<LF>>] \in LineSet
                           /\ [raw |-> r, end |-> <<CR>>] \in LineSet /\ [raw |-> r, end |-> <<CR, LF>>] \in LineSet
<1>1. LF \in Ends /\ CR \in Ends /\ Ends = {LF, CR}
  BY DEF Ends
<1>2. Ends \subseteq Symbol /\ Ink \subseteq Symbol /\ \A x \in Symbol : x \in Ends \/ x \in Ink
  BY DEF Ends, Ink, Symbol
<1>3. \A x \in Ink : x \notin Ends
  BY DEF Ink
<1>4. Space \in Ink /\ Moved \in Ink /\ CMark \in Ink
  BY SymbolsDiffer DEF Ink, Symbol
<1>5. NoLine \in LineSet
  BY DEF NoLine, LineSet
<1>6. \A r \in Seq(Ink) : r \in Seq(Symbol)
  BY <1>2
<1>7. <<>> \in Seq(Ends) /\ <<LF>> \in Seq(Ends) /\ <<CR>> \in Seq(Ends) /\ <<CR, LF>> \in Seq(Ends)
  BY <1>1
<1>8. \A t \in Seq(Ends) : t \in Seq(Symbol)
  BY <1>2
<1>9. ASSUME NEW l \in LineSet
      PROVE  /\ l.raw \in Seq(Ink)
             /\ l.end = <<>> \/ l.end = <<LF>> \/ l.end = <<CR>> \/ l.end = <<CR, LF>>
             /\ l = [raw |-> l.raw, end |-> l.end]
  BY DEF LineSet
<1>10. ASSUME NEW l \in LineSet
       PROVE  l.raw \in Seq(Symbol) /\ l.end \in Seq(Ends) /\ l.end \in Seq(Symbol)
  BY <1>6, <1>7, <1>8, <1>9
<1>11. ASSUME NEW r \in Seq(Ink)
       PROVE  /\ [raw |-> r, end |-> <<>>] \in LineSet /\ [raw |-> r, end |-> <<LF>>] \in LineSet
              /\ [raw |-> r, end |-> <<CR>>] \in LineSet /\ [raw |-> r, end |-> <<CR, LF>>] \in LineSet
  BY DEF LineSet
<1> QED
  BY <1>1, <1>2, <1>3, <1>4, <1>5, <1>9, <1>10, <1>11

\* The last member but one, and the last, replaced.
LEMMA ReplaceLast ==
    ASSUME NEW S, NEW fr \in Seq(S), NEW a \in S, NEW b \in S
    PROVE  /\ [Append(fr, a) EXCEPT ![Len(fr) + 1] = b] = Append(fr, b)
           /\ \A z \in S : [Append(Append(fr, a), z) EXCEPT ![Len(fr) + 1] = b] = Append(Append(fr, b), z)
<1> DEFINE n == Len(fr)
           u == Append(fr, a)
           w == Append(fr, b)
<1>0. /\ n \in Nat /\ u \in Seq(S) /\ Len(u) = n + 1 /\ w \in Seq(S) /\ Len(w) = n + 1
      /\ u[n + 1] = a /\ w[n + 1] = b /\ \A i \in 1..n : u[i] = w[i]
  OBVIOUS
<1> HIDE DEF u, w
<1>1. [u EXCEPT ![n + 1] = b] = w
  <2> DEFINE e == [u EXCEPT ![n + 1] = b]
  <2>1. n + 1 \in 1..Len(u)
    BY <1>0
  <2>2. e \in Seq(S) /\ Len(e) = Len(u) /\ \A j \in 1..Len(u) : e[j] = IF j = n + 1 THEN b ELSE u[j]
    BY <1>0, <2>1, ExceptSeq
  <2> HIDE DEF e
  <2>3. \A j \in 1..Len(e) : e[j] = w[j]
    BY <1>0, <2>2
  <2>4. e = w
    BY <1>0, <2>2, <2>3, SeqEqual
  <2> QED
    BY <2>4 DEF e
<1>2. ASSUME NEW z \in S
      PROVE  [Append(u, z) EXCEPT ![n + 1] = b] = Append(w, z)
  <2> DEFINE uz == Append(u, z)
             wz == Append(w, z)
             e == [uz EXCEPT ![n + 1] = b]
  <2>1. /\ uz \in Seq(S) /\ Len(uz) = n + 2 /\ wz \in Seq(S) /\ Len(wz) = n + 2
        /\ uz[n + 2] = z /\ wz[n + 2] = z /\ \A j \in 1..(n + 1) : uz[j] = u[j] /\ wz[j] = w[j]
    BY <1>0
  <2> HIDE DEF uz, wz
  <2>2. n + 1 \in 1..Len(uz)
    BY <1>0, <2>1
  <2>3. e \in Seq(S) /\ Len(e) = Len(uz) /\ \A j \in 1..Len(uz) : e[j] = IF j = n + 1 THEN b ELSE uz[j]
    BY <2>1, <2>2, ExceptSeq
  <2> HIDE DEF e
  <2>4. ASSUME NEW j \in 1..Len(e) PROVE e[j] = wz[j]
    <3>1. j \in 1..Len(uz) /\ (j \in 1..n \/ j = n + 1 \/ j = n + 2)
      BY <1>0, <2>1, <2>3
    <3>2. e[j] = IF j = n + 1 THEN b ELSE uz[j]
      BY <2>3, <3>1
    <3>3. CASE j \in 1..n
      <4>1. j # n + 1 /\ j \in 1..(n + 1)
        BY <1>0, <3>3
      <4> QED
        BY <1>0, <2>1, <3>2, <3>3, <4>1
    <3>4. CASE j = n + 1
      <4>1. j \in 1..(n + 1)
        BY <1>0, <3>4
      <4>2. wz[j] = w[j] /\ w[j] = b
        BY <1>0, <2>1, <3>4, <4>1
      <4>3. e[j] = b
        BY <3>2, <3>4
      <4> QED
        BY <4>2, <4>3
    <3>5. CASE j = n + 2
      <4>1. j # n + 1
        BY <1>0, <3>5
      <4>2. e[j] = uz[j]
        BY <3>2, <4>1
      <4>3. uz[j] = z /\ wz[j] = z
        BY <2>1, <3>5
      <4> QED
        BY <4>2, <4>3
    <3> QED
      BY <3>1, <3>3, <3>4, <3>5
  <2>5. e = wz
    BY <2>1, <2>3, <2>4, SeqEqual
  <2> QED
    BY <2>5 DEF e, uz, wz
<1> QED
  BY <1>1, <1>2 DEF u, w

\* What one more symbol does to the lines read so far.
LEMMA AddInk ==
    ASSUME NEW fr \in Seq(LineSet), NEW r \in Seq(Ink), NEW x \in Ink
    PROVE  AddSymbol(Append(fr, [raw |-> r, end |-> <<>>]), x) = Append(fr, [raw |-> Append(r, x), end |-> <<>>])
<1> DEFINE a == [raw |-> r, end |-> <<>>]
           b == [raw |-> Append(r, x), end |-> <<>>]
           ls == Append(fr, a)
<1> HIDE DEF ls
<1>0. Append(r, x) \in Seq(Ink)
  OBVIOUS
<1>1. a \in LineSet /\ b \in LineSet /\ x \notin Ends
  BY <1>0, LineParts
<1>2. Len(fr) \in Nat /\ Len(ls) = Len(fr) + 1 /\ ls[Len(fr) + 1] = a
  BY <1>1 DEF ls
<1>3. AddSymbol(ls, x) = [ls EXCEPT ![Len(fr) + 1].raw = Append(@, x)]
  BY <1>1, <1>2 DEF AddSymbol
<1>4. [a EXCEPT !.raw = Append(a.raw, x)] = b
  <2>1. a.raw = r
    OBVIOUS
  <2>2. \A v : [a EXCEPT !.raw = v] = [raw |-> v, end |-> <<>>]
    OBVIOUS
  <2> HIDE DEF a
  <2> QED
    BY <2>1, <2>2, Zenon
<1> HIDE DEF a, b
<1>6. [ls EXCEPT ![Len(fr) + 1].raw = Append(@, x)] = [ls EXCEPT ![Len(fr) + 1] = b]
  BY <1>2, <1>4, Zenon
<1>5. [Append(fr, a) EXCEPT ![Len(fr) + 1] = b] = Append(fr, b)
  BY <1>1, ReplaceLast
<1> QED
  BY <1>3, <1>5, <1>6 DEF a, b, ls

\* A terminator ends the last line, and another begins.
LEMMA AddEnd ==
    ASSUME NEW fr \in Seq(LineSet), NEW r \in Seq(Ink), NEW x \in Ends,
           ~(x = LF /\ Len(fr) > 0 /\ r = <<>> /\ fr[Len(fr)].end = <<CR>>)
    PROVE  AddSymbol(Append(fr, [raw |-> r, end |-> <<>>]), x) = Append(Append(fr, [raw |-> r, end |-> <<x>>]), NoLine)
<1> DEFINE a == [raw |-> r, end |-> <<>>]
           b == [raw |-> r, end |-> <<x>>]
           ls == Append(fr, a)
<1>1. a \in LineSet /\ b \in LineSet
  BY LineParts
<1>2. Len(fr) \in Nat /\ Len(ls) = Len(fr) + 1 /\ ls[Len(fr) + 1] = a
      /\ (Len(fr) > 0 => ls[Len(fr)] = fr[Len(fr)])
  BY <1>1
<1>3. AddSymbol(ls, x) = Append([ls EXCEPT ![Len(fr) + 1].end = <<x>>], NoLine)
  <2>1. ~(x = LF /\ Len(ls) > 1 /\ ls[Len(ls)].raw = <<>> /\ ls[Len(ls) - 1].end = <<CR>>)
    BY <1>2
  <2> HIDE DEF ls
  <2> QED
    BY <1>2, <2>1 DEF AddSymbol
<1>4. [a EXCEPT !.end = <<x>>] = b
  OBVIOUS
<1> HIDE DEF a, b, ls
<1>6. [ls EXCEPT ![Len(fr) + 1].end = <<x>>] = [ls EXCEPT ![Len(fr) + 1] = b]
  BY <1>2, <1>4, Zenon
<1>5. [Append(fr, a) EXCEPT ![Len(fr) + 1] = b] = Append(fr, b)
  BY <1>1, ReplaceLast
<1> QED
  BY <1>3, <1>5, <1>6 DEF a, b, ls

\* A "\n" after a "\r" belongs to it.
LEMMA AddJoin ==
    ASSUME NEW fr \in Seq(LineSet), NEW r \in Seq(Ink)
    PROVE  AddSymbol(Append(Append(fr, [raw |-> r, end |-> <<CR>>]), NoLine), LF)
             = Append(Append(fr, [raw |-> r, end |-> <<CR, LF>>]), NoLine)
<1> DEFINE a == [raw |-> r, end |-> <<CR>>]
           b == [raw |-> r, end |-> <<CR, LF>>]
           ls == Append(Append(fr, a), NoLine)
           n == Len(fr)
<1>1. a \in LineSet /\ b \in LineSet /\ NoLine \in LineSet
  BY LineParts
<1>2. n \in Nat /\ Len(ls) = n + 2 /\ ls[n + 2] = NoLine /\ ls[n + 1] = a
  BY <1>1
<1>3. AddSymbol(ls, LF) = [ls EXCEPT ![n + 1].end = <<CR, LF>>]
  <2>1. LF \in Ends /\ Len(ls) > 1 /\ Len(ls) - 1 = n + 1 /\ ls[Len(ls)].raw = <<>> /\ ls[Len(ls) - 1].end = <<CR>>
    BY <1>2 DEF Ends, NoLine
  <2> HIDE DEF ls
  <2> QED
    BY <1>2, <2>1, Zenon DEF AddSymbol
<1>4. [a EXCEPT !.end = <<CR, LF>>] = b
  OBVIOUS
<1> HIDE DEF a, b, ls
<1>6. [ls EXCEPT ![n + 1].end = <<CR, LF>>] = [ls EXCEPT ![n + 1] = b]
  BY <1>2, <1>4, Zenon
<1>5. [ls EXCEPT ![n + 1] = b] = Append(Append(fr, b), NoLine)
  BY <1>1, ReplaceLast DEF ls
<1> QED
  BY <1>3, <1>5, <1>6 DEF a, b, ls

\* To put a symbol at the end of the second part is to put it at the end.
LEMMA AppendConcat ==
    ASSUME NEW S, NEW u \in Seq(S), NEW w \in Seq(S), NEW x \in S
    PROVE  u \o Append(w, x) = Append(u \o w, x)
<1>1. u \o w \in Seq(S) /\ <<x>> \in Seq(S)
  BY ConcatProperties
<1>2. Append(w, x) = w \o <<x>> /\ Append(u \o w, x) = (u \o w) \o <<x>>
  BY <1>1, AppendIsConcat
<1>3. u \o (w \o <<x>>) = (u \o w) \o <<x>>
  BY <1>1, ConcatAssociative
<1> QED
  BY <1>2, <1>3

\* Render writes the lines one after the other.
LEMMA RenderAppend ==
    ASSUME NEW ls \in Seq(LineSet), NEW l \in LineSet, Render(ls) \in Seq(Symbol)
    PROVE  Render(Append(ls, l)) = Render(ls) \o (l.raw \o l.end)
<1> DEFINE Text(y) == y.raw \o y.end
           q == [i \in DOMAIN ls |-> Text(ls[i])]
           p == Append(ls, l)
<1>1. \A y \in LineSet : Text(y) \in Seq(Symbol)
  BY LineParts
<1> HIDE DEF Text
<1>2. q \in Seq(Seq(Symbol)) /\ Len(q) = Len(ls) /\ \A i \in 1..Len(ls) : q[i] = Text(ls[i])
  <2>1. Len(ls) \in Nat /\ DOMAIN ls = 1..Len(ls) /\ \A i \in 1..Len(ls) : ls[i] \in LineSet
    OBVIOUS
  <2>2. q = [i \in 1..Len(ls) |-> Text(ls[i])]
    BY <2>1
  <2> QED
    BY <1>1, <2>1, <2>2
<1>3. [i \in DOMAIN p |-> Text(p[i])] = Append(q, Text(l))
  <2>1. Len(ls) \in Nat /\ DOMAIN p = 1..(Len(ls) + 1) /\ p[Len(ls) + 1] = l /\ \A i \in 1..Len(ls) : p[i] = ls[i]
    OBVIOUS
  <2>3. Text(l) \in Seq(Symbol)
    BY <1>1
  <2> HIDE DEF p, q
  <2> DEFINE u == Append(q, Text(l))
  <2>4. DOMAIN u = 1..(Len(ls) + 1) /\ u[Len(ls) + 1] = Text(l) /\ \A i \in 1..Len(ls) : u[i] = q[i]
    BY <1>2, <2>1, <2>3
  <2>5. u = [i \in DOMAIN u |-> u[i]]
    <3>1. u \in Seq(Seq(Symbol))
      BY <1>2, <2>3, AppendProperties
    <3> HIDE DEF u
    <3> QED
      BY <3>1
  <2>6. ASSUME NEW i \in 1..(Len(ls) + 1) PROVE u[i] = Text(p[i])
    <3>1. i = Len(ls) + 1 \/ i \in 1..Len(ls)
      BY <2>1
    <3> HIDE DEF u
    <3> QED
      BY <1>2, <2>1, <2>4, <3>1
  <2> HIDE DEF u
  <2>7. u = [i \in 1..(Len(ls) + 1) |-> Text(p[i])]
    BY <2>4, <2>5, <2>6
  <2> QED
    BY <2>1, <2>7 DEF u
<1>4. FlattenSeq(q) \in Seq(Symbol)
  BY DEF Render, Text
<1>5. Text(l) \in Seq(Symbol)
  BY <1>1
<1> HIDE DEF q, p
<1>6. FlattenSeq(Append(q, Text(l))) = FlattenSeq(q) \o Text(l)
  BY <1>2, <1>4, <1>5, FlattenAppend
<1> QED
  BY <1>3, <1>6 DEF Render, q, p, Text

\* No lines, no text.
LEMMA RenderEmpty == Render(<<>>) = <<>>
<1>1. [i \in DOMAIN << >> |-> << >>[i].raw \o << >>[i].end] = <<>>
  OBVIOUS
<1> QED
  BY <1>1, FlattenEmpty DEF Render

\* A rendered text is a text.
LEMMA RenderType ==
    ASSUME NEW ls \in Seq(LineSet)
    PROVE  Render(ls) \in Seq(Symbol)
<1> DEFINE T == {n \in Nat : \A s \in Seq(LineSet) : Len(s) = n => Render(s) \in Seq(Symbol)}
<1>1. 0 \in T
  BY RenderEmpty
<1>2. ASSUME NEW n \in Nat, n \in T PROVE n + 1 \in T
  <2> SUFFICES ASSUME NEW s \in Seq(LineSet), Len(s) = n + 1 PROVE Render(s) \in Seq(Symbol)
    OBVIOUS
  <2> DEFINE fr == SubSeq(s, 1, n)
             l == s[n + 1]
  <2>1. fr \in Seq(LineSet) /\ Len(fr) = n /\ l \in LineSet /\ s = Append(fr, l)
    OBVIOUS
  <2>2. Render(fr) \in Seq(Symbol)
    BY <1>2, <2>1
  <2> HIDE DEF fr, l
  <2>3. Render(s) = Render(fr) \o (l.raw \o l.end)
    BY <2>1, <2>2, RenderAppend
  <2>4. l.raw \o l.end \in Seq(Symbol)
    BY <2>1, LineParts
  <2> QED
    BY <2>2, <2>3, <2>4
<1> HIDE DEF T
<1>3. Len(ls) \in Nat /\ Len(ls) \in T
  BY <1>1, <1>2, InductNat
<1> QED
  BY <1>3 DEF T

\* All lines have an end.
Closed(fr) == fr \in Seq(LineSet) /\ Chain(fr) /\ \A i \in 1..Len(fr) : fr[i].end # <<>>

Open(r) == [raw |-> r, end |-> <<>>]

\* The lines of a text are a prefix of closed lines and an open one.
LEMMA ClosedAppend ==
    ASSUME NEW fr, Closed(fr), NEW l \in LineSet, l.end # <<>>,
           Len(fr) > 0 /\ fr[Len(fr)].end = <<CR>> /\ l.raw = <<>> => l.end # <<LF>>
    PROVE  Closed(Append(fr, l))
<1> DEFINE p == Append(fr, l)
           n == Len(fr)
<1>1. fr \in Seq(LineSet) /\ n \in Nat /\ p \in Seq(LineSet) /\ Len(p) = n + 1 /\ p[n + 1] = l
      /\ \A i \in 1..n : p[i] = fr[i]
  BY DEF Closed
<1> HIDE DEF p
<1>2. \A i \in 1..n : fr[i].end # <<>>
  BY DEF Closed
<1>3. \A i \in 1..(n - 1) : fr[i].end = <<CR>> /\ fr[i + 1].raw = <<>> => fr[i + 1].end # <<LF>>
  BY DEF Closed, Chain
<1>4. \A i \in 1..Len(p) : p[i].end # <<>>
  BY <1>1, <1>2
<1>5. ASSUME NEW i \in 1..(Len(p) - 1)
      PROVE  p[i].end = <<CR>> /\ p[i + 1].raw = <<>> => p[i + 1].end # <<LF>>
  <2>1. i \in 1..n /\ p[i] = fr[i]
    BY <1>1
  <2>2. CASE i = n
    BY <1>1, <2>1, <2>2
  <2>3. CASE i # n
    <3>1. i \in 1..(n - 1) /\ i + 1 \in 1..n
      BY <2>1, <2>3, <1>1
    <3>2. p[i + 1] = fr[i + 1]
      BY <1>1, <3>1
    <3> QED
      BY <1>3, <2>1, <3>1, <3>2
  <2> QED
    BY <2>2, <2>3
<1>6. Chain(p)
  <2>1. \A i \in 1..(Len(p) - 1) : i \in 1..Len(p)
    BY <1>1
  <2> QED
    BY <1>4, <1>5, <2>1 DEF Chain
<1>7. Closed(p)
  BY <1>1, <1>4, <1>6 DEF Closed
<1> QED
  BY <1>7 DEF p

\* All lines but the last are closed.
LEMMA ClosedFront ==
    ASSUME NEW fr, NEW n \in Nat, NEW ls \in Seq(LineSet), Chain(ls), Len(ls) = n + 1, fr = SubSeq(ls, 1, n)
    PROVE  /\ Closed(fr) /\ Len(fr) = n /\ ls = Append(fr, ls[n + 1]) /\ ls[n + 1] \in LineSet
           /\ Len(fr) > 0 /\ fr[Len(fr)].end = <<CR>> /\ ls[n + 1].raw = <<>> => ls[n + 1].end # <<LF>>
<1>1. fr \in Seq(LineSet) /\ Len(fr) = n /\ ls[n + 1] \in LineSet /\ \A i \in 1..n : fr[i] = ls[i]
  OBVIOUS
<1>2. ls = Append(fr, ls[n + 1])
  OBVIOUS
<1>3. \A i \in 1..n : ls[i].end # <<>> /\ (ls[i].end = <<CR>> /\ ls[i + 1].raw = <<>> => ls[i + 1].end # <<LF>>)
  BY DEF Chain
<1>4. \A i \in 1..Len(fr) : fr[i].end # <<>>
  BY <1>1, <1>3
<1>5. Chain(fr)
  <2> SUFFICES ASSUME NEW i \in 1..(n - 1)
               PROVE  fr[i].end # <<>> /\ (fr[i].end = <<CR>> /\ fr[i + 1].raw = <<>> => fr[i + 1].end # <<LF>>)
    BY <1>1 DEF Chain
  <2>1. i \in 1..n /\ i + 1 \in 1..n
    OBVIOUS
  <2> QED
    BY <1>1, <1>3, <2>1
<1>6. Len(fr) > 0 => fr[Len(fr)] = ls[n] /\ n \in 1..n
  BY <1>1
<1> QED
  BY <1>1, <1>2, <1>3, <1>4, <1>5, <1>6 DEF Closed

\* What splitLines makes of any text.
LEMMA SplitIs ==
    ASSUME NEW doc \in Seq(Symbol)
    PROVE  \E fr, r : /\ Closed(fr) /\ r \in Seq(Ink)
                      /\ splitLines(doc) = Append(fr, Open(r))
                      /\ Render(fr) \o r = doc
<1> DEFINE Good(d) == \E fr, r : /\ Closed(fr) /\ r \in Seq(Ink)
                                 /\ splitLines(d) = Append(fr, Open(r))
                                 /\ Render(fr) \o r = d
           T == {n \in Nat : \A d \in Seq(Symbol) : Len(d) = n => Good(d)}
<1>1. 0 \in T
  <2> SUFFICES ASSUME NEW d \in Seq(Symbol), Len(d) = 0 PROVE Good(d)
    OBVIOUS
  <2>1. d = <<>>
    OBVIOUS
  <2>2. splitLines(<<>>) = <<NoLine>>
    BY ScanAppend, <2>1, LineParts
  <2>3. <<NoLine>> = Append(<<>>, Open(<<>>))
    BY DEF Open, NoLine
  <2>4. Closed(<<>>) /\ <<>> \in Seq(Ink)
    BY DEF Closed, Chain
  <2>5. Render(<<>>) \o <<>> = <<>>
    BY RenderEmpty
  <2> QED
    BY <2>1, <2>2, <2>3, <2>4, <2>5
<1>2. ASSUME NEW n \in Nat, n \in T PROVE n + 1 \in T
  <2>0. n + 1 \in Nat
    OBVIOUS
  <2> SUFFICES ASSUME NEW d \in Seq(Symbol), Len(d) = n + 1 PROVE Good(d)
    BY <2>0, Zenon
  <2> DEFINE cut == SubSeq(d, 1, n)
             x == d[n + 1]
  <2>1. cut \in Seq(Symbol) /\ Len(cut) = n /\ x \in Symbol /\ d = Append(cut, x)
    OBVIOUS
  <2>2. Good(cut)
    BY <1>2, <2>1
  <2> HIDE DEF cut, x
  <2>3. PICK fr, r : /\ Closed(fr) /\ r \in Seq(Ink)
                     /\ splitLines(cut) = Append(fr, Open(r))
                     /\ Render(fr) \o r = cut
    BY <2>2
  <2>4. splitLines(d) = AddSymbol(Append(fr, Open(r)), x)
    BY <2>1, <2>3, ScanAppend
  <2>5. fr \in Seq(LineSet) /\ Render(fr) \in Seq(Symbol) /\ r \in Seq(Symbol)
    BY <2>3, RenderType, LineParts DEF Closed
  <2>6. CASE x \in Ink
    <3>1. splitLines(d) = Append(fr, Open(Append(r, x)))
      BY <2>3, <2>4, <2>5, <2>6, AddInk DEF Open
    <3>2. Append(r, x) \in Seq(Ink)
      BY <2>3, <2>6
    <3>3. Render(fr) \o Append(r, x) = d
      <4>1. Render(fr) \o Append(r, x) = Append(Render(fr) \o r, x)
        BY <2>1, <2>5
      <4> QED
        BY <2>1, <2>3, <4>1
    <3> QED
      BY <2>3, <3>1, <3>2, <3>3
  <2>7. CASE x \in Ends /\ ~(x = LF /\ Len(fr) > 0 /\ r = <<>> /\ fr[Len(fr)].end = <<CR>>)
    <3> DEFINE l == [raw |-> r, end |-> <<x>>]
    <3>1. splitLines(d) = Append(Append(fr, l), NoLine)
      BY <2>3, <2>4, <2>5, <2>7, AddEnd DEF Open
    <3>2. l \in LineSet /\ l.end # <<>> /\ l.raw = r /\ l.end = <<x>> /\ (l.end = <<LF>> => x = LF)
      BY <2>3, <2>7, LineParts
    <3> HIDE DEF l
    <3>3. Closed(Append(fr, l))
      BY <2>3, <2>7, <3>2, ClosedAppend
    <3>4. Render(Append(fr, l)) \o <<>> = d
      <4>1. Render(Append(fr, l)) = Render(fr) \o (r \o <<x>>)
        BY <2>5, <3>2, RenderAppend
      <4>2. Render(fr) \o (r \o <<x>>) = Append(Render(fr) \o r, x)
        BY <2>1, <2>5
      <4>3. Append(cut, x) \o <<>> = Append(cut, x)
        BY <2>1
      <4> QED
        BY <2>1, <2>3, <4>1, <4>2, <4>3
    <3>5. NoLine = Open(<<>>) /\ <<>> \in Seq(Ink)
      BY DEF NoLine, Open
    <3> QED
      BY <3>1, <3>3, <3>4, <3>5
  <2>8. CASE x = LF /\ Len(fr) > 0 /\ r = <<>> /\ fr[Len(fr)].end = <<CR>>
    <3> DEFINE m == Len(fr) - 1
               back == SubSeq(fr, 1, m)
               y == fr[m + 1]
               l == [raw |-> y.raw, end |-> <<CR, LF>>]
    <3>1. m \in Nat /\ Len(fr) = m + 1 /\ Chain(fr)
      BY <2>3, <2>5, <2>8 DEF Closed
    <3>2. Closed(back) /\ Len(back) = m /\ fr = Append(back, y) /\ y \in LineSet
      BY <2>5, <3>1, ClosedFront, Zenon
    <3>3. y.end = <<CR>> /\ y = [raw |-> y.raw, end |-> y.end] /\ y.raw \in Seq(Ink)
      BY <2>8, <3>1, <3>2, LineParts
    <3>4. l \in LineSet /\ l.raw = y.raw /\ l.end = <<CR, LF>> /\ l.end # <<>> /\ l.end # <<LF>>
      <4>1. l \in LineSet
        BY <3>3, LineParts
      <4> QED
        BY <4>1
    <3> HIDE DEF m, back, y, l
    <3>5. Closed(Append(back, l))
      BY <3>2, <3>4, ClosedAppend
    <3>6. back \in Seq(LineSet) /\ Render(back) \in Seq(Symbol) /\ y.raw \in Seq(Symbol) /\ LF \in Symbol /\ CR \in Symbol
      BY <3>2, <3>3, RenderType, LineParts DEF Closed
    <3>7. splitLines(d) = Append(Append(back, l), NoLine)
      <4>1. Open(r) = NoLine /\ y = [raw |-> y.raw, end |-> <<CR>>] /\ l = [raw |-> y.raw, end |-> <<CR, LF>>]
        BY <2>8, <3>3 DEF Open, NoLine, l
      <4>2. splitLines(d) = AddSymbol(Append(Append(back, y), NoLine), LF)
        BY <2>4, <2>8, <3>2, <4>1
      <4> QED
        BY <3>3, <3>6, <4>1, <4>2, AddJoin
    <3>8. Render(Append(back, l)) \o <<>> = d
      <4>1. Render(Append(back, l)) = Render(back) \o (y.raw \o <<CR, LF>>)
        BY <3>4, <3>6, RenderAppend
      <4>2. Render(fr) = Render(back) \o (y.raw \o <<CR>>)
        BY <3>2, <3>3, <3>6, RenderAppend
      <4>3. cut = Render(fr)
        BY <2>3, <2>5, <2>8
      <4>4. y.raw \o <<CR, LF>> = Append(y.raw \o <<CR>>, LF) /\ y.raw \o <<CR>> \in Seq(Symbol)
        <5>1. <<CR>> \in Seq(Symbol) /\ <<CR, LF>> = Append(<<CR>>, LF)
          BY <3>6
        <5>2. y.raw \o Append(<<CR>>, LF) = Append(y.raw \o <<CR>>, LF)
          <6> DEFINE u == y.raw
                     w == <<CR>>
          <6>1. u \in Seq(Symbol) /\ w \in Seq(Symbol) /\ LF \in Symbol
            BY <3>6, <5>1
          <6> HIDE DEF u, w
          <6>2. u \o Append(w, LF) = Append(u \o w, LF)
            BY <6>1, AppendConcat
          <6> QED
            BY <6>2 DEF u, w
        <5>3. y.raw \o <<CR>> \in Seq(Symbol)
          BY <3>6, <5>1, ConcatProperties
        <5> QED
          BY <5>1, <5>2, <5>3
      <4>5. \A w \in Seq(Symbol) : Render(back) \o Append(w, LF) = Append(Render(back) \o w, LF)
        BY <3>6, AppendConcat
      <4>6. Render(Append(back, l)) = d
        BY <2>1, <2>8, <4>1, <4>2, <4>3, <4>4, <4>5
      <4> QED
        BY <4>6
    <3>9. NoLine = Open(<<>>) /\ <<>> \in Seq(Ink)
      BY DEF NoLine, Open
    <3> QED
      BY <3>5, <3>7, <3>8, <3>9
  <2> QED
    BY <2>1, <2>6, <2>7, <2>8, LineParts
<1> HIDE DEF T, Good
<1>3. Len(doc) \in Nat /\ Len(doc) \in T
  BY <1>1, <1>2, InductNat
<1>4. Good(doc)
  BY <1>3 DEF T
<1> QED
  BY <1>4 DEF Good

\* Symbols that end no line only make the last one longer.
LEMMA ScanInk ==
    ASSUME NEW doc \in Seq(Symbol), NEW fr \in Seq(LineSet), splitLines(doc) = Append(fr, NoLine),
           NEW r \in Seq(Ink)
    PROVE  splitLines(doc \o r) = Append(fr, Open(r))
<1> DEFINE T == {n \in Nat : \A s \in Seq(Ink) : Len(s) = n => splitLines(doc \o s) = Append(fr, Open(s))}
<1>1. 0 \in T
  <2> SUFFICES ASSUME NEW s \in Seq(Ink), Len(s) = 0 PROVE splitLines(doc \o s) = Append(fr, Open(s))
    OBVIOUS
  <2>1. s = <<>> /\ doc \o <<>> = doc
    OBVIOUS
  <2> QED
    BY <2>1 DEF Open, NoLine
<1>2. ASSUME NEW n \in Nat, n \in T PROVE n + 1 \in T
  <2> SUFFICES ASSUME NEW s \in Seq(Ink), Len(s) = n + 1 PROVE splitLines(doc \o s) = Append(fr, Open(s))
    OBVIOUS
  <2> DEFINE cut == SubSeq(s, 1, n)
             x == s[n + 1]
  <2>1. cut \in Seq(Ink) /\ Len(cut) = n /\ x \in Ink /\ s = Append(cut, x)
    OBVIOUS
  <2>2. splitLines(doc \o cut) = Append(fr, Open(cut))
    BY <1>2, <2>1
  <2> HIDE DEF cut, x
  <2>3. cut \in Seq(Symbol) /\ x \in Symbol /\ doc \o cut \in Seq(Symbol)
    BY <2>1, LineParts
  <2>4. doc \o s = Append(doc \o cut, x)
    BY <2>1, <2>3
  <2>5. splitLines(doc \o s) = AddSymbol(Append(fr, Open(cut)), x)
    BY <2>2, <2>3, <2>4, ScanAppend
  <2> QED
    BY <2>1, <2>5, AddInk DEF Open
<1> HIDE DEF T
<1>3. \A n \in Nat : n \in T
  BY <1>1, <1>2, InductNat
<1>4. Len(r) \in Nat /\ Len(r) \in T
  BY <1>3
<1> QED
  BY <1>4 DEF T

\* Lines that all have their end are read back as they were written, with an
\* empty one after them.
LEMMA ClosedReadsBack ==
    ASSUME NEW ls, Closed(ls)
    PROVE  splitLines(Render(ls)) = Append(ls, NoLine)
<1> DEFINE T == {n \in Nat : \A s : Closed(s) /\ Len(s) = n => splitLines(Render(s)) = Append(s, NoLine)}
<1>1. 0 \in T
  <2> SUFFICES ASSUME NEW s, Closed(s), Len(s) = 0 PROVE splitLines(Render(s)) = Append(s, NoLine)
    OBVIOUS
  <2>1. s = <<>>
    BY DEF Closed
  <2>2. <<>> \in Seq(Symbol) /\ LF \in Symbol
    BY LineParts
  <2>3. splitLines(<<>>) = <<NoLine>>
    BY <2>2, ScanAppend
  <2> QED
    BY <2>1, <2>3, RenderEmpty
<1>2. ASSUME NEW n \in Nat, n \in T PROVE n + 1 \in T
  <2> SUFFICES ASSUME NEW s, Closed(s), Len(s) = n + 1 PROVE splitLines(Render(s)) = Append(s, NoLine)
    OBVIOUS
  <2> DEFINE fr == SubSeq(s, 1, n)
             l == s[n + 1]
  <2>1. s \in Seq(LineSet) /\ Chain(s) /\ n + 1 \in 1..Len(s) /\ l.end # <<>>
    BY DEF Closed
  <2>2. /\ Closed(fr) /\ Len(fr) = n /\ s = Append(fr, l) /\ l \in LineSet
        /\ Len(fr) > 0 /\ fr[Len(fr)].end = <<CR>> /\ l.raw = <<>> => l.end # <<LF>>
    BY <2>1, ClosedFront, Zenon
  <2>3. splitLines(Render(fr)) = Append(fr, NoLine)
    BY <1>2, <2>2
  <2> HIDE DEF fr, l
  <2>4. fr \in Seq(LineSet) /\ Render(fr) \in Seq(Symbol) /\ l.raw \in Seq(Ink) /\ l.raw \in Seq(Symbol)
        /\ l = [raw |-> l.raw, end |-> l.end] /\ LF \in Symbol /\ CR \in Symbol /\ LF \in Ends /\ CR \in Ends
    BY <2>2, RenderType, LineParts DEF Closed
  <2> DEFINE d == Render(fr) \o l.raw
  <2>5. d \in Seq(Symbol) /\ splitLines(d) = Append(fr, Open(l.raw))
    <3>1. d \in Seq(Symbol)
      BY <2>4
    <3>2. splitLines(Render(fr) \o l.raw) = Append(fr, Open(l.raw))
      BY <2>3, <2>4, ScanInk
    <3> QED
      BY <3>1, <3>2
  <2>6. Render(s) = Render(fr) \o (l.raw \o l.end)
    BY <2>2, <2>4, RenderAppend
  <2>7. CASE l.end = <<LF>>
    <3>1. Render(s) = Append(d, LF)
      BY <2>4, <2>6, <2>7
    <3>2. ~(LF = LF /\ Len(fr) > 0 /\ l.raw = <<>> /\ fr[Len(fr)].end = <<CR>>)
      BY <2>2, <2>7
    <3>3. AddSymbol(Append(fr, Open(l.raw)), LF) = Append(Append(fr, [raw |-> l.raw, end |-> <<LF>>]), NoLine)
      BY <2>4, <3>2, AddEnd DEF Open
    <3> HIDE DEF d
    <3>4. splitLines(Render(s)) = AddSymbol(Append(fr, Open(l.raw)), LF)
      BY <2>4, <2>5, <3>1, ScanAppend
    <3>5. [raw |-> l.raw, end |-> <<LF>>] = l
      BY <2>4, <2>7
    <3> QED
      BY <2>2, <3>3, <3>4, <3>5
  <2>8. AddSymbol(Append(fr, Open(l.raw)), CR) = Append(Append(fr, [raw |-> l.raw, end |-> <<CR>>]), NoLine)
    BY <2>4, SymbolsDiffer, AddEnd DEF Open
  <2>9. CASE l.end = <<CR>>
    <3>1. Render(s) = Append(d, CR)
      BY <2>4, <2>6, <2>9
    <3> HIDE DEF d
    <3>2. splitLines(Render(s)) = AddSymbol(Append(fr, Open(l.raw)), CR)
      BY <2>4, <2>5, <3>1, ScanAppend
    <3>3. [raw |-> l.raw, end |-> <<CR>>] = l
      BY <2>4, <2>9
    <3> QED
      BY <2>2, <2>8, <3>2, <3>3
  <2>10. CASE l.end = <<CR, LF>>
    <3>1. l.raw \o <<CR, LF>> = Append(Append(l.raw, CR), LF)
      BY <2>4
    <3>2. \A w \in Seq(Symbol), x \in Symbol : Render(fr) \o Append(w, x) = Append(Render(fr) \o w, x)
      BY <2>4
    <3>3. Append(l.raw, CR) \in Seq(Symbol)
      BY <2>4
    <3>4. Render(s) = Append(Append(d, CR), LF)
      BY <2>4, <2>6, <2>10, <3>1, <3>2, <3>3
    <3> HIDE DEF d
    <3>5. Append(d, CR) \in Seq(Symbol)
      BY <2>4, <2>5
    <3>6. splitLines(Append(d, CR)) = Append(Append(fr, [raw |-> l.raw, end |-> <<CR>>]), NoLine)
      BY <2>4, <2>5, <2>8, ScanAppend
    <3>7. splitLines(Render(s)) = AddSymbol(Append(Append(fr, [raw |-> l.raw, end |-> <<CR>>]), NoLine), LF)
      BY <2>4, <3>4, <3>5, <3>6, ScanAppend
    <3>8. splitLines(Render(s)) = Append(Append(fr, [raw |-> l.raw, end |-> <<CR, LF>>]), NoLine)
      BY <2>4, <3>7, AddJoin
    <3>9. [raw |-> l.raw, end |-> <<CR, LF>>] = l
      BY <2>4, <2>10
    <3> QED
      BY <2>2, <3>8, <3>9
  <2> QED
    BY <2>1, <2>2, <2>7, <2>9, <2>10, LineParts DEF l
<1> HIDE DEF T
<1>3. Len(ls) \in Nat /\ Len(ls) \in T
  BY <1>1, <1>2, InductNat DEF Closed
<1> QED
  BY <1>3 DEF T

\* Lines of which at most the last has no end are read back as they were
\* written, with an empty one after them if the last has its end.
LEMMA ReadsBack ==
    ASSUME NEW ls \in Seq(LineSet), Chain(ls)
    PROVE  splitLines(Render(ls)) =
             IF ls # <<>> /\ ls[Len(ls)].end = <<>> THEN ls ELSE Append(ls, NoLine)
<1>1. Len(ls) \in Nat
  OBVIOUS
<1>2. CASE ls # <<>> /\ ls[Len(ls)].end = <<>>
  <2> DEFINE n == Len(ls) - 1
             fr == SubSeq(ls, 1, n)
             l == ls[n + 1]
  <2>1. n \in Nat /\ Len(ls) = n + 1
    BY <1>2
  <2>2. Closed(fr) /\ ls = Append(fr, l) /\ l \in LineSet
    BY <2>1, ClosedFront, Zenon
  <2>3. l.end = <<>>
    BY <1>2, <2>1
  <2> HIDE DEF n, fr, l
  <2>4. fr \in Seq(LineSet) /\ Render(fr) \in Seq(Symbol) /\ l.raw \in Seq(Ink) /\ l.raw \in Seq(Symbol)
        /\ l = [raw |-> l.raw, end |-> l.end]
    BY <2>2, RenderType, LineParts DEF Closed
  <2>5. Render(ls) = Render(fr) \o l.raw
    <3>1. Render(ls) = Render(fr) \o (l.raw \o l.end)
      BY <2>2, <2>4, RenderAppend
    <3> QED
      BY <2>3, <2>4, <3>1
  <2>6. splitLines(Render(fr)) = Append(fr, NoLine)
    BY <2>2, ClosedReadsBack
  <2>7. splitLines(Render(ls)) = Append(fr, Open(l.raw))
    BY <2>4, <2>5, <2>6, ScanInk
  <2>8. Open(l.raw) = l
    BY <2>3, <2>4 DEF Open
  <2> QED
    BY <1>2, <2>2, <2>7, <2>8
<1>3. CASE ~(ls # <<>> /\ ls[Len(ls)].end = <<>>)
  <2>1. \A i \in 1..Len(ls) : ls[i].end # <<>>
    <3> SUFFICES ASSUME NEW i \in 1..Len(ls) PROVE ls[i].end # <<>>
      OBVIOUS
    <3>1. i \in 1..(Len(ls) - 1) \/ (i = Len(ls) /\ ls # <<>>)
      BY <1>1
    <3> QED
      BY <1>3, <3>1 DEF Chain
  <2>2. Closed(ls)
    BY <2>1 DEF Closed
  <2> QED
    BY <1>3, <2>2, ClosedReadsBack
<1> QED
  BY <1>2, <1>3

-----------------------------------------------------------------------------
(* Trim, and the places a file's lines are picked from.                    *)

\* A set of positions has a first and a last one.
LEMMA Extremes ==
    ASSUME NEW n \in Nat, NEW K, K \subseteq 1..n, K # {}
    PROVE  /\ Min(K) \in K /\ \A j \in K : Min(K) <= j
           /\ Max(K) \in K /\ \A j \in K : j <= Max(K)
<1> DEFINE Both(L) == \E a, b \in L : \A j \in L : a <= j /\ j <= b
           T == {m \in Nat : \A L \in SUBSET (1..m) : L # {} => Both(L)}
<1>1. 0 \in T
  <2>1. \A L \in SUBSET (1..0) : L = {}
    OBVIOUS
  <2> HIDE DEF Both
  <2> QED
    BY <2>1
<1>2. ASSUME NEW m \in Nat, m \in T PROVE m + 1 \in T
  <2> SUFFICES ASSUME NEW L \in SUBSET (1..(m + 1)), L # {} PROVE Both(L)
    <3> HIDE DEF Both
    <3> QED
      OBVIOUS
  <2> DEFINE M == L \ {m + 1}
  <2>1. M \subseteq 1..m
    OBVIOUS
  <2>2. CASE M = {}
    <3>1. L = {m + 1}
      BY <2>2
    <3> QED
      BY <3>1
  <2>3. CASE M # {}
    <3>1. PICK a, b \in M : \A j \in M : a <= j /\ j <= b
      BY <1>2, <2>1, <2>3
    <3>2. CASE m + 1 \in L
      <4>1. \A j \in L : a <= j /\ j <= m + 1
        BY <2>1, <3>1, <3>2
      <4> QED
        BY <3>1, <3>2, <4>1
    <3>3. CASE m + 1 \notin L
      <4>1. M = L
        BY <3>3
      <4> QED
        BY <3>1, <4>1
    <3> QED
      BY <3>2, <3>3
  <2> QED
    BY <2>2, <2>3
<1> HIDE DEF T, Both
<1>3. n \in T
  BY <1>1, <1>2, InductNat
<1>4. PICK a, b \in K : \A j \in K : a <= j /\ j <= b
  <2>1. Both(K)
    BY <1>3 DEF T
  <2> QED
    BY <2>1 DEF Both
<1>5. Min(K) \in K /\ \A j \in K : Min(K) <= j
  BY <1>4 DEF Min
<1>6. Max(K) \in K /\ \A j \in K : j <= Max(K)
  <2>1. \E x \in K : \A j \in K : x >= j
    BY <1>4
  <2>2. Max(K) \in K /\ \A j \in K : Max(K) >= j
    BY <2>1, Zenon DEF Max
  <2> QED
    BY <2>2
<1> QED
  BY <1>5, <1>6

\* s from a + 1 to b is what is left of s without the spaces around it.
Core(s, a, b) ==
    /\ a \in Nat /\ b \in Nat /\ a <= b /\ b <= Len(s)
    /\ \A i \in 1..Len(s) : i <= a \/ b < i => s[i] = Space
    /\ a < b => s[a + 1] # Space /\ s[b] # Space

\* Trim gives what lies between the outermost symbols that are not spaces.
LEMMA TrimIs ==
    ASSUME NEW s \in Seq(Symbol)
    PROVE  \E a, b : Core(s, a, b) /\ Trim(s) = SubSeq(s, a + 1, b)
<1> DEFINE K == {i \in DOMAIN s : s[i] # Space}
<1>1. Len(s) \in Nat /\ DOMAIN s = 1..Len(s) /\ K \subseteq 1..Len(s)
  OBVIOUS
<1>2. CASE K = {}
  <2>1. \A i \in 1..Len(s) : s[i] = Space
    BY <1>1, <1>2
  <2>2. Core(s, 0, 0)
    BY <1>1, <2>1 DEF Core
  <2>3. Trim(s) = <<>>
    BY <1>2 DEF Trim
  <2>4. SubSeq(s, 0 + 1, 0) = <<>>
    OBVIOUS
  <2> QED
    BY <2>2, <2>3, <2>4
<1>3. CASE K # {}
  <2> DEFINE a == Min(K) - 1
             b == Max(K)
  <2>1. Min(K) \in K /\ Max(K) \in K /\ \A j \in K : Min(K) <= j /\ j <= Max(K)
    BY <1>1, <1>3, Extremes
  <2> HIDE DEF K
  <2>2. a \in Nat /\ b \in Nat /\ a + 1 = Min(K) /\ a < b /\ b <= Len(s)
    <3>1. Min(K) \in 1..Len(s) /\ Max(K) \in 1..Len(s) /\ Min(K) <= Max(K)
      BY <1>1, <2>1
    <3>2. \A p, q \in 1..Len(s) : p <= q => p - 1 \in Nat /\ q \in Nat /\ (p - 1) + 1 = p /\ p - 1 < q /\ q <= Len(s)
      BY <1>1
    <3> QED
      BY <3>1, <3>2
  <2>3. ASSUME NEW i \in 1..Len(s), i <= a \/ b < i PROVE s[i] = Space
    <3>1. i \notin K
      BY <2>1, <2>2, <2>3, <1>1
    <3> QED
      BY <1>1, <3>1 DEF K
  <2>4. s[a + 1] # Space /\ s[b] # Space
    BY <2>1, <2>2 DEF K
  <2>5. Core(s, a, b)
    <3> HIDE DEF a, b
    <3> QED
      BY <2>2, <2>3, <2>4 DEF Core
  <2>6. Trim(s) = SubSeq(s, a + 1, b)
    <3>1. Trim(s) = SubSeq(s, Min(K), Max(K))
      BY <1>3 DEF Trim, K
    <3> QED
      BY <2>2, <3>1
  <2> HIDE DEF a, b
  <2> QED
    BY <2>5, <2>6
<1> QED
  BY <1>2, <1>3

\* There is only one such part, but for an empty one.
LEMMA CoreTrims ==
    ASSUME NEW s \in Seq(Symbol), NEW a, NEW b, Core(s, a, b)
    PROVE  Trim(s) = SubSeq(s, a + 1, b)
<1>1. PICK cut, d : Core(s, cut, d) /\ Trim(s) = SubSeq(s, cut + 1, d)
  BY TrimIs, Zenon
<1>2. /\ a \in Nat /\ b \in Nat /\ a <= b /\ b <= Len(s) /\ Len(s) \in Nat
      /\ \A i \in 1..Len(s) : i <= a \/ b < i => s[i] = Space
      /\ a < b => s[a + 1] # Space /\ s[b] # Space
  BY DEF Core
<1>3. /\ cut \in Nat /\ d \in Nat /\ cut <= d /\ d <= Len(s)
      /\ \A i \in 1..Len(s) : i <= cut \/ d < i => s[i] = Space
      /\ cut < d => s[cut + 1] # Space /\ s[d] # Space
  BY <1>1 DEF Core
<1>4. CASE a = b
  <2>1. \A i \in 1..Len(s) : s[i] = Space
    BY <1>2, <1>4
  <2>2. cut = d
    <3> SUFFICES ASSUME cut < d PROVE FALSE
      BY <1>3
    <3>1. d \in 1..Len(s)
      BY <1>3
    <3> QED
      BY <1>3, <2>1, <3>1
  <2>3. SubSeq(s, a + 1, b) = <<>> /\ SubSeq(s, cut + 1, d) = <<>>
    BY <1>2, <1>3, <1>4, <2>2
  <2> QED
    BY <1>1, <2>3
<1>5. CASE a < b
  <2>1. a + 1 \in 1..Len(s) /\ b \in 1..Len(s)
    BY <1>2, <1>5
  <2>2. s[a + 1] # Space /\ s[b] # Space
    BY <1>2, <1>5
  <2>3. cut < a + 1 /\ a + 1 <= d /\ cut < b /\ b <= d
    BY <1>2, <1>3, <2>1, <2>2
  <2>4. cut + 1 \in 1..Len(s) /\ d \in 1..Len(s) /\ cut < d
    BY <1>2, <1>3, <2>3
  <2>5. s[cut + 1] # Space /\ s[d] # Space
    BY <1>3, <2>4
  <2>6. a < cut + 1 /\ cut + 1 <= b /\ a < d /\ d <= b
    BY <1>2, <1>3, <2>4, <2>5
  <2>7. a = cut /\ b = d
    BY <1>2, <1>3, <2>3, <2>6
  <2> QED
    BY <1>1, <2>7
<1> QED
  BY <1>2, <1>4, <1>5

\* What is cut out, and what a cut has of the symbols of the whole.
LEMMA CutIs ==
    ASSUME NEW S, NEW s \in Seq(S), NEW a \in Nat, NEW b \in Nat, a <= b, b <= Len(s)
    PROVE  /\ SubSeq(s, a + 1, b) \in Seq(S) /\ Len(SubSeq(s, a + 1, b)) = b - a
           /\ \A i \in 1..(b - a) : SubSeq(s, a + 1, b)[i] = s[a + i]
<1>1. \A i \in (a + 1)..b : s[i] \in S
  OBVIOUS
<1>2. a + 1 \in Int /\ b \in Int
  OBVIOUS
<1>3. /\ SubSeq(s, a + 1, b) \in Seq(S)
      /\ Len(SubSeq(s, a + 1, b)) = IF a + 1 <= b THEN b - (a + 1) + 1 ELSE 0
  BY <1>1, <1>2, SubSeqProperties
<1>4. Len(SubSeq(s, a + 1, b)) = b - a
  BY <1>3
<1>5. \A i \in 1..(b - a) : SubSeq(s, a + 1, b)[i] = s[a + i]
  OBVIOUS
<1> QED
  BY <1>3, <1>4, <1>5

\* The first symbols of a sequence.
LEMMA PrefixIs ==
    ASSUME NEW S, NEW s \in Seq(S), NEW n \in Nat, n <= Len(s)
    PROVE  /\ SubSeq(s, 1, n) \in Seq(S) /\ Len(SubSeq(s, 1, n)) = n
           /\ \A i \in 1..n : SubSeq(s, 1, n)[i] = s[i]
<1> DEFINE a == 0
           t == SubSeq(s, a + 1, n)
<1>1. a \in Nat /\ a <= n /\ a + 1 = 1 /\ n - a = n /\ \A i \in 1..n : a + i = i
  OBVIOUS
<1> HIDE DEF a
<1>2. t \in Seq(S) /\ Len(t) = n - a /\ \A i \in 1..(n - a) : t[i] = s[a + i]
  BY <1>1, CutIs
<1>3. t = SubSeq(s, 1, n)
  BY <1>1
<1> HIDE DEF t
<1>4. t \in Seq(S) /\ Len(t) = n /\ \A i \in 1..n : t[i] = s[i]
  BY <1>1, <1>2
<1> QED
  BY <1>3, <1>4

\* What Trim gives and what it leaves out.
LEMMA TrimFacts ==
    ASSUME NEW S, S \subseteq Symbol, NEW s \in Seq(S)
    PROVE  LET t == Trim(s) IN
           /\ t \in Seq(S)
           /\ t # <<>> => t[1] # Space /\ t[Len(t)] # Space
           /\ \A x : x # Space => (Has(t, x) <=> Has(s, x))
           /\ \E a \in Nat : /\ a + Len(t) <= Len(s)
                             /\ \A i \in 1..Len(t) : t[i] = s[a + i]
                             /\ \A i \in 1..Len(s) : i <= a \/ a + Len(t) < i => s[i] = Space
<1>0. s \in Seq(Symbol)
  OBVIOUS
<1>1. PICK a, b : Core(s, a, b) /\ Trim(s) = SubSeq(s, a + 1, b)
  BY <1>0, TrimIs, Zenon
<1>2. /\ a \in Nat /\ b \in Nat /\ a <= b /\ b <= Len(s) /\ Len(s) \in Nat
      /\ \A i \in 1..Len(s) : i <= a \/ b < i => s[i] = Space
      /\ a < b => s[a + 1] # Space /\ s[b] # Space
  BY <1>0, <1>1 DEF Core
<1> DEFINE t == Trim(s)
<1>3. t \in Seq(S) /\ Len(t) = b - a /\ \A i \in 1..(b - a) : t[i] = s[a + i]
  BY <1>1, <1>2, CutIs
<1> HIDE DEF t
<1>4. t # <<>> => t[1] # Space /\ t[Len(t)] # Space
  <2> SUFFICES ASSUME t # <<>> PROVE t[1] # Space /\ t[Len(t)] # Space
    OBVIOUS
  <2>1. a < b /\ 1 \in 1..(b - a) /\ b - a \in 1..(b - a) /\ a + (b - a) = b
    BY <1>2, <1>3
  <2> QED
    BY <1>2, <1>3, <2>1
<1>5. ASSUME NEW x, x # Space PROVE Has(t, x) <=> Has(s, x)
  <2>1. DOMAIN t = 1..(b - a) /\ DOMAIN s = 1..Len(s)
    BY <1>3
  <2>2. ASSUME Has(t, x) PROVE Has(s, x)
    <3>1. PICK i \in 1..(b - a) : t[i] = x
      BY <2>1, <2>2 DEF Has
    <3>2. a + i \in 1..Len(s)
      BY <1>2, <3>1
    <3> QED
      BY <1>3, <2>1, <3>1, <3>2 DEF Has
  <2>3. ASSUME Has(s, x) PROVE Has(t, x)
    <3>1. PICK i \in 1..Len(s) : s[i] = x
      BY <2>1, <2>3 DEF Has
    <3>2. ~(i <= a) /\ ~(b < i)
      BY <1>2, <1>5, <3>1
    <3>3. i - a \in 1..(b - a) /\ a + (i - a) = i
      BY <1>2, <3>1, <3>2
    <3>4. t[i - a] = x
      BY <1>3, <3>1, <3>3
    <3> QED
      BY <2>1, <3>3, <3>4 DEF Has
  <2> QED
    BY <2>2, <2>3
<1>6. \E e \in Nat : /\ e + Len(t) <= Len(s)
                     /\ \A i \in 1..Len(t) : t[i] = s[e + i]
                     /\ \A i \in 1..Len(s) : i <= e \/ e + Len(t) < i => s[i] = Space
  <2>1. a + Len(t) = b
    BY <1>2, <1>3
  <2> QED
    BY <1>2, <1>3, <2>1
<1> QED
  BY <1>3, <1>4, <1>5, <1>6 DEF t

\* Nothing is cut off where both ends are no spaces.
LEMMA TrimSame ==
    ASSUME NEW s \in Seq(Symbol), s # <<>> => s[1] # Space /\ s[Len(s)] # Space
    PROVE  Trim(s) = s
<1>1. Len(s) \in Nat /\ SubSeq(s, 0 + 1, Len(s)) = s
  OBVIOUS
<1>2. Core(s, 0, Len(s))
  <2>1. 0 < Len(s) => s # <<>> /\ 0 + 1 = 1
    OBVIOUS
  <2> QED
    BY <1>1, <2>1 DEF Core
<1> QED
  BY <1>1, <1>2, CoreTrims

\* The members of K up to y, which Nth counts.
UpTo(K, y) == {j \in K : j <= y}

\* The count of places grows with every member.
LEMMA UpToIs ==
    ASSUME NEW n \in Nat, NEW K \in SUBSET (1..n)
    PROVE  /\ IsFiniteSet(K) /\ Cardinality(K) \in Nat
           /\ \A y : IsFiniteSet(UpTo(K, y)) /\ Cardinality(UpTo(K, y)) \in 0..Cardinality(K)
           /\ \A y \in K : Cardinality(UpTo(K, y)) # 0
           /\ \A y, l \in K : y < l => Cardinality(UpTo(K, y)) < Cardinality(UpTo(K, l))
<1>1. IsFiniteSet(1..n)
  BY FS_Interval
<1>2. IsFiniteSet(K) /\ Cardinality(K) \in Nat
  BY <1>1, FS_Subset, FS_CardinalityType
<1>3. ASSUME NEW y PROVE IsFiniteSet(UpTo(K, y)) /\ Cardinality(UpTo(K, y)) \in 0..Cardinality(K)
  <2>1. UpTo(K, y) \in SUBSET K
    BY DEF UpTo
  <2>2. IsFiniteSet(UpTo(K, y)) /\ Cardinality(UpTo(K, y)) <= Cardinality(K)
    BY <1>2, <2>1, FS_Subset
  <2>3. Cardinality(UpTo(K, y)) \in Nat
    BY <2>2, FS_CardinalityType
  <2> QED
    BY <1>2, <2>2, <2>3
<1>4. ASSUME NEW y \in K PROVE Cardinality(UpTo(K, y)) # 0
  <2>1. y \in UpTo(K, y)
    BY DEF UpTo
  <2> QED
    BY <1>3, <2>1, FS_EmptySet
<1>5. ASSUME NEW y \in K, NEW l \in K, y < l
      PROVE  Cardinality(UpTo(K, y)) < Cardinality(UpTo(K, l))
  <2> DEFINE A == UpTo(K, y)
             B == UpTo(K, l)
  <2>1. A \in SUBSET B /\ l \in B /\ l \notin A
    <3>1. \A j \in K : j \in Nat
      OBVIOUS
    <3>2. \A j \in K : j <= y => j <= l
      BY <1>5, <3>1
    <3>3. l <= l /\ ~(l <= y)
      BY <1>5, <3>1
    <3> QED
      BY <3>2, <3>3 DEF UpTo
  <2>2. IsFiniteSet(B) /\ Cardinality(A) \in Nat /\ Cardinality(B) \in Nat
    <3>1. Cardinality(K) \in Nat
      BY <1>2
    <3> QED
      BY <1>3, <3>1
  <2> HIDE DEF A, B
  <2>3. Cardinality(A) <= Cardinality(B) /\ Cardinality(A) # Cardinality(B)
    <3>1. Cardinality(A) <= Cardinality(B) /\ (Cardinality(B) = Cardinality(A) => B = A)
      BY <2>1, <2>2, FS_Subset
    <3> QED
      BY <2>1, <3>1
  <2>4. Cardinality(A) < Cardinality(B)
    BY <2>2, <2>3
  <2> QED
    BY <2>4 DEF A, B
<1> QED
  BY <1>2, <1>3, <1>4, <1>5

\* Every number up to that of the members is the number of one of them.
LEMMA EveryRank ==
    ASSUME NEW n \in Nat, NEW K \in SUBSET (1..n), NEW m \in 1..Cardinality(K)
    PROVE  \E y \in K : Cardinality(UpTo(K, y)) = m
<1> DEFINE Full(L) == \A r \in 1..Cardinality(L) : \E y \in L : Cardinality(UpTo(L, y)) = r
           T == {i \in Nat : \A L \in SUBSET (1..i) : Full(L)}
<1>1. 0 \in T
  <2> SUFFICES ASSUME NEW L \in SUBSET (1..0) PROVE Full(L)
    <3> HIDE DEF Full
    <3> QED
      OBVIOUS
  <2>1. L = {}
    OBVIOUS
  <2>2. Cardinality(L) = 0
    BY <2>1, FS_EmptySet
  <2> QED
    BY <2>2
<1>2. ASSUME NEW i \in Nat, i \in T PROVE i + 1 \in T
  <2> SUFFICES ASSUME NEW L \in SUBSET (1..(i + 1)) PROVE Full(L)
    <3> HIDE DEF Full
    <3> QED
      OBVIOUS
  <2> DEFINE M == L \ {i + 1}
  <2>1. M \in SUBSET (1..i)
    OBVIOUS
  <2>2. Full(M)
    <3> HIDE DEF Full, M
    <3> QED
      BY <1>2, <2>1
  <2>3. CASE i + 1 \notin L
    <3>1. M = L
      BY <2>3
    <3> HIDE DEF Full, M
    <3> QED
      BY <2>2, <3>1
  <2>4. CASE i + 1 \in L
    <3>0. i + 1 \in Nat
      OBVIOUS
    <3>1. IsFiniteSet(L) /\ Cardinality(L) \in Nat
      BY <3>0, UpToIs
    <3>2. Cardinality(M) = Cardinality(L) - 1
      BY <2>4, <3>1, FS_RemoveElement
    <3>3. ASSUME NEW y \in M PROVE UpTo(L, y) = UpTo(M, y)
      <4>1. y \in 1..i /\ ~(i + 1 <= y)
        BY <2>1
      <4> QED
        BY <4>1 DEF UpTo
    <3>4. UpTo(L, i + 1) = L
      <4>1. \A j \in L : j <= i + 1
        OBVIOUS
      <4> QED
        BY <4>1 DEF UpTo
    <3>5. ASSUME NEW r \in 1..Cardinality(L) PROVE \E y \in L : Cardinality(UpTo(L, y)) = r
      <4>1. CASE r = Cardinality(L)
        BY <2>4, <3>4, <4>1
      <4>2. CASE r # Cardinality(L)
        <5>1. r \in 1..Cardinality(M)
          BY <3>1, <3>2, <4>2
        <5>2. PICK y \in M : Cardinality(UpTo(M, y)) = r
          BY <2>2, <5>1
        <5> QED
          BY <3>3, <5>2
      <4> QED
        BY <4>1, <4>2
    <3> QED
      BY <3>5
  <2> QED
    BY <2>3, <2>4
<1> HIDE DEF T, Full
<1>3. n \in T
  BY <1>1, <1>2, InductNat
<1>4. Full(K)
  BY <1>3 DEF T
<1> QED
  BY <1>4 DEF Full

\* Nth numbers the members of K in their order.
LEMMA NthIs ==
    ASSUME NEW n \in Nat, NEW K \in SUBSET (1..n)
    PROVE  /\ Cardinality(K) \in Nat
           /\ \A y \in K : /\ Cardinality(UpTo(K, y)) \in 1..Cardinality(K)
                           /\ Nth(K, Cardinality(UpTo(K, y))) = y
           /\ \A m \in 1..Cardinality(K) : /\ Nth(K, m) \in K
                                           /\ Cardinality(UpTo(K, Nth(K, m))) = m
           /\ \A m, r \in 1..Cardinality(K) : m < r => Nth(K, m) < Nth(K, r)
<1>1. /\ IsFiniteSet(K) /\ Cardinality(K) \in Nat
      /\ \A y : Cardinality(UpTo(K, y)) \in 0..Cardinality(K)
      /\ \A y \in K : Cardinality(UpTo(K, y)) # 0
      /\ \A y, l \in K : y < l => Cardinality(UpTo(K, y)) < Cardinality(UpTo(K, l))
  BY UpToIs
<1>2. ASSUME NEW m \in 1..Cardinality(K)
      PROVE  Nth(K, m) \in K /\ Cardinality(UpTo(K, Nth(K, m))) = m
  <2>1. \E y \in K : Cardinality(UpTo(K, y)) = m
    BY EveryRank
  <2> QED
    BY <2>1, Zenon DEF Nth, UpTo
<1>3. ASSUME NEW y \in K, NEW l \in K, Cardinality(UpTo(K, y)) = Cardinality(UpTo(K, l)) PROVE y = l
  <2>1. y \in Nat /\ l \in Nat
    OBVIOUS
  <2>2. ~(y < l) /\ ~(l < y)
    <3>1. Cardinality(UpTo(K, y)) \in Nat /\ Cardinality(UpTo(K, l)) \in Nat
      BY <1>1
    <3> QED
      BY <1>1, <1>3, <3>1
  <2> QED
    BY <2>1, <2>2
<1>4. ASSUME NEW y \in K
      PROVE  Cardinality(UpTo(K, y)) \in 1..Cardinality(K) /\ Nth(K, Cardinality(UpTo(K, y))) = y
  <2>1. Cardinality(UpTo(K, y)) \in 1..Cardinality(K)
    BY <1>1
  <2> QED
    BY <1>2, <1>3, <2>1
<1>5. ASSUME NEW m \in 1..Cardinality(K), NEW r \in 1..Cardinality(K), m < r
      PROVE  Nth(K, m) < Nth(K, r)
  <2> DEFINE y == Nth(K, m)
             l == Nth(K, r)
  <2>1. y \in K /\ l \in K /\ Cardinality(UpTo(K, y)) = m /\ Cardinality(UpTo(K, l)) = r
    BY <1>2
  <2> HIDE DEF y, l
  <2>2. y \in Nat /\ l \in Nat /\ y # l
    BY <1>5, <2>1
  <2>3. ~(l < y)
    BY <1>1, <1>5, <2>1
  <2>4. y < l
    BY <2>2, <2>3
  <2> QED
    BY <2>4 DEF y, l
<1> QED
  BY <1>1, <1>2, <1>4, <1>5

-----------------------------------------------------------------------------
(* Kinds, settings and markers: what Parse makes of a line, and of what is *)
(* left of one.                                                            *)

\* Where inlineComment looks.
Marks(s) == {i \in DOMAIN s : s[i] = Hash \/ s[i] \in Markers}

\* inlineComment finds the first of them.
LEMMA MarksAre ==
    ASSUME NEW s \in Seq(Symbol)
    PROVE  /\ inlineComment(s) \in 0..Len(s)
           /\ inlineComment(s) = 0 => Marks(s) = {}
           /\ inlineComment(s) # 0 =>
                /\ inlineComment(s) \in 1..Len(s)
                /\ s[inlineComment(s)] = Hash \/ s[inlineComment(s)] \in Markers
                /\ \A i \in 1..Len(s) : i < inlineComment(s) => s[i] # Hash /\ s[i] \notin Markers
           /\ \A cut \in 1..Len(s) :
                /\ s[cut] = Hash \/ s[cut] \in Markers
                /\ \A i \in 1..Len(s) : i < cut => s[i] # Hash /\ s[i] \notin Markers
                => inlineComment(s) = cut
<1> DEFINE K == Marks(s)
           m == inlineComment(s)
<1>1. Len(s) \in Nat /\ DOMAIN s = 1..Len(s)
  OBVIOUS
<1>2. K \subseteq 1..Len(s) /\ \A i \in 1..Len(s) : i \in K <=> s[i] = Hash \/ s[i] \in Markers
  BY <1>1 DEF Marks
<1>3. m = IF K = {} THEN 0 ELSE Min(K)
  BY DEF inlineComment, Marks
<1> HIDE DEF K, m
<1>4. CASE K = {}
  <2>1. m = 0
    BY <1>3, <1>4
  <2> QED
    BY <1>1, <1>2, <1>4, <2>1 DEF K, m
<1>5. CASE K # {}
  <2>1. m \in K /\ \A j \in K : m <= j
    BY <1>1, <1>2, <1>3, <1>5, Extremes
  <2>2. m \in 1..Len(s) /\ m # 0 /\ m \in 0..Len(s)
    BY <1>1, <1>2, <2>1
  <2>3. s[m] = Hash \/ s[m] \in Markers
    BY <1>2, <2>1, <2>2
  <2>4. \A i \in 1..Len(s) : i < m => s[i] # Hash /\ s[i] \notin Markers
    BY <1>2, <2>1, <2>2
  <2>5. ASSUME NEW cut \in 1..Len(s), s[cut] = Hash \/ s[cut] \in Markers,
               \A i \in 1..Len(s) : i < cut => s[i] # Hash /\ s[i] \notin Markers
        PROVE  m = cut
    <3>1. cut \in K /\ m <= cut /\ ~(m < cut)
      BY <1>2, <2>1, <2>2, <2>3, <2>5
    <3> QED
      BY <2>2, <3>1
  <2> QED
    BY <2>2, <2>3, <2>4, <2>5 DEF m
<1> QED
  BY <1>4, <1>5

\* The kind of a line.
LEMMA KindIs ==
    ASSUME NEW r \in Seq(Ink)
    PROVE  LET s == Trim(r) IN
           /\ s \in Seq(Ink) /\ s \in Seq(Symbol)
           /\ KindOf(r) = "blank" <=> s = <<>>
           /\ KindOf(r) = "comment" <=> s # <<>> /\ s[1] = Hash
           /\ KindOf(r) = "header" <=> s # <<>> /\ looksLikeHeader(s)
           /\ KindOf(r) = "value" <=> s # <<>> /\ s[1] # Hash /\ ~looksLikeHeader(s)
           /\ KindOf(r) \in {"blank", "comment", "header", "value"}
<1> DEFINE s == Trim(r)
<1>1. s \in Seq(Ink) /\ s \in Seq(Symbol)
  <2>1. Ink \subseteq Symbol
    BY LineParts
  <2>2. s \in Seq(Ink)
    BY <2>1, TrimFacts
  <2> HIDE DEF s
  <2> QED
    BY <2>1, <2>2
<1>2. looksLikeHeader(s) => s # <<>> /\ s[1] # Hash
  BY SymbolsDiffer DEF looksLikeHeader
<1>3. KindOf(r) = IF s = <<>> THEN "blank" ELSE IF s[1] = Hash THEN "comment"
                  ELSE IF looksLikeHeader(s) THEN "header" ELSE "value"
  BY <1>2 DEF KindOf
<1> HIDE DEF s
<1>4. /\ KindOf(r) = "blank" <=> s = <<>>
      /\ KindOf(r) = "comment" <=> s # <<>> /\ s[1] = Hash
      /\ KindOf(r) = "header" <=> s # <<>> /\ looksLikeHeader(s)
      /\ KindOf(r) = "value" <=> s # <<>> /\ s[1] # Hash /\ ~looksLikeHeader(s)
      /\ KindOf(r) \in {"blank", "comment", "header", "value"}
  BY <1>2, <1>3
<1> QED
  BY <1>1, <1>4 DEF s

\* The setting of a line, and its comment.
SettingFacts(r, v, y) ==
    LET s == Trim(r)
    IN /\ v \in Seq(Ink) /\ v # <<>> /\ v[1] = s[1] /\ v[1] # Space /\ v[1] # Hash /\ v[Len(v)] # Space
       /\ y \in Seq(Ink)
       /\ y = <<>> =>
            /\ v = s
            /\ \/ inlineComment(s) \in {0, 1}
               \/ inlineComment(s) > 1 /\ looksLikeHeader(Trim(SubSeq(s, 1, inlineComment(s) - 1)))
       /\ y # <<>> =>
            /\ ~looksLikeHeader(v)
            /\ \A i \in 1..Len(v) : v[i] # Hash /\ v[i] \notin Markers
            /\ \A x : x # Space /\ Has(r, x) => Has(v, x) \/ Has(y, x)

\* Setting cuts a line as SettingFacts says.
LEMMA SettingIs ==
    ASSUME NEW r \in Seq(Ink), KindOf(r) = "value"
    PROVE  SettingFacts(r, Setting(r).value, Setting(r).comment)
<1> DEFINE s == Trim(r)
           cut == inlineComment(s)
           u == SubSeq(s, 1, cut - 1)
           w == Trim(u)
<1>1. s \in Seq(Ink) /\ s \in Seq(Symbol) /\ s # <<>> /\ s[1] # Hash /\ ~looksLikeHeader(s) /\ Len(s) \in Nat
  BY KindIs
<1>2. s[1] # Space /\ s[Len(s)] # Space
  BY <1>1, LineParts, TrimFacts
<1>3. cut \in 0..Len(s)
  BY <1>1, MarksAre
<1>4. Setting(r) = IF cut > 1 /\ ~looksLikeHeader(w) THEN [value |-> w, comment |-> SubSeq(s, cut, Len(s))]
                   ELSE [value |-> s, comment |-> <<>>]
  BY DEF Setting
<1>5. CASE ~(cut > 1 /\ ~looksLikeHeader(w))
  <2>1. Setting(r).value = s /\ Setting(r).comment = <<>>
    BY <1>4, <1>5
  <2>2. cut \in {0, 1} \/ (cut > 1 /\ looksLikeHeader(w))
    BY <1>3, <1>5
  <2>3. <<>> \in Seq(Ink)
    OBVIOUS
  <2> HIDE DEF s
  <2> QED
    BY <1>1, <1>2, <2>1, <2>2, <2>3 DEF s, SettingFacts
<1>6. CASE cut > 1 /\ ~looksLikeHeader(w)
  <2> HIDE DEF s
  <2>1. cut \in 1..Len(s) /\ \A i \in 1..Len(s) : i < cut => s[i] # Hash /\ s[i] \notin Markers
    BY <1>1, <1>3, <1>6, MarksAre
  <2> HIDE DEF cut
  <2>2. u \in Seq(Ink) /\ Len(u) = cut - 1 /\ \A i \in 1..(cut - 1) : u[i] = s[i]
    <3>1. cut - 1 \in Nat /\ cut - 1 <= Len(s)
      BY <1>1, <2>1
    <3> QED
      BY <1>1, <3>1, PrefixIs
  <2> DEFINE y == SubSeq(s, cut, Len(s))
  <2>3. y \in Seq(Ink) /\ Len(y) = Len(s) - (cut - 1) /\ \A i \in 1..(Len(s) - (cut - 1)) : y[i] = s[(cut - 1) + i]
    <3> DEFINE e == cut - 1
    <3>1. e \in Nat /\ Len(s) \in Nat /\ e <= Len(s) /\ e + 1 = cut
      BY <1>1, <2>1
    <3> HIDE DEF e
    <3>2. /\ SubSeq(s, e + 1, Len(s)) \in Seq(Ink) /\ Len(SubSeq(s, e + 1, Len(s))) = Len(s) - e
          /\ \A i \in 1..(Len(s) - e) : SubSeq(s, e + 1, Len(s))[i] = s[e + i]
      BY <1>1, <3>1, CutIs
    <3>3. y \in Seq(Ink) /\ Len(y) = Len(s) - e /\ \A i \in 1..(Len(s) - e) : y[i] = s[e + i]
      BY <3>1, <3>2, Zenon
    <3> QED
      BY <3>3 DEF e
  <2>4. Setting(r).value = w /\ Setting(r).comment = y
    <3>1. Setting(r) = [value |-> w, comment |-> y]
      BY <1>4, <1>6, Zenon
    <3> HIDE DEF w, y
    <3>2. \A p, q : [value |-> p, comment |-> q].value = p /\ [value |-> p, comment |-> q].comment = q
      OBVIOUS
    <3> QED
      BY <3>1, <3>2, Zenon
  <2> HIDE DEF u, y
  <2>5. /\ w \in Seq(Ink) /\ (w # <<>> => w[1] # Space /\ w[Len(w)] # Space)
        /\ \A x : x # Space => (Has(w, x) <=> Has(u, x))
        /\ \E a \in Nat : /\ a + Len(w) <= Len(u)
                          /\ \A i \in 1..Len(w) : w[i] = u[a + i]
                          /\ \A i \in 1..Len(u) : i <= a \/ a + Len(w) < i => u[i] = Space
    <3>1. Ink \subseteq Symbol
      BY LineParts
    <3> QED
      BY <2>2, <3>1, TrimFacts, Zenon
  <2> HIDE DEF w
  <2>6. PICK a \in Nat : /\ a + Len(w) <= Len(u)
                         /\ \A i \in 1..Len(w) : w[i] = u[a + i]
                         /\ \A i \in 1..Len(u) : i <= a \/ a + Len(w) < i => u[i] = Space
    BY <2>5
  <2>7. 1 \in 1..Len(u) /\ u[1] = s[1] /\ Len(u) \in Nat
    BY <1>6, <2>1, <2>2 DEF cut
  <2>8. a = 0 /\ Len(w) # 0 /\ Len(w) \in Nat
    <3>1. ~(1 <= a \/ a + Len(w) < 1)
      BY <1>2, <2>6, <2>7
    <3>2. Len(w) \in Nat
      BY <2>5
    <3> QED
      BY <3>1, <3>2
  <2>9. w # <<>> /\ w[1] = s[1]
    <3>1. w # <<>> /\ 1 \in 1..Len(w) /\ a + 1 = 1
      BY <2>8
    <3>2. w[1] = u[a + 1]
      BY <2>6, <3>1
    <3> QED
      BY <2>7, <3>1, <3>2
  <2>10. \A i \in 1..Len(w) : w[i] # Hash /\ w[i] \notin Markers
    <3> SUFFICES ASSUME NEW i \in 1..Len(w) PROVE w[i] # Hash /\ w[i] \notin Markers
      OBVIOUS
    <3>1. w[i] = u[i] /\ i \in 1..(cut - 1)
      BY <2>1, <2>2, <2>6, <2>8
    <3>2. u[i] = s[i] /\ i \in 1..Len(s) /\ i < cut
      BY <1>1, <2>1, <2>2, <3>1
    <3> QED
      BY <2>1, <3>1, <3>2
  <2>11. ASSUME NEW x, x # Space, Has(r, x) PROVE Has(w, x) \/ Has(y, x)
    <3>1. Has(s, x)
      BY <2>11, LineParts, TrimFacts DEF s
    <3>2. PICK i \in 1..Len(s) : s[i] = x
      BY <1>1, <3>1 DEF Has
    <3>3. CASE i < cut
      <4>1. i \in 1..(cut - 1) /\ i \in DOMAIN u /\ u[i] = x
        BY <1>1, <2>1, <2>2, <3>2, <3>3
      <4>2. Has(u, x)
        BY <4>1 DEF Has
      <4> QED
        BY <2>5, <2>11, <4>2
    <3>4. CASE ~(i < cut)
      <4>1. i - (cut - 1) \in 1..(Len(s) - (cut - 1)) /\ (cut - 1) + (i - (cut - 1)) = i
        BY <1>1, <2>1, <3>2, <3>4
      <4>2. i - (cut - 1) \in DOMAIN y /\ y[i - (cut - 1)] = x
        BY <2>3, <3>2, <4>1
      <4> QED
        BY <4>2 DEF Has
    <3> QED
      BY <3>3, <3>4
  <2>12. y # <<>>
    BY <1>1, <2>1, <2>3
  <2> QED
    BY <1>1, <1>2, <1>6, <2>3, <2>4, <2>5, <2>9, <2>10, <2>11, <2>12 DEF s, SettingFacts
<1> QED
  BY <1>5, <1>6

\* The marker of a line that moved reads as a setting.
LEMMA MovedReads ==
    /\ <<Moved>> \in Seq(Ink) /\ Trim(<<Moved>>) = <<Moved>> /\ KindOf(<<Moved>>) = "value"
    /\ Setting(<<Moved>>).value = <<Moved>> /\ Setting(<<Moved>>).comment = <<>>
<1> DEFINE s == <<Moved>>
<1>1. s \in Seq(Ink) /\ s \in Seq(Symbol) /\ Len(s) = 1 /\ s[1] = Moved /\ s # <<>>
  BY LineParts
<1>2. Moved # Space /\ Moved # Hash /\ Moved \notin Headers /\ Moved \in Markers
  BY SymbolsDiffer DEF Markers
<1>3. Trim(s) = s
  BY <1>1, <1>2, TrimSame
<1>4. ~looksLikeHeader(s)
  BY <1>1, <1>2 DEF looksLikeHeader
<1>5. inlineComment(s) = 1
  <2>1. 1 \in 1..Len(s) /\ s[1] \in Markers /\ \A i \in 1..Len(s) : ~(i < 1)
    BY <1>1, <1>2
  <2> HIDE DEF s
  <2> QED
    BY <1>1, <2>1, MarksAre
<1> HIDE DEF s
<1>6. KindOf(s) = "value"
  BY <1>1, <1>2, <1>3, <1>4, KindIs
<1>7. Setting(s) = [value |-> s, comment |-> <<>>]
  <2>1. ~(inlineComment(s) > 1)
    BY <1>5
  <2> QED
    BY <1>3, <2>1 DEF Setting
<1>8. Setting(s).value = s /\ Setting(s).comment = <<>>
  BY <1>7
<1> QED
  BY <1>1, <1>3, <1>6, <1>8 DEF s

\* A setting whose comment moved reads as that setting.
LEMMA MarkedLine ==
    ASSUME NEW v \in Seq(Ink), v # <<>>, v[1] # Space, v[1] # Hash, v[Len(v)] # Space, ~looksLikeHeader(v),
           \A i \in 1..Len(v) : v[i] # Hash /\ v[i] \notin Markers
    PROVE  LET r == v \o <<Space, CMark>> IN
           /\ r \in Seq(Ink) /\ r # <<>> /\ Trim(r) = r /\ r[Len(r)] = CMark /\ KindOf(r) = "value"
           /\ Setting(r).value = v /\ Setting(r).comment = <<CMark>>
           /\ \A x : Has(r, x) => x = Space \/ x = CMark \/ Has(v, x)
<1> DEFINE r == v \o <<Space, CMark>>
           n == Len(v)
<1>0. n \in Nat /\ n >= 1 /\ DOMAIN v = 1..n
  OBVIOUS
<1>1. /\ r \in Seq(Ink) /\ Len(r) = n + 2 /\ r[n + 1] = Space /\ r[n + 2] = CMark
      /\ \A i \in 1..n : r[i] = v[i]
  <2>1. <<Space, CMark>> \in Seq(Ink) /\ Len(<<Space, CMark>>) = 2
    BY LineParts
  <2> QED
    BY <1>0, <2>1
<1> HIDE DEF r, n
<1>2. CMark # Space /\ CMark # Hash /\ CMark \notin Headers /\ CMark \in Markers /\ Space # Hash /\ Space \notin Markers
  BY SymbolsDiffer DEF Markers
<1>3. r \in Seq(Symbol) /\ r # <<>> /\ r[1] = v[1] /\ r[Len(r)] = CMark
  <2>1. Ink \subseteq Symbol
    BY LineParts
  <2>2. r \in Seq(Symbol)
    BY <1>1, <2>1
  <2>3. r # <<>> /\ 1 \in 1..n
    BY <1>0, <1>1
  <2> QED
    BY <1>1, <2>2, <2>3
<1>4. Trim(r) = r
  BY <1>2, <1>3, TrimSame
<1>5. ~looksLikeHeader(r)
  <2>1. Last(r) = CMark
    BY <1>3 DEF Last
  <2> QED
    BY <1>2, <2>1 DEF looksLikeHeader
<1>6. KindOf(r) = "value"
  BY <1>1, <1>3, <1>4, <1>5, KindIs
<1>7. inlineComment(r) = n + 2
  <2>1. n + 2 \in 1..Len(r) /\ r[n + 2] \in Markers
    BY <1>0, <1>1, <1>2
  <2>2. ASSUME NEW i \in 1..Len(r), i < n + 2 PROVE r[i] # Hash /\ r[i] \notin Markers
    <3>1. i \in 1..n \/ i = n + 1
      BY <1>0, <1>1, <2>2
    <3>2. CASE i \in 1..n
      <4>1. r[i] = v[i] /\ v[i] # Hash /\ v[i] \notin Markers
        BY <1>1, <3>2 DEF n
      <4> QED
        BY <4>1
    <3> QED
      BY <1>1, <1>2, <3>1, <3>2
  <2> QED
    BY <1>3, <2>1, <2>2, MarksAre
<1> DEFINE u == SubSeq(r, 1, n + 1)
<1>8. u \in Seq(Ink) /\ Len(u) = n + 1 /\ \A i \in 1..(n + 1) : u[i] = r[i]
  <2>1. n + 1 \in Nat /\ n + 1 <= Len(r)
    BY <1>0, <1>1
  <2> QED
    BY <1>1, <2>1, PrefixIs
<1> HIDE DEF u
<1>9. Trim(u) = v
  <2>1. u \in Seq(Symbol)
    BY <1>8, LineParts
  <2>2. Core(u, 0, n)
    <3>1. \A i \in 1..Len(u) : n < i => u[i] = Space
      BY <1>0, <1>1, <1>8
    <3>2. u[1] = v[1] /\ u[n] = v[n]
      BY <1>0, <1>1, <1>8
    <3>3. \A i \in 1..Len(u) : ~(i <= 0)
      BY <1>0, <1>8
    <3> QED
      BY <1>0, <1>8, <3>1, <3>2, <3>3 DEF Core, n
  <2> DEFINE t == SubSeq(u, 1, n)
  <2>3. Trim(u) = t
    <3>1. Trim(u) = SubSeq(u, 0 + 1, n)
      BY <2>1, <2>2, CoreTrims
    <3> QED
      BY <3>1
  <2>4. t \in Seq(Ink) /\ Len(t) = n /\ \A i \in 1..n : t[i] = u[i]
    <3>1. n \in Nat /\ n <= Len(u)
      BY <1>0, <1>8
    <3> QED
      BY <1>8, <3>1, PrefixIs
  <2>5. \A i \in 1..n : u[i] = v[i]
    BY <1>0, <1>1, <1>8
  <2> HIDE DEF t
  <2>6. t \in Seq(Ink) /\ Len(t) = Len(v) /\ \A i \in 1..Len(t) : t[i] = v[i]
    BY <2>4, <2>5 DEF t, n
  <2>7. t = v
    BY <2>6, SeqEqual
  <2> QED
    BY <2>3, <2>7 DEF t
<1>10. SubSeq(r, n + 2, Len(r)) = <<CMark>>
  <2> DEFINE t == SubSeq(r, n + 2, n + 2)
  <2>1. Len(t) = 1 /\ t[1] = r[n + 2] /\ t \in Seq(Ink)
    BY <1>0, <1>1
  <2> HIDE DEF t
  <2>2. t = <<CMark>>
    BY <1>1, <2>1
  <2> QED
    BY <1>1, <2>2 DEF t
<1>11. Setting(r) = [value |-> v, comment |-> <<CMark>>]
  <2>1. n + 2 > 1 /\ (n + 2) - 1 = n + 1
    BY <1>0
  <2>2. Trim(SubSeq(r, 1, (n + 2) - 1)) = v
    BY <1>9, <2>1 DEF u
  <2> QED
    BY <1>4, <1>7, <1>10, <2>1, <2>2, Zenon DEF Setting
<1>12. Setting(r).value = v /\ Setting(r).comment = <<CMark>>
  BY <1>11
<1>13. ASSUME NEW x, Has(r, x) PROVE x = Space \/ x = CMark \/ Has(v, x)
  <2>1. PICK i \in 1..Len(r) : r[i] = x
    BY <1>1, <1>13 DEF Has
  <2>2. i \in 1..n \/ i = n + 1 \/ i = n + 2
    BY <1>0, <1>1
  <2> QED
    BY <1>0, <1>1, <2>1, <2>2 DEF Has
<1> QED
  BY <1>1, <1>3, <1>4, <1>6, <1>12, <1>13 DEF r

\* The same, for a line known by its symbols.
LEMMA MarkedReads ==
    ASSUME NEW v \in Seq(Ink), v # <<>>, v[1] # Space, v[1] # Hash, v[Len(v)] # Space, ~looksLikeHeader(v),
           \A i \in 1..Len(v) : v[i] # Hash /\ v[i] \notin Markers,
           NEW r, r = v \o <<Space, CMark>>
    PROVE  /\ r \in Seq(Ink) /\ r # <<>> /\ Trim(r) = r /\ r[Len(r)] = CMark /\ KindOf(r) = "value"
           /\ Setting(r).value = v /\ Setting(r).comment = <<CMark>>
           /\ \A x : Has(r, x) => x = Space \/ x = CMark \/ Has(v, x)
  BY MarkedLine

-----------------------------------------------------------------------------
(* The lines of a file, rendered and read again.                           *)

\* The lines of a text.
LEMMA LinesAre ==
    ASSUME NEW doc \in Seq(Symbol)
    PROVE  LET ls == splitLines(doc) IN
           /\ ls \in Seq(LineSet) /\ Chain(ls) /\ Len(ls) \in Nat /\ Len(ls) >= 1
           /\ ls[Len(ls)].end = <<>> /\ Render(ls) = doc
<1>1. PICK fr, r : /\ Closed(fr) /\ r \in Seq(Ink)
                   /\ splitLines(doc) = Append(fr, Open(r))
                   /\ Render(fr) \o r = doc
  BY SplitIs
<1> DEFINE ls == splitLines(doc)
           n == Len(fr)
           l == Open(r)
<1>2. fr \in Seq(LineSet) /\ Chain(fr) /\ n \in Nat /\ \A i \in 1..n : fr[i].end # <<>>
  BY <1>1 DEF Closed
<1>3. l \in LineSet /\ l.raw = r /\ l.end = <<>> /\ l.end # <<LF>>
  BY <1>1, LineParts DEF Open
<1> HIDE DEF l
<1>4. /\ ls \in Seq(LineSet) /\ Len(ls) = n + 1 /\ ls[n + 1] = l
      /\ \A i \in 1..n : ls[i] = fr[i]
  BY <1>1, <1>2, <1>3 DEF l
<1>5. Render(ls) = doc
  <2>1. Render(fr) \in Seq(Symbol)
    BY <1>2, RenderType
  <2>2. Render(Append(fr, l)) = Render(fr) \o (l.raw \o l.end)
    BY <1>2, <1>3, <2>1, RenderAppend
  <2>3. r \o <<>> = r
    BY <1>1, ConcatEmptySeq
  <2> QED
    BY <1>1, <1>3, <2>2, <2>3 DEF l
<1> HIDE DEF ls
<1>6. ASSUME NEW i \in 1..(Len(ls) - 1)
      PROVE  ls[i].end # <<>> /\ (ls[i].end = <<CR>> /\ ls[i + 1].raw = <<>> => ls[i + 1].end # <<LF>>)
  <2>1. i \in 1..n /\ (i = n \/ (i \in 1..(n - 1) /\ i + 1 \in 1..n))
    BY <1>2, <1>4
  <2>2. CASE i = n
    BY <1>2, <1>3, <1>4, <2>1, <2>2
  <2>3. CASE i \in 1..(n - 1) /\ i + 1 \in 1..n
    <3>1. ls[i] = fr[i] /\ ls[i + 1] = fr[i + 1]
      BY <1>4, <2>1, <2>3
    <3>2. fr[i].end = <<CR>> /\ fr[i + 1].raw = <<>> => fr[i + 1].end # <<LF>>
      BY <1>2, <2>3 DEF Chain
    <3> QED
      BY <1>2, <2>1, <3>1, <3>2
  <2> QED
    BY <2>1, <2>2, <2>3
<1>7. Chain(ls)
  BY <1>6 DEF Chain
<1> QED
  BY <1>2, <1>3, <1>4, <1>5, <1>7 DEF ls

\* What Parse records of a line, and what the edits of a line change.
LEMMA ClassifyIs ==
    ASSUME NEW l, NEW s, NEW y, y = Classify(l, s)
    PROVE  /\ y.kind = KindOf(l.raw) /\ y.raw = l.raw /\ y.end = l.end /\ y.stanza = s
           /\ y.kind = "value" => y.value = Setting(l.raw).value /\ y.comment = Setting(l.raw).comment
           /\ y.kind # "value" => y.value = <<>> /\ y.comment = <<>>
           /\ \A e : [y EXCEPT !.end = e].raw = l.raw /\ [y EXCEPT !.end = e].end = e
           /\ \A e : [y EXCEPT !.raw = e].raw = e /\ [y EXCEPT !.raw = e].end = l.end
<1> DEFINE d == KindOf(l.raw)
           t == IF d = "value" THEN Setting(l.raw) ELSE [value |-> <<>>, comment |-> <<>>]
<1>1. y = [kind |-> d, raw |-> l.raw, end |-> l.end, stanza |-> s, value |-> t.value, comment |-> t.comment]
  BY DEF Classify
<1>2. d = "value" => t.value = Setting(l.raw).value /\ t.comment = Setting(l.raw).comment
  OBVIOUS
<1>3. d # "value" => t.value = <<>> /\ t.comment = <<>>
  OBVIOUS
<1> HIDE DEF d, t
<1>4. /\ y.kind = d /\ y.raw = l.raw /\ y.end = l.end /\ y.stanza = s /\ y.value = t.value /\ y.comment = t.comment
      /\ \A e : [y EXCEPT !.end = e].raw = l.raw /\ [y EXCEPT !.end = e].end = e
      /\ \A e : [y EXCEPT !.raw = e].raw = e /\ [y EXCEPT !.raw = e].end = l.end
  BY <1>1
<1> QED
  BY <1>2, <1>3, <1>4 DEF d

\* The lines of a file.
LEMMA FileIs ==
    ASSUME NEW doc, NEW ls, ls = splitLines(doc), Len(ls) \in Nat
    PROVE  /\ DOMAIN Parse(doc) = 1..Len(ls) /\ Len(Parse(doc)) = Len(ls)
           /\ \A i \in 1..Len(ls) : Parse(doc)[i] = Classify(ls[i], StanzaAt(ls, i))
<1> DEFINE f == Parse(doc)
           C(i) == Classify(ls[i], StanzaAt(ls, i))
<1>1. f = [i \in 1..Len(ls) |-> C(i)]
  BY DEF Parse
<1> HIDE DEF f, C
<1>2. DOMAIN f = 1..Len(ls) /\ Len(f) = Len(ls) /\ \A i \in 1..Len(ls) : f[i] = C(i)
  <2>1. f \in Seq({C(i) : i \in 1..Len(ls)})
    BY <1>1
  <2>2. DOMAIN f = 1..Len(ls) /\ \A i \in 1..Len(ls) : f[i] = C(i)
    BY <1>1
  <2> QED
    BY <2>1, <2>2
<1> QED
  BY <1>2 DEF f, C

\* Render looks at the line and its end only.
LEMMA RenderSame ==
    ASSUME NEW a, NEW b, DOMAIN a = DOMAIN b, \A i \in DOMAIN a : a[i].raw = b[i].raw /\ a[i].end = b[i].end
    PROVE  Render(a) = Render(b)
<1>1. [i \in DOMAIN a |-> a[i].raw \o a[i].end] = [i \in DOMAIN b |-> b[i].raw \o b[i].end]
  OBVIOUS
<1> QED
  BY <1>1 DEF Render

\* Lines that keep their ends, and stay empty only if they were, read back.
LEMMA RereadLines ==
    ASSUME NEW ls \in Seq(LineSet), Chain(ls), Len(ls) >= 1, ls[Len(ls)].end = <<>>,
           NEW h \in Seq(LineSet), Len(h) = Len(ls),
           \A i \in 1..Len(ls) : h[i].end = ls[i].end /\ (h[i].raw = <<>> => ls[i].raw = <<>>)
    PROVE  splitLines(Render(h)) = h
<1>1. Len(ls) \in Nat /\ Len(h) \in 1..Len(ls)
  OBVIOUS
<1>2. ASSUME NEW i \in 1..(Len(h) - 1)
      PROVE  h[i].end # <<>> /\ (h[i].end = <<CR>> /\ h[i + 1].raw = <<>> => h[i + 1].end # <<LF>>)
  <2>1. i \in 1..(Len(ls) - 1) /\ i \in 1..Len(ls) /\ i + 1 \in 1..Len(ls)
    BY <1>1
  <2>2. ls[i].end # <<>> /\ (ls[i].end = <<CR>> /\ ls[i + 1].raw = <<>> => ls[i + 1].end # <<LF>>)
    BY <2>1 DEF Chain
  <2>3. h[i].end = ls[i].end /\ h[i + 1].end = ls[i + 1].end /\ (h[i + 1].raw = <<>> => ls[i + 1].raw = <<>>)
    BY <2>1
  <2> QED
    BY <2>2, <2>3
<1>3. Chain(h)
  BY <1>2 DEF Chain
<1>4. h # <<>> /\ h[Len(h)].end = <<>>
  BY <1>1
<1> QED
  BY <1>3, <1>4, ReadsBack

\* Lines with the same headers have the same stanzas.
LEMMA StanzasSame ==
    ASSUME NEW n \in Nat, NEW ls, NEW h,
           \A i \in 1..n : /\ KindOf(h[i].raw) = "header" <=> KindOf(ls[i].raw) = "header"
                           /\ KindOf(ls[i].raw) = "header" => h[i].raw = ls[i].raw
    PROVE  \A i \in 1..n : StanzaAt(h, i) = StanzaAt(ls, i)
<1> SUFFICES ASSUME NEW i \in 1..n PROVE StanzaAt(h, i) = StanzaAt(ls, i)
  OBVIOUS
<1> DEFINE H == {j \in 1..i : KindOf(ls[j].raw) = "header"}
           G == {j \in 1..i : KindOf(h[j].raw) = "header"}
<1>1. \A j \in 1..i : j \in 1..n
  OBVIOUS
<1>2. G = H
  BY <1>1
<1>3. H \subseteq 1..i /\ i \in Nat /\ \A j \in H : h[j].raw = ls[j].raw
  BY <1>1
<1>4. /\ StanzaAt(h, i) = IF G = {} THEN "" ELSE NameOf(Trim(h[Max(G)].raw))
      /\ StanzaAt(ls, i) = IF H = {} THEN "" ELSE NameOf(Trim(ls[Max(H)].raw))
  BY DEF StanzaAt
<1> HIDE DEF G, H
<1>5. H # {} => Max(H) \in H
  BY <1>3, Extremes
<1>6. H # {} => h[Max(G)].raw = ls[Max(H)].raw
  BY <1>2, <1>3, <1>5
<1>7. CASE H = {}
  <2>1. StanzaAt(h, i) = ""
    BY <1>2, <1>4, <1>7, Zenon
  <2>2. StanzaAt(ls, i) = ""
    BY <1>4, <1>7, Zenon
  <2> QED
    BY <2>1, <2>2
<1>8. CASE H # {}
  <2>1. StanzaAt(h, i) = NameOf(Trim(h[Max(G)].raw))
    BY <1>2, <1>4, <1>8, Zenon
  <2>2. StanzaAt(ls, i) = NameOf(Trim(ls[Max(H)].raw))
    BY <1>4, <1>8, Zenon
  <2>3. h[Max(G)].raw = ls[Max(H)].raw
    BY <1>6, <1>8
  <2> QED
    BY <2>1, <2>2, <2>3, Zenon
<1> QED
  BY <1>7, <1>8

\* The lines of a file that move, those of a stanza, and those of them that
\* Split reports as comments.
Gone(f, opt) == {i \in DOMAIN f : Fate(f[i], opt) # <<>>}
GoneOf(f, opt, s) == {i \in Gone(f, opt) : f[i].stanza = s}
CommentsOf(f, opt, s) == {i \in GoneOf(f, opt, s) : IsComment(f[i], Fate(f[i], opt))}

\* The documents of Split and its report.
LEMMA SplitParts ==
    ASSUME NEW f, NEW opt
    PROVE  /\ Split(f, opt).onChain = [i \in DOMAIN f |-> Left(f[i], Fate(f[i], opt))]
           /\ Split(f, opt).bundle = Those(f, Gone(f, opt))
           /\ DOMAIN Split(f, opt).moves = {f[i].stanza : i \in Gone(f, opt)}
           /\ \A s \in DOMAIN Split(f, opt).moves :
                /\ Split(f, opt).moves[s].lines = Cardinality(GoneOf(f, opt, s))
                /\ Split(f, opt).moves[s].comments = Cardinality(CommentsOf(f, opt, s))
<1> DEFINE A == [i \in DOMAIN f |-> Left(f[i], Fate(f[i], opt))]
           B == Those(f, Gone(f, opt))
           P(s) == Cardinality(GoneOf(f, opt, s))
           Q(s) == Cardinality(CommentsOf(f, opt, s))
           D == {f[i].stanza : i \in Gone(f, opt)}
           M == [s \in D |-> [lines |-> P(s), comments |-> Q(s)]]
           R == IF Get(f, "validator_token") # <<>> THEN "validator" ELSE "node"
<1>1. Split(f, opt) = [onChain |-> A, bundle |-> B, moves |-> M, role |-> R]
  BY Zenon DEF Split, Gone, GoneOf, CommentsOf
<1> HIDE DEF A, B, P, Q, D, R
<1>2. DOMAIN M = D /\ \A s \in D : M[s].lines = P(s) /\ M[s].comments = Q(s)
  OBVIOUS
<1> HIDE DEF M
<1>3. Split(f, opt).onChain = A /\ Split(f, opt).bundle = B /\ Split(f, opt).moves = M
  BY <1>1
<1> QED
  BY <1>2, <1>3, Zenon DEF A, B, P, Q, D

\* What may become of a line.
Kinds == {"blank", "comment", "header", "value"}
FateFacts(l, opt, w) ==
    /\ w \in {<<>>, <<Moved>>, <<CMark>>}
    /\ <<>> # <<Moved>> /\ <<>> # <<CMark>> /\ <<Moved>> # <<CMark>>
    /\ l.kind \in {"blank", "header"} => w = <<>>
    /\ l.kind = "comment" =>
         /\ w \in {<<>>, <<Moved>>}
         /\ w = <<>> => opt.comments # "bundle" /\ lineReason(l.stanza, l.raw) = ""
    /\ l.kind = "value" =>
         /\ w = <<Moved>> <=> valueReasonOpt(l.stanza, l.value, opt) # ""
         /\ w = <<CMark>> => l.comment # <<>>
         /\ w = <<>> => l.comment = <<>> \/ (opt.comments # "bundle" /\ lineReason(l.stanza, l.comment) = "")

\* Fate decides as FateFacts says.
LEMMA FateIs ==
    ASSUME NEW l, l.kind \in Kinds, NEW opt \in Options
    PROVE  FateFacts(l, opt, Fate(l, opt))
<1> DEFINE w == Fate(l, opt)
<1>0. Moved # CMark
  BY SymbolsDiffer
<1>1. <<>> # <<Moved>> /\ <<>> # <<CMark>> /\ <<Moved>> # <<CMark>>
  <2>1. <<Moved>>[1] = Moved /\ <<CMark>>[1] = CMark /\ Len(<<Moved>>) = 1 /\ Len(<<CMark>>) = 1 /\ Len(<<>>) = 0
    OBVIOUS
  <2> QED
    BY <1>0, <2>1
<1>2. CASE l.kind \in {"blank", "header"}
  <2>1. w = <<>>
    BY <1>2 DEF Fate
  <2> HIDE DEF w
  <2>2. l.kind # "comment" /\ l.kind # "value"
    BY <1>2
  <2> QED
    BY <1>1, <1>2, <2>1, <2>2, Zenon DEF FateFacts, w
<1>3. CASE l.kind = "comment"
  <2>1. w = IF opt.comments = "bundle" \/ lineReason(l.stanza, l.raw) # "" THEN <<Moved>> ELSE <<>>
    BY <1>3 DEF Fate
  <2> HIDE DEF w
  <2>2. l.kind \notin {"blank", "header"} /\ l.kind # "value"
    BY <1>3
  <2>3. w \in {<<>>, <<Moved>>}
    BY <2>1, Zenon
  <2>4. w = <<>> => opt.comments # "bundle" /\ lineReason(l.stanza, l.raw) = ""
    BY <1>1, <2>1, Zenon
  <2> QED
    BY <1>1, <1>3, <2>2, <2>3, <2>4, Zenon DEF FateFacts, w
<1>4. CASE l.kind = "value"
  <2> DEFINE bad == valueReasonOpt(l.stanza, l.value, opt) # ""
             out == l.comment # <<>> /\ (opt.comments = "bundle" \/ lineReason(l.stanza, l.comment) # "")
  <2>1. w = IF bad THEN <<Moved>> ELSE IF out THEN <<CMark>> ELSE <<>>
    BY <1>4 DEF Fate
  <2> HIDE DEF w
  <2> HIDE DEF bad, out, FateFacts, w
  <2>2. l.kind \notin {"blank", "header"} /\ l.kind # "comment"
    BY <1>4
  <2>3. w \in {<<>>, <<Moved>>, <<CMark>>} /\ (w = <<Moved>> <=> bad) /\ (w = <<CMark>> => out) /\ (w = <<>> => ~out)
    BY <1>1, <2>1, Zenon
  <2> QED
    BY <1>1, <1>4, <2>2, <2>3, Zenon DEF bad, out, FateFacts, w
<1> QED
  BY <1>2, <1>3, <1>4 DEF Kinds

\* What Left makes of a line of Parse.
LEMMA LeftIs ==
    ASSUME NEW l, NEW s, NEW y, y = Classify(l, s)
    PROVE  /\ \A w : Left(y, w).end = l.end
           /\ Left(y, <<>>).raw = l.raw /\ Left(y, <<Moved>>).raw = <<Moved>>
           /\ Left(y, <<CMark>>).raw = y.value \o <<Space, CMark>>
<1> DEFINE N(w) == CASE w = <<>> -> y.raw [] w = <<Moved>> -> w [] w = <<CMark>> -> y.value \o <<Space, CMark>>
<1>1. \A w : Left(y, w) = [y EXCEPT !.raw = N(w)]
  BY DEF Left
<1>2. <<>> # <<Moved>> /\ <<>> # <<CMark>> /\ <<Moved>> # <<CMark>>
  <2>1. <<Moved>>[1] = Moved /\ <<CMark>>[1] = CMark /\ Len(<<Moved>>) = 1 /\ Len(<<CMark>>) = 1 /\ Len(<<>>) = 0
    OBVIOUS
  <2> QED
    BY <2>1, SymbolsDiffer
<1>3. /\ y.raw = l.raw
      /\ \A e : [y EXCEPT !.raw = e].raw = e /\ [y EXCEPT !.raw = e].end = l.end
  BY ClassifyIs
<1>4. N(<<>>) = y.raw
  BY <1>2
<1>5. N(<<Moved>>) = <<Moved>>
  BY <1>2
<1>6. N(<<CMark>>) = y.value \o <<Space, CMark>>
  BY <1>2
<1> HIDE DEF N
<1>7. \A w : Left(y, w).end = l.end /\ Left(y, w).raw = N(w)
  <2> TAKE w
  <2> DEFINE e == N(w)
  <2>1. Left(y, w) = [y EXCEPT !.raw = e]
    BY <1>1
  <2> HIDE DEF e
  <2>2. [y EXCEPT !.raw = e].raw = e /\ [y EXCEPT !.raw = e].end = l.end
    BY <1>3
  <2> QED
    BY <2>1, <2>2 DEF e
<1> QED
  BY <1>3, <1>4, <1>5, <1>6, <1>7

\* The lines of a file: Parse records the kind, the setting and the comment.
LEMMA LinesOfFile ==
    ASSUME NEW doc \in Seq(Symbol), NEW f, f = Parse(doc)
    PROVE  /\ Len(f) \in Nat /\ Len(f) >= 1 /\ DOMAIN f = 1..Len(f)
           /\ \A i \in 1..Len(f) :
                /\ f[i].raw \in Seq(Ink) /\ f[i].kind = KindOf(f[i].raw)
                /\ f[i].kind \in {"blank", "comment", "header", "value"}
                /\ f[i].kind = "value" => /\ f[i].value = Setting(f[i].raw).value
                                          /\ f[i].comment = Setting(f[i].raw).comment
                                          /\ f[i].value # <<>>
                /\ f[i].kind # "value" => f[i].value = <<>> /\ f[i].comment = <<>>
<1> DEFINE ls == splitLines(doc)
           n == Len(ls)
<1>1. ls \in Seq(LineSet) /\ n \in Nat /\ n >= 1
  BY LinesAre
<1>2. DOMAIN f = 1..n /\ Len(f) = n /\ \A i \in 1..n : f[i] = Classify(ls[i], StanzaAt(ls, i))
  BY <1>1, FileIs
<1> HIDE DEF ls, n
<1>3. ASSUME NEW i \in 1..n
      PROVE  /\ f[i].raw \in Seq(Ink) /\ f[i].kind = KindOf(f[i].raw)
             /\ f[i].kind \in {"blank", "comment", "header", "value"}
             /\ f[i].kind = "value" => /\ f[i].value = Setting(f[i].raw).value
                                       /\ f[i].comment = Setting(f[i].raw).comment
                                       /\ f[i].value # <<>>
             /\ f[i].kind # "value" => f[i].value = <<>> /\ f[i].comment = <<>>
  <2> DEFINE l == ls[i]
  <2>1. l \in LineSet /\ l.raw \in Seq(Ink)
    BY <1>1, LineParts DEF n
  <2> HIDE DEF l
  <2>2. f[i] = Classify(l, StanzaAt(ls, i))
    BY <1>2 DEF l
  <2>3. /\ f[i].kind = KindOf(l.raw) /\ f[i].raw = l.raw
        /\ f[i].kind = "value" => f[i].value = Setting(l.raw).value /\ f[i].comment = Setting(l.raw).comment
        /\ f[i].kind # "value" => f[i].value = <<>> /\ f[i].comment = <<>>
    BY <2>2, ClassifyIs
  <2>4. KindOf(l.raw) \in {"blank", "comment", "header", "value"}
    BY <2>1, KindIs
  <2>5. KindOf(l.raw) = "value" => Setting(l.raw).value # <<>>
    BY <2>1, SettingIs DEF SettingFacts
  <2> QED
    BY <2>1, <2>3, <2>4, <2>5, Zenon
<1> QED
  BY <1>1, <1>2, <1>3

\* The ledger document read again, line by line: what stayed is as it was, a
\* moved line is its marker, a setting is the same without its comment.
Reread(l, y, w) ==
    /\ y.end = l.end /\ y.stanza = l.stanza
    /\ w = <<>> => y.raw = l.raw /\ y.kind = l.kind /\ y.value = l.value
    /\ w = <<Moved>> => y.raw = <<Moved>> /\ y.kind = "value" /\ y.value = <<Moved>>
    /\ w = <<CMark>> => y.raw = l.value \o <<Space, CMark>> /\ y.kind = "value" /\ y.value = l.value

\* Every line of the ledger document reads again as Reread says.
LEMMA OnChainReads ==
    ASSUME NEW doc \in Seq(Symbol), NEW opt \in Options, NEW f, f = Parse(doc),
           NEW back, back = Parse(Render(Split(f, opt).onChain))
    PROVE  /\ DOMAIN back = 1..Len(f) /\ Len(back) = Len(f)
           /\ \A i \in 1..Len(f) : Reread(f[i], back[i], Fate(f[i], opt))
<1> DEFINE ls == splitLines(doc)
           n == Len(ls)
           w(i) == Fate(f[i], opt)
           R(i) == Left(f[i], w(i)).raw
           h == [i \in 1..n |-> [raw |-> R(i), end |-> ls[i].end]]
<1>1. ls \in Seq(LineSet) /\ Chain(ls) /\ n \in Nat /\ n >= 1 /\ ls[n].end = <<>>
  BY LinesAre
<1>2. DOMAIN f = 1..n /\ Len(f) = n /\ \A i \in 1..n : f[i] = Classify(ls[i], StanzaAt(ls, i))
  BY <1>1, FileIs
<1> HIDE DEF ls, n, w, R
<1>3. ASSUME NEW i \in 1..n
      PROVE  /\ w(i) \in {<<>>, <<Moved>>, <<CMark>>}
             /\ <<>> # <<Moved>> /\ <<>> # <<CMark>> /\ <<Moved>> # <<CMark>>
             /\ R(i) \in Seq(Ink) /\ (R(i) = <<>> => ls[i].raw = <<>>)
             /\ KindOf(R(i)) = "header" <=> KindOf(ls[i].raw) = "header"
             /\ KindOf(ls[i].raw) = "header" => R(i) = ls[i].raw
             /\ Left(f[i], w(i)).end = ls[i].end
             /\ f[i].end = ls[i].end /\ f[i].stanza = StanzaAt(ls, i) /\ f[i].raw = ls[i].raw
             /\ ls[i] \in LineSet
             /\ w(i) = <<>> => R(i) = f[i].raw
             /\ w(i) = <<Moved>> => R(i) = <<Moved>>
             /\ w(i) = <<CMark>> => /\ R(i) = f[i].value \o <<Space, CMark>>
                                    /\ KindOf(R(i)) = "value" /\ Setting(R(i)).value = f[i].value
  <2> DEFINE l == ls[i]
             s == StanzaAt(ls, i)
  <2>1. l \in LineSet /\ l.raw \in Seq(Ink)
    BY <1>1, LineParts DEF n
  <2> HIDE DEF l, s
  <2>2. f[i] = Classify(l, s)
    BY <1>2 DEF l, s
  <2>3. /\ f[i].kind = KindOf(l.raw) /\ f[i].raw = l.raw /\ f[i].end = l.end /\ f[i].stanza = s
        /\ f[i].kind = "value" => f[i].value = Setting(l.raw).value /\ f[i].comment = Setting(l.raw).comment
    BY <2>2, ClassifyIs
  <2>4. KindOf(l.raw) \in {"blank", "comment", "header", "value"}
    BY <2>1, KindIs
  <2>5. /\ w(i) \in {<<>>, <<Moved>>, <<CMark>>}
        /\ <<>> # <<Moved>> /\ <<>> # <<CMark>> /\ <<Moved>> # <<CMark>>
        /\ w(i) # <<>> => f[i].kind # "header"
        /\ w(i) = <<CMark>> => f[i].kind = "value" /\ f[i].comment # <<>>
    <3>1. f[i].kind \in {"blank", "comment", "header", "value"}
      BY <2>3, <2>4
    <3>2. FateFacts(f[i], opt, w(i))
      BY <3>1, FateIs DEF Kinds, w
    <3> QED
      BY <3>1, <3>2, Zenon DEF FateFacts
  <2>6. /\ Left(f[i], w(i)).end = l.end
        /\ w(i) = <<>> => R(i) = l.raw
        /\ w(i) = <<Moved>> => R(i) = <<Moved>>
        /\ w(i) = <<CMark>> => R(i) = f[i].value \o <<Space, CMark>>
    BY <2>2, LeftIs DEF R
  <2>7. CASE w(i) = <<>>
    BY <2>1, <2>3, <2>5, <2>6, <2>7 DEF l, s
  <2>8. CASE w(i) = <<Moved>>
    <3>1. R(i) = <<Moved>> /\ R(i) \in Seq(Ink) /\ R(i) # <<>> /\ KindOf(R(i)) = "value"
      BY <2>5, <2>6, <2>8, MovedReads
    <3>2. KindOf(l.raw) # "header"
      BY <2>3, <2>5, <2>8
    <3> QED
      BY <2>1, <2>3, <2>5, <2>6, <2>8, <3>1, <3>2 DEF l, s
  <2>9. CASE w(i) = <<CMark>>
    <3> DEFINE v == f[i].value
    <3>1. v = Setting(l.raw).value /\ Setting(l.raw).comment # <<>> /\ KindOf(l.raw) = "value"
      BY <2>3, <2>5, <2>9
    <3>2. v \in Seq(Ink) /\ v # <<>> /\ v[1] # Space /\ v[1] # Hash /\ v[Len(v)] # Space /\ ~looksLikeHeader(v)
          /\ \A j \in 1..Len(v) : v[j] # Hash /\ v[j] \notin Markers
      BY <2>1, <3>1, SettingIs DEF SettingFacts
    <3> HIDE DEF v
    <3>3. R(i) = v \o <<Space, CMark>>
      BY <2>6, <2>9 DEF v
    <3>4. R(i) \in Seq(Ink) /\ R(i) # <<>> /\ KindOf(R(i)) = "value" /\ Setting(R(i)).value = v
      BY <3>2, <3>3, MarkedReads
    <3> QED
      BY <2>1, <2>3, <2>5, <2>6, <2>9, <3>1, <3>3, <3>4 DEF l, s, v
  <2> QED
    BY <2>5, <2>7, <2>8, <2>9
<1>4. /\ h \in Seq(LineSet) /\ Len(h) = n /\ DOMAIN h = 1..n
      /\ \A i \in 1..n : h[i].raw = R(i) /\ h[i].end = ls[i].end
  <2>1. \A i \in 1..n : R(i) \in Seq(Ink) /\ ls[i] \in LineSet
    BY <1>3
  <2>2. \A i \in 1..n : [raw |-> R(i), end |-> ls[i].end] \in LineSet
    BY <2>1 DEF LineSet
  <2>3. h \in Seq(LineSet)
    BY <1>1, <2>2
  <2> QED
    BY <1>1, <2>3
<1> HIDE DEF h
<1>5. Render(Split(f, opt).onChain) = Render(h)
  <2> DEFINE A == [i \in DOMAIN f |-> Left(f[i], Fate(f[i], opt))]
  <2>1. Split(f, opt).onChain = A
    BY SplitParts
  <2>2. DOMAIN A = DOMAIN h
    BY <1>2, <1>4
  <2>3. \A i \in DOMAIN A : A[i].raw = h[i].raw /\ A[i].end = h[i].end
    BY <1>2, <1>3, <1>4 DEF R, w
  <2> HIDE DEF A
  <2>4. Render(A) = Render(h)
    BY <2>2, <2>3, RenderSame
  <2> QED
    BY <2>1, <2>4
<1>6. splitLines(Render(h)) = h
  <2>1. \A i \in 1..n : h[i].end = ls[i].end /\ (h[i].raw = <<>> => ls[i].raw = <<>>)
    BY <1>3, <1>4
  <2> QED
    BY <1>1, <1>4, <2>1, RereadLines DEF n
<1>7. \A i \in 1..n : StanzaAt(h, i) = StanzaAt(ls, i)
  <2>1. \A i \in 1..n : /\ KindOf(h[i].raw) = "header" <=> KindOf(ls[i].raw) = "header"
                        /\ KindOf(ls[i].raw) = "header" => h[i].raw = ls[i].raw
    BY <1>3, <1>4
  <2> QED
    BY <1>1, <2>1, StanzasSame
<1>8. DOMAIN back = 1..n /\ Len(back) = n /\ \A i \in 1..n : back[i] = Classify(h[i], StanzaAt(h, i))
  <2>1. back = Parse(Render(h)) /\ h = splitLines(Render(h)) /\ Len(h) \in Nat
    BY <1>1, <1>4, <1>5, <1>6
  <2> QED
    BY <1>4, <2>1, FileIs
<1>9. ASSUME NEW i \in 1..n
      PROVE  Reread(f[i], back[i], w(i))
  <2>1. back[i] = Classify(h[i], StanzaAt(h, i))
    BY <1>8
  <2>2. /\ back[i].kind = KindOf(h[i].raw) /\ back[i].raw = h[i].raw /\ back[i].end = h[i].end
        /\ back[i].stanza = StanzaAt(h, i)
        /\ back[i].kind = "value" => back[i].value = Setting(h[i].raw).value
        /\ back[i].kind # "value" => back[i].value = <<>>
    BY <2>1, ClassifyIs
  <2>3. f[i] = Classify(ls[i], StanzaAt(ls, i))
    BY <1>2
  <2>4. /\ f[i].kind = KindOf(ls[i].raw) /\ f[i].raw = ls[i].raw
        /\ f[i].kind = "value" => f[i].value = Setting(ls[i].raw).value
        /\ f[i].kind # "value" => f[i].value = <<>>
    BY <2>3, ClassifyIs
  <2>5. h[i].raw = R(i) /\ h[i].end = ls[i].end
    BY <1>4
  <2>6. back[i].end = f[i].end /\ back[i].stanza = f[i].stanza
    BY <1>3, <1>7, <2>2, <2>5
  <2>7. ASSUME w(i) = <<>> PROVE back[i].raw = f[i].raw /\ back[i].kind = f[i].kind /\ back[i].value = f[i].value
    <3>1. h[i].raw = ls[i].raw
      BY <1>3, <2>5, <2>7
    <3> QED
      BY <2>2, <2>4, <3>1, Zenon
  <2>8. ASSUME w(i) = <<Moved>> PROVE back[i].raw = <<Moved>> /\ back[i].kind = "value" /\ back[i].value = <<Moved>>
    <3>1. h[i].raw = <<Moved>>
      BY <1>3, <2>5, <2>8
    <3> QED
      BY <2>2, <3>1, MovedReads
  <2>9. ASSUME w(i) = <<CMark>>
        PROVE  back[i].raw = f[i].value \o <<Space, CMark>> /\ back[i].kind = "value" /\ back[i].value = f[i].value
    BY <1>3, <2>2, <2>5, <2>9
  <2> QED
    BY <2>6, <2>7, <2>8, <2>9, Zenon DEF Reread
<1> QED
  BY <1>2, <1>8, <1>9 DEF w

-----------------------------------------------------------------------------
(* What the scanners let through, and what the ledger document shows.      *)

\* A sequence that is not empty has a first and a last member.
LEMMA FirstOf ==
    ASSUME NEW S, NEW s \in Seq(S), s # <<>>
    PROVE  1 \in DOMAIN s /\ Len(s) \in DOMAIN s
  OBVIOUS

\* What the scanners let through.
LEMMA CleanLine ==
    ASSUME NEW stanza, NEW s \in Seq(Ink), lineReason(stanza, s) = ""
    PROVE  /\ ~Has(s, Lan) /\ (Has(s, Hex) => stanza \in keyStanzas)
           /\ Trim(s) = s /\ s # <<>> /\ stanza = Port => s[1] # Secret
<1> DEFINE t == Trim(s)
           key == IF stanza = Port /\ t # <<>> THEN t[1] ELSE Plain
<1>0. s # <<>> => 1 \in DOMAIN s
  BY FirstOf, Zenon
<1>1. t \in Seq(Ink) /\ \A x : x # Space => (Has(t, x) <=> Has(s, x))
  BY LineParts, TrimFacts
<1>2. lineReason(stanza, s) =
        IF key \in {Secret, Admin} /\ ~loopbackOnly(t) THEN "access list or credential"
        ELSE IF stanza \notin keyStanzas /\ Has(t, Hex) THEN "long hex value"
        ELSE IF hostReason(stanza, t) # "" THEN hostReason(stanza, t)
        ELSE IF key = Listen THEN "listen address" ELSE ""
  BY DEF lineReason
<1> HIDE DEF t, key
<1>3. /\ ~(key \in {Secret, Admin} /\ ~loopbackOnly(t))
      /\ ~(stanza \notin keyStanzas /\ Has(t, Hex))
      /\ hostReason(stanza, t) = ""
  BY <1>2
<1>4. ~Has(t, Lan)
  BY <1>3 DEF hostReason
<1>5. ~Has(s, Lan) /\ (Has(s, Hex) => stanza \in keyStanzas)
  BY <1>1, <1>3, <1>4, SymbolsDiffer
<1>6. ASSUME t = s, s # <<>>, stanza = Port PROVE s[1] # Secret
  <2> SUFFICES ASSUME s[1] = Secret PROVE FALSE
    OBVIOUS
  <2>1. key = Secret
    BY <1>6 DEF key
  <2>2. loopbackOnly(s)
    BY <1>3, <1>6, <2>1
  <2>3. 1 \in DOMAIN s
    BY <1>0, <1>6
  <2>4. s[1] \in {Admin, Space}
    BY <2>2, <2>3 DEF loopbackOnly
  <2> QED
    BY <2>4, SymbolsDiffer
<1> QED
  BY <1>5, <1>6 DEF t

\* A setting stays only in an allowed stanza, and only if the scanners agree.
LEMMA AllowedSetting ==
    ASSUME NEW stanza, NEW v, NEW opt \in Options, valueReasonOpt(stanza, v, opt) = ""
    PROVE  /\ stanza \in onChainStanzas \cup {Port} \cup (IF opt.peers THEN peerStanzas ELSE {})
           /\ lineReason(stanza, v) = ""
<1>1. opt.peers \in BOOLEAN
  BY DEF Options
<1>2. CASE opt.peers /\ stanza \in peerStanzas
  BY <1>2 DEF valueReasonOpt
<1>3. CASE ~(opt.peers /\ stanza \in peerStanzas)
  <2>1. valueReason(stanza, v) = ""
    BY <1>3 DEF valueReasonOpt
  <2>2. stanza \notin bundleStanzas
    BY <2>1 DEF valueReason
  <2>3. stanza \in bundleStanzas \cup onChainStanzas \cup {Port, ""}
    BY <2>1, <2>2 DEF valueReason
  <2>4. stanza # ""
    BY <2>1, <2>2, <2>3 DEF valueReason, onChainStanzas, bundleStanzas
  <2>5. lineReason(stanza, v) = ""
    BY <2>1, <2>2, <2>3, <2>4 DEF valueReason
  <2> QED
    BY <2>2, <2>3, <2>4, <2>5
<1> QED
  BY <1>2, <1>3

\* A comment inside a setting is found in the line as it is in the trimmed one.
LEMMA CommentInHeader ==
    ASSUME NEW r \in Seq(Ink), NEW cut \in 1..Len(Trim(r)), Trim(r)[cut] = Hash,
           looksLikeHeader(Trim(SubSeq(Trim(r), 1, cut - 1)))
    PROVE  \E i \in DOMAIN r : r[i] = Hash /\ looksLikeHeader(Trim(SubSeq(r, 1, i - 1)))
<1> DEFINE s == Trim(r)
           u == SubSeq(s, 1, cut - 1)
<1>1. /\ s \in Seq(Ink)
      /\ \E a \in Nat : /\ a + Len(s) <= Len(r)
                        /\ \A i \in 1..Len(s) : s[i] = r[a + i]
                        /\ \A i \in 1..Len(r) : i <= a \/ a + Len(s) < i => r[i] = Space
  BY LineParts, TrimFacts
<1>2. PICK a \in Nat : /\ a + Len(s) <= Len(r)
                       /\ \A i \in 1..Len(s) : s[i] = r[a + i]
                       /\ \A i \in 1..Len(r) : i <= a \/ a + Len(s) < i => r[i] = Space
  BY <1>1
<1>3. cut \in 1..Len(s) /\ s[cut] = Hash /\ looksLikeHeader(Trim(u)) /\ Len(s) \in Nat /\ Len(r) \in Nat
  BY <1>1
<1> HIDE DEF s
<1>4. u \in Seq(Ink) /\ Len(u) = cut - 1 /\ \A i \in 1..(cut - 1) : u[i] = s[i]
  <2>1. cut - 1 \in Nat /\ cut - 1 <= Len(s)
    BY <1>3
  <2> QED
    BY <1>1, <2>1, PrefixIs
<1> DEFINE m == (a + cut) - 1
           x == SubSeq(r, 1, m)
<1>5. x \in Seq(Ink) /\ Len(x) = m /\ \A i \in 1..m : x[i] = r[i]
  <2>1. m \in Nat /\ m <= Len(r)
    BY <1>2, <1>3
  <2> QED
    BY <2>1, PrefixIs
<1> HIDE DEF u, x
<1>6. u \in Seq(Symbol) /\ x \in Seq(Symbol)
  <2>1. Ink \subseteq Symbol
    BY LineParts
  <2> QED
    BY <1>4, <1>5, <2>1
<1>7. PICK p, q : Core(u, p, q) /\ Trim(u) = SubSeq(u, p + 1, q)
  BY <1>6, TrimIs
<1>8. /\ p \in Nat /\ q \in Nat /\ p <= q /\ q <= cut - 1
      /\ \A i \in 1..(cut - 1) : i <= p \/ q < i => u[i] = Space
      /\ p < q => u[p + 1] # Space /\ u[q] # Space
  BY <1>4, <1>7 DEF Core
<1> DEFINE tu == SubSeq(u, p + 1, q)
<1>9. tu \in Seq(Ink) /\ Len(tu) = q - p /\ \A i \in 1..(q - p) : tu[i] = u[p + i]
  <2>1. p \in Nat /\ q \in Nat /\ p <= q /\ q <= Len(u) /\ u \in Seq(Ink)
    BY <1>4, <1>8
  <2> QED
    BY <2>1, CutIs
<1> HIDE DEF tu
<1>10. p < q
  <2>1. tu # <<>>
    BY <1>3, <1>7 DEF looksLikeHeader, tu
  <2> QED
    BY <1>8, <1>9, <2>1
<1>11. \A i \in 1..(cut - 1) : a + i \in 1..m /\ x[a + i] = u[i]
  <2> SUFFICES ASSUME NEW i \in 1..(cut - 1) PROVE a + i \in 1..m /\ x[a + i] = u[i]
    OBVIOUS
  <2>1. a + i \in 1..m /\ i \in 1..Len(s)
    BY <1>2, <1>3
  <2>2. x[a + i] = r[a + i] /\ s[i] = r[a + i] /\ u[i] = s[i]
    BY <1>2, <1>4, <1>5, <2>1
  <2> QED
    BY <2>1, <2>2
<1>12. \A i \in 1..a : i \in 1..m /\ x[i] = Space
  <2> SUFFICES ASSUME NEW i \in 1..a PROVE i \in 1..m /\ x[i] = Space
    OBVIOUS
  <2>1. i \in 1..m /\ i \in 1..Len(r) /\ i <= a
    BY <1>2, <1>3
  <2> QED
    BY <1>2, <1>5, <2>1
<1>13. Core(x, a + p, a + q)
  <2>1. ASSUME NEW i \in 1..Len(x), i <= a + p \/ a + q < i PROVE x[i] = Space
    <3>1. CASE i <= a
      BY <1>12, <3>1
    <3>2. CASE ~(i <= a)
      <4> DEFINE j == i - a
      <4>1. j \in 1..(cut - 1) /\ a + j = i /\ (j <= p \/ q < j)
        BY <1>2, <1>3, <1>5, <1>8, <2>1, <3>2
      <4> HIDE DEF j
      <4> QED
        BY <1>8, <1>11, <4>1
    <3> QED
      BY <3>1, <3>2
  <2>2. /\ a + p \in Nat /\ a + q \in Nat /\ a + p <= a + q /\ a + q <= Len(x)
        /\ p + 1 \in 1..(cut - 1) /\ q \in 1..(cut - 1) /\ (a + p) + 1 = a + (p + 1)
    BY <1>2, <1>3, <1>5, <1>8, <1>10
  <2>3. x[(a + p) + 1] # Space /\ x[a + q] # Space
    BY <1>8, <1>10, <1>11, <2>2
  <2> QED
    BY <2>1, <2>2, <2>3 DEF Core
<1> DEFINE b == a + p
           d == a + q
           tx == SubSeq(x, b + 1, d)
<1>14. b \in Nat /\ d \in Nat /\ b <= d /\ d <= Len(x) /\ d - b = q - p
  BY <1>2, <1>3, <1>5, <1>8
<1>15. Trim(x) = tx
  BY <1>6, <1>13, CoreTrims
<1> HIDE DEF b, d
<1>16. tx \in Seq(Ink) /\ Len(tx) = d - b /\ \A i \in 1..(d - b) : tx[i] = x[b + i]
  <2>1. x \in Seq(Ink)
    BY <1>5
  <2>2. b \in Nat /\ d \in Nat /\ b <= d /\ d <= Len(x)
    BY <1>14
  <2> QED
    BY <2>1, <2>2, CutIs
<1> HIDE DEF tx
<1>17. tx = tu
  <2>1. ASSUME NEW i \in 1..(q - p) PROVE tx[i] = tu[i]
    <3>1. tx[i] = x[b + i] /\ tu[i] = u[p + i]
      BY <1>9, <1>14, <1>16
    <3>2. p + i \in 1..(cut - 1) /\ b + i = a + (p + i)
      BY <1>3, <1>8 DEF b
    <3> QED
      BY <1>11, <3>1, <3>2
  <2> QED
    BY <1>9, <1>14, <1>16, <2>1, SeqEqual
<1>18. a + cut \in DOMAIN r /\ r[a + cut] = Hash /\ (a + cut) - 1 = m
  BY <1>2, <1>3
<1>19. looksLikeHeader(Trim(x))
  BY <1>3, <1>7, <1>15, <1>17 DEF tu
<1> QED
  BY <1>18, <1>19 DEF x

\* A file that is not refused has no markers.
LEMMA NoMarkers ==
    ASSUME NEW f, ~refuse(f), NEW i \in DOMAIN f, f[i].kind \in {"comment", "value"}, NEW m \in Markers
    PROVE  ~Has(f[i].raw, m)
  BY DEF refuse

\* What the ledger document, read again, shows of one line.
LEMMA LineHarmless ==
    ASSUME NEW doc \in Seq(Symbol), NEW opt \in Options, NEW f, f = Parse(doc), ~refuse(f),
           NEW back, back = Parse(Render(Split(f, opt).onChain)), NEW i \in 1..Len(f),
           back[i].kind \in {"comment", "value"}, Trim(back[i].raw) # <<Moved>>
    PROVE  Harmless(back[i], opt)
<1> DEFINE l == f[i]
           w == Fate(l, opt)
           G == back[i]
<1>1. Len(f) \in Nat /\ DOMAIN f = 1..Len(f)
  BY LinesOfFile
<1>2. /\ l.raw \in Seq(Ink) /\ l.kind = KindOf(l.raw) /\ l.kind \in Kinds
      /\ l.kind = "value" => l.value = Setting(l.raw).value /\ l.comment = Setting(l.raw).comment /\ l.value # <<>>
  BY LinesOfFile DEF Kinds
<1>3. FateFacts(l, opt, w)
  BY <1>2, FateIs
<1>4. Reread(l, G, w)
  BY OnChainReads
<1>5. G.kind \in {"comment", "value"} /\ Trim(G.raw) # <<Moved>>
  OBVIOUS
<1>6. l.kind \in {"comment", "value"} => ~Has(l.raw, Moved) /\ ~Has(l.raw, CMark)
  <2>1. i \in DOMAIN f /\ Moved \in Markers /\ CMark \in Markers
    BY <1>1 DEF Markers
  <2> QED
    BY <2>1, NoMarkers
<1> DEFINE r == l.raw
           v == l.value
           y == l.comment
<1>7. l.kind = "value" => SettingFacts(r, v, y)
  BY <1>2, SettingIs
<1> HIDE DEF l, w, G, r, v, y
<1>8. l.raw = r /\ l.value = v /\ l.comment = y
  BY DEF r, v, y
<1>9. /\ w = <<>> \/ w = <<CMark>>
      /\ w = <<CMark>> => l.kind = "value"
  <2>1. w # <<Moved>>
    BY <1>4, <1>5, MovedReads DEF Reread
  <2> QED
    BY <1>2, <1>3, <2>1, Zenon DEF FateFacts, Kinds
<1>10. Lan # Space /\ Hex # Space /\ Hash # Space /\ Lan # CMark /\ Hex # CMark /\ Hash # CMark /\ Hash # Moved
  BY SymbolsDiffer
<1>11. ASSUME l.kind = "value"
       PROVE  /\ v \in Seq(Ink) /\ v # <<>> /\ ~Has(v, Lan) /\ (Has(v, Hex) => l.stanza \in keyStanzas)
              /\ l.stanza \in onChainStanzas \cup {Port} \cup (IF opt.peers THEN peerStanzas ELSE {})
              /\ l.stanza = Port => v[1] # Secret
  <2>1. v \in Seq(Ink) /\ v # <<>> /\ v[1] # Space /\ v[Len(v)] # Space
    BY <1>7, <1>11 DEF SettingFacts
  <2>2. v \in Seq(Symbol)
    BY <2>1, LineParts
  <2>3. Trim(v) = v
    BY <2>1, <2>2, TrimSame
  <2>4. valueReasonOpt(l.stanza, v, opt) = ""
    <3>1. w # <<Moved>>
      BY <1>3, <1>9 DEF FateFacts
    <3> QED
      BY <1>3, <1>8, <1>11, <3>1 DEF FateFacts
  <2>5. /\ l.stanza \in onChainStanzas \cup {Port} \cup (IF opt.peers THEN peerStanzas ELSE {})
        /\ lineReason(l.stanza, v) = ""
    BY <2>4, AllowedSetting
  <2>6. /\ ~Has(v, Lan) /\ (Has(v, Hex) => l.stanza \in keyStanzas)
        /\ Trim(v) = v /\ v # <<>> /\ l.stanza = Port => v[1] # Secret
    BY <2>1, <2>5, CleanLine
  <2> QED
    BY <2>1, <2>3, <2>5, <2>6
<1>12. CASE w = <<CMark>>
  <2>1. l.kind = "value" /\ y # <<>> /\ G.raw = v \o <<Space, CMark>> /\ G.kind = "value" /\ G.value = v
    BY <1>3, <1>4, <1>8, <1>9, <1>12, Zenon DEF FateFacts, Reread
  <2>2. \A x : Has(G.raw, x) => x = Space \/ x = CMark \/ Has(v, x)
    <3>1. /\ v \in Seq(Ink) /\ v # <<>> /\ v[1] # Space /\ v[1] # Hash /\ v[Len(v)] # Space /\ ~looksLikeHeader(v)
          /\ \A j \in 1..Len(v) : v[j] # Hash /\ v[j] \notin Markers
      BY <1>7, <2>1 DEF SettingFacts
    <3> QED
      BY <2>1, <3>1, MarkedReads
  <2>3. ~Has(v, Hash)
    <3>1. v \in Seq(Ink) /\ \A j \in 1..Len(v) : v[j] # Hash
      BY <1>7, <2>1 DEF SettingFacts
    <3> QED
      BY <3>1 DEF Has
  <2>4. ~Has(G.raw, Lan) /\ (Has(G.raw, Hex) => G.stanza \in keyStanzas) /\ ~Has(G.raw, Hash)
    BY <1>4, <1>10, <1>11, <2>1, <2>2, <2>3 DEF Reread
  <2>5. /\ G.stanza \in onChainStanzas \cup {Port} \cup (IF opt.peers THEN peerStanzas ELSE {})
        /\ G.stanza = Port => G.value[1] # Secret
    BY <1>4, <1>11, <2>1 DEF Reread
  <2> QED
    BY <2>4, <2>5 DEF Harmless, G
<1>13. CASE w = <<>> /\ l.kind = "comment"
  <2>1. G.raw = r /\ G.kind = "comment" /\ G.stanza = l.stanza /\ r \in Seq(Ink)
    BY <1>2, <1>4, <1>8, <1>13 DEF Reread
  <2>2. opt.comments # "bundle" /\ lineReason(l.stanza, r) = ""
    BY <1>3, <1>8, <1>13 DEF FateFacts
  <2>3. ~Has(r, Lan) /\ (Has(r, Hex) => l.stanza \in keyStanzas)
    BY <2>1, <2>2, CleanLine
  <2> QED
    BY <2>1, <2>2, <2>3 DEF Harmless, G
<1>14. CASE w = <<>> /\ l.kind = "value"
  <2>1. G.raw = r /\ G.kind = "value" /\ G.stanza = l.stanza /\ G.value = v /\ r \in Seq(Ink)
    BY <1>2, <1>4, <1>8, <1>14 DEF Reread
  <2>2. y = <<>> \/ (opt.comments # "bundle" /\ lineReason(l.stanza, y) = "")
    BY <1>3, <1>8, <1>14 DEF FateFacts
  <2>3. ~Has(r, Lan) /\ (Has(r, Hex) => l.stanza \in keyStanzas)
    <3>1. CASE y = <<>>
      <4>1. v = Trim(r)
        BY <1>7, <1>14, <3>1 DEF SettingFacts
      <4>2. \A x : x # Space => (Has(v, x) <=> Has(r, x))
        BY <2>1, <4>1, LineParts, TrimFacts
      <4> QED
        BY <1>10, <1>11, <1>14, <4>2
    <3>2. CASE y # <<>>
      <4>1. y \in Seq(Ink) /\ \A x : x # Space /\ Has(r, x) => Has(v, x) \/ Has(y, x)
        BY <1>7, <1>14, <3>2 DEF SettingFacts
      <4>2. ~Has(y, Lan) /\ (Has(y, Hex) => l.stanza \in keyStanzas)
        BY <2>2, <3>2, <4>1, CleanLine
      <4> QED
        BY <1>10, <1>11, <1>14, <4>1, <4>2
    <3> QED
      BY <3>1, <3>2
  <2>4. ASSUME opt.comments = "bundle", Has(r, Hash)
        PROVE  \E j \in DOMAIN r : r[j] = Hash /\ looksLikeHeader(Trim(SubSeq(r, 1, j - 1)))
    <3> DEFINE s == Trim(r)
               cut == inlineComment(s)
    <3>1. y = <<>>
      BY <2>2, <2>4
    <3>2. /\ v = s /\ v[1] # Hash /\ v # <<>>
          /\ cut \in {0, 1} \/ (cut > 1 /\ looksLikeHeader(Trim(SubSeq(s, 1, cut - 1))))
      BY <1>7, <1>14, <3>1 DEF SettingFacts
    <3>3. s \in Seq(Ink) /\ Has(s, Hash) /\ ~Has(s, Moved) /\ ~Has(s, CMark)
      <4>1. s \in Seq(Ink) /\ \A x : x # Space => (Has(s, x) <=> Has(r, x))
        BY <2>1, LineParts, TrimFacts
      <4>2. ~Has(r, Moved) /\ ~Has(r, CMark) /\ Moved # Space /\ CMark # Space
        BY <1>6, <1>8, <1>14, SymbolsDiffer
      <4> QED
        BY <1>10, <2>4, <4>1, <4>2
    <3> HIDE DEF s
    <3>4. s \in Seq(Symbol) /\ DOMAIN s = 1..Len(s)
      BY <3>3, LineParts
    <3>5. \A j \in 1..Len(s) : s[j] \notin Markers
      BY <3>3, <3>4 DEF Has, Markers
    <3>6. PICK j \in 1..Len(s) : s[j] = Hash
      BY <3>3, <3>4 DEF Has
    <3>7. cut # 0 /\ cut \in 1..Len(s) /\ s[cut] = Hash
      <4>1. cut # 0
        <5>1. cut = 0 => Marks(s) = {}
          BY <3>4, MarksAre
        <5>2. j \in Marks(s)
          BY <3>4, <3>6 DEF Marks
        <5> QED
          BY <5>1, <5>2
      <4>2. cut \in 1..Len(s) /\ (s[cut] = Hash \/ s[cut] \in Markers)
        BY <3>4, <4>1, MarksAre
      <4> QED
        BY <3>5, <4>1, <4>2
    <3> HIDE DEF cut
    <3>8. cut # 1
      BY <3>2, <3>7
    <3>9. looksLikeHeader(Trim(SubSeq(s, 1, cut - 1)))
      BY <3>2, <3>7, <3>8
    <3> QED
      BY <2>1, <3>7, <3>9, CommentInHeader DEF s
  <2>5. /\ G.stanza \in onChainStanzas \cup {Port} \cup (IF opt.peers THEN peerStanzas ELSE {})
        /\ G.stanza = Port => G.value[1] # Secret
    BY <1>11, <1>14, <2>1
  <2> QED
    BY <2>1, <2>3, <2>4, <2>5 DEF Harmless, G
<1>15. w = <<>> => l.kind \in {"comment", "value"}
  BY <1>4, <1>5 DEF Reread
<1> QED
  BY <1>9, <1>12, <1>13, <1>14, <1>15

\* The gaps of a ledger document show.
LEMMA GapShows ==
    ASSUME NEW doc \in Seq(Symbol), NEW opt \in Options, NEW f, f = Parse(doc),
           NEW back, back = Parse(Render(Split(f, opt).onChain)), Split(f, opt).bundle # <<>>
    PROVE  refuse(back)
<1> DEFINE K == Gone(f, opt)
<1>1. Len(f) \in Nat /\ DOMAIN f = 1..Len(f)
  BY LinesOfFile
<1>2. K # {}
  <2> SUFFICES ASSUME K = {} PROVE FALSE
    OBVIOUS
  <2>1. Split(f, opt).bundle = Those(f, K)
    BY SplitParts
  <2>2. Cardinality(K) = 0
    BY FS_EmptySet
  <2>3. Those(f, K) = <<>>
    <3>1. 1..0 = {}
      OBVIOUS
    <3> HIDE DEF K
    <3> QED
      BY <2>2, <3>1 DEF Those
  <2> QED
    BY <2>1, <2>3
<1>3. PICK i \in DOMAIN f : Fate(f[i], opt) # <<>>
  BY <1>2 DEF Gone
<1>4. FateFacts(f[i], opt, Fate(f[i], opt))
  <2>1. f[i].kind \in Kinds
    BY <1>1, LinesOfFile DEF Kinds
  <2> QED
    BY <2>1, FateIs
<1>5. /\ Fate(f[i], opt) = <<Moved>> => back[i].raw = <<Moved>> /\ back[i].kind = "value"
      /\ Fate(f[i], opt) = <<CMark>> => back[i].raw = f[i].value \o <<Space, CMark>> /\ back[i].kind = "value"
      /\ i \in DOMAIN back
  <2>1. Reread(f[i], back[i], Fate(f[i], opt)) /\ i \in DOMAIN back
    BY <1>1, OnChainReads
  <2> QED
    BY <2>1, Zenon DEF Reread
<1>6. CASE Fate(f[i], opt) = <<Moved>>
  <2>1. Has(back[i].raw, Moved)
    BY <1>5, <1>6 DEF Has
  <2> QED
    BY <1>5, <1>6, <2>1 DEF refuse, Markers
<1>7. CASE Fate(f[i], opt) = <<CMark>>
  <2> DEFINE v == f[i].value
             r == v \o <<Space, CMark>>
  <2>1. f[i].kind = "value" /\ f[i].raw \in Seq(Ink) /\ KindOf(f[i].raw) = "value" /\ v = Setting(f[i].raw).value
    <3>1. f[i].kind = "value"
      <4>1. f[i].kind \in Kinds
        BY <1>1, LinesOfFile DEF Kinds
      <4> QED
        BY <1>4, <1>7, <4>1, Zenon DEF FateFacts, Kinds
    <3> QED
      BY <1>1, <3>1, LinesOfFile
  <2>2. v \in Seq(Ink)
    BY <2>1, SettingIs DEF SettingFacts
  <2> HIDE DEF v
  <2>3. Len(v) \in Nat /\ Len(r) = Len(v) + 2 /\ r[Len(v) + 2] = CMark /\ r \in Seq(Ink)
    <3>1. <<Space, CMark>> \in Seq(Ink) /\ Len(<<Space, CMark>>) = 2
      BY LineParts
    <3> QED
      BY <2>2, <3>1
  <2> HIDE DEF r
  <2>4. Len(v) + 2 \in DOMAIN r
    BY <2>3
  <2>5. Has(r, CMark)
    BY <2>3, <2>4 DEF Has
  <2>6. Has(back[i].raw, CMark) /\ back[i].kind = "value"
    BY <1>5, <1>7, <2>5 DEF r, v
  <2> QED
    BY <1>5, <2>6 DEF refuse, Markers
<1> QED
  BY <1>3, <1>4, <1>6, <1>7 DEF FateFacts

-----------------------------------------------------------------------------
(* The settings that stay, and the report of those that left.              *)

\* The settings at some places of a file.
LEMMA ValuesAre ==
    ASSUME NEW f, NEW n \in Nat, NEW K \in SUBSET (1..n)
    PROVE  /\ Cardinality(K) \in Nat /\ DOMAIN Values(f, K) = 1..Cardinality(K)
           /\ \A m \in 1..Cardinality(K) : Nth(K, m) \in K
           /\ Values(f, K) = [m \in 1..Cardinality(K) |-> f[Nth(K, m)].value]
<1>1. Cardinality(K) \in Nat /\ \A m \in 1..Cardinality(K) : Nth(K, m) \in K
  BY NthIs
<1> DEFINE cut == Cardinality(K)
<1> HIDE DEF cut
<1>2. Those(f, K) = [m \in 1..cut |-> f[Nth(K, m)]]
  BY DEF Those, cut
<1>3. DOMAIN Those(f, K) = 1..cut /\ \A m \in 1..cut : Those(f, K)[m] = f[Nth(K, m)]
  BY <1>2
<1>4. Values(f, K) = [m \in 1..cut |-> f[Nth(K, m)].value]
  BY <1>3 DEF Values
<1> QED
  BY <1>1, <1>4 DEF cut

\* Files with the same settings at those places show the same values.
LEMMA ValuesSame ==
    ASSUME NEW f, NEW back, NEW n \in Nat, NEW K \in SUBSET (1..n), \A i \in K : f[i].value = back[i].value
    PROVE  Values(f, K) = Values(back, K)
<1> DEFINE cut == Cardinality(K)
<1>1. /\ \A m \in 1..cut : Nth(K, m) \in K
      /\ Values(f, K) = [m \in 1..cut |-> f[Nth(K, m)].value]
      /\ Values(back, K) = [m \in 1..cut |-> back[Nth(K, m)].value]
  BY ValuesAre
<1> HIDE DEF cut
<1>2. \A m \in 1..cut : f[Nth(K, m)].value = back[Nth(K, m)].value
  BY <1>1
<1> QED
  BY <1>1, <1>2

\* As many values of fewer places: the places are the same.
LEMMA ValuesCount ==
    ASSUME NEW f, NEW back, NEW n \in Nat, NEW K \in SUBSET (1..n), NEW L \in SUBSET K, Values(f, L) = Values(back, K)
    PROVE  L = K
<1> DEFINE cut == Cardinality(K)
           d == Cardinality(L)
<1>1. L \in SUBSET (1..n)
  OBVIOUS
<1>2. cut \in Nat /\ d \in Nat /\ DOMAIN Values(f, L) = 1..d /\ DOMAIN Values(back, K) = 1..cut
  BY <1>1, ValuesAre
<1> HIDE DEF cut, d
<1>3. 1..d = 1..cut
  BY <1>2
<1>4. cut = d
  <2>1. cut > d => cut \in 1..cut /\ cut \notin 1..d
    BY <1>2
  <2>2. d > cut => d \in 1..d /\ d \notin 1..cut
    BY <1>2
  <2> QED
    BY <1>2, <1>3, <2>1, <2>2
<1>5. IsFiniteSet(K)
  BY UpToIs
<1> QED
  BY <1>4, <1>5, FS_Subset DEF cut, d

\* The settings shown by the ledger document are those that did not move.
LEMMA ShownAre ==
    ASSUME NEW doc \in Seq(Symbol), NEW opt \in Options, NEW f, f = Parse(doc), ~refuse(f),
           NEW back, back = Parse(Render(Split(f, opt).onChain)), NEW s
    PROVE  LET K == {i \in SettingsOf(f, s) : Fate(f[i], opt) # <<Moved>>} IN
           /\ Shown(back, s) = K /\ K \subseteq SettingsOf(f, s) /\ SettingsOf(f, s) \in SUBSET (1..Len(f))
           /\ Len(f) \in Nat /\ \A i \in K : back[i].value = f[i].value
<1> DEFINE K == {i \in SettingsOf(f, s) : Fate(f[i], opt) # <<Moved>>}
           n == Len(f)
<1>1. n \in Nat /\ DOMAIN f = 1..n /\ DOMAIN back = 1..n
  BY LinesOfFile, OnChainReads
<1>2. SettingsOf(f, s) \in SUBSET (1..n)
  BY <1>1 DEF SettingsOf
<1> HIDE DEF n
<1>3. ASSUME NEW i \in 1..n
      PROVE  /\ i \in Shown(back, s) <=> i \in K
             /\ i \in K => back[i].value = f[i].value
  <2> DEFINE l == f[i]
             y == back[i]
             w == Fate(l, opt)
  <2>1. FateFacts(l, opt, w) /\ Reread(l, y, w) /\ l.kind \in Kinds
    <3>1. l.kind \in Kinds
      BY LinesOfFile DEF Kinds, n
    <3>2. Reread(l, y, w)
      BY OnChainReads DEF n
    <3> QED
      BY <3>1, <3>2, FateIs
  <2>2. l.kind = "value" => l.value # <<>> /\ l.value # <<Moved>>
    <3> SUFFICES ASSUME l.kind = "value" PROVE l.value # <<>> /\ l.value # <<Moved>>
      OBVIOUS
    <3>1. l.raw \in Seq(Ink) /\ KindOf(l.raw) = "value" /\ l.value = Setting(l.raw).value
          /\ l.comment = Setting(l.raw).comment
      BY LinesOfFile DEF n
    <3>2. SettingFacts(l.raw, l.value, l.comment)
      BY <3>1, SettingIs
    <3>3. ~Has(l.raw, Moved)
      <4>1. i \in DOMAIN f /\ Moved \in Markers
        BY <1>1 DEF Markers
      <4> QED
        BY <4>1, NoMarkers
    <3> DEFINE v == l.value
               r == l.raw
               cut == l.comment
    <3> HIDE DEF l
    <3>4. v # <<>> /\ (cut = <<>> => v = Trim(r)) /\ (cut # <<>> => \A j \in 1..Len(v) : v[j] \notin Markers)
      BY <3>2 DEF SettingFacts
    <3>5. ~Has(Trim(r), Moved)
      <4>1. \A x : x # Space => (Has(Trim(r), x) <=> Has(r, x))
        BY <3>1, LineParts, TrimFacts
      <4>2. Moved # Space
        BY SymbolsDiffer
      <4> QED
        BY <3>3, <4>1, <4>2
    <3> HIDE DEF v, r, cut
    <3>6. v # <<Moved>>
      <4> SUFFICES ASSUME v = <<Moved>> PROVE FALSE
        OBVIOUS
      <4>1. Has(v, Moved)
        BY DEF Has
      <4>2. 1 \in 1..Len(v) /\ v[1] = Moved /\ Moved \in Markers
        BY DEF Markers
      <4> QED
        BY <3>4, <3>5, <4>1, <4>2
    <3> QED
      BY <3>4, <3>6 DEF v
  <2> HIDE DEF l, y, w
  <2>3. i \in Shown(back, s) <=> y.kind = "value" /\ y.stanza = s /\ y.value # <<>> /\ y.value # <<Moved>>
    BY <1>1 DEF Shown, SettingsOf, y
  <2>4. i \in K <=> l.kind = "value" /\ l.stanza = s /\ l.value # <<>> /\ w # <<Moved>>
    BY <1>1 DEF SettingsOf, l, w
  <2>5. y.stanza = l.stanza
    BY <2>1 DEF Reread
  <2>6. CASE w = <<>>
    <3>1. y.kind = l.kind /\ y.value = l.value /\ w # <<Moved>>
      BY <2>1, <2>6, Zenon DEF Reread, FateFacts
    <3> QED
      BY <2>2, <2>3, <2>4, <2>5, <3>1, Zenon DEF l, y
  <2>7. CASE w = <<Moved>>
    <3>1. y.value = <<Moved>>
      BY <2>1, <2>7, Zenon DEF Reread
    <3> QED
      BY <2>3, <2>4, <2>7, <3>1, Zenon
  <2>8. CASE w = <<CMark>>
    <3>1. y.kind = "value" /\ y.value = l.value /\ w # <<Moved>> /\ l.kind = "value"
      BY <2>1, <2>8, Zenon DEF Reread, FateFacts, Kinds
    <3> QED
      BY <2>2, <2>3, <2>4, <2>5, <3>1, Zenon DEF l, y
  <2>9. w \in {<<>>, <<Moved>>, <<CMark>>}
    BY <2>1 DEF FateFacts
  <2> QED
    BY <2>6, <2>7, <2>8, <2>9
<1>4. Shown(back, s) \subseteq 1..n
  BY <1>1 DEF Shown, SettingsOf
<1>5. K \subseteq SettingsOf(f, s) /\ K \subseteq 1..n
  BY <1>2
<1> HIDE DEF K
<1>6. Shown(back, s) = K
  BY <1>3, <1>4, <1>5
<1>7. \A i \in K : back[i].value = f[i].value
  BY <1>3, <1>5
<1> QED
  BY <1>1, <1>2, <1>5, <1>6, <1>7, Zenon DEF K, n

\* The ledger document keeps headers and settings, and the report is right
\* about the stanzas that lost none.
LEMMA SettingsStay ==
    ASSUME text \in Seq(Symbol), NEW opt \in Options, ~refuse(File)
    PROVE  Survives(Parse(OnChainText(opt)), Split(File, opt).moves, opt)
<1> DEFINE f == File
           back == Parse(OnChainText(opt))
           n == Len(f)
           moves == Split(f, opt).moves
           w(i) == Fate(f[i], opt)
<1>1. f = Parse(text) /\ back = Parse(Render(Split(f, opt).onChain)) /\ ~refuse(f)
  BY DEF File, OnChainText
<1> HIDE DEF f, back
<1>2. n \in Nat /\ DOMAIN f = 1..n /\ DOMAIN back = 1..n
  BY <1>1, LinesOfFile, OnChainReads
<1>3. ASSUME NEW i \in 1..n
      PROVE  FateFacts(f[i], opt, w(i)) /\ Reread(f[i], back[i], w(i)) /\ f[i].kind \in Kinds
             /\ (f[i].kind = "value" => f[i].value # <<>>)
  <2>1. f[i].kind \in Kinds /\ (f[i].kind = "value" => f[i].value # <<>>)
    BY <1>1, LinesOfFile DEF Kinds
  <2>2. Reread(f[i], back[i], w(i))
    BY <1>1, OnChainReads
  <2> QED
    BY <2>1, <2>2, FateIs
<1> HIDE DEF n, w
<1>4. Names(back) = Names(f)
  <2>1. ASSUME NEW i \in 1..n PROVE (back[i].kind = "header" <=> f[i].kind = "header") /\ back[i].stanza = f[i].stanza
    <3>1. back[i].stanza = f[i].stanza
      BY <1>3 DEF Reread
    <3>2. CASE w(i) = <<>>
      BY <1>3, <3>1, <3>2, Zenon DEF Reread
    <3>3. CASE w(i) # <<>>
      <4>1. back[i].kind = "value"
        BY <1>3, <3>3, Zenon DEF Reread, FateFacts
      <4>2. f[i].kind # "header"
        BY <1>3, <3>3 DEF FateFacts
      <4> QED
        BY <3>1, <4>1, <4>2
    <3> QED
      BY <3>2, <3>3
  <2> DEFINE H(x) == {i \in DOMAIN x : x[i].kind = "header"}
  <2>2. H(back) = H(f) /\ \A i \in H(f) : back[i].stanza = f[i].stanza
    BY <1>2, <2>1
  <2> HIDE DEF H
  <2>3. {back[i].stanza : i \in H(back)} = {f[i].stanza : i \in H(f)}
    BY <2>2
  <2> QED
    BY <2>3 DEF Names, H
<1>5. ASSUME NEW s
      PROVE  /\ Kept(back, s, opt)
             /\ s \in DOMAIN moves => (moves[s].comments = moves[s].lines <=> NoneMissing(back, s))
  <2> DEFINE S == SettingsOf(f, s)
             K == {i \in S : Fate(f[i], opt) # <<Moved>>}
  <2>1. Shown(back, s) = K /\ K \subseteq S /\ S \in SUBSET (1..n) /\ \A i \in K : back[i].value = f[i].value
    BY <1>1, ShownAre DEF n
  <2>2. \A i \in 1..n : /\ i \in S <=> f[i].kind = "value" /\ f[i].stanza = s /\ f[i].value # <<>>
                        /\ i \in K <=> i \in S /\ w(i) # <<Moved>>
    BY <1>2 DEF SettingsOf, w
  <2>3. Kept(back, s, opt) <=> Values(back, Shown(back, s)) = Values(f, K)
    BY DEF Kept, f
  <2>4. NoneMissing(back, s) <=> Values(back, Shown(back, s)) = Values(f, S)
    BY DEF NoneMissing, f
  <2> HIDE DEF S, K
  <2>5. Values(back, K) = Values(f, K)
    <3>1. K \in SUBSET (1..n)
      BY <2>1
    <3> QED
      BY <1>2, <2>1, <3>1, ValuesSame
  <2>6. NoneMissing(back, s) <=> K = S
    <3>1. K \in SUBSET S
      BY <2>1
    <3>2. Values(back, K) = Values(f, S) => K = S
      BY <1>2, <2>1, <3>1, ValuesCount
    <3> QED
      BY <2>1, <2>4, <2>5, <3>2
  <2> DEFINE A == GoneOf(f, opt, s)
             C == CommentsOf(f, opt, s)
  <2>7. s \in DOMAIN moves => moves[s].lines = Cardinality(A) /\ moves[s].comments = Cardinality(C)
    BY SplitParts
  <2>8. A \in SUBSET (1..n) /\ C \in SUBSET A
    BY <1>2 DEF GoneOf, Gone, CommentsOf
  <2>9. \A i \in 1..n : /\ i \in A <=> w(i) # <<>> /\ f[i].stanza = s
                        /\ i \in C <=> i \in A /\ (f[i].kind = "comment" \/ w(i) = <<CMark>>)
    BY <1>2 DEF GoneOf, Gone, CommentsOf, IsComment, w
  <2> HIDE DEF A, C, moves
  <2>10. Cardinality(C) = Cardinality(A) <=> C = A
    <3>1. IsFiniteSet(A)
      BY <1>2, <2>8, UpToIs
    <3> QED
      BY <2>8, <3>1, FS_Subset
  <2>11. ASSUME C = A PROVE K = S
    <3>1. ASSUME NEW i \in S PROVE i \in K
      <4>1. i \in 1..n
        BY <2>1
      <4>2. f[i].kind = "value" /\ f[i].stanza = s
        BY <2>2, <4>1
      <4>3. w(i) # <<Moved>>
        <5> SUFFICES ASSUME w(i) = <<Moved>> PROVE FALSE
          OBVIOUS
        <5>1. w(i) # <<>> /\ w(i) # <<CMark>>
          BY <1>3, <4>1, Zenon DEF FateFacts
        <5>2. i \in C
          BY <2>9, <2>11, <4>1, <4>2, <5>1
        <5>3. f[i].kind = "comment"
          BY <2>9, <4>1, <5>1, <5>2
        <5> QED
          BY <4>2, <5>3
      <4> QED
        BY <2>2, <4>1, <4>3
    <3> QED
      BY <2>1, <3>1
  <2>12. ASSUME K = S PROVE C = A
    <3>1. ASSUME NEW i \in A PROVE i \in C
      <4>1. i \in 1..n
        BY <2>8
      <4>2. w(i) # <<>> /\ f[i].stanza = s
        BY <2>9, <4>1
      <4>3. f[i].kind = "comment" \/ w(i) = <<CMark>>
        <5> SUFFICES ASSUME f[i].kind # "comment", w(i) # <<CMark>> PROVE FALSE
          OBVIOUS
        <5>1. w(i) = <<Moved>> /\ f[i].kind = "value"
          BY <1>3, <4>1, <4>2, Zenon DEF FateFacts, Kinds
        <5>2. i \in S
          BY <1>3, <2>2, <4>1, <4>2, <5>1
        <5> QED
          BY <2>2, <2>12, <4>1, <5>1, <5>2
      <4> QED
        BY <2>9, <4>1, <4>3
    <3> QED
      BY <2>8, <3>1
  <2>13. Kept(back, s, opt)
    BY <2>1, <2>3, <2>5
  <2>14. s \in DOMAIN moves => (moves[s].comments = moves[s].lines <=> NoneMissing(back, s))
    BY <2>6, <2>7, <2>10, <2>11, <2>12
  <2> QED
    BY <2>13, <2>14
<1> HIDE DEF moves
<1>6. Survives(back, moves, opt)
  BY <1>4, <1>5, Zenon DEF Survives, f
<1> QED
  BY <1>6 DEF back, moves, f

-----------------------------------------------------------------------------
(* The bundle read again, and the two documents merged.                    *)

\* Every place of an interval.
LEMMA NthAll ==
    ASSUME NEW m \in Nat
    PROVE  Cardinality(1..m) = m /\ \A y \in 1..m : Nth(1..m, y) = y
<1>1. \A j \in 0..m : Cardinality(1..j) = j
  BY FS_Interval
<1>2. ASSUME NEW y \in 1..m PROVE Nth(1..m, y) = y
  <2>1. UpTo(1..m, y) = 1..y
    BY DEF UpTo
  <2>2. Cardinality(1..y) = y
    BY <1>1
  <2>3. 1..m \in SUBSET (1..m)
    OBVIOUS
  <2>4. Nth(1..m, Cardinality(UpTo(1..m, y))) = y
    BY <2>3, NthIs
  <2> QED
    BY <2>1, <2>2, <2>4
<1> QED
  BY <1>1, <1>2

\* Lines that have something on them read back, but for an empty one.
LEMMA BundleLines ==
    ASSUME NEW bl \in Seq(LineSet), \A y \in 1..Len(bl) : bl[y].raw # <<>>,
           \A y \in 1..(Len(bl) - 1) : bl[y].end # <<>>,
           NEW q, q = splitLines(Render(bl))
    PROVE  /\ q \in Seq(LineSet) /\ Len(bl) \in Nat
           /\ Len(q) = Len(bl) \/ (Len(q) = Len(bl) + 1 /\ q[Len(bl) + 1] = NoLine)
           /\ \A y \in 1..Len(bl) : q[y] = bl[y]
<1> DEFINE m == Len(bl)
<1>1. m \in Nat
  OBVIOUS
<1>2. Chain(bl)
  <2>1. \A y \in 1..(m - 1) : y + 1 \in 1..m
    BY <1>1
  <2> QED
    BY <2>1 DEF Chain
<1>3. q = IF bl # <<>> /\ bl[m].end = <<>> THEN bl ELSE Append(bl, NoLine)
  BY <1>2, ReadsBack
<1>4. NoLine \in LineSet
  BY LineParts
<1>5. CASE q = bl
  BY <1>1, <1>5
<1>6. CASE q = Append(bl, NoLine)
  <2> HIDE DEF m
  <2>1. Append(bl, NoLine) \in Seq(LineSet) /\ Len(Append(bl, NoLine)) = Len(bl) + 1
        /\ Append(bl, NoLine)[Len(bl) + 1] = NoLine /\ \A y \in 1..Len(bl) : Append(bl, NoLine)[y] = bl[y]
    BY <1>4
  <2> QED
    BY <1>1, <1>6, <2>1 DEF m
<1> QED
  BY <1>3, <1>5, <1>6

\* The bundle read again: the lines that moved, in their order.
Rest(b) == Those(b, {n \in DOMAIN b : b[n].raw # <<>> \/ b[n].end # <<>>})

\* What Merge takes from the bundle are the lines that moved.
LEMMA BundleReads ==
    ASSUME NEW doc \in Seq(Symbol), NEW opt \in Options, NEW f, f = Parse(doc),
           NEW b, b = Parse(Render(Split(f, opt).bundle)), NEW K, K = Gone(f, opt)
    PROVE  /\ Cardinality(K) \in Nat /\ Len(Rest(b)) = Cardinality(K)
           /\ \E S : Rest(b) \in Seq(S)
           /\ \A y \in 1..Cardinality(K) : \A e :
                /\ [Rest(b)[y] EXCEPT !.end = e].raw = f[Nth(K, y)].raw
                /\ [Rest(b)[y] EXCEPT !.end = e].end = e
<1> DEFINE ls == splitLines(doc)
           n == Len(ls)
           m == Cardinality(K)
           bl == [y \in 1..m |-> ls[Nth(K, y)]]
<1>1. ls \in Seq(LineSet) /\ Chain(ls) /\ n \in Nat /\ n >= 1
  BY LinesAre
<1>2. DOMAIN f = 1..n /\ Len(f) = n /\ \A i \in 1..n : f[i] = Classify(ls[i], StanzaAt(ls, i))
  BY <1>1, FileIs
<1> HIDE DEF ls
<1>3. K \in SUBSET (1..n)
  BY <1>2 DEF Gone
<1>4. /\ m \in Nat
      /\ \A y \in 1..m : Nth(K, y) \in K
      /\ \A y, r \in 1..m : y < r => Nth(K, y) < Nth(K, r)
  BY <1>1, <1>3, NthIs
<1>5. ASSUME NEW i \in 1..n
      PROVE  /\ ls[i] \in LineSet /\ f[i].raw = ls[i].raw /\ f[i].end = ls[i].end
             /\ i \in K => ls[i].raw # <<>>
  <2>1. ls[i] \in LineSet /\ ls[i].raw \in Seq(Ink)
    BY <1>1, LineParts
  <2>2. f[i].raw = ls[i].raw /\ f[i].end = ls[i].end /\ f[i].kind = KindOf(ls[i].raw)
    <3>1. f[i] = Classify(ls[i], StanzaAt(ls, i))
      BY <1>2
    <3> QED
      BY <3>1, ClassifyIs
  <2>3. ASSUME i \in K PROVE ls[i].raw # <<>>
    <3> SUFFICES ASSUME ls[i].raw = <<>> PROVE FALSE
      OBVIOUS
    <3>1. <<>> \in Seq(Symbol) /\ <<>> \in Seq(Ink)
      OBVIOUS
    <3>2. Trim(<<>>) = <<>>
      BY <3>1, TrimSame
    <3>3. KindOf(<<>>) = "blank"
      BY <3>1, <3>2, KindIs
    <3>4. f[i].kind = "blank"
      BY <2>2, <3>3
    <3>5. FateFacts(f[i], opt, Fate(f[i], opt))
      BY <3>4, FateIs DEF Kinds
    <3>6. Fate(f[i], opt) # <<>>
      BY <2>3 DEF Gone
    <3> QED
      BY <3>4, <3>5, <3>6, Zenon DEF FateFacts
  <2> QED
    BY <2>1, <2>2, <2>3
<1> HIDE DEF n, m
<1>6. /\ bl \in Seq(LineSet) /\ Len(bl) = m /\ DOMAIN bl = 1..m
      /\ \A y \in 1..m : Nth(K, y) \in 1..n /\ bl[y] = ls[Nth(K, y)] /\ bl[y].raw # <<>>
  <2>1. \A y \in 1..m : Nth(K, y) \in 1..n /\ Nth(K, y) \in K
    BY <1>3, <1>4
  <2>2. \A y \in 1..m : ls[Nth(K, y)] \in LineSet /\ ls[Nth(K, y)].raw # <<>>
    BY <1>5, <2>1
  <2>3. bl \in Seq(LineSet)
    BY <1>4, <2>2
  <2> QED
    BY <1>4, <2>1, <2>2, <2>3
<1> HIDE DEF bl
<1>7. ASSUME NEW y \in 1..(m - 1) PROVE bl[y].end # <<>>
  <2>1. y \in 1..m /\ m \in 1..m /\ y < m
    BY <1>4
  <2>2. Nth(K, y) < Nth(K, m) /\ Nth(K, y) \in 1..n /\ Nth(K, m) \in 1..n
    BY <1>4, <1>6, <2>1
  <2>3. Nth(K, y) \in 1..(n - 1)
    BY <1>1, <2>2 DEF n
  <2>4. ls[Nth(K, y)].end # <<>>
    BY <1>1, <2>3 DEF Chain, n
  <2> QED
    BY <1>6, <2>1, <2>4
<1>8. Render(Split(f, opt).bundle) = Render(bl)
  <2> DEFINE B == Those(f, K)
  <2>1. Split(f, opt).bundle = B
    BY SplitParts
  <2>2. DOMAIN B = 1..m /\ \A y \in 1..m : B[y] = f[Nth(K, y)]
    <3>1. B = [y \in 1..m |-> f[Nth(K, y)]]
      BY DEF Those, m
    <3> QED
      BY <3>1
  <2> HIDE DEF B
  <2>3. \A y \in 1..m : B[y].raw = bl[y].raw /\ B[y].end = bl[y].end
    BY <1>5, <1>6, <2>2
  <2>4. Render(B) = Render(bl)
    BY <1>6, <2>2, <2>3, RenderSame
  <2> QED
    BY <2>1, <2>4
<1> DEFINE q == splitLines(Render(bl))
<1>9. /\ q \in Seq(LineSet)
      /\ Len(q) = m \/ (Len(q) = m + 1 /\ q[m + 1] = NoLine)
      /\ \A y \in 1..m : q[y] = bl[y]
  BY <1>6, <1>7, BundleLines
<1>10. DOMAIN b = 1..Len(q) /\ \A i \in 1..Len(q) : b[i] = Classify(q[i], StanzaAt(q, i))
  <2>1. b = Parse(Render(bl)) /\ Len(q) \in Nat
    BY <1>8, <1>9
  <2> QED
    BY <2>1, FileIs
<1> HIDE DEF q
<1>11. \A i \in 1..Len(q) : b[i].raw = q[i].raw /\ b[i].end = q[i].end
  BY <1>10, ClassifyIs
<1> DEFINE D == {i \in DOMAIN b : b[i].raw # <<>> \/ b[i].end # <<>>}
<1>12. D = 1..m
  <2>1. ASSUME NEW i \in 1..m PROVE i \in 1..Len(q) /\ q[i].raw # <<>>
    <3>1. i \in 1..Len(q)
      BY <1>4, <1>9
    <3>2. q[i] = bl[i] /\ bl[i].raw # <<>>
      BY <1>6, <1>9
    <3> QED
      BY <3>1, <3>2
  <2>2. \A i \in 1..Len(q) : i \notin 1..m => q[i].raw = <<>> /\ q[i].end = <<>>
    <3> SUFFICES ASSUME NEW i \in 1..Len(q), i \notin 1..m PROVE q[i].raw = <<>> /\ q[i].end = <<>>
      OBVIOUS
    <3>1. i = m + 1 /\ q[m + 1] = NoLine
      BY <1>4, <1>9
    <3> QED
      BY <3>1 DEF NoLine
  <2> QED
    BY <1>10, <1>11, <2>1, <2>2
<1>13. Rest(b) = [y \in 1..m |-> b[Nth(1..m, y)]]
  <2>1. Rest(b) = Those(b, 1..m)
    BY <1>12 DEF Rest
  <2>2. Cardinality(1..m) = m
    BY <1>4, NthAll
  <2> QED
    BY <2>1, <2>2 DEF Those
<1>14. Len(Rest(b)) = m /\ Rest(b) \in Seq({b[y] : y \in 1..m}) /\ \A y \in 1..m : Rest(b)[y] = b[y]
  <2>1. \A y \in 1..m : Nth(1..m, y) = y
    BY <1>4, NthAll
  <2> DEFINE R == [y \in 1..m |-> b[y]]
  <2>2. Rest(b) = R
    BY <1>13, <2>1
  <2>3. R \in Seq({b[y] : y \in 1..m}) /\ Len(R) = m /\ \A y \in 1..m : R[y] = b[y]
    BY <1>4
  <2> QED
    BY <2>2, <2>3
<1>15. ASSUME NEW y \in 1..m, NEW e
       PROVE  /\ [Rest(b)[y] EXCEPT !.end = e].raw = f[Nth(K, y)].raw
              /\ [Rest(b)[y] EXCEPT !.end = e].end = e
  <2>1. y \in 1..Len(q) /\ q[y] = ls[Nth(K, y)] /\ Nth(K, y) \in 1..n
    BY <1>4, <1>6, <1>9
  <2> DEFINE z == b[y]
  <2>2. z = Classify(q[y], StanzaAt(q, y))
    BY <1>10, <2>1
  <2>3. Rest(b)[y] = z
    BY <1>14
  <2> HIDE DEF z
  <2>4. [z EXCEPT !.end = e].raw = q[y].raw /\ [z EXCEPT !.end = e].end = e
    BY <2>2, ClassifyIs
  <2>5. q[y].raw = f[Nth(K, y)].raw
    BY <1>5, <2>1
  <2> QED
    BY <2>3, <2>4, <2>5
<1> QED
  BY <1>4, <1>14, <1>15 DEF m

\* Merge stops at exactly the lines that moved.
LEMMA MarkersAre ==
    ASSUME NEW doc \in Seq(Symbol), NEW opt \in Options, NEW f, f = Parse(doc), ~refuse(f),
           NEW back, back = Parse(Render(Split(f, opt).onChain)), NEW i \in 1..Len(f)
    PROVE  isMarker(back[i]) <=> Fate(f[i], opt) # <<>>
<1> DEFINE l == f[i]
           w == Fate(l, opt)
           G == back[i]
           s == Trim(G.raw)
<1>1. /\ l.raw \in Seq(Ink) /\ l.kind = KindOf(l.raw) /\ l.kind \in Kinds
      /\ l.kind = "value" => l.value = Setting(l.raw).value /\ l.comment = Setting(l.raw).comment
  BY LinesOfFile DEF Kinds
<1>2. FateFacts(l, opt, w) /\ Reread(l, G, w)
  BY <1>1, FateIs, OnChainReads
<1>3. l.kind \in {"comment", "value"} => ~Has(l.raw, Moved) /\ ~Has(l.raw, CMark)
  <2>1. i \in DOMAIN f /\ Moved \in Markers /\ CMark \in Markers
    BY LinesOfFile DEF Markers
  <2> QED
    BY <2>1, NoMarkers
<1>4. isMarker(G) <=> s # <<>> /\ (s = <<Moved>> \/ Last(s) = CMark)
  BY DEF isMarker
<1> HIDE DEF l, w, G
<1>5. CASE w = <<>>
  <2>1. G.raw = l.raw
    BY <1>2, <1>5, Zenon DEF Reread
  <2>2. s \in Seq(Ink)
    BY <1>1, <2>1, KindIs
  <2>3. s # <<>> => 1 \in DOMAIN s /\ Len(s) \in DOMAIN s
    BY <2>2, FirstOf
  <2>4. CASE l.kind \in {"comment", "value"}
    <3>1. ~Has(s, Moved) /\ ~Has(s, CMark)
      <4>1. \A x : x # Space => (Has(s, x) <=> Has(l.raw, x))
        BY <1>1, <2>1, LineParts, TrimFacts
      <4>2. Moved # Space /\ CMark # Space
        BY SymbolsDiffer
      <4> QED
        BY <1>3, <2>4, <4>1, <4>2
    <3> HIDE DEF s
    <3>2. s # <<>> => s[1] # Moved /\ Last(s) # CMark
      BY <2>3, <3>1 DEF Has, Last
    <3>3. s = <<Moved>> => s[1] = Moved
      OBVIOUS
    <3> QED
      BY <1>4, <1>5, <3>2, <3>3 DEF G, w, l
  <2>5. CASE l.kind = "blank"
    <3>1. s = <<>>
      BY <1>1, <2>1, <2>5, KindIs
    <3> QED
      BY <1>4, <1>5, <3>1 DEF G, w, l
  <2>6. CASE l.kind = "header"
    <3>1. looksLikeHeader(s)
      BY <1>1, <2>1, <2>6, KindIs
    <3> HIDE DEF s
    <3>2. s[1] # Moved /\ Last(s) # CMark
      BY <3>1, SymbolsDiffer DEF looksLikeHeader
    <3>3. s = <<Moved>> => s[1] = Moved
      OBVIOUS
    <3> QED
      BY <1>4, <1>5, <3>2, <3>3 DEF G, w, l
  <2> QED
    BY <1>1, <2>4, <2>5, <2>6 DEF Kinds
<1>6. CASE w = <<Moved>>
  <2>1. G.raw = <<Moved>> /\ w # <<>>
    BY <1>2, <1>6, Zenon DEF Reread, FateFacts
  <2>2. s = <<Moved>> /\ s # <<>>
    <3>1. s = <<Moved>>
      BY <2>1, MovedReads
    <3>2. <<Moved>> # <<>>
      BY <1>2 DEF FateFacts
    <3> QED
      BY <3>1, <3>2
  <2> QED
    BY <1>4, <2>1, <2>2 DEF G, w, l
<1>7. CASE w = <<CMark>>
  <2>1. G.raw = l.value \o <<Space, CMark>> /\ w # <<>> /\ l.kind = "value" /\ l.comment # <<>>
    BY <1>1, <1>2, <1>7, Zenon DEF Reread, FateFacts, Kinds
  <2>2. SettingFacts(l.raw, l.value, l.comment)
    BY <1>1, <2>1, SettingIs
  <2> DEFINE v == l.value
             r == G.raw
  <2>3. /\ v \in Seq(Ink) /\ v # <<>> /\ v[1] # Space /\ v[1] # Hash /\ v[Len(v)] # Space /\ ~looksLikeHeader(v)
        /\ \A j \in 1..Len(v) : v[j] # Hash /\ v[j] \notin Markers
    BY <2>1, <2>2 DEF SettingFacts
  <2>4. r = v \o <<Space, CMark>>
    BY <2>1
  <2> HIDE DEF v, r
  <2>5. r # <<>> /\ Trim(r) = r /\ r[Len(r)] = CMark
    BY <2>3, <2>4, MarkedReads
  <2>6. s = r /\ Last(s) = CMark
    BY <2>5 DEF r, Last
  <2> QED
    BY <1>4, <2>1, <2>5, <2>6 DEF G, w, l
<1>8. w \in {<<>>, <<Moved>>, <<CMark>>}
  BY <1>2 DEF FateFacts
<1> QED
  BY <1>5, <1>6, <1>7, <1>8

\* The two documents, read again and merged, are the text.
LEMMA MergesBack ==
    ASSUME NEW doc \in Seq(Symbol), NEW opt \in Options, NEW f, f = Parse(doc), ~refuse(f),
           NEW back, back = Parse(Render(Split(f, opt).onChain)),
           NEW b, b = Parse(Render(Split(f, opt).bundle))
    PROVE  Render(Merge(back, b)) = doc
<1> DEFINE n == Len(f)
           K == Gone(f, opt)
           m == Cardinality(K)
           rest == Rest(b)
           nth(i) == Cardinality({y \in 1..i : isMarker(back[y])})
           M == [i \in DOMAIN back |-> IF isMarker(back[i]) /\ nth(i) <= Len(rest)
                                      THEN [rest[nth(i)] EXCEPT !.end = back[i].end] ELSE back[i]]
           ls == splitLines(doc)
<1>1. n \in Nat /\ DOMAIN f = 1..n /\ DOMAIN back = 1..n /\ Len(back) = n
  BY LinesOfFile, OnChainReads
<1>2. Merge(back, b) = M \o SubSeq(rest, nth(Len(back)) + 1, Len(rest))
  BY DEF Merge, Rest
<1>3. \A i \in 1..n : isMarker(back[i]) <=> i \in K
  BY <1>1, MarkersAre DEF Gone
<1>4. K \in SUBSET (1..n)
  BY <1>1 DEF Gone
<1>5. /\ m \in Nat /\ Len(rest) = m /\ \E S : rest \in Seq(S)
      /\ \A y \in 1..m : \A e : /\ [rest[y] EXCEPT !.end = e].raw = f[Nth(K, y)].raw
                                /\ [rest[y] EXCEPT !.end = e].end = e
  BY BundleReads
<1>6. ASSUME NEW i \in 1..n PROVE Fate(f[i], opt) # <<>> \/ back[i].raw = f[i].raw
  <2>1. Reread(f[i], back[i], Fate(f[i], opt))
    BY OnChainReads
  <2> QED
    BY <2>1, Zenon DEF Reread
<1>7. \A i \in 1..n : back[i].end = f[i].end
  BY OnChainReads DEF Reread
<1>8. \A i \in 1..n : i \notin K => back[i].raw = f[i].raw
  BY <1>1, <1>6 DEF Gone
<1>9. Render(f) = doc
  <2>1. Len(ls) \in Nat /\ Render(ls) = doc /\ ls \in Seq(LineSet)
    BY LinesAre
  <2>2. DOMAIN f = 1..Len(ls) /\ \A i \in 1..Len(ls) : f[i] = Classify(ls[i], StanzaAt(ls, i))
    BY <2>1, FileIs
  <2> HIDE DEF ls
  <2>3. \A i \in 1..Len(ls) : f[i].raw = ls[i].raw /\ f[i].end = ls[i].end
    BY <2>2, ClassifyIs
  <2>4. DOMAIN f = DOMAIN ls
    BY <2>1, <2>2
  <2>5. Render(f) = Render(ls)
    BY <2>2, <2>3, <2>4, RenderSame
  <2> QED
    BY <2>1, <2>5
<1> HIDE DEF n, K, rest
<1>10. ASSUME NEW i \in 1..n PROVE nth(i) = Cardinality(UpTo(K, i))
  <2>1. {y \in 1..i : isMarker(back[y])} = UpTo(K, i)
    <3>1. \A y \in 1..i : y \in 1..n
      BY <1>1
    <3>2. \A y \in 1..i : isMarker(back[y]) <=> y \in K
      BY <1>3, <3>1
    <3>3. \A y \in K : y \in 1..i <=> y <= i
      BY <1>1, <1>4
    <3> QED
      BY <3>2, <3>3 DEF UpTo
  <2> QED
    BY <2>1
<1>11. nth(Len(back)) = m
  <2>1. {y \in 1..n : isMarker(back[y])} = K
    BY <1>3, <1>4
  <2> QED
    BY <1>1, <2>1
<1>12. \A i \in K : nth(i) \in 1..m /\ Nth(K, nth(i)) = i
  <2>0. n \in Nat
    BY <1>1
  <2>1. \A i \in K : Cardinality(UpTo(K, i)) \in 1..m /\ Nth(K, Cardinality(UpTo(K, i))) = i
    BY <2>0, <1>4, NthIs, ZenonT(40)
  <2> HIDE DEF nth, m
  <2> QED
    BY <1>4, <1>10, <2>1
<1> HIDE DEF nth, m
<1>13. DOMAIN M = 1..n /\ \A i \in 1..n : M[i] = IF isMarker(back[i]) /\ nth(i) <= Len(rest)
                                      THEN [rest[nth(i)] EXCEPT !.end = back[i].end] ELSE back[i]
  BY <1>1
<1>14. \E S : M \in Seq(S)
  <2>1. M \in Seq({M[i] : i \in 1..n})
    <3> HIDE DEF M
    <3>1. M = [i \in 1..n |-> M[i]]
      BY <1>1, <1>13 DEF M
    <3> QED
      BY <1>1, <3>1
  <2> QED
    BY <2>1
<1> HIDE DEF M
<1>15. SubSeq(rest, nth(Len(back)) + 1, Len(rest)) = <<>>
  <2>1. PICK S : rest \in Seq(S)
    BY <1>5
  <2>2. m + 1 > Len(rest) /\ m + 1 \in Nat
    BY <1>5
  <2> QED
    BY <1>5, <1>11, <2>1, <2>2
<1>16. Merge(back, b) = M
  <2>1. PICK S : M \in Seq(S)
    BY <1>14
  <2>2. M \o <<>> = M
    BY <2>1, ConcatEmptySeq
  <2> QED
    BY <1>2, <1>15, <2>2
<1>17. ASSUME NEW i \in 1..n PROVE M[i].raw = f[i].raw /\ M[i].end = f[i].end
  <2>1. CASE i \in K
    <3> DEFINE y == nth(i)
               e == back[i].end
    <3>1. y \in 1..m /\ Nth(K, y) = i
      BY <1>12, <2>1
    <3>2. y <= Len(rest) /\ isMarker(back[i])
      BY <1>3, <1>5, <2>1, <3>1
    <3> HIDE DEF y, e
    <3>3. M[i] = [rest[y] EXCEPT !.end = e]
      BY <1>13, <3>2 DEF y, e
    <3>4. [rest[y] EXCEPT !.end = e].raw = f[i].raw /\ [rest[y] EXCEPT !.end = e].end = e
      BY <1>5, <3>1
    <3>5. e = f[i].end
      BY <1>7 DEF e
    <3> QED
      BY <3>3, <3>4, <3>5
  <2>2. CASE i \notin K
    <3>1. M[i] = back[i]
      BY <1>3, <1>13, <2>2
    <3> QED
      BY <1>7, <1>8, <2>2, <3>1
  <2> QED
    BY <2>1, <2>2
<1>18. Render(M) = Render(f)
  BY <1>1, <1>13, <1>17, RenderSame
<1> QED
  BY <1>9, <1>16, <1>18

\* Every text the operator may type.
TextTyped == text \in Seq(Symbol)

\* The texts of the runs are texts.
LEMMA TextAlwaysTyped == TextSpec => []TextTyped
<1>1. TextInit => TextTyped
  BY DEF TextInit, TextTyped
<1>2. TextTyped /\ [TextNext]_text => TextTyped'
  <2> SUFFICES ASSUME TextTyped, [TextNext]_text PROVE TextTyped'
    OBVIOUS
  <2>1. CASE TypeLayout
    <3>1. Layout \subseteq Symbol
      BY DEF Layout, Symbol, Headers, StanzaNames, onChainStanzas, bundleStanzas, neverStanzas
    <3> QED
      BY <2>1, <3>1 DEF TypeLayout, TextTyped
  <2>2. CASE TypeHeader
    <3>1. PICK h \in Headers : text' = <<h, LF, Plain, CR>>
      BY <2>2 DEF TypeHeader
    <3>2. h \in Symbol /\ LF \in Symbol /\ Plain \in Symbol /\ CR \in Symbol
      BY DEF Symbol
    <3> QED
      BY <3>1, <3>2 DEF TextTyped
  <2>3. CASE TypeWord
    <3>1. Words \subseteq Symbol
      BY DEF Words, Symbol
    <3> QED
      BY <2>3, <3>1 DEF TypeWord, TextTyped
  <2>4. CASE UNCHANGED text
    BY <2>4 DEF TextTyped
  <2> QED
    BY <2>1, <2>2, <2>3, <2>4 DEF TextNext
<1> QED
  BY <1>1, <1>2, PTL DEF TextSpec

-----------------------------------------------------------------------------
(* The theorems about texts.                                               *)

\* Every sequence of symbols is restored to the byte.
LEMMA AnyTextRestores == TextTyped => RoundTrip
<1> SUFFICES ASSUME TextTyped, ~refuse(File), NEW opt \in Options
             PROVE  Render(Merge(Parse(OnChainText(opt)), Parse(BundleText(opt)))) = text
  BY DEF RoundTrip
<1> DEFINE f == Parse(text)
           back == Parse(Render(Split(f, opt).onChain))
           b == Parse(Render(Split(f, opt).bundle))
<1>1. text \in Seq(Symbol) /\ ~refuse(f)
  BY DEF TextTyped, File
<1>2. Parse(OnChainText(opt)) = back /\ Parse(BundleText(opt)) = b
  BY DEF OnChainText, BundleText, File
<1> HIDE DEF f, back, b
<1>3. f = Parse(text) /\ back = Parse(Render(Split(f, opt).onChain)) /\ b = Parse(Render(Split(f, opt).bundle))
  BY DEF f, back, b
<1>4. Render(Merge(back, b)) = text
  BY <1>1, <1>3, MergesBack
<1> QED
  BY <1>2, <1>4

\* The ledger document of any text shows nothing private.
LEMMA AnyTextIsHarmless == TextTyped => NothingPrivate
<1> SUFFICES ASSUME TextTyped, ~refuse(File), NEW opt \in Options, NEW l \in Range(Parse(OnChainText(opt))),
                    l.kind \in {"comment", "value"}, Trim(l.raw) # <<Moved>>
             PROVE  Harmless(l, opt)
  BY DEF NothingPrivate
<1> DEFINE f == Parse(text)
           back == Parse(Render(Split(f, opt).onChain))
<1>1. text \in Seq(Symbol) /\ ~refuse(f)
  BY DEF TextTyped, File
<1>2. Parse(OnChainText(opt)) = back
  BY DEF OnChainText, File
<1> HIDE DEF f, back
<1>3. f = Parse(text) /\ back = Parse(Render(Split(f, opt).onChain))
  BY DEF f, back
<1>4. DOMAIN back = 1..Len(f)
  BY <1>1, <1>3, OnChainReads
<1>5. PICK i \in 1..Len(f) : l = back[i]
  BY <1>2, <1>4 DEF Range
<1> QED
  BY <1>1, <1>3, <1>5, LineHarmless

\* Without its bundle, any text keeps the settings that did not move, and the
\* gaps are refused.
LEMMA AnyGapIsHarmless == TextTyped => GapsHarmless
<1>1. TextTyped => SettingsSurvive
  BY SettingsStay DEF TextTyped, SettingsSurvive
<1>2. TextTyped => GapsRefused
  <2> SUFFICES ASSUME TextTyped, NEW opt \in Options, Split(File, opt).bundle # <<>>
               PROVE  refuse(Parse(OnChainText(opt)))
    BY DEF GapsRefused
  <2> DEFINE f == Parse(text)
             back == Parse(Render(Split(f, opt).onChain))
  <2>1. text \in Seq(Symbol) /\ Split(f, opt).bundle # <<>>
    BY DEF TextTyped, File
  <2>2. Parse(OnChainText(opt)) = back
    BY DEF OnChainText, File
  <2> HIDE DEF f, back
  <2>3. f = Parse(text) /\ back = Parse(Render(Split(f, opt).onChain))
    BY DEF f, back
  <2>4. refuse(back)
    BY <2>1, <2>3, GapShows
  <2> QED
    BY <2>2, <2>4
<1> QED
  BY <1>1, <1>2 DEF GapsHarmless

\* The three together, for every sequence of symbols, of any length and with
\* any symbol at any place: Split and Merge give the operator's bytes back, the
\* ledger document shows nothing a scanner objects to, and without the bundle
\* the node reads the settings that stayed and no one takes the rest for whole.
THEOREM EveryTextIsSafe == text \in Seq(Symbol) => RoundTrip /\ NothingPrivate /\ GapsHarmless
  BY AnyTextRestores, AnyTextIsHarmless, AnyGapIsHarmless DEF TextTyped

\* restore gives back the operator's bytes whatever MaxText and MaxLine: the
\* ledger document and the bundle, rendered, parsed again and merged, are the
\* text that Split was given (Split, Render, Parse, Merge).
THEOREM RestoresExactly == TextSpec => []RoundTrip
  BY AnyTextRestores, TextAlwaysTyped, PTL

\* No line of the ledger document, read again, has a private name, a long hex
\* value outside the key stanzas, a setting of a stanza that stays off the
\* ledger, a credential of a port or a comment that was to move (Split).
THEOREM LedgerShowsNothingPrivate == TextSpec => []NothingPrivate
  BY AnyTextIsHarmless, TextAlwaysTyped, PTL

\* A restore without the bundle has the settings that did not move, under their
\* headers and in their order, Comments = Lines tells truly that a stanza lost
\* none, and a file with gaps is refused by the next backup (Split, refuse).
THEOREM GapsAlwaysHarmless == TextSpec => []GapsHarmless
  BY AnyGapIsHarmless, TextAlwaysTyped, PTL
=============================================================================
