---------------------------- MODULE BatchLayout -----------------------------
(***************************************************************************)
(* How a backup of c chunks and k manifest parts is cut into Batch         *)
(* transactions (batch.go, splitBatches) and what that costs (BaseFees).   *)
(***************************************************************************)
EXTENDS Naturals

CONSTANT MaxInner   \* codec.MaxBatchInner: 8 inner transactions

ASSUME InnerAssumption == MaxInner \in Nat /\ MaxInner >= 2

\* Number of groups n transactions are cut into, and the size of group g
\* (1-based): as even as possible, the larger groups last.
Groups(n) == IF n <= 1 THEN 1 ELSE (n + MaxInner - 1) \div MaxInner

\* Mutant of SplitSize: the larger groups come first.
SplitSizeLargeFirst(n, g) ==
    IF n <= 1 THEN n
    ELSE LET base  == n \div Groups(n)
             extra == n % Groups(n)
         IN  IF g <= extra THEN base + 1 ELSE base

SplitSize(n, g) ==
    IF n <= 1 THEN n
    ELSE LET base  == n \div Groups(n)
             extra == n % Groups(n)
         IN  IF g > Groups(n) - extra THEN base + 1 ELSE base

\* Items in the groups before group g: `first' of the loop in submitBatched.
First(n, g) ==
    LET base  == n \div Groups(n)
        plain == Groups(n) - (n % Groups(n))
    IN  base * (g - 1) + (IF g - 1 > plain THEN g - 1 - plain ELSE 0)

\* One Batch carries everything that is left.
OneBatch(c, k) == c + k + 1 <= MaxInner
=============================================================================
