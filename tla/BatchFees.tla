----------------------------- MODULE BatchFees ------------------------------
(***************************************************************************)
(* The plan report prices a backup with BaseFees before anything is sent,  *)
(* and backup.Build refuses one whose manifest would not fit.  Both look   *)
(* at a manifest whose chunk fields are at their longest, because the      *)
(* numbers of the ledgers the chunks land in are not known.  This module   *)
(* walks the transactions a fresh batched run then sends, adds up what     *)
(* rippled charges for each, and compares with the forecast.               *)
(***************************************************************************)
EXTENDS BatchLayout, Encoding

CONSTANTS
    MaxChunks,   \* chunk.MaxChunks
    MaxParts,    \* chunk.MaxManifestParts
    Slacks       \* bound: bytes the manifest may leave free in its last part

\* The ledger numbers of all chunks fill less than a manifest part.
ASSUME FeesAssumption ==
    /\ MaxChunks \in Nat /\ 9 * MaxChunks < ManifestPartLen
    /\ MaxParts \in Nat
    /\ Slacks \subseteq 0..(ManifestPartLen - 1)

VARIABLES
    c,      \* chunks of the plan
    plain,  \* length of the manifest with every chunk's ledger 0
    grown,  \* digits the chunks' ledger numbers have added
    stage,  \* "start", "tail" or "end"
    g,      \* group of the tail about to be sent
    next,   \* `next': manifest parts and anchor already sent
    paid    \* base fees charged so far

feesVars == <<c, plain, grown, stage, g, next, paid>>

\* A ledger number is a uint32: up to ten digits, of which ledger 0 has one.
MaxDigits == 10

\* rippled charges a Batch two base fees more than its inner transactions.
Charge(size) == IF size = 1 THEN 1 ELSE size + 2

\* `fees' after so many turns of the loop over splitBatches(n).
GroupFees(n) ==
    LET fees[h \in 0..Groups(n)] ==
          IF h = 0 THEN 0 ELSE fees[h - 1] + Charge(SplitSize(n, h))
    IN fees

\* Mutant of BaseFees: a single chunk is priced as a Batch of one.
BaseFeesLoneChunk(chunks, parts, batch) ==
    CASE ~batch -> chunks + parts + 1
      [] batch /\ OneBatch(chunks, parts) -> chunks + parts + 3
      [] OTHER -> (IF chunks = 0 THEN 0 ELSE chunks + 2)
                    + GroupFees(parts + 1)[Groups(parts + 1)]

BaseFees(chunks, parts, batch) ==
    CASE ~batch -> chunks + parts + 1
      [] batch /\ OneBatch(chunks, parts) -> chunks + parts + 3
      [] OTHER -> (IF chunks = 0 THEN 0 ELSE Charge(chunks))
                    + GroupFees(parts + 1)[Groups(parts + 1)]

\* Mutant of projectedManifestParts: the manifest is measured as it is.
projectedManifestPartsNow(n, chunks) == Parts(n)

\* A draft with every ledger number at its longest.
projectedManifestParts(n, chunks) == Parts(n + (MaxDigits - 1) * chunks)

\* A plan that Build accepts.
FeesInit ==
    /\ c \in 0..MaxChunks
    /\ plain \in {ManifestPartLen * j - r : j \in 1..MaxParts, r \in Slacks}
    /\ projectedManifestParts(plain, c) <= MaxParts
    /\ stage = "start" /\ grown = 0 /\ g = 0 /\ next = 0 /\ paid = 0

\* The parts of the manifest as it now reads.
k == Parts(plain + grown)

SendWhole ==
    /\ stage = "start"
    /\ OneBatch(c, k)
    /\ paid' = Charge(c + k + 1)
    /\ next' = k + 1
    /\ stage' = "end"
    /\ UNCHANGED <<c, plain, grown, g>>

\* The chunks land together, and the manifest names their ledger.
SendChunks ==
    /\ stage = "start"
    /\ ~OneBatch(c, k)
    /\ paid' = IF c = 0 THEN 0 ELSE Charge(c)
    /\ \E digits \in 1..MaxDigits : grown' = c * (digits - 1)
    /\ stage' = "tail"
    /\ g' = 1
    /\ UNCHANGED <<c, plain, next>>

SendGroup ==
    /\ stage = "tail"
    /\ paid' = paid + Charge(SplitSize(k + 1, g))
    /\ next' = next + SplitSize(k + 1, g)
    /\ stage' = IF g = Groups(k + 1) THEN "end" ELSE "tail"
    /\ g' = g + 1
    /\ UNCHANGED <<c, plain, grown>>

FeesNext == SendWhole \/ SendChunks \/ SendGroup

FeesSpec == FeesInit /\ [][FeesNext]_feesVars

-----------------------------------------------------------------------------
\* What the run pays is the price of what it sends (batch.go, BaseFees: "it
\* has to agree with what Submit sends") and never more than the price of the
\* projected manifest, which is what the report calls "up to" (planReport).
FeesAgree ==
    stage = "end" =>
        /\ paid = BaseFees(c, k, TRUE)
        /\ paid <= BaseFees(c, projectedManifestParts(plain, c), TRUE)

\* Once the chunks are paid for, the manifest is never refused as too long,
\* whatever ledger they landed in (discovery reads no manifest of more than
\* MaxParts parts), and the projected part count is one too many at most
\* (Build, ManifestMemos; planReport: "may undercut by one").
ManifestFits ==
    /\ k <= MaxParts
    /\ projectedManifestParts(plain, c) \in {k, k + 1}

\* Every part and the anchor are sent exactly once, in groups that a Batch
\* can carry; the group with the anchor also carries a manifest part, and
\* only a leading group may be a single transaction (splitBatches).
LayoutLegal ==
    /\ stage = "end" => next = k + 1
    /\ stage = "tail" =>
          /\ next = First(k + 1, g)
          /\ SplitSize(k + 1, g) \in 1..MaxInner
          /\ SplitSize(k + 1, g) = 1 => g = 1 /\ Groups(k + 1) > 1
          /\ SplitSize(k + 1, 1) <= SplitSize(k + 1, Groups(k + 1))

\* A batched run is what the report said: Batches that rippled accepts, at
\* the forecast price (splitBatches, BaseFees, planReport).
RunAsPlanned == LayoutLegal /\ FeesAgree
=============================================================================
