----------------------------- MODULE Encoding ------------------------------
(***************************************************************************)
(* The sizes of what a backup writes: blocks (internal/container), memos   *)
(* (internal/chunk, codec), and manifest parts (backup.ManifestMemos).     *)
(* Contents are not modelled here, only lengths and length fields.         *)
(***************************************************************************)
EXTENDS Integers

CONSTANT MaxLen   \* bound: the lengths tried

ASSUME LenAssumption == MaxLen \in Nat

VARIABLE len      \* a length: of compressed data, or of a blob

BlockLen           == 960
ManifestPartLen    == BlockLen - 16
TagLen             == 16
headerLen          == 21
ManifestNonceLen   == 10
TypeLen            == 12      \* "xrplbak/v1/c", "xrplbak/v1/m"
MaxMemosSerialized == 1024
Refused            == -1

-----------------------------------------------------------------------------
(* container.Pack and Unpack: a whole number of blocks, of which the last  *)
(* two bytes say how many bytes to strip.                                  *)

\* Mutant of PadLen: the length field is not counted.
PadLenBare(n) == IF n % BlockLen = 0 THEN 0 ELSE BlockLen - (n % BlockLen)

PadLen(n) ==
    LET pad == BlockLen - ((n + 2) % BlockLen) IN IF pad = BlockLen THEN 0 ELSE pad

\* n bytes of compressed data; the field is a uint16.
Pack(n) == [len |-> n + PadLen(n) + 2, pad |-> (PadLen(n) + 2) % 65536]

Unpack(p) ==
    IF p.len < 2 \/ p.len % BlockLen # 0 \/ p.pad < 2 \/ p.pad > p.len
      THEN Refused ELSE p.len - p.pad

\* chunk.Split of packed data.
SplitBlocks(packed) ==
    IF packed = 0 \/ packed % BlockLen # 0 THEN Refused ELSE packed \div BlockLen
-----------------------------------------------------------------------------
(* codec: the length prefix of a blob, and the size of one memo.           *)

\* Mutant of appendVL: the bias of the two-byte form is one too small.
appendVLBias(n) ==
    IF n <= 192 THEN <<n>>
    ELSE IF n <= 12480 THEN <<(193 + ((n - 192) \div 256)) % 256, (n - 192) % 256>>
    ELSE <<(241 + ((n - 12481) \div 65536)) % 256,
           ((n - 12481) \div 256) % 256, (n - 12481) % 256>>

appendVL(n) ==
    IF n <= 192 THEN <<n>>
    ELSE IF n <= 12480 THEN <<(193 + ((n - 193) \div 256)) % 256, (n - 193) % 256>>
    ELSE <<(241 + ((n - 12481) \div 65536)) % 256,
           ((n - 12481) \div 256) % 256, (n - 12481) % 256>>

\* The length that vl reads, and how many bytes it takes to say so.
vl(b) ==
    IF b[1] <= 192 THEN b[1]
    ELSE IF b[1] <= 240 THEN 193 + (b[1] - 193) * 256 + b[2]
    ELSE 12481 + (b[1] - 241) * 65536 + b[2] * 256 + b[3]
PrefixLen(b) == IF b[1] <= 192 THEN 1 ELSE IF b[1] <= 240 THEN 2 ELSE 3

\* One blob, with its one-byte field header.
BlobLen(n) == 1 + (IF n <= 192 THEN 1 ELSE IF n <= 12480 THEN 2 ELSE 3) + n

\* SerializeMemos of one memo: array and object headers and ends.
SerializedMemos(data) == 4 + BlobLen(TypeLen) + BlobLen(data)

\* chunk.Encode of a sealed piece of n bytes: header, nonce, ciphertext.
ChunkData(n)    == headerLen + n + TagLen
ManifestData(n) == headerLen + ManifestNonceLen + n + TagLen
-----------------------------------------------------------------------------
(* ManifestMemos: the parts of a manifest of n bytes.                      *)

Parts(n) == (n + ManifestPartLen - 1) \div ManifestPartLen

\* Mutant of PartLen: a part is a whole block.
PartLenBlock(n, i) ==
    (IF (i + 1) * BlockLen > n THEN n ELSE (i + 1) * BlockLen) - i * ManifestPartLen

\* Part i, counted from 0.
PartLen(n, i) ==
    (IF (i + 1) * ManifestPartLen > n THEN n ELSE (i + 1) * ManifestPartLen)
      - i * ManifestPartLen
-----------------------------------------------------------------------------
\* Every length up to the bound.
SizesInit == len = 0
Longer    == len < MaxLen /\ len' = len + 1
SizesSpec == SizesInit /\ [][Longer]_len

\* Packed data is whole blocks, of which Split makes chunks, and Unpack takes
\* off exactly what Pack added; the pad length fits its two bytes
\* (container.Pack, Unpack, chunk.Split).
PackInverts ==
    /\ Unpack(Pack(len)) = len
    /\ SplitBlocks(Pack(len).len) * BlockLen = Pack(len).len
    /\ Pack(len).len - len <= BlockLen + 1

\* What the ledger's length prefix says is the length that was written, for
\* every length a prefix can say (codec.appendVL, reader.vl).
PrefixInverts ==
    len <= 918744 =>
        LET b == appendVL(len)
        IN vl(b) = len /\ b[1] <= 254 /\ BlobLen(len) = 1 + PrefixLen(b) + len

\* A manifest of len bytes is cut into parts that are not empty, that add up
\* to it and that fit a memo; so does a chunk (ManifestMemos, chunk.Encode,
\* SerializeMemos).
MemosFit ==
    /\ SerializedMemos(ChunkData(BlockLen)) <= MaxMemosSerialized
    /\ len > 0 =>
         /\ (Parts(len) - 1) * ManifestPartLen + PartLen(len, Parts(len) - 1) = len
         /\ \A i \in 0..(Parts(len) - 1) :
              /\ PartLen(len, i) > 0
              /\ SerializedMemos(ManifestData(PartLen(len, i))) <= MaxMemosSerialized

\* Whatever its length, what is padded, prefixed, cut and put into memos is
\* legal and reads back (container.Pack, codec.appendVL, ManifestMemos).
SizesAgree == PackInverts /\ PrefixInverts /\ MemosFit
=============================================================================
