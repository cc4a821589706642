------------------------------- MODULE Codec -------------------------------
(***************************************************************************)
(* internal/xrpl/codec: the four transaction types in rippled's binary     *)
(* form (Serialize), and back (Deserialize, which the fake ledger uses).   *)
(* A serialized transaction is the sequence of its fields and end marks; a *)
(* blob stands for its length, which differs from field to field.  The fee *)
(* keeps its drops; bit 62 is set on the way out and cleared on the way    *)
(* in.                                                                     *)
(***************************************************************************)
EXTENDS BatchLayout, Encoding, SequencesExt

VARIABLE tx    \* a transaction a caller builds

AccountSet == 3
DIDSet     == 49
DIDDelete  == 50
Batch      == 71
MaxData    == 256

NoTx == [Type |-> 0, InnerFlag |-> 0, Sequence |-> 0, LastLedger |-> 0, Fee |-> 0,
         Key |-> 0, Sig |-> 0, URI |-> 0, Doc |-> 0, Data |-> 0, Account |-> 0,
         Memos |-> <<>>, Inner |-> <<>>]
NoMemo   == [Type |-> 0, Data |-> 0, Format |-> 0]
NoSerial == <<>>
-----------------------------------------------------------------------------
(* Field headers.                                                          *)

\* Mutant of appendHeader: a large field code is not given its own byte.
appendHeaderShort(typ, field) == <<(typ * 16 + field) % 256>>

appendHeader(typ, field) ==
    CASE typ < 16 /\ field < 16 -> <<typ * 16 + field>>
      [] typ < 16 /\ field >= 16 -> <<typ * 16, field>>
      [] typ >= 16 /\ field < 16 -> <<field, typ>>
      [] OTHER -> <<0, typ, field>>

\* The type and field that reader.header reads.
header(b) ==
    LET typ   == IF b[1] \div 16 = 0 THEN b[2] ELSE b[1] \div 16
        field == IF b[1] % 16 = 0 THEN b[Len(b)] ELSE b[1] % 16
    IN <<typ, field>>

\* The codes of the fields that hold a number or a blob, and the marks.
Code == [Type |-> <<1, 2>>, InnerFlag |-> <<2, 2>>, Sequence |-> <<2, 4>>,
         LastLedger |-> <<2, 27>>, Fee |-> <<6, 8>>, Key |-> <<7, 3>>, Sig |-> <<7, 4>>,
         URI |-> <<7, 5>>, Doc |-> <<7, 26>>, Data |-> <<7, 27>>, Account |-> <<8, 1>>]
MemoCode == [Type |-> <<7, 12>>, Data |-> <<7, 13>>, Format |-> <<7, 14>>]
MemosMark == <<15, 9>>
MemoMark  == <<14, 10>>
RawMark   == <<15, 30>>
InnerMark == <<14, 34>>
ObjectEnd == <<14, 1>>    \* 0xE1
ArrayEnd  == <<15, 1>>    \* 0xF1

Token(code, val) == [code |-> code, val |-> val]
Mark(code)       == <<Token(code, 0)>>
Field(t, name)   == <<Token(Code[name], t[name])>>
Given(t, name)   == IF t[name] = 0 THEN <<>> ELSE Field(t, name)
-----------------------------------------------------------------------------
(* Serialize.                                                              *)

MemoFields(m) ==
    LET given(name) == IF m[name] = 0 THEN <<>> ELSE <<Token(MemoCode[name], m[name])>>
    IN Mark(MemoMark) \o given("Type") \o given("Data") \o given("Format") \o Mark(ObjectEnd)

\* The array, and its size in bytes.
SerializeMemos(memos) ==
    IF memos = <<>> THEN <<>>
    ELSE Mark(MemosMark) \o FlattenSeq([i \in DOMAIN memos |-> MemoFields(memos[i])]) \o Mark(ArrayEnd)
MemosSize(memos) ==
    LET blob(n) == IF n = 0 THEN 0 ELSE BlobLen(n)
    IN 2 + FoldLeft(LAMBDA n, m : n + 2 + blob(m.Type) + blob(m.Data) + blob(m.Format), 0, memos)

\* Mutant of Fields: the memos come before the account.
FieldsMemosFirst(t, sign) ==
    Field(t, "Type") \o Given(t, "InnerFlag") \o Field(t, "Sequence") \o Given(t, "LastLedger")
      \o Field(t, "Fee") \o Field(t, "Key") \o (IF sign THEN Field(t, "Sig") ELSE <<>>)
      \o (IF t.Type = DIDSet THEN Given(t, "URI") \o Given(t, "Doc") \o Given(t, "Data") ELSE <<>>)
      \o SerializeMemos(t.Memos) \o Field(t, "Account")

Fields(t, sign) ==
    Field(t, "Type") \o Given(t, "InnerFlag") \o Field(t, "Sequence") \o Given(t, "LastLedger")
      \o Field(t, "Fee") \o Field(t, "Key") \o (IF sign THEN Field(t, "Sig") ELSE <<>>)
      \o (IF t.Type = DIDSet THEN Given(t, "URI") \o Given(t, "Doc") \o Given(t, "Data") ELSE <<>>)
      \o Field(t, "Account") \o SerializeMemos(t.Memos)

IsInner(t) == t.InnerFlag = 1

\* One transaction without its inner ones.
Legal(t, sign) ==
    /\ IF IsInner(t) THEN t.Fee = 0 /\ t.Key = 0 /\ t.Sig = 0 /\ t.Type # Batch
       ELSE t.Key = 33 /\ (sign => t.Sig # 0)
    /\ t.Type = DIDSet => t.Data <= MaxData
    /\ t.Account = 20
    /\ MemosSize(t.Memos) <= MaxMemosSerialized
    /\ t.Type # Batch => t.Inner = <<>>

\* 2 to MaxInner of them, each marked as one.
LegalInner(inner) ==
    /\ Len(inner) \in 2..MaxInner
    /\ \A i \in DOMAIN inner : IsInner(inner[i]) /\ Legal(inner[i], FALSE)

serializeInner(inner) ==
    Mark(RawMark)
      \o FlattenSeq([i \in DOMAIN inner |-> Mark(InnerMark) \o Fields(inner[i], FALSE) \o Mark(ObjectEnd)])
      \o Mark(ArrayEnd)

\* NoSerial stands for an error.
Serialize(t, sign) ==
    IF ~Legal(t, sign) \/ (t.Type = Batch /\ ~LegalInner(t.Inner)) THEN NoSerial
    ELSE Fields(t, sign /\ ~IsInner(t)) \o (IF t.Type = Batch THEN serializeInner(t.Inner) ELSE <<>>)
-----------------------------------------------------------------------------
(* Deserialize: `at' is the loop that reads the next field, `outer' the    *)
(* Batch while one of its inner transactions is read.                      *)

Named(codes, code) == {name \in DOMAIN codes : codes[name] = code}
The(names)         == CHOOSE name \in names : TRUE

ReadField(r, tok) ==
    CASE r.at = "object" /\ r.nested /\ tok.code = ObjectEnd ->
           [r EXCEPT !.tx = [r.outer EXCEPT !.Inner = Append(@, r.tx)], !.nested = FALSE, !.at = "raw"]
      [] r.at = "object" /\ Named(Code, tok.code) # {} ->
           [r EXCEPT !.tx = [@ EXCEPT ![The(Named(Code, tok.code))] = tok.val]]
      [] r.at = "object" /\ tok.code = MemosMark -> [r EXCEPT !.at = "memos"]
      [] r.at = "object" /\ tok.code = RawMark -> [r EXCEPT !.at = "raw"]
      [] r.at = "raw" /\ tok.code = InnerMark ->
           [r EXCEPT !.outer = r.tx, !.tx = NoTx, !.nested = TRUE, !.at = "object"]
      [] r.at = "memos" /\ tok.code = MemoMark ->
           [r EXCEPT !.tx = [@ EXCEPT !.Memos = Append(@, NoMemo)], !.at = "memo"]
      [] r.at \in {"raw", "memos"} /\ tok.code = ArrayEnd -> [r EXCEPT !.at = "object"]
      [] r.at = "memo" /\ Named(MemoCode, tok.code) # {} ->
           [r EXCEPT !.tx = [@ EXCEPT !.Memos[Len(r.tx.Memos)][The(Named(MemoCode, tok.code))] = tok.val]]
      [] r.at = "memo" /\ tok.code = ObjectEnd -> [r EXCEPT !.at = "memos"]
      [] OTHER -> [r EXCEPT !.at = "error"]

\* NoTx stands for an error.
Deserialize(tokens) ==
    LET r == FoldLeft(ReadField, [tx |-> NoTx, outer |-> NoTx, nested |-> FALSE, at |-> "object"], tokens)
    IN IF r.at = "object" /\ ~r.nested THEN r.tx ELSE NoTx
-----------------------------------------------------------------------------
Memos == {<<>>, <<[NoMemo EXCEPT !.Type = TypeLen, !.Data = ChunkData(BlockLen)]>>,
          <<[Type |-> 9, Data |-> 300, Format |-> 11], [Type |-> 0, Data |-> 200, Format |-> 0]>>,
          <<[NoMemo EXCEPT !.Type = TypeLen, !.Data = ChunkData(BlockLen) + 7]>>}

\* Plain and inner transactions, legal ones and not.
Txs == [Type : {AccountSet, DIDSet, DIDDelete, Batch}, InnerFlag : {0, 1}, Sequence : {5},
        LastLedger : {0, 90}, Fee : {0, 10}, Key : {0, 33}, Sig : {0, 64}, URI : {0},
        Doc : {0}, Data : {0}, Account : {20}, Memos : Memos, Inner : {<<>>}]
Inners == {t \in Txs : Legal(t, FALSE) /\ IsInner(t) /\ t.LastLedger = 0}

\* A caller builds a DIDSet's own fields, or fills a Batch, which has no memo
\* of its own; past the second inner transaction they are all the same.
SetDID ==
    /\ tx.Type = DIDSet /\ tx.Data = 0
    /\ \E uri \in {0, 31}, doc \in {0, 41}, data \in {77, MaxData, MaxData + 1} :
         tx' = [tx EXCEPT !.URI = uri, !.Doc = doc, !.Data = data]
AddInner ==
    /\ tx.Type = Batch /\ Len(tx.Inner) <= MaxInner /\ tx.LastLedger # 0 /\ tx.Memos = <<>>
    /\ \E t \in Inners \cup {NoTx} :
         /\ Len(tx.Inner) >= 2 => t = Last(tx.Inner)
         /\ tx' = [tx EXCEPT !.Inner = Append(@, t)]

CodecInit == tx \in Txs
CodecNext == SetDID \/ AddInner

\* Every serialized transaction reads back as what was written, the hash of
\* each inner one, which the manifest and the anchor name before the Batch is
\* sent, included; what is signed does not depend on the signature
\* (Serialize, InnerHash, SigningPayload, Deserialize).
CodecRoundTrip ==
    LET s == Serialize(tx, TRUE)
    IN s # NoSerial =>
         /\ LET back == Deserialize(s)
            IN /\ back = tx
               /\ \A i \in DOMAIN tx.Inner :
                    Serialize(back.Inner[i], FALSE) = Serialize(tx.Inner[i], FALSE)
         /\ Serialize(tx, FALSE) = Serialize([tx EXCEPT !.Sig = 0], FALSE)
         /\ \A i \in DOMAIN s : header(appendHeader(s[i].code[1], s[i].code[2])) = s[i].code

\* The fields of every object are in canonical order, by type and then by
\* field code, which rippled requires (Serialize, serializeInner).
CanonicalOrder ==
    LET keys(t) == SelectSeq([i \in DOMAIN Fields(t, TRUE) |-> Fields(t, TRUE)[i].code],
                             LAMBDA k : k \in Range(Code) \cup {MemosMark})
        before(a, b) == a[1] < b[1] \/ (a[1] = b[1] /\ a[2] < b[2])
        inOrder(s) == \A i \in 1..(Len(s) - 1) : before(s[i], s[i + 1])
    IN Serialize(tx, TRUE) # NoSerial => \A t \in {tx} \cup Range(tx.Inner) : inOrder(keys(t))

\* A ledger reads each transaction as it was meant, and accepts its form
\* (Serialize, Deserialize).
LedgerReads == CodecRoundTrip /\ CanonicalOrder
=============================================================================
