--------------------------- MODULE BatchedProofs ----------------------------
(***************************************************************************)
(* Proofs about the batched path of Submitter.Submit, for every number of  *)
(* chunks, manifest parts, attempts and faults and every Batch size.       *)
(*                                                                         *)
(* A transmission is a set that lands together, so the invariant speaks of *)
(* sets: what a transmission needs is on the ledger or in the transmission *)
(* itself.  That the manifest's last part never travels without the anchor *)
(* is a fact about how splitBatches cuts: the last group has two members.  *)
(***************************************************************************)
EXTENDS Batched, BatchLayoutProofs, TLAPS

-----------------------------------------------------------------------------
(* The inductive invariant.                                                *)

\* What the run has written and recorded, and both still hold.
Kept == chain \cap dump

\* A transaction carries what its kind carries and nothing else, it is of one
\* of the first k transmissions, and a manifest part is of a sealing in S.
Genuine(t, k, S) ==
    /\ t \in {ChunkTx(t.n, t.idx), PartTx(t.n, t.idx, t.nonce, t.names), AnchorTx(t.n, t.ref)}
    /\ t.n <= k
    /\ t.kind = "manifest" => [nonce |-> t.nonce, names |-> t.names] \in S

\* The manifest sealed under nonce z has an anchor in S.
Anchored(S, z) ==
    \E a, u \in S : /\ a.kind = "anchor" /\ u.kind = "manifest" /\ u.idx = 0
                    /\ u.nonce = z /\ a.ref = u.n

\* What T holds is whole in S: the chunks of a manifest, the backup of an
\* anchor, and the anchor of a manifest whose last part is there.
NamesIn(T, S)   == \A t \in T : t.kind = "manifest" => ChunksIn(S, t.names)
AnchorsIn(T, S) == \A t \in T : t.kind = "anchor" => Restorable(S, t.ref)
LastIn(T, S)    == \A t \in T : t.kind = "manifest" /\ t.idx = NParts - 1 => Anchored(S, t.nonce)

\* The first m parts of the manifest sealed as (z, nm) are in S.
PartsBefore(S, m, z, nm) == \A j \in Part : j < m => \E u \in S : u = PartTx(u.n, j, z, nm)

\* A transmission may land in any order with the others.
GroupSafe(g) ==
    /\ \A t \in g : Genuine(t, count, sealed)
    /\ NamesIn(g, chain \cup g) /\ AnchorsIn(g, chain \cup g) /\ LastIn(g, chain \cup g)

NetSafe ==
    /\ \A t \in chain \cup dump : Genuine(t, count, sealed)
    /\ \A s \in sealed : s.nonce <= seals
    /\ NonceUnique
    /\ NamesIn(chain, chain) /\ NamesIn(dump, dump)
    /\ LastIn(chain, chain)
    /\ \A g \in flight : GroupSafe(g)
    /\ AnchorSound

\* The transmissions of the four stages that send.
WholeGroup(k, z, nm) ==
    {ChunkTx(k, c) : c \in Pending} \cup {PartTx(k, j, z, nm) : j \in Part} \cup {AnchorTx(k, k)}
TailGroup(k) ==
    {PartTx(k, j, nonce, names) : j \in GroupParts}
      \cup (IF LastGroup THEN {AnchorTx(k, IF i = 1 THEN k ELSE mhash)} ELSE {})

\* The transmission a run waits for is the one its stage sends, and no other
\* one in flight has its number.
CurSafe ==
    /\ cur # {} =>
        \/ /\ pc = "whole" /\ cur = WholeGroup(count, nonce, names)
           /\ \A c \in Pending : names[c] = count
           /\ [nonce |-> nonce, names |-> names] \in sealed
        \/ pc = "chunks" /\ cur = {ChunkTx(count, c) : c \in Pending}
        \/ pc = "tail" /\ cur = TailGroup(count)
        \/ pc = "anchor" /\ cur = {AnchorTx(count, mhash)}
    /\ cur # {} => \A g \in flight : \A t \in g : t.n = count => g = cur

\* Once it has landed nothing else can land before the run goes on.
LandedSafe ==
    cur # {} /\ cur \subseteq chain =>
        /\ flight = {}
        /\ \A t \in cur : t.kind = "anchor" => did = t.ref

\* What each stage of a run has behind it.
StageSafe ==
    /\ pc \in {"idle", "chunk", "whole", "chunks", "seal", "tail", "anchor", "saveAnchor",
               "saveDID", "done"}
    /\ found \subseteq Kept
    /\ pc = "idle" => found = {}
    /\ pc = "chunk" =>
          /\ i <= NChunks
          /\ \A c \in Chunk \ Pending : c < i => ChunkTx(names[c], c) \in Kept
    /\ pc \in {"whole", "chunks"} =>
          \A c \in Chunk \ Pending : ChunkTx(names[c], c) \in Kept
    /\ pc \in {"seal", "tail"} => ChunksIn(Kept, names)
    /\ pc = "tail" =>
          /\ i \in 1..Groups(Items)
          /\ [nonce |-> nonce, names |-> names] \in sealed
          /\ PartsBefore(Kept, First(Items, i), nonce, names)
          /\ i > 1 => PartTx(mhash, 0, nonce, names) \in Kept
    /\ pc \in {"anchor", "saveAnchor", "saveDID", "done"} => Restorable(Kept, mhash)

\* After the anchor is confirmed the DID entry is settled.
DIDSettled ==
    /\ pc \in {"saveAnchor", "saveDID", "done"} => did = mhash /\ flight = {} /\ cur = {}
    /\ pc = "done" => dumpDID = did

RunSafe == CurSafe /\ LandedSafe /\ StageSafe /\ DIDSettled

\* Ledger, dump file and process agree.
Consistent == NetSafe /\ RunSafe

-----------------------------------------------------------------------------
(* Type correctness.                                                       *)

LEMMA TxTypes ==
    ASSUME NEW k \in Nat, NEW c \in Nat, NEW z \in Nat, NEW nm \in [Chunk -> Nat]
    PROVE  /\ ChunkTx(k, c) \in Tx
           /\ PartTx(k, c, z, nm) \in Tx
           /\ AnchorTx(k, c) \in Tx
BY DEF ChunkTx, PartTx, AnchorTx, Tx, NoNames

\* An attempt of send or sendBatch keeps the types of what it writes.
LEMMA AttemptType ==
    ASSUME TypeOK, NEW g, g \subseteq Tx, Attempt(g)
    PROVE  /\ chain' \subseteq Tx /\ dump' \subseteq Tx
           /\ cur' \subseteq Tx /\ flight' \subseteq SUBSET Tx
           /\ att' \in 0..MaxAttempts
           /\ count' \in Nat
           /\ faults' \in 0..MaxFaults
<1>1. att \in 0..MaxAttempts /\ att < MaxAttempts /\ att' = att + 1
    BY DEF TypeOK, Attempt, Transmit
<1>2. faults' = faults \/ (faults < MaxFaults /\ faults' = faults + 1)
    BY DEF Attempt, Fault
<1>3. att' \in 0..MaxAttempts
    BY <1>1, AttemptsAssumption
<1>4. faults' \in 0..MaxFaults
    BY <1>2, PlanAssumption DEF TypeOK
<1> QED
    BY <1>3, <1>4 DEF TypeOK, Attempt, Transmit

LEMMA DeliveryType ==
    ASSUME TypeOK, Confirm \/ GiveUp \/ Tear
    PROVE  /\ chain' \subseteq Tx /\ dump' \subseteq Tx
           /\ cur' \subseteq Tx /\ flight' \subseteq SUBSET Tx
           /\ att' \in 0..MaxAttempts
BY AttemptsAssumption DEF TypeOK, Confirm, GiveUp, Tear

LEMMA FaultType ==
    ASSUME TypeOK, Fault
    PROVE  faults' \in 0..MaxFaults
BY PlanAssumption DEF TypeOK, Fault

LEMMA EndRunType ==
    ASSUME EndRun
    PROVE  /\ found' \subseteq Tx /\ mhash' \in Nat /\ nonce' \in Nat
           /\ pc' \in Stage /\ i' \in Nat /\ names' \in [Chunk -> Nat]
BY DEF EndRun, NoNames, Stage

LEMMA SealType ==
    ASSUME TypeOK, NEW nm \in [Chunk -> Nat], Seal(nm)
    PROVE  /\ seals' \in Nat /\ nonce' \in Nat
           /\ sealed' \subseteq [nonce : Nat, names : [Chunk -> Nat]]
           /\ nonce' = seals + 1 /\ seals' = seals + 1
           /\ sealed' = sealed \cup {[nonce |-> nonce', names |-> nm]}
BY DEF TypeOK, Seal

\* The naming of the pending chunks by the attempt that carries them.
LEMMA NamesType ==
    ASSUME TypeOK, NEW k \in Nat
    PROVE  [c \in Chunk |-> IF c \in Pending THEN k ELSE names[c]] \in [Chunk -> Nat]
BY DEF TypeOK

LEMMA PartsAreNat == Chunk \subseteq Nat /\ Part \subseteq Nat /\ 0 \in Part /\ NParts - 1 \in Part
BY PlanAssumption DEF Chunk, Part

\* Every variable keeps its type, over every step of the batched Submit, the
\* network and a crash.
THEOREM TypeCorrect == Spec => []TypeOK
<1>1. Init => TypeOK
    BY AttemptsAssumption, PlanAssumption
    DEF Init, SubmitInit, DeliveryInit, TypeOK, Stage, NoNames
<1>2. TypeOK /\ [Next]_vars => TypeOK'
    <2> SUFFICES ASSUME TypeOK, [Next]_vars
                 PROVE  TypeOK'
        OBVIOUS
    <2>0. count + 1 \in Nat /\ names \in [Chunk -> Nat] /\ nonce \in Nat /\ mhash \in Nat
        BY DEF TypeOK
    <2>1. CASE Start
        <3>1. faults' \in 0..MaxFaults
            BY <2>1, FaultType DEF Start, TypeOK
        <3> QED
            BY <2>1, <3>1 DEF Start, TypeOK, Stage, NoNames, deliveryVars, sealVars
    <2>2. CASE NoteRecorded
        <3>1. names' \in [Chunk -> Nat]
            <4>1. CASE Recorded(i) = {}
                BY <2>0, <2>2, <4>1 DEF NoteRecorded
            <4>2. CASE Recorded(i) # {}
                <5>1. PICK t \in Recorded(i) : names' = [names EXCEPT ![i] = t.n]
                    BY <2>2, <4>2 DEF NoteRecorded
                <5>2. t.n \in Nat
                    BY <5>1 DEF Recorded, TypeOK, Tx
                <5> QED
                    BY <2>0, <5>1, <5>2
            <4> QED
                BY <4>1, <4>2
        <3> QED
            BY <2>2, <3>1 DEF NoteRecorded, TypeOK, deliveryVars, sealVars
    <2>3. CASE ReuseManifest
        <3>1. PICK t \in found : mhash' = t.n
            BY <2>3 DEF ReuseManifest
        <3>2. mhash' \in Nat
            BY <3>1 DEF TypeOK, Tx
        <3> QED
            BY <2>3, <3>2 DEF ReuseManifest, TypeOK, Stage, deliveryVars, sealVars
    <2>4. CASE RefuseToGuess
        BY <2>4, EndRunType DEF RefuseToGuess, TypeOK, deliveryVars, sealVars
    <2>5. CASE ChooseLayout
        <3>1. pc' \in {"whole", "chunks", "seal"}
            BY <2>5 DEF ChooseLayout
        <3> QED
            BY <2>5, <3>1 DEF ChooseLayout, TypeOK, Stage, deliveryVars, sealVars
    <2>6. CASE SendWhole
        <3>1. names' \in [Chunk -> Nat]
            BY <2>0, <2>6, NamesType DEF SendWhole
        <3>2. PICK nm \in [Chunk -> Nat] : nm = names'
            BY <3>1
        <3>3. Seal(nm)
            BY <2>6, <3>2 DEF SendWhole
        <3>4. /\ seals' \in Nat /\ nonce' \in Nat
              /\ sealed' \subseteq [nonce : Nat, names : [Chunk -> Nat]]
            BY <3>3, SealType
        <3>5. PICK z \in Nat : z = nonce'
            BY <3>4
        <3> DEFINE g == {ChunkTx(count + 1, c) : c \in Pending}
                          \cup {PartTx(count + 1, j, z, nm) : j \in Part}
                          \cup {AnchorTx(count + 1, count + 1)}
        <3>6. g \subseteq Tx
            BY <2>0, TxTypes, PartsAreNat DEF Pending
        <3>7. Attempt(g)
            BY <2>6, <3>2, <3>5 DEF SendWhole
        <3> HIDE DEF g
        <3>8. /\ chain' \subseteq Tx /\ dump' \subseteq Tx /\ cur' \subseteq Tx
              /\ flight' \subseteq SUBSET Tx /\ att' \in 0..MaxAttempts
              /\ count' \in Nat /\ faults' \in 0..MaxFaults
            BY <3>6, <3>7, AttemptType
        <3> QED
            BY <2>6, <3>1, <3>4, <3>8 DEF SendWhole, TypeOK
    <2>7. CASE WholeConfirmed
        BY <2>7, DeliveryType DEF WholeConfirmed, TypeOK, Stage, sealVars
    <2>8. CASE SendChunks
        <3>1. {ChunkTx(count + 1, c) : c \in Pending} \subseteq Tx
            BY <2>0, TxTypes, PartsAreNat DEF Pending
        <3>2. Attempt({ChunkTx(count + 1, c) : c \in Pending})
            BY <2>8 DEF SendChunks
        <3> QED
            BY <2>8, <3>1, <3>2, AttemptType DEF SendChunks, TypeOK, sealVars, runVars
    <2>9. CASE ChunksConfirmed
        <3>1. names' \in [Chunk -> Nat]
            BY <2>9, NamesType DEF ChunksConfirmed, TypeOK
        <3> QED
            BY <2>9, <3>1, DeliveryType DEF ChunksConfirmed, TypeOK, Stage, sealVars
    <2>10. CASE SealTail
        <3>1. Seal(names)
            BY <2>10 DEF SealTail
        <3> QED
            BY <2>0, <2>10, <3>1, SealType DEF SealTail, TypeOK, Stage, deliveryVars
    <2>11. CASE SendTail
        <3>1. TailGroup(count + 1) \subseteq Tx
            <4>1. \A j \in GroupParts : PartTx(count + 1, j, nonce, names) \in Tx
                BY <2>0, TxTypes, PartsAreNat DEF GroupParts
            <4>2. AnchorTx(count + 1, count + 1) \in Tx /\ AnchorTx(count + 1, mhash) \in Tx
                BY <2>0, TxTypes
            <4> QED
                BY <4>1, <4>2 DEF TailGroup
        <3>2. Attempt(TailGroup(count + 1))
            BY <2>11 DEF SendTail, TailGroup
        <3> QED
            BY <2>11, <3>1, <3>2, AttemptType DEF SendTail, TypeOK, sealVars, runVars
    <2>12. CASE TailConfirmed
        BY <2>12, DeliveryType DEF TailConfirmed, TypeOK, Stage, sealVars
    <2>13. CASE SendAnchor
        <3>1. {AnchorTx(count + 1, mhash)} \subseteq Tx
            BY <2>0, TxTypes
        <3>2. Attempt({AnchorTx(count + 1, mhash)})
            BY <2>13 DEF SendAnchor
        <3> QED
            BY <2>13, <3>1, <3>2, AttemptType DEF SendAnchor, TypeOK, sealVars, runVars
    <2>14. CASE AnchorConfirmed
        BY <2>14, DeliveryType DEF AnchorConfirmed, TypeOK, Stage, sealVars
    <2>15. CASE SaveAnchor
        BY <2>15 DEF SaveAnchor, TypeOK, Stage, deliveryVars, sealVars
    <2>16. CASE FinishBatched
        BY <2>16 DEF FinishBatched, TypeOK, Stage, deliveryVars, sealVars
    <2>17. CASE InnerLookupFails
        BY <2>17, DeliveryType, FaultType, EndRunType DEF InnerLookupFails, TypeOK, sealVars
    <2>18. CASE Abort
        BY <2>18, DeliveryType, FaultType, EndRunType DEF Abort, TypeOK, sealVars
    <2>19. CASE Exhausted
        BY <2>19, DeliveryType, EndRunType DEF Exhausted, TypeOK, sealVars
    <2>20. CASE TornSave
        <3>1. /\ chain' \subseteq Tx /\ dump' \subseteq Tx /\ cur' \subseteq Tx
              /\ flight' \subseteq SUBSET Tx /\ att' \in 0..MaxAttempts
            BY <2>20, DeliveryType DEF TornSave, TypeOK
        <3> QED
            BY <2>20, <3>1, FaultType, EndRunType DEF TornSave, TypeOK, sealVars
    <2>21. CASE SwitchNetwork
        BY <2>21, FaultType DEF SwitchNetwork, TypeOK, sealVars, runVars
    <2>22. CASE NetworkLand
        <3>1. PICK txs \in flight :
                /\ Land(txs)
                /\ \/ \E t \in txs : t.kind = "anchor" /\ did' = t.ref
                   \/ did' = 0
                   \/ did' = did
            BY <2>22 DEF NetworkLand
        <3>2. txs \subseteq Tx
            BY DEF TypeOK
        <3>3. did' \in Nat
            BY <3>1, <3>2 DEF TypeOK, Tx
        <3> QED
            BY <2>22, <3>1, <3>2, <3>3 DEF NetworkLand, Land, TypeOK, sealVars, runVars
    <2>23. CASE NetworkVoid
        BY <2>23, FaultType DEF NetworkVoid, Void, TypeOK, sealVars, runVars
    <2>24. CASE UNCHANGED vars
        BY <2>24 DEF vars, submitVars, deliveryVars, sealVars, runVars, TypeOK
    <2> QED
        BY <2>1, <2>2, <2>3, <2>4, <2>5, <2>6, <2>7, <2>8, <2>9, <2>10, <2>11, <2>12, <2>13,
           <2>14, <2>15, <2>16, <2>17, <2>18, <2>19, <2>20, <2>21, <2>22, <2>23, <2>24
        DEF Next, Step, Stop, Environment
<1> QED
    BY <1>1, <1>2, PTL DEF Spec

-----------------------------------------------------------------------------
(* What is there stays enough when there is more of it.                    *)

LEMMA ChunksInGrows ==
    ASSUME NEW S, NEW T, NEW nm, S \subseteq T, ChunksIn(S, nm)
    PROVE  ChunksIn(T, nm)
BY DEF ChunksIn

LEMMA RestorableGrows ==
    ASSUME NEW S, NEW T, NEW r, S \subseteq T, Restorable(S, r)
    PROVE  Restorable(T, r)
<1>1. PICK t \in S : /\ t.kind = "manifest" /\ t.idx = 0 /\ t.n = r
                     /\ PartsIn(S, t.nonce, t.names)
                     /\ ChunksIn(S, t.names)
    BY DEF Restorable
<1>2. PartsIn(T, t.nonce, t.names)
    BY <1>1 DEF PartsIn
<1>3. ChunksIn(T, t.names)
    BY <1>1 DEF ChunksIn
<1> QED
    BY <1>1, <1>2, <1>3 DEF Restorable

LEMMA AnchoredGrows ==
    ASSUME NEW S, NEW T, NEW z, S \subseteq T, Anchored(S, z)
    PROVE  Anchored(T, z)
BY DEF Anchored

\* A manifest all of whose parts and chunks are in S makes S restorable.
LEMMA CompleteRestorable ==
    ASSUME NEW S, NEW k, NEW z, NEW nm,
           PartTx(k, 0, z, nm) \in S, PartsIn(S, z, nm), ChunksIn(S, nm)
    PROVE  Restorable(S, k)
<1> DEFINE t == PartTx(k, 0, z, nm)
<1>1. t.kind = "manifest" /\ t.idx = 0 /\ t.n = k /\ t.nonce = z /\ t.names = nm
    BY DEF PartTx
<1> QED
    BY <1>1 DEF Restorable

\* What the three kinds of transactions carry.
LEMMA Fields ==
    ASSUME NEW k, NEW c, NEW z, NEW nm
    PROVE  /\ ChunkTx(k, c).kind = "chunk" /\ ChunkTx(k, c).n = k /\ ChunkTx(k, c).idx = c
           /\ PartTx(k, c, z, nm).kind = "manifest" /\ PartTx(k, c, z, nm).n = k
           /\ PartTx(k, c, z, nm).idx = c /\ PartTx(k, c, z, nm).nonce = z
           /\ PartTx(k, c, z, nm).names = nm
           /\ AnchorTx(k, c).kind = "anchor" /\ AnchorTx(k, c).n = k /\ AnchorTx(k, c).ref = c
BY DEF ChunkTx, PartTx, AnchorTx

-----------------------------------------------------------------------------
(* The transmissions are safe to send.                                     *)

\* A Batch with everything needs only the recorded chunks to be in S.
LEMMA WholeIsSafe ==
    ASSUME NEW S, NEW k, NEW z, NEW nm,
           \A c \in Pending : nm[c] = k,
           \A c \in Chunk \ Pending : ChunkTx(nm[c], c) \in S
    PROVE  LET g == WholeGroup(k, z, nm)
           IN  /\ NamesIn(g, S \cup g) /\ AnchorsIn(g, S \cup g) /\ LastIn(g, S \cup g)
               /\ Restorable(S \cup g, k)
               /\ AnchorTx(k, k) \in g
               /\ \A t \in g : t.n = k
               /\ \A t \in g : t.kind = "anchor" => t.ref = k
<1> DEFINE g == WholeGroup(k, z, nm)
<1>1. \A t \in g : \/ \E c \in Pending : t = ChunkTx(k, c)
                   \/ \E j \in Part : t = PartTx(k, j, z, nm)
                   \/ t = AnchorTx(k, k)
    BY DEF WholeGroup
<1>2. /\ \A c \in Pending : ChunkTx(k, c) \in g
      /\ \A j \in Part : PartTx(k, j, z, nm) \in g
      /\ AnchorTx(k, k) \in g
    BY DEF WholeGroup
<1> HIDE DEF g
<1>3. ChunksIn(S \cup g, nm)
    BY <1>2 DEF ChunksIn
<1>4. PartsIn(S \cup g, z, nm)
    <2> SUFFICES ASSUME NEW j \in Part
                 PROVE  \E u \in S \cup g : u = PartTx(u.n, j, z, nm)
        BY DEF PartsIn
    <2>1. PartTx(k, j, z, nm) \in g /\ PartTx(k, j, z, nm).n = k
        BY <1>2, Fields
    <2> QED
        BY <2>1
<1>5. Restorable(S \cup g, k)
    BY <1>2, <1>3, <1>4, PartsAreNat, CompleteRestorable
<1>6. Anchored(S \cup g, z)
    <2>1. /\ AnchorTx(k, k) \in g /\ PartTx(k, 0, z, nm) \in g
          /\ AnchorTx(k, k).kind = "anchor" /\ AnchorTx(k, k).ref = k
          /\ PartTx(k, 0, z, nm).kind = "manifest" /\ PartTx(k, 0, z, nm).idx = 0
          /\ PartTx(k, 0, z, nm).nonce = z /\ PartTx(k, 0, z, nm).n = k
        BY <1>2, PartsAreNat DEF PartTx, AnchorTx
    <2> QED
        BY <2>1 DEF Anchored
<1>7. \A t \in g : /\ t.n = k
                   /\ t.kind = "manifest" => t.names = nm /\ t.nonce = z
                   /\ t.kind = "anchor" => t.ref = k
    BY <1>1 DEF ChunkTx, PartTx, AnchorTx
<1>8. NamesIn(g, S \cup g) /\ AnchorsIn(g, S \cup g) /\ LastIn(g, S \cup g)
    BY <1>3, <1>5, <1>6, <1>7 DEF NamesIn, AnchorsIn, LastIn
<1> QED
    BY <1>2, <1>5, <1>7, <1>8 DEF g

\* A group of the tail: what the earlier groups brought is in S, and only the
\* last group has the last part and, with it, the anchor.
LEMMA TailIsSafe ==
    ASSUME TypeOK, StageSafe, pc = "tail", NEW S, Kept \subseteq S, NEW k
    PROVE  LET g == TailGroup(k)
               r == IF i = 1 THEN k ELSE mhash
           IN  /\ NamesIn(g, S \cup g) /\ AnchorsIn(g, S \cup g) /\ LastIn(g, S \cup g)
               /\ PartsBefore(S \cup g, First(Items, i + 1), nonce, names)
               /\ PartTx(r, 0, nonce, names) \in S \cup g
               /\ LastGroup => Restorable(S \cup g, r) /\ AnchorTx(k, r) \in g
               /\ \A t \in g : t.n = k
               /\ \A t \in g : t.kind = "anchor" => t.ref = r /\ LastGroup
               /\ \A t \in g : t.kind = "manifest" => t = PartTx(t.n, t.idx, nonce, names)
               /\ \A t \in g : t.kind \in {"manifest", "anchor"}
<1> DEFINE g == TailGroup(k)
           r == IF i = 1 THEN k ELSE mhash
           lo == First(Items, i)
           sz == SplitSize(Items, i)
           G == Groups(Items)
<1>0. /\ i \in 1..G /\ ChunksIn(Kept, names)
      /\ \A j \in Part : j < lo => \E u \in Kept : u = PartTx(u.n, j, nonce, names)
      /\ i > 1 => PartTx(mhash, 0, nonce, names) \in Kept
    BY DEF StageSafe, PartsBefore
<1>1. Items \in Nat /\ Items >= 2 /\ Items = NParts + 1 /\ NParts \in Nat
    BY PlanAssumption DEF Items
<1>2. /\ G \in Nat /\ G >= 1
      /\ First(Items, 1) = 0 /\ SplitSize(Items, 1) >= 1
      /\ lo \in Nat /\ sz \in Nat /\ First(Items, i + 1) = lo + sz
      /\ i # G => First(Items, i + 1) <= Items - 2
      /\ First(Items, G) + SplitSize(Items, G) = Items
    BY <1>0, <1>1, LayoutIs
<1>3. \A t \in g : \/ \E j \in GroupParts : t = PartTx(k, j, nonce, names)
                   \/ LastGroup /\ t = AnchorTx(k, r)
    BY DEF TailGroup
<1>4. /\ \A j \in GroupParts : PartTx(k, j, nonce, names) \in g
      /\ LastGroup => AnchorTx(k, r) \in g
    BY DEF TailGroup
<1>5. GroupParts = {j \in Part : lo <= j /\ j < lo + sz}
    BY DEF GroupParts
<1>6. LastGroup <=> i = G
    BY DEF LastGroup
<1> HIDE DEF g, r, lo, sz, G
<1>7. ASSUME NEW j \in Part, j < First(Items, i + 1)
      PROVE  \E u \in S \cup g : u = PartTx(u.n, j, nonce, names)
    <2>1. CASE j < lo
        BY <1>0, <2>1
    <2>2. CASE ~(j < lo)
        <3>1. j \in GroupParts
            BY <1>2, <1>5, <1>7, <2>2, PartsAreNat
        <3>2. PartTx(k, j, nonce, names) \in g /\ PartTx(k, j, nonce, names).n = k
            BY <1>4, <3>1, Fields
        <3> QED
            BY <3>2
    <2> QED
        BY <2>1, <2>2
<1>8. PartTx(r, 0, nonce, names) \in S \cup g
    <2>1. CASE i = 1
        <3>1. lo = 0 /\ sz >= 1
            BY <1>2, <2>1 DEF lo, sz
        <3>2. 0 \in GroupParts
            BY <1>2, <1>5, <3>1, PartsAreNat
        <3> QED
            BY <1>4, <2>1, <3>2 DEF r
    <2>2. CASE i # 1
        BY <1>0, <1>2, <2>2 DEF r
    <2> QED
        BY <2>1, <2>2
<1>9. ChunksIn(S \cup g, names)
    BY <1>0, ChunksInGrows
<1>10. ASSUME LastGroup
       PROVE  Restorable(S \cup g, r)
    <2>1. First(Items, i + 1) = NParts + 1
        BY <1>1, <1>2, <1>6, <1>10 DEF lo, sz
    <2>2. \A j \in Part : j < First(Items, i + 1)
        BY <1>1, <2>1 DEF Part
    <2>3. PartsIn(S \cup g, nonce, names)
        BY <1>7, <2>2 DEF PartsIn
    <2> QED
        BY <1>8, <1>9, <2>3, CompleteRestorable
<1>11. ASSUME LastGroup
       PROVE  Anchored(S \cup g, nonce)
    <2> DEFINE a == AnchorTx(k, r)
               u == PartTx(r, 0, nonce, names)
    <2>1. /\ a \in S \cup g /\ u \in S \cup g /\ a.kind = "anchor" /\ a.ref = r
          /\ u.kind = "manifest" /\ u.idx = 0 /\ u.nonce = nonce /\ u.n = r
        BY <1>4, <1>8, <1>11, Fields
    <2> QED
        BY <2>1 DEF Anchored
<1>12. \A t \in g : /\ t.n = k
                    /\ t.kind = "manifest" =>
                          /\ t = PartTx(k, t.idx, nonce, names) /\ t.idx \in GroupParts
                          /\ t.names = names /\ t.nonce = nonce
                    /\ t.kind = "anchor" => t.ref = r /\ LastGroup
                    /\ t.kind \in {"manifest", "anchor"}
    BY <1>3, Fields
<1>13. NParts - 1 \in GroupParts => LastGroup
    BY <1>1, <1>2, <1>5, <1>6
<1>14. NamesIn(g, S \cup g)
    BY <1>9, <1>12 DEF NamesIn
<1>15. AnchorsIn(g, S \cup g)
    BY <1>10, <1>12 DEF AnchorsIn
<1>16. LastIn(g, S \cup g)
    BY <1>11, <1>12, <1>13 DEF LastIn
<1>17. PartsBefore(S \cup g, First(Items, i + 1), nonce, names)
    BY <1>7 DEF PartsBefore
<1> QED
    BY <1>4, <1>8, <1>10, <1>12, <1>14, <1>15, <1>16, <1>17 DEF g, r

-----------------------------------------------------------------------------
(* NetSafe, effect by effect.                                              *)

\* No sealing, or one under a nonce that no earlier sealing used.
SealStep == UNCHANGED <<seals, sealed>> \/ \E nm \in [Chunk -> Nat] : Seal(nm)

LEMMA SealKept ==
    ASSUME TypeOK, NetSafe, SealStep
    PROVE  /\ sealed \subseteq sealed'
           /\ \A s \in sealed' : s.nonce <= seals'
           /\ NonceUnique'
<1>0. /\ \A s \in sealed : s.nonce \in Nat /\ s.nonce <= seals
      /\ seals \in Nat /\ NonceUnique
    BY DEF NetSafe, TypeOK
<1>1. CASE UNCHANGED <<seals, sealed>>
    BY <1>0, <1>1 DEF NonceUnique
<1>2. ASSUME NEW nm \in [Chunk -> Nat], Seal(nm)
      PROVE  /\ sealed \subseteq sealed'
             /\ \A s \in sealed' : s.nonce <= seals'
             /\ NonceUnique'
    <2> DEFINE n == [nonce |-> seals + 1, names |-> nm]
    <2>1. seals' = seals + 1 /\ sealed' = sealed \cup {n} /\ n.nonce = seals + 1
        BY <1>2 DEF Seal
    <2> HIDE DEF n
    <2>2. \A s \in sealed' : s.nonce <= seals'
        BY <1>0, <2>1
    <2>3. NonceUnique'
        <3> SUFFICES ASSUME NEW u \in sealed', NEW v \in sealed', u.nonce = v.nonce
                     PROVE  u.names = v.names
            BY DEF NonceUnique
        <3>1. CASE u \in sealed /\ v \in sealed
            BY <1>0, <3>1 DEF NonceUnique
        <3>2. CASE u = n /\ v \in sealed
            BY <1>0, <2>1, <3>2
        <3>3. CASE u \in sealed /\ v = n
            BY <1>0, <2>1, <3>3
        <3> QED
            BY <2>1, <3>1, <3>2, <3>3
    <2> QED
        BY <2>1, <2>2, <2>3
<1> QED
    BY <1>1, <1>2 DEF SealStep

\* Ledger and dump stay, and what is new in flight is safe: a step of the run
\* that sends, seals, does both or neither.
LEMMA NetGrows ==
    ASSUME TypeOK, NetSafe, UNCHANGED <<chain, dump, did>>, SealStep,
           count' \in {count, count + 1},
           \A g \in flight' : g \in flight \/ GroupSafe(g)'
    PROVE  NetSafe'
<1>1. /\ sealed \subseteq sealed' /\ NonceUnique'
      /\ \A s \in sealed' : s.nonce <= seals'
    BY SealKept
<1>2. \A t \in Tx : Genuine(t, count, sealed) => Genuine(t, count', sealed')
    BY <1>1 DEF Genuine, Tx, TypeOK
<1>3. \A t \in chain \cup dump : Genuine(t, count', sealed')
    BY <1>2 DEF NetSafe, TypeOK
<1>4. ASSUME NEW g \in flight
      PROVE  GroupSafe(g)'
    <2>1. GroupSafe(g) /\ g \subseteq Tx
        BY DEF NetSafe, TypeOK
    <2> QED
        BY <1>2, <2>1 DEF GroupSafe
<1>5. \A g \in flight' : GroupSafe(g)'
    BY <1>4
<1> QED
    BY <1>1, <1>3, <1>5 DEF NetSafe, AnchorSound

\* A validated transmission is recorded: what it names is in the dump then.
LEMMA NetConfirm ==
    ASSUME NetSafe, Confirm, UNCHANGED <<did, count, seals, sealed>>, NamesIn(cur, dump \cup cur)
    PROVE  NetSafe'
<1>1. cur \subseteq chain /\ dump' = dump \cup cur /\ UNCHANGED <<chain, flight>>
    BY DEF Confirm
<1>2. \A t \in chain' \cup dump' : Genuine(t, count', sealed')
    BY <1>1 DEF NetSafe
<1>3. NamesIn(dump', dump')
    <2> SUFFICES ASSUME NEW t \in dump \cup cur, t.kind = "manifest"
                 PROVE  ChunksIn(dump \cup cur, t.names)
        BY <1>1 DEF NamesIn
    <2>1. CASE t \in cur
        BY <2>1 DEF NamesIn
    <2>2. CASE t \in dump
        BY <2>2, ChunksInGrows DEF NetSafe, NamesIn
    <2> QED
        BY <2>1, <2>2
<1>4. \A g \in flight' : GroupSafe(g)'
    BY <1>1 DEF NetSafe, GroupSafe
<1> QED
    BY <1>1, <1>2, <1>3, <1>4 DEF NetSafe, NonceUnique, AnchorSound

\* The dump file is lost.
LEMMA NetTear ==
    ASSUME NetSafe, dump' = {}, UNCHANGED <<chain, flight, did, count, seals, sealed>>
    PROVE  NetSafe'
<1>1. \A g \in flight' : GroupSafe(g)'
    BY DEF NetSafe, GroupSafe
<1> QED
    BY <1>1 DEF NetSafe, NonceUnique, NamesIn, AnchorSound

\* A ledger closes with one of the transmissions in flight, all of it.
LEMMA NetLand ==
    ASSUME NetSafe, NetworkLand
    PROVE  NetSafe'
<1>1. PICK txs \in flight :
        /\ Land(txs)
        /\ \/ \E t \in txs : t.kind = "anchor" /\ did' = t.ref
           \/ did' = 0
           \/ did' = did
    BY DEF NetworkLand
<1>2. /\ chain' = chain \cup txs /\ flight' = {}
      /\ UNCHANGED <<dump, count, seals, sealed>>
    BY <1>1 DEF Land, NetworkLand, sealVars
<1>3. GroupSafe(txs)
    BY DEF NetSafe
<1>4. \A t \in chain' \cup dump' : Genuine(t, count', sealed')
    BY <1>2, <1>3 DEF NetSafe, GroupSafe
<1>5. NamesIn(chain', chain')
    <2> SUFFICES ASSUME NEW t \in chain \cup txs, t.kind = "manifest"
                 PROVE  ChunksIn(chain \cup txs, t.names)
        BY <1>2 DEF NamesIn
    <2>1. CASE t \in txs
        BY <1>3, <2>1 DEF GroupSafe, NamesIn
    <2>2. CASE t \in chain
        BY <2>2, ChunksInGrows DEF NetSafe, NamesIn
    <2> QED
        BY <2>1, <2>2
<1>6. LastIn(chain', chain')
    <2> SUFFICES ASSUME NEW t \in chain \cup txs, t.kind = "manifest", t.idx = NParts - 1
                 PROVE  Anchored(chain \cup txs, t.nonce)
        BY <1>2 DEF LastIn
    <2>1. CASE t \in txs
        BY <1>3, <2>1 DEF GroupSafe, LastIn
    <2>2. CASE t \in chain
        BY <2>2, AnchoredGrows DEF NetSafe, LastIn
    <2> QED
        BY <2>1, <2>2
<1>7. AnchorSound'
    <2>1. CASE \E t \in txs : t.kind = "anchor" /\ did' = t.ref
        BY <1>2, <1>3, <2>1 DEF GroupSafe, AnchorsIn, AnchorSound
    <2>2. CASE did' = 0
        BY <2>2 DEF AnchorSound
    <2>3. CASE did' = did
        BY <1>2, <2>3, RestorableGrows DEF NetSafe, AnchorSound
    <2> QED
        BY <1>1, <2>1, <2>2, <2>3
<1> QED
    BY <1>2, <1>4, <1>5, <1>6, <1>7 DEF NetSafe, NonceUnique, NamesIn

\* Using up the sequence number leaves what landed and what is recorded.
LEMMA NetVoid ==
    ASSUME NetSafe, NetworkVoid
    PROVE  NetSafe'
BY DEF NetworkVoid, Void, sealVars, NetSafe, NonceUnique, NamesIn, LastIn, AnchorSound

\* Another network: nothing of the plan is on it.
LEMMA NetSwitch ==
    ASSUME NetSafe, SwitchNetwork
    PROVE  NetSafe'
BY DEF SwitchNetwork, sealVars, NetSafe, NonceUnique, NamesIn, LastIn, AnchorSound

-----------------------------------------------------------------------------
(* RunSafe, effect by effect.                                              *)

\* A run that has ended believes nothing.
LEMMA RunEnds ==
    ASSUME EndRun, cur' = {}
    PROVE  RunSafe'
<1>1. pc' = "idle" /\ found' = {}
    BY DEF EndRun
<1>2. StageSafe'
    BY <1>1 DEF StageSafe
<1> QED
    BY <1>1, <1>2 DEF RunSafe, CurSafe, LandedSafe, DIDSettled

\* A stage keeps what it has behind it while the ledger and the dump grow.
LEMMA StageKept ==
    ASSUME StageSafe, Kept \subseteq Kept', sealed \subseteq sealed',
           UNCHANGED <<pc, i, found, names, nonce, mhash>>
    PROVE  StageSafe'
<1>1. ChunksIn(Kept, names) => ChunksIn(Kept', names)
    BY ChunksInGrows
<1>2. Restorable(Kept, mhash) => Restorable(Kept', mhash)
    BY RestorableGrows
<1>3. Pending' = Pending
    BY DEF Pending, Recorded
<1>4. PartsBefore(Kept, First(Items, i), nonce, names)
        => PartsBefore(Kept', First(Items, i), nonce, names)
    BY DEF PartsBefore
<1> QED
    BY <1>1, <1>2, <1>3, <1>4 DEF StageSafe

\* So does what is known of the transmission being polled while the run waits.
LEMMA CurKept ==
    ASSUME CurSafe, sealed \subseteq sealed', flight' \subseteq flight,
           UNCHANGED <<cur, count, pc, i, found, names, nonce, mhash>>
    PROVE  CurSafe'
<1>1. Pending' = Pending
    BY DEF Pending, Recorded
<1>2. WholeGroup(count, nonce, names)' = WholeGroup(count, nonce, names)
    BY <1>1 DEF WholeGroup
<1>3. TailGroup(count)' = TailGroup(count)
    BY DEF TailGroup, GroupParts, LastGroup
<1> QED
    BY <1>1, <1>2, <1>3 DEF CurSafe

\* What a run waits for has its last number, and all its anchors are one.
LEMMA CurShape ==
    ASSUME CurSafe, cur # {}
    PROVE  \E r : \A t \in cur : /\ t.n = count
                                 /\ t.kind \in {"chunk", "manifest", "anchor"}
                                 /\ t.kind = "anchor" => t.ref = r
<1>1. CASE pc = "whole" /\ cur = WholeGroup(count, nonce, names)
    <2>1. \A t \in cur : \/ \E c \in Pending : t = ChunkTx(count, c)
                         \/ \E j \in Part : t = PartTx(count, j, nonce, names)
                         \/ t = AnchorTx(count, count)
        BY <1>1 DEF WholeGroup
    <2>2. \A t \in cur : /\ t.n = count
                         /\ t.kind \in {"chunk", "manifest", "anchor"}
                         /\ t.kind = "anchor" => t.ref = count
        BY <2>1 DEF ChunkTx, PartTx, AnchorTx
    <2> QED
        BY <2>2
<1>2. CASE pc = "chunks" /\ cur = {ChunkTx(count, c) : c \in Pending}
    <2>1. \A t \in cur : t.n = count /\ t.kind = "chunk"
        BY <1>2 DEF ChunkTx
    <2> QED
        BY <2>1
<1>3. CASE pc = "tail" /\ cur = TailGroup(count)
    <2>1. PICK r : r = IF i = 1 THEN count ELSE mhash
        OBVIOUS
    <2>2. \A t \in cur : \/ \E j \in GroupParts : t = PartTx(count, j, nonce, names)
                         \/ t = AnchorTx(count, r)
        BY <1>3, <2>1 DEF TailGroup
    <2>3. \A t \in cur : /\ t.n = count
                         /\ t.kind \in {"chunk", "manifest", "anchor"}
                         /\ t.kind = "anchor" => t.ref = r
        BY <2>2 DEF PartTx, AnchorTx
    <2> QED
        BY <2>3
<1>4. CASE pc = "anchor" /\ cur = {AnchorTx(count, mhash)}
    BY <1>4 DEF AnchorTx
<1> QED
    BY <1>1, <1>2, <1>3, <1>4 DEF CurSafe

\* A transmission that has just been sent has not landed, and nothing that
\* was in flight has its number.
LEMMA RunAttempt ==
    ASSUME TypeOK, Consistent, NEW g, \A t \in g : t.n = count + 1, Attempt(g),
           pc' = pc, pc \in {"whole", "chunks", "tail", "anchor"}
    PROVE  /\ LandedSafe' /\ DIDSettled'
           /\ cur' = g /\ flight' = flight \cup {g} /\ count' = count + 1
           /\ UNCHANGED <<chain, dump>>
           /\ \A h \in flight' : \A t \in h : t.n = count' => h = cur'
<1>1. /\ cur' = g /\ flight' = flight \cup {g} /\ count' = count + 1
      /\ UNCHANGED <<chain, dump>>
    BY DEF Attempt, Transmit
<1>2. \A u \in chain : u.n \in Nat /\ u.n <= count
    BY DEF Consistent, NetSafe, Genuine, TypeOK, Tx
<1>3. \A h \in flight : \A u \in h : u.n \in Nat /\ u.n <= count
    BY DEF Consistent, NetSafe, GroupSafe, Genuine, TypeOK, Tx
<1>4. count \in Nat
    BY DEF TypeOK
<1>5. g # {} => ~(g \subseteq chain)
    BY <1>2, <1>4
<1>6. LandedSafe'
    BY <1>1, <1>5 DEF LandedSafe
<1>7. DIDSettled'
    BY DEF DIDSettled
<1>8. \A h \in flight' : \A t \in h : t.n = count' => h = cur'
    BY <1>1, <1>3, <1>4
<1> QED
    BY <1>1, <1>6, <1>7, <1>8

\* A validated transmission is recorded next to what was recorded before.
LEMMA KeptConfirm ==
    ASSUME Confirm
    PROVE  /\ Kept' = Kept \cup cur /\ cur' = {} /\ UNCHANGED <<flight, chain>>
           /\ dump' = dump \cup cur /\ cur # {} /\ cur \subseteq chain
BY DEF Confirm, Kept

\* The manifest a resume scan finds complete is restorable: its parts agree
\* on the chunks they name, for no nonce was used twice.
LEMMA ReuseRestorable ==
    ASSUME TypeOK, Consistent, NEW t \in found, CompleteManifest(t)
    PROVE  Restorable(Kept, t.n)
<1>1. found \subseteq chain /\ found \subseteq dump
    BY DEF Consistent, RunSafe, StageSafe, Kept
<1>2. \A u \in found : u.kind = "manifest" =>
        /\ u = PartTx(u.n, u.idx, u.nonce, u.names)
        /\ [nonce |-> u.nonce, names |-> u.names] \in sealed
    <2> SUFFICES ASSUME NEW u \in found, u.kind = "manifest"
                 PROVE  /\ u = PartTx(u.n, u.idx, u.nonce, u.names)
                        /\ [nonce |-> u.nonce, names |-> u.names] \in sealed
        OBVIOUS
    <2>1. Genuine(u, count, sealed)
        BY <1>1 DEF Consistent, NetSafe
    <2> QED
        BY <2>1 DEF Genuine, ChunkTx, PartTx, AnchorTx
<1>3. t = PartTx(t.n, 0, t.nonce, t.names) /\ t \in Kept /\ t.kind = "manifest"
    BY <1>1, <1>2 DEF CompleteManifest, Kept
<1>4. PartsIn(Kept, t.nonce, t.names)
    <2> SUFFICES ASSUME NEW j \in Part
                 PROVE  \E u \in Kept : u = PartTx(u.n, j, t.nonce, t.names)
        BY DEF PartsIn
    <2>1. PICK u \in found : u.kind = "manifest" /\ u.idx = j /\ u.nonce = t.nonce
        BY DEF CompleteManifest
    <2> DEFINE su == [nonce |-> u.nonce, names |-> u.names]
               tt == [nonce |-> t.nonce, names |-> t.names]
    <2>2. su \in sealed /\ tt \in sealed
        BY <1>2, <1>3, <2>1
    <2>3. su.nonce = tt.nonce => su.names = tt.names
        BY <2>2 DEF Consistent, NetSafe, NonceUnique
    <2>4. u.names = t.names
        BY <2>1, <2>3
    <2>5. u = PartTx(u.n, j, t.nonce, t.names)
        BY <1>2, <2>1, <2>4
    <2> QED
        BY <1>1, <2>5 DEF Kept
<1>5. ChunksIn(Kept, t.names)
    <2>1. ChunksIn(chain, t.names) /\ ChunksIn(dump, t.names)
        BY <1>1, <1>3 DEF Consistent, NetSafe, NamesIn
    <2> QED
        BY <2>1 DEF ChunksIn, Kept
<1> QED
    BY <1>3, <1>4, <1>5, CompleteRestorable

\* When the transmission a run waits for lands, the DID entry is what its
\* anchor says: no other transmission in flight could land in its place.
LEMMA RunLand ==
    ASSUME TypeOK, Consistent, NetworkLand
    PROVE  RunSafe'
<1>1. PICK txs \in flight :
        /\ Land(txs)
        /\ \/ \E t \in txs : t.kind = "anchor" /\ did' = t.ref
           \/ (\E t \in txs : t.kind = "delete") /\ did' = 0
           \/ (\A t \in txs : t.kind \notin {"anchor", "delete"}) /\ did' = did
    BY DEF NetworkLand
<1>2. /\ chain' = chain \cup txs /\ flight' = {}
      /\ UNCHANGED <<cur, att, dump, dumpDID, count, seals, sealed, faults>>
      /\ UNCHANGED <<pc, i, found, names, nonce, mhash>>
    BY <1>1 DEF Land, NetworkLand, sealVars, runVars
<1>3. CurSafe'
    BY <1>2, CurKept DEF Consistent, RunSafe
<1>4. LandedSafe'
    <2> SUFFICES ASSUME cur # {}, cur \subseteq chain \cup txs, NEW a \in cur, a.kind = "anchor"
                 PROVE  did' = a.ref
        BY <1>2 DEF LandedSafe
    <2>1. ~(cur \subseteq chain)
        BY <1>1 DEF Consistent, RunSafe, LandedSafe
    <2>2. PICK t \in cur : t \in txs
        BY <2>1
    <2>3. PICK r : \A u \in cur : /\ u.n = count
                                  /\ u.kind \in {"chunk", "manifest", "anchor"}
                                  /\ u.kind = "anchor" => u.ref = r
        BY CurShape DEF Consistent, RunSafe
    <2>4. txs = cur
        BY <1>1, <2>2, <2>3 DEF Consistent, RunSafe, CurSafe
    <2> QED
        BY <1>1, <2>3, <2>4
<1>5. StageSafe'
    <2>1. Kept \subseteq Kept'
        BY <1>2 DEF Kept
    <2> QED
        BY <2>1, <1>2, StageKept DEF Consistent, RunSafe
<1>6. DIDSettled'
    BY <1>1, <1>2 DEF Consistent, RunSafe, DIDSettled
<1> QED
    BY <1>3, <1>4, <1>5, <1>6 DEF RunSafe

-----------------------------------------------------------------------------
(* Consistent is inductive, action by action.                              *)

\* A step that leaves ledger, flight, dump transactions and seals alone.
LEMMA NetKept ==
    ASSUME NetSafe, UNCHANGED <<chain, flight, dump, did, count, seals, sealed>>
    PROVE  NetSafe'
<1>1. \A g \in flight' : GroupSafe(g)'
    BY DEF NetSafe, GroupSafe
<1> QED
    BY <1>1 DEF NetSafe, NonceUnique, NamesIn, LastIn, AnchorSound

\* Outside the four stages that send there is nothing to wait for.
LEMMA NothingSent ==
    ASSUME CurSafe, pc \notin {"whole", "chunks", "tail", "anchor"}
    PROVE  cur = {}
BY DEF CurSafe

\* The resume scan counts what is recorded and on the ledger.
LEMMA StartSafe ==
    ASSUME TypeOK, Consistent, Start
    PROVE  Consistent'
<1>1. NetSafe'
    BY NetKept DEF Consistent, Start, deliveryVars, sealVars
<1>2. cur = {}
    BY NothingSent DEF Consistent, RunSafe, Start
<1>3. /\ pc' = "chunk" /\ i' = 0 /\ found' \subseteq chain \cap dump
      /\ UNCHANGED <<chain, dump, cur>>
    BY DEF Start, deliveryVars
<1>4. StageSafe'
    BY <1>3, PlanAssumption DEF StageSafe, Kept, Chunk
<1> QED
    BY <1>1, <1>2, <1>3, <1>4 DEF Consistent, RunSafe, CurSafe, LandedSafe, DIDSettled

\* A recorded chunk is on the ledger under the name the manifest will use.
LEMMA NoteRecordedSafe ==
    ASSUME TypeOK, Consistent, NoteRecorded
    PROVE  Consistent'
<1>1. NetSafe'
    BY NetKept DEF Consistent, NoteRecorded, deliveryVars, sealVars
<1>2. /\ pc = "chunk" /\ i < NChunks /\ i' = i + 1
      /\ UNCHANGED <<chain, dump, cur, flight, did, dumpDID, pc, found>>
    BY DEF NoteRecorded, deliveryVars
<1>3. cur = {}
    BY <1>2, NothingSent DEF Consistent, RunSafe
<1>4. Pending' = Pending
    BY <1>2 DEF Pending, Recorded
<1>5. ASSUME NEW c \in Chunk \ Pending, c < i + 1
      PROVE  ChunkTx(names'[c], c) \in Kept
    <2>1. CASE c = i
        <3>1. PICK t \in Recorded(i) : names' = [names EXCEPT ![i] = t.n]
            BY <1>5, <2>1 DEF NoteRecorded, Pending
        <3>2. t \in Kept /\ t.kind = "chunk" /\ t.idx = i
            BY DEF Recorded, Consistent, RunSafe, StageSafe
        <3>3. t = ChunkTx(t.n, i)
            <4>1. Genuine(t, count, sealed)
                BY <3>2 DEF Consistent, NetSafe, Kept
            <4> QED
                BY <3>2, <4>1 DEF Genuine, ChunkTx, PartTx, AnchorTx
        <3> QED
            BY <2>1, <3>1, <3>2, <3>3 DEF TypeOK
    <2>2. CASE c # i
        <3>1. c < i
            BY <1>5, <2>2, PlanAssumption DEF TypeOK, Chunk
        <3>2. names'[c] = names[c]
            BY <2>2 DEF TypeOK, NoteRecorded
        <3> QED
            BY <1>2, <3>1, <3>2 DEF Consistent, RunSafe, StageSafe
    <2> QED
        BY <2>1, <2>2
<1>6. i + 1 <= NChunks
    BY <1>2, PlanAssumption DEF TypeOK
<1>7. StageSafe'
    BY <1>2, <1>4, <1>5, <1>6 DEF StageSafe, Kept, Consistent, RunSafe
<1> QED
    BY <1>1, <1>2, <1>3, <1>7 DEF Consistent, RunSafe, CurSafe, LandedSafe, DIDSettled

\* A complete manifest the scan confirmed has its chunks confirmed too.
LEMMA ReuseManifestSafe ==
    ASSUME TypeOK, Consistent, ReuseManifest
    PROVE  Consistent'
<1>1. NetSafe'
    BY NetKept DEF Consistent, ReuseManifest, deliveryVars, sealVars
<1>2. PICK t \in found : CompleteManifest(t) /\ mhash' = t.n
    BY DEF ReuseManifest
<1>3. Restorable(Kept, mhash')
    BY <1>2, ReuseRestorable
<1>4. pc = "chunk" /\ pc' = "anchor" /\ UNCHANGED <<chain, dump, cur, found>>
    BY DEF ReuseManifest, deliveryVars
<1>5. cur = {}
    BY <1>4, NothingSent DEF Consistent, RunSafe
<1>6. StageSafe'
    <2>1. Restorable(Kept', mhash')
        BY <1>3, <1>4 DEF Kept
    <2>2. found' \subseteq Kept'
        BY <1>4 DEF Kept, Consistent, RunSafe, StageSafe
    <2> QED
        BY <1>4, <2>1, <2>2 DEF StageSafe
<1> QED
    BY <1>1, <1>4, <1>5, <1>6 DEF Consistent, RunSafe, CurSafe, LandedSafe, DIDSettled

\* The run that refuses to guess leaves everything as it was.
LEMMA RefuseToGuessSafe ==
    ASSUME TypeOK, Consistent, RefuseToGuess
    PROVE  Consistent'
<1>1. NetSafe'
    BY NetKept DEF Consistent, RefuseToGuess, deliveryVars, sealVars
<1>2. cur' = {} /\ EndRun
    BY NothingSent DEF Consistent, RunSafe, RefuseToGuess, deliveryVars
<1> QED
    BY <1>1, <1>2, RunEnds DEF Consistent

\* Every chunk that is not pending has its name before the layout is chosen.
LEMMA ChooseLayoutSafe ==
    ASSUME TypeOK, Consistent, ChooseLayout
    PROVE  Consistent'
<1>1. NetSafe'
    BY NetKept DEF Consistent, ChooseLayout, deliveryVars, sealVars
<1>2. /\ pc = "chunk" /\ i = NChunks /\ pc' \in {"whole", "chunks", "seal"}
      /\ pc' = "seal" => Pending = {}
      /\ UNCHANGED <<chain, dump, cur, found, names>>
    BY DEF ChooseLayout, deliveryVars
<1>3. cur = {}
    BY <1>2, NothingSent DEF Consistent, RunSafe
<1>4. Pending' = Pending /\ Kept' = Kept
    BY <1>2 DEF Pending, Recorded, Kept
<1>5. \A c \in Chunk \ Pending : ChunkTx(names[c], c) \in Kept
    <2>1. \A c \in Chunk : c < i
        BY <1>2, PlanAssumption DEF Chunk
    <2> QED
        BY <1>2, <2>1 DEF Consistent, RunSafe, StageSafe
<1>6. pc' = "seal" => ChunksIn(Kept, names)
    BY <1>2, <1>5 DEF ChunksIn
<1>7. StageSafe'
    BY <1>2, <1>4, <1>5, <1>6 DEF StageSafe, Consistent, RunSafe
<1> QED
    BY <1>1, <1>2, <1>3, <1>7 DEF Consistent, RunSafe, CurSafe, LandedSafe, DIDSettled

\* An attempt at the Batch with everything names its own chunks, under a
\* nonce drawn for this attempt.
LEMMA SendWholeSafe ==
    ASSUME TypeOK, Consistent, SendWhole
    PROVE  Consistent'
<1>0. count \in Nat /\ names \in [Chunk -> Nat]
    BY DEF TypeOK
<1>1. /\ pc = "whole" /\ UNCHANGED <<did, dumpDID, pc, i, found, mhash>>
      /\ names' = [c \in Chunk |-> IF c \in Pending THEN count + 1 ELSE names[c]]
    BY DEF SendWhole
<1>2. PICK nm \in [Chunk -> Nat] : nm = names'
    BY <1>0, <1>1, NamesType
<1>3. Seal(nm)
    BY <1>2 DEF SendWhole
<1>4. PICK z \in Nat : z = nonce'
    BY <1>3, SealType
<1>5. sealed' = sealed \cup {[nonce |-> z, names |-> nm]}
    BY <1>3, <1>4, SealType
<1>6. PICK g : g = WholeGroup(count + 1, z, nm)
    OBVIOUS
<1>7. Attempt(g)
    BY <1>2, <1>4, <1>6 DEF SendWhole, WholeGroup
<1>8. /\ \A c \in Pending : nm[c] = count + 1
      /\ \A c \in Chunk \ Pending : nm[c] = names[c]
    BY <1>1, <1>2 DEF Pending
<1>9. \A c \in Chunk \ Pending : ChunkTx(nm[c], c) \in Kept
    BY <1>1, <1>8 DEF Consistent, RunSafe, StageSafe
<1>10. \A c \in Chunk \ Pending : ChunkTx(nm[c], c) \in chain
    BY <1>9 DEF Kept
<1>11. /\ NamesIn(g, chain \cup g) /\ AnchorsIn(g, chain \cup g) /\ LastIn(g, chain \cup g)
       /\ \A t \in g : t.n = count + 1
    <2>1. PICK k : k = count + 1
        OBVIOUS
    <2>2. g = WholeGroup(k, z, nm) /\ \A c \in Pending : nm[c] = k
        BY <1>6, <1>8, <2>1
    <2>3. NamesIn(g, chain \cup g) /\ AnchorsIn(g, chain \cup g) /\ LastIn(g, chain \cup g)
        BY <1>10, <2>2, WholeIsSafe
    <2>4. \A t \in g : t.n = k
        BY <2>2 DEF WholeGroup, ChunkTx, PartTx, AnchorTx
    <2> QED
        BY <2>1, <2>3, <2>4
<1>12. /\ LandedSafe' /\ DIDSettled'
       /\ cur' = g /\ flight' = flight \cup {g} /\ count' = count + 1
       /\ UNCHANGED <<chain, dump>>
       /\ \A h \in flight' : \A t \in h : t.n = count' => h = cur'
    BY <1>1, <1>7, <1>11, RunAttempt
<1>13. \A t \in g : Genuine(t, count + 1, sealed')
    <2>1. \A t \in g : \/ \E c \in Pending : t = ChunkTx(count + 1, c)
                       \/ \E j \in Part : t = PartTx(count + 1, j, z, nm)
                       \/ t = AnchorTx(count + 1, count + 1)
        BY <1>6 DEF WholeGroup
    <2> QED
        BY <1>0, <1>5, <2>1 DEF Genuine, ChunkTx, PartTx, AnchorTx
<1>14. GroupSafe(g)'
    BY <1>11, <1>12, <1>13 DEF GroupSafe
<1>15. NetSafe'
    <2>1. SealStep
        BY <1>3 DEF SealStep
    <2>2. \A h \in flight' : h \in flight \/ GroupSafe(h)'
        BY <1>12, <1>14
    <2> QED
        BY <1>1, <1>12, <2>1, <2>2, NetGrows DEF Consistent
<1>16. Pending' = Pending /\ Kept' = Kept
    BY <1>1, <1>12 DEF Pending, Recorded, Kept
<1>17. CurSafe'
    <2>1. cur' = WholeGroup(count, nonce, names)'
        BY <1>2, <1>4, <1>6, <1>12, <1>16 DEF WholeGroup
    <2>2. [nonce |-> nonce', names |-> names'] \in sealed'
        BY <1>2, <1>4, <1>5
    <2>3. \A c \in Pending' : names'[c] = count'
        BY <1>2, <1>8, <1>12, <1>16
    <2> QED
        BY <1>1, <1>12, <2>1, <2>2, <2>3 DEF CurSafe
<1>18. StageSafe'
    <2>1. \A c \in Chunk \ Pending' : ChunkTx(names'[c], c) \in Kept'
        BY <1>2, <1>9, <1>16
    <2>2. found' \subseteq Kept'
        BY <1>1, <1>16 DEF Consistent, RunSafe, StageSafe
    <2> QED
        BY <1>1, <2>1, <2>2 DEF StageSafe
<1> QED
    BY <1>12, <1>15, <1>17, <1>18 DEF Consistent, RunSafe

\* Once it has validated, the backup is whole on the ledger and in the dump,
\* and the DID entry names it.
LEMMA WholeConfirmedSafe ==
    ASSUME TypeOK, Consistent, WholeConfirmed
    PROVE  Consistent'
<1>1. /\ pc = "whole" /\ Confirm /\ mhash' = count /\ pc' = "saveDID"
      /\ UNCHANGED <<did, dumpDID, count, seals, sealed, found>>
    BY DEF WholeConfirmed, sealVars
<1>2. /\ Kept' = Kept \cup cur /\ cur' = {} /\ UNCHANGED <<flight, chain>>
      /\ dump' = dump \cup cur /\ cur # {} /\ cur \subseteq chain
    BY <1>1, KeptConfirm
<1>3. cur = WholeGroup(count, nonce, names) /\ \A c \in Pending : names[c] = count
    BY <1>1, <1>2 DEF Consistent, RunSafe, CurSafe
<1>4. \A c \in Chunk \ Pending : ChunkTx(names[c], c) \in Kept
    BY <1>1 DEF Consistent, RunSafe, StageSafe
<1>5. \A c \in Chunk \ Pending : ChunkTx(names[c], c) \in dump
    BY <1>4 DEF Kept
<1>6. NamesIn(cur, dump \cup cur)
    BY <1>3, <1>5, WholeIsSafe
<1>7. Restorable(Kept \cup cur, count) /\ AnchorTx(count, count) \in cur
    BY <1>3, <1>4, WholeIsSafe
<1>8. NetSafe'
    BY <1>1, <1>6, NetConfirm DEF Consistent
<1>9. did = count /\ flight = {}
    BY <1>2, <1>7 DEF Consistent, RunSafe, LandedSafe, AnchorTx
<1>10. StageSafe'
    <2>1. found' \subseteq Kept' /\ Restorable(Kept', mhash')
        BY <1>1, <1>2, <1>7 DEF Consistent, RunSafe, StageSafe
    <2> QED
        BY <1>1, <2>1 DEF StageSafe
<1>11. DIDSettled'
    BY <1>1, <1>2, <1>9 DEF DIDSettled
<1> QED
    BY <1>1, <1>2, <1>8, <1>10, <1>11 DEF Consistent, RunSafe, CurSafe, LandedSafe

\* An attempt at the pending chunks needs nothing on the ledger.
LEMMA SendChunksSafe ==
    ASSUME TypeOK, Consistent, SendChunks
    PROVE  Consistent'
<1>0. PICK g : g = {ChunkTx(count + 1, c) : c \in Pending}
    OBVIOUS
<1>11. count \in Nat
    BY DEF TypeOK
<1>1. /\ pc = "chunks" /\ Attempt(g)
      /\ UNCHANGED <<did, dumpDID, seals, sealed, pc, i, found, names, nonce, mhash>>
    BY <1>0 DEF SendChunks, sealVars, runVars
<1>2. \A t \in g : t.n = count + 1 /\ t.kind = "chunk" /\ t = ChunkTx(t.n, t.idx)
    BY <1>0 DEF ChunkTx
<1>3. Pending' = Pending
    BY <1>1 DEF Pending, Recorded
<1>4. /\ LandedSafe' /\ DIDSettled'
      /\ cur' = g /\ flight' = flight \cup {g} /\ count' = count + 1
      /\ UNCHANGED <<chain, dump>>
      /\ \A h \in flight' : \A t \in h : t.n = count' => h = cur'
    BY <1>1, <1>2, RunAttempt
<1>5. \A t \in g : Genuine(t, count + 1, sealed)
    BY <1>2, <1>11 DEF Genuine
<1>6. NamesIn(g, chain \cup g) /\ AnchorsIn(g, chain \cup g) /\ LastIn(g, chain \cup g)
    BY <1>2 DEF NamesIn, AnchorsIn, LastIn
<1>7. GroupSafe(g)'
    BY <1>1, <1>4, <1>5, <1>6 DEF GroupSafe
<1>8. NetSafe'
    <2>1. SealStep
        BY <1>1 DEF SealStep
    <2>2. \A h \in flight' : h \in flight \/ GroupSafe(h)'
        BY <1>4, <1>7
    <2> QED
        BY <1>1, <1>4, <2>1, <2>2, NetGrows DEF Consistent
<1>9. CurSafe'
    <2>1. cur' = {ChunkTx(count', c) : c \in Pending'}
        BY <1>0, <1>3, <1>4
    <2> QED
        BY <1>1, <1>4, <2>1 DEF CurSafe
<1>10. StageSafe'
    <2>1. Kept' = Kept
        BY <1>4 DEF Kept
    <2> QED
        BY <1>1, <2>1, StageKept DEF Consistent, RunSafe
<1> QED
    BY <1>4, <1>8, <1>9, <1>10 DEF Consistent, RunSafe

\* Once they have validated every chunk has a name and is recorded under it.
LEMMA ChunksConfirmedSafe ==
    ASSUME TypeOK, Consistent, ChunksConfirmed
    PROVE  Consistent'
<1>1. /\ pc = "chunks" /\ Confirm /\ pc' = "seal"
      /\ names' = [c \in Chunk |-> IF c \in Pending THEN count ELSE names[c]]
      /\ UNCHANGED <<did, dumpDID, count, seals, sealed, found>>
    BY DEF ChunksConfirmed, sealVars
<1>2. /\ Kept' = Kept \cup cur /\ cur' = {} /\ cur # {}
    BY <1>1, KeptConfirm
<1>3. cur = {ChunkTx(count, c) : c \in Pending}
    BY <1>1, <1>2 DEF Consistent, RunSafe, CurSafe
<1>4. NamesIn(cur, dump \cup cur)
    BY <1>3 DEF NamesIn, ChunkTx
<1>5. NetSafe'
    BY <1>1, <1>4, NetConfirm DEF Consistent
<1>6. \A c \in Chunk \ Pending : ChunkTx(names[c], c) \in Kept
    BY <1>1 DEF Consistent, RunSafe, StageSafe
<1>7. ChunksIn(Kept', names')
    BY <1>1, <1>2, <1>3, <1>6 DEF ChunksIn
<1>8. StageSafe'
    <2>1. found' \subseteq Kept'
        BY <1>1, <1>2 DEF Consistent, RunSafe, StageSafe
    <2> QED
        BY <1>1, <1>7, <2>1 DEF StageSafe
<1> QED
    BY <1>1, <1>2, <1>5, <1>8 DEF Consistent, RunSafe, CurSafe, LandedSafe, DIDSettled

\* The manifest is sealed once, with the names of chunks that are recorded.
LEMMA SealTailSafe ==
    ASSUME TypeOK, Consistent, SealTail
    PROVE  Consistent'
<1>1. /\ pc = "seal" /\ Seal(names) /\ pc' = "tail" /\ i' = 1
      /\ UNCHANGED <<chain, flight, dump, cur, did, dumpDID, count, found, names, mhash>>
    BY DEF SealTail, deliveryVars
<1>2. NetSafe'
    <2>1. SealStep
        BY <1>1 DEF SealStep, TypeOK
    <2> QED
        BY <1>1, <2>1, NetGrows DEF Consistent
<1>3. cur = {}
    BY <1>1, NothingSent DEF Consistent, RunSafe
<1>4. ChunksIn(Kept', names') /\ found' \subseteq Kept'
    BY <1>1 DEF Consistent, RunSafe, StageSafe, ChunksIn, Kept
<1>5. [nonce |-> nonce', names |-> names'] \in sealed'
    BY <1>1 DEF Seal
<1>6. i' \in 1..Groups(Items) /\ First(Items, i') = 0 /\ ~(i' > 1)
    <2>1. Items \in Nat /\ Items >= 2
        BY PlanAssumption DEF Items
    <2> QED
        BY <1>1, <2>1, LayoutIs
<1>7. PartsBefore(Kept', First(Items, i'), nonce', names')
    BY <1>6, PartsAreNat DEF PartsBefore
<1>8. StageSafe'
    BY <1>1, <1>4, <1>5, <1>6, <1>7 DEF StageSafe
<1> QED
    BY <1>1, <1>2, <1>3, <1>8 DEF Consistent, RunSafe, CurSafe, LandedSafe, DIDSettled

\* An attempt at a group of the tail: the parts before it have landed.
LEMMA SendTailSafe ==
    ASSUME TypeOK, Consistent, SendTail
    PROVE  Consistent'
<1>0. count \in Nat
    BY DEF TypeOK
<1>1. PICK k : k = count + 1
    OBVIOUS
<1>2. PICK g : g = TailGroup(k)
    OBVIOUS
<1>3. /\ pc = "tail" /\ Attempt(g)
      /\ UNCHANGED <<did, dumpDID, seals, sealed, pc, i, found, names, nonce, mhash>>
    BY <1>1, <1>2 DEF SendTail, TailGroup, sealVars, runVars
<1>4. StageSafe /\ Kept \subseteq chain
    BY DEF Consistent, RunSafe, Kept
<1>5. NamesIn(g, chain \cup g) /\ AnchorsIn(g, chain \cup g) /\ LastIn(g, chain \cup g)
    BY <1>2, <1>3, <1>4, TailIsSafe
<1>6. PICK r : r = IF i = 1 THEN k ELSE mhash
    OBVIOUS
<1>7. \A t \in g : \/ \E j \in GroupParts : t = PartTx(k, j, nonce, names)
                   \/ t = AnchorTx(k, r)
    BY <1>2, <1>6 DEF TailGroup
<1>8. \A t \in g : t.n = count + 1
    BY <1>1, <1>7 DEF PartTx, AnchorTx
<1>9. /\ LandedSafe' /\ DIDSettled'
      /\ cur' = g /\ flight' = flight \cup {g} /\ count' = count + 1
      /\ UNCHANGED <<chain, dump>>
      /\ \A h \in flight' : \A t \in h : t.n = count' => h = cur'
    BY <1>3, <1>8, RunAttempt
<1>10. [nonce |-> nonce, names |-> names] \in sealed
    BY <1>3, <1>4 DEF StageSafe
<1>11. \A t \in g : Genuine(t, count + 1, sealed)
    BY <1>0, <1>1, <1>7, <1>10 DEF Genuine, PartTx, AnchorTx
<1>12. GroupSafe(g)'
    BY <1>3, <1>5, <1>9, <1>11 DEF GroupSafe
<1>13. NetSafe'
    <2>1. SealStep
        BY <1>3 DEF SealStep
    <2>2. \A h \in flight' : h \in flight \/ GroupSafe(h)'
        BY <1>9, <1>12
    <2> QED
        BY <1>3, <1>9, <2>1, <2>2, NetGrows DEF Consistent
<1>14. CurSafe'
    <2>1. TailGroup(count)' = g
        BY <1>1, <1>2, <1>3, <1>9 DEF TailGroup, GroupParts, LastGroup
    <2> QED
        BY <1>3, <1>9, <2>1 DEF CurSafe
<1>15. StageSafe'
    <2>1. Kept' = Kept
        BY <1>9 DEF Kept
    <2> QED
        BY <1>3, <1>4, <2>1, StageKept
<1> QED
    BY <1>9, <1>13, <1>14, <1>15 DEF Consistent, RunSafe

\* A validated group is recorded; with the last one the backup is whole and
\* the DID entry names it.
LEMMA TailConfirmedSafe ==
    ASSUME TypeOK, Consistent, TailConfirmed
    PROVE  Consistent'
<1>1. /\ pc = "tail" /\ Confirm /\ i' = i + 1
      /\ mhash' = (IF i = 1 THEN count ELSE mhash)
      /\ pc' = (IF LastGroup THEN "saveDID" ELSE "tail")
      /\ UNCHANGED <<did, dumpDID, count, seals, sealed, found, names, nonce>>
    BY DEF TailConfirmed, sealVars
<1>2. /\ Kept' = Kept \cup cur /\ cur' = {} /\ UNCHANGED <<flight, chain>>
      /\ dump' = dump \cup cur /\ cur # {} /\ cur \subseteq chain
    BY <1>1, KeptConfirm
<1>3. cur = TailGroup(count)
    BY <1>1, <1>2 DEF Consistent, RunSafe, CurSafe
<1>4. StageSafe /\ Kept \subseteq dump
    BY DEF Consistent, RunSafe, Kept
<1>5. NamesIn(cur, dump \cup cur)
    BY <1>1, <1>3, <1>4, TailIsSafe
<1>6. NetSafe'
    BY <1>1, <1>5, NetConfirm DEF Consistent
<1>7. /\ PartsBefore(Kept \cup cur, First(Items, i + 1), nonce, names)
      /\ PartTx(mhash', 0, nonce, names) \in Kept \cup cur
      /\ LastGroup => Restorable(Kept \cup cur, mhash') /\ AnchorTx(count, mhash') \in cur
    <2>1. PICK r : r = IF i = 1 THEN count ELSE mhash
        OBVIOUS
    <2>2. PartsBefore(Kept \cup cur, First(Items, i + 1), nonce, names)
        BY <1>1, <1>3, <1>4, TailIsSafe
    <2>3. PartTx(r, 0, nonce, names) \in Kept \cup cur
        BY <1>1, <1>3, <1>4, <2>1, TailIsSafe
    <2>4. LastGroup => Restorable(Kept \cup cur, r)
        BY <1>1, <1>3, <1>4, <2>1, TailIsSafe
    <2>5. LastGroup => AnchorTx(count, r) \in cur
        BY <1>3, <2>1 DEF TailGroup
    <2>6. mhash' = r
        BY <1>1, <2>1
    <2> QED
        BY <2>2, <2>3, <2>4, <2>5, <2>6
<1>8. /\ i \in 1..Groups(Items) /\ [nonce |-> nonce, names |-> names] \in sealed
      /\ found \subseteq Kept /\ ChunksIn(Kept, names)
    BY <1>1, <1>4 DEF StageSafe
<1>9. CASE LastGroup
    <2>1. did = mhash' /\ flight = {}
        BY <1>2, <1>7, <1>9 DEF Consistent, RunSafe, LandedSafe, AnchorTx
    <2>2. StageSafe'
        BY <1>1, <1>2, <1>7, <1>8, <1>9 DEF StageSafe
    <2>3. DIDSettled'
        BY <1>1, <1>2, <1>9, <2>1 DEF DIDSettled
    <2> QED
        BY <1>1, <1>2, <1>6, <2>2, <2>3 DEF Consistent, RunSafe, CurSafe, LandedSafe
<1>10. CASE ~LastGroup
    <2>1. i + 1 \in 1..Groups(Items)
        <3>1. Groups(Items) \in Nat
            BY PlanAssumption, LayoutIs DEF Items
        <3> QED
            BY <1>8, <1>10, <3>1 DEF LastGroup
    <2>2. ChunksIn(Kept', names) /\ pc' = "tail"
        BY <1>1, <1>2, <1>8, <1>10, ChunksInGrows
    <2>3. StageSafe'
        BY <1>1, <1>2, <1>7, <1>8, <2>1, <2>2 DEF StageSafe
    <2> QED
        BY <1>2, <1>6, <2>2, <2>3 DEF Consistent, RunSafe, CurSafe, LandedSafe, DIDSettled
<1> QED
    BY <1>9, <1>10

\* An attempt at the anchor of a resumed run names a manifest that is whole.
LEMMA SendAnchorSafe ==
    ASSUME TypeOK, Consistent, SendAnchor
    PROVE  Consistent'
<1>0. count \in Nat
    BY DEF TypeOK
<1>1. PICK g : g = {AnchorTx(count + 1, mhash)}
    OBVIOUS
<1>2. /\ pc = "anchor" /\ Attempt(g)
      /\ UNCHANGED <<did, dumpDID, seals, sealed, pc, i, found, names, nonce, mhash>>
    BY <1>1 DEF SendAnchor, sealVars, runVars
<1>3. \A t \in g : t.n = count + 1 /\ t.kind = "anchor" /\ t.ref = mhash /\ t = AnchorTx(t.n, t.ref)
    BY <1>1 DEF AnchorTx
<1>4. /\ LandedSafe' /\ DIDSettled'
      /\ cur' = g /\ flight' = flight \cup {g} /\ count' = count + 1
      /\ UNCHANGED <<chain, dump>>
      /\ \A h \in flight' : \A t \in h : t.n = count' => h = cur'
    BY <1>2, <1>3, RunAttempt
<1>5. Restorable(chain \cup g, mhash)
    <2>1. Restorable(Kept, mhash) /\ Kept \subseteq chain \cup g
        BY <1>2 DEF Consistent, RunSafe, StageSafe, Kept
    <2> QED
        BY <2>1, RestorableGrows
<1>6. NamesIn(g, chain \cup g) /\ AnchorsIn(g, chain \cup g) /\ LastIn(g, chain \cup g)
    BY <1>3, <1>5 DEF NamesIn, AnchorsIn, LastIn
<1>7. \A t \in g : Genuine(t, count + 1, sealed)
    BY <1>0, <1>3 DEF Genuine
<1>8. GroupSafe(g)'
    BY <1>2, <1>4, <1>6, <1>7 DEF GroupSafe
<1>9. NetSafe'
    <2>1. SealStep
        BY <1>2 DEF SealStep
    <2>2. \A h \in flight' : h \in flight \/ GroupSafe(h)'
        BY <1>4, <1>8
    <2> QED
        BY <1>2, <1>4, <2>1, <2>2, NetGrows DEF Consistent
<1>10. CurSafe'
    BY <1>1, <1>2, <1>4 DEF CurSafe
<1>11. StageSafe'
    <2>1. Kept' = Kept
        BY <1>4 DEF Kept
    <2> QED
        BY <1>2, <2>1, StageKept DEF Consistent, RunSafe
<1> QED
    BY <1>4, <1>9, <1>10, <1>11 DEF Consistent, RunSafe

\* A validated anchor leaves nothing in flight.
LEMMA AnchorConfirmedSafe ==
    ASSUME TypeOK, Consistent, AnchorConfirmed
    PROVE  Consistent'
<1>1. /\ pc = "anchor" /\ Confirm /\ pc' = "saveAnchor"
      /\ UNCHANGED <<did, dumpDID, count, seals, sealed, i, found, names, nonce, mhash>>
    BY DEF AnchorConfirmed, sealVars
<1>2. /\ Kept' = Kept \cup cur /\ cur' = {} /\ UNCHANGED <<flight, chain>>
      /\ dump' = dump \cup cur /\ cur # {} /\ cur \subseteq chain
    BY <1>1, KeptConfirm
<1>3. cur = {AnchorTx(count, mhash)}
    BY <1>1, <1>2 DEF Consistent, RunSafe, CurSafe
<1>4. NamesIn(cur, dump \cup cur)
    BY <1>3 DEF NamesIn, AnchorTx
<1>5. NetSafe'
    BY <1>1, <1>4, NetConfirm DEF Consistent
<1>6. did = mhash /\ flight = {}
    BY <1>2, <1>3 DEF Consistent, RunSafe, LandedSafe, AnchorTx
<1>7. StageSafe'
    <2>1. Restorable(Kept', mhash)
        BY <1>1, <1>2, RestorableGrows DEF Consistent, RunSafe, StageSafe
    <2> QED
        BY <1>1, <1>2, <2>1 DEF Consistent, RunSafe, StageSafe
<1> QED
    BY <1>1, <1>2, <1>5, <1>6, <1>7 DEF Consistent, RunSafe, CurSafe, LandedSafe, DIDSettled

\* Both final saves record the DID entry that is on the ledger.
LEMMA SaveSafe ==
    ASSUME TypeOK, Consistent, SaveAnchor \/ FinishBatched
    PROVE  Consistent'
<1>1. NetSafe'
    BY NetKept DEF Consistent, SaveAnchor, FinishBatched, deliveryVars, sealVars
<1>2. /\ pc \in {"saveAnchor", "saveDID"} /\ dumpDID' \in {mhash, did} /\ pc' = "done"
      /\ UNCHANGED <<chain, flight, cur, dump, did, count, found, mhash>>
    BY DEF SaveAnchor, FinishBatched, deliveryVars
<1>3. did = mhash /\ flight = {} /\ cur = {}
    BY <1>2 DEF Consistent, RunSafe, DIDSettled
<1>4. StageSafe'
    BY <1>2 DEF Consistent, RunSafe, StageSafe, Kept
<1>5. DIDSettled'
    BY <1>2, <1>3 DEF DIDSettled
<1> QED
    BY <1>1, <1>2, <1>3, <1>4, <1>5 DEF Consistent, RunSafe, CurSafe, LandedSafe

\* A run may stop anywhere, a look-up that fails included.
LEMMA StopSafe ==
    ASSUME TypeOK, Consistent, Stop \/ InnerLookupFails
    PROVE  Consistent'
<1>1. CASE Abort \/ Exhausted \/ InnerLookupFails
    <2>1. NetSafe'
        BY <1>1, NetKept DEF Consistent, Abort, Exhausted, InnerLookupFails, GiveUp, sealVars
    <2>2. RunSafe'
        BY <1>1, RunEnds DEF Abort, Exhausted, InnerLookupFails, GiveUp
    <2> QED
        BY <2>1, <2>2 DEF Consistent
<1>2. CASE TornSave
    <2>1. dump' = {} /\ UNCHANGED <<chain, flight, did, count, seals, sealed>> /\ EndRun
        BY <1>2 DEF TornSave, Tear, sealVars
    <2>2. NetSafe'
        BY <2>1, NetTear DEF Consistent
    <2>3. cur' = {}
        BY <1>2, NothingSent DEF TornSave, Tear, Consistent, RunSafe
    <2> QED
        BY <2>1, <2>2, <2>3, RunEnds DEF Consistent
<1> QED
    BY <1>1, <1>2 DEF Stop

\* So may the network do as it likes.
LEMMA EnvironmentSafe ==
    ASSUME TypeOK, Consistent, Environment
    PROVE  Consistent'
<1>1. CASE NetworkLand
    BY <1>1, NetLand, RunLand DEF Consistent
<1>2. CASE NetworkVoid
    <2>1. NetSafe'
        BY <1>2, NetVoid DEF Consistent
    <2>2. /\ flight' = {}
          /\ UNCHANGED <<chain, cur, dump, did, dumpDID, count, sealed>>
          /\ UNCHANGED <<pc, i, found, names, nonce, mhash>>
        BY <1>2 DEF NetworkVoid, Void, sealVars, runVars
    <2>3. StageSafe'
        BY <2>2, StageKept DEF Consistent, RunSafe, Kept
    <2>4. CurSafe'
        BY <2>2, CurKept DEF Consistent, RunSafe
    <2>5. LandedSafe' /\ DIDSettled'
        BY <2>2 DEF Consistent, RunSafe, LandedSafe, DIDSettled
    <2> QED
        BY <2>1, <2>3, <2>4, <2>5 DEF Consistent, RunSafe
<1>3. CASE SwitchNetwork
    <2>1. NetSafe'
        BY <1>3, NetSwitch DEF Consistent
    <2>2. pc = "idle" /\ UNCHANGED <<cur, pc, i, found, names, nonce, mhash>>
        BY <1>3 DEF SwitchNetwork, runVars
    <2>3. cur = {} /\ found = {}
        BY <2>2, NothingSent DEF Consistent, RunSafe, StageSafe
    <2> QED
        BY <2>1, <2>2, <2>3 DEF Consistent, RunSafe, CurSafe, LandedSafe, StageSafe, DIDSettled
<1> QED
    BY <1>1, <1>2, <1>3 DEF Environment

\* Before the first run nothing is written and nothing is in flight.
LEMMA InitSafe == Init => Consistent
<1> SUFFICES ASSUME Init
             PROVE  Consistent
    OBVIOUS
<1>1. /\ chain = {} /\ flight = {} /\ cur = {} /\ dump = {} /\ did = 0
      /\ sealed = {} /\ pc = "idle" /\ found = {}
    BY DEF Init, SubmitInit, DeliveryInit
<1>2. NetSafe
    BY <1>1 DEF NetSafe, NonceUnique, NamesIn, LastIn, AnchorSound
<1>3. RunSafe
    BY <1>1 DEF RunSafe, CurSafe, LandedSafe, StageSafe, DIDSettled
<1> QED
    BY <1>2, <1>3 DEF Consistent

\* Ledger, dump file and process agree in every reachable state of the
\* batched Submit, whatever crashes, is lost, is late or is sent twice.
THEOREM ConsistentAlways == Spec => []Consistent
<1>1. TypeOK /\ Consistent /\ [Next]_vars => Consistent'
    <2> SUFFICES ASSUME TypeOK, Consistent, [Next]_vars
                 PROVE  Consistent'
        OBVIOUS
    <2>1. CASE Step
        BY <2>1, NoteRecordedSafe, ReuseManifestSafe, RefuseToGuessSafe, ChooseLayoutSafe,
           SendWholeSafe, WholeConfirmedSafe, SendChunksSafe, ChunksConfirmedSafe,
           SealTailSafe, SendTailSafe, TailConfirmedSafe, SendAnchorSafe,
           AnchorConfirmedSafe, SaveSafe
        DEF Step
    <2>2. CASE UNCHANGED vars
        <3>1. /\ UNCHANGED <<chain, flight, dump, did, count, seals, sealed, cur, dumpDID>>
              /\ UNCHANGED <<pc, i, found, names, nonce, mhash>>
            BY <2>2 DEF vars, submitVars, deliveryVars, runVars
        <3>2. NetSafe'
            BY <3>1, NetKept DEF Consistent
        <3>3. StageSafe'
            BY <3>1, StageKept DEF Consistent, RunSafe, Kept
        <3>4. CurSafe'
            BY <3>1, CurKept DEF Consistent, RunSafe
        <3>5. LandedSafe' /\ DIDSettled'
            BY <3>1 DEF Consistent, RunSafe, LandedSafe, DIDSettled
        <3> QED
            BY <3>2, <3>3, <3>4, <3>5 DEF Consistent, RunSafe
    <2> QED
        BY <2>1, <2>2, StartSafe, StopSafe, EnvironmentSafe DEF Next
<1> QED
    BY <1>1, InitSafe, TypeCorrect, PTL DEF Spec

-----------------------------------------------------------------------------
(* What the users of a backup rely on.                                     *)

\* A manifest whose parts are all on the ledger has its anchor there: the
\* window between manifest and anchor is closed, because the last group that
\* splitBatches makes always holds the last part together with the anchor.
THEOREM NoManifestIsUnanchored == Spec => []NoUnanchoredManifest
<1>1. Consistent => NoUnanchoredManifest
    <2> SUFFICES ASSUME Consistent, NEW t \in chain, PartsIn(chain, t.nonce, t.names)
                 PROVE  Anchored(chain, t.nonce)
        BY DEF NoUnanchoredManifest, Anchored
    <2>1. PICK u \in chain : u = PartTx(u.n, NParts - 1, t.nonce, t.names)
        BY PartsAreNat DEF PartsIn
    <2>2. u.kind = "manifest" /\ u.idx = NParts - 1 /\ u.nonce = t.nonce
        BY <2>1 DEF PartTx
    <2>3. LastIn(chain, chain)
        BY DEF Consistent, NetSafe
    <2> QED
        BY <2>2, <2>3 DEF LastIn
<1> QED
    BY <1>1, ConsistentAlways, PTL

\* The DID entry never names a backup that is not whole on the ledger, in
\* whatever order the Batches of several attempts and runs land.
THEOREM AnchorAlwaysSound == Spec => []AnchorSound
<1>1. Consistent => AnchorSound
    BY DEF Consistent, NetSafe
<1> QED
    BY <1>1, ConsistentAlways, PTL

\* After a successful Submit the dump file alone restores the backup, and it
\* records the DID entry the ledger holds (sendAnchor, finishBatched).
THEOREM DumpAlwaysSufficient == Spec => []DumpSufficient
<1>1. Consistent => DumpSufficient
    <2> SUFFICES ASSUME Consistent, pc = "done"
                 PROVE  dumpDID = did /\ (did # 0 => Restorable(dump, did))
        BY DEF DumpSufficient
    <2>1. dumpDID = did /\ did = mhash
        BY DEF Consistent, RunSafe, DIDSettled
    <2>2. Restorable(dump, mhash)
        BY RestorableGrows DEF Consistent, RunSafe, StageSafe, Kept
    <2> QED
        BY <2>1, <2>2
<1> QED
    BY <1>1, ConsistentAlways, PTL
=============================================================================
